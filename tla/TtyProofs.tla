----------------------------- MODULE TtyProofs -----------------------------
(***************************************************************************)
(* The terminal is one of the uses of the serial driver that UsartProofs   *)
(* is about, so what is proved there holds under it.  On top of that its   *)
(* types are proved, and that the screen shows the line that is edited.    *)
(***************************************************************************)
EXTENDS Tty, UsartProofs, Iteration

(* Every step of the terminal is a step of the driver, or leaves the       *)
(* driver alone.                                                           *)
LEMMA TerminalStep == [TtyNext]_allVars => [Next]_vars
<1>1. ASSUME NEW p \in Reader, Continues(p)
      PROVE  [Next]_vars
  BY <1>1 DEF Continues, ReadTake, ReadGet, EchoSend, ReadEdit, WriteSend, WriteReturn, Send, Next
<1>2. ASSUME NEW p \in Reader, NEW n \in Counts, ReadCall(p, n)
      PROVE  [Next]_vars
  BY <1>2 DEF ReadCall
<1>3. ASSUME NEW p \in Writer, NEW text \in Texts, WriteCall(p, text)
      PROVE  [Next]_vars
  BY <1>3 DEF WriteCall
<1>4. ASSUME NEW key \in Typed, Type(key)
      PROVE  [Next]_vars
  BY <1>4 DEF Type, Next
<1>5. CASE TtyHardware
  BY <1>5 DEF TtyHardware, Next
<1>6. CASE UNCHANGED allVars
  BY <1>6 DEF allVars
<1> QED
  BY <1>1, <1>2, <1>3, <1>4, <1>5, <1>6 DEF TtyNext

(* Readers and writers that interleave character by character use the      *)
(* driver through readb and writeb only.                                   *)
THEOREM TerminalUsesUsart == TtySpec => Spec
<1>1. TtyInit => Init
  BY DEF TtyInit
<1> QED
  BY <1>1, TerminalStep, PTL DEF TtySpec, Spec

(* However readers and writers interleave, what they hand to writeb leaves *)
(* in that order, and nothing of it is lost.                               *)
THEOREM TerminalSendsInOrder == TtySpec => []TxInOrder
BY TerminalUsesUsart, CharactersLeaveInOrder, PTL

(* No two readers get one key, and no key is lost before the ring          *)
(* overflows.                                                              *)
THEOREM TerminalReadsOnce == TtySpec => []RxExactlyOnce
BY TerminalUsesUsart, CharactersReadOnce, PTL
-----------------------------------------------------------------------------
(* A concatenation of sequences is a sequence.  By induction its prefixes  *)
(* are defined and have the right elements.                                *)
LEMMA FlattenLemma ==
  ASSUME NEW S, NEW s \in Seq(Seq(S))
  PROVE  FlattenSeq(s) \in Seq(S)
<1> DEFINE n == Len(s)
           F(g) == [i \in 1..n |-> IF i = 1 THEN s[i] ELSE g[i - 1] \o s[i]]
           flat == CHOOSE f : f = F(f)
<1>1. n \in Nat /\ \A i \in 1..n : s[i] \in Seq(S)
  BY ElementOfSeq, LenProperties
<1>2. CASE n = 0
  <2>1. s = <<>>
    BY <1>2, EmptySeq
  <2> QED
    BY <1>2, <2>1 DEF FlattenSeq
<1>3. CASE n # 0
  <2> DEFINE Part(k, g) == /\ g \in [1..(k + 1) -> Seq(S)]
                           /\ \A i \in 1..(k + 1) :
                                g[i] = IF i = 1 THEN s[i] ELSE g[i - 1] \o s[i]
             T == {k \in Nat : k < n => \E g : Part(k, g)}
  <2>1. \A k \in Nat : k \in T
    <3>1. 0 \in T
      <4>1. Part(0, [i \in 1..(0 + 1) |-> s[1]])
        BY <1>1, <1>3
      <4> HIDE DEF Part
      <4> QED
        BY <4>1
    <3>2. ASSUME NEW k \in Nat, k \in T
          PROVE  k + 1 \in T
      <4>1. CASE k + 1 < n
        <5>1. PICK g : Part(k, g)
          BY <1>1, <3>2, <4>1
        <5> DEFINE m == k + 1
                   e == g[m] \o s[m + 1]
                   h == [i \in 1..(m + 1) |-> IF i = m + 1 THEN e ELSE g[i]]
        <5>2. e \in Seq(S)
          <6>1. g[m] \in Seq(S) /\ s[m + 1] \in Seq(S)
            BY <1>1, <4>1, <5>1
          <6> QED
            BY <6>1, ConcatProperties
        <5>3. \A i \in 1..(m + 1) : h[i] = IF i = 1 THEN s[i] ELSE h[i - 1] \o s[i]
          <6>1. ASSUME NEW i \in 1..(m + 1)
                PROVE  h[i] = IF i = 1 THEN s[i] ELSE h[i - 1] \o s[i]
            <7>1. CASE i = m + 1
              <8>0. m \in Nat /\ m # m + 1 /\ m \in 1..(m + 1) /\ i # 1 /\ i - 1 = m
                BY <7>1
              <8>1. i # 1 /\ h[i] = e /\ i - 1 = m /\ h[m] = g[m]
                <9> HIDE DEF e, m
                <9> QED
                  BY <7>1, <8>0
              <8> QED
                BY <7>1, <8>1
            <7>2. CASE i # m + 1
              <8>1. i \in 1..(k + 1) /\ h[i] = g[i]
                BY <7>2
              <8>2. i # 1 => i - 1 \in 1..(m + 1) /\ h[i - 1] = g[i - 1]
                BY <7>2
              <8> HIDE DEF h
              <8> QED
                BY <5>1, <8>1, <8>2
            <7> QED
              BY <7>1, <7>2
          <6> QED
            BY <6>1
        <5>4. h \in [1..(m + 1) -> Seq(S)]
          <6> HIDE DEF e
          <6> QED
            BY <5>1, <5>2
        <5> HIDE DEF h
        <5>5. Part(k + 1, h)
          BY <5>3, <5>4
        <5> HIDE DEF Part
        <5> QED
          BY <5>5
      <4>2. CASE ~(k + 1 < n)
        BY <4>2
      <4> QED
        BY <4>1, <4>2
    <3> HIDE DEF T
    <3> QED
      BY <3>1, <3>2, SetInduction
  <2>2. PICK g : Part(n - 1, g)
    <3>1. n - 1 \in Nat /\ n - 1 < n
      BY <1>1, <1>3
    <3> HIDE DEF Part
    <3> QED
      BY <2>1, <3>1
  <2>3. g = F(g)
    <3>1. /\ g \in [1..n -> Seq(S)]
          /\ \A i \in 1..n : g[i] = IF i = 1 THEN s[i] ELSE g[i - 1] \o s[i]
      <4>1. (n - 1) + 1 = n
        BY <1>1
      <4> DEFINE j == (n - 1) + 1
      <4>2. /\ g \in [1..j -> Seq(S)]
            /\ \A i \in 1..j : g[i] = IF i = 1 THEN s[i] ELSE g[i - 1] \o s[i]
        BY <2>2
      <4>3. j = n
        BY <4>1
      <4> HIDE DEF j, n
      <4> QED
        BY <4>2, <4>3
    <3>2. g = [i \in 1..n |-> g[i]]
      BY <3>1
    <3> QED
      BY <3>1, <3>2
  <2>4. flat = F(flat)
    <3> HIDE DEF F
    <3> QED
      BY <2>3, Zenon
  <2> DEFINE A == flat
             U == {k \in Nat : k < n => A[k + 1] \in Seq(S)}
  <2> HIDE DEF A
  <2>5. \A i \in 1..n : A[i] = IF i = 1 THEN s[i] ELSE A[i - 1] \o s[i]
    <3>1. A = F(A)
      BY <2>4 DEF A
    <3> QED
      BY <3>1
  <2>6. \A k \in Nat : k \in U
    <3>1. 0 \in U
      BY <1>1, <1>3, <2>5
    <3>2. ASSUME NEW k \in Nat, k \in U
          PROVE  k + 1 \in U
      <4>1. CASE k + 1 < n
        <5>1. A[k + 1] \in Seq(S)
          BY <1>1, <3>2, <4>1
        <5>2. k + 2 \in 1..n /\ k + 2 # 1 /\ (k + 2) - 1 = k + 1 /\ (k + 1) + 1 = k + 2
          BY <1>1, <4>1
        <5>3. A[k + 2] = A[k + 1] \o s[k + 2] /\ s[k + 2] \in Seq(S)
          BY <1>1, <2>5, <5>2
        <5>4. A[k + 2] \in Seq(S)
          BY <5>1, <5>3, ConcatProperties
        <5> QED
          BY <5>2, <5>4
      <4>2. CASE ~(k + 1 < n)
        BY <4>2
      <4> QED
        BY <4>1, <4>2
    <3> HIDE DEF U
    <3> QED
      BY <3>1, <3>2, SetInduction
  <2>7. A[n] \in Seq(S)
    <3>1. n - 1 \in Nat /\ n - 1 < n /\ (n - 1) + 1 = n
      BY <1>1, <1>3
    <3>2. n - 1 \in U
      BY <2>6, <3>1
    <3> QED
      BY <3>1, <3>2
  <2>8. FlattenSeq(s) = flat[n]
    BY <1>3 DEF FlattenSeq
  <2> QED
    BY <2>7, <2>8 DEF A
<1> QED
  BY <1>2, <1>3

-----------------------------------------------------------------------------
(* What readb can return.                                                  *)

\* every slot that is in the ring, or is about to be read, holds the number of a
\* character that was received, whether or not the ring has overflowed
RxKnown ==
  /\ \A i \in 0..(RxCount - 1) : rx_fifo[Place(rx_tail, i, RxLen)] \in 1..received
  /\ \A r \in Reader : slot[r] # None => rx_fifo[slot[r]] \in 1..received

(* readb takes a slot off the ring.                                        *)
LEMMA TakeKnown ==
  ASSUME TypeOK, RxKnown, NEW r \in Reader, ReadbTake(r)
  PROVE  RxKnown'
<1>1. /\ rx_tail # rx_head /\ slot' = [slot EXCEPT ![r] = rx_tail]
      /\ rx_tail' = Inc(rx_tail, RxLen) /\ UNCHANGED <<rx_fifo, rx_head, received>>
  BY DEF ReadbTake
<1>2. /\ RxLen \in Nat \ {0, 1} /\ rx_head \in 0..(RxLen - 1) /\ rx_tail \in 0..(RxLen - 1)
      /\ slot \in [Reader -> 0..(RxLen - 1) \cup {None}]
  BY UsartAssumption DEF TypeOK
<1> DEFINE tmp == Inc(rx_tail, RxLen)
<1>3. /\ RxCount \in Nat \ {0} /\ Count(rx_head, tmp, RxLen) = RxCount - 1
      /\ Place(rx_tail, 0, RxLen) = rx_tail
      /\ \A i \in 0..(RxCount - 1) : Place(tmp, i, RxLen) = Place(rx_tail, i + 1, RxLen)
  BY <1>1, <1>2, TailLemma DEF RxCount
<1> HIDE DEF tmp
<1>4. rx_tail' = tmp /\ RxCount' = RxCount - 1
  BY <1>1, <1>3 DEF RxCount, tmp
<1>5. ASSUME NEW i \in 0..(RxCount - 1 - 1)
      PROVE  rx_fifo[Place(tmp, i, RxLen)] \in 1..received
  <2>1. i \in 0..(RxCount - 1) /\ i + 1 \in 0..(RxCount - 1)
    BY <1>3
  <2> QED
    BY <1>3, <2>1 DEF RxKnown
<1>6. ASSUME NEW q \in Reader, slot'[q] # None
      PROVE  rx_fifo[slot'[q]] \in 1..received
  <2>1. CASE q = r
    <3>1. slot'[q] = rx_tail /\ 0 \in 0..(RxCount - 1)
      BY <1>1, <1>2, <1>3, <2>1
    <3> QED
      BY <1>3, <3>1 DEF RxKnown
  <2>2. CASE q # r
    BY <1>1, <1>2, <1>6, <2>2 DEF RxKnown
  <2> QED
    BY <2>1, <2>2
<1> QED
  BY <1>1, <1>4, <1>5, <1>6 DEF RxKnown

(* The handler stores a character, over an old one or not.                 *)
LEMMA StoreKnown ==
  ASSUME UsartInv, RxKnown, InterruptRx
  PROVE  RxKnown'
<1> DEFINE tmp == Inc(rx_head, RxLen)
<1>1. /\ rx_data # None /\ rx_fifo' = [rx_fifo EXCEPT ![rx_head] = rx_data]
      /\ rx_head' = tmp /\ received' = received + 1 /\ UNCHANGED <<rx_tail, slot>>
  BY DEF InterruptRx
<1>2. /\ RxLen \in Nat \ {0, 1} /\ rx_head \in 0..(RxLen - 1) /\ rx_tail \in 0..(RxLen - 1)
      /\ slot \in [Reader -> 0..(RxLen - 1) \cup {None}]
      /\ rx_fifo \in [0..(RxLen - 1) -> Nat]
      /\ rx_data = received + 1 /\ received \in Nat
  BY <1>1, UsartAssumption DEF UsartInv, TypeOK, RxInv
<1>3. \A x \in 0..(RxLen - 1) : rx_fifo'[x] = rx_fifo[x] \/ rx_fifo'[x] = received + 1
  BY <1>1, <1>2
<1>4. rx_fifo'[rx_head] = received + 1 /\ received + 1 \in 1..received'
  BY <1>1, <1>2
<1>5. \A k \in 1..received : k \in 1..received'
  BY <1>1, <1>2
<1>6. ASSUME NEW q \in Reader, slot'[q] # None
      PROVE  rx_fifo'[slot'[q]] \in 1..received'
  <2>1. slot'[q] = slot[q] /\ slot[q] \in 0..(RxLen - 1) /\ rx_fifo[slot[q]] \in 1..received
    BY <1>1, <1>2, <1>6 DEF RxKnown
  <2> QED
    BY <1>3, <1>4, <1>5, <2>1
<1>7. ASSUME NEW i \in 0..(RxCount' - 1)
      PROVE  rx_fifo'[Place(rx_tail', i, RxLen)] \in 1..received'
  <2>1. CASE tmp = rx_tail
    <3>1. Count(tmp, tmp, RxLen) = 0
      BY <1>2, <2>1 DEF Count
    <3>2. RxCount' = 0
      BY <1>1, <2>1, <3>1 DEF RxCount
    <3> QED
      BY <3>2
  <2>2. CASE tmp # rx_tail
    <3>1. /\ RxCount \in Nat /\ Count(tmp, rx_tail, RxLen) = RxCount + 1
          /\ Place(rx_tail, RxCount, RxLen) = rx_head
      BY <1>2, <2>2, HeadLemma DEF RxCount
    <3> HIDE DEF tmp
    <3>2. RxCount' = RxCount + 1 /\ rx_tail' = rx_tail
      BY <1>1, <3>1 DEF RxCount
    <3>3. CASE i = RxCount
      BY <1>4, <3>1, <3>2, <3>3
    <3>4. CASE i # RxCount
      <4>1. i \in 0..(RxCount - 1)
        BY <3>1, <3>2, <3>4
      <4>2. Place(rx_tail, i, RxLen) \in 0..(RxLen - 1)
        <5>1. RxCount \in 0..(RxLen - 1)
          BY <1>2, RemainderLemma DEF RxCount
        <5>2. i \in 0..(RxLen - 1) /\ RxLen \in Nat \ {0}
          BY <1>2, <4>1, <5>1
        <5> QED
          BY <1>2, <5>2, RemainderLemma
      <4>3. rx_fifo[Place(rx_tail, i, RxLen)] \in 1..received
        BY <4>1 DEF RxKnown
      <4> QED
        BY <1>3, <1>4, <1>5, <3>2, <4>2, <4>3
    <3> QED
      BY <3>3, <3>4
  <2> QED
    BY <2>1, <2>2
<1> QED
  BY <1>6, <1>7 DEF RxKnown

(* RxKnown is kept by the driver.                                          *)
LEMMA KnownStep ==
  ASSUME UsartInv, RxKnown, [Next]_vars
  PROVE  RxKnown'
<1>1. ASSUME UNCHANGED <<rx_fifo, rx_head, rx_tail, received>>,
             \A r \in Reader : slot'[r] # None => slot'[r] = slot[r]
      PROVE  RxKnown'
  BY <1>1 DEF RxKnown, RxCount
<1>2. ASSUME NEW r \in Reader, ReadbReturn(r)
      PROVE  RxKnown'
  <2>1. slot \in [Reader -> 0..(RxLen - 1) \cup {None}]
    BY DEF UsartInv, TypeOK
  <2> QED
    BY <1>1, <1>2, <2>1 DEF ReadbReturn
<1>3. ASSUME NEW r \in Reader, ReadbTake(r)
      PROVE  RxKnown'
  BY <1>3, TakeKnown DEF UsartInv
<1>4. CASE InterruptRx
  BY <1>4, StoreKnown
<1>5. CASE Arrive
  BY <1>1, <1>5 DEF Arrive
<1>6. CASE UNCHANGED rxVars
  BY <1>1, <1>6 DEF rxVars
<1>7. Writeb \/ InterruptTx \/ InterruptTxIdle \/ ShiftOut \/ UNCHANGED vars => UNCHANGED rxVars
  BY DEF Writeb, InterruptTx, InterruptTxIdle, ShiftOut, vars
<1> QED
  BY <1>2, <1>3, <1>4, <1>5, <1>6, <1>7 DEF Next, Interrupt

-----------------------------------------------------------------------------
(* The inductive invariant of the terminal: there is a key for every       *)
(* number that readb may return, and who echoes has read a character.      *)
KeysInv == Len(keys) = received + (IF rx_data = None THEN 0 ELSE 1)
EchoInv == \A p \in Reader : at[p] = "echo" => c[p] \in Char

TtyInv == UsartInv /\ TtyTypeOK /\ RxKnown /\ KeysInv /\ EchoInv

(* The characters that follow from a key or a text.                        *)
LEMMA CharLemma ==
  /\ \A key \in Typed : Mapped(key) \in Char
  /\ \A ch \in Char : Cooked(ch) \in Seq(Char) /\ Echo(ch) \in Seq(Char)
<1>1. \A key \in Typed : Mapped(key) \in Char
  BY DEF Mapped, Typed, Char
<1>2. \A ch \in Char : Cooked(ch) \in Seq(Char)
  <2> SUFFICES ASSUME NEW ch \in Char
               PROVE  Cooked(ch) \in Seq(Char)
    OBVIOUS
  <2>1. "cr" \in Char /\ "lf" \in Char
    BY DEF Char
  <2>2. <<"cr", "lf">> \in Seq(Char) /\ <<ch>> \in Seq(Char)
    BY <2>1
  <2> QED
    BY <2>2 DEF Cooked
<1>3. \A ch \in Char : Echo(ch) \in Seq(Char)
  <2>1. "bs" \in Char /\ "space" \in Char
    BY DEF Char
  <2>2. <<"bs", "space", "bs">> \in Seq(Char)
    BY <2>1
  <2> QED
    BY <1>2, <2>2 DEF Echo
<1> QED
  BY <1>1, <1>2, <1>3

(* The line after an edit is a line.                                       *)
LEMMA EditLemma ==
  ASSUME NEW p, cbuff[p] \in Seq(Char), c[p] \in Char
  PROVE  Edit(p) \in Seq(Char)
<1> DEFINE line == cbuff[p]
           n == Len(line) - 1
<1>1. CASE c[p] = "bs" /\ line # <<>>
  <2>1. Len(line) \in Nat /\ Len(line) # 0
    BY <1>1, EmptySeq, LenProperties
  <2>2. \A k \in 1..n : line[k] \in Char
    BY <2>1, ElementOfSeq
  <2> HIDE DEF line
  <2>3. n \in Int /\ 1 \in Int
    BY <2>1
  <2>4. SubSeq(line, 1, n) \in Seq(Char)
    <3> HIDE DEF n
    <3> QED
      BY <2>2, <2>3, SubSeqProperties
  <2>5. Edit(p) = SubSeq(line, 1, n)
    BY <1>1 DEF Edit, Front, Underflows, line
  <2> QED
    BY <2>4, <2>5
<1>2. CASE c[p] = "eot" \/ Underflows(p)
  BY <1>2 DEF Edit, Underflows
<1>3. CASE ~(c[p] = "bs" /\ line # <<>>) /\ ~(c[p] = "eot" \/ Underflows(p))
  <2>1. Edit(p) = Append(line, c[p])
    BY <1>3 DEF Edit
  <2> QED
    BY <2>1
<1> QED
  BY <1>1, <1>2, <1>3

(* What tty_write has to send, from wherever its index starts.             *)
LEMMA WriteLemma ==
  ASSUME NEW text \in Seq(Char), NEW i \in 0..Len(text)
  PROVE  FlattenSeq([k \in 1..(Len(text) - i) |-> Cooked(text[i + k])]) \in Seq(Char)
<1> DEFINE n == Len(text) - i
           s == [k \in 1..n |-> Cooked(text[i + k])]
<1>1. n \in Nat /\ \A k \in 1..n : text[i + k] \in Char
  <2>1. Len(text) \in Nat
    OBVIOUS
  <2>2. \A k \in 1..n : i + k \in 1..Len(text)
    BY <2>1
  <2> QED
    BY <2>1, <2>2, ElementOfSeq
<1>2. s \in Seq(Seq(Char))
  <2> HIDE DEF n
  <2>1. s \in [1..n -> Seq(Char)]
    BY <1>1, CharLemma
  <2> DEFINE S == Seq(Char)
  <2>2. s \in [1..n -> S]
    BY <2>1
  <2> HIDE DEF s, S
  <2>3. s \in Seq(S)
    BY <1>1, <2>2
  <2> QED
    BY <2>3 DEF S
<1> HIDE DEF s
<1>3. FlattenSeq(s) \in Seq(Char)
  BY <1>2, FlattenLemma
<1> QED
  BY <1>3 DEF s

(* A sender hands over its next character.                                 *)
LEMMA SendStep ==
  ASSUME TtyInv, UsartInv', RxKnown', NEW p \in Reader, Send(p),
         UNCHANGED <<keys, at, c, cbuff, room, calls, since>>
  PROVE  TtyInv'
<1>1. /\ out[p] # <<>> /\ sent' = Append(sent, [char |-> Head(out[p]), by |-> p])
      /\ out' = [out EXCEPT ![p] = Tail(@)]
      /\ accepted' = accepted + 1 /\ UNCHANGED rxVars
  BY DEF Send, Writeb
<1>2. out \in [Reader -> Seq(Char)] /\ out[p] \in Seq(Char)
  BY DEF TtyInv, TtyTypeOK
<1>3. Head(out[p]) \in Char /\ Tail(out[p]) \in Seq(Char)
  BY <1>1, <1>2
<1>4. out' \in [Reader -> Seq(Char)]
  BY <1>1, <1>2, <1>3
<1>5. sent' \in Seq([char : Char, by : Reader]) /\ Len(sent') = accepted'
  <2>1. /\ sent \in Seq([char : Char, by : Reader]) /\ Len(sent) = accepted
    BY DEF TtyInv, TtyTypeOK
  <2> DEFINE e == [char |-> Head(out[p]), by |-> p]
             E == [char : Char, by : Reader]
  <2>2. e \in E
    BY <1>3
  <2> HIDE DEF e, E
  <2>3. Append(sent, e) \in Seq(E) /\ Len(Append(sent, e)) = Len(sent) + 1
    BY <2>1, <2>2, AppendProperties DEF E
  <2> QED
    BY <1>1, <2>1, <2>3 DEF e, E
<1>6. TtyTypeOK'
  BY <1>4, <1>5 DEF TtyInv, TtyTypeOK, UsartInv
<1> QED
  BY <1>1, <1>6 DEF TtyInv, KeysInv, EchoInv, rxVars

(* ll_read has returned a character that somebody typed.                   *)
LEMMA ReadGetStep ==
  ASSUME TtyInv, UsartInv', RxKnown', NEW p \in Reader, ReadGet(p)
  PROVE  TtyInv'
<1>1. /\ c' = [c EXCEPT ![p] = Mapped(keys[rx_fifo[slot[p]]])]
      /\ out' = [out EXCEPT ![p] = Echo(c'[p])]
      /\ at' = [at EXCEPT ![p] = "echo"]
      /\ UNCHANGED <<keys, sent, cbuff, room, calls, since>>
      /\ slot[p] # None /\ UNCHANGED <<accepted, received, rx_data>>
  BY DEF ReadGet, ReadbReturn, txVars
<1>2. /\ c \in [Reader -> Char \cup {None}] /\ out \in [Reader -> Seq(Char)]
      /\ at \in [Reader -> {"user", "read", "echo", "write"}] /\ keys \in Seq(Typed)
  BY DEF TtyInv, TtyTypeOK
<1> DEFINE n == rx_fifo[slot[p]]
           ch == Mapped(keys[n])
<1>3. ch \in Char
  <2>1. n \in 1..received
    BY <1>1 DEF TtyInv, RxKnown
  <2>2. received \in Nat
    BY DEF TtyInv, UsartInv, TypeOK
  <2>3. n \in 1..Len(keys)
    BY <2>1, <2>2 DEF TtyInv, KeysInv
  <2> HIDE DEF n
  <2>4. keys[n] \in Typed
    BY <1>2, <2>3, ElementOfSeq
  <2> QED
    BY <2>4, CharLemma
<1> HIDE DEF ch
<1>4. c' = [c EXCEPT ![p] = ch]
  BY <1>1 DEF ch
<1>5. c'[p] = ch /\ c' \in [Reader -> Char \cup {None}]
  BY <1>2, <1>3, <1>4
<1>6. Echo(ch) \in Seq(Char) /\ out' = [out EXCEPT ![p] = Echo(ch)]
  BY <1>1, <1>3, <1>5, CharLemma
<1>7. out' \in [Reader -> Seq(Char)] /\ at' \in [Reader -> {"user", "read", "echo", "write"}]
  BY <1>1, <1>2, <1>6
<1>8. TtyTypeOK'
  BY <1>1, <1>5, <1>7 DEF TtyInv, TtyTypeOK, UsartInv
<1>9. EchoInv'
  BY <1>1, <1>2, <1>3, <1>4 DEF TtyInv, EchoInv
<1> QED
  BY <1>1, <1>8, <1>9 DEF TtyInv, KeysInv

(* The rest of the loop body of tty_read.                                  *)
LEMMA ReadEditStep ==
  ASSUME TtyInv, UsartInv', RxKnown', NEW p \in Reader, ReadEdit(p)
  PROVE  TtyInv'
<1>1. /\ cbuff' = [cbuff EXCEPT ![p] = Edit(p)] /\ c' = [c EXCEPT ![p] = None]
      /\ at[p] = "echo" /\ UNCHANGED <<vars, keys, sent, out, room, calls, since>>
  BY DEF ReadEdit
<1>2. /\ c \in [Reader -> Char \cup {None}] /\ cbuff \in [Reader -> Seq(Char)]
      /\ at \in [Reader -> {"user", "read", "echo", "write"}] /\ c[p] \in Char
  BY <1>1 DEF TtyInv, TtyTypeOK, EchoInv
<1>3. Edit(p) \in Seq(Char)
  BY <1>2, EditLemma
<1>4. cbuff' \in [Reader -> Seq(Char)] /\ c' \in [Reader -> Char \cup {None}]
  BY <1>1, <1>2, <1>3
<1>5. PICK l \in {"user", "read"} : at' = [at EXCEPT ![p] = l]
  BY DEF ReadEdit
<1>6. at' \in [Reader -> {"user", "read", "echo", "write"}]
  BY <1>2, <1>5
<1>7. TtyTypeOK'
  BY <1>1, <1>4, <1>6 DEF TtyInv, TtyTypeOK, UsartInv, vars, txVars
<1>8. EchoInv'
  BY <1>1, <1>2, <1>5 DEF TtyInv, EchoInv
<1> QED
  BY <1>1, <1>7, <1>8 DEF TtyInv, KeysInv, vars, rxVars

(* A call of tty_read or tty_write, or the return of the latter.           *)
LEMMA CallSteps ==
  ASSUME TtyInv, UsartInv', RxKnown',
         \/ \E p \in Reader, n \in Counts : ReadCall(p, n)
         \/ \E p \in Writer, text \in Texts : WriteCall(p, text)
         \/ \E p \in Reader : WriteReturn(p)
  PROVE  TtyInv'
<1>1. /\ at \in [Reader -> {"user", "read", "echo", "write"}] /\ out \in [Reader -> Seq(Char)]
      /\ cbuff \in [Reader -> Seq(Char)] /\ room \in [Reader -> Counts \cup {0}]
      /\ calls \in 0..MaxCalls /\ since \in [Reader -> 0..MaxTx]
      /\ Len(sent) = accepted /\ accepted \in 0..MaxTx /\ MaxCalls \in Nat
  BY TtyAssumption DEF TtyInv, TtyTypeOK, TypeOK
<1>2. ASSUME NEW p \in Reader, NEW n \in Counts, ReadCall(p, n)
      PROVE  TtyInv'
  <2>1. /\ at' = [at EXCEPT ![p] = "read"] /\ room' = [room EXCEPT ![p] = n]
        /\ cbuff' = [cbuff EXCEPT ![p] = <<>>] /\ since' = [since EXCEPT ![p] = Len(sent)]
        /\ calls < MaxCalls /\ calls' = calls + 1 /\ UNCHANGED <<vars, keys, sent, out, c>>
    BY <1>2 DEF ReadCall
  <2>2. <<>> \in Seq(Char)
    OBVIOUS
  <2>3. /\ at' \in [Reader -> {"user", "read", "echo", "write"}]
        /\ room' \in [Reader -> Counts \cup {0}] /\ cbuff' \in [Reader -> Seq(Char)]
        /\ calls' \in 0..MaxCalls
    BY <1>1, <2>1, <2>2
  <2>4. since' \in [Reader -> 0..MaxTx]
    BY <1>1, <2>1
  <2>5. TtyTypeOK'
    BY <2>1, <2>3, <2>4 DEF TtyInv, TtyTypeOK, UsartInv, vars, txVars
  <2>6. EchoInv'
    BY <1>1, <2>1 DEF TtyInv, EchoInv
  <2> QED
    BY <2>1, <2>5, <2>6 DEF TtyInv, KeysInv, vars, rxVars
<1>3. ASSUME NEW p \in Reader, NEW s \in Seq(Char), out' = [out EXCEPT ![p] = s],
             NEW l \in {"user", "write"}, at' = [at EXCEPT ![p] = l], calls' \in 0..MaxCalls,
             UNCHANGED <<vars, keys, sent, c, cbuff, room, since>>
      PROVE  TtyInv'
  <2>1. /\ at' \in [Reader -> {"user", "read", "echo", "write"}]
        /\ out' \in [Reader -> Seq(Char)]
    BY <1>1, <1>3
  <2>2. TtyTypeOK'
    BY <1>3, <2>1 DEF TtyInv, TtyTypeOK, UsartInv, vars, txVars
  <2>3. EchoInv'
    BY <1>1, <1>3 DEF TtyInv, EchoInv
  <2> QED
    BY <1>3, <2>2, <2>3 DEF TtyInv, KeysInv, vars, rxVars
<1>4. ASSUME NEW p \in Writer, NEW text \in Texts, WriteCall(p, text)
      PROVE  TtyInv'
  <2>1. p \in Reader /\ text \in Seq(Char)
    BY TtyAssumption
  <2>2. /\ at' = [at EXCEPT ![p] = "write"] /\ calls < MaxCalls /\ calls' = calls + 1
        /\ UNCHANGED <<vars, keys, sent, c, cbuff, room, since>>
        /\ \E i \in 0..Len(text) :
             out' = [out EXCEPT ![p] = FlattenSeq([k \in 1..(Len(text) - i) |-> Cooked(text[i + k])])]
    BY <1>4 DEF WriteCall
  <2>3. PICK s \in Seq(Char) : out' = [out EXCEPT ![p] = s]
    <3>1. PICK i \in 0..Len(text) :
            out' = [out EXCEPT ![p] = FlattenSeq([k \in 1..(Len(text) - i) |-> Cooked(text[i + k])])]
      BY <2>2
    <3> DEFINE s == FlattenSeq([k \in 1..(Len(text) - i) |-> Cooked(text[i + k])])
    <3>2. s \in Seq(Char)
      BY <2>1, WriteLemma
    <3>3. out' = [out EXCEPT ![p] = s]
      BY <3>1
    <3> HIDE DEF s
    <3> QED
      BY <3>2, <3>3
  <2>4. calls' \in 0..MaxCalls
    BY <1>1, <2>2
  <2> QED
    BY <1>3, <2>1, <2>2, <2>3, <2>4
<1>5. ASSUME NEW p \in Reader, WriteReturn(p)
      PROVE  TtyInv'
  <2>1. <<>> \in Seq(Char)
    OBVIOUS
  <2>2. /\ at' = [at EXCEPT ![p] = "user"] /\ out' = [out EXCEPT ![p] = <<>>]
        /\ UNCHANGED <<vars, keys, sent, c, cbuff, room, calls, since>>
    BY <1>5 DEF WriteReturn
  <2> QED
    BY <1>1, <1>3, <2>1, <2>2
<1> QED
  BY <1>2, <1>4, <1>5

(* Somebody types.                                                         *)
LEMMA TypeStep ==
  ASSUME TtyInv, UsartInv', RxKnown', NEW key \in Typed, Type(key)
  PROVE  TtyInv'
<1>1. /\ keys' = Append(keys, key) /\ rx_data = None /\ rx_data' = received + 1
      /\ received < MaxRx
      /\ UNCHANGED <<sent, at, out, c, cbuff, room, calls, since, accepted, received>>
  BY DEF Type, Arrive, txVars
<1>2. keys \in Seq(Typed) /\ Len(keys) = received /\ received \in Nat /\ MaxRx \in Nat
  BY <1>1, UsartAssumption DEF TtyInv, TtyTypeOK, KeysInv, UsartInv, TypeOK
<1>3. keys' \in Seq(Typed) /\ Len(keys') = received + 1
  BY <1>1, <1>2, AppendProperties
<1>4. rx_data' # None
  BY <1>1, <1>2, UsartAssumption
<1>5. TtyTypeOK'
  BY <1>1, <1>2, <1>3 DEF TtyInv, TtyTypeOK, UsartInv
<1>6. KeysInv'
  BY <1>1, <1>3, <1>4 DEF KeysInv
<1> QED
  BY <1>1, <1>5, <1>6 DEF TtyInv, EchoInv

(* A step of the driver alone.                                             *)
LEMMA DriverStep ==
  ASSUME TtyInv, UsartInv', RxKnown', UNCHANGED ttyVars,
         InterruptRx \/ InterruptTx \/ InterruptTxIdle \/ ShiftOut
           \/ (\E p \in Reader : ReadbTake(p)) \/ UNCHANGED vars
  PROVE  TtyInv'
<1>1. /\ accepted' = accepted
      /\ received' + (IF rx_data' = None THEN 0 ELSE 1) = received + (IF rx_data = None THEN 0 ELSE 1)
  <2>1. CASE InterruptRx
    <3>1. rx_data # None /\ rx_data' = None /\ received' = received + 1 /\ UNCHANGED txVars
      BY <2>1 DEF InterruptRx
    <3>2. received \in Nat
      BY DEF TtyInv, UsartInv, TypeOK
    <3> QED
      BY <3>1, <3>2 DEF txVars
  <2>2. CASE ~InterruptRx
    BY <2>2 DEF InterruptTx, InterruptTxIdle, ShiftOut, ReadbTake, txVars, rxVars, vars
  <2> QED
    BY <2>1, <2>2
<1>2. TtyTypeOK'
  BY <1>1 DEF TtyInv, TtyTypeOK, UsartInv, ttyVars
<1> QED
  BY <1>1, <1>2 DEF TtyInv, KeysInv, EchoInv, ttyVars

(* TtyInv is inductive, given what is proved of the driver.                *)
LEMMA TtyStep ==
  ASSUME TtyInv, UsartInv', [TtyNext]_allVars
  PROVE  TtyInv'
<1>1. RxKnown'
  BY TerminalStep, KnownStep DEF TtyInv
<1>2. ASSUME NEW p \in Reader, Continues(p)
      PROVE  TtyInv'
  <2>1. CASE ReadTake(p)
    BY <1>1, <2>1, DriverStep DEF ReadTake
  <2>2. CASE ReadGet(p)
    BY <1>1, <2>2, ReadGetStep
  <2>3. CASE EchoSend(p) \/ WriteSend(p)
    BY <1>1, <2>3, SendStep DEF EchoSend, WriteSend
  <2>4. CASE ReadEdit(p)
    BY <1>1, <2>4, ReadEditStep
  <2>5. CASE WriteReturn(p)
    BY <1>1, <2>5, CallSteps
  <2> QED
    BY <1>2, <2>1, <2>2, <2>3, <2>4, <2>5 DEF Continues
<1>3. CASE \/ \E p \in Reader, n \in Counts : ReadCall(p, n)
           \/ \E p \in Writer, text \in Texts : WriteCall(p, text)
  BY <1>1, <1>3, CallSteps
<1>4. CASE \E key \in Typed : Type(key)
  BY <1>1, <1>4, TypeStep
<1>5. CASE TtyHardware
  BY <1>1, <1>5, DriverStep DEF TtyHardware, Interrupt
<1>6. CASE UNCHANGED allVars
  <2>1. UNCHANGED vars /\ UNCHANGED ttyVars
    BY <1>6 DEF allVars
  <2> QED
    BY <1>1, <2>1, DriverStep
<1> QED
  BY <1>2, <1>3, <1>4, <1>5, <1>6 DEF TtyNext

(* The first state of the terminal.                                        *)
LEMMA TtyInitLemma ==
  ASSUME TtyInit
  PROVE  TtyInv
<1>1. UsartInv
  BY InitLemma DEF TtyInit
<1>2. RxCount = 0
  BY UsartAssumption DEF TtyInit, Init, RxCount, Count
<1>3. RxKnown
  BY <1>2 DEF TtyInit, Init, RxKnown
<1>4. <<>> \in Seq(Char) /\ keys \in Seq(Typed) /\ sent \in Seq([char : Char, by : Reader])
      /\ Len(keys) = 0 /\ Len(sent) = 0
  BY DEF TtyInit
<1>5. TtyTypeOK
  BY <1>1, <1>4, TtyAssumption, UsartAssumption DEF TtyTypeOK, TtyInit, Init, UsartInv
<1> QED
  BY <1>1, <1>3, <1>4, <1>5 DEF TtyInv, KeysInv, EchoInv, TtyInit, Init

(* TtyInv holds whoever reads, writes and types, and also after the        *)
(* receive ring has overflowed.                                            *)
THEOREM TtyInvariant == TtySpec => []TtyInv
<1>1. TtyInit => TtyInv
  BY TtyInitLemma
<1>2. TtyInv /\ UsartInv' /\ [TtyNext]_allVars => TtyInv'
  BY TtyStep
<1>3. TtySpec => []UsartInv
  BY TerminalUsesUsart, UsartInvariant, PTL
<1> QED
  BY <1>1, <1>2, <1>3, PTL DEF TtySpec

(* The variables keep their types: tty_read echoes and stores only         *)
(* characters that were typed, and what writeb has accepted is what        *)
(* readers and writers have sent.                                          *)
THEOREM TtyTypesCorrect == TtySpec => []TtyTypeOK
<1>1. TtyInv => TtyTypeOK
  BY DEF TtyInv
<1> QED
  BY <1>1, TtyInvariant, PTL
-----------------------------------------------------------------------------
(* What the screen shows: the fold over the characters sent.               *)

\* the screen before anything was sent
Blank == [line |-> <<>>, col |-> 0]

\* the screen after the first n of the characters s
Shown(s, n) == FoldLeft(Put, Blank, [k \in 1..n |-> s[k]])

(* The last of a set of positions.                                         *)
LEMMA LastLemma ==
  ASSUME NEW k \in Nat, NEW u \in SUBSET (1..(k + 1)), k + 1 \in u
  PROVE  Max(u) = k + 1 /\ u \ {k + 1} \in SUBSET (1..k)
<1>1. \A y \in u : k + 1 >= y
  OBVIOUS
<1>2. Max(u) \in u /\ \A y \in u : Max(u) >= y
  BY <1>1 DEF Max
<1>3. Max(u) \in 1..(k + 1) /\ Max(u) >= k + 1
  BY <1>2
<1> QED
  BY <1>3

(* How FoldLeft computes: over the sets of positions, the last one first.  *)
LEMMA FoldLemma ==
  ASSUME NEW n \in Nat, NEW s, DOMAIN s = 1..n
  PROVE  \E iter : /\ FoldLeft(Put, Blank, s) = iter[1..n]
                   /\ iter[1..0] = Blank
                   /\ \A m \in Nat : m < n => iter[1..(m + 1)] = Put(iter[1..m], s[m + 1])
<1> DEFINE Rest(u) == u \ {Max(u)}
           E(g, u) == IF u = {} THEN Blank ELSE Put(g[Rest(u)], s[Max(u)])
           F(g) == [u \in SUBSET (1..n) |-> E(g, u)]
           fold == CHOOSE f : f = F(f)
           Part(k, g) == g = [u \in SUBSET (1..k) |-> E(g, u)]
           T == {k \in Nat : \E g : Part(k, g)}
<1>1. FoldLeft(Put, Blank, s) = fold[1..n]
  BY DEF FoldLeft, MapThenFoldSet
<1>2. \A k \in Nat : k \in T
  <2>1. 0 \in T
    <3> DEFINE g == [u \in SUBSET (1..0) |-> Blank]
    <3>1. \A u \in SUBSET (1..0) : E(g, u) = Blank
      OBVIOUS
    <3> HIDE DEF E
    <3>2. Part(0, g)
      BY <3>1
    <3> HIDE DEF Part, g
    <3> QED
      BY <3>2
  <2>2. ASSUME NEW k \in Nat, k \in T
        PROVE  k + 1 \in T
    <3>1. PICK g : Part(k, g)
      BY <2>2
    <3> DEFINE h == [u \in SUBSET (1..(k + 1)) |-> E(g, u)]
    <3>2. SUBSET (1..k) \subseteq SUBSET (1..(k + 1))
      OBVIOUS
    <3> HIDE DEF E
    <3>3. \A u \in SUBSET (1..k) : h[u] = g[u]
      BY <3>1, <3>2
    <3>4. \A u \in SUBSET (1..(k + 1)) : u # {} => Rest(u) \in SUBSET (1..k)
      <4> SUFFICES ASSUME NEW u \in SUBSET (1..(k + 1)), u # {}
                   PROVE  Rest(u) \in SUBSET (1..k)
        OBVIOUS
      <4>1. CASE k + 1 \in u
        BY <4>1, LastLemma
      <4>2. CASE k + 1 \notin u
        <5>1. u \subseteq 1..k /\ Rest(u) \subseteq u
          BY <4>2
        <5> HIDE DEF Rest
        <5> QED
          BY <5>1
      <4> QED
        BY <4>1, <4>2
    <3> HIDE DEF h
    <3>5. \A u \in SUBSET (1..(k + 1)) : E(h, u) = E(g, u)
      BY <3>3, <3>4 DEF E
    <3>6. h = [u \in SUBSET (1..(k + 1)) |-> E(h, u)]
      BY <3>5 DEF h
    <3>7. Part(k + 1, h)
      BY <3>6
    <3> HIDE DEF Part
    <3> QED
      BY <3>7
  <2> HIDE DEF T
  <2> QED
    BY <2>1, <2>2, SetInduction
<1>3. fold = F(fold)
  <2>1. PICK g : Part(n, g)
    BY <1>2
  <2>2. g = F(g)
    BY <2>1
  <2> HIDE DEF F
  <2> QED
    BY <2>2, Zenon
<1> DEFINE A == fold
<1> HIDE DEF A
<1>4. \A u \in SUBSET (1..n) : A[u] = E(A, u)
  <2>1. A = F(A)
    BY <1>3 DEF A
  <2> HIDE DEF E
  <2> QED
    BY <2>1
<1>5. A[1..0] = Blank
  <2>1. 1..0 = {} /\ 1..0 \in SUBSET (1..n)
    OBVIOUS
  <2> QED
    BY <1>4, <2>1
<1>6. ASSUME NEW m \in Nat, m < n
      PROVE  A[1..(m + 1)] = Put(A[1..m], s[m + 1])
  <2> DEFINE u == 1..(m + 1)
  <2>1. u \in SUBSET (1..n) /\ u \in SUBSET (1..(m + 1)) /\ m + 1 \in u /\ u \ {m + 1} = 1..m
    BY <1>6
  <2> HIDE DEF u
  <2>2. Max(u) = m + 1 /\ Rest(u) = 1..m
    BY <2>1, LastLemma
  <2>3. A[u] = Put(A[Rest(u)], s[Max(u)])
    BY <1>4, <2>1
  <2> QED
    BY <2>2, <2>3 DEF u
<1> QED
  BY <1>1, <1>5, <1>6 DEF A

(* The screens after 0, 1, .. n characters.                                *)
LEMMA ShownLemma ==
  ASSUME NEW n \in Nat, NEW s
  PROVE  \E iter : /\ Shown(s, n) = iter[1..n]
                   /\ iter[1..0] = Blank
                   /\ \A m \in Nat : m < n => iter[1..(m + 1)] = Put(iter[1..m], s[m + 1])
<1> DEFINE a == [k \in 1..n |-> s[k]]
<1>1. DOMAIN a = 1..n /\ \A m \in Nat : m < n => a[m + 1] = s[m + 1]
  OBVIOUS
<1>2. Shown(s, n) = FoldLeft(Put, Blank, a)
  BY DEF Shown
<1> HIDE DEF a
<1>3. PICK iter : /\ FoldLeft(Put, Blank, a) = iter[1..n]
                  /\ iter[1..0] = Blank
                  /\ \A m \in Nat : m < n => iter[1..(m + 1)] = Put(iter[1..m], a[m + 1])
  BY <1>1, FoldLemma
<1> QED
  BY <1>1, <1>2, <1>3

(* They are determined by that.                                            *)
LEMMA OneShown ==
  ASSUME NEW n \in Nat, NEW s, NEW iter, iter[1..0] = Blank,
         \A m \in Nat : m < n => iter[1..(m + 1)] = Put(iter[1..m], s[m + 1])
  PROVE  Shown(s, n) = iter[1..n]
<1>1. PICK g : /\ Shown(s, n) = g[1..n]
               /\ g[1..0] = Blank
               /\ \A m \in Nat : m < n => g[1..(m + 1)] = Put(g[1..m], s[m + 1])
  BY ShownLemma
<1> DEFINE T == {m \in Nat : m <= n => iter[1..m] = g[1..m]}
<1>2. 0 \in T
  BY <1>1
<1>3. ASSUME NEW m \in Nat, m \in T
      PROVE  m + 1 \in T
  BY <1>1, <1>3
<1>4. n \in T
  <2> HIDE DEF T
  <2> QED
    BY <1>2, <1>3, SetInduction
<1> QED
  BY <1>1, <1>4

(* One character more.                                                     *)
LEMMA MoreShown ==
  ASSUME NEW n \in Nat, NEW s
  PROVE  Shown(s, 0) = Blank /\ Shown(s, n + 1) = Put(Shown(s, n), s[n + 1])
<1>0. n + 1 \in Nat
  OBVIOUS
<1>1. PICK iter : /\ Shown(s, n + 1) = iter[1..(n + 1)]
                  /\ iter[1..0] = Blank
                  /\ \A m \in Nat : m < n + 1 => iter[1..(m + 1)] = Put(iter[1..m], s[m + 1])
  BY <1>0, ShownLemma
<1>2. \A m \in Nat : m < n => iter[1..(m + 1)] = Put(iter[1..m], s[m + 1])
  BY <1>1
<1>3. Shown(s, n) = iter[1..n]
  BY <1>1, <1>2, OneShown
<1>4. Shown(s, 0) = Blank
  BY ShownLemma
<1> QED
  BY <1>1, <1>3, <1>4

(* The screen depends on nothing else.                                     *)
LEMMA SameShown ==
  ASSUME NEW n \in Nat, NEW s, NEW t, \A k \in 1..n : s[k] = t[k]
  PROVE  Shown(s, n) = Shown(t, n)
<1>1. PICK iter : /\ Shown(t, n) = iter[1..n]
                  /\ iter[1..0] = Blank
                  /\ \A m \in Nat : m < n => iter[1..(m + 1)] = Put(iter[1..m], t[m + 1])
  BY ShownLemma
<1>2. \A m \in Nat : m < n => iter[1..(m + 1)] = Put(iter[1..m], s[m + 1])
  BY <1>1
<1> QED
  BY <1>1, <1>2, OneShown

\* a screen that Put can leave behind
ScreenOK(screen) == screen.line \in Seq(Char) /\ screen.col \in 0..Len(screen.line)

(* What one character makes of a screen.                                   *)
LEMMA PutLemma ==
  ASSUME NEW screen, ScreenOK(screen), NEW ch \in Char
  PROVE  ScreenOK(Put(screen, ch))
<1> DEFINE line == screen.line
           col == screen.col
           m == IF col = Len(line) THEN col + 1 ELSE Len(line)
<1>1. line \in Seq(Char) /\ Len(line) \in Nat /\ col \in 0..Len(line) /\ "space" \in Char
  BY DEF ScreenOK, Char
<1>2. CASE ch = "lf"
  <2> DEFINE new == [k \in 1..col |-> "space"]
  <2>1. new \in Seq(Char) /\ Len(new) = col
    BY <1>1
  <2>2. Put(screen, ch) = [line |-> new, col |-> col]
    BY <1>2 DEF Put
  <2> HIDE DEF new
  <2> QED
    BY <1>1, <2>1, <2>2 DEF ScreenOK
<1>3. CASE ch \in {"cr", "bs", "eot"}
  <2>1. Put(screen, ch).line = line
    BY <1>3 DEF Put
  <2>2. Put(screen, ch).col \in 0..Len(line)
    BY <1>1, <1>3 DEF Put
  <2> QED
    BY <1>1, <2>1, <2>2 DEF ScreenOK
<1>4. CASE ch \in {"letter", "space"}
  <2> DEFINE new == [k \in 1..m |-> IF k = col + 1 THEN ch ELSE line[k]]
  <2>1. m \in Nat /\ col + 1 \in 0..m /\ \A k \in 1..m : k # col + 1 => k \in 1..Len(line)
    BY <1>1
  <2>2. \A k \in 1..Len(line) : line[k] \in Char
    BY <1>1, ElementOfSeq
  <2>3. Put(screen, ch) = [line |-> new, col |-> col + 1]
    BY <1>4 DEF Put
  <2> HIDE DEF m, line, col
  <2>4. new \in [1..m -> Char]
    BY <2>1, <2>2
  <2> HIDE DEF new
  <2>5. new \in Seq(Char) /\ Len(new) = m
    BY <2>1, <2>4
  <2> QED
    BY <2>1, <2>3, <2>5 DEF ScreenOK
<1> QED
  BY <1>2, <1>3, <1>4 DEF Char

(* Whatever was sent, the cursor is on the line.                           *)
LEMMA ShownOK ==
  ASSUME NEW n \in Nat, NEW s, \A k \in 1..n : s[k] \in Char
  PROVE  ScreenOK(Shown(s, n))
<1> DEFINE T == {m \in Nat : m <= n => ScreenOK(Shown(s, m))}
<1>1. 0 \in T
  <2>1. Shown(s, 0) = Blank
    BY MoreShown
  <2>2. ScreenOK(Blank)
    BY DEF ScreenOK, Blank
  <2> QED
    BY <2>1, <2>2
<1>2. ASSUME NEW m \in Nat, m \in T
      PROVE  m + 1 \in T
  <2>1. CASE m + 1 <= n
    <3>1. ScreenOK(Shown(s, m)) /\ s[m + 1] \in Char
      BY <1>2, <2>1
    <3>2. ScreenOK(Put(Shown(s, m), s[m + 1]))
      BY <3>1, PutLemma
    <3>3. ScreenOK(Shown(s, m + 1))
      BY <3>2, MoreShown
    <3> QED
      BY <3>3
  <2>2. CASE ~(m + 1 <= n)
    BY <2>2
  <2> QED
    BY <2>1, <2>2
<1>3. n \in T
  <2> HIDE DEF T
  <2> QED
    BY <1>1, <1>2, SetInduction
<1> QED
  BY <1>3

\* what was handed to writeb, and the screen once all of it has left
Chars == [k \in 1..Len(sent) |-> sent[k].char]
Now == Shown(Chars, Len(sent))

\* the screen after the echo o as well
Ahead(screen, o) ==
  CASE Len(o) = 0 -> screen
    [] Len(o) = 1 -> Put(screen, o[1])
    [] Len(o) = 2 -> Put(Put(screen, o[1]), o[2])
    [] OTHER -> Put(Put(Put(screen, o[1]), o[2]), o[3])

\* the line up to the cursor is b, what is after it is blank
LineIs(screen, b) ==
  /\ screen.col = Len(b) /\ Len(b) <= Len(screen.line)
  /\ \A k \in 1..Len(b) : screen.line[k] = b[k]
  /\ \A k \in (Len(b) + 1)..Len(screen.line) : screen.line[k] = "space"

\* since p has called tty_read, on an empty line, nobody else has sent anything
Alone(p) ==
  /\ \A k \in (since[p] + 1)..Len(sent) : sent[k].by = p
  /\ Shown(Chars, since[p]).line = <<>>

\* tty_read returns after the character c
Ends(p) == c[p] \in {"lf", "eot"} \/ Underflows(p)

\* what is between the screen and the buffer of a reader is its own echo
ShowOK(p) ==
  /\ since[p] <= Len(sent)
  /\ at[p] = "echo" => c[p] \in {"letter", "lf", "bs", "eot"} /\ Len(out[p]) <= 3
  /\ at[p] = "read" /\ Alone(p) => LineIs(Now, cbuff[p])
  /\ at[p] = "echo" /\ Alone(p) /\ ~Ends(p) => LineIs(Ahead(Now, out[p]), Edit(p))

ShowInv == \A p \in Reader : ShowOK(p)

(* A letter is shown at the end of the line.                               *)
LEMMA LetterLemma ==
  ASSUME NEW screen, ScreenOK(screen), NEW b \in Seq(Char), LineIs(screen, b)
  PROVE  LineIs(Put(screen, "letter"), Append(b, "letter"))
<1> DEFINE line == screen.line
           n == Len(b)
           e == Append(b, "letter")
           m == IF n = Len(line) THEN n + 1 ELSE Len(line)
           new == [k \in 1..m |-> IF k = n + 1 THEN "letter" ELSE line[k]]
<1>1. n \in Nat /\ Len(line) \in Nat /\ n <= Len(line) /\ screen.col = n
  BY DEF ScreenOK, LineIs
<1>2. Len(e) = n + 1 /\ e[n + 1] = "letter" /\ \A k \in 1..n : e[k] = b[k]
  OBVIOUS
<1>3. Put(screen, "letter") = [line |-> new, col |-> n + 1]
  BY <1>1 DEF Put
<1>4. /\ \A k \in 1..n : line[k] = b[k]
      /\ \A k \in (n + 1)..Len(line) : line[k] = "space"
  BY DEF LineIs
<1> HIDE DEF e, line, n
<1>5. m \in Nat /\ n + 1 <= m /\ \A k \in (n + 2)..m : k \in (n + 1)..Len(line) /\ k # n + 1
  BY <1>1
<1>6. Len(new) = m /\ \A k \in 1..m : new[k] = IF k = n + 1 THEN "letter" ELSE line[k]
  BY <1>5
<1> HIDE DEF m, new
<1>7. \A k \in 1..(n + 1) : new[k] = e[k]
  BY <1>1, <1>2, <1>4, <1>5, <1>6
<1>8. \A k \in (n + 2)..m : new[k] = "space"
  BY <1>1, <1>4, <1>5, <1>6
<1>9. (n + 1) + 1 = n + 2
  BY <1>1
<1> QED
  BY <1>2, <1>3, <1>5, <1>6, <1>7, <1>8, <1>9 DEF LineIs, e

(* A backspace, a blank and a backspace take the last character away.      *)
LEMMA EraseLemma ==
  ASSUME NEW screen, ScreenOK(screen), NEW b \in Seq(Char), LineIs(screen, b), b # <<>>
  PROVE  LineIs(Put(Put(Put(screen, "bs"), "space"), "bs"), Front(b))
<1> DEFINE line == screen.line
           n == Len(b)
           e == Front(b)
           m == Len(line)
           new == [k \in 1..m |-> IF k = n THEN "space" ELSE line[k]]
           one == Put(screen, "bs")
           two == Put(one, "space")
<1>1. n \in Nat \ {0} /\ m \in Nat /\ n <= m /\ screen.col = n
  BY EmptySeq, LenProperties DEF ScreenOK, LineIs
<1>2. Len(e) = n - 1 /\ \A k \in 1..(n - 1) : e[k] = b[k]
  <2>1. e = SubSeq(b, 1, n - 1)
    BY DEF Front
  <2> HIDE DEF e
  <2>2. n - 1 \in Nat /\ 1 \in Int
    BY <1>1
  <2> DEFINE j == n - 1
  <2>3. e = [k \in 1..j |-> b[k]]
    <3>1. SubSeq(b, 1, j) = [k \in 1..(1 + j - 1) |-> b[1 + k - 1]]
      BY <2>2
    <3> QED
      BY <2>1, <2>2
  <2> QED
    BY <2>2, <2>3
<1>3. /\ \A k \in 1..n : line[k] = b[k]
      /\ \A k \in (n + 1)..m : line[k] = "space"
  BY DEF LineIs
<1>4. one = [line |-> line, col |-> n - 1]
  BY <1>1 DEF Put
<1> HIDE DEF e, n, one
<1>5. one.line = line /\ one.col = n - 1 /\ n - 1 # m /\ (n - 1) + 1 = n
  BY <1>1, <1>4
<1>6. two = [line |-> new, col |-> n]
  <2>1. two = [line |-> [k \in 1..(IF one.col = Len(one.line) THEN one.col + 1 ELSE Len(one.line)) |->
                          IF k = one.col + 1 THEN "space" ELSE one.line[k]],
               col |-> one.col + 1]
    BY DEF Put
  <2> HIDE DEF two
  <2> QED
    BY <1>5, <2>1
<1> HIDE DEF two
<1>7. two.line = new /\ two.col = n
  BY <1>6
<1>8. Put(two, "bs") = [line |-> new, col |-> n - 1]
  BY <1>1, <1>7 DEF Put
<1>9. Len(new) = m /\ \A k \in 1..m : new[k] = IF k = n THEN "space" ELSE line[k]
  BY <1>1
<1> HIDE DEF new, m, line
<1>10. \A k \in 1..(n - 1) : new[k] = e[k]
  BY <1>1, <1>2, <1>3, <1>9
<1>11. \A k \in n..m : new[k] = "space"
  BY <1>1, <1>3, <1>9
<1>12. n - 1 <= m
  BY <1>1
<1> QED
  BY <1>2, <1>5, <1>8, <1>9, <1>10, <1>11, <1>12 DEF LineIs, e, one, two

(* The echo of a character that does not end the call makes the line what  *)
(* the edit makes the buffer.                                              *)
LEMMA EchoLemma ==
  ASSUME NEW screen, ScreenOK(screen), NEW b \in Seq(Char), LineIs(screen, b),
         NEW ch \in {"letter", "bs"}, ch = "bs" => b # <<>>
  PROVE  LineIs(Ahead(screen, Echo(ch)), IF ch = "bs" THEN Front(b) ELSE Append(b, ch))
<1>1. CASE ch = "letter"
  <2>1. Echo(ch) = <<"letter">>
    BY <1>1 DEF Echo, Cooked
  <2>2. Ahead(screen, <<"letter">>) = Put(screen, "letter")
    BY DEF Ahead
  <2> QED
    BY <1>1, <2>1, <2>2, LetterLemma
<1>2. CASE ch = "bs"
  <2>1. Echo(ch) = <<"bs", "space", "bs">>
    BY <1>2 DEF Echo
  <2>2. Ahead(screen, <<"bs", "space", "bs">>) = Put(Put(Put(screen, "bs"), "space"), "bs")
    BY DEF Ahead
  <2> QED
    BY <1>2, <2>1, <2>2, EraseLemma
<1> QED
  BY <1>1, <1>2

(* Sending the first character of the echo leaves the screen where it was  *)
(* going.                                                                  *)
LEMMA AheadLemma ==
  ASSUME NEW screen, NEW o \in Seq(Char), o # <<>>, Len(o) <= 3
  PROVE  Len(Tail(o)) <= 3 /\ Ahead(Put(screen, Head(o)), Tail(o)) = Ahead(screen, o)
<1> DEFINE t == Tail(o)
           next == Put(screen, Head(o))
<1> SUFFICES Len(t) <= 3 /\ Ahead(next, t) = Ahead(screen, o)
  OBVIOUS
<1>1. Len(o) \in Nat \ {0} /\ Head(o) = o[1]
  BY EmptySeq, LenProperties
<1>2. Len(t) = Len(o) - 1 /\ \A k \in 1..Len(t) : t[k] = o[k + 1]
  BY HeadTailProperties
<1> HIDE DEF t
<1>3. next = Put(screen, o[1])
  BY <1>1
<1> HIDE DEF next
<1>4. CASE Len(o) = 1
  <2>1. Len(t) = 0
    BY <1>2, <1>4
  <2> QED
    BY <1>3, <1>4, <2>1 DEF Ahead
<1>5. CASE Len(o) = 2
  <2>1. Len(t) = 1 /\ t[1] = o[2]
    BY <1>2, <1>5
  <2> QED
    BY <1>3, <1>5, <2>1 DEF Ahead
<1>6. CASE Len(o) = 3
  <2>1. Len(t) = 2 /\ t[1] = o[2] /\ t[2] = o[3]
    BY <1>2, <1>6
  <2> QED
    BY <1>3, <1>6, <2>1 DEF Ahead
<1>7. Len(t) <= 3 /\ (Len(o) = 1 \/ Len(o) = 2 \/ Len(o) = 3)
  BY <1>1, <1>2
<1> QED
  BY <1>4, <1>5, <1>6, <1>7

-----------------------------------------------------------------------------
(* ShowInv is inductive.                                                   *)

(* The screen once everything sent has left.                               *)
LEMMA NowOK ==
  ASSUME sent \in Seq([char : Char, by : Reader])
  PROVE  ScreenOK(Now) /\ \A n \in 0..Len(sent) : ScreenOK(Shown(Chars, n))
<1>1. Len(sent) \in Nat /\ \A k \in 1..Len(sent) : sent[k] \in [char : Char, by : Reader]
  BY ElementOfSeq, LenProperties
<1>2. \A k \in 1..Len(sent) : Chars[k] \in Char
  BY <1>1 DEF Chars
<1>3. ASSUME NEW n \in 0..Len(sent)
      PROVE  ScreenOK(Shown(Chars, n))
  BY <1>1, <1>2, <1>3, ShownOK
<1> QED
  BY <1>1, <1>3 DEF Now

(* One more character was sent, by p.                                      *)
LEMMA SentLemma ==
  ASSUME TtyInv, NEW p \in Reader, Send(p)
  PROVE  /\ Len(sent') = Len(sent) + 1 /\ sent'[Len(sent) + 1].by = p
         /\ \A k \in 1..Len(sent) : sent'[k] = sent[k]
         /\ \A n \in 0..Len(sent) : Shown(Chars, n)' = Shown(Chars, n)
         /\ Now' = Put(Now, Head(out[p]))
<1> DEFINE e == [char |-> Head(out[p]), by |-> p]
           a == Chars
           b == Chars'
           m == Len(sent)
<1>1. sent' = Append(sent, e) /\ sent \in Seq([char : Char, by : Reader])
  BY DEF Send, TtyInv, TtyTypeOK
<1>2. /\ m \in Nat /\ Len(sent') = m + 1 /\ sent'[m + 1] = e
      /\ \A k \in 1..m : sent'[k] = sent[k]
  <2> HIDE DEF e
  <2> QED
    BY <1>1
<1>3. /\ \A k \in 1..m : a[k] = sent[k].char /\ b[k] = a[k] /\ a[k] \in Char
      /\ b[m + 1] = Head(out[p])
  <2>1. \A k \in 1..m : sent[k] \in [char : Char, by : Reader]
    BY <1>1, ElementOfSeq
  <2>2. \A k \in 1..(m + 1) : b[k] = sent'[k].char
    BY <1>2 DEF Chars
  <2>3. \A k \in 1..m : a[k] = sent[k].char
    BY <1>2 DEF Chars
  <2> QED
    BY <1>2, <2>1, <2>2, <2>3
<1> HIDE DEF a, b, m, e
<1>4. \A n \in 0..m : Shown(b, n) = Shown(a, n)
  <2> SUFFICES ASSUME NEW n \in 0..m
               PROVE  Shown(b, n) = Shown(a, n)
    OBVIOUS
  <2>1. n \in Nat /\ \A k \in 1..n : b[k] = a[k]
    BY <1>2, <1>3
  <2> QED
    BY <2>1, SameShown
<1>5. Shown(b, m + 1) = Put(Shown(b, m), b[m + 1]) /\ Shown(b, m) = Shown(a, m)
  BY <1>2, <1>4, MoreShown
<1>6. \A n : Shown(Chars, n)' = Shown(b, n) /\ Shown(Chars, n) = Shown(a, n)
  BY DEF Shown, a, b
<1>7. Now = Shown(a, m) /\ Now' = Shown(b, m + 1)
  BY <1>2, <1>6 DEF Now, a, b, m
<1> QED
  BY <1>2, <1>3, <1>4, <1>5, <1>6, <1>7 DEF m, e

(* What is said of a process depends on its variables and what was sent.   *)
LEMMA KeepsShow ==
  ASSUME UNCHANGED sent, NEW q \in Reader, ShowOK(q),
         /\ at'[q] = at[q] /\ out'[q] = out[q] /\ c'[q] = c[q] /\ cbuff'[q] = cbuff[q]
         /\ since'[q] = since[q]
  PROVE  ShowOK(q)'
<1>1. UNCHANGED <<Chars, Now>>
  BY DEF Now, Chars, Shown
<1>2. Alone(q)' = Alone(q) /\ Ends(q)' = Ends(q) /\ Edit(q)' = Edit(q)
  BY <1>1 DEF Alone, Shown, Ends, Edit, Underflows
<1>3. Ahead(Now, out[q])' = Ahead(Now, out[q]) /\ LineIs(Now, cbuff[q])' = LineIs(Now, cbuff[q])
      /\ LineIs(Ahead(Now, out[q]), Edit(q))' = LineIs(Ahead(Now, out[q]), Edit(q))
  BY <1>1, <1>2 DEF Ahead, LineIs
<1> QED
  BY <1>2, <1>3 DEF ShowOK

(* A step of p.                                                            *)
LEMMA OthersShow ==
  ASSUME ShowInv, UNCHANGED sent, NEW p \in Reader,
         \A q \in Reader : q # p =>
           /\ at'[q] = at[q] /\ out'[q] = out[q] /\ c'[q] = c[q] /\ cbuff'[q] = cbuff[q]
           /\ since'[q] = since[q],
         ShowOK(p)'
  PROVE  ShowInv'
BY KeepsShow DEF ShowInv

(* tty_read begins on an empty line.                                       *)
LEMMA ReadCallShows ==
  ASSUME TtyInv, ShowInv, NEW p \in Reader, NEW n \in Counts, ReadCall(p, n)
  PROVE  ShowInv'
<1>1. /\ at' = [at EXCEPT ![p] = "read"] /\ cbuff' = [cbuff EXCEPT ![p] = <<>>]
      /\ since' = [since EXCEPT ![p] = Len(sent)] /\ UNCHANGED <<sent, out, c>>
  BY DEF ReadCall
<1>2. /\ at'[p] = "read" /\ cbuff'[p] = <<>> /\ since'[p] = Len(sent)
      /\ Len(sent) \in Nat /\ sent \in Seq([char : Char, by : Reader])
  BY <1>1 DEF TtyInv, TtyTypeOK
<1>3. ASSUME Alone(p)'
      PROVE  LineIs(Now, cbuff[p])'
  <2>1. UNCHANGED <<Chars, Now>>
    BY <1>1 DEF Now, Chars, Shown
  <2>2. Now.line = <<>>
    BY <1>1, <1>2, <1>3, <2>1 DEF Alone, Now, Shown
  <2>3. ScreenOK(Now)
    BY <1>2, NowOK
  <2>4. Now.col = 0 /\ Len(Now.line) = 0
    BY <2>2, <2>3 DEF ScreenOK
  <2> QED
    BY <1>2, <2>1, <2>4 DEF LineIs
<1>4. ShowOK(p)'
  BY <1>1, <1>2, <1>3 DEF ShowOK
<1> QED
  BY <1>1, <1>4, OthersShow DEF TtyInv, TtyTypeOK

(* ll_read returns a character: its echo is what the edit needs.           *)
LEMMA ReadGetShows ==
  ASSUME TtyInv, TtyInv', ShowInv, NEW p \in Reader, ReadGet(p)
  PROVE  ShowInv'
<1> DEFINE ch == Mapped(keys[rx_fifo[slot[p]]])
<1>1. /\ at[p] = "read" /\ slot[p] # None /\ c' = [c EXCEPT ![p] = ch] /\ out' = [out EXCEPT ![p] = Echo(c'[p])]
      /\ at' = [at EXCEPT ![p] = "echo"] /\ UNCHANGED <<sent, cbuff, since>>
  BY DEF ReadGet, ReadbReturn
<1>2. ch \in {"letter", "lf", "bs", "eot"}
  <2>1. rx_fifo[slot[p]] \in 1..received /\ received \in Nat /\ keys \in Seq(Typed)
        /\ Len(keys) = received + (IF rx_data = None THEN 0 ELSE 1)
    BY <1>1 DEF TtyInv, RxKnown, UsartInv, TypeOK, TtyTypeOK, KeysInv
  <2>2. keys[rx_fifo[slot[p]]] \in Typed
    <3> DEFINE i == rx_fifo[slot[p]]
    <3>1. i \in 1..Len(keys)
      BY <2>1
    <3> HIDE DEF i
    <3>2. keys[i] \in Typed
      BY <2>1, <3>1, ElementOfSeq
    <3> QED
      BY <3>2 DEF i
  <2> QED
    BY <2>2 DEF Typed, Mapped
<1> HIDE DEF ch
<1>3. /\ c'[p] = ch /\ out'[p] = Echo(ch) /\ at'[p] = "echo" /\ cbuff'[p] = cbuff[p]
      /\ since'[p] = since[p] /\ cbuff[p] \in Seq(Char) /\ Len(out'[p]) <= 3
  <2>1. c'[p] = ch /\ out'[p] = Echo(ch) /\ at'[p] = "echo"
    BY <1>1 DEF TtyInv, TtyTypeOK
  <2>2. Len(Echo(ch)) <= 3
    BY DEF Echo, Cooked
  <2> QED
    BY <1>1, <2>1, <2>2 DEF TtyInv, TtyTypeOK
<1>4. ASSUME Alone(p)', ~Ends(p)'
      PROVE  LineIs(Ahead(Now, out[p]), Edit(p))'
  <2>1. UNCHANGED <<Chars, Now>>
    BY <1>1 DEF Now, Chars, Shown
  <2>2. Alone(p)
    BY <1>1, <1>3, <1>4, <2>1 DEF Alone, Shown
  <2>3. LineIs(Now, cbuff[p])
    BY <1>1, <2>2 DEF ShowInv, ShowOK
  <2>4. ScreenOK(Now)
    BY NowOK DEF TtyInv, TtyTypeOK
  <2>5. ch \in {"letter", "bs"} /\ (ch = "bs" => cbuff[p] # <<>>)
    BY <1>2, <1>3, <1>4 DEF Ends, Underflows
  <2> DEFINE line == IF ch = "bs" THEN Front(cbuff[p]) ELSE Append(cbuff[p], ch)
  <2>6. LineIs(Ahead(Now, Echo(ch)), line)
    BY <1>3, <2>3, <2>4, <2>5, EchoLemma
  <2>7. Edit(p)' = line
    BY <1>3, <2>5 DEF Edit, Underflows
  <2> HIDE DEF line
  <2>8. Ahead(Now, out[p])' = Ahead(Now, Echo(ch))
    BY <1>3, <2>1 DEF Ahead
  <2> QED
    BY <2>6, <2>7, <2>8 DEF LineIs
<1>5. ShowOK(p)'
  BY <1>1, <1>2, <1>3, <1>4 DEF ShowOK, ShowInv
<1> QED
  BY <1>1, <1>5, OthersShow DEF TtyInv, TtyTypeOK

(* The rest of the loop body.                                              *)
LEMMA ReadEditShows ==
  ASSUME TtyInv, ShowInv, NEW p \in Reader, ReadEdit(p)
  PROVE  ShowInv'
<1>1. /\ at[p] = "echo" /\ out[p] = <<>> /\ cbuff' = [cbuff EXCEPT ![p] = Edit(p)]
      /\ c' = [c EXCEPT ![p] = None] /\ UNCHANGED <<sent, out, since>>
      /\ at' = [at EXCEPT ![p] =
           IF c[p] \in {"lf", "eot"} \/ Underflows(p) \/ Len(Edit(p)) >= room[p]
           THEN "user" ELSE "read"]
  BY DEF ReadEdit
<1>2. /\ at'[p] = "user" \/ (at'[p] = "read" /\ ~Ends(p))
      /\ cbuff'[p] = Edit(p) /\ since'[p] = since[p]
  BY <1>1 DEF TtyInv, TtyTypeOK, Ends
<1>3. ASSUME at'[p] = "read", Alone(p)'
      PROVE  LineIs(Now, cbuff[p])'
  <2>1. UNCHANGED <<Chars, Now>>
    BY <1>1 DEF Now, Chars, Shown
  <2>2. Alone(p)
    BY <1>1, <1>2, <1>3, <2>1 DEF Alone, Shown
  <2>3. LineIs(Ahead(Now, out[p]), Edit(p))
    BY <1>1, <1>2, <1>3, <2>2 DEF ShowInv, ShowOK
  <2>4. Ahead(Now, out[p]) = Now
    BY <1>1 DEF Ahead
  <2> QED
    BY <1>2, <2>1, <2>3, <2>4 DEF LineIs
<1>4. ShowOK(p)'
  BY <1>1, <1>2, <1>3 DEF ShowOK, ShowInv
<1> QED
  BY <1>1, <1>4, OthersShow DEF TtyInv, TtyTypeOK

(* A reader sends its echo, or a writer breaks into the line of others.    *)
LEMMA SendShows ==
  ASSUME TtyInv, ShowInv, NEW p \in Reader, at[p] # "read", Send(p),
         UNCHANGED <<at, c, cbuff, since>>
  PROVE  ShowInv'
<1>1. out[p] # <<>> /\ out' = [out EXCEPT ![p] = Tail(@)]
  BY DEF Send
<1>2. /\ Len(sent') = Len(sent) + 1 /\ sent'[Len(sent) + 1].by = p /\ Len(sent) \in Nat
      /\ \A k \in 1..Len(sent) : sent'[k] = sent[k]
      /\ \A n \in 0..Len(sent) : Shown(Chars, n)' = Shown(Chars, n)
      /\ Now' = Put(Now, Head(out[p]))
  BY SentLemma DEF TtyInv, TtyTypeOK
<1>3. ASSUME NEW q \in Reader
      PROVE  /\ since'[q] = since[q] /\ since[q] \in 0..Len(sent)
             /\ Alone(q)' => Alone(q) /\ q = p
  <2>1. since[q] \in 0..Len(sent) /\ since'[q] = since[q]
    BY <1>2 DEF ShowInv, ShowOK, TtyInv, TtyTypeOK
  <2>2. ASSUME Alone(q)'
        PROVE  Alone(q) /\ q = p
    <3>1. /\ \A k \in (since[q] + 1)..(Len(sent) + 1) : sent'[k].by = q
          /\ Shown(Chars, since[q])'.line = <<>>
      <4>1. Shown(Chars, since[q])' = Shown(Chars', since'[q])
        BY <2>1 DEF Shown
      <4> QED
        BY <1>2, <2>1, <2>2, <4>1 DEF Alone, Shown
    <3>2. Len(sent) + 1 \in (since[q] + 1)..(Len(sent) + 1)
      BY <1>2, <2>1
    <3>3. q = p
      BY <1>2, <3>1, <3>2
    <3>4. \A k \in (since[q] + 1)..Len(sent) : sent[k].by = q
      BY <1>2, <2>1, <3>1
    <3> QED
      BY <1>2, <2>1, <3>1, <3>3, <3>4 DEF Alone
  <2> QED
    BY <2>1, <2>2
<1>4. at[p] = "echo" => Len(out'[p]) <= 3 /\ Ahead(Now, out[p])' = Ahead(Now, out[p])
  <2> SUFFICES ASSUME at[p] = "echo"
               PROVE  Len(out'[p]) <= 3 /\ Ahead(Now, out[p])' = Ahead(Now, out[p])
    OBVIOUS
  <2>1. out[p] \in Seq(Char) /\ Len(out[p]) <= 3 /\ out'[p] = Tail(out[p])
    BY <1>1 DEF ShowInv, ShowOK, TtyInv, TtyTypeOK
  <2>2. Len(Tail(out[p])) <= 3 /\ Ahead(Put(Now, Head(out[p])), Tail(out[p])) = Ahead(Now, out[p])
    BY <1>1, <2>1, AheadLemma
  <2>3. Ahead(Now, out[p])' = Ahead(Now', out'[p])
    BY DEF Ahead
  <2> QED
    BY <1>2, <2>1, <2>2, <2>3
<1>5. \A q \in Reader : Ends(q)' = Ends(q) /\ Edit(q)' = Edit(q)
  BY DEF Ends, Edit, Underflows
<1>6. ShowOK(p)'
  <2>1. ShowOK(p)
    BY DEF ShowInv
  <2>2. since'[p] <= Len(sent')
    BY <1>2, <1>3
  <2>3. at'[p] = "echo" /\ Alone(p)' /\ ~Ends(p)' => LineIs(Ahead(Now, out[p]), Edit(p))'
    BY <1>3, <1>4, <1>5, <2>1 DEF ShowOK, LineIs
  <2> QED
    BY <1>3, <1>4, <2>1, <2>2, <2>3 DEF ShowOK
<1>7. ASSUME NEW q \in Reader, q # p
      PROVE  ShowOK(q)'
  <2>1. ShowOK(q) /\ ~Alone(q)' /\ out'[q] = out[q] /\ since'[q] <= Len(sent')
    BY <1>1, <1>2, <1>3, <1>7 DEF ShowInv, TtyInv, TtyTypeOK
  <2> QED
    BY <2>1 DEF ShowOK
<1> QED
  BY <1>6, <1>7 DEF ShowInv

(* A step that is about no reader's line.                                  *)
LEMMA QuietShows ==
  ASSUME ShowInv, UNCHANGED <<sent, at, out, c, cbuff, since>>
  PROVE  ShowInv'
BY KeepsShow DEF ShowInv

(* A call of tty_write, or its return.                                     *)
LEMMA WriteShows ==
  ASSUME TtyInv, ShowInv, NEW p \in Reader, NEW l \in {"user", "write"}, NEW s,
         at' = [at EXCEPT ![p] = l], out' = [out EXCEPT ![p] = s],
         UNCHANGED <<sent, c, cbuff, since>>
  PROVE  ShowInv'
<1>1. at'[p] = l
  BY DEF TtyInv, TtyTypeOK
<1>2. ShowOK(p)'
  BY <1>1 DEF ShowInv, ShowOK
<1> QED
  BY <1>2, OthersShow DEF TtyInv, TtyTypeOK

(* ShowInv is inductive, given TtyInv.                                     *)
LEMMA ShowStep ==
  ASSUME TtyInv, TtyInv', ShowInv, [TtyNext]_allVars
  PROVE  ShowInv'
<1>1. ASSUME NEW p \in Reader, Continues(p)
      PROVE  ShowInv'
  <2>1. CASE ReadTake(p)
    BY <2>1, QuietShows DEF ReadTake, ttyVars
  <2>2. CASE ReadGet(p)
    BY <2>2, ReadGetShows
  <2>3. CASE EchoSend(p)
    BY <2>3, SendShows DEF EchoSend
  <2>4. CASE WriteSend(p)
    BY <2>4, SendShows DEF WriteSend
  <2>5. CASE ReadEdit(p)
    BY <2>5, ReadEditShows
  <2>6. CASE WriteReturn(p)
    <3>1. /\ at' = [at EXCEPT ![p] = "user"] /\ out' = [out EXCEPT ![p] = <<>>]
          /\ UNCHANGED <<sent, c, cbuff, since>>
      BY <2>6 DEF WriteReturn
    <3> QED
      BY <3>1, WriteShows
  <2> QED
    BY <1>1, <2>1, <2>2, <2>3, <2>4, <2>5, <2>6 DEF Continues
<1>2. CASE \E p \in Reader, n \in Counts : ReadCall(p, n)
  BY <1>2, ReadCallShows
<1>3. ASSUME NEW p \in Writer, NEW text \in Texts, WriteCall(p, text)
      PROVE  ShowInv'
  <2>1. PICK s : out' = [out EXCEPT ![p] = s]
    BY <1>3 DEF WriteCall
  <2>2. /\ p \in Reader /\ at' = [at EXCEPT ![p] = "write"]
        /\ UNCHANGED <<sent, c, cbuff, since>>
    BY <1>3, TtyAssumption DEF WriteCall
  <2> QED
    BY <2>1, <2>2, WriteShows
<1>4. CASE (\E key \in Typed : Type(key)) \/ TtyHardware \/ UNCHANGED allVars
  BY <1>4, QuietShows DEF Type, TtyHardware, ttyVars, allVars
<1> QED
  BY <1>1, <1>2, <1>3, <1>4 DEF TtyNext

(* Whatever others write in between, the echo of a reader that is alone on *)
(* its line takes the screen to the line that the buffer becomes.          *)
THEOREM EchoInvariant == TtySpec => []ShowInv
<1>1. TtyInit => ShowInv
  <2> SUFFICES ASSUME TtyInit, NEW p \in Reader
               PROVE  ShowOK(p)
    BY DEF ShowInv
  <2>1. at[p] = "user" /\ since[p] = 0 /\ Len(sent) = 0
    BY DEF TtyInit
  <2> QED
    BY <2>1 DEF ShowOK
<1>2. TtyInv /\ TtyInv' /\ ShowInv /\ [TtyNext]_allVars => ShowInv'
  BY ShowStep
<1> QED
  BY <1>1, <1>2, TtyInvariant, PTL DEF TtySpec

(* The user sees the line that tty_read will return, for every editing and *)
(* every length of the line: the echo of each key does to the screen what  *)
(* the key does to the buffer.                                             *)
THEOREM ScreenIsTheLine == TtySpec => []ScreenShowsLine
<1>1. TtyInv /\ ShowInv => ScreenShowsLine
  <2> SUFFICES ASSUME TtyInv, ShowInv, NEW p \in Reader, Quiet(p)
               PROVE  LET screen == Screen(Len(wire)) IN
                      /\ SubSeq(screen.line, 1, screen.col) = cbuff[p]
                      /\ \A k \in (screen.col + 1)..Len(screen.line) : screen.line[k] = "space"
    BY DEF ScreenShowsLine
  <2>1. /\ at[p] = "read" /\ Len(wire) = Len(sent) /\ Len(sent) \in Nat
        /\ sent \in Seq([char : Char, by : Reader]) /\ cbuff[p] \in Seq(Char)
        /\ \A i \in 1..Len(wire) : wire[i] = i
        /\ since[p] \in 0..Len(sent)
    BY DEF Quiet, TtyInv, TtyTypeOK, UsartInv, TxInv, ShowInv, ShowOK
  <2>2. \A n \in 0..Len(sent) : Screen(n) = Shown(Chars, n)
    <3> SUFFICES ASSUME NEW n \in 0..Len(sent)
                 PROVE  Screen(n) = Shown(Chars, n)
      OBVIOUS
    <3> DEFINE s == [k \in 1..n |-> sent[wire[k]].char]
    <3>1. \A k \in 1..n : s[k] = Chars[k]
      BY <2>1 DEF Chars
    <3>2. s = [k \in 1..n |-> s[k]]
      OBVIOUS
    <3>3. Screen(n) = FoldLeft(Put, Blank, s)
      BY DEF Screen, Blank
    <3> HIDE DEF s
    <3>4. Screen(n) = Shown(s, n)
      BY <3>2, <3>3 DEF Shown
    <3> QED
      BY <2>1, <3>1, <3>4, SameShown
  <2>3. Screen(Len(wire)) = Now /\ Screen(since[p]) = Shown(Chars, since[p])
    BY <2>1, <2>2 DEF Now
  <2>4. LineIs(Now, cbuff[p])
    BY <2>1, <2>3 DEF Quiet, Alone, ShowInv, ShowOK
  <2>5. ScreenOK(Now)
    BY <2>1, NowOK
  <2> DEFINE screen == Now
             b == cbuff[p]
  <2> HIDE DEF screen, b
  <2>6. /\ b \in Seq(Char) /\ screen.line \in Seq(Char) /\ Len(b) \in Nat
        /\ screen.col = Len(b) /\ Len(b) <= Len(screen.line)
        /\ \A k \in 1..Len(b) : screen.line[k] = b[k]
        /\ \A k \in (Len(b) + 1)..Len(screen.line) : screen.line[k] = "space"
    BY <2>1, <2>4, <2>5 DEF LineIs, ScreenOK, screen, b
  <2>7. SubSeq(screen.line, 1, screen.col) = b
    <3> DEFINE n == Len(b)
    <3>1. SubSeq(screen.line, 1, n) = [k \in 1..(1 + n - 1) |-> screen.line[1 + k - 1]]
      BY <2>6
    <3>2. SubSeq(screen.line, 1, n) = [k \in 1..n |-> b[k]]
      BY <2>6, <3>1
    <3>3. b = [k \in 1..n |-> b[k]]
      BY <2>6
    <3> QED
      BY <2>6, <3>2, <3>3
  <2> QED
    BY <2>3, <2>6, <2>7 DEF screen, b
<1> QED
  BY <1>1, TtyInvariant, EchoInvariant, PTL
=============================================================================
