---------------------------- MODULE UsartProofs ----------------------------
(***************************************************************************)
(* Proofs about Usart, for rings of any length, any number of readers and  *)
(* any number of characters: what writeb accepts leaves once and in order, *)
(* and what the handler receives is read once, unless it has overwritten   *)
(* an unread character.                                                    *)
(***************************************************************************)
EXTENDS Usart, Integers, TLAPS, SequenceTheorems

-----------------------------------------------------------------------------
(* Rings without remainders.                                               *)

\* how many slots lie between the two indices
Count(head, tail, len) == IF tail <= head THEN head - tail ELSE head + len - tail

\* the slot that is i after the tail
Place(tail, i, len) == IF tail + i < len THEN tail + i ELSE tail + i - len

(* They are what the remainders compute.                                   *)
LEMMA RemainderLemma ==
  ASSUME NEW len \in Nat \ {0}, NEW head \in 0..(len - 1), NEW tail \in 0..(len - 1)
  PROVE  /\ (head + len - tail) % len = Count(head, tail, len)
         /\ Count(head, tail, len) \in 0..(len - 1)
         /\ \A i \in 0..(len - 1) : /\ (tail + i) % len = Place(tail, i, len)
                                    /\ Place(tail, i, len) \in 0..(len - 1)
<1>1. \A x \in Nat : x < len => x % len = x
  OBVIOUS
<1>2. \A x \in Nat : len <= x /\ x < len + len => x % len = x - len
  OBVIOUS
<1>3. (head + len - tail) % len = Count(head, tail, len)
  <2>1. CASE tail <= head
    <3>1. head + len - tail \in Nat /\ len <= head + len - tail /\ head + len - tail < len + len
      BY <2>1
    <3> QED
      BY <1>2, <2>1, <3>1 DEF Count
  <2>2. CASE ~(tail <= head)
    <3>1. head + len - tail \in Nat /\ head + len - tail < len
      BY <2>2
    <3> QED
      BY <1>1, <2>2, <3>1 DEF Count
  <2> QED
    BY <2>1, <2>2
<1>4. ASSUME NEW i \in 0..(len - 1)
      PROVE  (tail + i) % len = Place(tail, i, len) /\ Place(tail, i, len) \in 0..(len - 1)
  <2>1. tail + i \in Nat /\ tail + i < len + len
    OBVIOUS
  <2>2. CASE tail + i < len
    BY <1>1, <2>1, <2>2 DEF Place
  <2>3. CASE ~(tail + i < len)
    BY <1>2, <2>1, <2>3 DEF Place
  <2> QED
    BY <2>2, <2>3
<1> QED
  BY <1>3, <1>4 DEF Count

(* The head goes on into a slot that held nothing.                         *)
LEMMA HeadLemma ==
  ASSUME NEW len \in Nat \ {0, 1}, NEW head \in 0..(len - 1), NEW tail \in 0..(len - 1),
         Inc(head, len) # tail
  PROVE  LET n == Count(head, tail, len) IN
         /\ Inc(head, len) \in 0..(len - 1)
         /\ n \in Nat /\ Count(Inc(head, len), tail, len) = n + 1
         /\ Place(tail, n, len) = head /\ Place(tail, n + 1, len) = Inc(head, len)
         /\ \A i \in 0..(n - 1) : Place(tail, i, len) # head
         /\ \A i \in 0..n : Place(tail, i, len) # Inc(head, len)
BY DEF Inc, Count, Place

(* The tail goes on to the next slot.                                      *)
LEMMA TailLemma ==
  ASSUME NEW len \in Nat \ {0, 1}, NEW head \in 0..(len - 1), NEW tail \in 0..(len - 1),
         tail # head
  PROVE  LET n == Count(head, tail, len) IN
         /\ Inc(tail, len) \in 0..(len - 1)
         /\ n \in Nat \ {0} /\ Count(head, Inc(tail, len), len) = n - 1
         /\ Place(tail, 0, len) = tail /\ Place(tail, 1, len) = Inc(tail, len)
         /\ \A i \in 1..(n - 1) : Place(tail, i, len) # tail
         /\ \A i \in 0..(n - 1) : Place(Inc(tail, len), i, len) = Place(tail, i + 1, len)
BY DEF Inc, Count, Place

-----------------------------------------------------------------------------
(* The inductive invariant of the transmitter.                             *)
TxCount == Count(tx_head, tx_tail, TxLen)

\* the characters that have left the ring
Gone == Len(wire) + (IF tx_data = None THEN 0 ELSE 1)

TxInv ==
  /\ \A i \in 1..Len(wire) : wire[i] = i
  /\ tx_data # None => tx_data = Len(wire) + 1
  /\ accepted = Gone + TxCount
  /\ \A i \in 1..TxCount : tx_fifo[Place(tx_tail, i, TxLen)] = Gone + i

(* The inductive invariant of the receiver.                                *)
RxCount == Count(rx_head, rx_tail, RxLen)

\* the characters that readb has taken off the ring
Taken == received - RxCount

Pending(r) == rx_fifo[slot[r]]

\* the ring holds the characters that were not taken, in order
RingOK == \A i \in 0..(RxCount - 1) : rx_fifo[Place(rx_tail, i, RxLen)] = Taken + i + 1

\* what a reader is about to read is in no slot of the ring, is later than all it
\* got, and is nobody else's
PendingOK(r) ==
  slot[r] # None =>
    /\ Pending(r) \in 1..Taken
    /\ \A i \in 0..(RxCount - 1) : slot[r] # Place(rx_tail, i, RxLen)
    /\ \A i \in DOMAIN got[r] : got[r][i] < Pending(r)
    /\ \A q \in Reader : \A i \in DOMAIN got[q] : got[q][i] # Pending(r)
    /\ \A q \in Reader : slot[q] # None /\ Pending(q) = Pending(r) => q = r

\* a reader gets characters in order, and nobody else gets them
GotOK(r) ==
  /\ \A i \in DOMAIN got[r] : got[r][i] \in 1..Taken
  /\ \A i, j \in DOMAIN got[r] : i < j => got[r][i] < got[r][j]
  /\ \A q \in Reader : \A i \in DOMAIN got[r], j \in DOMAIN got[q] :
       got[r][i] = got[q][j] => r = q

\* every character that was taken is somebody's
NoneLost ==
  \A k \in 1..Taken :
    \/ \E r \in Reader : slot[r] # None /\ Pending(r) = k
    \/ \E r \in Reader : \E i \in DOMAIN got[r] : got[r][i] = k

RxInv ==
  /\ rx_data # None => rx_data = received + 1 /\ received < MaxRx
  /\ ~overrun => /\ Taken >= 0 /\ RingOK /\ NoneLost
                 /\ \A r \in Reader : PendingOK(r) /\ GotOK(r)

UsartInv == TypeOK /\ TxInv /\ RxInv

-----------------------------------------------------------------------------
(* The transmitter alone changes what TxInv is about.                      *)
LEMMA TxQuietLemma ==
  ASSUME TxInv, UNCHANGED <<tx_fifo, tx_head, tx_tail, tx_data, accepted, wire>>
  PROVE  TxInv'
BY DEF TxInv, TxCount, Gone

(* The receiver alone changes what RxInv is about.                         *)
LEMMA RxQuietLemma ==
  ASSUME RxInv, UNCHANGED rxVars
  PROVE  RxInv'
BY DEF RxInv, RxCount, Taken, Pending, RingOK, PendingOK, GotOK, NoneLost, rxVars

(* writeb appends to the ring.                                             *)
LEMMA WritebStep ==
  ASSUME UsartInv, Writeb
  PROVE  UsartInv'
<1>1. TypeOK /\ TxInv /\ RxInv /\ TxLen \in Nat \ {0, 1} /\ MaxTx \in Nat
  BY UsartAssumption DEF UsartInv
<1> DEFINE tmp == Inc(tx_head, TxLen)
<1>2. /\ accepted < MaxTx /\ tmp # tx_tail /\ tx_head' = tmp
      /\ tx_fifo' = [tx_fifo EXCEPT ![tmp] = accepted + 1] /\ TIE' = TRUE
      /\ accepted' = accepted + 1 /\ UNCHANGED <<tx_tail, tx_data, wire, rxVars>>
  BY DEF Writeb
<1>3. /\ tmp \in 0..(TxLen - 1) /\ TxCount \in Nat /\ TxCount' = TxCount + 1
      /\ Place(tx_tail, TxCount + 1, TxLen) = tmp
      /\ \A i \in 0..TxCount : Place(tx_tail, i, TxLen) # tmp
  BY <1>1, <1>2, HeadLemma DEF TypeOK, TxCount
<1> HIDE DEF tmp
<1>4. TypeOK'
  <2>1. /\ accepted + 1 \in 0..MaxTx /\ accepted + 1 \in Nat
        /\ tx_fifo' \in [0..(TxLen - 1) -> Nat]
    BY <1>1, <1>2, <1>3 DEF TypeOK
  <2> QED
    BY <1>1, <1>2, <1>3, <2>1 DEF TypeOK, rxVars
<1>5. TxInv'
  <2>1. /\ Gone' = Gone /\ Gone \in Nat /\ accepted = Gone + TxCount
        /\ \A i \in 1..TxCount : tx_fifo[Place(tx_tail, i, TxLen)] = Gone + i
    BY <1>1, <1>2 DEF TypeOK, TxInv, Gone
  <2>2. ASSUME NEW i \in 1..(TxCount + 1)
        PROVE  tx_fifo'[Place(tx_tail, i, TxLen)] = Gone + i
    <3>1. CASE i = TxCount + 1
      BY <1>1, <1>2, <1>3, <2>1, <3>1 DEF TypeOK
    <3>2. CASE i \in 1..TxCount
      BY <1>1, <1>2, <1>3, <2>1, <3>2 DEF TypeOK
    <3> QED
      BY <1>3, <3>1, <3>2
  <2>3. accepted' = Gone' + TxCount'
    BY <1>2, <1>3, <2>1
  <2> QED
    BY <1>1, <1>2, <1>3, <2>1, <2>2, <2>3 DEF TxInv
<1>6. RxInv'
  BY <1>1, <1>2, RxQuietLemma
<1> QED
  BY <1>4, <1>5, <1>6 DEF UsartInv

(* The handler moves a character from the ring to the data register.       *)
LEMMA InterruptTxStep ==
  ASSUME UsartInv, InterruptTx
  PROVE  UsartInv'
<1>1. TypeOK /\ TxInv /\ RxInv /\ TxLen \in Nat \ {0, 1} /\ None \notin Nat
  BY UsartAssumption DEF UsartInv
<1>2. /\ tx_data = None /\ tx_tail # tx_head /\ tx_tail' = Inc(tx_tail, TxLen)
      /\ tx_data' = tx_fifo[tx_tail']
      /\ UNCHANGED <<tx_fifo, tx_head, TIE, accepted, wire, rxVars>>
  BY DEF InterruptTx, TxInterrupt
<1>3. /\ tx_tail' \in 0..(TxLen - 1) /\ TxCount \in Nat \ {0} /\ TxCount' = TxCount - 1
      /\ Place(tx_tail, 1, TxLen) = tx_tail'
      /\ \A i \in 0..(TxCount - 1) : Place(tx_tail', i, TxLen) = Place(tx_tail, i + 1, TxLen)
  <2> DEFINE tmp == Inc(tx_tail, TxLen)
  <2>1. /\ tmp \in 0..(TxLen - 1)
        /\ TxCount \in Nat \ {0} /\ Count(tx_head, tmp, TxLen) = TxCount - 1
        /\ Place(tx_tail, 1, TxLen) = tmp
        /\ \A i \in 0..(TxCount - 1) : Place(tmp, i, TxLen) = Place(tx_tail, i + 1, TxLen)
    <3>1. tx_head \in 0..(TxLen - 1) /\ tx_tail \in 0..(TxLen - 1) /\ tx_tail # tx_head
      BY <1>1, <1>2 DEF TypeOK
    <3> QED
      BY <1>1, <3>1, TailLemma DEF TxCount
  <2>2. tx_tail' = tmp /\ tx_head' = tx_head
    BY <1>2
  <2> HIDE DEF tmp
  <2> QED
    BY <2>1, <2>2 DEF TxCount
<1>4. /\ Gone = Len(wire) /\ Gone \in Nat /\ accepted = Gone + TxCount
      /\ \A i \in 1..TxCount : tx_fifo[Place(tx_tail, i, TxLen)] = Gone + i
  BY <1>1, <1>2 DEF TypeOK, TxInv, Gone
<1>5. tx_data' = Gone + 1 /\ tx_data' # None /\ Gone' = Gone + 1
  <2>1. tx_data' = Gone + 1
    BY <1>2, <1>3, <1>4
  <2> QED
    BY <1>1, <1>2, <1>4, <2>1 DEF Gone
<1>6. TxInv'
  <2>1. ASSUME NEW i \in 1..TxCount'
        PROVE  tx_fifo'[Place(tx_tail', i, TxLen)] = Gone' + i
    <3>1. i \in 0..(TxCount - 1) /\ i + 1 \in 1..TxCount
      BY <1>3
    <3>2. tx_fifo[Place(tx_tail', i, TxLen)] = Gone + (i + 1)
      BY <1>3, <1>4, <3>1
    <3> QED
      BY <1>2, <1>4, <1>5, <3>2
  <2>2. accepted' = Gone' + TxCount'
    BY <1>2, <1>3, <1>4, <1>5
  <2> QED
    BY <1>1, <1>2, <1>4, <1>5, <2>1, <2>2 DEF TxInv
<1>7. TypeOK'
  <2>1. tx_data' \in Nat
    BY <1>4, <1>5
  <2>2. UNCHANGED <<tx_fifo, tx_head, TIE, accepted, wire, rxVars>>
    BY <1>2
  <2> QED
    BY <1>1, <1>3, <2>1, <2>2 DEF TypeOK, rxVars
<1> QED
  BY <1>1, <1>2, <1>6, <1>7, RxQuietLemma DEF UsartInv

(* The character in the data register leaves.                              *)
LEMMA ShiftOutStep ==
  ASSUME UsartInv, ShiftOut
  PROVE  UsartInv'
<1>1. TypeOK /\ TxInv /\ RxInv /\ None \notin Nat
  BY UsartAssumption DEF UsartInv
<1>2. /\ tx_data # None /\ wire' = Append(wire, tx_data) /\ tx_data' = None
      /\ UNCHANGED <<tx_fifo, tx_head, tx_tail, TIE, accepted, rxVars>>
  BY DEF ShiftOut
<1>3. wire \in Seq(Nat) /\ tx_data \in Nat /\ tx_data = Len(wire) + 1
  BY <1>1, <1>2 DEF TypeOK, TxInv
<1>4. /\ wire' \in Seq(Nat) /\ Len(wire') = Len(wire) + 1 /\ wire'[Len(wire) + 1] = tx_data
      /\ \A i \in 1..Len(wire) : wire'[i] = wire[i]
  BY <1>2, <1>3, AppendProperties
<1>5. Gone' = Gone /\ TxCount' = TxCount
  BY <1>2, <1>3, <1>4 DEF Gone, TxCount
<1>6. TxInv'
  <2>1. \A i \in 1..Len(wire') : wire'[i] = i
    BY <1>1, <1>3, <1>4 DEF TxInv
  <2> QED
    BY <1>1, <1>2, <1>5, <2>1 DEF TxInv
<1>7. TypeOK'
  BY <1>1, <1>2, <1>4 DEF TypeOK, rxVars
<1> QED
  BY <1>1, <1>2, <1>6, <1>7, RxQuietLemma DEF UsartInv

(* The transmit interrupt is switched off.                                 *)
LEMMA InterruptTxIdleStep ==
  ASSUME UsartInv, InterruptTxIdle
  PROVE  UsartInv'
<1>1. UNCHANGED <<tx_fifo, tx_head, tx_tail, tx_data, accepted, wire, rxVars>> /\ TIE' = FALSE
  BY DEF InterruptTxIdle
<1>2. TypeOK'
  BY <1>1 DEF UsartInv, TypeOK, rxVars
<1> QED
  BY <1>1, <1>2, TxQuietLemma, RxQuietLemma DEF UsartInv

(* A character arrives.                                                    *)
LEMMA ArriveStep ==
  ASSUME UsartInv, Arrive
  PROVE  UsartInv'
<1>1. TypeOK /\ TxInv /\ RxInv
  BY DEF UsartInv
<1>2. /\ received < MaxRx /\ rx_data' = received + 1
      /\ UNCHANGED <<txVars, rx_fifo, rx_head, rx_tail, slot, received, got, overrun>>
  BY DEF Arrive
<1>3. TypeOK'
  BY <1>1, <1>2 DEF TypeOK, txVars
<1>4. TxInv'
  BY <1>1, <1>2, TxQuietLemma DEF txVars
<1>5. RxInv'
  BY <1>1, <1>2 DEF RxInv, RxCount, Taken, Pending, RingOK, PendingOK, GotOK, NoneLost
<1> QED
  BY <1>3, <1>4, <1>5 DEF UsartInv

(* The handler stores a character, and if that overwrites nothing it is    *)
(* the last of the ring.                                                   *)
LEMMA InterruptRxStep ==
  ASSUME UsartInv, InterruptRx
  PROVE  UsartInv'
<1>1. TypeOK /\ TxInv /\ RxInv /\ RxLen \in Nat \ {0, 1} /\ MaxRx \in Nat
  BY UsartAssumption DEF UsartInv
<1> DEFINE tmp == Inc(rx_head, RxLen)
<1>2. /\ rx_data # None /\ rx_fifo' = [rx_fifo EXCEPT ![rx_head] = rx_data]
      /\ rx_head' = tmp /\ rx_data' = None /\ received' = received + 1
      /\ overrun' = (overrun \/ tmp = rx_tail \/ \E r \in Reader : slot[r] = rx_head)
      /\ UNCHANGED <<txVars, rx_tail, slot, got>>
  BY DEF InterruptRx
<1>3. rx_data = received + 1 /\ received < MaxRx /\ received \in Nat
  BY <1>1, <1>2 DEF RxInv, TypeOK
<1>4. rx_head \in 0..(RxLen - 1) /\ rx_tail \in 0..(RxLen - 1) /\ tmp \in 0..(RxLen - 1)
  BY <1>1 DEF TypeOK, Inc
<1>5. /\ rx_fifo' \in [0..(RxLen - 1) -> Nat] /\ rx_fifo'[rx_head] = received + 1
      /\ \A x \in 0..(RxLen - 1) : x # rx_head => rx_fifo'[x] = rx_fifo[x]
  BY <1>1, <1>2, <1>3, <1>4 DEF TypeOK
<1> HIDE DEF tmp
<1>6. TypeOK'
  <2>1. overrun' \in BOOLEAN /\ received' \in 0..MaxRx /\ rx_data' \in Nat \cup {None}
    BY <1>1, <1>2, <1>3 DEF TypeOK
  <2>2. UNCHANGED <<txVars, rx_tail, slot, got>> /\ rx_head' = tmp
    BY <1>2
  <2> QED
    BY <1>1, <1>4, <1>5, <2>1, <2>2 DEF TypeOK, txVars
<1>7. TxInv'
  BY <1>1, <1>2, TxQuietLemma DEF txVars
<1>8. ASSUME ~overrun'
      PROVE  Taken' >= 0 /\ RingOK' /\ NoneLost' /\ \A r \in Reader : PendingOK(r)' /\ GotOK(r)'
  <2>1. ~overrun /\ tmp # rx_tail /\ \A r \in Reader : slot[r] # rx_head
    BY <1>2, <1>8
  <2>2. /\ Taken >= 0 /\ RingOK /\ NoneLost
        /\ \A r \in Reader : PendingOK(r) /\ GotOK(r)
    BY <1>1, <2>1 DEF RxInv
  <2>3. /\ RxCount \in Nat /\ Count(tmp, rx_tail, RxLen) = RxCount + 1
        /\ Place(rx_tail, RxCount, RxLen) = rx_head
        /\ \A i \in 0..(RxCount - 1) : Place(rx_tail, i, RxLen) # rx_head
    BY <1>1, <1>4, <2>1, HeadLemma DEF RxCount, tmp
  <2>4. RxCount' = RxCount + 1 /\ Taken' = Taken /\ Taken \in Nat
    <3>1. RxCount' = RxCount + 1
      BY <1>2, <2>3 DEF RxCount
    <3> QED
      BY <1>2, <1>3, <2>2, <2>3, <3>1 DEF Taken
  <2>5. \A i \in 0..RxCount : Place(rx_tail, i, RxLen) \in 0..(RxLen - 1)
    <3>1. /\ RxLen \in Nat \ {0} /\ Count(rx_head, rx_tail, RxLen) \in 0..(RxLen - 1)
          /\ \A i \in 0..(RxLen - 1) : Place(rx_tail, i, RxLen) \in 0..(RxLen - 1)
      BY <1>1, <1>4, RemainderLemma
    <3>2. \A i \in 0..RxCount : i \in 0..(RxLen - 1)
      BY <3>1 DEF RxCount
    <3> QED
      BY <3>1, <3>2
  <2>6. RingOK'
    <3>1. ASSUME NEW i \in 0..RxCount
          PROVE  rx_fifo'[Place(rx_tail, i, RxLen)] = Taken + i + 1
      <4>1. CASE i = RxCount
        BY <1>3, <1>5, <2>3, <2>4, <4>1 DEF Taken
      <4>2. CASE i \in 0..(RxCount - 1)
        BY <1>5, <2>2, <2>3, <2>5, <4>2 DEF RingOK
      <4> QED
        BY <2>3, <4>1, <4>2
    <3> QED
      BY <1>2, <2>3, <2>4, <3>1 DEF RingOK
  <2>7. \A r \in Reader : slot[r] # None => Pending(r)' = Pending(r)
    <3>1. \A r \in Reader : slot[r] # None => slot[r] \in 0..(RxLen - 1)
      BY <1>1 DEF TypeOK
    <3> QED
      BY <1>2, <1>5, <2>1, <3>1 DEF Pending
  <2>8. ASSUME NEW r \in Reader
        PROVE  PendingOK(r)' /\ GotOK(r)'
    <3>1. \A i \in 0..(RxCount' - 1) : slot[r] # None => slot[r] # Place(rx_tail, i, RxLen)
      BY <2>1, <2>2, <2>3, <2>4 DEF PendingOK
    <3>2. PendingOK(r)'
      BY <1>2, <2>2, <2>4, <2>7, <3>1 DEF PendingOK
    <3>3. GotOK(r)'
      BY <1>2, <2>2, <2>4 DEF GotOK
    <3> QED
      BY <3>2, <3>3
  <2>9. NoneLost'
    BY <1>2, <2>2, <2>4, <2>7 DEF NoneLost
  <2> QED
    BY <2>2, <2>4, <2>6, <2>8, <2>9
<1>9. RxInv'
  BY <1>2, <1>8 DEF RxInv
<1> QED
  BY <1>6, <1>7, <1>9 DEF UsartInv

(* A reader takes the first slot of the ring.                              *)
LEMMA ReadbTakeStep ==
  ASSUME UsartInv, NEW r \in Reader, ReadbTake(r)
  PROVE  UsartInv'
<1>1. TypeOK /\ TxInv /\ RxInv /\ RxLen \in Nat \ {0, 1} /\ None \notin Nat
  BY UsartAssumption DEF UsartInv
<1> DEFINE tmp == Inc(rx_tail, RxLen)
<1>2. /\ slot[r] = None /\ rx_tail # rx_head /\ slot' = [slot EXCEPT ![r] = rx_tail]
      /\ rx_tail' = tmp
      /\ UNCHANGED <<txVars, rx_fifo, rx_head, rx_data, received, got, overrun>>
  BY DEF ReadbTake
<1>3. /\ rx_head \in 0..(RxLen - 1) /\ rx_tail \in 0..(RxLen - 1) /\ received \in Nat
      /\ rx_tail # None
  BY <1>1 DEF TypeOK
<1>4. /\ slot' \in [Reader -> 0..(RxLen - 1) \cup {None}] /\ slot'[r] = rx_tail
      /\ \A q \in Reader : q # r => slot'[q] = slot[q]
  BY <1>1, <1>2, <1>3 DEF TypeOK
<1>5. /\ tmp \in 0..(RxLen - 1)
      /\ RxCount \in Nat \ {0} /\ Count(rx_head, tmp, RxLen) = RxCount - 1
      /\ Place(rx_tail, 0, RxLen) = rx_tail
      /\ \A i \in 1..(RxCount - 1) : Place(rx_tail, i, RxLen) # rx_tail
      /\ \A i \in 0..(RxCount - 1) : Place(tmp, i, RxLen) = Place(rx_tail, i + 1, RxLen)
  BY <1>1, <1>2, <1>3, TailLemma DEF RxCount
<1> HIDE DEF tmp
<1>6. RxCount' = RxCount - 1 /\ Taken' = Taken + 1 /\ Taken \in Int
  <2>1. RxCount' = RxCount - 1
    BY <1>2, <1>5 DEF RxCount
  <2> QED
    BY <1>2, <1>3, <1>5, <2>1 DEF Taken
<1>7. TypeOK'
  <2>1. UNCHANGED <<txVars, rx_fifo, rx_head, rx_data, received, got, overrun>> /\ rx_tail' = tmp
    BY <1>2
  <2> QED
    BY <1>1, <1>4, <1>5, <2>1 DEF TypeOK, txVars
<1>8. TxInv'
  BY <1>1, <1>2, TxQuietLemma DEF txVars
<1>9. ASSUME ~overrun'
      PROVE  Taken' >= 0 /\ RingOK' /\ NoneLost' /\ \A q \in Reader : PendingOK(q)' /\ GotOK(q)'
  <2>1. /\ Taken >= 0 /\ Taken \in Nat /\ RingOK /\ NoneLost
        /\ \A q \in Reader : PendingOK(q) /\ GotOK(q)
    BY <1>1, <1>2, <1>6, <1>9 DEF RxInv
  <2>2. \A i \in 0..(RxCount' - 1) :
          /\ i + 1 \in 1..(RxCount - 1) /\ Place(rx_tail', i, RxLen) = Place(rx_tail, i + 1, RxLen)
    BY <1>2, <1>5, <1>6
  <2>3. RingOK'
    <3>1. ASSUME NEW i \in 0..(RxCount' - 1)
          PROVE  rx_fifo'[Place(rx_tail', i, RxLen)] = Taken' + i + 1
      <4>1. rx_fifo[Place(rx_tail, i + 1, RxLen)] = Taken + (i + 1) + 1
        BY <1>5, <1>6, <2>1, <2>2 DEF RingOK
      <4> QED
        BY <1>2, <1>6, <2>1, <2>2, <4>1
    <3> QED
      BY <3>1 DEF RingOK
  <2>4. Pending(r)' = Taken + 1 /\ \A q \in Reader : q # r => Pending(q)' = Pending(q)
    <3>1. rx_fifo[Place(rx_tail, 0, RxLen)] = Taken + 0 + 1
      BY <1>5, <2>1 DEF RingOK
    <3> QED
      BY <1>2, <1>4, <1>5, <2>1, <3>1 DEF Pending
  <2>5. \A q \in Reader : \A i \in DOMAIN got[q] : got[q][i] \in 1..Taken
    BY <2>1 DEF GotOK
  <2>6. \A q \in Reader : q # r /\ slot[q] # None => Pending(q) \in 1..Taken
    BY <2>1 DEF PendingOK
  <2>7. PendingOK(r)'
    <3>1. \A i \in 0..(RxCount' - 1) : slot'[r] # Place(rx_tail', i, RxLen)
      BY <1>4, <1>5, <2>2
    <3>2. \A q \in Reader : slot'[q] # None /\ Pending(q)' = Pending(r)' => q = r
      BY <1>4, <2>1, <2>4, <2>6
    <3>3. \A q \in Reader : \A i \in DOMAIN got[q] : got[q][i] < Taken + 1 /\ got[q][i] # Taken + 1
      BY <2>1, <2>5
    <3>4. Taken + 1 \in 1..(Taken + 1)
      BY <2>1
    <3> QED
      BY <1>2, <1>6, <2>4, <3>1, <3>2, <3>3, <3>4 DEF PendingOK
  <2>8. ASSUME NEW q \in Reader, q # r
        PROVE  PendingOK(q)'
    <3>1. SUFFICES ASSUME slot[q] # None
                   PROVE  PendingOK(q)'
      BY <1>4, <2>8 DEF PendingOK
    <3>2. Pending(q)' = Pending(q) /\ slot'[q] = slot[q] /\ Pending(q) \in 1..Taken /\ PendingOK(q)
      BY <1>4, <2>1, <2>4, <2>6, <2>8, <3>1
    <3>3. \A i \in 0..(RxCount' - 1) : slot'[q] # Place(rx_tail', i, RxLen)
      <4>1. \A i \in 1..(RxCount - 1) : i \in 0..(RxCount - 1)
        BY <1>5
      <4> QED
        BY <2>2, <3>1, <3>2, <4>1 DEF PendingOK
    <3>4. \A p \in Reader : slot'[p] # None /\ Pending(p)' = Pending(q)' => p = q
      BY <1>4, <2>1, <2>4, <2>8, <3>1, <3>2 DEF PendingOK
    <3>5. Pending(q)' \in 1..Taken'
      BY <1>6, <2>1, <3>2
    <3> QED
      BY <1>2, <3>1, <3>2, <3>3, <3>4, <3>5 DEF PendingOK
  <2>9. \A q \in Reader : GotOK(q)'
    <3>1. \A x \in 1..Taken : x \in 1..Taken'
      BY <1>6, <2>1
    <3> QED
      BY <1>2, <2>1, <3>1 DEF GotOK
  <2>10. NoneLost'
    <3>1. ASSUME NEW k \in 1..Taken'
          PROVE  \/ \E q \in Reader : slot'[q] # None /\ Pending(q)' = k
                 \/ \E q \in Reader : \E i \in DOMAIN got[q] : got[q][i] = k
      <4>1. CASE k = Taken + 1
        BY <1>3, <1>4, <2>4, <4>1
      <4>2. CASE k \in 1..Taken
        BY <1>2, <1>4, <2>1, <2>4, <4>2 DEF NoneLost
      <4> QED
        BY <1>6, <2>1, <4>1, <4>2
    <3> QED
      BY <1>2, <3>1 DEF NoneLost
  <2> QED
    BY <1>6, <2>1, <2>3, <2>7, <2>8, <2>9, <2>10
<1>10. RxInv'
  BY <1>1, <1>2, <1>9 DEF RxInv
<1> QED
  BY <1>7, <1>8, <1>10 DEF UsartInv

(* A reader returns the character in its slot.                             *)
LEMMA ReadbReturnStep ==
  ASSUME UsartInv, NEW r \in Reader, ReadbReturn(r)
  PROVE  UsartInv'
<1>1. TypeOK /\ TxInv /\ RxInv /\ None \notin Nat
  BY UsartAssumption DEF UsartInv
<1> DEFINE v == Pending(r)
           n == Len(got[r])
<1>2. /\ slot[r] # None /\ got' = [got EXCEPT ![r] = Append(got[r], v)]
      /\ slot' = [slot EXCEPT ![r] = None]
      /\ UNCHANGED <<txVars, rx_fifo, rx_head, rx_tail, rx_data, received, overrun>>
  BY DEF ReadbReturn, Pending
<1>3. slot[r] \in 0..(RxLen - 1) /\ v \in Nat /\ got[r] \in Seq(Nat)
  BY <1>1, <1>2 DEF TypeOK, Pending
<1> HIDE DEF v
<1>4. /\ slot' \in [Reader -> 0..(RxLen - 1) \cup {None}] /\ slot'[r] = None
      /\ \A q \in Reader : q # r => slot'[q] = slot[q]
  BY <1>1, <1>2 DEF TypeOK
<1>5. /\ Append(got[r], v) \in Seq(Nat) /\ Len(Append(got[r], v)) = n + 1
      /\ Append(got[r], v)[n + 1] = v /\ \A i \in 1..n : Append(got[r], v)[i] = got[r][i]
  BY <1>3, AppendProperties
<1>6. /\ got' \in [Reader -> Seq(Nat)] /\ got'[r] = Append(got[r], v)
      /\ \A q \in Reader : q # r => got'[q] = got[q]
  BY <1>1, <1>2, <1>5 DEF TypeOK
<1>7. /\ DOMAIN got[r] = 1..n /\ DOMAIN got'[r] = 1..(n + 1) /\ n \in Nat
      /\ got'[r][n + 1] = v /\ \A i \in 1..n : got'[r][i] = got[r][i]
  BY <1>3, <1>5, <1>6
<1> HIDE DEF n
<1>8. TypeOK'
  <2>1. UNCHANGED <<txVars, rx_fifo, rx_head, rx_tail, rx_data, received, overrun>>
    BY <1>2
  <2> QED
    BY <1>1, <1>4, <1>6, <2>1 DEF TypeOK, txVars
<1>9. TxInv'
  BY <1>1, <1>2, TxQuietLemma DEF txVars
<1>10. ASSUME ~overrun'
       PROVE  Taken' >= 0 /\ RingOK' /\ NoneLost' /\ \A q \in Reader : PendingOK(q)' /\ GotOK(q)'
  <2>1. /\ Taken >= 0 /\ RingOK /\ NoneLost
        /\ \A q \in Reader : PendingOK(q) /\ GotOK(q)
    BY <1>1, <1>2, <1>10 DEF RxInv
  <2>2. /\ RxCount' = RxCount /\ Taken' = Taken /\ RingOK'
        /\ \A q \in Reader : q # r => Pending(q)' = Pending(q)
    BY <1>2, <1>4, <2>1 DEF RxCount, Taken, RingOK, Pending
  <2>3. /\ v \in 1..Taken /\ \A i \in 1..n : got[r][i] < v
        /\ \A q \in Reader : \A i \in DOMAIN got[q] : got[q][i] # v
        /\ \A q \in Reader : slot[q] # None /\ Pending(q) = v => q = r
    BY <1>2, <1>7, <2>1 DEF PendingOK, v
  \* a character of the new sequences is an old one or v
  <2>4. ASSUME NEW i \in DOMAIN got'[r]
        PROVE  \/ i \in DOMAIN got[r] /\ got'[r][i] = got[r][i]
               \/ i = n + 1 /\ got'[r][i] = v
    <3>1. i \in 1..n \/ i = n + 1
      BY <1>7, <2>4
    <3> QED
      BY <1>7, <3>1
  <2>5. ASSUME NEW q \in Reader
        PROVE  PendingOK(q)'
    <3>1. CASE q = r
      BY <1>4, <3>1 DEF PendingOK
    <3>2. CASE q # r /\ slot[q] # None
      <4>1. /\ slot'[q] = slot[q] /\ Pending(q)' = Pending(q) /\ PendingOK(q) /\ v # Pending(q)
            /\ got'[q] = got[q]
        BY <1>4, <1>6, <2>1, <2>2, <2>3, <3>2
      <4>2. \A p \in Reader : \A i \in DOMAIN got'[p] : got'[p][i] # Pending(q)
        <5>1. \A i \in DOMAIN got'[r] : got'[r][i] # Pending(q)
          BY <1>7, <2>4, <3>2, <4>1 DEF PendingOK
        <5> QED
          BY <1>6, <3>2, <4>1, <5>1 DEF PendingOK
      <4>3. \A p \in Reader : slot'[p] # None /\ Pending(p)' = Pending(q) => p = q
        BY <1>4, <2>2, <3>2, <4>1 DEF PendingOK
      <4> QED
        BY <1>2, <2>2, <3>2, <4>1, <4>2, <4>3 DEF PendingOK
    <3>3. CASE q # r /\ slot[q] = None
      BY <1>4, <3>3 DEF PendingOK
    <3> QED
      BY <3>1, <3>2, <3>3
  <2>6. ASSUME NEW q \in Reader
        PROVE  GotOK(q)'
    <3>1. \A i \in DOMAIN got'[q] : got'[q][i] \in 1..Taken
      BY <1>6, <1>7, <2>1, <2>3, <2>4 DEF GotOK
    <3>2. \A i, j \in DOMAIN got'[q] : i < j => got'[q][i] < got'[q][j]
      <4>1. CASE q = r
        <5>1. ASSUME NEW i \in DOMAIN got'[r], NEW j \in DOMAIN got'[r], i < j
              PROVE  got'[r][i] < got'[r][j]
          <6>1. i \in 1..n /\ got'[r][i] = got[r][i]
            BY <1>7, <5>1
          <6>2. CASE j = n + 1
            BY <1>7, <2>3, <6>1, <6>2
          <6>3. CASE j \in 1..n
            BY <1>7, <2>1, <5>1, <6>1, <6>3 DEF GotOK
          <6> QED
            BY <1>7, <6>2, <6>3
        <5> QED
          BY <4>1, <5>1
      <4>2. CASE q # r
        BY <1>6, <2>1, <4>2 DEF GotOK
      <4> QED
        BY <4>1, <4>2
    <3>3. ASSUME NEW p \in Reader, NEW i \in DOMAIN got'[q], NEW j \in DOMAIN got'[p],
                 got'[q][i] = got'[p][j], q # p
          PROVE  FALSE
      <4>0. ASSUME NEW o \in Reader, o # r, NEW x \in DOMAIN got'[r], NEW y \in DOMAIN got'[o],
                   got'[r][x] = got'[o][y]
            PROVE  FALSE
        <5>1. y \in DOMAIN got[o] /\ got'[o][y] = got[o][y]
          BY <1>6, <4>0
        <5>2. CASE x \in DOMAIN got[r] /\ got'[r][x] = got[r][x]
          BY <2>1, <4>0, <5>1, <5>2 DEF GotOK
        <5>3. CASE got'[r][x] = v
          BY <2>3, <4>0, <5>1, <5>3
        <5> QED
          BY <2>4, <4>0, <5>2, <5>3
      <4>1. CASE q = r
        BY <3>3, <4>0, <4>1
      <4>2. CASE p = r
        BY <3>3, <4>0, <4>2
      <4>3. CASE q # r /\ p # r
        BY <1>6, <2>1, <3>3, <4>3 DEF GotOK
      <4> QED
        BY <4>1, <4>2, <4>3
    <3> QED
      BY <2>2, <3>1, <3>2, <3>3 DEF GotOK
  <2>7. NoneLost'
    <3>1. ASSUME NEW k \in 1..Taken
          PROVE  \/ \E q \in Reader : slot'[q] # None /\ Pending(q)' = k
                 \/ \E q \in Reader : \E i \in DOMAIN got'[q] : got'[q][i] = k
      <4>1. CASE \E q \in Reader : slot[q] # None /\ Pending(q) = k
        <5>1. PICK q \in Reader : slot[q] # None /\ Pending(q) = k
          BY <4>1
        <5>2. CASE q = r
          BY <1>7, <5>1, <5>2 DEF v
        <5>3. CASE q # r
          BY <1>4, <2>2, <5>1, <5>3
        <5> QED
          BY <5>2, <5>3
      <4>2. CASE \E q \in Reader : \E i \in DOMAIN got[q] : got[q][i] = k
        <5>1. PICK q \in Reader : \E i \in DOMAIN got[q] : got[q][i] = k
          BY <4>2
        <5>2. CASE q = r
          BY <1>7, <5>1, <5>2
        <5>3. CASE q # r
          BY <1>6, <5>1, <5>3
        <5> QED
          BY <5>2, <5>3
      <4> QED
        BY <2>1, <4>1, <4>2 DEF NoneLost
    <3> QED
      BY <2>2, <3>1 DEF NoneLost
  <2> QED
    BY <2>1, <2>2, <2>5, <2>6, <2>7
<1>11. RxInv'
  BY <1>1, <1>2, <1>10 DEF RxInv
<1> QED
  BY <1>8, <1>9, <1>11 DEF UsartInv

-----------------------------------------------------------------------------
(* Empty rings.                                                            *)
LEMMA InitLemma ==
  ASSUME Init
  PROVE  UsartInv
<1>1. TypeOK
  BY UsartAssumption DEF Init, TypeOK
<1>2. TxCount = 0 /\ RxCount = 0 /\ Gone = 0 /\ Taken = 0
  BY UsartAssumption DEF Init, TxCount, RxCount, Gone, Taken, Count
<1>3. TxInv
  BY <1>2 DEF Init, TxInv
<1>4. RxInv
  BY <1>2 DEF Init, RxInv, RingOK, NoneLost, PendingOK, GotOK
<1> QED
  BY <1>1, <1>3, <1>4 DEF UsartInv

(* UsartInv is inductive.                                                  *)
THEOREM UsartInvariant == Spec => []UsartInv
<1>1. UsartInv /\ [Next]_vars => UsartInv'
  <2> SUFFICES ASSUME UsartInv, [Next]_vars
               PROVE  UsartInv'
    OBVIOUS
  <2>1. CASE UNCHANGED vars
    <3>1. TypeOK'
      BY <2>1 DEF UsartInv, TypeOK, vars, txVars, rxVars
    <3> QED
      BY <2>1, <3>1, TxQuietLemma, RxQuietLemma DEF UsartInv, vars, txVars
  <2> QED
    BY <2>1, WritebStep, ReadbTakeStep, ReadbReturnStep, InterruptRxStep, InterruptTxStep,
       InterruptTxIdleStep, ShiftOutStep, ArriveStep DEF Next, Interrupt
<1> QED
  BY InitLemma, <1>1, PTL DEF Spec

(* The variables keep their types; no index leaves its ring.               *)
THEOREM UsartTypes == Spec => []TypeOK
<1>1. UsartInv => TypeOK
  BY DEF UsartInv
<1> QED
  BY <1>1, UsartInvariant, PTL

(* What left, what is in the data register and what is in the ring are the *)
(* characters writeb accepted, in order.                                   *)
THEOREM CharactersLeaveInOrder == Spec => []TxInOrder
<1>1. ASSUME UsartInv
      PROVE  TxInOrder
  <2> DEFINE n == (tx_head + TxLen - tx_tail) % TxLen
             w == Len(wire)
  <2>1. /\ TypeOK /\ TxInv /\ TxLen \in Nat \ {0}
        /\ tx_head \in 0..(TxLen - 1) /\ tx_tail \in 0..(TxLen - 1)
    BY <1>1, UsartAssumption DEF UsartInv, TypeOK
  <2>2. n = TxCount /\ n \in 0..(TxLen - 1)
    BY <2>1, RemainderLemma DEF TxCount
  <2>3. \A i \in 1..n : (tx_tail + i) % TxLen = Place(tx_tail, i, TxLen)
    <3>1. \A i \in 0..(TxLen - 1) : (tx_tail + i) % TxLen = Place(tx_tail, i, TxLen)
      BY <2>1, RemainderLemma
    <3>2. \A i \in 1..n : i \in 0..(TxLen - 1)
      BY <2>1, <2>2
    <3> QED
      BY <3>1, <3>2
  <2>4. TxRing = [i \in 1..n |-> tx_fifo[(tx_tail + i) % TxLen]]
    BY DEF TxRing
  <2> HIDE DEF n
  <2>5. TxRing = [i \in 1..n |-> Gone + i]
    BY <2>1, <2>2, <2>3, <2>4 DEF TxInv
  <2>6. wire \in Seq(Nat) /\ wire = [i \in 1..w |-> i] /\ w \in Nat
    BY <2>1 DEF TypeOK, TxInv
  <2>7. /\ Gone \in Nat /\ accepted = Gone + n
        /\ TxRegister = [i \in 1..(Gone - w) |-> w + i] /\ Gone - w \in Nat
    BY <2>1, <2>2, <2>6 DEF TxInv, Gone, TxRegister
  <2> HIDE DEF w
  <2>8. wire \o TxRegister = [i \in 1..Gone |-> i]
    BY <2>6, <2>7
  <2>9. [i \in 1..Gone |-> i] \o [i \in 1..n |-> Gone + i] = [i \in 1..accepted |-> i]
    BY <2>2, <2>7
  <2> QED
    BY <2>5, <2>8, <2>9 DEF TxInOrder
<1> QED
  BY <1>1, UsartInvariant, PTL

(* Unless the handler has overwritten an unread character, each received   *)
(* one is in the ring, about to be returned, or was returned, once.        *)
THEOREM CharactersReadOnce == Spec => []RxExactlyOnce
<1>1. ASSUME UsartInv, ~overrun
      PROVE  /\ RxRing \cup RxPending \cup RxRead = 1..received
             /\ RxRing \cap (RxPending \cup RxRead) = {} /\ RxPending \cap RxRead = {}
  <2> DEFINE n == (rx_head + RxLen - rx_tail) % RxLen
  <2>1. /\ TypeOK /\ RxLen \in Nat \ {0} /\ Taken >= 0 /\ RingOK /\ NoneLost
        /\ \A r \in Reader : PendingOK(r) /\ GotOK(r)
        /\ rx_head \in 0..(RxLen - 1) /\ rx_tail \in 0..(RxLen - 1) /\ received \in Nat
    BY <1>1, UsartAssumption DEF UsartInv, RxInv, TypeOK
  <2>2. n = RxCount /\ n \in 0..(RxLen - 1)
    BY <2>1, RemainderLemma DEF RxCount
  <2>3. \A i \in 0..(n - 1) : (rx_tail + i) % RxLen = Place(rx_tail, i, RxLen)
    <3>1. \A i \in 0..(RxLen - 1) : (rx_tail + i) % RxLen = Place(rx_tail, i, RxLen)
      BY <2>1, RemainderLemma
    <3>2. \A i \in 0..(n - 1) : i \in 0..(RxLen - 1)
      BY <2>1, <2>2
    <3> QED
      BY <3>1, <3>2
  <2>4. RxRing = {rx_fifo[(rx_tail + i) % RxLen] : i \in 0..(n - 1)}
    BY DEF RxRing
  <2> HIDE DEF n
  <2>5. received = Taken + n /\ Taken \in Nat /\ n \in Nat
    BY <2>1, <2>2 DEF Taken
  <2>6. \A x : x \in RxRing <=> \E i \in 0..(n - 1) : x = Taken + i + 1
    BY <2>1, <2>2, <2>3, <2>4 DEF RingOK
  <2>7. \A x : x \in RxRing <=> x \in (Taken + 1)..received
    <3>1. \A x \in (Taken + 1)..received : x - Taken - 1 \in 0..(n - 1) /\ x = Taken + (x - Taken - 1) + 1
      BY <2>5
    <3>2. \A i \in 0..(n - 1) : Taken + i + 1 \in (Taken + 1)..received
      BY <2>5
    <3> QED
      BY <2>6, <3>1, <3>2
  <2>8. \A x : x \in RxPending <=> \E r \in Reader : slot[r] # None /\ Pending(r) = x
    BY DEF RxPending, Pending
  <2>9. \A x : x \in RxRead <=> \E r \in Reader : \E i \in DOMAIN got[r] : got[r][i] = x
    BY DEF RxRead
  <2>10. RxPending \cup RxRead = 1..Taken
    <3>1. \A x \in RxPending \cup RxRead : x \in 1..Taken
      BY <2>1, <2>8, <2>9 DEF PendingOK, GotOK
    <3>2. \A x \in 1..Taken : x \in RxPending \cup RxRead
      BY <2>1, <2>8, <2>9 DEF NoneLost
    <3> QED
      BY <3>1, <3>2
  <2>11. RxPending \cap RxRead = {}
    BY <2>1, <2>8, <2>9 DEF PendingOK
  <2>12. /\ (Taken + 1)..received \cup 1..Taken = 1..received
         /\ ((Taken + 1)..received) \cap (1..Taken) = {}
    BY <2>5
  <2> QED
    BY <2>7, <2>10, <2>11, <2>12
<1>2. UsartInv => RxExactlyOnce
  BY <1>1 DEF RxExactlyOnce, UsartInv, RxInv, GotOK
<1> QED
  BY <1>2, UsartInvariant, PTL
=============================================================================
