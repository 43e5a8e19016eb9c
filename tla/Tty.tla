-------------------------------- MODULE Tty --------------------------------
(***************************************************************************)
(* The terminal drivers/tty/tty.c on top of the serial driver: tty_read    *)
(* takes characters until the end of a line, echoes and edits them, and    *)
(* tty_write sends a text.  Neither takes a lock: the processes of Reader  *)
(* interleave character by character.  ll_read and ll_write are readb and  *)
(* writeb of Usart, and a call that gets -1 from them tries again.         *)
(*                                                                         *)
(* Usart numbers the characters; keys and sent say what the numbers stand  *)
(* for.  The keyboard has a letter, return, delete and control-D.          *)
(***************************************************************************)
EXTENDS Usart, SequencesExt

CONSTANTS ONLRET,     \* mode.o_flag & ONLRET: send a CR before every LF
          Counts,     \* the sizes tty_read is called with
          Texts,      \* what tty_write is called with, sequences of characters
          Writer,     \* bound: the processes of Reader that call tty_write
          MaxCalls    \* bound: calls of tty_read and tty_write in a behaviour

Typed == {"letter", "cr", "del", "eot"}
Char == {"letter", "lf", "cr", "bs", "space", "eot"}

ASSUME TtyAssumption ==
  /\ ONLRET \in BOOLEAN
  /\ Counts \subseteq Nat \ {0}
  /\ \A text \in Texts : text \in Seq(Char)
  /\ Writer \subseteq Reader
  /\ MaxCalls \in Nat

VARIABLES keys,    \* history: the characters that arrived, by number
          sent,    \* history: the characters writeb accepted, by number, and who sent them
          at,      \* "user", or in tty_read about to read ("read") or to echo
                   \* ("echo"), or in tty_write ("write")
          out,     \* the characters that are still to be sent before the
                   \* call goes on
          c,       \* tty_read: the character read
          cbuff,   \* tty_read: the line so far; its length is the index i
          room,    \* tty_read: the argument count
          calls,   \* history: how many calls were made
          since    \* history: Len(sent) when tty_read was called

ttyVars == <<keys, sent, at, out, c, cbuff, room, calls, since>>
allVars == <<vars, ttyVars>>

TtyTypeOK ==
  /\ TypeOK
  /\ keys \in Seq(Typed) /\ Len(keys) <= MaxRx
  /\ sent \in Seq([char : Char, by : Reader]) /\ Len(sent) = accepted
  /\ at \in [Reader -> {"user", "read", "echo", "write"}]
  /\ out \in [Reader -> Seq(Char)]
  /\ c \in [Reader -> Char \cup {None}]
  /\ cbuff \in [Reader -> Seq(Char)]
  /\ room \in [Reader -> Counts \cup {0}]
  /\ calls \in 0..MaxCalls
  /\ since \in [Reader -> 0..MaxTx]

TtyInit ==
  /\ Init
  /\ keys = <<>> /\ sent = <<>>
  /\ at = [p \in Reader |-> "user"]
  /\ out = [p \in Reader |-> <<>>]
  /\ c = [p \in Reader |-> None]
  /\ cbuff = [p \in Reader |-> <<>>]
  /\ room = [p \in Reader |-> 0]
  /\ calls = 0
  /\ since = [p \in Reader |-> 0]

\* what reaches writeb for the character ch
Cooked(ch) == IF ch = "lf" /\ ONLRET THEN <<"cr", "lf">> ELSE <<ch>>

\* CR is read as LF and DEL as backspace
Mapped(key) == CASE key = "cr" -> "lf" [] key = "del" -> "bs" [] OTHER -> key

\* the echo of a backspace that only moves the cursor
EchoMovesOnly(ch) == Cooked(ch)

\* the echo of ch; a backspace also erases the character under the cursor
Echo(ch) == IF ch = "bs" THEN <<"bs", "space", "bs">> ELSE Cooked(ch)

----------------------------------------------------------------------------
\* the sender p hands the first of its characters to writeb
Send(p) ==
  /\ out[p] # <<>>
  /\ Writeb
  /\ sent' = Append(sent, [char |-> Head(out[p]), by |-> p])
  /\ out' = [out EXCEPT ![p] = Tail(@)]

ReadCall(p, count) ==
  /\ at[p] = "user" /\ calls < MaxCalls
  /\ at' = [at EXCEPT ![p] = "read"]
  /\ room' = [room EXCEPT ![p] = count]
  /\ cbuff' = [cbuff EXCEPT ![p] = <<>>]
  /\ since' = [since EXCEPT ![p] = Len(sent)]
  /\ calls' = calls + 1
  /\ UNCHANGED <<vars, keys, sent, out, c>>

\* ll_read begins
ReadTake(p) ==
  /\ at[p] = "read" /\ ReadbTake(p)
  /\ UNCHANGED ttyVars

\* ll_read returns a character, which is to be echoed
ReadGet(p) ==
  /\ at[p] = "read" /\ ReadbReturn(p)
  /\ c' = [c EXCEPT ![p] = Mapped(keys[rx_fifo[slot[p]]])]
  /\ out' = [out EXCEPT ![p] = Echo(c'[p])]
  /\ at' = [at EXCEPT ![p] = "echo"]
  /\ UNCHANGED <<keys, sent, cbuff, room, calls, since>>

EchoSend(p) ==
  /\ at[p] = "echo" /\ Send(p)
  /\ UNCHANGED <<keys, at, c, cbuff, room, calls, since>>

\* tty_read erases a character of an empty line: i wraps around, the loop ends
\* and the call returns 2^32 - 1
Underflows(p) == c[p] = "bs" /\ cbuff[p] = <<>>

\* the line after the character c
Edit(p) ==
  CASE c[p] = "bs" /\ cbuff[p] # <<>> -> Front(cbuff[p])
    [] c[p] = "eot" \/ Underflows(p) -> cbuff[p]
    [] OTHER -> Append(cbuff[p], c[p])

\* the rest of the loop body of tty_read, and the return of the call
ReadEdit(p) ==
  /\ at[p] = "echo" /\ out[p] = <<>>
  /\ cbuff' = [cbuff EXCEPT ![p] = Edit(p)]
  /\ at' = [at EXCEPT ![p] =
       IF c[p] \in {"lf", "eot"} \/ Underflows(p) \/ Len(Edit(p)) >= room[p]
       THEN "user" ELSE "read"]
  /\ c' = [c EXCEPT ![p] = None]
  /\ UNCHANGED <<vars, keys, sent, out, room, calls, since>>

\* the index of tty_write is not initialized: the call may skip the first
\* characters, or all of them
WriteCall(p, text) ==
  /\ at[p] = "user" /\ calls < MaxCalls
  /\ \E i \in 0..Len(text) :
       out' = [out EXCEPT ![p] = FlattenSeq([k \in 1..(Len(text) - i) |-> Cooked(text[i + k])])]
  /\ at' = [at EXCEPT ![p] = "write"]
  /\ calls' = calls + 1
  /\ UNCHANGED <<vars, keys, sent, c, cbuff, room, since>>

WriteSend(p) ==
  /\ at[p] = "write" /\ Send(p)
  /\ UNCHANGED <<keys, at, c, cbuff, room, calls, since>>

\* tty_write returns when all is sent, or with O_NONBLOCK when the ring is
\* full (but not between the CR and the retried LF's CR)
WriteReturn(p) ==
  /\ at[p] = "write"
  /\ IF out[p] = <<>> THEN TRUE
     ELSE Head(out[p]) # "cr" /\ Inc(tx_head, TxLen) = tx_tail
  /\ at' = [at EXCEPT ![p] = "user"]
  /\ out' = [out EXCEPT ![p] = <<>>]
  /\ UNCHANGED <<vars, keys, sent, c, cbuff, room, calls, since>>

----------------------------------------------------------------------------
\* external: somebody types
Type(key) ==
  /\ Arrive
  /\ keys' = Append(keys, key)
  /\ UNCHANGED <<sent, at, out, c, cbuff, room, calls, since>>

TtyHardware == (Interrupt \/ ShiftOut) /\ UNCHANGED ttyVars

\* a call goes on by itself, when the rings let it
Continues(p) ==
  ReadTake(p) \/ ReadGet(p) \/ EchoSend(p) \/ ReadEdit(p) \/ WriteSend(p) \/ WriteReturn(p)

TtyNext ==
  \/ \E p \in Reader : Continues(p)
  \/ \E p \in Reader, n \in Counts : ReadCall(p, n)
  \/ \E p \in Writer, text \in Texts : WriteCall(p, text)
  \/ \E key \in Typed : Type(key)
  \/ TtyHardware

TtySpec == TtyInit /\ [][TtyNext]_allVars

\* interrupts are taken and the transmitter runs
TtyFairness ==
  /\ WF_allVars(Interrupt /\ UNCHANGED ttyVars)
  /\ WF_allVars(ShiftOut /\ UNCHANGED ttyVars)

TtyFairSpec == TtySpec /\ TtyFairness

----------------------------------------------------------------------------
(* A terminal at the other end of the wire: its last line, and the column  *)
(* of the cursor.                                                          *)
Put(screen, ch) ==
  LET line == screen.line
      col == screen.col
  IN  CASE ch = "lf" -> [line |-> [k \in 1..col |-> "space"], col |-> col]
        [] ch = "cr" -> [line |-> line, col |-> 0]
        [] ch = "bs" -> [line |-> line, col |-> IF col = 0 THEN 0 ELSE col - 1]
        [] ch = "eot" -> screen
        [] OTHER -> [line |-> [k \in 1..(IF col = Len(line) THEN col + 1 ELSE Len(line)) |->
                                 IF k = col + 1 THEN ch ELSE line[k]],
                     col |-> col + 1]

Screen(n) ==
  FoldLeft(Put, [line |-> <<>>, col |-> 0], [k \in 1..n |-> sent[wire[k]].char])

Quiet(p) ==
  /\ at[p] = "read" /\ slot[p] = None
  /\ Len(wire) = accepted
  /\ \A k \in (since[p] + 1)..Len(sent) : sent[k].by = p
  /\ Screen(since[p]).line = <<>>

(* The user sees the line that tty_read will return: when all echoes of a  *)
(* reader have left and nobody else has written, the last line on the      *)
(* screen, up to the cursor, is the buffer, and what is after the cursor   *)
(* is blank.                                                               *)
ScreenShowsLine ==
  \A p \in Reader : Quiet(p) =>
    LET screen == Screen(Len(wire)) IN
    /\ SubSeq(screen.line, 1, screen.col) = cbuff[p]
    /\ \A k \in (screen.col + 1)..Len(screen.line) : screen.line[k] = "space"
=============================================================================
