------------------------------- MODULE Usart -------------------------------
(***************************************************************************)
(* The serial driver drivers/usart/mcxa153_usart.c: a ring of characters   *)
(* to send and one of characters received, each shared between processes   *)
(* (writeb and readb) and the interrupt handler usart_interrupt.  writeb   *)
(* and readb disable interrupts, so each is one step, except that readb    *)
(* reads the character after it has enabled them again.                    *)
(*                                                                         *)
(* The LPUART itself is external: a one-character data register in each    *)
(* direction.  Characters are numbered in the order in which writeb        *)
(* accepts them, and in the order in which the handler receives them.      *)
(***************************************************************************)
EXTENDS Naturals, Sequences

CONSTANTS TxLen,    \* USART_TX_FIFO_LEN, a power of two
          RxLen,    \* USART_RX_FIFO_LEN, a power of two
          Reader,   \* the processes that read
          MaxTx,    \* bound: characters written in a behaviour
          MaxRx,    \* bound: characters received in a behaviour
          None

ASSUME UsartAssumption ==
  /\ TxLen \in Nat \ {0, 1} /\ RxLen \in Nat \ {0, 1}
  /\ MaxTx \in Nat /\ MaxRx \in Nat
  /\ None \notin Nat

VARIABLES tx_fifo, tx_head, tx_tail,   \* the ring of writeb
          rx_fifo, rx_head, rx_tail,   \* the ring of readb
          TIE,        \* CTRL.TIE, the transmit interrupt is enabled
          tx_data,    \* the transmit data register, None when STAT.TDRE is set
          rx_data,    \* the receive data register, None when STAT.RDRF is clear
          slot,       \* readb: the local variable tmp of a process that has
                      \* enabled interrupts and not yet read the character
          accepted,   \* history: how many characters writeb has accepted
          wire,       \* history: the characters that left, in order
          received,   \* history: how many characters the handler has received
          got,        \* history: the characters each reader got, in order
          overrun     \* history: the handler has overwritten a character that
                      \* was still to be read

txVars == <<tx_fifo, tx_head, tx_tail, TIE, tx_data, accepted, wire>>
rxVars == <<rx_fifo, rx_head, rx_tail, rx_data, slot, received, got, overrun>>
vars == <<txVars, rxVars>>

TypeOK ==
  /\ tx_fifo \in [0..(TxLen - 1) -> Nat] /\ rx_fifo \in [0..(RxLen - 1) -> Nat]
  /\ tx_head \in 0..(TxLen - 1) /\ tx_tail \in 0..(TxLen - 1)
  /\ rx_head \in 0..(RxLen - 1) /\ rx_tail \in 0..(RxLen - 1)
  /\ TIE \in BOOLEAN
  /\ tx_data \in Nat \cup {None} /\ rx_data \in Nat \cup {None}
  /\ slot \in [Reader -> 0..(RxLen - 1) \cup {None}]
  /\ accepted \in 0..MaxTx /\ received \in 0..MaxRx
  /\ wire \in Seq(Nat) /\ got \in [Reader -> Seq(Nat)]
  /\ overrun \in BOOLEAN

Init ==
  /\ tx_fifo = [i \in 0..(TxLen - 1) |-> 0] /\ tx_head = 0 /\ tx_tail = 0
  /\ rx_fifo = [i \in 0..(RxLen - 1) |-> 0] /\ rx_head = 0 /\ rx_tail = 0
  /\ TIE = FALSE /\ tx_data = None /\ rx_data = None
  /\ slot = [r \in Reader |-> None]
  /\ accepted = 0 /\ wire = <<>>
  /\ received = 0 /\ got = [r \in Reader |-> <<>>]
  /\ overrun = FALSE

\* an index that is not masked
IncNoMask(x, len) == x + 1

\* (x + 1) & (len - 1)
Inc(x, len) == IF x = len - 1 THEN 0 ELSE x + 1

----------------------------------------------------------------------------
\* writeb without its test for a full ring
WritebUnchecked ==
  LET tmp == Inc(tx_head, TxLen) IN
  /\ accepted < MaxTx
  /\ tx_head' = tmp
  /\ tx_fifo' = [tx_fifo EXCEPT ![tmp] = accepted + 1]
  /\ TIE' = TRUE
  /\ accepted' = accepted + 1
  /\ UNCHANGED <<tx_tail, tx_data, wire, rxVars>>

\* writeb that leaves the transmit interrupt as it is
WritebNoTIE ==
  LET tmp == Inc(tx_head, TxLen) IN
  /\ accepted < MaxTx
  /\ tmp # tx_tail
  /\ tx_head' = tmp
  /\ tx_fifo' = [tx_fifo EXCEPT ![tmp] = accepted + 1]
  /\ accepted' = accepted + 1
  /\ UNCHANGED <<tx_tail, TIE, tx_data, wire, rxVars>>

\* writeb accepts a character; when the ring is full it returns -1 and
\* changes nothing, and its callers try again
Writeb ==
  LET tmp == Inc(tx_head, TxLen) IN
  /\ accepted < MaxTx
  /\ tmp # tx_tail
  /\ tx_head' = tmp
  /\ tx_fifo' = [tx_fifo EXCEPT ![tmp] = accepted + 1]
  /\ TIE' = TRUE
  /\ accepted' = accepted + 1
  /\ UNCHANGED <<tx_tail, tx_data, wire, rxVars>>

\* readb up to __enable_irq(); of an empty ring it returns -1
ReadbTake(r) ==
  /\ slot[r] = None
  /\ rx_tail # rx_head
  /\ slot' = [slot EXCEPT ![r] = rx_tail]
  /\ rx_tail' = Inc(rx_tail, RxLen)
  /\ UNCHANGED <<txVars, rx_fifo, rx_head, rx_data, received, got, overrun>>

\* the rest of readb: return usart->rx_fifo[tmp]
ReadbReturn(r) ==
  /\ slot[r] # None
  /\ got' = [got EXCEPT ![r] = Append(@, rx_fifo[slot[r]])]
  /\ slot' = [slot EXCEPT ![r] = None]
  /\ UNCHANGED <<txVars, rx_fifo, rx_head, rx_tail, rx_data, received, overrun>>

----------------------------------------------------------------------------
\* a handler that puts the character into the slot after head, as the
\* transmit side does
InterruptRxNextSlot ==
  LET tmp == Inc(rx_head, RxLen) IN
  /\ rx_data # None
  /\ rx_fifo' = [rx_fifo EXCEPT ![tmp] = rx_data]
  /\ rx_head' = tmp
  /\ rx_data' = None
  /\ received' = received + 1
  /\ overrun' = (overrun \/ tmp = rx_tail \/ \E r \in Reader : slot[r] = rx_head)
  /\ UNCHANGED <<txVars, rx_tail, slot, got>>

\* usart_interrupt with STAT.RDRF set: store the character, whether the ring
\* is full or not
InterruptRx ==
  LET tmp == Inc(rx_head, RxLen) IN
  /\ rx_data # None
  /\ rx_fifo' = [rx_fifo EXCEPT ![rx_head] = rx_data]
  /\ rx_head' = tmp
  /\ rx_data' = None
  /\ received' = received + 1
  /\ overrun' = (overrun \/ tmp = rx_tail \/ \E r \in Reader : slot[r] = rx_head)
  /\ UNCHANGED <<txVars, rx_tail, slot, got>>

\* the interrupt is for the transmitter: enabled, and DATA is free
TxInterrupt == rx_data = None /\ TIE /\ tx_data = None

InterruptTx ==
  /\ TxInterrupt
  /\ tx_tail # tx_head
  /\ tx_tail' = Inc(tx_tail, TxLen)
  /\ tx_data' = tx_fifo[tx_tail']
  /\ UNCHANGED <<tx_fifo, tx_head, TIE, accepted, wire, rxVars>>

\* nothing is left to send: the transmit interrupt is switched off
InterruptTxIdle ==
  /\ TxInterrupt
  /\ tx_tail = tx_head
  /\ TIE' = FALSE
  /\ UNCHANGED <<tx_fifo, tx_head, tx_tail, tx_data, accepted, wire, rxVars>>

Interrupt == InterruptRx \/ InterruptTx \/ InterruptTxIdle

----------------------------------------------------------------------------
\* external: the transmitter sends the character in DATA
ShiftOut ==
  /\ tx_data # None
  /\ wire' = Append(wire, tx_data)
  /\ tx_data' = None
  /\ UNCHANGED <<tx_fifo, tx_head, tx_tail, TIE, accepted, rxVars>>

\* external: a character arrives, after the last one was taken
Arrive ==
  /\ received < MaxRx
  /\ rx_data = None
  /\ rx_data' = received + 1
  /\ UNCHANGED <<txVars, rx_fifo, rx_head, rx_tail, slot, received, got, overrun>>

Next ==
  \/ Writeb
  \/ \E r \in Reader : ReadbTake(r) \/ ReadbReturn(r)
  \/ Interrupt
  \/ ShiftOut \/ Arrive

Spec == Init /\ [][Next]_vars

\* interrupts are taken and the transmitter runs
Fairness == WF_vars(Interrupt) /\ WF_vars(ShiftOut)

FairSpec == Spec /\ Fairness

----------------------------------------------------------------------------
\* the characters in the transmit ring, the next to be sent first
TxRing ==
  LET n == (tx_head + TxLen - tx_tail) % TxLen
  IN  [i \in 1..n |-> tx_fifo[(tx_tail + i) % TxLen]]

TxRegister == IF tx_data = None THEN <<>> ELSE <<tx_data>>

(* What left the wire, what is in the data register and what is in the     *)
(* ring are, in this order, exactly the characters writeb accepted: none   *)
(* is lost, doubled or overtaken, at any interleaving of the handler with  *)
(* the writers and at a full and an empty ring.                            *)
TxInOrder == wire \o TxRegister \o TxRing = [i \in 1..accepted |-> i]

(* Everything accepted is sent in the end: the transmitter is restarted by *)
(* the next writeb after it has been switched off, and no character is     *)
(* left behind (MaxTx bounds what is written in a behaviour).              *)
TxDrains == Len(wire) < accepted ~> Len(wire) = accepted

RxRing ==
  {rx_fifo[(rx_tail + i) % RxLen] : i \in 0..(((rx_head + RxLen - rx_tail) % RxLen) - 1)}
RxPending == {rx_fifo[slot[r]] : r \in {q \in Reader : slot[q] # None}}
RxRead == UNION {{got[r][i] : i \in DOMAIN got[r]} : r \in Reader}

(* As long as the handler overwrites no unread character, every received   *)
(* character is in the ring, about to be returned, or was returned, and in *)
(* one of these only; each reader gets its characters in the order of      *)
(* arrival.                                                                *)
RxExactlyOnce ==
  ~overrun =>
    /\ RxRing \cup RxPending \cup RxRead = 1..received
    /\ RxRing \cap (RxPending \cup RxRead) = {} /\ RxPending \cap RxRead = {}
    /\ \A r \in Reader : \A i, j \in DOMAIN got[r] : i < j => got[r][i] < got[r][j]
    /\ \A r, q \in Reader : \A i \in DOMAIN got[r], j \in DOMAIN got[q] :
         got[r][i] = got[q][j] => r = q
=============================================================================
