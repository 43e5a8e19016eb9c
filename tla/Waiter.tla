------------------------------- MODULE Waiter -------------------------------
(***************************************************************************)
(* The wait queues of kernel/waiter.c.  A waiter is a pair of pointers     *)
(* into a list that is linked through the wait_next field of the processes *)
(* themselves, so all waiters share one field per process.  Processes are  *)
(* pushed at head and popped from tail; wait_next leads from tail to head. *)
(***************************************************************************)
EXTENDS Scheduler

CONSTANTS Waiters,   \* the wait queues (waiter_t)
          Nil        \* the null pointer

ASSUME WaiterAssumption == Nil \notin Proc /\ Nil \notin Waiters

VARIABLES head, tail,   \* waiter->head, waiter->tail
          wait_next,    \* proc->wait_next
          waiting_on    \* proc->waiting_on

waiterVars == <<head, tail, wait_next, waiting_on>>

WaiterTypeOK ==
  /\ head \in [Waiters -> Proc \cup {Nil}]
  /\ tail \in [Waiters -> Proc \cup {Nil}]
  /\ wait_next \in [Proc -> Proc \cup {Nil}]
  /\ waiting_on \in [Proc -> Waiters \cup {Nil}]

WaiterInit ==
  /\ head = [w \in Waiters |-> Nil]
  /\ tail = [w \in Waiters |-> Nil]
  /\ wait_next = [p \in Proc |-> Nil]
  /\ waiting_on = [p \in Proc |-> Nil]

----------------------------------------------------------------------------
\* waiter_push that puts the newcomer where waiter_pop takes from
WaiterPushFront(w, p) ==
  /\ head' = IF head[w] = Nil THEN [head EXCEPT ![w] = p] ELSE head
  /\ tail' = [tail EXCEPT ![w] = p]
  /\ wait_next' = [wait_next EXCEPT ![p] = tail[w]]
  /\ waiting_on' = [waiting_on EXCEPT ![p] = w]

\* waiter_push(w, p)
WaiterPush(w, p) ==
  /\ head' = [head EXCEPT ![w] = p]
  /\ tail' = IF head[w] = Nil THEN [tail EXCEPT ![w] = p] ELSE tail
  /\ wait_next' = IF head[w] = Nil THEN wait_next
                  ELSE [wait_next EXCEPT ![head[w]] = p]
  /\ waiting_on' = [waiting_on EXCEPT ![p] = w]

\* waiter_pop that leaves head behind when the queue becomes empty
WaiterPopKeepHead(w) ==
  LET p == tail[w] IN
  /\ tail' = [tail EXCEPT ![w] = wait_next[p]]
  /\ head' = head
  /\ wait_next' = [wait_next EXCEPT ![p] = Nil]
  /\ waiting_on' = [waiting_on EXCEPT ![p] = Nil]

\* waiter_pop(w), of a queue that is not empty; it returns tail[w]
WaiterPop(w) ==
  LET p == tail[w] IN
  /\ tail' = [tail EXCEPT ![w] = wait_next[p]]
  /\ head' = IF wait_next[p] = Nil THEN [head EXCEPT ![w] = Nil] ELSE head
  /\ wait_next' = [wait_next EXCEPT ![p] = Nil]
  /\ waiting_on' = [waiting_on EXCEPT ![p] = Nil]

\* the walk of waiter_remove: from head along wait_next
FromHead(w) ==
  LET walk[i \in Nat] == IF i = 0 THEN head[w]
                         ELSE IF walk[i - 1] = Nil THEN Nil ELSE wait_next[walk[i - 1]]
  IN  walk

(* waiter_remove(w, p), as the code does it: the walk starts at head and   *)
(* follows wait_next, which leads AWAY from tail, so it only ever sees the *)
(* process at head; nothing is cleared in the process that is removed.     *)
WaiterRemove(w, p) ==
  LET walk == FromHead(w)
      Found(i) == walk[i] = p /\ \A j \in 0..(i - 1) : walk[j] \notin {p, Nil}
      Prev(i) == IF i = 0 THEN Nil ELSE walk[i - 1]
  IN  /\ waiting_on' = waiting_on
      /\ \/ /\ \A i \in 0..Cardinality(Proc) : ~Found(i)
            /\ UNCHANGED <<head, tail, wait_next>>
         \/ \E i \in 0..Cardinality(Proc) :
              /\ Found(i)
              /\ head' = IF i = 0 THEN [head EXCEPT ![w] = wait_next[p]] ELSE head
              /\ wait_next' = IF i = 0 THEN wait_next
                              ELSE [wait_next EXCEPT ![Prev(i)] = wait_next[p]]
              /\ tail' = IF wait_next[p] = Nil THEN [tail EXCEPT ![w] = Prev(i)]
                         ELSE tail
=============================================================================
