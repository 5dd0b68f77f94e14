---------------------------- MODULE FifoSemaphore ----------------------------
(***************************************************************************)
(* What one counting semaphore promises to its callers, whatever schedules *)
(* them: units are neither made nor lost, a caller never passes those who  *)
(* wait before it, and a release serves callers from the front of the      *)
(* queue until it cannot pay for the next.  A waiter may leave at any time *)
(* without being served (time-out, termination or deletion of its thread). *)
(***************************************************************************)
EXTENDS Integers, FiniteSetsExt

CONSTANTS
  Callers,   \* who may wait
  Units,     \* how many units a call asks for or releases
  MaxCount   \* the largest capacity

VARIABLES
  active,    \* the semaphore exists
  count,     \* units available
  capacity,  \* the limit it was created with
  queue      \* what each waiting caller needs and who waits before it

fvars == <<active, count, capacity, queue>>

Queued     == DOMAIN queue
EmptyQueue == [c \in {} |-> [need |-> 0, before |-> {}]]

(* The callers in L leave the queue q; caller c joins it at the end.       *)
Without(q, L) ==
  [c \in DOMAIN q \ L |-> [need |-> q[c].need, before |-> q[c].before \ L]]

Joined(q, c, n) ==
  [d \in DOMAIN q \cup {c} |->
     IF d = c THEN [need |-> n, before |-> DOMAIN q] ELSE q[d]]

Cost(q, S) == MapThenSumSet(LAMBDA c : q[c].need, S)

Create(init, cap) ==
  /\ ~active
  /\ init <= cap
  /\ active' = TRUE /\ count' = init /\ capacity' = cap /\ queue' = EmptyQueue

Delete ==
  /\ active
  /\ active' = FALSE /\ count' = 0 /\ capacity' = 0 /\ queue' = EmptyQueue

(* A caller takes its units at once only if nobody is left waiting. *)
Take(n) ==
  /\ active /\ n <= count
  /\ count' = count - n
  /\ queue' = EmptyQueue
  /\ UNCHANGED <<active, capacity>>

(* It waits only if it must: after those in L have left.  Those in M, the  *)
(* caller perhaps, leave until something else happens.                     *)
Join(c, n, L, M) ==
  LET q == Without(queue, L)
  IN  /\ active /\ n <= capacity
      /\ c \notin Queued
      /\ count < n \/ DOMAIN q # {}
      /\ queue' = Without(Joined(q, c, n), M)
      /\ UNCHANGED <<active, count, capacity>>

Leave(L) ==
  /\ queue' = Without(queue, L)
  /\ UNCHANGED <<active, count, capacity>>

(* The callers in S are served: a front of the queue that can be paid for, *)
(* and behind which nobody can.                                            *)
Release(n, L, S) ==
  LET q    == Without(queue, L)
      left == count + n - Cost(q, S)
  IN  /\ active
      /\ S \subseteq DOMAIN q
      /\ \A c \in S : q[c].before \subseteq S
      /\ left >= 0
      /\ \A c \in DOMAIN q \ S : q[c].before \subseteq S => q[c].need > left
      /\ queue' = Without(q, S)
      /\ count' = left
      /\ UNCHANGED <<active, capacity>>

FifoInit == active = FALSE /\ count = 0 /\ capacity = 0 /\ queue = EmptyQueue

FifoNext ==
  \/ \E init \in 0 .. MaxCount, cap \in 1 .. MaxCount : Create(init, cap)
  \/ Delete
  \/ \E n \in Units : Take(n)
  \/ \E L \in SUBSET Queued :
       \/ Leave(L)
       \/ \E n \in Units, S \in SUBSET Queued : Release(n, L, S)
       \/ \E n \in Units, c \in Callers, M \in SUBSET Callers : Join(c, n, L, M)

FifoSpec == FifoInit /\ [][FifoNext]_fvars
=============================================================================
