------------------------------ MODULE Semaphores ------------------------------
(***************************************************************************)
(* The counting semaphores of mips_hle.c on top of the scheduler: calls    *)
(* that read and write a semaphore, and the queue of waiters that lives in *)
(* the thread table, ordered by wait_sequence.                             *)
(***************************************************************************)
EXTENDS Scheduler, FiniteSetsExt

CONSTANTS
  NumSemas,  \* MAX_SEMAPHORES: the slots of the semaphore table
  MaxCount,  \* the largest max_count that a program asks for
  Observed   \* the semaphore, any of them, that ImplementsFifo looks at

ASSUME SemasAssumption == NumSemas \in Nat /\ MaxCount \in Nat
ASSUME ObservedAssumption == Observed \in 1 .. NumSemas
ASSUME NeedsAssumption == Needs \subseteq Nat \ {0}

VARIABLE semas   \* kernel->semaphores[]; the id of slot i is i + 1

svars == <<threads, current, nextId, nextSeq, timed, dispatch, now, semas>>

SemaIds  == 1 .. NumSemas
Sema     == [active : BOOLEAN, count : Int, max : Int]
NoSema   == [active |-> FALSE, count |-> 0, max |-> 0]

SemaWaiters(t, id) ==
  {s \in Slots : Waiting(t, s) /\ t[s].wait = "sema" /\ t[s].obj = id}

(* What the waiters in S ask for. *)
TotalNeed(t, S) == MapThenSumSet(LAMBDA s : t[s].need, S)

(* What the waiters of id up to and including slot s ask for. *)
NeedUpTo(t, id, s) ==
  TotalNeed(t, {r \in SemaWaiters(t, id) : t[r].seq <= t[s].seq})

(* Mutant of Granted: a signal serves the oldest waiter only. *)
GrantedOne(t, id, count) ==
  {s \in SemaWaiters(t, id) :
     /\ t[s].need <= count
     /\ \A r \in SemaWaiters(t, id) : t[s].seq <= t[r].seq}

(* hle_thread_wake_semaphore serves waiters oldest first and stops at the  *)
(* first that asks for more than is left.                                  *)
Granted(t, id, count) ==
  {s \in SemaWaiters(t, id) : NeedUpTo(t, id, s) <= count}

-----------------------------------------------------------------------------
CreateSema(init, max) ==
  LET unused == {i \in SemaIds : ~semas[i].active}
  IN  /\ Alive
      /\ init <= max /\ max > 0
      /\ unused # {}
      /\ semas' = [semas EXCEPT ![First(unused)] =
                     [active |-> TRUE, count |-> init, max |-> max]]
      /\ UNCHANGED vars

(* Mutant of DeleteSema: the waiters stay. *)
DeleteSemaLeaves(id) ==
  LET k == WakeExpired(Kernel, now)
  IN  /\ Alive
      /\ semas[id].active
      /\ semas' = [semas EXCEPT ![id] = NoSema]
      /\ threads' = k.tcbs
      /\ timed' = k.timed
      /\ UNCHANGED <<current, nextId, nextSeq, dispatch, now>>

DeleteSema(id) ==
  LET k == WakeExpired(Kernel, now)
      j == Wake(k, SemaWaiters(k.tcbs, id), [s \in Slots |-> "deleted"])
  IN  /\ Alive
      /\ semas[id].active
      /\ semas' = [semas EXCEPT ![id] = NoSema]
      /\ threads' = j.tcbs
      /\ timed' = j.timed
      /\ UNCHANGED <<current, nextId, nextSeq, dispatch, now>>

(* sceKernelWaitSema takes its units only if nobody waits. *)
WaitSemaTakes(id, n) ==
  LET k == WakeExpired(Kernel, now)
  IN  /\ Alive /\ dispatch
      /\ semas[id].active
      /\ n <= semas[id].max
      /\ semas[id].count >= n
      /\ SemaWaiters(k.tcbs, id) = {}
      /\ semas' = [semas EXCEPT ![id].count = @ - n]
      /\ threads' = k.tcbs
      /\ timed' = k.timed
      /\ UNCHANGED <<current, nextId, nextSeq, dispatch, now>>

(* Otherwise it blocks, with a timeout of d ticks or, for d = 0, without.  *)
WaitSemaBlocks(id, n, d) ==
  LET k == WakeExpired(Kernel, now)
  IN  /\ Alive /\ dispatch
      /\ semas[id].active
      /\ n <= semas[id].max
      /\ semas[id].count < n \/ SemaWaiters(k.tcbs, id) # {}
      /\ BlockInOrder(k, "sema", id, n, d)
      /\ UNCHANGED <<nextId, dispatch, semas>>

(* A wait that fails after it looked at the clock (count above max_count,  *)
(* timeout value zero), and sceKernelReferSemaStatus.                      *)
LookAtClock(id) ==
  LET k == WakeExpired(Kernel, now)
  IN  /\ Alive
      /\ semas[id].active
      /\ threads' = k.tcbs
      /\ timed' = k.timed
      /\ UNCHANGED <<current, nextId, nextSeq, dispatch, now, semas>>

(* Mutant of PollSema: the waiters are overtaken. *)
PollSemaOvertakes(id, n) ==
  /\ Alive
  /\ semas[id].active
  /\ semas[id].count >= n
  /\ semas' = [semas EXCEPT ![id].count = @ - n]
  /\ UNCHANGED vars

(* sceKernelPollSema does not look at the clock. *)
PollSema(id, n) ==
  /\ Alive
  /\ semas[id].active
  /\ semas[id].count >= n
  /\ SemaWaiters(threads, id) = {}
  /\ semas' = [semas EXCEPT ![id].count = @ - n]
  /\ UNCHANGED vars

(* Mutant of SignalSema: no limit is checked. *)
SignalSemaUnlimited(id, n) ==
  LET k == WakeExpired(Kernel, now)
      count == semas[id].count + n
      served == Granted(k.tcbs, id, count)
      j == Wake(k, served, [s \in Slots |-> "ok"])
  IN  /\ Alive
      /\ semas[id].active
      /\ semas' = [semas EXCEPT ![id].count =
                     count - TotalNeed(k.tcbs, served)]
      /\ threads' = j.tcbs
      /\ timed' = j.timed
      /\ UNCHANGED <<current, nextId, nextSeq, dispatch, now>>

(* sceKernelSignalSema allows one unit above max_count for each waiter,    *)
(* counted before the expired ones are dropped.                            *)
SignalSema(id, n) ==
  LET k == WakeExpired(Kernel, now)
      count == semas[id].count + n
      served == Granted(k.tcbs, id, count)
      j == Wake(k, served, [s \in Slots |-> "ok"])
  IN  /\ Alive
      /\ semas[id].active
      /\ count - Cardinality(SemaWaiters(threads, id)) <= semas[id].max
      /\ semas' = [semas EXCEPT ![id].count =
                     count - TotalNeed(k.tcbs, served)]
      /\ threads' = j.tcbs
      /\ timed' = j.timed
      /\ UNCHANGED <<current, nextId, nextSeq, dispatch, now>>

-----------------------------------------------------------------------------
SInit == Init /\ semas = [i \in SemaIds |-> NoSema]

SemaCalls ==
  \/ \E init \in 0 .. MaxCount, max \in 1 .. MaxCount : CreateSema(init, max)
  \/ \E id \in SemaIds :
       \/ DeleteSema(id)
       \/ LookAtClock(id)
       \/ \E n \in Needs :
            \/ WaitSemaTakes(id, n)
            \/ \E d \in Delays \cup {0} : WaitSemaBlocks(id, n, d)
            \/ PollSema(id, n)
            \/ SignalSema(id, n)

SNext == SemaCalls \/ (Next /\ UNCHANGED semas)

SSpec == SInit /\ [][SNext]_svars

-----------------------------------------------------------------------------
(* Properties *)

(* The type of the table; a semaphore waiter waits on a semaphore that     *)
(* exists and that could serve it: deletion leaves no waiter to be found by*)
(* the next owner of the id.                                               *)
STypeOK ==
  /\ TypeOK
  /\ semas \in [SemaIds -> Sema]
  /\ \A s \in Slots : Waiting(threads, s) /\ threads[s].wait = "sema" =>
       /\ threads[s].obj \in SemaIds
       /\ semas[threads[s].obj].active
       /\ threads[s].need <= semas[threads[s].obj].max

SemaWaiterExpires(id) ==
  \E s \in SemaWaiters(threads, id) : s \in Expired(threads, now)

(* With timeouts the count passes max_count only in a signal that counted  *)
(* a waiter whose time was already up.                                     *)
CountExceedsOnlyByExpiry ==
  [][\A id \in SemaIds :
       semas[id].count <= semas[id].max /\ semas'[id].count > semas'[id].max
         => SemaWaiterExpires(id)]_svars

Oldest(t, id, s) ==
  s \in SemaWaiters(t, id) /\ \A r \in SemaWaiters(t, id) : t[s].seq <= t[r].seq

Grantable(id) ==
  \E s \in Slots : Oldest(threads, id, s) /\ threads[s].need <= semas[id].count

(* A waiter that could be served is left waiting only when the one before  *)
(* it gave up (timeout, termination, deletion): no code looks at the queue *)
(* again until the next signal.                                            *)
LeftBehindOnlyByDesertion ==
  [][\A id \in SemaIds : ~Grantable(id) /\ Grantable(id)' =>
       \E s \in SemaWaiters(threads, id) :
         /\ s \notin SemaWaiters(threads, id)'
         /\ threads'[s].v0 # "ok" \/ threads'[s].state = "FREE"]_svars

(* The queue of semaphore id in table t: its waiters by wait sequence. *)
Queue(t, id) ==
  LET W == SemaWaiters(t, id)
  IN  [s \in W |-> [need |-> t[s].need, before |-> {r \in W : t[r].seq < t[s].seq}]]

Fifo == INSTANCE FifoSemaphore WITH
          Callers <- Slots, Units <- Needs, MaxCount <- MaxCount,
          active <- semas[Observed].active, count <- semas[Observed].count,
          capacity <- semas[Observed].max, queue <- Queue(threads, Observed)

(* Every call of any thread is, for any one semaphore, a step of a FIFO    *)
(* semaphore or none: no unit is made or lost and nobody overtakes.        *)
ImplementsFifo == Fifo!FifoSpec
=============================================================================
