------------------------------ MODULE Scheduler ------------------------------
(***************************************************************************)
(* The cooperative thread scheduler of sceKernelThread.c: the table of     *)
(* thread control blocks, run_scheduler, the waits that the scheduler      *)
(* itself resolves (delays, thread ends, module starts, sleeps), the       *)
(* dispatch suspension and, at any time it could come, the preemption by   *)
(* mips_dispatcher.c; when it does come is in Dispatcher.                  *)
(*                                                                         *)
(* One action is one HLE call of the thread that runs, executed to its     *)
(* end, including the context switch it ends in.  Calls that fail without  *)
(* changing state are stuttering steps and have no action.  The clock is   *)
(* read once per action; CLOCK_MONOTONIC advances between actions (Tick)   *)
(* and while run_scheduler sleeps for the earliest deadline.               *)
(***************************************************************************)
EXTENDS Integers, FiniteSets

CONSTANTS
  NumSlots,    \* MAX_THREADS: the slots of the thread table
  StackSlots,  \* slots with a stack window (32 in the source): others never start
  Delays,      \* the timeouts, in clock ticks, that a program asks for
  Needs,       \* what a waiter may ask an object for (counts, bit masks)
  NoNeed,      \* a value of the need field outside Needs
  MaxId,       \* bound: thread ids handed out
  MaxSeq,      \* bound: wait sequence numbers handed out
  MaxTime      \* bound: clock value

ASSUME SlotsAssumption == NumSlots \in Nat \ {0} /\ StackSlots \in Nat
ASSUME DelaysAssumption == Delays \subseteq Nat \ {0}
ASSUME BoundsAssumption == MaxId \in Nat /\ MaxSeq \in Nat /\ MaxTime \in Nat

VARIABLES
  threads,   \* threads[]: the thread control blocks
  current,   \* current_thread_id; -1 once no thread can run (exit_requested)
  nextId,    \* next_thread_id_to_assign
  nextSeq,   \* g_next_wait_sequence
  timed,     \* g_timed_wait_count
  dispatch,  \* g_dispatch_enabled
  now        \* CLOCK_MONOTONIC

vars == <<threads, current, nextId, nextSeq, timed, dispatch, now>>

Slots      == 0 .. NumSlots - 1
States     == {"FREE", "RUNNING", "READY", "WAITING", "DORMANT"}
EndWaits   == {"end", "modstart"}
TimedWaits == {"sema", "evf", "delay"}
Results    == {"ok", "any", "timeout", "deleted", "terminated"}

Waits      == {"none"} \cup EndWaits \cup TimedWaits
AnyNeed    == Needs \cup {NoNeed}

Tcb == [id : Nat, state : States, wait : Waits, obj : Int, need : AnyNeed,
        deadline : Nat, seq : Nat, v0 : Results]

(* A slot after memset(.., 0, ..). *)
ZeroTcb == [id |-> 0, state |-> "FREE", wait |-> "none", obj |-> -1,
            need |-> NoNeed, deadline |-> 0, seq |-> 0, v0 |-> "ok"]

-----------------------------------------------------------------------------
(* The part of the state that a call updates step by step: the table and   *)
(* the count of timed waits.                                               *)

Kernel == [tcbs |-> threads, timed |-> timed]

(* Slot s is overwritten. *)
WithTcb(k, s, tcb) ==
  [k EXCEPT !.tcbs = [r \in Slots |-> IF r = s THEN tcb ELSE @[r]]]

Cleared(tcb) == [tcb EXCEPT !.wait = "none", !.obj = -1, !.need = NoNeed,
                            !.deadline = 0, !.seq = 0]

(* Mutant of ClearWaits: every cleared wait counts as a timed one. *)
ClearWaitsUnguarded(k, S) ==
  [tcbs  |-> [s \in Slots |-> IF s \in S THEN Cleared(k.tcbs[s]) ELSE k.tcbs[s]],
   timed |-> k.timed - Cardinality(S)]

(* clear_thread_wait on every slot of S. *)
ClearWaits(k, S) ==
  LET deadlines == Cardinality({s \in S : k.tcbs[s].deadline # 0})
  IN  [tcbs  |-> [s \in Slots |-> IF s \in S THEN Cleared(k.tcbs[s]) ELSE k.tcbs[s]],
       timed |-> IF k.timed > deadlines THEN k.timed - deadlines ELSE 0]

(* The waiters S become READY, each with its result in register v0. *)
Awake(tcb, result) == [Cleared(tcb) EXCEPT !.state = "READY", !.v0 = result]

Wake(k, S, result) ==
  [ClearWaits(k, S) EXCEPT !.tcbs =
     [s \in Slots |-> IF s \in S THEN Awake(k.tcbs[s], result[s]) ELSE k.tcbs[s]]]

Waiting(t, s)     == t[s].state = "WAITING"
Expired(t, at)    == {s \in Slots : Waiting(t, s) /\ t[s].deadline # 0 /\ t[s].deadline <= at}
ExpiryResult(tcb) == IF tcb.wait \in {"sema", "evf"} THEN "timeout" ELSE "ok"

(* Mutant of WakeExpired: the last timed wait does not count. *)
WakeExpiredButLast(k, at) ==
  IF k.timed <= 1 THEN k
  ELSE Wake(k, Expired(k.tcbs, at), [s \in Slots |-> ExpiryResult(k.tcbs[s])])

(* hle_scheduler_wake_expired. *)
WakeExpired(k, at) ==
  IF k.timed = 0 THEN k
  ELSE Wake(k, Expired(k.tcbs, at), [s \in Slots |-> ExpiryResult(k.tcbs[s])])

(* Mutant of EndWaiters: who waits for a module's start is forgotten. *)
OnlyEndWaiters(t, target) ==
  {s \in Slots : Waiting(t, s) /\ t[s].wait = "end" /\ t[s].obj = target}

(* Mutant of EndWaiters: whose end it is does not matter. *)
AnyEndWaiters(t, target) ==
  {s \in Slots : Waiting(t, s) /\ t[s].wait \in EndWaits}

EndWaiters(t, target) ==
  {s \in Slots : Waiting(t, s) /\ t[s].wait \in EndWaits /\ t[s].obj = target}

(* wake_thread_end_waiters. *)
WakeEndWaiters(k, target) == Wake(k, EndWaiters(k.tcbs, target), [s \in Slots |-> "ok"])

(* memset of a slot. *)
Zeroed(k, s) == WithTcb(k, s, ZeroTcb)

-----------------------------------------------------------------------------
(* run_scheduler *)

ReadySlots(t) == {s \in Slots : t[s].state = "READY"}
FreeSlots(t)  == {s \in Slots : t[s].state = "FREE"}
First(S)      == CHOOSE s \in S : \A r \in S : s <= r

(* The TCB of the running thread. *)
Self == CHOOSE s \in Slots : threads[s].id = current /\ threads[s].state = "RUNNING"

(* The context of the running thread is saved with its new state. *)
Save(k, st, v) ==
  LET saved == WithTcb(k, Self, [k.tcbs[Self] EXCEPT !.state = st, !.v0 = v])
  IN  IF st = "FREE" THEN WakeEndWaiters(ClearWaits(saved, {Self}), current)
                     ELSE saved

(* Slots between the one after the running thread's and s, round robin. *)
Distance(t, s) ==
  LET start == First({r \in Slots : t[r].id = current}) + 1
  IN  (s + NumSlots - start) % NumSlots

(* Mutant of NearestReady: the search starts at the first slot. *)
LowestReady(t, s) == ReadySlots(t) # {} /\ s = First(ReadySlots(t))

NearestReady(t, s) ==
  s \in ReadySlots(t) /\ \A r \in ReadySlots(t) : Distance(t, s) <= Distance(t, r)

(* Mutant of SwitchTo: the state of the next thread stays READY. *)
SwitchToReady(k, s) ==
  /\ threads' = k.tcbs
  /\ current' = k.tcbs[s].id
  /\ timed' = k.timed

(* The next thread's context is loaded. *)
SwitchTo(k, s) ==
  /\ threads' = [k.tcbs EXCEPT ![s].state = "RUNNING"]
  /\ current' = k.tcbs[s].id
  /\ timed' = k.timed

Timed(t) == {s \in Slots : Waiting(t, s) /\ t[s].deadline # 0}

RunScheduler(k, st, v) ==
  LET woken == WakeExpired(Save(k, st, v), now)
  IN  \/ /\ \E s \in Slots : NearestReady(woken.tcbs, s) /\ SwitchTo(woken, s)
         /\ now' = now
      \/ /\ ReadySlots(woken.tcbs) = {}
         /\ \E at \in now .. MaxTime :
              \* asleep until the earliest deadline, or longer
              /\ Expired(woken.tcbs, at) # {}
              /\ now' = at
              /\ LET late == WakeExpired(woken, at)
                 IN  \E s \in Slots : NearestReady(late.tcbs, s) /\ SwitchTo(late, s)
      \/ /\ ReadySlots(woken.tcbs) = {}
         /\ Timed(woken.tcbs) = {}
         /\ threads' = woken.tcbs
         /\ timed' = woken.timed
         /\ current' = -1
         /\ now' = now

(* run_scheduler(THREAD_STATE_READY) does nothing while dispatch is off. *)
Yield(k, v, enabled) ==
  IF enabled THEN RunScheduler(k, "READY", v)
  ELSE /\ threads' = k.tcbs
       /\ timed' = k.timed
       /\ UNCHANGED <<current, now>>

(* The running thread registers a wait in its TCB and gives up the CPU. *)
Block(k, w, obj, need, deadline, seq) ==
  LET waiter == [k.tcbs[Self] EXCEPT !.wait = w, !.obj = obj, !.need = need,
                                     !.deadline = deadline, !.seq = seq]
      counted == [k EXCEPT !.timed = @ + (IF deadline # 0 THEN 1 ELSE 0)]
  IN  RunScheduler(WithTcb(counted, Self, waiter), "WAITING", "ok")

(* A wait that takes a sequence number; d = 0 is a wait without timeout. *)
BlockInOrder(k, w, obj, need, d) ==
  /\ nextSeq <= MaxSeq
  /\ now + d <= MaxTime
  /\ nextSeq' = nextSeq + 1
  /\ Block(k, w, obj, need, IF d = 0 THEN 0 ELSE now + d, nextSeq)

-----------------------------------------------------------------------------
(* The HLE calls *)

Alive == current # -1

(* sceKernelCreateThread ends a dispatch suspension before any check; the  *)
(* call then fails for a full table, a duplicate name or a creation loop.  *)
CreateThreadFails ==
  /\ Alive
  /\ dispatch' = TRUE
  /\ UNCHANGED <<threads, current, nextId, nextSeq, timed, now>>

NewTcb(st) == [ZeroTcb EXCEPT !.id = nextId, !.state = st]

(* Mutant of CreateThread: the id is not used up. *)
CreateThreadSameId ==
  /\ Alive
  /\ nextId <= MaxId
  /\ FreeSlots(threads) # {}
  /\ threads' = [threads EXCEPT ![First(FreeSlots(threads))] = NewTcb("DORMANT")]
  /\ dispatch' = TRUE
  /\ UNCHANGED <<current, nextId, nextSeq, timed, now>>

CreateThread ==
  /\ Alive
  /\ nextId <= MaxId
  /\ FreeSlots(threads) # {}
  /\ threads' = [threads EXCEPT ![First(FreeSlots(threads))] = NewTcb("DORMANT")]
  /\ nextId' = nextId + 1
  /\ dispatch' = TRUE
  /\ UNCHANGED <<current, nextSeq, timed, now>>

StartThread(s) ==
  /\ Alive
  /\ threads[s].state = "DORMANT"
  /\ s < StackSlots
  /\ dispatch' = TRUE
  /\ RunScheduler(WithTcb(Kernel, s, [threads[s] EXCEPT !.state = "READY"]), "READY", "ok")
  /\ UNCHANGED <<nextId, nextSeq>>

(* sceKernelStartModule and sceKernelStopModule with an entry point: an    *)
(* internal thread is created and started, and the caller waits for it.    *)
RunModuleThread(w) ==
  LET s == First(FreeSlots(threads))
  IN  /\ Alive
      /\ nextId <= MaxId
      /\ FreeSlots(threads) # {}
      /\ s < StackSlots
      /\ nextId' = nextId + 1
      /\ dispatch' = TRUE
      /\ Block(WithTcb(Kernel, s, NewTcb("READY")), w, nextId, NoNeed, 0, 0)
      /\ UNCHANGED nextSeq

(* The slot has no stack window: the id is spent and left in a FREE slot. *)
RunModuleThreadFails ==
  LET s == First(FreeSlots(threads))
  IN  /\ Alive
      /\ nextId <= MaxId
      /\ FreeSlots(threads) # {}
      /\ s >= StackSlots
      /\ nextId' = nextId + 1
      /\ threads' = [threads EXCEPT ![s] = NewTcb("FREE")]
      /\ UNCHANGED <<current, nextSeq, timed, dispatch, now>>

(* sceKernelExitThread and the return address trap 0x08000100. *)
ExitThread ==
  /\ Alive
  /\ RunScheduler(Kernel, "FREE", "any")
  /\ UNCHANGED <<nextId, nextSeq, dispatch>>

IsFirstWithId(s) == \A r \in Slots : threads[r].id = threads[s].id => s <= r

(* Mutant of DeleteThread: the slot is erased with its wait still counted. *)
DeleteThreadUncounted(s) ==
  LET k == Zeroed(WakeEndWaiters(Kernel, threads[s].id), s)
  IN  /\ Alive
      /\ threads[s].id # current
      /\ IsFirstWithId(s)
      /\ threads' = k.tcbs
      /\ timed' = k.timed
      /\ UNCHANGED <<current, nextId, nextSeq, dispatch, now>>

(* sceKernelDeleteThread takes a thread in any state but the caller. *)
DeleteThread(s) ==
  LET k == Zeroed(ClearWaits(WakeEndWaiters(Kernel, threads[s].id), {s}), s)
  IN  /\ Alive
      /\ threads[s].id # current
      /\ IsFirstWithId(s)
      /\ threads' = k.tcbs
      /\ timed' = k.timed
      /\ UNCHANGED <<current, nextId, nextSeq, dispatch, now>>

(* sceKernelTerminateThread, and sceKernelTerminateDeleteThread (erase). *)
TerminateThread(s, erase) ==
  LET over == [Cleared(threads[s]) EXCEPT !.state = "DORMANT", !.v0 = "terminated"]
      dormant == WithTcb(ClearWaits(Kernel, {s}), s, over)
      k == WakeEndWaiters(dormant, threads[s].id)
      gone == IF erase THEN Zeroed(ClearWaits(k, {s}), s) ELSE k
  IN  /\ Alive
      /\ threads[s].id \notin {0, current}
      /\ dispatch
      /\ threads[s].state \in {"READY", "WAITING", "RUNNING"}
      /\ threads' = gone.tcbs
      /\ timed' = gone.timed
      /\ UNCHANGED <<current, nextId, nextSeq, dispatch, now>>

(* sceKernelDelayThread with a nonzero delay. *)
DelayThread(d) ==
  /\ Alive
  /\ dispatch
  /\ BlockInOrder(Kernel, "delay", -1, NoNeed, d)
  /\ UNCHANGED <<nextId, dispatch>>

(* sceKernelDelayThread(0), and sceKernelCheckCallback with none pending. *)
YieldThread ==
  /\ Alive
  /\ Yield(Kernel, "ok", dispatch)
  /\ UNCHANGED <<nextId, nextSeq, dispatch>>

(* __sceSasCore delays its caller whether or not dispatch is suspended. *)
SasCoreDelay(d) ==
  /\ Alive
  /\ BlockInOrder(Kernel, "delay", -1, NoNeed, d)
  /\ UNCHANGED <<nextId, dispatch>>

(* sceKernelSleepThread(CB): WAITING with nothing to wait for. *)
SleepThread ==
  /\ Alive
  /\ dispatch
  /\ RunScheduler(Kernel, "WAITING", "ok")
  /\ UNCHANGED <<nextId, nextSeq, dispatch>>

(* sceKernelWaitThreadEnd(CB) on a thread that is neither over nor DORMANT. *)
WaitThreadEnd(s) ==
  /\ Alive
  /\ dispatch
  /\ threads[s].id # 0
  /\ threads[s].state \notin {"FREE", "DORMANT"}
  /\ Block(Kernel, "end", threads[s].id, NoNeed, 0, 0)
  /\ UNCHANGED <<nextId, nextSeq, dispatch>>

SuspendDispatch ==
  /\ Alive
  /\ dispatch' = FALSE
  /\ UNCHANGED <<threads, current, nextId, nextSeq, timed, now>>

ResumeDispatch(enabled) ==
  /\ Alive
  /\ dispatch' = enabled
  /\ UNCHANGED <<threads, current, nextId, nextSeq, timed, now>>

(* The dispatcher preempts a thread while another one could run. *)
Preempt ==
  /\ Alive
  /\ dispatch
  /\ \E s \in ReadySlots(threads) : threads[s].id # current
  /\ RunScheduler(Kernel, "READY", "any")
  /\ UNCHANGED <<nextId, nextSeq, dispatch>>

(* The monotonic clock advances. *)
Tick ==
  /\ Alive
  /\ now < MaxTime
  /\ now' = now + 1
  /\ UNCHANGED <<threads, current, nextId, nextSeq, timed, dispatch>>

-----------------------------------------------------------------------------
Init ==
  /\ threads = [s \in Slots |-> IF s = 0 THEN [ZeroTcb EXCEPT !.state = "RUNNING"]
                                         ELSE ZeroTcb]
  /\ current = 0
  /\ nextId = 1
  /\ nextSeq = 1
  /\ timed = 0
  /\ dispatch = TRUE
  /\ now = 0

SlotCalls ==
  \E s \in Slots :
     \/ StartThread(s)
     \/ DeleteThread(s)
     \/ \E erase \in BOOLEAN : TerminateThread(s, erase)
     \/ WaitThreadEnd(s)

(* What sceKernelStartModule and sceKernelStopModule do to the threads. *)
ModuleThreads ==
  \/ \E w \in EndWaits : RunModuleThread(w)
  \/ RunModuleThreadFails

ThreadCalls ==
  \/ CreateThreadFails
  \/ CreateThread
  \/ ExitThread
  \/ SlotCalls
  \/ \E d \in Delays : DelayThread(d)
  \/ YieldThread
  \/ SleepThread
  \/ SuspendDispatch
  \/ \E enabled \in BOOLEAN : ResumeDispatch(enabled)

Next ==
  \/ ThreadCalls
  \/ ModuleThreads
  \/ \E d \in Delays : SasCoreDelay(d)
  \/ Preempt
  \/ Tick

Spec == Init /\ [][Next]_vars

-----------------------------------------------------------------------------
(* Properties *)

(* Every variable has its type. *)
TypeOK ==
  /\ threads \in [Slots -> Tcb]
  /\ current \in Nat \cup {-1}
  /\ nextId \in Nat
  /\ nextSeq \in Nat
  /\ timed \in Nat
  /\ dispatch \in BOOLEAN
  /\ now \in Nat

(* While the machine runs, exactly one TCB is RUNNING and it is the one    *)
(* current_thread_id names; once no thread can run, none is.               *)
OneRunningThread ==
  \/ /\ current = -1
     /\ \A s \in Slots : threads[s].state # "RUNNING"
  \/ \E s \in Slots :
       /\ threads[s].state = "RUNNING"
       /\ threads[s].id = current
       /\ \A r \in Slots \ {s} : threads[r].state # "RUNNING"

(* No two threads share an id, and an id still to be assigned is on no TCB:*)
(* a syscall that names a thread reaches that thread or none.              *)
ThreadIdsUnique ==
  /\ \A s \in Slots : threads[s].id < nextId
  /\ \A r, s \in Slots : threads[r].id = threads[s].id /\ threads[r].id # 0 => r = s
  /\ \A s \in Slots : threads[s].id = 0 /\ threads[s].state # "FREE" => s = 0

(* Only WAITING threads carry wait data, so no wake-up finds a stale wait. *)
OnlyWaitersWait ==
  \A s \in Slots : threads[s].state # "WAITING" =>
    threads[s] = Cleared(threads[s])

(* g_timed_wait_count, which gates every timeout, counts the timed waits:  *)
(* were it ever too low, the last sleepers would never be woken.           *)
TimedWaitsCounted ==
  timed = Cardinality({s \in Slots : threads[s].deadline # 0})

(* Whoever waits for a thread's end waits for a thread that has not ended: *)
(* exit, termination and deletion leave no waiter behind.                  *)
EndWaitersHaveTarget ==
  \A s \in Slots : Waiting(threads, s) /\ threads[s].wait \in EndWaits =>
    \E r \in Slots : /\ threads[r].id = threads[s].obj
                     /\ threads[r].state \in {"RUNNING", "READY", "WAITING"}

=============================================================================
