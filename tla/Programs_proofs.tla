--------------------------- MODULE Programs_proofs ---------------------------
(***************************************************************************)
(* Proofs about programs, from the modules that are loaded to their        *)
(* instructions.                                                           *)
(*                                                                         *)
(* SyscallReturn and Modules, for any number of threads and modules: on    *)
(* top of the invariant of the scheduler (Inv) and of what its calls mean  *)
(* to the threads that do not make them (Passes).                          *)
(*                                                                         *)
(* Hybrid, for every disciplined program: the mix of translated blocks and *)
(* interpreted instructions implements Allegrex.  Seen is the state of the *)
(* processor that the hybrid state stands for and After what the           *)
(* instruction at its pc makes of it; each step of a block or of the       *)
(* dispatcher either does that or leaves Seen alone.                       *)
(***************************************************************************)
EXTENDS Modules, Hybrid, Scheduler_proofs

-----------------------------------------------------------------------------
(* Where threads continue *)

(* Waiters have left the stub.  Only the caller begins to wait, and its pc *)
(* was set to its own code before it gave up the CPU.                      *)
ReturnInv ==
  /\ Inv
  /\ pc \in [Slots -> Int]
  /\ WaitersAreBack

LEMMA ReturnedBack ==
  ASSUME ReturnInv, Alive, [Next]_vars, NEW s \in Slots
  PROVE  /\ Returned[s] \in Int
         /\ Waiting(threads', s) => Returned[s] # Stub
         /\ ~Enters(s) /\ s # Self => Returned[s] = pc[s]
<1>1. /\ Self \in Slots /\ threads[Self].state = "RUNNING"
      /\ current \in Nat
  BY InvSound, SelfRunning DEF ReturnInv, Inv, TypeOK, Alive
<1>2. threads'[s].id \in Nat
  BY NextInv DEF ReturnInv, Inv, TypeOK, Tcb
<1> HIDE DEF Self
<1>3. Returned[s] = IF Enters(s) THEN threads'[s].id
                    ELSE IF s = Self THEN current ELSE pc[s]
  BY DEF Returned, CodeOf
<1>4. Waiting(threads', s) => threads'[s] = threads[s] \/ BeginsToWait(s)
  BY NextPasses DEF ReturnInv, Passes
<1>5. Waiting(threads', s) /\ threads'[s] = threads[s] => s # Self /\ pc[s] # Stub
  BY <1>1 DEF ReturnInv, WaitersAreBack, Waiting
<1> QED
  BY <1>1, <1>2, <1>3, <1>4, <1>5 DEF BeginsToWait, ReturnInv, Stub

LEMMA ReturnInit == RInit => ReturnInv
<1> SUFFICES ASSUME RInit PROVE ReturnInv
  OBVIOUS
<1>1. Inv
  BY InitInv DEF RInit
<1>2. pc = [s \in Slots |-> 0]
  BY DEF RInit, CodeOf
<1> QED
  BY <1>1, <1>2 DEF ReturnInv, WaitersAreBack, Stub

LEMMA CallKeepsReturnInv ==
  ASSUME ReturnInv, Alive, [Next]_vars, pc' = Returned
  PROVE  ReturnInv'
<1>1. Inv'
  BY NextInv DEF ReturnInv
<1>2. pc' \in [Slots -> Int]
  BY ReturnedBack DEF Returned
<1>3. WaitersAreBack'
  BY ReturnedBack DEF WaitersAreBack
<1> QED
  BY <1>1, <1>2, <1>3 DEF ReturnInv

LEMMA RoutedKeepsReturnInv ==
  ASSUME ReturnInv, NEW d \in Delays, RoutedCallReturns(d)
  PROVE  ReturnInv'
<1>1. Alive /\ [Next]_vars /\ pc' = AfterHleSyscall(Returned)
  BY DEF RoutedCallReturns, Next
<1>2. Inv'
  BY <1>1, NextInv DEF ReturnInv
<1>3. ASSUME NEW s \in Slots
      PROVE  pc'[s] \in Int /\ (Waiting(threads', s) => pc'[s] # Stub)
  <2>1. pc'[s] = IF threads'[s].state = "RUNNING" /\ Returned[s] = pc[Self]
                 THEN current ELSE Returned[s]
    BY <1>1 DEF AfterHleSyscall, CodeOf
  <2>2. current \in Int
    BY DEF ReturnInv, Inv, TypeOK
  <2> QED
    BY <1>1, <2>1, <2>2, ReturnedBack DEF Waiting
<1>4. pc' \in [Slots -> Int]
  BY <1>1, <1>3 DEF AfterHleSyscall
<1> QED
  BY <1>2, <1>3, <1>4 DEF ReturnInv, WaitersAreBack

LEMMA ElsewhereKeepsReturnInv ==
  ASSUME ReturnInv, Elsewhere
  PROVE  ReturnInv'
<1>1. [Next]_vars /\ pc' = pc /\ Alive
  BY DEF Elsewhere, Next, Preempt, Tick
<1>2. Inv'
  BY <1>1, NextInv DEF ReturnInv
<1>3. ASSUME NEW s \in Slots, Waiting(threads', s) PROVE threads'[s] = threads[s]
  <2>1. CASE Tick
    BY <2>1 DEF Tick
  <2>2. CASE Preempt
    <3>1. /\ Kernel \in KernelType /\ Kernel.tcbs = threads
          /\ Switchable(Kernel.tcbs, "READY", nextId) /\ now \in Nat
      BY <1>1, InvSound, KernelOK, SwitchableNow DEF ReturnInv, TypeOK
    <3>2. RunScheduler(Kernel, "READY", "any") /\ "any" \in Results
      BY <2>2 DEF Preempt, Results
    <3>3. Leaves(Kernel, "READY", "any", s)
      BY <3>1, <3>2, RunSchedulerLeaves
    <3> QED
      BY <1>3, <3>1, <3>3 DEF Leaves
  <2> QED
    BY <2>1, <2>2 DEF Elsewhere
<1> QED
  BY <1>1, <1>2, <1>3 DEF ReturnInv, WaitersAreBack, Waiting

LEMMA JumpKeepsReturnInv ==
  ASSUME ReturnInv, JumpToStub
  PROVE  ReturnInv'
<1>1. /\ Self \in Slots /\ threads[Self].state = "RUNNING"
  BY InvSound, SelfRunning DEF ReturnInv, JumpToStub
<1> HIDE DEF Self
<1>2. pc' = [pc EXCEPT ![Self] = Stub] /\ UNCHANGED vars
  BY DEF JumpToStub
<1>3. Inv'
  BY <1>2, NextInv DEF ReturnInv
<1>4. threads' = threads
  BY <1>2 DEF vars
<1>5. pc' \in [Slots -> Int]
  <2>1. Stub \in Int
    BY DEF Stub
  <2> QED
    BY <1>1, <1>2, <2>1 DEF ReturnInv
<1> QED
  BY <1>1, <1>2, <1>3, <1>4, <1>5 DEF ReturnInv, WaitersAreBack, Waiting

LEMMA ReturnNext == ReturnInv /\ [RNext]_rvars => ReturnInv'
<1> SUFFICES ASSUME ReturnInv, [RNext]_rvars PROVE ReturnInv'
  OBVIOUS
<1>1. CASE UNCHANGED rvars
  <2>1. UNCHANGED vars /\ pc' = pc /\ threads' = threads
    BY <1>1 DEF rvars, vars
  <2>2. Inv'
    BY <2>1, NextInv DEF ReturnInv
  <2> QED
    BY <2>1, <2>2 DEF ReturnInv, WaitersAreBack, Waiting
<1>2. CASE CallReturns
  BY <1>2, CallKeepsReturnInv DEF CallReturns, Next
<1> QED
  BY <1>1, <1>2, RoutedKeepsReturnInv, ElsewhereKeepsReturnInv, JumpKeepsReturnInv
  DEF RNext

(* Whichever calls block, and whoever runs next: a thread that waits is    *)
(* past its system call, and will not make it again when it is woken.      *)
THEOREM WaitersLeftTheStub == RSpec => []WaitersAreBack
<1>1. ReturnInv => WaitersAreBack
  BY DEF ReturnInv
<1> QED
  BY <1>1, ReturnInit, ReturnNext, PTL DEF RSpec

LEMMA RoutedMovesAtStub ==
  ASSUME ReturnInv, NEW d \in Delays, RoutedCallReturns(d), NEW s \in Slots,
         pc'[s] # pc[s], ~Enters(s), s # Self
  PROVE  pc[s] = Stub /\ threads[s].state = "READY"
<1>1. /\ Alive /\ [Next]_vars /\ pc' = AfterHleSyscall(Returned) /\ pc[Self] = Stub
      /\ BlockInOrder(Kernel, "delay", -1, NoNeed, d)
  BY DEF RoutedCallReturns, Next, SasCoreDelay
<1>2. Returned[s] = pc[s]
  BY <1>1, ReturnedBack
<1>3. threads'[s].state = "RUNNING" /\ pc[s] = Stub
  BY <1>1, <1>2 DEF AfterHleSyscall
<1>4. TypeOK /\ Sound(threads, current, nextId)
  BY InvSound DEF ReturnInv
<1>5. /\ Kernel \in KernelType /\ Kernel.tcbs = threads
      /\ Switchable(Kernel.tcbs, "READY", nextId) /\ now \in Nat
  BY <1>1, <1>4, KernelOK, SwitchableNow DEF TypeOK
<1>6. PICK deadline \in Nat, seq \in Nat : Block(Kernel, "delay", -1, NoNeed, deadline, seq)
  <2>1. d \in Nat /\ now \in Nat /\ nextSeq \in Nat
    BY <1>4, DelaysAssumption DEF TypeOK
  <2>2. /\ Block(Kernel, "delay", -1, NoNeed, IF d = 0 THEN 0 ELSE now + d, nextSeq)
        /\ (IF d = 0 THEN 0 ELSE now + d) \in Nat
    BY <1>1, <2>1 DEF BlockInOrder
  <2> QED
    BY <2>1, <2>2
<1>7. "delay" \in Waits /\ "delay" \notin EndWaits /\ NoNeed \in AnyNeed /\ -1 \in Int
  BY FieldValues DEF TimedWaits, EndWaits
<1>8. BlockedAs(Kernel, "delay", -1, NoNeed, deadline, seq, s)
  BY <1>5, <1>6, <1>7, BlockLeaves
<1>9. threads[s].state \in {"READY", "WAITING"}
  BY <1>3, <1>5, <1>8 DEF BlockedAs
<1> QED
  BY <1>3, <1>9 DEF ReturnInv, WaitersAreBack, Waiting

(* A system call moves the pc of another thread only if that thread was    *)
(* preempted at the stub, where mips_hle_syscall takes its pc for the      *)
(* caller's; threads that wait continue where they should.                 *)
THEOREM OthersStayUnlessAtStub == RSpec => OthersMovedOnlyAtStub
<1> DEFINE Moves ==
      \A s \in Slots : /\ pc'[s] # pc[s]
                       /\ ~Enters(s)
                       /\ s # Self
                       => pc[s] = Stub /\ threads[s].state = "READY"
<1>1. ASSUME ReturnInv, [RNext]_rvars PROVE [Moves]_rvars
  <2>1. CASE UNCHANGED rvars
    BY <2>1
  <2>2. CASE CallReturns
    <3>1. Alive /\ [Next]_vars /\ pc' = Returned
      BY <2>2 DEF CallReturns, Next
    <3> QED
      BY <1>1, <3>1, ReturnedBack
  <2>3. CASE JumpToStub
    <3>1. pc' = [pc EXCEPT ![Self] = Stub]
      BY <2>3 DEF JumpToStub
    <3> HIDE DEF Self
    <3> QED
      BY <1>1, <3>1 DEF ReturnInv
  <2>4. CASE Elsewhere
    BY <2>4 DEF Elsewhere
  <2>5. ASSUME NEW d \in Delays, RoutedCallReturns(d) PROVE Moves
    BY <1>1, <2>5, RoutedMovesAtStub
  <2> QED
    BY <1>1, <2>1, <2>2, <2>3, <2>4, <2>5 DEF RNext
<1> QED
  BY <1>1, ReturnInit, ReturnNext, PTL DEF RSpec, OthersMovedOnlyAtStub

-----------------------------------------------------------------------------
(* Modules *)

(* Threads that end are woken by the end of a thread, never by the clock. *)
EndWaitsUntimed ==
  \A s \in Slots : EndWaiter(threads, s) => threads[s].deadline = 0

(* The caller of part p waits for its thread. *)
Awaited(t, p) ==
  \E s \in Slots : t[s].id = p.caller /\ EndWaiter(t, s) /\ t[s].obj = p.thread

ModuleInv ==
  /\ Inv
  /\ EndWaitsUntimed
  /\ running \subseteq Part
  /\ \A p \in running : Awaited(threads, p)

LEMMA UntimedNext ==
  ASSUME Inv, EndWaitsUntimed, [Next]_vars
  PROVE  EndWaitsUntimed'
<1> SUFFICES ASSUME NEW s \in Slots, EndWaiter(threads', s)
             PROVE  threads'[s].deadline = 0
  BY DEF EndWaitsUntimed
<1>1. threads'[s] = threads[s] \/ BeginsToWait(s)
  BY NextPasses DEF Passes, EndWaiter
<1> QED
  BY <1>1 DEF EndWaitsUntimed, EndWaiter, Waiting, BeginsToWait

(* A slot with a live thread holds the thread it held, or a new one. *)
KeepsId(s) ==
  threads'[s].state \in LiveStates => threads'[s].id \in {threads[s].id, nextId}

LEMMA NewThreadKeepsId ==
  ASSUME Inv, NEW st \in {"FREE", "DORMANT"}, FreeSlots(threads) # {},
         threads' = [threads EXCEPT ![First(FreeSlots(threads))] = NewTcb(st)],
         NEW s \in Slots
  PROVE  KeepsId(s)
<1> DEFINE x == First(FreeSlots(threads))
<1>1. x \in Slots
  BY FirstIn DEF FreeSlots
<1> HIDE DEF x
<1>2. threads' = [threads EXCEPT ![x] = NewTcb(st)]
  BY DEF x
<1>3. NewTcb(st).state = st
  BY NewTcbType DEF Inv, TypeOK, States
<1> QED
  BY <1>1, <1>2, <1>3 DEF KeepsId, LiveStates, Inv, TypeOK

LEMMA ModuleThreadKeepsId ==
  ASSUME Inv, NEW w \in EndWaits, RunModuleThread(w), NEW s \in Slots
  PROVE  KeepsId(s)
<1> DEFINE k == WithModuleThread
<1>1. TypeOK /\ TimedWaitsCounted /\ Sound(threads, current, nextId)
  BY InvSound
<1>2. PICK x \in Slots \ {Self} :
        /\ k.tcbs[x].id = nextId /\ k.tcbs[x].state = "READY"
        /\ \A r \in Slots \ {x} : k.tcbs[r] = threads[r]
  BY <1>1, ModuleThreadSwitchable
<1>3. k \in KernelType /\ Switchable(k.tcbs, "READY", nextId + 1)
  BY <1>1, ModuleThreadSwitchable
<1>4. Block(k, w, nextId, NoNeed, 0, 0)
  BY DEF RunModuleThread, WithModuleThread
<1> HIDE DEF k
<1>5. w \in Waits /\ NoNeed \in AnyNeed /\ now \in Nat /\ nextId \in Int /\ 0 \in Nat
  BY <1>1, FieldValues DEF TypeOK
<1>6. w \in EndWaits => \E r \in Slots : k.tcbs[r].id = nextId /\ k.tcbs[r].state \in LiveStates
  BY <1>2 DEF LiveStates
<1>7. BlockedAs(k, w, nextId, NoNeed, 0, 0, s)
  BY <1>3, <1>4, <1>5, <1>6, BlockLeaves
<1> QED
  BY <1>2, <1>7 DEF BlockedAs, KeepsId

(* The caller of a part of a module waits for it. *)
LEMMA ModuleThreadAwaited ==
  ASSUME Inv, NEW w \in EndWaits, RunModuleThread(w)
  PROVE  /\ nextId \in Nat /\ current \in Nat
         /\ Awaited(threads', [thread |-> nextId, caller |-> current])
<1> DEFINE k == WithModuleThread
           kb == Enlisted(k, w, nextId, NoNeed, 0, 0)
           p == Parked(kb, "WAITING", "ok")
<1>1. TypeOK /\ TimedWaitsCounted /\ Sound(threads, current, nextId) /\ Alive
  BY InvSound DEF RunModuleThread
<1>2. PICK x \in Slots \ {Self} :
        /\ k.tcbs[x].id = nextId /\ k.tcbs[x].state = "READY"
        /\ \A r \in Slots \ {x} : k.tcbs[r] = threads[r]
  BY <1>1, ModuleThreadSwitchable
<1>3. k \in KernelType /\ Switchable(k.tcbs, "READY", nextId + 1)
  BY <1>1, ModuleThreadSwitchable
<1>4. Block(k, w, nextId, NoNeed, 0, 0)
  BY DEF RunModuleThread, WithModuleThread
<1> HIDE DEF k
<1>5. w \in Waits /\ NoNeed \in AnyNeed /\ now \in Nat /\ nextId \in Nat /\ 0 \in Nat
  BY <1>1, FieldValues DEF TypeOK
<1>6. w \in EndWaits => \E r \in Slots : k.tcbs[r].id = nextId /\ k.tcbs[r].state \in LiveStates
  BY <1>2 DEF LiveStates
<1>7. /\ kb \in KernelType /\ Switchable(kb.tcbs, "WAITING", nextId + 1) /\ Self \in Slots
      /\ kb.tcbs[Self] = Waiter(k, w, nextId, NoNeed, 0, 0)
  BY <1>3, <1>5, <1>6, BlockSwitchable
<1>8. RunScheduler(kb, "WAITING", "ok") /\ "ok" \in Results
  BY <1>4, BlockIs DEF Results
<1>9. /\ Waiter(k, w, nextId, NoNeed, 0, 0) \in Tcb
      /\ Waiter(k, w, nextId, NoNeed, 0, 0).id = current
      /\ Waiter(k, w, nextId, NoNeed, 0, 0).wait = w
      /\ Waiter(k, w, nextId, NoNeed, 0, 0).obj = nextId
      /\ Waiter(k, w, nextId, NoNeed, 0, 0).deadline = 0
  BY <1>3, <1>5, <1>7 DEF Switchable, KernelType, Waiter, Tcb
<1> HIDE DEF kb
<1>10. PICK u \in [Slots -> Tcb] : Wakes(p, u) /\ WokenFor(p, u, -1) /\ Loaded(u)
  BY <1>5, <1>7, <1>8, RunSchedulerWakens
<1>11. /\ p[Self].id = current /\ p[Self].state = "WAITING" /\ p[Self].wait = w
       /\ p[Self].obj = nextId /\ p[Self].deadline = 0
  BY <1>7, <1>9 DEF Parked, Tcb
<1> HIDE DEF p
<1>12. u[Self] = p[Self]
  BY <1>5, <1>7, <1>10, <1>11 DEF WokenFor
<1>13. threads'[Self] = u[Self]
  BY <1>7, <1>10, <1>11, <1>12 DEF Loaded
<1>14. current \in Nat
  BY <1>1 DEF TypeOK, Alive
<1> HIDE DEF Self
<1>15. Awaited(threads', [thread |-> nextId, caller |-> current])
  BY <1>7, <1>11, <1>12, <1>13 DEF Awaited, EndWaiter, Waiting
<1> QED
  BY <1>5, <1>14, <1>15

LEMMA NextKeepsId ==
  ASSUME Inv, [Next]_vars, NEW s \in Slots
  PROVE  KeepsId(s)
<1>1. CASE UNCHANGED threads
  BY <1>1 DEF KeepsId
<1>2. ASSUME NEW k \in KernelType, NEW st \in {"READY", "WAITING", "FREE"}, NEW v \in Results,
             Switchable(k.tcbs, st, nextId), RunScheduler(k, st, v),
             k.tcbs[s].id = threads[s].id
      PROVE  KeepsId(s)
  <2>1. Leaves(k, st, v, s)
    BY <1>2, RunSchedulerLeaves DEF Inv, TypeOK
  <2> QED
    BY <1>2, <2>1 DEF Leaves, KeepsId
<1>3. /\ TypeOK /\ TimedWaitsCounted /\ Sound(threads, current, nextId)
      /\ Kernel \in KernelType /\ Kernel.tcbs = threads
  BY InvSound, KernelOK
<1>4. ASSUME NEW st \in {"READY", "WAITING", "FREE"}, NEW v \in Results,
             Alive, RunScheduler(Kernel, st, v)
      PROVE  KeepsId(s)
  BY <1>2, <1>3, <1>4, SwitchableNow
<1>5. ASSUME NEW w \in Waits \ EndWaits, NEW obj \in Int, NEW deadline \in Nat, NEW seq \in Nat,
             Alive, Block(Kernel, w, obj, NoNeed, deadline, seq)
      PROVE  KeepsId(s)
  <2>1. BlockedAs(Kernel, w, obj, NoNeed, deadline, seq, s)
    BY <1>3, <1>5, SwitchableNow, FieldValues, BlockLeaves DEF TypeOK
  <2> QED
    BY <1>3, <2>1 DEF BlockedAs, KeepsId
<1>6. CASE CreateThread \/ RunModuleThreadFails
  BY <1>6, NewThreadKeepsId DEF CreateThread, RunModuleThreadFails
<1>7. CASE ExitThread \/ SleepThread \/ Preempt
  BY <1>4, <1>7 DEF ExitThread, SleepThread, Preempt, Results
<1>8. CASE YieldThread
  <2>1. CASE dispatch
    BY <1>4, <1>8, <2>1 DEF YieldThread, Yield, Results
  <2>2. CASE ~dispatch
    BY <1>1, <1>8, <2>2 DEF YieldThread, Yield, Kernel
  <2> QED
    BY <2>1, <2>2
<1>9. ASSUME NEW x \in Slots, StartThread(x) PROVE KeepsId(s)
  <2>1. /\ WithStarted(x) \in KernelType /\ Switchable(WithStarted(x).tcbs, "READY", nextId)
        /\ RunScheduler(WithStarted(x), "READY", "ok")
        /\ WithStarted(x).tcbs[s].id = threads[s].id
    BY <1>3, <1>9, StartSwitchable DEF StartThread
  <2> QED
    BY <1>2, <2>1 DEF Results
<1>10. ASSUME NEW x \in Slots, EndsOnly(x), threads'[x].state \in {"FREE", "DORMANT"}
       PROVE  KeepsId(s)
  BY <1>10 DEF EndsOnly, KeepsId, LiveStates
<1>11. ASSUME NEW x \in Slots, WaitThreadEnd(x) PROVE KeepsId(s)
  <2>1. /\ Alive /\ Block(Kernel, "end", threads[x].id, NoNeed, 0, 0)
        /\ threads[x].state \in LiveStates /\ threads[x].id \in Int /\ "end" \in Waits
    BY <1>3, <1>11, FieldValues DEF WaitThreadEnd, TypeOK, Tcb, States, LiveStates, EndWaits
  <2>2. BlockedAs(Kernel, "end", threads[x].id, NoNeed, 0, 0, s)
    BY <1>3, <2>1, SwitchableNow, FieldValues, BlockLeaves DEF TypeOK
  <2> QED
    BY <1>3, <2>2 DEF BlockedAs, KeepsId
<1>12. ASSUME NEW d \in Delays, DelayThread(d) \/ SasCoreDelay(d) PROVE KeepsId(s)
  <2>1. /\ Alive /\ d \in Nat /\ now \in Nat /\ nextSeq \in Nat
        /\ Block(Kernel, "delay", -1, NoNeed, IF d = 0 THEN 0 ELSE now + d, nextSeq)
    BY <1>3, <1>12, DelaysAssumption DEF DelayThread, SasCoreDelay, BlockInOrder, TypeOK
  <2>2. PICK deadline \in Nat : Block(Kernel, "delay", -1, NoNeed, deadline, nextSeq)
    BY <2>1
  <2>3. "delay" \in Waits \ EndWaits
    BY FieldValues DEF TimedWaits, EndWaits
  <2> QED
    BY <1>5, <2>1, <2>2, <2>3
<1>13. CASE UNCHANGED vars \/ CreateThreadFails \/ SuspendDispatch \/ Tick
            \/ \E enabled \in BOOLEAN : ResumeDispatch(enabled)
  BY <1>1, <1>13 DEF vars, CreateThreadFails, SuspendDispatch, ResumeDispatch, Tick
<1> QED
  BY <1>6, <1>7, <1>8, <1>9, <1>10, <1>11, <1>12, <1>13, DeleteEndsOnly, TerminateEndsOnly,
     ModuleThreadKeepsId
  DEF Next, ModuleThreads, ThreadCalls, SlotCalls

(* While the thread of a part and its caller live, the caller waits on.    *)
LEMMA AwaitedNext ==
  ASSUME Inv, EndWaitsUntimed, [Next]_vars, NEW p \in Part, Awaited(threads, p),
         Live(threads', p.thread), Live(threads', p.caller)
  PROVE  Awaited(threads', p)
<1>1. PICK s \in Slots : threads[s].id = p.caller /\ EndWaiter(threads, s)
                         /\ threads[s].obj = p.thread
  BY DEF Awaited
<1>2. Inv'
  BY NextInv
<1>3. PICK r \in Slots : threads'[r].id = p.caller /\ threads'[r].state \in LiveStates
  BY <1>2 DEF Live, LiveStates, Inv, TypeOK, Tcb, States
<1>4. /\ p.caller \in Nat /\ p.caller < nextId /\ nextId \in Nat
      /\ threads[s].state = "WAITING" /\ threads[s].deadline = 0
  BY <1>1 DEF Inv, ThreadIdsUnique, TypeOK, EndWaitsUntimed, EndWaiter, Waiting, Part
<1>5. threads[r].id = p.caller
  BY <1>3, <1>4, NextKeepsId DEF KeepsId
<1>6. r = s
  <2>1. CASE p.caller # 0
    BY <1>1, <1>5, <2>1 DEF Inv, ThreadIdsUnique
  <2>2. CASE p.caller = 0
    BY <1>1, <1>2, <1>3, <1>4, <2>2 DEF Inv, ThreadIdsUnique, LiveStates
  <2> QED
    BY <2>1, <2>2
<1>7. Passes(s)
  BY NextPasses
<1>8. CASE Waiting(threads', s)
  <2>1. ~BeginsToWait(s)
    BY <1>4, InvSound, SelfRunning DEF BeginsToWait, Inv
  <2>2. threads'[s] = threads[s]
    BY <1>7, <1>8, <2>1 DEF Passes
  <2> QED
    BY <1>1, <2>2 DEF Awaited, EndWaiter, Waiting
<1>9. CASE ~Waiting(threads', s)
  <2>1. Over(threads', p.thread)
    BY <1>1, <1>3, <1>4, <1>6, <1>7, <1>9 DEF Passes, LiveStates, Waiting
  <2> QED
    BY <2>1 DEF Over, Live
<1> QED
  BY <1>8, <1>9

LEMMA ModuleInit == MInit => ModuleInv
<1> SUFFICES ASSUME MInit PROVE ModuleInv
  OBVIOUS
<1>1. running = {} /\ Inv
  BY InitInv DEF MInit, RInit
<1>2. EndWaitsUntimed
  BY ZeroTcbType DEF EndWaitsUntimed, EndWaiter, Waiting, MInit, RInit, Init, ZeroTcb
<1> QED
  BY <1>1, <1>2 DEF ModuleInv

(* To the threads, a step of the module manager is one of the scheduler;   *)
(* what becomes of the parts that run is the same in all of them.          *)
LEMMA MNextIs ==
  ASSUME [MNext]_<<rvars, mvars>>
  PROVE  /\ [Next]_vars
         /\ \/ running' = running /\ UNCHANGED threads
            \/ running' = GoingOn(running)
            \/ \E w \in EndWaits :
                 /\ RunModuleThread(w)
                 /\ running' = GoingOn(running \cup {[thread |-> nextId, caller |-> current]})
<1> DEFINE Parts == \/ running' = running /\ UNCHANGED threads
                    \/ running' = GoingOn(running)
                    \/ \E w \in EndWaits :
                         /\ RunModuleThread(w)
                         /\ running' = GoingOn(running \cup {[thread |-> nextId, caller |-> current]})
<1>1. ASSUME NEW m \in 1 .. ModuleSlots, NEW wait \in EndWaits, NEW value \in BOOLEAN,
             OnThread(m, wait, value)
      PROVE  [Next]_vars /\ Parts
  BY <1>1 DEF OnThread, Next, ModuleThreads
<1>2. ASSUME NoThread PROVE [Next]_vars /\ Parts
  BY <1>2 DEF NoThread, ThreadRefused, Next, ModuleThreads
<1>3. ASSUME NEW m \in 1 .. ModuleSlots, NEW value \in BOOLEAN,
             Silently(m, value) \/ UnloadModule(m)
      PROVE  [Next]_vars /\ Parts
  BY <1>3 DEF Silently, UnloadModule, vars
<1>4. ASSUME NEW f \in Files, LoadModule(f) PROVE [Next]_vars /\ Parts
  BY <1>4 DEF LoadModule, vars
<1>5. ASSUME ModuleCallReturns PROVE [Next]_vars /\ Parts
  <2>1. "modstart" \in EndWaits /\ "end" \in EndWaits
    BY DEF EndWaits
  <2> HIDE DEF Parts
  <2>2. ASSUME NEW m \in 1 .. ModuleSlots, StartModule(m) \/ StopModule(m)
        PROVE  [Next]_vars /\ Parts
    <3>1. \/ OnThread(m, "modstart", TRUE) \/ OnThread(m, "end", FALSE) \/ NoThread
          \/ Silently(m, TRUE) \/ Silently(m, FALSE)
      BY <2>2 DEF StartModule, StopModule
    <3>2. TRUE \in BOOLEAN /\ FALSE \in BOOLEAN
      OBVIOUS
    <3>3. CASE OnThread(m, "modstart", TRUE)
      BY <1>1, <2>1, <3>2, <3>3
    <3>4. CASE OnThread(m, "end", FALSE)
      BY <1>1, <2>1, <3>2, <3>4
    <3>5. CASE Silently(m, TRUE)
      BY <1>3, <3>2, <3>5
    <3>6. CASE Silently(m, FALSE)
      BY <1>3, <3>2, <3>6
    <3> QED
      BY <1>2, <3>1, <3>3, <3>4, <3>5, <3>6
  <2> QED
    BY <1>3, <1>4, <1>5, <2>2 DEF ModuleCallReturns, ModuleCalls
<1>6. ASSUME NEW d \in Delays, RoutedCallReturns(d) PROVE [Next]_vars
  BY <1>6 DEF RoutedCallReturns, Next
<1>7. ThreadCallReturns => [Next]_vars /\ Parts
  BY DEF ThreadCallReturns, Next
<1>8. JumpToStub \/ Elsewhere => [Next]_vars
  BY DEF JumpToStub, Elsewhere, Next
<1>9. UNCHANGED <<rvars, mvars>> => [Next]_vars /\ Parts
  BY DEF rvars, mvars, vars
<1> QED
  BY <1>5, <1>6, <1>7, <1>8, <1>9 DEF MNext

LEMMA ModuleNext == ModuleInv /\ [MNext]_<<rvars, mvars>> => ModuleInv'
<1> SUFFICES ASSUME ModuleInv, [MNext]_<<rvars, mvars>> PROVE ModuleInv'
  OBVIOUS
<1>1. [Next]_vars
  BY MNextIs
<1>2. Inv' /\ EndWaitsUntimed'
  BY <1>1, NextInv, UntimedNext DEF ModuleInv
<1>3. ASSUME NEW p \in running, Live(threads', p.thread), Live(threads', p.caller)
      PROVE  p \in Part /\ Awaited(threads', p)
  BY <1>1, <1>3, AwaitedNext DEF ModuleInv
<1>4. CASE running' = running /\ UNCHANGED threads
  BY <1>2, <1>4 DEF ModuleInv, Awaited, EndWaiter, Waiting
<1>5. CASE running' = GoingOn(running)
  BY <1>2, <1>3, <1>5 DEF ModuleInv, GoingOn
<1>6. ASSUME NEW w \in EndWaits, RunModuleThread(w),
             running' = GoingOn(running \cup {[thread |-> nextId, caller |-> current]})
      PROVE  ModuleInv'
  <2> DEFINE new == [thread |-> nextId, caller |-> current]
  <2>1. new \in Part /\ Awaited(threads', new)
    BY <1>6, ModuleThreadAwaited DEF ModuleInv, Part
  <2> HIDE DEF new
  <2>2. running' = GoingOn(running \cup {new})
    BY <1>6 DEF new
  <2> QED
    BY <1>2, <1>3, <2>1, <2>2 DEF ModuleInv, GoingOn
<1> QED
  BY <1>4, <1>5, <1>6, MNextIs

LEMMA ModuleSpecInv == MSpec => []ModuleInv
BY ModuleInit, ModuleNext, PTL DEF MSpec

(* A thread has one module_start or module_stop in progress at a time, for *)
(* any number of threads and modules: its caller waits for it, and a       *)
(* thread waits for one end.                                               *)
THEOREM PartsInSequence == MSpec => []PartsFollowOneAnother
<1>1. ASSUME ModuleInv PROVE PartsFollowOneAnother
  <2> SUFFICES ASSUME NEW p \in running, NEW q \in running, p.caller = q.caller
               PROVE  p = q
    BY DEF PartsFollowOneAnother
  <2>1. PICK r \in Slots : threads[r].id = p.caller /\ EndWaiter(threads, r)
                           /\ threads[r].obj = p.thread
    BY <1>1 DEF ModuleInv, Awaited
  <2>2. PICK s \in Slots : threads[s].id = q.caller /\ EndWaiter(threads, s)
                           /\ threads[s].obj = q.thread
    BY <1>1 DEF ModuleInv, Awaited
  <2>3. r = s
    BY <1>1, <2>1, <2>2 DEF ModuleInv, Inv, ThreadIdsUnique, EndWaiter, Waiting
  <2> QED
    BY <1>1, <2>1, <2>2, <2>3 DEF ModuleInv, Part
<1> QED
  BY <1>1, ModuleSpecInv, PTL

(* Who waits in sceKernelStartModule, sceKernelStopModule or               *)
(* sceKernelWaitThreadEnd is not woken while the thread it waits for       *)
(* lives: only its end makes the caller READY.                             *)
THEOREM CallersWaitForTheEnd == MSpec => CallsReturnWhenOver
<1> DEFINE Awaits ==
      \A s \in Slots :
        /\ Waiting(threads, s)
        /\ threads[s].wait \in EndWaits
        /\ threads'[s].id = threads[s].id
        /\ threads'[s].state \in {"RUNNING", "READY"}
        => ~Live(threads', threads[s].obj)
<1>1. ASSUME ModuleInv, [MNext]_<<rvars, mvars>> PROVE [Awaits]_<<rvars, mvars>>
  <2>1. [Next]_vars /\ Inv
    BY <1>1, MNextIs DEF ModuleInv
  <2>2. ASSUME NEW s \in Slots, Waiting(threads, s), threads[s].wait \in EndWaits,
               threads'[s].id = threads[s].id, threads'[s].state \in {"RUNNING", "READY"}
        PROVE  ~Live(threads', threads[s].obj)
    <3>1. EndWaiter(threads, s) /\ threads[s].deadline = 0
      BY <1>1, <2>2 DEF EndWaiter, ModuleInv, EndWaitsUntimed
    <3>2. Over(threads', threads[s].obj)
      BY <2>1, <2>2, <3>1, NextPasses DEF Passes
    <3> QED
      BY <3>2 DEF Over, Live
  <2> QED
    BY <2>2
<1> QED
  BY <1>1, ModuleSpecInv, PTL DEF MSpec, CallsReturnWhenOver

-----------------------------------------------------------------------------
(* Programs *)

LEMMA Sizes ==
  /\ Base \in Nat /\ Size \in Nat /\ Size > 0 /\ Size + 1 < Base
  /\ Cells = 0 .. Size - 1
  /\ EndTrap \in Nat /\ DataWord \in Nat
  /\ EndTrap >= Base + Base /\ DataWord > EndTrap + 1
BY CellsAssumption, TrapsAssumption

LEMMA FirstIs ==
  ASSUME NEW S \in SUBSET Nat, S # {}
  PROVE  FirstCell(S) \in S /\ \A y \in S : FirstCell(S) <= y
<1>1. PICK x \in S : \A y \in S : ~ (<<y, x>> \in OpToRel(<, Nat))
  BY NatLessThanWellFounded, WFMin
<1>2. OpToRel(<, Nat) = {p \in Nat \X Nat : p[1] < p[2]}
  BY DEF OpToRel
<1>3. \A y \in S : ~ (y < x)
  BY <1>1, <1>2
<1>4. \A y \in S : y \in Nat
  OBVIOUS
<1>5. \A y \in S : x <= y
  BY <1>3, <1>4
<1> QED
  BY <1>5, Zenon DEF FirstCell

LEMMA Slot ==
  ASSUME NEW c \in [Cells -> Instruction], WellFormed(c), NEW a \in Cells
  PROVE  /\ a \in DelaySlots(c) => a > 0 /\ c[a].op \in Straight
         /\ a + 1 \in DelaySlots(c) <=> c[a].op \in Jumps
         /\ c[a].op \in Jumps => a + 1 \in Cells /\ a + 2 \notin DelaySlots(c)
         /\ c[a].op \in Jumps <=> c[a].op \notin Straight
<1>1. \A b \in Cells : b \in Nat /\ b <= Size - 1
  BY Sizes
<1>2. \A b \in Cells : c[b].op \in Straight \cup Jumps
  BY DEF Instruction
<1>3. Straight \cap Jumps = {}
  BY DEF Straight, Jumps
<1>4. a \in DelaySlots(c) => a > 0 /\ c[a].op \in Straight
  <2>1. ASSUME a \in DelaySlots(c) PROVE a > 0 /\ c[a].op \in Straight
    <3>1. a - 1 \in Cells /\ c[a - 1].op \in Jumps
      BY <2>1 DEF DelaySlots
    <3>2. (a - 1) + 1 = a /\ a > 0
      BY <1>1, <3>1
    <3> QED
      BY <3>1, <3>2 DEF WellFormed
  <2> QED
    BY <2>1
<1>5. c[a].op \in Jumps => a + 1 \in Cells /\ c[a + 1].op \in Straight
  BY DEF WellFormed
<1>6. a + 1 \in DelaySlots(c) <=> c[a].op \in Jumps
  <2>1. (a + 1) - 1 = a
    BY <1>1
  <2> QED
    BY <1>5, <2>1 DEF DelaySlots
<1>7. ASSUME c[a].op \in Jumps, a + 2 \in DelaySlots(c) PROVE FALSE
  <2>1. (a + 2) - 1 = a + 1
    BY <1>1
  <2>2. c[a + 1].op \in Jumps
    BY <1>7, <2>1 DEF DelaySlots
  <2> QED
    BY <1>3, <1>5, <1>7, <2>2
<1> QED
  BY <1>2, <1>3, <1>4, <1>5, <1>6, <1>7

-----------------------------------------------------------------------------
(* The processor *)

(* The state of the processor that the hybrid state stands for. *)
State == [pc : Nat, next : Nat, flag : BOOLEAN, ra : Nat, fp : Nat]
Seen  == [pc |-> ThePc, next |-> TheNext, flag |-> cpu.flag, ra |-> cpu.ra, fp |-> cpu.fp]

At(p, n, s)      == [s EXCEPT !.pc = p, !.next = n]
GoesOn(s)        == At(s.next, s.next + 1, s)
JumpsTo(target, s) == At(s.next, target, s)

(* The state after an instruction of the program c. *)
After(c, s) ==
  LET i == c[s.pc - Base]
  IN  CASE i.op \in {"int", "vfpu"}  -> [GoesOn(s) EXCEPT !.flag = ~@]
        [] i.op = "swap"             -> [GoesOn(s) EXCEPT !.ra = s.fp, !.fp = s.ra]
        [] i.op \in {"branch", "fbranch"} ->
             JumpsTo(IF s.flag THEN Base + i.to ELSE s.next + 1, s)
        [] i.op = "likely" ->
             IF s.flag THEN JumpsTo(Base + i.to, s) ELSE At(s.pc + 2, s.pc + 3, s)
        [] i.op = "call"  -> [JumpsTo(Base + i.to, s) EXCEPT !.ra = s.pc + 2]
        [] i.op = "callp" -> [JumpsTo(s.fp, s) EXCEPT !.ra = s.pc + 2]
        [] i.op = "ret"   -> JumpsTo(s.ra, s)
        [] i.op = "stub"  -> [At(s.ra, s.ra + 1, s) EXCEPT !.flag = ~@]

LEMMA AfterIsAStep ==
  ASSUME Running, ThePc - Base \in Cells, image \in [Cells -> Instruction],
         Seen' = After(image, Seen), UNCHANGED <<image, status>>
  PROVE  Processor!ANext
<1> DEFINE i == image[ThePc - Base]
<1>1. i.op \in Straight \cup Jumps
  BY DEF Instruction
<1>2. /\ Seen.pc = ThePc /\ Seen.next = TheNext /\ Seen.flag = cpu.flag
      /\ Seen.ra = cpu.ra /\ Seen.fp = cpu.fp
      /\ Seen'.pc = ThePc' /\ Seen'.next = TheNext' /\ Seen'.flag = cpu'.flag
      /\ Seen'.ra = cpu'.ra /\ Seen'.fp = cpu'.fp
  BY DEF Seen
<1>3. DOMAIN Seen = {"pc", "next", "flag", "ra", "fp"}
  BY DEF Seen
<1>4. image[Seen.pc - Base] = i
  BY <1>2
<1> HIDE DEF Seen
<1>5. CASE i.op \in {"int", "vfpu"}
  <2>1. Seen' = [GoesOn(Seen) EXCEPT !.flag = ~@]
    BY <1>4, <1>5 DEF After
  <2> QED
    BY <1>2, <1>3, <1>5, <2>1
    DEF GoesOn, At, Processor!ANext, Processor!Compute, Processor!Op, Processor!Goes,
        Processor!Loaded, Processor!Running, Running
<1>6. CASE i.op = "swap"
  <2>1. Seen' = [GoesOn(Seen) EXCEPT !.ra = Seen.fp, !.fp = Seen.ra]
    BY <1>4, <1>6 DEF After
  <2> QED
    BY <1>2, <1>3, <1>6, <2>1
    DEF GoesOn, At, Processor!ANext, Processor!SwapRegisters, Processor!Op, Processor!Goes,
        Processor!Loaded, Processor!Running, Running
<1>7. CASE i.op \in {"branch", "fbranch"}
  <2>1. Seen' = JumpsTo(IF Seen.flag THEN Base + i.to ELSE Seen.next + 1, Seen)
    BY <1>4, <1>7 DEF After
  <2> QED
    BY <1>2, <1>3, <1>7, <2>1
    DEF JumpsTo, At, Processor!ANext, Processor!Branch, Processor!Op, Processor!Goes,
        Processor!Loaded, Processor!Running, Processor!Target, Running
<1>8. CASE i.op = "likely"
  <2>1. Seen' = IF Seen.flag THEN JumpsTo(Base + i.to, Seen)
                             ELSE At(Seen.pc + 2, Seen.pc + 3, Seen)
    BY <1>4, <1>8 DEF After
  <2> QED
    BY <1>2, <1>3, <1>8, <2>1
    DEF JumpsTo, At, Processor!ANext, Processor!BranchLikely, Processor!Op, Processor!Goes,
        Processor!Loaded, Processor!Running, Processor!Target, Running
<1>9. CASE i.op = "call"
  <2>1. Seen' = [JumpsTo(Base + i.to, Seen) EXCEPT !.ra = Seen.pc + 2]
    BY <1>4, <1>9 DEF After
  <2> QED
    BY <1>2, <1>3, <1>9, <2>1
    DEF JumpsTo, At, Processor!ANext, Processor!Call, Processor!Op, Processor!Goes,
        Processor!Loaded, Processor!Running, Processor!Target, Running
<1>10. CASE i.op = "callp"
  <2>1. Seen' = [JumpsTo(Seen.fp, Seen) EXCEPT !.ra = Seen.pc + 2]
    BY <1>4, <1>10 DEF After
  <2> QED
    BY <1>2, <1>3, <1>10, <2>1
    DEF JumpsTo, At, Processor!ANext, Processor!CallPointer, Processor!Op, Processor!Goes,
        Processor!Loaded, Processor!Running, Running
<1>11. CASE i.op = "ret"
  <2>1. Seen' = JumpsTo(Seen.ra, Seen)
    BY <1>4, <1>11 DEF After
  <2> QED
    BY <1>2, <1>3, <1>11, <2>1
    DEF JumpsTo, At, Processor!ANext, Processor!Return, Processor!Op, Processor!Goes,
        Processor!Loaded, Processor!Running, Running
<1>12. CASE i.op = "stub"
  <2>1. Seen' = [At(Seen.ra, Seen.ra + 1, Seen) EXCEPT !.flag = ~@]
    BY <1>4, <1>12 DEF After
  <2> QED
    BY <1>2, <1>3, <1>12, <2>1
    DEF At, Processor!ANext, Processor!SystemCall, Processor!Op, Processor!Goes,
        Processor!Loaded, Processor!Running, Running
<1> QED
  BY <1>1, <1>5, <1>6, <1>7, <1>8, <1>9, <1>10, <1>11, <1>12 DEF Straight, Jumps

(* An address that no delay slot is at. *)
Apart(c, v) == v \in Nat /\ v >= Base /\ v - Base \notin DelaySlots(c)

(* Only in a delay slot is a jump pending; the registers hold addresses    *)
(* that a jump may go to.                                                  *)
Aligned(c, s) ==
  /\ s \in State
  /\ s.pc >= Base
  /\ IF s.pc - Base \in DelaySlots(c) THEN Apart(c, s.next) ELSE s.next = s.pc + 1
  /\ Apart(c, s.ra) /\ Apart(c, s.fp)
  /\ CallsPointer(c) => s.ra # DataWord /\ s.fp # DataWord

LEMMA AtIs ==
  ASSUME NEW s \in State, NEW p \in Nat, NEW n \in Nat
  PROVE  /\ At(p, n, s) = [pc |-> p, next |-> n, flag |-> s.flag, ra |-> s.ra, fp |-> s.fp]
         /\ At(p, n, s) \in State
<1>1. At(p, n, s) \in State
  BY DEF At, State
<1>2. /\ At(p, n, s).pc = p /\ At(p, n, s).next = n
      /\ At(p, n, s).ra = s.ra /\ At(p, n, s).fp = s.fp
  BY DEF At, State
<1>3. At(p, n, s).flag = s.flag
  BY DEF At, State
<1>4. \A t \in State : t = [pc |-> t.pc, next |-> t.next, flag |-> t.flag, ra |-> t.ra,
                           fp |-> t.fp]
  BY DEF State
<1> QED
  BY <1>1, <1>2, <1>3, <1>4

LEMMA AfterAligned ==
  ASSUME NEW c \in [Cells -> Instruction], WellFormed(c), TargetsOutsideSlots(c),
         NEW s, Aligned(c, s), s.pc - Base \in Cells
  PROVE  Aligned(c, After(c, s))
<1> DEFINE a == s.pc - Base
           i == c[a]
           t == After(c, s)
<1> SUFFICES Aligned(c, t)
  OBVIOUS
<1>1. /\ s \in State /\ s.pc \in Nat /\ s.next \in Nat /\ s.ra \in Nat /\ s.fp \in Nat
      /\ a \in Cells /\ s.pc = Base + a /\ Base \in Nat /\ a \in Nat /\ a + 2 <= Size + 1
      /\ Apart(c, s.ra) /\ Apart(c, s.fp)
      /\ s.next >= Base
  BY Sizes DEF Aligned, State, Apart
<1>2. CASE i.op \in Straight
  <2>1. s.next - Base \notin DelaySlots(c)
    <3>1. CASE a \in DelaySlots(c)
      BY <3>1 DEF Aligned, Apart
    <3>2. CASE a \notin DelaySlots(c)
      <4>1. s.next - Base = a + 1
        BY <1>1, <3>2 DEF Aligned
      <4>2. i.op \notin Jumps
        BY <1>1, <1>2, Slot
      <4> QED
        BY <1>1, <4>1, <4>2, Slot
    <3> QED
      BY <3>1, <3>2
  <2>2. /\ t \in State /\ t.pc = s.next /\ t.next = s.next + 1
        /\ \/ t.ra = s.ra /\ t.fp = s.fp
           \/ t.ra = s.fp /\ t.fp = s.ra
    <3>1. s.next + 1 \in Nat /\ s.flag \in BOOLEAN /\ (~s.flag) \in BOOLEAN
      BY <1>1 DEF State
    <3>2. CASE i.op \in {"int", "vfpu"}
      <4>1. t = [GoesOn(s) EXCEPT !.flag = ~s.flag]
        BY <1>1, <3>2 DEF After, GoesOn, At, State
      <4> HIDE DEF t
      <4> QED
        BY <1>1, <3>1, <4>1 DEF GoesOn, At, State
    <3>3. CASE i.op = "swap"
      <4>1. t = [GoesOn(s) EXCEPT !.ra = s.fp, !.fp = s.ra]
        BY <1>1, <3>3 DEF After
      <4> HIDE DEF t
      <4> QED
        BY <1>1, <3>1, <4>1 DEF GoesOn, At, State
    <3> QED
      BY <1>2, <3>2, <3>3 DEF Straight
  <2> HIDE DEF t, a
  <2>3. t.pc >= Base /\ t.next = t.pc + 1 /\ t.pc - Base \notin DelaySlots(c)
    BY <1>1, <2>1, <2>2
  <2>4. /\ Apart(c, t.ra) /\ Apart(c, t.fp)
        /\ CallsPointer(c) => t.ra # DataWord /\ t.fp # DataWord
    BY <1>1, <2>2 DEF Aligned
  <2> QED
    BY <2>2, <2>3, <2>4 DEF Aligned
<1>3. CASE i.op \in Jumps
  <2>1. a \notin DelaySlots(c) /\ a + 1 \in DelaySlots(c) /\ a + 2 \notin DelaySlots(c)
    BY <1>1, <1>3, Slot
  <2>2. s.next = s.pc + 1 /\ s.next - Base = a + 1 /\ s.next + 1 - Base = a + 2
    BY <1>1, <2>1 DEF Aligned
  <2>3. Apart(c, s.pc + 2) /\ s.pc + 2 # DataWord
    <3>1. (s.pc + 2) - Base = a + 2 /\ s.pc + 2 < Base + Base /\ s.pc + 2 \in Nat
          /\ s.pc + 2 >= Base
      BY <1>1, Sizes
    <3> HIDE DEF a
    <3>2. s.pc + 2 # DataWord
      BY <3>1, Sizes
    <3> QED
      BY <2>1, <3>1, <3>2 DEF Apart
  <2>4. i.op \in Targeted => Apart(c, Base + i.to)
    <3>1. i.to \in Cells
      BY <1>1 DEF Instruction
    <3>2. (Base + i.to) - Base = i.to /\ i.to \in Nat
      BY <3>1, Sizes
    <3> QED
      BY <1>1, <3>2 DEF TargetsOutsideSlots, Apart
  <2>5. i.op = "callp" => CallsPointer(c)
    BY <1>1 DEF CallsPointer
  <2>6. Apart(c, s.next + 1) /\ (s.pc + 3) = (s.pc + 2) + 1 /\ s.next + 1 = s.pc + 2
    BY <1>1, <2>2, <2>3
  <2>7. /\ Base + i.to \in Nat /\ s.next + 1 \in Nat /\ s.pc + 2 \in Nat /\ s.pc + 3 \in Nat
        /\ s.ra + 1 \in Nat /\ s.flag \in BOOLEAN /\ (~s.flag) \in BOOLEAN
    <3>1. i \in Instruction
      BY <1>1
    <3>2. i.to \in Cells
      BY <3>1 DEF Instruction
    <3>3. i.to \in Nat
      BY <3>2, Sizes
    <3> HIDE DEF a, i
    <3> QED
      BY <1>1, <3>3 DEF State
  <2>8. /\ t \in State
        /\ \/ /\ t.pc = s.next /\ Apart(c, t.next)
              /\ t.ra \in {s.ra, s.pc + 2} /\ t.fp = s.fp
           \/ /\ t.next = t.pc + 1 /\ Apart(c, t.pc)
              /\ t.ra = s.ra /\ t.fp = s.fp
    <3>1. CASE i.op \in {"branch", "fbranch"}
      <4>1. t = JumpsTo(IF s.flag THEN Base + i.to ELSE s.next + 1, s)
        BY <3>1 DEF After
      <4>2. i.op \in Targeted
        BY <3>1 DEF Targeted
      <4> HIDE DEF t, i
      <4> QED
        BY <1>1, <2>4, <2>6, <2>7, <4>1, <4>2 DEF JumpsTo, At, State
    <3>2. CASE i.op = "likely"
      <4>1. t = IF s.flag THEN JumpsTo(Base + i.to, s) ELSE At(s.pc + 2, s.pc + 3, s)
        BY <3>2 DEF After
      <4>2. i.op \in Targeted
        BY <3>2 DEF Targeted
      <4> HIDE DEF t, i
      <4> QED
        BY <1>1, <2>3, <2>4, <2>6, <2>7, <4>1, <4>2 DEF JumpsTo, At, State
    <3>3. CASE i.op = "call"
      <4>1. t = [JumpsTo(Base + i.to, s) EXCEPT !.ra = s.pc + 2]
        BY <3>3 DEF After
      <4>2. i.op \in Targeted
        BY <3>3 DEF Targeted
      <4> HIDE DEF t, i
      <4> QED
        BY <1>1, <2>4, <2>7, <4>1, <4>2 DEF JumpsTo, At, State
    <3>4. CASE i.op = "callp"
      <4>1. t = [JumpsTo(s.fp, s) EXCEPT !.ra = s.pc + 2]
        BY <3>4 DEF After
      <4> HIDE DEF t, i
      <4> QED
        BY <1>1, <2>7, <4>1 DEF JumpsTo, At, State
    <3>5. CASE i.op = "ret"
      <4>1. t = JumpsTo(s.ra, s)
        BY <3>5 DEF After
      <4> HIDE DEF t, i
      <4> QED
        BY <1>1, <2>7, <4>1 DEF JumpsTo, At, State
    <3>6. CASE i.op = "stub"
      <4>1. t = [At(s.ra, s.ra + 1, s) EXCEPT !.flag = ~s.flag]
        BY <1>1, <3>6 DEF After, At, State
      <4> HIDE DEF t, i
      <4> QED
        BY <1>1, <2>7, <4>1 DEF At, State
    <3> QED
      BY <1>3, <3>1, <3>2, <3>3, <3>4, <3>5, <3>6 DEF Jumps
  <2> HIDE DEF t, a
  <2>9. CASE t.pc = s.next /\ Apart(c, t.next) /\ t.ra \in {s.ra, s.pc + 2} /\ t.fp = s.fp
    <3>1. t.pc - Base \in DelaySlots(c) /\ t.pc >= Base
      BY <1>1, <2>1, <2>2, <2>9
    <3>2. /\ Apart(c, t.ra) /\ Apart(c, t.fp)
          /\ CallsPointer(c) => t.ra # DataWord /\ t.fp # DataWord
      BY <1>1, <2>3, <2>9 DEF Aligned
    <3> QED
      BY <2>8, <2>9, <3>1, <3>2 DEF Aligned
  <2>10. CASE t.next = t.pc + 1 /\ Apart(c, t.pc) /\ t.ra = s.ra /\ t.fp = s.fp
    <3>1. t.pc >= Base /\ t.pc - Base \notin DelaySlots(c)
      BY <2>10 DEF Apart
    <3>2. /\ Apart(c, t.ra) /\ Apart(c, t.fp)
          /\ CallsPointer(c) => t.ra # DataWord /\ t.fp # DataWord
      BY <1>1, <2>10 DEF Aligned
    <3> QED
      BY <2>8, <2>10, <3>1, <3>2 DEF Aligned
  <2> QED
    BY <2>8, <2>9, <2>10
<1>4. i.op \in Straight \cup Jumps
  BY <1>1 DEF Instruction
<1> QED
  BY <1>2, <1>3, <1>4

-----------------------------------------------------------------------------
(* The interpreter *)

LEMMA Links ==
  ASSUME NEW v \in Nat
  PROVE  /\ LinkAddress(v) \in Nat
         /\ v >= Base => LinkAddress(v) = v
         /\ v # 0 /\ v < Base => LinkAddress(v) = v + Base
BY Sizes DEF LinkAddress

(* The state of the processor at a CPU whose addresses may be link         *)
(* addresses.                                                              *)
Linked(c) == [c EXCEPT !.pc = LinkAddress(@), !.next = LinkAddress(@)]

(* The interpreter takes a step of the processor. *)
LEMMA InterpretedIs ==
  ASSUME NEW c \in State, Aligned(image, Linked(c)), LinkAddress(c.pc) - Base \in Cells,
         image \in [Cells -> Instruction], WellFormed(image), TargetsOutsideSlots(image)
  PROVE  /\ Interpreted(c) \in State
         /\ Linked(Interpreted(c)) = After(image, Linked(c))
<1> DEFINE s == Linked(c)
           i == image[s.pc - Base]
           t == After(image, s)
           d == Interpreted(c)
<1>1. /\ s \in State /\ s.pc = LinkAddress(c.pc) /\ s.next = LinkAddress(c.next)
      /\ s.flag = c.flag /\ s.ra = c.ra /\ s.fp = c.fp
      /\ s.pc - Base \in Cells
      /\ Fetched(s.pc) = i /\ i.op \in Straight \cup Jumps
  BY DEF Linked, State, Aligned, Fetched, Instruction
<1>2. Aligned(image, t) /\ t \in State /\ t.pc >= Base
  <2>1. Aligned(image, t)
    BY <1>1, AfterAligned
  <2> QED
    BY <2>1 DEF Aligned
<1>3. t.next \in Nat /\ t.next >= Base
  BY <1>2, Sizes DEF Aligned, Apart, State
<1>4. d = t
  <2> DEFINE moved == [c EXCEPT !.pc = s.next, !.next = s.next + 1]
  <2>1. moved = GoesOn(s)
    BY <1>1 DEF GoesOn, At, State, Linked
  <2>2. d = IF i.op = "stub" THEN HleSyscall(c)
            ELSE Computed(i, Branched(i, s.pc, Jumped(i, s.pc, moved)))
    BY <1>1 DEF Interpreted
  <2>3. moved \in State /\ moved.flag = s.flag /\ moved.ra = s.ra /\ moved.fp = s.fp
        /\ moved.pc = s.next /\ moved.next = s.next + 1
    <3>1. s.next \in Nat /\ s.next + 1 \in Nat
      BY <1>1 DEF State
    <3> QED
      BY <1>1, <2>1, <3>1 DEF GoesOn, At, State
  <2> HIDE DEF moved
  <2>4. CASE i.op \in {"int", "vfpu"}
    BY <2>1, <2>2, <2>4 DEF Computed, Branched, Jumped, After
  <2>5. CASE i.op = "swap"
    BY <2>1, <2>2, <2>3, <2>5 DEF Computed, Branched, Jumped, After
  <2>6. CASE i.op \in {"branch", "fbranch"}
    BY <1>1, <2>1, <2>2, <2>3, <2>6
    DEF Computed, Branched, Jumped, After, GoesOn, JumpsTo, At, State
  <2>7. CASE i.op = "likely"
    BY <1>1, <2>1, <2>2, <2>3, <2>7
    DEF Computed, Branched, Jumped, After, GoesOn, JumpsTo, At, State
  <2>8. CASE i.op \in {"call", "callp"}
    BY <1>1, <2>1, <2>2, <2>3, <2>8
    DEF Computed, Branched, Jumped, After, GoesOn, JumpsTo, At, State
  <2>9. CASE i.op = "ret"
    BY <1>1, <2>1, <2>2, <2>3, <2>9
    DEF Computed, Branched, Jumped, After, GoesOn, JumpsTo, At, State
  <2>10. CASE i.op = "stub"
    BY <1>1, <2>2, <2>10 DEF HleSyscall, After, At, State, Linked
  <2> QED
    BY <1>1, <2>4, <2>5, <2>6, <2>7, <2>8, <2>9, <2>10 DEF Straight, Jumps
<1>5. LinkAddress(t.pc) = t.pc /\ LinkAddress(t.next) = t.next
  BY <1>2, <1>3, Links DEF State
<1> HIDE DEF t, d
<1>6. Linked(t) = t
  BY <1>2, <1>5 DEF Linked, State
<1>7. d \in State /\ Linked(d) = t
  BY <1>2, <1>4, <1>6
<1> QED
  BY <1>7 DEF d, t

-----------------------------------------------------------------------------
(* Blocks *)

(* What the theorem asks of the program that is loaded. *)
Loadable ==
  /\ image \in [Cells -> Instruction]
  /\ WellFormed(image) /\ TargetsOutsideSlots(image) /\ NothingAtZero(image)

(* A block starts in no delay slot, and at every stub. *)
LEMMA LeadersAre ==
  ASSUME Loadable
  PROVE  /\ Leaders \subseteq Cells
         /\ Leaders \cap DelaySlots(image) = {}
         /\ \A a \in Cells : image[a].op = "stub" => a \in Leaders
<1> DEFINE jumps == {a \in Cells : image[a].op \in {"branch", "call"}}
           turns == {a \in Cells : image[a].op \in {"callp", "ret", "stub"}}
<1>1. Leaders = ({FirstCell(Cells)} \cup {image[a].to : a \in jumps}
                   \cup {a + 2 : a \in jumps \cup turns}) \cap Cells
  BY DEF Leaders
<1>2. FirstCell(Cells) = 0
  <2>1. Cells \in SUBSET Nat /\ 0 \in Cells /\ \A y \in Cells : y >= 0
    BY Sizes
  <2>2. FirstCell(Cells) \in Cells /\ FirstCell(Cells) <= 0
    BY <2>1, FirstIs
  <2> QED
    BY <2>2, Sizes
<1>3. 0 \notin DelaySlots(image) /\ 0 \in Cells
  BY Sizes, Slot DEF Loadable
<1>4. ASSUME NEW a \in jumps PROVE image[a].to \notin DelaySlots(image)
  BY DEF Loadable, TargetsOutsideSlots, Targeted
<1>5. ASSUME NEW a \in jumps \cup turns PROVE a + 2 \notin DelaySlots(image)
  <2>1. a \in Cells /\ image[a].op \in Jumps
    BY DEF Jumps
  <2> QED
    BY <2>1, Slot DEF Loadable
<1>6. ASSUME NEW a \in Cells, image[a].op = "stub" PROVE a \in Leaders
  <2>1. CASE a = 0
    BY <1>1, <1>2, <1>3, <2>1
  <2>2. CASE a - 2 \in Cells /\ image[a - 2].op \in {"ret", "stub"}
    <3>1. a - 2 \in turns /\ (a - 2) + 2 = a
      BY <2>2, Sizes
    <3> HIDE DEF turns
    <3> QED
      BY <1>1, <3>1
  <2> QED
    BY <1>6, <2>1, <2>2 DEF Loadable, WellFormed
<1> HIDE DEF jumps, turns
<1>7. Leaders \cap DelaySlots(image) = {}
  BY <1>1, <1>2, <1>3, <1>4, <1>5
<1> QED
  BY <1>1, <1>6, <1>7

(* A block ends where the next one starts, or with the program. *)
LEMMA EndIs ==
  ASSUME Loadable, NEW a \in Leaders
  PROVE  /\ EndOf(a) \in Leaders \cup {Size}
         /\ EndOf(a) \in Nat /\ a < EndOf(a) /\ EndOf(a) <= Size
         /\ \A b \in Leaders : ~ (a < b /\ b < EndOf(a))
<1> DEFINE later == {b \in Leaders : b > a}
<1>1. a \in Nat /\ a <= Size - 1 /\ Size \in Nat /\ \A b \in Leaders : b \in Nat /\ b <= Size - 1
  BY LeadersAre, Sizes
<1>2. CASE later = {}
  <2>1. {b \in Cells : b >= a} = a .. Size - 1
    BY <1>1, Sizes
  <2>2. Cardinality(a .. Size - 1) = Size - a
    <3>1. Cardinality(a .. Size - 1) = IF a > Size - 1 THEN 0 ELSE (Size - 1) - a + 1
      BY <1>1, FS_Interval
    <3> QED
      BY <1>1, <3>1
  <2>3. EndOf(a) = a + Cardinality({b \in Cells : b >= a})
    BY <1>2 DEF EndOf
  <2>4. EndOf(a) = a + (Size - a)
    BY <2>1, <2>2, <2>3
  <2>5. EndOf(a) = Size
    BY <1>1, <2>4
  <2> QED
    BY <1>1, <1>2, <2>5
<1>3. CASE later # {}
  <2>1. EndOf(a) = FirstCell(later)
    BY <1>3 DEF EndOf
  <2>2. FirstCell(later) \in later /\ \A y \in later : FirstCell(later) <= y
    BY <1>1, <1>3, FirstIs
  <2>3. PICK e \in later : e = EndOf(a) /\ \A y \in later : e <= y
    BY <2>1, <2>2
  <2>4. e \in Leaders /\ e > a /\ e \in Nat /\ e <= Size
    BY <1>1, <2>3
  <2>5. \A b \in Leaders : ~ (a < b /\ b < e)
    BY <1>1, <2>3, <2>4
  <2> QED
    BY <2>3, <2>4, <2>5
<1> QED
  BY <1>2, <1>3

BlockInv ==
  /\ run \in [on : BOOLEAN, at : Nat, end : Nat, target : Int]
  /\ run.on =>
       /\ run.end <= Size /\ run.end > 0 /\ run.end \in Leaders \cup {Size}
       /\ run.target = NoTarget =>
            /\ run.at <= run.end /\ run.at \notin DelaySlots(image)
            /\ run.at < run.end =>
                 /\ image[run.at].op # "stub"
                 /\ \A b \in Leaders : ~ (run.at < b /\ b < run.end)
       /\ run.target # NoTarget =>
            /\ run.at < run.end /\ run.at \in DelaySlots(image)
            /\ run.target \in Nat /\ run.target >= Base

HybridInv == Loadable /\ cpu \in State /\ BlockInv /\ Aligned(image, Seen)

(* Where the processor is. *)
LEMMA SeenIs ==
  ASSUME HybridInv
  PROVE  /\ ~run.on => Seen = Linked(cpu)
         /\ run.on /\ run.target = NoTarget =>
              Seen = At(run.at + Base, run.at + Base + 1, cpu)
         /\ run.on /\ run.target # NoTarget =>
              Seen = At(run.at + Base, run.target, cpu)
         /\ Seen \in State
<1>1. /\ cpu \in State /\ cpu.pc \in Nat /\ cpu.next \in Nat /\ Base \in Nat
      /\ run.at \in Nat /\ run.target \in Int
  BY Sizes DEF HybridInv, BlockInv, State
<1>2. Seen = At(ThePc, TheNext, cpu)
  <2>1. ThePc \in Nat /\ TheNext \in Nat
    BY DEF HybridInv, Aligned, Seen, State
  <2> QED
    BY <1>1, <2>1, AtIs DEF Seen
<1>3. Linked(cpu) = At(LinkAddress(cpu.pc), LinkAddress(cpu.next), cpu)
  BY <1>1 DEF Linked, At, State
<1>4. run.on /\ run.target # NoTarget => LinkAddress(run.target) = run.target
  BY Links DEF HybridInv, BlockInv
<1> QED
  BY <1>2, <1>3, <1>4 DEF ThePc, TheNext, HybridInv, Aligned

(* An instruction in a block or in the interpreter. *)
LEMMA StepIs ==
  ASSUME HybridInv, Running, Seen.pc - Base \in Cells,
         Seen' = After(image, Seen), UNCHANGED <<image, status>>,
         cpu' \in State, BlockInv'
  PROVE  HybridInv' /\ Processor!ANext
<1>1. Seen.pc = ThePc
  BY DEF Seen
<1>2. Processor!ANext
  BY <1>1, AfterIsAStep DEF HybridInv, Loadable
<1>3. Aligned(image, After(image, Seen))
  BY AfterAligned DEF HybridInv, Loadable
<1>4. Aligned(image, Seen)'
  BY <1>3
<1>5. Loadable'
  BY DEF HybridInv, Loadable
<1> QED
  BY <1>2, <1>4, <1>5 DEF HybridInv

(* A step of the dispatcher alone. *)
LEMMA StutterIs ==
  ASSUME HybridInv, Seen' = Seen, UNCHANGED <<image, status>>, cpu' \in State, BlockInv'
  PROVE  HybridInv' /\ UNCHANGED Processor!avars
<1>1. /\ ThePc' = ThePc /\ TheNext' = TheNext /\ cpu'.flag = cpu.flag
      /\ cpu'.ra = cpu.ra /\ cpu'.fp = cpu.fp
  BY DEF Seen
<1>2. Aligned(image, Seen)'
  BY DEF HybridInv
<1>3. Loadable'
  BY DEF HybridInv, Loadable
<1> QED
  BY <1>1, <1>2, <1>3 DEF HybridInv, Processor!avars

(* The end of a block. *)
LEMMA LeaveAtIs ==
  ASSUME HybridInv, NEW a \in Nat, a # 0, a + 1 < Base \/ a >= Base,
         NEW c \in State, LeaveAt(a, c)
  PROVE  /\ Seen' = At(LinkAddress(a), LinkAddress(a) + 1, c)
         /\ cpu' \in State /\ BlockInv' /\ UNCHANGED <<image, status>> /\ run' = Outside
<1>1. /\ cpu' = [c EXCEPT !.pc = a, !.next = a + 1]
      /\ run' = Outside /\ UNCHANGED <<image, status>>
  BY DEF LeaveAt
<1>2. ~run'.on /\ run' \in [on : BOOLEAN, at : Nat, end : Nat, target : Int]
  BY <1>1 DEF Outside, NoTarget
<1>3. BlockInv'
  BY <1>2 DEF BlockInv
<1>4. cpu' \in State /\ cpu'.pc = a /\ cpu'.next = a + 1 /\ cpu'.flag = c.flag
      /\ cpu'.ra = c.ra /\ cpu'.fp = c.fp
  <2>1. cpu' = At(a, a + 1, c)
    BY <1>1 DEF At
  <2>2. a + 1 \in Nat
    OBVIOUS
  <2> QED
    BY <2>1, <2>2, AtIs
<1>5. LinkAddress(a + 1) = LinkAddress(a) + 1
  BY Sizes DEF LinkAddress
<1>6. ThePc' = LinkAddress(a) /\ TheNext' = LinkAddress(a) + 1
  BY <1>2, <1>4, <1>5 DEF ThePc, TheNext, LinkAddress
<1>7. Seen' = [pc |-> LinkAddress(a), next |-> LinkAddress(a) + 1, flag |-> c.flag,
               ra |-> c.ra, fp |-> c.fp]
  BY <1>4, <1>6 DEF Seen
<1>8. Seen' = At(LinkAddress(a), LinkAddress(a) + 1, c)
  <2>1. LinkAddress(a) \in Nat /\ LinkAddress(a) + 1 \in Nat
    BY Links
  <2> QED
    BY <1>7, <2>1, AtIs
<1> QED
  BY <1>1, <1>3, <1>4, <1>8

-----------------------------------------------------------------------------
(* The dispatcher *)

LEMMA InterpretSteps ==
  ASSUME HybridInv, Interpret
  PROVE  HybridInv' /\ Processor!ANext
<1> DEFINE c == [cpu EXCEPT !.pc = Here]
<1>1. /\ Running /\ ~run.on /\ InProgram(Here)
      /\ cpu' = Interpreted(c) /\ UNCHANGED <<image, run, status>>
  BY DEF Interpret, Dispatches
<1>2. Seen = Linked(cpu) /\ Seen \in State /\ cpu \in State
  BY <1>1, SeenIs DEF HybridInv
<1>3. Seen.pc = Here /\ Here \in Nat /\ Here >= Base
  BY <1>2, Sizes DEF Linked, State, Here, HybridInv, Aligned
<1>4. LinkAddress(Here) = Here /\ c \in State /\ c.pc = Here
  BY <1>2, <1>3, Links DEF State
<1>5. Linked(c) = Linked(cpu)
  BY <1>2, <1>3, <1>4 DEF Linked, State, Here
<1>6. cpu' \in State /\ Linked(cpu') = After(image, Seen)
  <2>1. Aligned(image, Linked(c)) /\ LinkAddress(c.pc) - Base \in Cells
    BY <1>1, <1>2, <1>4, <1>5 DEF HybridInv, InProgram
  <2> HIDE DEF c
  <2> QED
    BY <1>1, <1>2, <1>4, <1>5, <2>1, InterpretedIs DEF HybridInv, Loadable
<1>7. Seen' = Linked(cpu')
  <2>1. Linked(cpu') = At(LinkAddress(cpu'.pc), LinkAddress(cpu'.next), cpu')
    BY <1>6 DEF Linked, At, State
  <2>2. ThePc' = LinkAddress(cpu'.pc) /\ TheNext' = LinkAddress(cpu'.next)
    BY <1>1 DEF ThePc, TheNext, LinkAddress
  <2>3. LinkAddress(cpu'.pc) \in Nat /\ LinkAddress(cpu'.next) \in Nat
    BY <1>6, Links DEF State
  <2>4. Seen' = At(LinkAddress(cpu'.pc), LinkAddress(cpu'.next), cpu')
    BY <1>6, <2>2, <2>3, AtIs DEF Seen
  <2> QED
    BY <2>1, <2>4
<1>8. BlockInv'
  BY <1>1 DEF HybridInv, BlockInv
<1> QED
  BY <1>1, <1>3, <1>6, <1>7, <1>8, StepIs DEF InProgram

LEMMA EnterBlockStutters ==
  ASSUME HybridInv, EnterBlock
  PROVE  HybridInv' /\ UNCHANGED Processor!avars
<1> DEFINE a == Here - Base
<1>1. /\ ~run.on /\ a \in Leaders /\ image[a].op # "stub"
      /\ run' = [on |-> TRUE, at |-> a, end |-> EndOf(a), target |-> NoTarget]
      /\ UNCHANGED <<image, cpu, status>>
  BY DEF EnterBlock, Dispatches, UsesInterpreter
<1>2. /\ a \in Cells /\ a \notin DelaySlots(image) /\ a \in Nat
      /\ EndOf(a) \in Leaders \cup {Size} /\ EndOf(a) \in Nat
      /\ a < EndOf(a) /\ EndOf(a) <= Size
      /\ \A b \in Leaders : ~ (a < b /\ b < EndOf(a))
  BY <1>1, LeadersAre, EndIs, Sizes DEF HybridInv
<1>3. Seen = Linked(cpu) /\ cpu \in State /\ Seen.pc = Here /\ Here \in Nat
  BY <1>1, SeenIs DEF HybridInv, Seen, ThePc, Here, Linked, State
<1>4. Seen.pc - Base = a /\ Here = a + Base
  BY <1>3, Sizes
<1> HIDE DEF a
<1>5. Seen.next = a + Base + 1
  BY <1>2, <1>3, <1>4 DEF HybridInv, Aligned
<1>6. ThePc' = ThePc /\ TheNext' = TheNext
  BY <1>1, <1>3, <1>4, <1>5 DEF ThePc, TheNext, Seen
<1>7. Seen' = Seen
  BY <1>1, <1>6 DEF Seen
<1>8. Leaders' = Leaders
  BY <1>1 DEF Leaders
<1>9. BlockInv'
  BY <1>1, <1>2, <1>8 DEF BlockInv, NoTarget
<1> QED
  BY <1>1, <1>3, <1>7, <1>9, StutterIs

(* The traps at which no program word is. *)
LEMMA TrapSteps ==
  ASSUME HybridInv, DispatchTrap \/ EndThread \/ LeaveProgram
  PROVE  HybridInv' /\ Processor!ANext
<1>1. /\ Running /\ ~run.on /\ UNCHANGED <<image, run>>
  BY DEF DispatchTrap, EndThread, LeaveProgram, Dispatches
<1>2. cpu \in State /\ ThePc = Here
  BY <1>1 DEF ThePc, Here, HybridInv
<1>3. BlockInv' /\ Loadable'
  BY <1>1 DEF HybridInv, BlockInv, Loadable
<1>4. CASE DispatchTrap
  <2>1. /\ ThePc = DataWord /\ status' = status
        /\ cpu' = At(EndTrap, EndTrap + 1, cpu)
    BY <1>2, <1>4 DEF DispatchTrap, At
  <2>2. EndTrap \in Nat /\ EndTrap + 1 \in Nat /\ EndTrap >= Base /\ EndTrap + 1 >= Base
        /\ EndTrap - Base \notin Cells
    BY Sizes
  <2>3. /\ cpu' \in State /\ cpu'.pc = EndTrap /\ cpu'.next = EndTrap + 1
        /\ cpu'.flag = cpu.flag /\ cpu'.ra = cpu.ra /\ cpu'.fp = cpu.fp
    BY <1>2, <2>1, <2>2, AtIs
  <2>4. ThePc' = EndTrap /\ TheNext' = EndTrap + 1
    BY <1>1, <2>2, <2>3, Sizes DEF ThePc, TheNext, LinkAddress
  <2>5. Processor!JumpToData
    BY <1>1, <2>1, <2>3, <2>4 DEF Processor!JumpToData, Processor!Goes, Processor!Running, Running
  <2>6. Aligned(image, Seen)'
    <3>1. /\ Seen'.pc = EndTrap /\ Seen'.next = EndTrap + 1 /\ Seen' \in State
          /\ Seen'.ra = Seen.ra /\ Seen'.fp = Seen.fp
      BY <2>2, <2>3, <2>4 DEF Seen, State
    <3>2. Seen'.pc - Base \notin DelaySlots(image)
      BY <2>2, <3>1 DEF DelaySlots
    <3> QED
      BY <1>1, <2>2, <3>1, <3>2 DEF HybridInv, Aligned
  <2> QED
    BY <1>3, <2>3, <2>5, <2>6 DEF HybridInv, Processor!ANext
<1>5. CASE EndThread \/ LeaveProgram
  <2>1. cpu' = cpu
    BY <1>5 DEF EndThread, LeaveProgram
  <2>2. ThePc' = ThePc /\ TheNext' = TheNext /\ Seen' = Seen
    BY <1>1, <2>1 DEF ThePc, TheNext, Seen
  <2>3. Processor!EndThread \/ Processor!LeaveProgram
    BY <1>1, <1>2, <1>5, <2>1, <2>2
    DEF EndThread, LeaveProgram, InProgram, Processor!EndThread, Processor!LeaveProgram,
        Processor!Loaded, Processor!Running, Running
  <2>4. Aligned(image, Seen)'
    BY <1>1, <2>2 DEF HybridInv
  <2> QED
    BY <1>2, <1>3, <2>1, <2>3, <2>4 DEF HybridInv, Processor!ANext
<1> QED
  BY <1>4, <1>5

-----------------------------------------------------------------------------
(* Blocks at work *)

(* A block before an instruction. *)
LEMMA InsideIs ==
  ASSUME HybridInv, NEW ops, Inside(ops)
  PROVE  /\ Running /\ run.on /\ run.target = NoTarget
         /\ run.at \in Cells /\ run.at \in Nat /\ run.at + 2 <= Size + 1
         /\ run.at < run.end /\ run.end \in Nat
         /\ image[run.at].op \in ops /\ image[run.at].op # "stub"
         /\ image[run.at] \in Instruction
         /\ cpu \in State
         /\ Seen = At(run.at + Base, run.at + Base + 1, cpu)
         /\ Seen.pc = run.at + Base /\ Seen.next = run.at + Base + 1
         /\ Seen.flag = cpu.flag /\ Seen.ra = cpu.ra /\ Seen.fp = cpu.fp
         /\ Seen \in State /\ Seen.pc - Base = run.at
<1>1. /\ Running /\ run.on /\ run.target = NoTarget
      /\ run.at < run.end /\ CompiledOp(run.at) \in ops
  BY DEF Inside
<1>2. run.at \in Nat /\ run.end \in Nat /\ run.end <= Size /\ image[run.at].op # "stub"
  BY <1>1 DEF HybridInv, BlockInv
<1>3. run.at \in Cells /\ run.at + 2 <= Size + 1 /\ (run.at + Base) - Base = run.at
  BY <1>1, <1>2, Sizes
<1>4. image[run.at].op \in ops
  BY <1>1, <1>2 DEF CompiledOp
<1>5. Seen = At(run.at + Base, run.at + Base + 1, cpu) /\ Seen \in State
  BY <1>1, SeenIs
<1>6. /\ Seen.pc = run.at + Base /\ Seen.next = run.at + Base + 1
      /\ Seen.flag = cpu.flag /\ Seen.ra = cpu.ra /\ Seen.fp = cpu.fp
  BY <1>1 DEF Seen, ThePc, TheNext
<1> QED
  BY <1>1, <1>2, <1>3, <1>4, <1>5, <1>6 DEF HybridInv, Loadable

(* The links that translated code holds as constants. *)
LEMMA BehindIs ==
  ASSUME NEW a \in Nat, a + 2 <= Size + 1
  PROVE  Behind(a) = a + Base + 2 /\ Behind(a) \in Nat /\ Behind(a) >= Base
BY Sizes DEF Behind, LinkAddress

LEMMA RunNativeSteps ==
  ASSUME HybridInv, RunNative
  PROVE  HybridInv' /\ Processor!ANext
<1> DEFINE a == run.at
<1>1. /\ Running /\ run.on /\ run.target = NoTarget
      /\ a \in Cells /\ a \in Nat /\ a < run.end /\ run.end \in Nat
      /\ image[a].op \in {"int", "swap"} /\ cpu \in State /\ Seen \in State
      /\ Seen = At(a + Base, a + Base + 1, cpu) /\ Seen.pc - Base = a
      /\ Seen.next = a + Base + 1
  BY InsideIs DEF RunNative
<1>2. /\ cpu' = Native(a, cpu) /\ run' = [run EXCEPT !.at = a + 1]
      /\ UNCHANGED <<image, status>>
  BY DEF RunNative
<1>3. /\ run'.on /\ run'.target = NoTarget /\ run'.at = a + 1 /\ run'.end = run.end
      /\ run' \in [on : BOOLEAN, at : Nat, end : Nat, target : Int]
  BY <1>1, <1>2 DEF HybridInv, BlockInv
<1>4. cpu' \in State
  BY <1>1, <1>2 DEF Native, State
<1>5. ThePc' = Seen.next /\ TheNext' = Seen.next + 1
  BY <1>1, <1>3, Sizes DEF ThePc, TheNext
<1>6. Seen' = At(Seen.next, Seen.next + 1, cpu')
  <2>1. Seen.next \in Nat /\ Seen.next + 1 \in Nat
    BY <1>1, Sizes
  <2>2. Seen' = [pc |-> Seen.next, next |-> Seen.next + 1, flag |-> cpu'.flag,
                 ra |-> cpu'.ra, fp |-> cpu'.fp]
    BY <1>5 DEF Seen
  <2> QED
    BY <1>4, <2>1, <2>2, AtIs
<1>7. Seen' = After(image, Seen)
  <2>1. CASE image[a].op = "int"
    <3>1. After(image, Seen) = [GoesOn(Seen) EXCEPT !.flag = ~@]
      BY <1>1, <2>1 DEF After
    <3>2. cpu' = [cpu EXCEPT !.flag = ~@]
      BY <1>2, <2>1 DEF Native
    <3> QED
      BY <1>1, <1>6, <3>1, <3>2 DEF GoesOn, At, State
  <2>2. CASE image[a].op = "swap"
    <3>1. After(image, Seen) = [GoesOn(Seen) EXCEPT !.ra = Seen.fp, !.fp = Seen.ra]
      BY <1>1, <2>2 DEF After
    <3>2. cpu' = [cpu EXCEPT !.ra = cpu.fp, !.fp = cpu.ra]
      BY <1>2, <2>2 DEF Native
    <3> QED
      BY <1>1, <1>6, <3>1, <3>2 DEF GoesOn, At, State
  <2> QED
    BY <1>1, <2>1, <2>2
<1>8. BlockInv'
  <2>1. a + 1 \notin DelaySlots(image)
    <3>1. image[a].op \in Straight
      BY <1>1 DEF Straight
    <3> QED
      BY <1>1, <3>1, Slot DEF HybridInv, Loadable
  <2>2. /\ run.end <= Size /\ run.end > 0 /\ run.end \in Leaders \cup {Size}
        /\ \A b \in Leaders : ~ (a < b /\ b < run.end)
    BY <1>1 DEF HybridInv, BlockInv
  <2>3. \A b \in Leaders : ~ (a + 1 < b /\ b < run.end)
    <3>1. \A b \in Leaders : b \in Nat
      BY LeadersAre, Sizes DEF HybridInv
    <3> QED
      BY <1>1, <2>2, <3>1
  <2>4. a + 1 < run.end => image[a + 1].op # "stub"
    <3>1. ASSUME a + 1 < run.end, image[a + 1].op = "stub" PROVE FALSE
      <4>1. a + 1 \in Cells
        BY <1>1, <2>2, <3>1, Sizes
      <4>2. a + 1 \in Leaders
        BY <3>1, <4>1, LeadersAre DEF HybridInv
      <4> QED
        BY <1>1, <2>2, <3>1, <4>2
    <3> QED
      BY <3>1
  <2>5. Leaders' = Leaders
    BY <1>2 DEF Leaders
  <2>6. a + 1 <= run.end
    BY <1>1
  <2> QED
    BY <1>2, <1>3, <2>1, <2>2, <2>3, <2>4, <2>5, <2>6 DEF BlockInv
<1> QED
  BY <1>1, <1>2, <1>4, <1>7, <1>8, StepIs

LEMMA FallThroughStutters ==
  ASSUME HybridInv, FallThrough
  PROVE  HybridInv' /\ UNCHANGED Processor!avars
<1>1. /\ Running /\ run.on /\ run.at = run.end /\ LeaveAt(run.end, cpu) /\ cpu \in State
      /\ run.end \in Nat /\ run.end > 0 /\ run.end <= Size
  BY DEF FallThrough, HybridInv, BlockInv
<1>2. run.target = NoTarget
  BY <1>1 DEF HybridInv, BlockInv
<1>3. run.end # 0 /\ run.end + 1 < Base
  BY <1>1, Sizes
<1>4. /\ Seen' = At(LinkAddress(run.end), LinkAddress(run.end) + 1, cpu)
      /\ cpu' \in State /\ BlockInv' /\ UNCHANGED <<image, status>>
  BY <1>1, <1>3, LeaveAtIs
<1>5. LinkAddress(run.end) = run.at + Base
  BY <1>1, <1>3, Sizes DEF LinkAddress
<1>6. Seen = At(run.at + Base, run.at + Base + 1, cpu)
  BY <1>1, <1>2, SeenIs
<1> QED
  BY <1>4, <1>5, <1>6, StutterIs

(* An instruction that the block hands to the interpreter runs at link     *)
(* addresses, and once.                                                    *)
LEMMA FallBackSteps ==
  ASSUME HybridInv, FallBack
  PROVE  HybridInv' /\ Processor!ANext
<1> DEFINE a == run.at
           c == [cpu EXCEPT !.pc = a, !.next = a + 1]
<1>1. /\ Running /\ run.on /\ run.target = NoTarget
      /\ a \in Cells /\ a \in Nat /\ a + 2 <= Size + 1
      /\ image[a].op \in Untranslated /\ cpu \in State /\ Seen \in State
      /\ Seen = At(a + Base, a + Base + 1, cpu) /\ Seen.pc - Base = a
      /\ Seen.pc = a + Base
  BY InsideIs DEF FallBack
<1>2. cpu' = Interpreted(c) /\ run' = Outside /\ UNCHANGED <<image, status>>
  BY DEF FallBack
<1>3. a # 0
  BY <1>1 DEF HybridInv, Loadable, NothingAtZero
<1>4. LinkAddress(a) = a + Base /\ LinkAddress(a + 1) = a + Base + 1
  BY <1>1, <1>3, Sizes DEF LinkAddress
<1>5. c \in State /\ c.pc = a /\ c.next = a + 1
  <2>1. c = At(a, a + 1, cpu)
    BY DEF At
  <2>2. a \in Nat /\ a + 1 \in Nat /\ cpu \in State
    BY <1>1
  <2> HIDE DEF c
  <2> QED
    BY <2>1, <2>2, AtIs
<1>6. Linked(c) = Seen
  BY <1>1, <1>4, <1>5 DEF Linked, At, State
<1> HIDE DEF c
<1>7. cpu' \in State /\ Linked(cpu') = After(image, Seen)
  <2>1. Aligned(image, Linked(c)) /\ LinkAddress(c.pc) - Base \in Cells
    BY <1>1, <1>4, <1>5, <1>6 DEF HybridInv
  <2> QED
    BY <1>2, <1>5, <1>6, <2>1, InterpretedIs DEF HybridInv, Loadable
<1>8. Seen' = Linked(cpu')
  <2>1. Linked(cpu') = At(LinkAddress(cpu'.pc), LinkAddress(cpu'.next), cpu')
    BY <1>7 DEF Linked, At, State
  <2>2. ThePc' = LinkAddress(cpu'.pc) /\ TheNext' = LinkAddress(cpu'.next)
    BY <1>2 DEF ThePc, TheNext, LinkAddress, Outside
  <2>3. LinkAddress(cpu'.pc) \in Nat /\ LinkAddress(cpu'.next) \in Nat
    BY <1>7, Links DEF State
  <2>4. Seen' = At(LinkAddress(cpu'.pc), LinkAddress(cpu'.next), cpu')
    BY <1>7, <2>2, <2>3, AtIs DEF Seen
  <2> QED
    BY <2>1, <2>4
<1>9. BlockInv'
  BY <1>2 DEF BlockInv, Outside, NoTarget
<1> QED
  BY <1>1, <1>2, <1>7, <1>8, <1>9, StepIs

(* A jump in a block: its target is one that the processor takes.          *)
LEMMA JumpIs ==
  ASSUME HybridInv, NEW ops, Inside(ops), image[run.at].op \in Jumps,
         NEW target \in Nat, target >= Base,
         NEW c \in State, Jump(target, c)
  PROVE  /\ Seen' = At(run.at + Base + 1, target, c)
         /\ cpu' \in State /\ BlockInv' /\ UNCHANGED <<image, status>>
<1> DEFINE a == run.at
<1>1. /\ run.on /\ run.target = NoTarget
      /\ a \in Cells /\ a \in Nat /\ a < run.end /\ run.end \in Nat
  BY InsideIs
<1>2. a + 1 \in Cells /\ a + 1 \in DelaySlots(image)
  BY <1>1, Slot DEF HybridInv, Loadable
<1>3. a + 1 < run.end
  <2>1. run.end \in Leaders \cup {Size} /\ Leaders \cap DelaySlots(image) = {}
    BY <1>1, LeadersAre DEF HybridInv, BlockInv
  <2>2. a + 1 # Size
    BY <1>1, <1>2, Sizes
  <2>3. run.end # a + 1
    BY <1>2, <2>1, <2>2
  <2> QED
    BY <1>1, <2>3
<1>4. /\ cpu' = c /\ run' = [run EXCEPT !.at = a + 1, !.target = target]
      /\ UNCHANGED <<image, status>>
  BY <1>3 DEF Jump
<1>5. /\ run'.on /\ run'.at = a + 1 /\ run'.end = run.end /\ run'.target = target
      /\ run' \in [on : BOOLEAN, at : Nat, end : Nat, target : Int]
  <2>1. run \in [on : BOOLEAN, at : Nat, end : Nat, target : Int]
    BY DEF HybridInv, BlockInv
  <2>2. target \in Int /\ a + 1 \in Nat
    BY <1>1
  <2> HIDE DEF a
  <2> QED
    BY <1>1, <1>4, <2>1, <2>2
<1>6. target # NoTarget
  BY DEF NoTarget
<1>7. Leaders' = Leaders
  BY <1>4 DEF Leaders
<1>8. BlockInv'
  <2>1. run.end <= Size /\ run.end > 0 /\ run.end \in Leaders \cup {Size}
    BY <1>1 DEF HybridInv, BlockInv
  <2> QED
    BY <1>2, <1>3, <1>4, <1>5, <1>6, <1>7, <2>1 DEF BlockInv
<1>9. ThePc' = a + Base + 1 /\ TheNext' = target
  BY <1>1, <1>5, <1>6, Sizes DEF ThePc, TheNext, LinkAddress
<1>10. Seen' = [pc |-> a + Base + 1, next |-> target, flag |-> c.flag, ra |-> c.ra,
                fp |-> c.fp]
  BY <1>4, <1>9 DEF Seen
<1>11. a + Base + 1 \in Nat
  BY <1>1, Sizes
<1> QED
  BY <1>4, <1>8, <1>10, <1>11, AtIs

(* After a jump the processor is in the delay slot. *)
LEMMA JumpStep ==
  ASSUME HybridInv, NEW ops, Inside(ops), image[run.at].op \in Jumps,
         NEW target \in Nat, target >= Base,
         NEW c \in State, Jump(target, c),
         After(image, Seen) = [JumpsTo(target, Seen) EXCEPT !.ra = c.ra],
         c.flag = cpu.flag, c.fp = cpu.fp
  PROVE  HybridInv' /\ Processor!ANext
<1>1. /\ Running /\ run.at \in Cells /\ run.at \in Nat
      /\ Seen \in State /\ Seen.pc - Base = run.at /\ Seen.next = run.at + Base + 1
      /\ Seen.flag = cpu.flag /\ Seen.fp = cpu.fp
  BY InsideIs
<1>2. /\ Seen' = At(run.at + Base + 1, target, c)
      /\ cpu' \in State /\ BlockInv' /\ UNCHANGED <<image, status>>
  BY JumpIs
<1>3. Seen.next \in Nat
  BY <1>1 DEF State
<1>4. At(run.at + Base + 1, target, c) = [JumpsTo(target, Seen) EXCEPT !.ra = c.ra]
  <2>1. /\ JumpsTo(target, Seen) =
             [pc |-> Seen.next, next |-> target, flag |-> Seen.flag, ra |-> Seen.ra,
              fp |-> Seen.fp]
        /\ At(Seen.next, target, c) =
             [pc |-> Seen.next, next |-> target, flag |-> c.flag, ra |-> c.ra, fp |-> c.fp]
    BY <1>1, <1>3, AtIs DEF JumpsTo
  <2>2. [JumpsTo(target, Seen) EXCEPT !.ra = c.ra] =
             [pc |-> Seen.next, next |-> target, flag |-> Seen.flag, ra |-> c.ra,
              fp |-> Seen.fp]
    BY <2>1
  <2> QED
    BY <1>1, <2>1, <2>2
<1>5. Seen' = After(image, Seen)
  BY <1>2, <1>4
<1> QED
  BY <1>1, <1>2, <1>5, StepIs

LEMMA RunBranchSteps ==
  ASSUME HybridInv, RunBranch
  PROVE  HybridInv' /\ Processor!ANext
<1> DEFINE a == run.at
           target == IF cpu.flag THEN LinkAddress(image[a].to) ELSE Behind(a)
<1>1. Inside({"branch"}) /\ Jump(target, cpu)
  BY DEF RunBranch
<1>2. /\ image[a].op = "branch" /\ a \in Cells /\ a \in Nat /\ a + 2 <= Size + 1
      /\ image[a] \in Instruction /\ cpu \in State /\ Seen \in State
      /\ Seen.pc - Base = a /\ Seen.next = a + Base + 1
      /\ Seen.flag = cpu.flag /\ Seen.ra = cpu.ra
  BY <1>1, InsideIs
<1>3. LinkAddress(image[a].to) = Base + image[a].to /\ image[a].to \in Nat
  <2>1. image[a].to # 0 /\ image[a].to \in Cells
    BY <1>2 DEF HybridInv, Loadable, NothingAtZero, Instruction
  <2> QED
    BY <2>1, Sizes DEF LinkAddress
<1>4. Behind(a) = Seen.next + 1 /\ Behind(a) \in Nat /\ Behind(a) >= Base
  BY <1>2, BehindIs, Sizes
<1>5. target \in Nat /\ target >= Base
  BY <1>3, <1>4, Sizes
<1>6. After(image, Seen) = JumpsTo(target, Seen)
  BY <1>2, <1>3, <1>4 DEF After
<1> HIDE DEF target
<1>7. JumpsTo(target, Seen) = [JumpsTo(target, Seen) EXCEPT !.ra = cpu.ra]
  <2>1. Seen.next \in Nat
    BY <1>2 DEF State
  <2>2. JumpsTo(target, Seen) =
          [pc |-> Seen.next, next |-> target, flag |-> Seen.flag, ra |-> Seen.ra,
           fp |-> Seen.fp]
    BY <1>2, <1>5, <2>1, AtIs DEF JumpsTo
  <2> QED
    BY <1>2, <2>2
<1> QED
  BY <1>1, <1>2, <1>5, <1>6, <1>7, JumpStep DEF Jumps

LEMMA RunLikelySteps ==
  ASSUME HybridInv, RunLikely
  PROVE  HybridInv' /\ Processor!ANext
<1> DEFINE a == run.at
<1>1. /\ Inside({"likely"})
      /\ IF cpu.flag THEN Jump(LinkAddress(image[a].to), cpu) ELSE LeaveAt(Behind(a), cpu)
  BY DEF RunLikely
<1>2. /\ image[a].op = "likely" /\ a \in Cells /\ a \in Nat /\ a + 2 <= Size + 1
      /\ image[a] \in Instruction /\ cpu \in State /\ Seen \in State /\ Running
      /\ Seen.pc - Base = a /\ Seen.next = a + Base + 1 /\ Seen.pc = a + Base
      /\ Seen.flag = cpu.flag /\ Seen.ra = cpu.ra /\ Seen.fp = cpu.fp
  BY <1>1, InsideIs
<1>3. CASE cpu.flag
  <2> DEFINE target == LinkAddress(image[a].to)
  <2>1. target = Base + image[a].to /\ image[a].to \in Nat
    <3>1. image[a].to # 0 /\ image[a].to \in Cells
      BY <1>2 DEF HybridInv, Loadable, NothingAtZero, Instruction
    <3> QED
      BY <3>1, Sizes DEF LinkAddress
  <2>2. target \in Nat /\ target >= Base
    BY <2>1, Sizes
  <2>3. After(image, Seen) = JumpsTo(target, Seen)
    BY <1>2, <1>3, <2>1 DEF After
  <2>4. Jump(target, cpu)
    BY <1>1, <1>3
  <2> HIDE DEF target
  <2>5. JumpsTo(target, Seen) = [JumpsTo(target, Seen) EXCEPT !.ra = cpu.ra]
    <3>1. Seen.next \in Nat
      BY <1>2 DEF State
    <3>2. JumpsTo(target, Seen) =
            [pc |-> Seen.next, next |-> target, flag |-> Seen.flag, ra |-> Seen.ra,
             fp |-> Seen.fp]
      BY <1>2, <2>2, <3>1, AtIs DEF JumpsTo
    <3> QED
      BY <1>2, <3>2
  <2> QED
    BY <1>1, <1>2, <2>2, <2>3, <2>4, <2>5, JumpStep DEF Jumps
<1>4. CASE ~cpu.flag
  <2>1. Behind(a) = a + Base + 2 /\ Behind(a) \in Nat /\ Behind(a) >= Base /\ Behind(a) # 0
    BY <1>2, BehindIs, Sizes
  <2>2. /\ Seen' = At(Behind(a), Behind(a) + 1, cpu)
        /\ cpu' \in State /\ BlockInv' /\ UNCHANGED <<image, status>>
    <3>1. LeaveAt(Behind(a), cpu) /\ LinkAddress(Behind(a)) = Behind(a)
      BY <1>1, <1>4, <2>1, Links
    <3> QED
      BY <1>2, <2>1, <3>1, LeaveAtIs
  <2>3. After(image, Seen) = At(Behind(a), Behind(a) + 1, Seen)
    <3>1. After(image, Seen) = At(Seen.pc + 2, Seen.pc + 3, Seen)
      BY <1>2, <1>4 DEF After
    <3>2. Seen.pc + 2 = Behind(a) /\ Seen.pc + 3 = Behind(a) + 1
      BY <1>2, <2>1, Sizes
    <3> QED
      BY <3>1, <3>2
  <2>4. At(Behind(a), Behind(a) + 1, Seen) = At(Behind(a), Behind(a) + 1, cpu)
    <3> DEFINE b == Behind(a)
    <3>1. b \in Nat /\ b + 1 \in Nat
      BY <2>1
    <3> HIDE DEF b
    <3>2. /\ At(b, b + 1, cpu) = [pc |-> b, next |-> b + 1, flag |-> cpu.flag,
                                  ra |-> cpu.ra, fp |-> cpu.fp]
          /\ At(b, b + 1, Seen) = [pc |-> b, next |-> b + 1, flag |-> Seen.flag,
                                   ra |-> Seen.ra, fp |-> Seen.fp]
      BY <1>2, <3>1, AtIs
    <3>3. At(b, b + 1, Seen) = At(b, b + 1, cpu)
      BY <1>2, <3>2
    <3> QED
      BY <3>3 DEF b
  <2>5. Seen' = After(image, Seen)
    BY <2>2, <2>3, <2>4
  <2> QED
    BY <1>2, <2>2, <2>5, StepIs
<1> QED
  BY <1>3, <1>4

LEMMA RunCallSteps ==
  ASSUME HybridInv, RunCall
  PROVE  HybridInv' /\ Processor!ANext
<1> DEFINE a == run.at
           target == Base + image[a].to
           c == [cpu EXCEPT !.ra = Behind(a)]
<1>1. Inside({"call"}) /\ Jump(target, c)
  BY DEF RunCall
<1>2. /\ image[a].op = "call" /\ a \in Cells /\ a \in Nat /\ a + 2 <= Size + 1
      /\ image[a] \in Instruction /\ cpu \in State /\ Seen \in State
      /\ Seen.pc - Base = a /\ Seen.pc = a + Base
  BY <1>1, InsideIs
<1>3. target \in Nat /\ target >= Base
  <2>1. image[a].to \in Cells
    BY <1>2 DEF Instruction
  <2> QED
    BY <2>1, Sizes
<1>4. Behind(a) = Seen.pc + 2 /\ Behind(a) \in Nat
  BY <1>2, BehindIs, Sizes
<1>5. c \in State /\ c.ra = Behind(a) /\ c.flag = cpu.flag /\ c.fp = cpu.fp
  BY <1>2, <1>4 DEF State
<1>6. After(image, Seen) = [JumpsTo(target, Seen) EXCEPT !.ra = c.ra]
  BY <1>2, <1>4, <1>5 DEF After
<1> HIDE DEF target, c
<1> QED
  BY <1>1, <1>2, <1>3, <1>5, <1>6, JumpStep DEF Jumps

LEMMA RunCallPointerSteps ==
  ASSUME HybridInv, RunCallPointer
  PROVE  HybridInv' /\ Processor!ANext
<1> DEFINE a == run.at
           c == [cpu EXCEPT !.ra = Behind(a)]
<1>1. /\ Inside({"callp"})
      /\ Jump(IF cpu.fp = DataWord THEN Behind(a) ELSE cpu.fp, c)
  BY DEF RunCallPointer
<1>2. /\ image[a].op = "callp" /\ a \in Cells /\ a \in Nat /\ a + 2 <= Size + 1
      /\ cpu \in State /\ Seen \in State
      /\ Seen.pc - Base = a /\ Seen.pc = a + Base /\ Seen.fp = cpu.fp
  BY <1>1, InsideIs
<1>3. Behind(a) = Seen.pc + 2 /\ Behind(a) \in Nat
  BY <1>2, BehindIs, Sizes
<1>4. c \in State /\ c.ra = Behind(a) /\ c.flag = cpu.flag /\ c.fp = cpu.fp
  BY <1>2, <1>3 DEF State
<1>5. cpu.fp \in Nat /\ cpu.fp >= Base /\ cpu.fp # DataWord
  <2>1. CallsPointer(image)
    BY <1>2 DEF CallsPointer
  <2> QED
    BY <1>2, <2>1 DEF HybridInv, Aligned, Apart
<1>6. Jump(cpu.fp, c)
  BY <1>1, <1>5
<1>7. After(image, Seen) = [JumpsTo(cpu.fp, Seen) EXCEPT !.ra = c.ra]
  BY <1>2, <1>3, <1>4 DEF After
<1> HIDE DEF c
<1> QED
  BY <1>1, <1>2, <1>4, <1>5, <1>6, <1>7, JumpStep DEF Jumps

LEMMA RunReturnSteps ==
  ASSUME HybridInv, RunReturn
  PROVE  HybridInv' /\ Processor!ANext
<1> DEFINE a == run.at
<1>1. Inside({"ret"}) /\ Jump(cpu.ra, cpu)
  BY DEF RunReturn
<1>2. /\ image[a].op = "ret" /\ cpu \in State /\ Seen \in State
      /\ Seen.pc - Base = a /\ Seen.ra = cpu.ra
  BY <1>1, InsideIs
<1>3. cpu.ra \in Nat /\ cpu.ra >= Base
  BY <1>2 DEF HybridInv, Aligned, Apart
<1>4. After(image, Seen) = JumpsTo(cpu.ra, Seen)
  BY <1>2 DEF After
<1>5. JumpsTo(cpu.ra, Seen) = [JumpsTo(cpu.ra, Seen) EXCEPT !.ra = cpu.ra]
  <2>1. Seen.next \in Nat
    BY <1>2 DEF State
  <2>2. JumpsTo(cpu.ra, Seen) =
          [pc |-> Seen.next, next |-> cpu.ra, flag |-> Seen.flag, ra |-> Seen.ra,
           fp |-> Seen.fp]
    BY <1>2, <1>3, <2>1, AtIs DEF JumpsTo
  <2> QED
    BY <1>2, <2>2
<1> QED
  BY <1>1, <1>2, <1>3, <1>4, <1>5, JumpStep DEF Jumps

(* The instruction in the slot sees neither the jump nor its target.       *)
LEMMA RunDelaySlotSteps ==
  ASSUME HybridInv, RunDelaySlot
  PROVE  HybridInv' /\ Processor!ANext
<1> DEFINE a == run.at
           c == [cpu EXCEPT !.pc = a, !.next = a + 1]
           d == IF image[a].op \in Untranslated THEN Interpreted(c) ELSE Native(a, cpu)
<1>1. Running /\ run.on /\ run.target # NoTarget /\ LeaveAt(run.target, d)
  BY DEF RunDelaySlot
<1>2. /\ a \in DelaySlots(image) /\ a \in Nat /\ a \in Cells
      /\ run.target \in Nat /\ run.target >= Base /\ run.target # 0
  BY <1>1, Sizes DEF HybridInv, BlockInv, DelaySlots
<1>3. a > 0 /\ image[a].op \in Straight
  BY <1>2, Slot DEF HybridInv, Loadable
<1>4. /\ cpu \in State /\ Seen \in State /\ Seen = At(a + Base, run.target, cpu)
  BY <1>1, SeenIs DEF HybridInv
<1>5. /\ Seen.pc = a + Base /\ Seen.next = run.target /\ Seen.flag = cpu.flag
      /\ Seen.ra = cpu.ra /\ Seen.fp = cpu.fp
  BY <1>1, <1>2, Links DEF Seen, ThePc, TheNext
<1>6. Seen.pc - Base = a
  BY <1>2, <1>5, Sizes
<1>7. /\ d \in State
      /\ IF image[a].op = "swap" THEN d.flag = cpu.flag /\ d.ra = cpu.fp /\ d.fp = cpu.ra
                                 ELSE d.flag = ~cpu.flag /\ d.ra = cpu.ra /\ d.fp = cpu.fp
  <2>1. CASE image[a].op = "vfpu"
    <3>1. d = Interpreted(c)
      BY <2>1 DEF Untranslated
    <3>2. c \in State /\ c.pc = a /\ c.next = a + 1
      <4>1. c = At(a, a + 1, cpu)
        BY DEF At
      <4>2. a \in Nat /\ a + 1 \in Nat
        BY <1>2
      <4> HIDE DEF c
      <4> QED
        BY <1>4, <4>1, <4>2, AtIs
    <3>3. /\ c.flag = cpu.flag /\ c.ra = cpu.ra /\ c.fp = cpu.fp
      BY <1>4 DEF State
    <3>4. LinkAddress(a) = a + Base /\ LinkAddress(a + 1) \in Nat
      BY <1>2, <1>3, Sizes, Links DEF LinkAddress
    <3>5. Fetched(a + Base) = image[a]
      <4>1. (a + Base) - Base = a
        BY <1>2, Sizes
      <4> QED
        BY <1>2, <4>1 DEF Fetched
    <3> DEFINE n == LinkAddress(a + 1)
               moved == [c EXCEPT !.pc = n, !.next = n + 1]
    <3>6. moved \in State /\ moved.flag = c.flag /\ moved.ra = c.ra /\ moved.fp = c.fp
      <4>1. moved = At(n, n + 1, c)
        BY DEF At
      <4>2. n \in Nat /\ n + 1 \in Nat
        BY <3>4
      <4> HIDE DEF moved, n, c
      <4> QED
        BY <3>2, <4>1, <4>2, AtIs
    <3>7. Interpreted(c) = [moved EXCEPT !.flag = ~@]
      BY <2>1, <3>2, <3>4, <3>5 DEF Interpreted, Computed, Branched, Jumped
    <3> HIDE DEF moved, n, c, d
    <3> QED
      BY <2>1, <3>1, <3>3, <3>6, <3>7 DEF State
  <2>2. CASE image[a].op = "int"
    <3>1. d = [cpu EXCEPT !.flag = ~@]
      BY <2>2 DEF Native, Untranslated
    <3> HIDE DEF d
    <3> QED
      BY <1>4, <2>2, <3>1 DEF State
  <2>3. CASE image[a].op = "swap"
    <3>1. d = [cpu EXCEPT !.ra = cpu.fp, !.fp = cpu.ra]
      BY <2>3 DEF Native, Untranslated
    <3> HIDE DEF d
    <3> QED
      BY <1>4, <2>3, <3>1 DEF State
  <2> QED
    BY <1>3, <2>1, <2>2, <2>3 DEF Straight
<1> HIDE DEF c, d
<1>8. /\ Seen' = At(run.target, run.target + 1, d)
      /\ cpu' \in State /\ BlockInv' /\ UNCHANGED <<image, status>>
  <2>1. LinkAddress(run.target) = run.target
    BY <1>2, Links
  <2> QED
    BY <1>1, <1>2, <1>7, <2>1, LeaveAtIs
<1>9. At(run.target, run.target + 1, d) = After(image, Seen)
  <2> DEFINE n == run.target
  <2>1. n \in Nat /\ n + 1 \in Nat
    BY <1>2
  <2>2. /\ At(n, n + 1, d) =
             [pc |-> n, next |-> n + 1, flag |-> d.flag, ra |-> d.ra, fp |-> d.fp]
        /\ At(n, n + 1, Seen) =
             [pc |-> n, next |-> n + 1, flag |-> cpu.flag, ra |-> cpu.ra, fp |-> cpu.fp]
    <3> HIDE DEF n
    <3>1. At(n, n + 1, d) =
            [pc |-> n, next |-> n + 1, flag |-> d.flag, ra |-> d.ra, fp |-> d.fp]
      BY <1>7, <2>1, AtIs
    <3>2. At(n, n + 1, Seen) =
            [pc |-> n, next |-> n + 1, flag |-> Seen.flag, ra |-> Seen.ra, fp |-> Seen.fp]
      BY <1>4, <2>1, AtIs
    <3> QED
      BY <1>5, <3>1, <3>2
  <2>3. GoesOn(Seen) = At(n, n + 1, Seen)
    BY <1>5 DEF GoesOn
  <2> HIDE DEF n
  <2>4. CASE image[a].op = "swap"
    <3>1. After(image, Seen) = [GoesOn(Seen) EXCEPT !.ra = Seen.fp, !.fp = Seen.ra]
      BY <1>6, <2>4 DEF After
    <3>2. d = [cpu EXCEPT !.ra = cpu.fp, !.fp = cpu.ra]
      BY <2>4 DEF d, Native, Untranslated
    <3>3. cpu \in State /\ Seen = At(a + Base, n, cpu) /\ Seen.next = n
      BY <1>4, <1>5 DEF n
    <3>4. At(n, n + 1, d) = After(image, Seen)
      BY <3>1, <3>2, <3>3 DEF GoesOn, At, State
    <3> QED
      BY <3>4 DEF n
  <2>5. CASE image[a].op \in {"int", "vfpu"}
    <3>1. After(image, Seen) = [GoesOn(Seen) EXCEPT !.flag = ~@]
      BY <1>6, <2>5 DEF After
    <3>2. After(image, Seen) =
            [pc |-> n, next |-> n + 1, flag |-> ~cpu.flag, ra |-> cpu.ra, fp |-> cpu.fp]
      BY <2>2, <2>3, <3>1
    <3> QED
      BY <1>7, <2>2, <2>5, <3>2 DEF n
  <2> QED
    BY <1>3, <2>4, <2>5 DEF Straight
<1>10. Seen.pc - Base \in Cells /\ Seen' = After(image, Seen)
  BY <1>2, <1>6, <1>8, <1>9
<1> QED
  BY <1>1, <1>8, <1>10, StepIs

-----------------------------------------------------------------------------
(* The refinement *)

LEMMA HybridStarts ==
  ASSUME Disciplined, HInit
  PROVE  HybridInv /\ Processor!AInit
<1>1. Loadable
  BY DEF Disciplined, HInit, Loadable
<1>2. PICK a \in Cells \ DelaySlots(image), f \in BOOLEAN, p \in Pointers(image) :
        cpu = [pc |-> a + Base, next |-> a + Base + 1, flag |-> f, ra |-> EndTrap, fp |-> p]
  BY DEF HInit
<1>3. run = Outside /\ status = "running" /\ image \in Images
  BY DEF HInit
<1>4. a \in Nat /\ a \in Cells /\ (a + Base) - Base = a /\ a + Base \in Nat
      /\ a + Base + 1 \in Nat /\ a + Base >= Base /\ a + Base + 1 >= Base
  BY Sizes
<1>5. Apart(image, EndTrap) /\ EndTrap # DataWord
  <2>1. EndTrap \in Nat /\ EndTrap >= Base /\ EndTrap - Base \notin Cells
    BY Sizes
  <2> QED
    BY <2>1, Sizes DEF Apart, DelaySlots
<1>6. Apart(image, p) /\ (CallsPointer(image) => p # DataWord)
  <2>1. p \in {b + Base : b \in Cells \ DelaySlots(image)}
               \cup (IF CallsPointer(image) THEN {} ELSE {DataWord})
    BY <1>3 DEF Disciplined
  <2>2. ASSUME NEW b \in Cells \ DelaySlots(image), p = b + Base
        PROVE  Apart(image, p) /\ p # DataWord
    <3>1. b \in Nat /\ b <= Size - 1
      BY Sizes
    <3>2. p - Base = b /\ p \in Nat /\ p >= Base /\ p # DataWord
      BY <2>2, <3>1, Sizes
    <3> QED
      BY <3>2 DEF Apart
  <2>3. Apart(image, DataWord)
    <3>1. DataWord \in Nat /\ DataWord >= Base /\ DataWord - Base \notin Cells
      BY Sizes
    <3> QED
      BY <3>1 DEF Apart, DelaySlots
  <2> QED
    BY <2>1, <2>2, <2>3
<1>7. BlockInv
  BY <1>3 DEF BlockInv, Outside, NoTarget
<1>8. cpu \in State
  BY <1>2, <1>4, <1>5, <1>6 DEF State, Apart
<1>9. ThePc = a + Base /\ TheNext = a + Base + 1
  BY <1>2, <1>3, <1>4, Links DEF ThePc, TheNext, Outside
<1>10. Aligned(image, Seen)
  <2>1. /\ Seen = [pc |-> a + Base, next |-> a + Base + 1, flag |-> f, ra |-> EndTrap,
                   fp |-> p]
    BY <1>2, <1>9 DEF Seen
  <2>2. Seen \in State
    BY <1>4, <1>5, <1>6, <2>1 DEF State, Apart
  <2> QED
    BY <1>4, <1>5, <1>6, <2>1, <2>2 DEF Aligned
<1>11. Processor!AInit
  BY <1>3, <1>4, <1>9 DEF Processor!AInit, Processor!Running, Processor!Loaded
<1> QED
  BY <1>1, <1>7, <1>8, <1>10, <1>11 DEF HybridInv

LEMMA HybridSteps ==
  ASSUME HybridInv, [HNext]_hvars
  PROVE  HybridInv' /\ [Processor!ANext]_(Processor!avars)
<1>1. CASE DispatchTrap \/ EndThread \/ LeaveProgram
  BY <1>1, TrapSteps
<1>2. CASE Interpret
  BY <1>2, InterpretSteps
<1>3. CASE EnterBlock
  BY <1>3, EnterBlockStutters
<1>4. CASE RunNative
  BY <1>4, RunNativeSteps
<1>5. CASE FallThrough
  BY <1>5, FallThroughStutters
<1>6. CASE FallBack
  BY <1>6, FallBackSteps
<1>7. CASE RunBranch
  BY <1>7, RunBranchSteps
<1>8. CASE RunLikely
  BY <1>8, RunLikelySteps
<1>9. CASE RunCall
  BY <1>9, RunCallSteps
<1>10. CASE RunCallPointer
  BY <1>10, RunCallPointerSteps
<1>11. CASE RunReturn
  BY <1>11, RunReturnSteps
<1>12. CASE RunDelaySlot
  BY <1>12, RunDelaySlotSteps
<1>13. CASE UNCHANGED hvars
  <2>1. UNCHANGED <<image, cpu, run, status>>
    BY <1>13 DEF hvars
  <2>2. Seen' = Seen
    BY <2>1 DEF Seen, ThePc, TheNext
  <2>3. cpu' \in State /\ BlockInv'
    <3>1. Leaders' = Leaders
      BY <2>1 DEF Leaders
    <3> QED
      BY <2>1, <3>1 DEF HybridInv, BlockInv
  <2> QED
    BY <2>1, <2>2, <2>3, StutterIs
<1> QED
  BY <1>1, <1>2, <1>3, <1>4, <1>5, <1>6, <1>7, <1>8, <1>9, <1>10, <1>11, <1>12, <1>13
  DEF HNext

(* Whatever blocks the program is cut into and whatever mix of blocks and  *)
(* interpreted instructions the dispatcher chooses, the program runs as on *)
(* the processor, one instruction after the other (partition_blocks,       *)
(* translate_delay_slot, ppsspp_hybrid_dispatch, interpreter_step).        *)
THEOREM BlocksRunAsTheProcessor ==
  ASSUME Disciplined
  PROVE  HSpec => ImplementsAllegrex
<1>1. HInit => HybridInv /\ Processor!AInit
  BY HybridStarts
<1>2. HybridInv /\ [HNext]_hvars => HybridInv' /\ [Processor!ANext]_(Processor!avars)
  BY HybridSteps
<1> QED
  BY <1>1, <1>2, PTL DEF HSpec, ImplementsAllegrex, Processor!ASpec

==============================================================================
