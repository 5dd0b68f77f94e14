---------------------------- MODULE SyscallReturn ----------------------------
(***************************************************************************)
(* Where threads continue after a system call.  Programs reach a system    *)
(* call by a jump to an import stub, which the linker patched to a syscall *)
(* instruction and which all threads of a module share; every handler sets *)
(* the pc to the caller's return address before it may switch threads.     *)
(* The fallback of hle_syscall_impl sets it again, by comparing the pc     *)
(* before and after the call, when it may be another thread's by then.     *)
(***************************************************************************)
EXTENDS Scheduler

VARIABLE pc   \* of each slot's thread: the running one's is cpu->pc

rvars == <<threads, current, nextId, nextSeq, timed, dispatch, now, pc>>

(* The address of the one stub, and the address after the jump to it in    *)
(* the code of the thread with id i, which stands for all that code.       *)
Stub == -1
CodeOf(i) == i

(* Slot s was handed to a new thread, or its DORMANT thread was started:   *)
(* the pc is set to the thread's entry.                                    *)
Enters(s) ==
  \/ threads'[s].id # threads[s].id
  \/ threads[s].state = "DORMANT" /\ threads'[s].state # "DORMANT"

(* Mutant of Returned: the handler switches before it sets the pc. *)
ReturnedLate ==
  [s \in Slots |-> IF Enters(s) THEN CodeOf(threads'[s].id) ELSE pc[s]]

(* The pcs when a call has set cpu->pc to $ra, before it switches; threads *)
(* that begin do so in their own code.                                     *)
Returned ==
  [s \in Slots |-> IF Enters(s) THEN CodeOf(threads'[s].id)
                   ELSE IF s = Self THEN CodeOf(current)
                   ELSE pc[s]]

(* Mutant of AfterHleSyscall: the pc is set without the comparison. *)
AfterAnySyscall(pcs) ==
  [s \in Slots |-> IF threads'[s].state = "RUNNING" THEN CodeOf(current) ELSE pcs[s]]

(* hle_syscall_impl after mips_hle_syscall: a pc equal to the old one is   *)
(* taken for a call that did not return, whoever is running now.           *)
AfterHleSyscall(pcs) ==
  [s \in Slots |-> IF /\ threads'[s].state = "RUNNING"
                      /\ pcs[s] = pc[Self]
                   THEN CodeOf(current) ELSE pcs[s]]

-----------------------------------------------------------------------------
JumpToStub ==
  /\ Alive
  /\ pc[Self] # Stub
  /\ pc' = [pc EXCEPT ![Self] = Stub]
  /\ UNCHANGED vars

(* The calls that hle_syscall_impl handles itself return when they are done.*)
CallReturns ==
  /\ Alive
  /\ pc[Self] = Stub
  /\ ThreadCalls \/ ModuleThreads
  /\ pc' = Returned

(* A blocking call that goes through mips_hle_syscall: __sceSasCore (and   *)
(* sceKernelWaitSema, sceKernelWaitEventFlag in the same way).             *)
RoutedCallReturns(d) ==
  /\ Alive
  /\ pc[Self] = Stub
  /\ SasCoreDelay(d)
  /\ pc' = AfterHleSyscall(Returned)

(* The dispatcher preempts between any two blocks, at the stub as well.    *)
Elsewhere ==
  /\ Preempt \/ Tick
  /\ UNCHANGED pc

RInit == Init /\ pc = [s \in Slots |-> CodeOf(0)]

RNext ==
  \/ JumpToStub
  \/ CallReturns
  \/ \E d \in Delays : RoutedCallReturns(d)
  \/ Elsewhere

RSpec == RInit /\ [][RNext]_rvars

-----------------------------------------------------------------------------
(* Properties *)

(* The comment at the end of mips_hle_syscall: the return has to be to the *)
(* caller, so a thread is at the stub or in its own code.                  *)
ReturnsToCaller ==
  \A s \in Slots : threads[s].state \in {"RUNNING", "READY", "WAITING"} =>
    pc[s] \in {Stub, CodeOf(threads[s].id)}

(* No thread blocks with its pc still at the stub: it would repeat the     *)
(* call when it is woken.                                                  *)
WaitersAreBack ==
  \A s \in Slots : Waiting(threads, s) => pc[s] # Stub

(* A call moves the pc of another thread, unless it starts it, only if     *)
(* that thread was preempted at the stub; whoever waits for something      *)
(* continues where it should.                                              *)
OthersMovedOnlyAtStub ==
  [][\A s \in Slots :
       /\ pc'[s] # pc[s]
       /\ ~Enters(s)
       /\ s # Self
       => pc[s] = Stub /\ threads[s].state = "READY"]_rvars

=============================================================================
