------------------------------ MODULE Dispatcher ------------------------------
(***************************************************************************)
(* The loop of mips_dispatcher_execute around the threads of Scheduler: it *)
(* runs one block (or one interpreted instruction) after the other, counts *)
(* those of the running thread and preempts a thread that used up its      *)
(* quantum.  A block computes or is an HLE call.  The check after a block  *)
(* is the step Preempted, which comes before any other block when it is    *)
(* due.  That the count starts over for another thread than the last, which*)
(* the code does when the loop comes round, ends the step that switched.   *)
(***************************************************************************)
EXTENDS Scheduler

CONSTANT Quantum   \* preemption_quantum(): 256 unless MIPS_THREAD_QUANTUM is set;
                   \* 0, which turns preemption off, is left out

ASSUME QuantumAssumption == Quantum \in Nat \ {0}

VARIABLE
  blocks   \* blocks_since_preemption; nothing above Quantum is told apart

dvars == <<vars, blocks>>

-----------------------------------------------------------------------------
Preemptible == dispatch /\ \E s \in ReadySlots(threads) : threads[s].id # current

PreemptionDue == blocks >= Quantum /\ Preemptible

(* The block is counted, also one that gave up the CPU; the count with it  *)
(* is checked, and only then starts over for another thread.               *)
CountBlock ==
  LET count == IF blocks < Quantum THEN blocks + 1 ELSE Quantum
      due   == count = Quantum /\ Preemptible'
  IN  blocks' = IF current' # current /\ ~due THEN 0 ELSE count

(* A block without a call. *)
Compute == Alive /\ UNCHANGED vars

Calls ==
  \/ ThreadCalls
  \/ ModuleThreads
  \/ \E d \in Delays : SasCoreDelay(d)

RunBlock ==
  /\ ~PreemptionDue
  /\ Compute \/ Calls
  /\ CountBlock

(* The return address trap 0x08000100 ends its thread in a round that      *)
(* counts nothing and checks nothing; the next thread starts at zero.      *)
ReturnTrap ==
  /\ ~PreemptionDue
  /\ ExitThread
  /\ blocks' = 0

Preempted ==
  /\ PreemptionDue
  /\ Preempt
  /\ blocks' = 0

DInit == Init /\ blocks = 0

DNext ==
  \/ RunBlock
  \/ ReturnTrap
  \/ Preempted
  \/ Tick /\ UNCHANGED blocks

DSpec == DInit /\ [][DNext]_dvars

-----------------------------------------------------------------------------
(* The loop goes on: it makes a preemption that is due, and it runs blocks.*)
(* Which blocks is the program's choice, and Compute is always one, so no  *)
(* call is ever forced; a count that has reached the quantum asks for no   *)
(* further block, since a block that computes then changes nothing here.   *)
LoopGoesOn ==
  /\ WF_dvars(Preempted)
  /\ WF_dvars(blocks < Quantum /\ RunBlock)

FairSpec == DSpec /\ LoopGoesOn

(* No thread stays READY for ever, provided dispatch is not left suspended:*)
(* threads that give up the CPU before their quantum is over start the     *)
(* count over every time, but then the round robin reaches everyone; a     *)
(* thread that does not is preempted (MIPS_THREAD_QUANTUM not 0).          *)
ReadyThreadsRun ==
  []<>dispatch => \A s \in Slots : []<>(threads[s].state # "READY")

(* Timed waits end after their deadlines, provided that again and again    *)
(* some thread is READY and dispatch is on (the scheduler looks at         *)
(* deadlines only when it is called): no wait stays overdue for ever, be   *)
(* it one or several at once.                                              *)
ExpiredWaitsEnd ==
  []<>(dispatch /\ ReadySlots(threads) # {}) => []<>(Expired(threads, now) = {})

=============================================================================
