------------------------------- MODULE Modules -------------------------------
(***************************************************************************)
(* The module manager of main_v35.c on the threads: the table              *)
(* loaded_modules[] and the calls sceKernelLoadModule, StartModule,        *)
(* StopModule and UnloadModule.  module_start and module_stop run on       *)
(* threads of their own, for which the caller waits; other threads go on   *)
(* and may start, stop or unload the same module meanwhile.  Where a file  *)
(* is put in memory, and how it is linked, is in Loader.                   *)
(***************************************************************************)
EXTENDS SyscallReturn

CONSTANTS
  ModuleSlots,   \* the slots of loaded_modules[] (MAX_LOADED_MODULES)
  Files,         \* the module files
  Starting,      \* those with module_start or an entry point
  Stopping,      \* those with module_stop
  MaxModule      \* bound: module ids handed out

ASSUME FilesAssumption == Starting \subseteq Files /\ Stopping \subseteq Files
ASSUME ModulesAssumption == ModuleSlots \in Nat /\ MaxModule \in Nat

VARIABLES
  modules,      \* loaded_modules[]
  nextModule,   \* next_module_id, counted from zero
  running       \* history: the parts that run, see Part

mvars == <<modules, nextModule, running>>

Module == [id : Nat, file : Files, started : BOOLEAN]

(* A slot after memset(.., 0, ..): not active. *)
NoModule == [id |-> -1]

(* A thread that runs module_start or module_stop, and the thread that     *)
(* called sceKernelStartModule or sceKernelStopModule for it.              *)
Part == [thread : Nat, caller : Nat]

Live(t, id) == \E r \in Slots : t[r].id = id /\ t[r].state \notin {"FREE", "DORMANT"}

(* Those of the parts S that go on, for callers that nobody terminated or  *)
(* deleted.                                                                *)
GoingOn(S) == {p \in S : Live(threads', p.thread) /\ Live(threads', p.caller)}

-----------------------------------------------------------------------------
Registered(m) == modules[m] # NoModule

(* The load succeeds into the first free slot. *)
LoadModule(f) ==
  LET free == {m \in 1 .. ModuleSlots : ~Registered(m)}
  IN  /\ nextModule < MaxModule
      /\ free # {}
      /\ modules' = [modules EXCEPT ![First(free)] =
                       [id |-> nextModule, file |-> f, started |-> FALSE]]
      /\ nextModule' = nextModule + 1
      /\ UNCHANGED <<vars, running>>

SetStarted(m, value) == modules' = [modules EXCEPT ![m].started = value]

(* A start or stop without code to run only sets the flag. *)
Silently(m, value) ==
  /\ SetStarted(m, value)
  /\ UNCHANGED <<vars, nextModule, running>>

(* Mutant of OnThread: the caller makes way for the thread, but goes on    *)
(* when its turn comes.                                                    *)
OnThreadUnawaited(m, wait, value) ==
  LET s == First(FreeSlots(threads))
  IN  /\ FreeSlots(threads) # {} /\ s < StackSlots /\ nextId <= MaxId
      /\ RunScheduler(WithTcb(Kernel, s, NewTcb("READY")), "READY", "ok")
      /\ nextId' = nextId + 1
      /\ dispatch' = TRUE
      /\ SetStarted(m, value)
      /\ running' = GoingOn(running \cup {[thread |-> nextId, caller |-> current]})
      /\ UNCHANGED <<nextSeq, nextModule>>

(* The part of the module runs on a new thread, the caller waits for it. *)
OnThread(m, wait, value) ==
  /\ RunModuleThread(wait)
  /\ SetStarted(m, value)
  /\ running' = GoingOn(running \cup {[thread |-> nextId, caller |-> current]})
  /\ UNCHANGED nextModule

(* The thread table is full, or the free slot has no stack window. *)
ThreadRefused ==
  \/ RunModuleThreadFails
  \/ FreeSlots(threads) = {} /\ UNCHANGED vars

(* The error leaves the module as it was. *)
NoThread ==
  /\ ThreadRefused
  /\ running' = GoingOn(running)
  /\ UNCHANGED <<modules, nextModule>>

StartModule(m) ==
  /\ Registered(m)
  /\ ~modules[m].started
  /\ IF modules[m].file \in Starting
     THEN OnThread(m, "modstart", TRUE) \/ NoThread
     ELSE Silently(m, TRUE)

StopModule(m) ==
  /\ Registered(m)
  /\ modules[m].started
  /\ IF modules[m].file \in Stopping
     THEN OnThread(m, "end", FALSE) \/ NoThread
     ELSE Silently(m, FALSE)

(* Whether the module is started, or a thread still runs in it, is not     *)
(* asked; its code stays where it is.                                      *)
UnloadModule(m) ==
  /\ Registered(m)
  /\ modules' = [modules EXCEPT ![m] = NoModule]
  /\ UNCHANGED <<vars, nextModule, running>>

ModuleCalls ==
  \/ \E f \in Files : LoadModule(f)
  \/ \E m \in 1 .. ModuleSlots : StartModule(m) \/ StopModule(m) \/ UnloadModule(m)

-----------------------------------------------------------------------------
(* The fallback stubs of the module calls are import stubs as well. *)
ModuleCallReturns ==
  /\ Alive
  /\ pc[Self] = Stub
  /\ ModuleCalls
  /\ pc' = Returned

ThreadCallReturns ==
  /\ Alive
  /\ pc[Self] = Stub
  /\ ThreadCalls
  /\ pc' = Returned
  /\ running' = GoingOn(running)
  /\ UNCHANGED <<modules, nextModule>>

MInit ==
  /\ RInit
  /\ modules = [m \in 1 .. ModuleSlots |-> NoModule]
  /\ nextModule = 0
  /\ running = {}

MNext ==
  \/ ModuleCallReturns
  \/ ThreadCallReturns
  \/ /\ JumpToStub \/ (\E d \in Delays : RoutedCallReturns(d)) \/ Elsewhere
     /\ running' = GoingOn(running)
     /\ UNCHANGED <<modules, nextModule>>

MSpec == MInit /\ [][MNext]_<<rvars, mvars>>

-----------------------------------------------------------------------------
(* Properties *)

(* A thread has one part in progress at a time, and the parts it asks for  *)
(* follow one another: whoever preempts it, ends, is deleted or calls the  *)
(* module manager meanwhile, it stops no module, nor starts the next, while*)
(* a module_start or module_stop it asked for still runs.  (Two threads    *)
(* are not kept apart in this way: `started` is set before module_start    *)
(* has run, and another thread may call sceKernelStopModule at once.)      *)
PartsFollowOneAnother ==
  \A p, q \in running : p.caller = q.caller => p = q

(* sceKernelStartModule, sceKernelStopModule and sceKernelWaitThreadEnd    *)
(* come back, unless their caller is terminated, only when the thread they *)
(* wait for is over, however often other threads end, time out or start    *)
(* and stop modules meanwhile.                                             *)
CallsReturnWhenOver ==
  [][\A s \in Slots :
       /\ Waiting(threads, s)
       /\ threads[s].wait \in EndWaits
       /\ threads'[s].id = threads[s].id
       /\ threads'[s].state \in {"RUNNING", "READY"}
       => ~Live(threads', threads[s].obj)]_<<rvars, mvars>>

=============================================================================
