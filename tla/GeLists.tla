------------------------------- MODULE GeLists -------------------------------
(***************************************************************************)
(* Display lists in mips_ge.c and the sceGe calls of mips_hle.c.  The      *)
(* graphics engine runs a list inside the call that hands it over, command *)
(* by command, until the list ends or its program counter meets the stall  *)
(* address; a program that is still writing the list moves that address on *)
(* and the engine goes on from where it was held up.  What a command draws *)
(* is abstracted to the cell it stands in; SIGNAL, which sets a flag that  *)
(* nothing of this looks at, is such a command too.                        *)
(***************************************************************************)
EXTENDS Integers, Sequences

CONSTANTS
  MainCells,  \* cells of the list itself, written while the engine may run
  SubCells,   \* cells of its subroutines, written before
  MaxDepth,   \* the entries of stack[] (64 in the source)
  Programs,   \* the lists that a program writes
  MaxSteps    \* bound: commands of a list that drawn and steps record

ASSUME CellsAssumption == MainCells \in Nat \ {0} /\ SubCells \in Nat
ASSUME DepthAssumption == MaxDepth \in Nat /\ MaxSteps \in Nat

VARIABLES
  ge,       \* the fields of MIPS_GraphicsEngine that control a list
  busy,     \* the emulator thread is inside mips_ge_run_list
  program,  \* the list the program is writing
  written,  \* how many cells of it are in memory
  drawn,    \* the cells drawn since the list began
  steps     \* the commands run since the list began; neither records more
            \* than MaxSteps commands

gvars == <<ge, busy, program, written, drawn, steps>>

Cells   == 0 .. MainCells + SubCells - 1
NoStall == -1    \* 0 in the source
Return  == [pc : Nat, offset : Nat]
Engine  == [pc : Nat, stall : Int, running : BOOLEAN, finished : BOOLEAN,
            offset : Nat, visible : BOOLEAN, stack : Seq(Return)]

Ops     == {"draw", "offset", "origin", "bbox", "jump", "bjump", "call", "ret", "end", "finish"}
Command == [op : Ops, to : Nat]

ASSUME ProgramsAssumption == Programs \subseteq [Cells -> Command]

(* What the engine reads: a cell not written yet ends the list. *)
Fetched(cell) ==
  IF cell < written \/ cell >= MainCells THEN program[cell]
  ELSE [op |-> "finish", to |-> 0]

Stopped(g) == [g EXCEPT !.running = FALSE, !.finished = TRUE]

(* A jump outside the memory stops the list. *)
JumpedTo(g, target) == IF target \in Cells THEN [g EXCEPT !.pc = target] ELSE Stopped(g)

(* Mutant of Called: the address of the call itself is pushed. *)
CalledAgain(g, target) ==
  IF target \notin Cells \/ Len(g.stack) >= MaxDepth THEN Stopped(g)
  ELSE [g EXCEPT !.pc = target,
                 !.stack = Append(@, [pc |-> g.pc - 1, offset |-> g.offset])]

Called(g, target) ==
  IF target \notin Cells \/ Len(g.stack) >= MaxDepth THEN Stopped(g)
  ELSE [g EXCEPT !.pc = target,
                 !.stack = Append(@, [pc |-> g.pc, offset |-> g.offset])]

(* Mutant of Returned: the entry stays on the stack. *)
ReturnedUnpopped(g) ==
  IF g.stack = <<>> THEN [g EXCEPT !.running = FALSE]
  ELSE LET top == g.stack[Len(g.stack)]
       IN  [g EXCEPT !.pc = top.pc, !.offset = top.offset]

(* A return from the list itself ends it. *)
Returned(g) ==
  IF g.stack = <<>> THEN [g EXCEPT !.running = FALSE]
  ELSE LET top == g.stack[Len(g.stack)]
       IN  [g EXCEPT !.pc = top.pc, !.offset = top.offset,
                     !.stack = SubSeq(@, 1, Len(@) - 1)]

(* mips_ge_execute_command; pc is already past the command.  "to" is the   *)
(* address in the command, for a bounding box whether the vertices it names*)
(* are visible.  BASE is left out: a list and what it calls lie in the same*)
(* 16 MB.  So is the check for pc = 0 behind the command: no address that  *)
(* a jump checks or that a call pushes is 0.                               *)
Executed(engine, command) ==
  LET g == [engine EXCEPT !.pc = @ + 1]
      target == g.offset + command.to
  IN  CASE command.op = "draw"   -> g
        [] command.op = "offset" -> [g EXCEPT !.offset = command.to]
        [] command.op = "origin" -> [g EXCEPT !.offset = engine.pc]
        [] command.op = "bbox"   -> [g EXCEPT !.visible = (command.to # 0)]
        [] command.op = "jump"   -> JumpedTo(g, target)
        [] command.op = "bjump"  -> IF g.visible THEN g ELSE JumpedTo(g, target)
        [] command.op = "call"   -> Called(g, target)
        [] command.op = "ret"    -> Returned(g)
        [] command.op = "end"    -> [g EXCEPT !.running = FALSE]
        [] command.op = "finish" -> Stopped(g)

(* mips_ge_run_list takes over with these registers. *)
RunFrom(g, pc, stall) ==
  [g EXCEPT !.pc = pc, !.stall = stall, !.running = TRUE, !.finished = FALSE]

(* mips_ge_begin_list *)
Begun(g) == [g EXCEPT !.offset = 0, !.visible = FALSE, !.stack = <<>>]

-----------------------------------------------------------------------------
(* The program writes the next cell of the list. *)
Write ==
  /\ ~busy
  /\ written < MainCells
  /\ written' = written + 1
  /\ UNCHANGED <<ge, busy, program, drawn, steps>>

(* A program releases what it has written: the stall address is the cell   *)
(* after it, or none for a list that is complete.                          *)
Releases(stall) ==
  \/ stall = written /\ written < MainCells
  \/ stall = NoStall /\ written = MainCells

(* sceGeListEnqueue; a list that is held up is abandoned. *)
Enqueue(stall) ==
  /\ ~busy /\ Releases(stall)
  /\ ge' = RunFrom(Begun(ge), 0, stall)
  /\ busy' = TRUE
  /\ drawn' = <<>>
  /\ steps' = 0
  /\ UNCHANGED <<program, written>>

(* Mutant of UpdateStall: the list begins anew. *)
UpdateStallBegins(stall) ==
  /\ ~busy /\ Releases(stall)
  /\ IF ge.running /\ ge.pc # stall
       THEN ge' = RunFrom(Begun(ge), ge.pc, stall) /\ busy' = TRUE
       ELSE ge' = [ge EXCEPT !.stall = stall] /\ UNCHANGED busy
  /\ UNCHANGED <<program, written, drawn, steps>>

(* sceGeListUpdateStallAddr *)
UpdateStall(stall) ==
  /\ ~busy /\ Releases(stall)
  /\ IF ge.running /\ ge.pc # stall
       THEN ge' = RunFrom(ge, ge.pc, stall) /\ busy' = TRUE
       ELSE ge' = [ge EXCEPT !.stall = stall] /\ UNCHANGED busy
  /\ UNCHANGED <<program, written, drawn, steps>>

(* One round of the loop of mips_ge_run_list. *)
RunCommand ==
  LET command == Fetched(ge.pc)
  IN  /\ busy
      /\ ge.running /\ ge.pc \in Cells /\ ge.pc # ge.stall
      /\ ge' = Executed(ge, command)
      /\ IF steps < MaxSteps
           THEN /\ drawn' = IF command.op = "draw" THEN Append(drawn, ge.pc) ELSE drawn
                /\ steps' = steps + 1
           ELSE UNCHANGED <<drawn, steps>>
      /\ UNCHANGED <<busy, program, written>>

(* The loop ends: the list is over, has left the memory or is held up. *)
RunEnds ==
  /\ busy
  /\ ~ge.running \/ ge.pc \notin Cells \/ ge.pc = ge.stall
  /\ ge' = IF ge.running /\ ge.pc \notin Cells THEN Stopped(ge) ELSE ge
  /\ busy' = FALSE
  /\ UNCHANGED <<program, written, drawn, steps>>

-----------------------------------------------------------------------------
(* mips_ge_init *)
NewEngine == [pc |-> 0, stall |-> NoStall, running |-> FALSE, finished |-> FALSE,
              offset |-> 0, visible |-> FALSE, stack |-> <<>>]

GInit ==
  /\ ge = NewEngine
  /\ busy = FALSE
  /\ program \in Programs
  /\ written = 0
  /\ drawn = <<>>
  /\ steps = 0

Stalls == 0 .. MainCells \cup {NoStall}

Calls == Write \/ \E stall \in Stalls : Enqueue(stall) \/ UpdateStall(stall)

Run == RunCommand \/ RunEnds

GNext == Calls \/ Run

GSpec == GInit /\ [][GNext]_gvars

(* The loop of mips_ge_run_list goes on while it can. *)
FairGSpec == GSpec /\ WF_gvars(Run)

-----------------------------------------------------------------------------
(* Properties *)

(* A return goes behind a call. *)
ReturnsBehindCalls ==
  \A i \in DOMAIN ge.stack :
    LET behind == ge.stack[i].pc - 1
    IN  behind \in Cells /\ program[behind].op = "call"

(* The type of every variable; the call stack stays inside its array, and  *)
(* a return goes behind a call.                                            *)
GTypeOK ==
  /\ ge \in Engine
  /\ Len(ge.stack) <= MaxDepth
  /\ busy \in BOOLEAN
  /\ written \in 0 .. MainCells
  /\ drawn \in Seq(Cells)
  /\ ReturnsBehindCalls

(* The engine after n commands of a list that was complete from the start, *)
(* and what they have drawn.                                               *)
Unstalled(n) ==
  LET after[i \in 0 .. n] ==
        IF i = 0 THEN [engine |-> RunFrom(NewEngine, 0, NoStall), drawn |-> <<>>]
        ELSE LET last == after[i - 1]
                 command == program[last.engine.pc]
             IN  [engine |-> Executed(last.engine, command),
                  drawn  |-> IF command.op = "draw" THEN Append(last.drawn, last.engine.pc)
                             ELSE last.drawn]
  IN  after[n]

(* Being written and released piece by piece makes no difference to a list:*)
(* after as many commands the engine is where it would be had it been given*)
(* the whole list at once, and has drawn the same cells once each.         *)
StallsLeaveNoTrace ==
  steps \in 1 .. MaxSteps - 1 =>
    LET whole == Unstalled(steps)
    IN  /\ drawn = whole.drawn
        /\ ge.stack = whole.engine.stack
        /\ ge.offset = whole.engine.offset
        /\ ge.running => ge.pc = whole.engine.pc
        /\ whole.engine.running => ge.running \/ ge.finished

JumpsNowhere == \A c \in Cells : program[c].op \notin {"jump", "bjump"}

(* A list without jumps ends or is held up, however its subroutines call   *)
(* each other: the call of the program returns.                            *)
CallsReturn == JumpsNowhere /\ busy ~> ~busy

=============================================================================
