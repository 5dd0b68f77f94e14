------------------------------- MODULE Hybrid -------------------------------
(***************************************************************************)
(* The hybrid execution of a thread: aot_recompiler_v5.py cuts the program *)
(* into blocks and translates each to a C function, with link addresses;   *)
(* the dispatcher runs the block that starts at pc, or one instruction in  *)
(* the interpreter where there is none.  Several instructions run in one   *)
(* block, so the model takes one step for each and one to enter the block. *)
(***************************************************************************)
EXTENDS Integers, FiniteSets

CONSTANTS
  Cells,     \* the words of the program: link addresses
  Base,      \* PSP_USER_LOAD_BASE; link addresses are below it
  EndTrap,   \* 0x08000100
  DataWord,  \* 0x20202020 and the other values of is_obvious_data_control_address
  Forced,    \* cells that the dispatcher leaves to the interpreter
  Images,    \* the programs
  Pointers(_)\* what the function pointer of a program may hold at the start

(* One segment from link address zero. *)
Size == Cardinality(Cells)

ASSUME CellsAssumption ==
  Base \in Nat /\ Size \in Nat \ {0} /\ Cells = 0 .. Size - 1 /\ Size + 1 < Base
ASSUME TrapsAssumption ==
  EndTrap \in Nat /\ DataWord \in Nat /\ EndTrap >= 2 * Base /\ DataWord > EndTrap + 1

VARIABLES
  image,   \* the loaded program: [op, to] in each cell
  cpu,     \* the registers
  run,     \* where the running block stands
  status

hvars == <<image, cpu, run, status>>

FirstCell(S) == CHOOSE a \in S : \A b \in S : a <= b

(* No block runs; a block runs at cell at, up to end; in a delay slot the  *)
(* variables of the C function hold the target of the jump.                *)
NoTarget == -1
Outside  == [on |-> FALSE, at |-> 0, end |-> 0, target |-> NoTarget]

-----------------------------------------------------------------------------
(* The recompiler *)

(* partition_blocks: a block starts at the first cell, where a jump goes   *)
(* to and behind the delay slot of a jump.  Likely branches and branches   *)
(* on floating-point conditions are not looked at.                         *)
Leaders ==
  LET jumps == {a \in Cells : image[a].op \in {"branch", "call"}}
      turns == {a \in Cells : image[a].op \in {"callp", "ret", "stub"}}
  IN  ({FirstCell(Cells)} \cup {image[a].to : a \in jumps}
         \cup {a + 2 : a \in jumps \cup turns}) \cap Cells

EndOf(a) ==
  LET later == {b \in Leaders : b > a}
  IN  IF later = {} THEN a + Cardinality({b \in Cells : b >= a}) ELSE FirstCell(later)

(* Import stubs are patched in RAM after the translation. *)
CompiledOp(a) == IF image[a].op = "stub" THEN "ret" ELSE image[a].op

(* link_address: the address in RAM, but zero stays zero. *)
LinkAddress(a) == IF a # 0 /\ a < Base THEN a + Base ELSE a

Untranslated == {"vfpu", "fbranch"}

(* translate_instruction for what it translates. *)
Native(a, c) ==
  IF image[a].op = "int" THEN [c EXCEPT !.flag = ~@]
                         ELSE [c EXCEPT !.ra = c.fp, !.fp = c.ra]

-----------------------------------------------------------------------------
(* The interpreter *)

(* The word at an address outside of RAM reads as zero, a no-operation. *)
Fetched(p) == IF p - Base \in Cells THEN image[p - Base] ELSE [op |-> "nop", to |-> 0]

Computed(i, c) ==
  CASE i.op \in {"int", "vfpu"} -> [c EXCEPT !.flag = ~@]
    [] i.op = "swap"            -> [c EXCEPT !.ra = c.fp, !.fp = c.ra]
    [] OTHER                    -> c

(* The conditional branches, c being the CPU after pc moved on from p. *)
Branched(i, p, c) ==
  CASE i.op \in {"branch", "fbranch", "likely"} /\ c.flag -> [c EXCEPT !.next = Base + i.to]
    [] i.op = "likely" /\ ~c.flag -> [c EXCEPT !.pc = p + 2, !.next = p + 3]
    [] OTHER -> c

Jumped(i, p, c) ==
  CASE i.op = "call"  -> [c EXCEPT !.ra = p + 2, !.next = Base + i.to]
    [] i.op = "callp" -> [c EXCEPT !.ra = p + 2, !.next = c.fp]
    [] i.op = "ret"   -> [c EXCEPT !.next = c.ra]
    [] OTHER -> c

(* A system call of a patched stub, which sets pc to the return address. *)
HleSyscall(c) == [c EXCEPT !.flag = ~@, !.pc = c.ra, !.next = c.ra + 1]

(* interpreter_step and mips_interpreter_step. *)
Interpreted(c) ==
  LET p == LinkAddress(c.pc)
      n == LinkAddress(c.next)
      i == Fetched(p)
      moved == [c EXCEPT !.pc = n, !.next = n + 1]
  IN  IF i.op = "stub" THEN HleSyscall(c)
      ELSE Computed(i, Branched(i, p, Jumped(i, p, moved)))

-----------------------------------------------------------------------------
(* The dispatcher *)

Running    == status = "running"
Dispatches == Running /\ ~run.on
InProgram(p) == p - Base \in Cells

(* Where the dispatcher prefers the interpreter, or finds no block. *)
UsesInterpreter(p) ==
  \/ image[p - Base].op = "stub"
  \/ p - Base \in Forced
  \/ p - Base \notin Leaders

(* The pc that the dispatcher looks at. *)
Here == LinkAddress(cpu.pc)

DispatchTrap ==
  /\ Dispatches
  /\ Here = DataWord
  /\ cpu' = [cpu EXCEPT !.pc = EndTrap, !.next = EndTrap + 1]
  /\ UNCHANGED <<image, run, status>>

EndThread ==
  /\ Dispatches
  /\ Here = EndTrap
  /\ status' = "ended"
  /\ UNCHANGED <<image, cpu, run>>

LeaveProgram ==
  /\ Dispatches
  /\ Here \notin {DataWord, EndTrap}
  /\ ~InProgram(Here)
  /\ status' = "stopped"
  /\ UNCHANGED <<image, cpu, run>>

Interpret ==
  /\ Dispatches
  /\ InProgram(Here)
  /\ UsesInterpreter(Here)
  /\ cpu' = Interpreted([cpu EXCEPT !.pc = Here])
  /\ UNCHANGED <<image, run, status>>

EnterBlock ==
  /\ Dispatches
  /\ InProgram(Here)
  /\ ~UsesInterpreter(Here)
  /\ run' = [on |-> TRUE, at |-> Here - Base, end |-> EndOf(Here - Base), target |-> NoTarget]
  /\ UNCHANGED <<image, cpu, status>>

-----------------------------------------------------------------------------
(* A block *)

Inside(ops) ==
  /\ Running /\ run.on
  /\ run.at < run.end /\ run.target = NoTarget
  /\ CompiledOp(run.at) \in ops

(* The C function returns with pc at a and next_pc behind it. *)
LeaveAt(a, c) ==
  /\ cpu' = [c EXCEPT !.pc = a, !.next = a + 1]
  /\ run' = Outside
  /\ UNCHANGED <<image, status>>

RunNative ==
  /\ Inside({"int", "swap"})
  /\ cpu' = Native(run.at, cpu)
  /\ run' = [run EXCEPT !.at = @ + 1]
  /\ UNCHANGED <<image, status>>

(* Mutant of FallThrough: next_pc from before the block is used. *)
FallThroughNext ==
  /\ Running /\ run.on
  /\ run.at = run.end
  /\ LeaveAt(cpu.next, cpu)

FallThrough ==
  /\ Running /\ run.on
  /\ run.at = run.end
  /\ LeaveAt(run.end, cpu)

(* The rest of the block is left to later dispatches. *)
FallBack ==
  /\ Inside(Untranslated)
  /\ cpu' = Interpreted([cpu EXCEPT !.pc = run.at, !.next = run.at + 1])
  /\ run' = Outside
  /\ UNCHANGED <<image, status>>

(* A jump with its target: the delay slot comes first, if the block has it.*)
Jump(target, c) ==
  IF run.at + 1 < run.end
  THEN /\ cpu' = c
       /\ run' = [run EXCEPT !.at = @ + 1, !.target = target]
       /\ UNCHANGED <<image, status>>
  ELSE LeaveAt(target, c)

Behind(a) == LinkAddress(a + 2)

RunBranch ==
  /\ Inside({"branch"})
  /\ Jump(IF cpu.flag THEN LinkAddress(image[run.at].to) ELSE Behind(run.at), cpu)

RunLikely ==
  /\ Inside({"likely"})
  /\ IF cpu.flag THEN Jump(LinkAddress(image[run.at].to), cpu)
                 ELSE LeaveAt(Behind(run.at), cpu)

(* The target of a direct call is read from the relocated word in RAM. *)
RunCall ==
  /\ Inside({"call"})
  /\ Jump(Base + image[run.at].to, [cpu EXCEPT !.ra = Behind(run.at)])

(* A data pattern is not called: the program goes on behind the call. *)
RunCallPointer ==
  /\ Inside({"callp"})
  /\ Jump(IF cpu.fp = DataWord THEN Behind(run.at) ELSE cpu.fp,
          [cpu EXCEPT !.ra = Behind(run.at)])

RunReturn ==
  /\ Inside({"ret"})
  /\ Jump(cpu.ra, cpu)

(* translate_delay_slot: an untranslated instruction runs once in the      *)
(* interpreter, then the jump installs its target.                         *)
RunDelaySlot ==
  /\ Running /\ run.on /\ run.target # NoTarget
  /\ LeaveAt(run.target,
             IF image[run.at].op \in Untranslated
             THEN Interpreted([cpu EXCEPT !.pc = run.at, !.next = run.at + 1])
             ELSE Native(run.at, cpu))

-----------------------------------------------------------------------------
(* Programs *)

Straight == {"int", "swap", "vfpu"}
Jumps    == {"branch", "fbranch", "likely", "call", "callp", "ret", "stub"}
Targeted == {"branch", "fbranch", "likely", "call"}

(* The words that follow a jump. *)
DelaySlots(c) == {a \in Cells : a - 1 \in Cells /\ c[a - 1].op \in Jumps}

(* Behind every jump is its delay slot; nothing runs into a stub. *)
WellFormed(c) ==
  \A a \in Cells :
    /\ c[a].op \in Jumps => a + 1 \in Cells /\ c[a + 1].op \in Straight
    /\ c[a].op = "stub" => a = 0 \/ (a - 2 \in Cells /\ c[a - 2].op \in {"ret", "stub"})

(* No word that reads as a jump, be it code or data, aims at a delay slot. *)
TargetsOutsideSlots(c) ==
  \A a \in Cells : c[a].op \in Targeted => c[a].to \notin DelaySlots(c)

(* Nothing branches to link address zero or needs the interpreter there. *)
NothingAtZero(c) ==
  /\ c[0].op \notin Untranslated
  /\ \A a \in Cells : c[a].op \in {"branch", "likely"} => c[a].to # 0

CallsPointer(c) == \E a \in Cells : c[a].op = "callp"

Instruction == [op : Straight \cup Jumps, to : Cells]

(* What the refinement asks of programs and of their function pointers.    *)
Disciplined ==
  \A c \in Images :
    /\ c \in [Cells -> Instruction]
    /\ WellFormed(c) /\ TargetsOutsideSlots(c) /\ NothingAtZero(c)
    /\ Pointers(c) \subseteq {a + Base : a \in Cells \ DelaySlots(c)}
                               \cup (IF CallsPointer(c) THEN {} ELSE {DataWord})

-----------------------------------------------------------------------------

(* A thread starts anywhere but in a delay slot. *)
HInit ==
  /\ image \in Images
  /\ \E a \in Cells \ DelaySlots(image), f \in BOOLEAN, p \in Pointers(image) :
       cpu = [pc |-> a + Base, next |-> a + Base + 1, flag |-> f, ra |-> EndTrap, fp |-> p]
  /\ run = Outside
  /\ status = "running"

HNext ==
  \/ DispatchTrap \/ EndThread \/ LeaveProgram \/ Interpret \/ EnterBlock
  \/ RunNative \/ FallThrough \/ FallBack
  \/ RunBranch \/ RunLikely \/ RunCall \/ RunCallPointer \/ RunReturn
  \/ RunDelaySlot

HSpec == HInit /\ [][HNext]_hvars

-----------------------------------------------------------------------------
(* Properties *)

(* Within a block pc and next_pc are implied by where the block stands. *)
ThePc   == IF run.on THEN run.at + Base ELSE LinkAddress(cpu.pc)
TheNext == IF ~run.on THEN LinkAddress(cpu.next)
           ELSE IF run.target = NoTarget THEN run.at + Base + 1
           ELSE LinkAddress(run.target)

Processor == INSTANCE Allegrex WITH
               pc <- ThePc, next <- TheNext, flag <- cpu.flag, ra <- cpu.ra, fp <- cpu.fp

(* Whatever mix of blocks and interpreted instructions the dispatcher      *)
(* chooses, the program runs as on the processor, one instruction after    *)
(* the other: no delay slot is lost, repeated or run with the wrong target.*)
ImplementsAllegrex == Processor!ASpec

=============================================================================
