------------------------------ MODULE Allegrex ------------------------------
(***************************************************************************)
(* What one instruction after another does to a thread: the control flow   *)
(* of the PSP's processor with its delay slots.  A branch takes effect     *)
(* after the instruction behind it, on the condition and the registers     *)
(* from before that instruction; a likely branch that is not taken skips   *)
(* it.  The values that programs compute with are one flag, which every    *)
(* condition reads, a return address and a function pointer.               *)
(***************************************************************************)
EXTENDS Integers

CONSTANTS
  Cells,     \* the words of the program: link addresses
  Base,      \* where the program is loaded
  EndTrap,   \* the return address of a thread's entry function
  DataWord   \* a pattern that is known not to be an address

VARIABLES
  image,   \* the loaded program: the instruction in each cell
  pc,
  next,    \* the instruction after the one at pc
  flag,
  ra,      \* register 31
  fp,      \* a register that holds a function pointer
  status

avars == <<image, pc, next, flag, ra, fp, status>>

Running   == status = "running"
Loaded(a) == a - Base \in Cells
Op(ops)   == Running /\ Loaded(pc) /\ image[pc - Base].op \in ops
Target    == Base + image[pc - Base].to

Goes(p, n) ==
  /\ pc' = p
  /\ next' = n
  /\ UNCHANGED <<image, status>>

(* An instruction of the integer or of the vector unit. *)
Compute ==
  /\ Op({"int", "vfpu"})
  /\ flag' = ~flag
  /\ Goes(next, next + 1)
  /\ UNCHANGED <<ra, fp>>

SwapRegisters ==
  /\ Op({"swap"})
  /\ fp' = ra /\ ra' = fp
  /\ Goes(next, next + 1)
  /\ UNCHANGED flag

Branch ==
  /\ Op({"branch", "fbranch"})
  /\ Goes(next, IF flag THEN Target ELSE next + 1)
  /\ UNCHANGED <<flag, ra, fp>>

BranchLikely ==
  /\ Op({"likely"})
  /\ IF flag THEN Goes(next, Target) ELSE Goes(pc + 2, pc + 3)
  /\ UNCHANGED <<flag, ra, fp>>

Call ==
  /\ Op({"call"})
  /\ ra' = pc + 2
  /\ Goes(next, Target)
  /\ UNCHANGED <<flag, fp>>

CallPointer ==
  /\ Op({"callp"})
  /\ ra' = pc + 2
  /\ Goes(next, fp)
  /\ UNCHANGED <<flag, fp>>

Return ==
  /\ Op({"ret"})
  /\ Goes(next, ra)
  /\ UNCHANGED <<flag, ra, fp>>

(* The patched stub of an import: the kernel's answer is in the flag. *)
SystemCall ==
  /\ Op({"stub"})
  /\ flag' = ~flag
  /\ Goes(ra, ra + 1)
  /\ UNCHANGED <<ra, fp>>

(* A jump to data ends the thread, like the return of its entry function. *)
JumpToData ==
  /\ Running /\ pc = DataWord
  /\ Goes(EndTrap, EndTrap + 1)
  /\ UNCHANGED <<flag, ra, fp>>

EndThread ==
  /\ Running /\ pc = EndTrap
  /\ status' = "ended"
  /\ UNCHANGED <<image, pc, next, flag, ra, fp>>

(* Any other address outside of the program stops the emulator. *)
LeaveProgram ==
  /\ Running /\ ~Loaded(pc) /\ pc \notin {DataWord, EndTrap}
  /\ status' = "stopped"
  /\ UNCHANGED <<image, pc, next, flag, ra, fp>>

AInit ==
  /\ Running
  /\ Loaded(pc) /\ next = pc + 1

ANext ==
  \/ Compute \/ SwapRegisters
  \/ Branch \/ BranchLikely \/ Call \/ CallPointer \/ Return
  \/ SystemCall
  \/ JumpToData \/ EndThread \/ LeaveProgram

ASpec == AInit /\ [][ANext]_avars
=============================================================================
