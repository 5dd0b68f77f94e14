------------------------------ MODULE MCHybrid ------------------------------
(* Instances of Hybrid for TLC: all programs of a few words over the       *)
(* instructions that the configuration allows.                             *)
EXTENDS Hybrid

CONSTANTS
  NumCells,
  PlainOps, JumpOps,   \* the instructions
  Targets,             \* where branches and calls go
  SlotsApart, ZeroApart, DataApart

MCCells == 0 .. NumCells - 1

Plain   == [op : PlainOps, to : {0}]
Turning == [op : JumpOps \cap Targeted, to : Targets]
             \cup [op : JumpOps \ Targeted, to : {0}]

MCImages ==
  {c \in [MCCells -> Plain \cup Turning] :
     /\ WellFormed(c)
     /\ SlotsApart => TargetsOutsideSlots(c)
     /\ ZeroApart => NothingAtZero(c)}

(* No program calls a data pattern; registers may well hold one. *)
MCPointers(c) ==
  {a + Base : a \in MCCells \ DelaySlots(c)}
    \cup IF DataApart /\ CallsPointer(c) THEN {} ELSE {DataWord}

(* The programs of the instance are those of the proof. *)
ASSUME InstanceAssumption ==
  SlotsApart /\ ZeroApart /\ DataApart => Disciplined
=============================================================================
