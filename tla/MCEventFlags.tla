---------------------------- MODULE MCEventFlags ----------------------------
(* Instances of EventFlags for TLC. *)
EXTENDS EventFlags
CONSTANT none, a, b
MCBits == {a, b}
MCDelays == {1}
(* Somebody who takes a bit for itself, somebody who empties the pattern,   *)
(* and somebody who only looks at either bit.                              *)
MCNeeds == {[bits |-> {a}, some |-> FALSE, clear |-> "bits"],
            [bits |-> {a, b}, some |-> FALSE, clear |-> "all"],
            [bits |-> {a, b}, some |-> TRUE, clear |-> "nothing"]}
=============================================================================
