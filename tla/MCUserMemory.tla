---------------------------- MODULE MCUserMemory ----------------------------
(* Instance of UserMemory for TLC. *)
EXTENDS UserMemory
MCSizes     == {4, 9}
MCPools     == {[size |-> 1, align |-> 2, count |-> 2], [size |-> 3, align |-> 1, count |-> 1]}
=============================================================================
