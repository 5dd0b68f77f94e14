--------------------------- MODULE MCSyscallReturn ---------------------------
(* Instances of SyscallReturn for TLC. *)
EXTENDS SyscallReturn
CONSTANT none
MCDelays == {1}
MCNeeds == {}
=============================================================================
