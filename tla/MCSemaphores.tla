---------------------------- MODULE MCSemaphores ----------------------------
(* Instance of Semaphores for TLC. *)
EXTENDS Semaphores
CONSTANT none
MCNeeds == {1, 2}
MCDelays == {1}
=============================================================================
