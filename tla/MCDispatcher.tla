----------------------------- MODULE MCDispatcher -----------------------------
(* Instance of Dispatcher for TLC: the needs of waiters play no part in it. *)
EXTENDS Dispatcher

CONSTANT none

MCDelays == {1}
MCNeeds == {}
=============================================================================
