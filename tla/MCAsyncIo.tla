------------------------------ MODULE MCAsyncIo ------------------------------
(* Instances of AsyncIo for TLC. *)
EXTENDS AsyncIo
MCSizes == {2}
=============================================================================
