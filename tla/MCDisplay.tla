------------------------------ MODULE MCDisplay ------------------------------
(* Instance of Display for TLC. *)
EXTENDS Display
MCContents == {"one", "two"}
=============================================================================
