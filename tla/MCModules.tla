------------------------------ MODULE MCModules ------------------------------
(* Instance of Modules for TLC: a file with both exports, and one with none. *)
EXTENDS Modules
CONSTANTS none, whole, silent
MCDelays == {1}
MCNeeds == {}
MCFiles == {whole, silent}
MCBoth == {whole}
=============================================================================
