---------------------------- MODULE MCAudioMixer ----------------------------
(* Instance of AudioMixer for TLC. *)
EXTENDS AudioMixer
MCCounts == {1, 2}
=============================================================================
