---------------------------- MODULE SampleQueues ----------------------------
(***************************************************************************)
(* What the audio channels promise: a reserved channel plays the blocks it *)
(* is given in their order, each sample once and none of another           *)
(* reservation; a block is queued whole or not at all; a channel is given  *)
(* back only when all it was given has been played.                        *)
(***************************************************************************)
EXTENDS Integers, Sequences, SequencesExt

CONSTANTS
  Channels,
  MaxQueue   \* the most samples that a channel may have to play

VARIABLES
  reserved,  \* who may be given blocks
  queue,     \* the samples of each channel still to be played
  length     \* the samples of a block of each channel

qvars == <<reserved, queue, length>>

(* The length of the blocks of no other channel changes. *)
Measures(c) == \A d \in Channels \ {c} : length'[d] = length[d]

Reserve(c) ==
  /\ ~reserved[c]
  /\ reserved' = [reserved EXCEPT ![c] = TRUE]
  /\ queue' = [queue EXCEPT ![c] = <<>>]
  /\ Measures(c)

SetLength(c) ==
  /\ Measures(c)
  /\ UNCHANGED <<reserved, queue>>

(* A whole block goes to the end of the queue. *)
Push(c) ==
  /\ reserved[c]
  /\ Len(queue'[c]) = Len(queue[c]) + length[c]
  /\ Len(queue'[c]) <= MaxQueue
  /\ IsPrefix(queue[c], queue'[c])
  /\ \A d \in Channels \ {c} : queue'[d] = queue[d]
  /\ UNCHANGED <<reserved, length>>

(* Time passes for all channels. *)
Play ==
  /\ \A c \in Channels : IsSuffix(queue'[c], queue[c])
  /\ UNCHANGED <<reserved, length>>

Release(c) ==
  /\ reserved[c] /\ queue[c] = <<>>
  /\ reserved' = [reserved EXCEPT ![c] = FALSE]
  /\ UNCHANGED <<queue, length>>

QInit ==
  /\ reserved = [c \in Channels |-> FALSE]
  /\ queue = [c \in Channels |-> <<>>]
  /\ length \in [Channels -> Nat]

QNext ==
  Play \/ \E c \in Channels : Reserve(c) \/ SetLength(c) \/ Push(c) \/ Release(c)

QSpec == QInit /\ [][QNext]_qvars
=============================================================================
