----------------------------- MODULE AudioMixer -----------------------------
(***************************************************************************)
(* The audio channels of mips_audio.c: rings of samples that the HLE calls *)
(* of the emulator thread fill and the callback of the SDL audio thread    *)
(* empties, each under one mutex.  A blocking output and a release of a    *)
(* channel poll the ring from a loop, with the mutex free in between.      *)
(* Without an audio device the system is silent: blocks are accepted and   *)
(* dropped.                                                                *)
(***************************************************************************)
EXTENDS Integers, Sequences, FiniteSets

CONSTANTS
  NumChannels,  \* AUDIO_MAX_CHANNELS
  Rate,         \* AUDIO_SAMPLE_RATE
  Counts,       \* block lengths, in frames, that a program sets
  Chunk         \* frames that the device asks the callback for

ASSUME ChannelsAssumption == NumChannels \in Nat \ {0}
ASSUME RateAssumption ==
  /\ Rate \in Nat \ {0} /\ Chunk \in Nat \ {0}
  /\ Counts \subseteq Nat \ {0} /\ Counts # {}

VARIABLES
  channels,  \* audio->channels[]
  main,      \* the call the emulator thread is in
  silent     \* audio->silent

mvars == <<channels, main, silent>>

Channels == 0 .. NumChannels - 1
Capacity == Rate * 2

(* A sample: of an even or odd block, for the left or right side.  A mono  *)
(* sample is for the left one.                                             *)
Sample  == [block : {0, 1}, side : {"left", "right"}]
Silence == [block |-> 0, side |-> "left"]

Channel == [active : BOOLEAN, stereo : BOOLEAN, count : Counts,
            ring : [0 .. Capacity - 1 -> Sample], write : 0 .. Capacity - 1,
            read : 0 .. Capacity - 1, avail : 0 .. Capacity]

Width(c)   == IF channels[c].stereo THEN 2 ELSE 1
Element(c) == channels[c].count * Width(c)

(* The samples of a block of channel c; the next block has the other number.*)
Block(c, number) ==
  [i \in 0 .. Element(c) - 1 |->
     [block |-> number,
      side |-> IF channels[c].stereo /\ i % 2 = 1 THEN "right" ELSE "left"]]

Idle == [op |-> "idle", channel |-> 0, number |-> 0]

Set(c, chan) == channels' = [channels EXCEPT ![c] = chan]

-----------------------------------------------------------------------------
(* Faulty variant for the mutation runs: only the read pointer is rewound.  *)
ReserveKeepsWrite(c, count, stereo) ==
  /\ main.op = "idle"
  /\ ~channels[c].active
  /\ Set(c, [channels[c] EXCEPT !.active = TRUE, !.stereo = stereo, !.count = count,
                                !.read = 0, !.avail = 0])
  /\ UNCHANGED <<main, silent>>

(* A channel given by number, or the last free one. *)
Reserve(c, count, stereo) ==
  /\ main.op = "idle"
  /\ ~channels[c].active
  /\ Set(c, [channels[c] EXCEPT !.active = TRUE, !.stereo = stereo, !.count = count,
                                !.write = 0, !.read = 0, !.avail = 0])
  /\ UNCHANGED <<main, silent>>

SetLength(c, count) ==
  /\ main.op = "idle"
  /\ channels[c].active
  /\ Set(c, [channels[c] EXCEPT !.count = count])
  /\ UNCHANGED <<main, silent>>

(* mips_audio_output_panned takes a block whole or not at all. *)
Fits(c) == Element(c) <= Capacity - channels[c].avail

Pushed(chan, block, length) ==
  [chan EXCEPT
     !.ring = [i \in 0 .. Capacity - 1 |->
                 LET n == (i + Capacity - chan.write) % Capacity
                 IN  IF n < length THEN block[n] ELSE @[i]],
     !.write = (@ + length) % Capacity,
     !.avail = @ + length]

Push(c, number) == Set(c, Pushed(channels[c], Block(c, number), Element(c)))

(* sceAudioOutputPanned: a block that does not fit is refused. *)
Output(c, number) ==
  /\ main.op = "idle"
  /\ channels[c].active /\ ~silent /\ Fits(c)
  /\ Push(c, number)
  /\ UNCHANGED <<main, silent>>

(* sceAudioOutputPannedBlocking tries until the block fits. *)
OutputBlocking(c, number) ==
  /\ main.op = "idle"
  /\ channels[c].active /\ ~silent
  /\ main' = [op |-> "output", channel |-> c, number |-> number]
  /\ UNCHANGED <<channels, silent>>

OutputFits ==
  /\ main.op = "output" /\ Fits(main.channel)
  /\ Push(main.channel, main.number)
  /\ main' = Idle
  /\ UNCHANGED silent

(* sceAudioChRelease waits until the channel is drained. *)
Release(c) ==
  /\ main.op = "idle"
  /\ channels[c].active
  /\ main' = [op |-> "release", channel |-> c, number |-> 0]
  /\ UNCHANGED <<channels, silent>>

(* Faulty variant for the mutation runs: the channel is not drained first. *)
DrainedAtOnce ==
  /\ main.op = "release"
  /\ Set(main.channel, [channels[main.channel] EXCEPT !.active = FALSE])
  /\ main' = Idle
  /\ UNCHANGED silent

Drained ==
  /\ main.op = "release"
  /\ silent \/ channels[main.channel].avail <= 0
  /\ Set(main.channel, [channels[main.channel] EXCEPT !.active = FALSE])
  /\ main' = Idle
  /\ UNCHANGED silent

(* mips_audio_mix takes up to Chunk frames from every active channel. *)
Least(a, b) == IF a <= b THEN a ELSE b

(* Faulty variants for the mutation runs: samples counted as frames; the   *)
(* last frame left in the ring.                                            *)
MixedSamples(c) ==
  LET taken == Least(Chunk, channels[c].avail)
  IN  IF channels[c].active
      THEN [channels[c] EXCEPT !.read = (@ + taken) % Capacity, !.avail = @ - taken]
      ELSE channels[c]

MixedButLast(c) ==
  LET frames == Least(Chunk, channels[c].avail \div Width(c))
      taken  == frames * Width(c)
  IN  IF channels[c].active /\ channels[c].avail > Width(c)
      THEN [channels[c] EXCEPT !.read = (@ + taken) % Capacity, !.avail = @ - taken]
      ELSE channels[c]

Mixed(c) ==
  LET frames == Least(Chunk, channels[c].avail \div Width(c))
      taken  == frames * Width(c)
  IN  IF channels[c].active
      THEN [channels[c] EXCEPT !.read = (@ + taken) % Capacity, !.avail = @ - taken]
      ELSE channels[c]

Mix ==
  /\ ~silent
  /\ channels' = [c \in Channels |-> Mixed(c)]
  /\ UNCHANGED <<main, silent>>

-----------------------------------------------------------------------------
NoChannel == [active |-> FALSE, stereo |-> FALSE, count |-> CHOOSE n \in Counts : TRUE,
              ring |-> [i \in 0 .. Capacity - 1 |-> Silence],
              write |-> 0, read |-> 0, avail |-> 0]

MInit ==
  /\ channels = [c \in Channels |-> NoChannel]
  /\ main = Idle
  /\ silent \in BOOLEAN

Calls ==
  \E c \in Channels :
    \/ \E count \in Counts : SetLength(c, count) \/ \E stereo \in BOOLEAN : Reserve(c, count, stereo)
    \/ \E number \in {0, 1} : Output(c, number) \/ OutputBlocking(c, number)
    \/ Release(c)

Polls == OutputFits \/ Drained

MNext == Calls \/ Polls \/ Mix

MSpec == MInit /\ [][MNext]_mvars

(* The device keeps calling back, and the emulator thread keeps polling.   *)
FairMSpec == MSpec /\ WF_mvars(Mix) /\ WF_mvars(Polls)

-----------------------------------------------------------------------------
(* Properties *)

(* The samples of a channel that are still to be played, oldest first.     *)
Queue(c) ==
  [i \in 1 .. channels[c].avail |-> channels[c].ring[(channels[c].read + i - 1) % Capacity]]

(* The callback never plays a left sample on the right side: the queue of  *)
(* a stereo channel is made of whole frames.                               *)
FramesWhole ==
  \A c \in Channels : channels[c].stereo =>
    /\ channels[c].avail % 2 = 0
    /\ \A i \in 1 .. channels[c].avail :
         Queue(c)[i].side = IF i % 2 = 1 THEN "left" ELSE "right"

(* The type of every variable; the counters of a ring agree, and it holds  *)
(* whole frames.                                                           *)
MTypeOK ==
  /\ channels \in [Channels -> Channel]
  /\ main \in [op : {"idle", "output", "release"}, channel : Channels, number : {0, 1}]
  /\ silent \in BOOLEAN
  /\ \A c \in Channels :
       channels[c].write = (channels[c].read + channels[c].avail) % Capacity
  /\ FramesWhole

(* A call that polls in a loop returns: the queue drains. *)
CallsReturn == main.op # "idle" ~> main.op = "idle"

Abstract == INSTANCE SampleQueues WITH
              MaxQueue <- Capacity,
              reserved <- [c \in Channels |-> channels[c].active],
              queue <- [c \in Channels |-> Queue(c)],
              length <- [c \in Channels |-> Element(c)]

(* The rings play what they were given, in order, once, a block is queued  *)
(* whole or not at all, and a release cuts nothing off.                    *)
ImplementsQueues == Abstract!QSpec
=============================================================================
