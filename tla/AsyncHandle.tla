----------------------------- MODULE AsyncHandle -----------------------------
(***************************************************************************)
(* What file descriptors promise about asynchronous requests: a descriptor *)
(* has one at a time, it completes once, and the program collects exactly  *)
(* its result, once, before the next request is accepted.  Closing drops   *)
(* it.  No call reaches a descriptor that it does not name.                *)
(***************************************************************************)
EXTENDS Integers

CONSTANT Handles

VARIABLES
  status,  \* closed, idle, busy (a request is under way) or ready (has a result)
  asked,   \* the number of the latest request
  got      \* the number of the request whose result was collected last

hvars == <<status, asked, got>>

Moves(h, from, to) ==
  /\ status[h] \in from
  /\ \E s \in to : status' = [status EXCEPT ![h] = s]

Open(h) == Moves(h, {"closed"}, {"idle"}) /\ UNCHANGED <<asked, got>>

(* A request is accepted; one that needs no worker is ready at once.       *)
Submit(h) ==
  /\ Moves(h, {"closed", "idle"}, {"busy", "ready"})
  /\ asked' = [asked EXCEPT ![h] = @ + 1]
  /\ UNCHANGED got

Complete(h) == Moves(h, {"busy"}, {"ready"}) /\ UNCHANGED <<asked, got>>

Collect(h) ==
  /\ Moves(h, {"ready"}, {"idle"})
  /\ got' = [got EXCEPT ![h] = asked[h]]
  /\ UNCHANGED asked

Close(h) == Moves(h, {"idle", "busy", "ready"}, {"closed"}) /\ UNCHANGED <<asked, got>>

HInit ==
  /\ status = [h \in Handles |-> "closed"]
  /\ asked = [h \in Handles |-> 0]
  /\ got = [h \in Handles |-> 0]

HNext ==
  \E h \in Handles : Open(h) \/ Submit(h) \/ Complete(h) \/ Collect(h) \/ Close(h)

HSpec == HInit /\ [][HNext]_hvars
=============================================================================
