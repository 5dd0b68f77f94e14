------------------------------ MODULE EventFlags ------------------------------
(***************************************************************************)
(* The event flags of mips_hle.c on top of the scheduler: a pattern of     *)
(* bits that threads set, clear and wait for.  A waiter carries a copy of  *)
(* the pattern, which it is told if its time runs out or the flag goes.    *)
(***************************************************************************)
EXTENDS Scheduler

CONSTANTS
  NumFlags,  \* MAX_EVENT_FLAGS
  Bits       \* the bits of a pattern that a program uses

ASSUME FlagsAssumption == NumFlags \in Nat

(* The modes of sceKernelWaitEventFlag: some bit or all of them (0x01), and*)
(* what is cleared for the waiter (0x20 its bits, 0x10 the whole pattern). *)
Modes == [bits : SUBSET Bits \ {{}}, some : BOOLEAN, clear : {"nothing", "bits", "all"}]

ASSUME ModesAssumption == Needs \subseteq Modes

VARIABLES
  flags,  \* kernel->events[]; the id of slot i is i + 1
  seen    \* threads[].wait_event_flag_pattern

evars == <<threads, current, nextId, nextSeq, timed, dispatch, now, flags, seen>>

FlagIds == 1 .. NumFlags
Flag    == [active : BOOLEAN, multiple : BOOLEAN, pattern : SUBSET Bits]
NoFlag  == [active |-> FALSE, multiple |-> FALSE, pattern |-> {}]

FlagWaiters(t, id) ==
  {s \in Slots : Waiting(t, s) /\ t[s].wait = "evf" /\ t[s].obj = id}

Matches(need, pattern) ==
  IF need.some THEN need.bits \cap pattern # {} ELSE need.bits \subseteq pattern

After(need, pattern) ==
  CASE need.clear = "nothing" -> pattern
    [] need.clear = "bits"    -> pattern \ need.bits
    [] need.clear = "all"     -> {}

(* Mutant of Precedes: the slots decide. *)
PrecedesBySlot(t, r, s) == r <= s

Precedes(t, r, s) == t[r].seq <= t[s].seq

(* Mutant of Serving: all who match are served by the same pattern. *)
ServingTogether(t, id, pattern, multiple) ==
  LET M == {s \in FlagWaiters(t, id) : Matches(t[s].need, pattern)}
      taken == UNION {pattern \ After(t[s].need, pattern) : s \in M}
  IN  [pattern |-> pattern \ taken, served |-> M]

(* The loop of hle_thread_wake_event_flag: the oldest waiter that matches  *)
(* what is left of the pattern, one only unless the flag takes several.    *)
Serving(t, id, pattern, multiple) ==
  LET round[n \in 0 .. NumSlots] ==
        IF n = 0 THEN [pattern |-> pattern, served |-> {}]
        ELSE LET last == round[n - 1]
                 M == {s \in FlagWaiters(t, id) \ last.served :
                         Matches(t[s].need, last.pattern)}
                 s == CHOOSE w \in M : \A r \in M : Precedes(t, w, r)
             IN  IF M = {} \/ (last.served # {} /\ ~multiple) THEN last
                 ELSE [pattern |-> After(t[s].need, last.pattern),
                       served  |-> last.served \cup {s}]
  IN  round[Cardinality(FlagWaiters(t, id))]

(* clear_thread_wait forgets the copies; the others are kept. *)
KeepSeen ==
  seen' = [s \in Slots |-> IF threads'[s].wait = "evf" THEN seen[s] ELSE {}]

(* Mutant of Update: only the thread table is written. *)
UpdateFlagOnly(id, pattern) ==
  /\ flags' = [flags EXCEPT ![id].pattern = pattern]
  /\ KeepSeen

(* The pattern changes, and hle_thread_update_event_flag_pattern.          *)
Update(id, pattern) ==
  /\ flags' = [flags EXCEPT ![id].pattern = pattern]
  /\ seen' = [s \in Slots |-> IF s \in FlagWaiters(threads', id) THEN pattern
                              ELSE IF threads'[s].wait = "evf" THEN seen[s] ELSE {}]

-----------------------------------------------------------------------------
CreateFlag(pattern, multiple) ==
  LET unused == {i \in FlagIds : ~flags[i].active}
  IN  /\ Alive
      /\ unused # {}
      /\ flags' = [flags EXCEPT ![First(unused)] =
                     [active |-> TRUE, multiple |-> multiple, pattern |-> pattern]]
      /\ UNCHANGED <<vars, seen>>

(* Mutant of DeleteFlag: the waiters stay. *)
DeleteFlagLeaves(id) ==
  /\ Alive
  /\ flags[id].active
  /\ flags' = [flags EXCEPT ![id] = NoFlag]
  /\ UNCHANGED <<vars, seen>>

DeleteFlag(id) ==
  LET k == WakeExpired(Kernel, now)
      j == Wake(k, FlagWaiters(k.tcbs, id), [s \in Slots |-> "deleted"])
  IN  /\ Alive
      /\ flags[id].active
      /\ flags' = [flags EXCEPT ![id] = NoFlag]
      /\ threads' = j.tcbs
      /\ timed' = j.timed
      /\ KeepSeen
      /\ UNCHANGED <<current, nextId, nextSeq, dispatch, now>>

SetFlag(id, bits) ==
  LET k == WakeExpired(Kernel, now)
      result == Serving(k.tcbs, id, flags[id].pattern \cup bits, flags[id].multiple)
      j == Wake(k, result.served, [s \in Slots |-> "ok"])
  IN  /\ Alive
      /\ flags[id].active
      /\ threads' = j.tcbs
      /\ timed' = j.timed
      /\ Update(id, result.pattern)
      /\ UNCHANGED <<current, nextId, nextSeq, dispatch, now>>

(* sceKernelClearEventFlag keeps the bits of its mask and does not look at *)
(* the clock.                                                              *)
ClearFlag(id, mask) ==
  /\ Alive
  /\ flags[id].active
  /\ UNCHANGED vars
  /\ Update(id, flags[id].pattern \cap mask)

(* sceKernelWaitEventFlag takes what is there, ahead of those who wait.    *)
WaitFlagTakes(id, need) ==
  /\ Alive /\ dispatch
  /\ flags[id].active
  /\ Matches(need, flags[id].pattern)
  /\ UNCHANGED vars
  /\ Update(id, After(need, flags[id].pattern))

(* A second waiter is refused unless the flag takes several; those whose   *)
(* time is up and who do not know yet count.                               *)
MayWait(id) == flags[id].multiple \/ FlagWaiters(threads, id) = {}

(* Mutant of WaitFlagBlocks: a wait is registered without the check. *)
WaitFlagBlocksUnchecked(id, need, d) ==
  /\ Alive /\ dispatch
  /\ flags[id].active
  /\ MayWait(id)
  /\ BlockInOrder(Kernel, "evf", id, need, d)
  /\ seen' = [s \in Slots |-> IF threads'[s].wait # "evf" THEN {}
                              ELSE IF s = Self THEN flags[id].pattern ELSE seen[s]]
  /\ UNCHANGED <<nextId, dispatch, flags>>

WaitFlagBlocks(id, need, d) ==
  /\ Alive /\ dispatch
  /\ flags[id].active
  /\ ~Matches(need, flags[id].pattern)
  /\ MayWait(id)
  /\ BlockInOrder(Kernel, "evf", id, need, d)
  /\ seen' = [s \in Slots |-> IF threads'[s].wait # "evf" THEN {}
                              ELSE IF s = Self THEN flags[id].pattern ELSE seen[s]]
  /\ UNCHANGED <<nextId, dispatch, flags>>

(* sceKernelReferEventFlagStatus counts the waiters after it looked at the *)
(* clock.                                                                  *)
ReferFlagStatus(id) ==
  LET k == WakeExpired(Kernel, now)
  IN  /\ Alive
      /\ flags[id].active
      /\ threads' = k.tcbs
      /\ timed' = k.timed
      /\ KeepSeen
      /\ UNCHANGED <<current, nextId, nextSeq, dispatch, now, flags>>

-----------------------------------------------------------------------------
EInit ==
  /\ Init
  /\ flags = [i \in FlagIds |-> NoFlag]
  /\ seen = [s \in Slots |-> {}]

(* Sets of no bit and clears of none, which change nothing but what a look *)
(* at the clock changes, are left to ReferFlagStatus.                      *)
FlagCalls ==
  \/ \E pattern \in SUBSET Bits, multiple \in BOOLEAN : CreateFlag(pattern, multiple)
  \/ \E id \in FlagIds :
       \/ DeleteFlag(id)
       \/ ReferFlagStatus(id)
       \/ \E bits \in SUBSET Bits \ {{}} : SetFlag(id, bits) \/ ClearFlag(id, Bits \ bits)
       \/ \E need \in Needs :
            \/ WaitFlagTakes(id, need)
            \/ \E d \in Delays \cup {0} : WaitFlagBlocks(id, need, d)

ENext == FlagCalls \/ (Next /\ KeepSeen /\ UNCHANGED flags)

ESpec == EInit /\ [][ENext]_evars

-----------------------------------------------------------------------------
(* Properties *)

(* The type of every variable; a waiter waits on a flag that exists, so no *)
(* deletion leaves one to the next owner of the id.                        *)
ETypeOK ==
  /\ TypeOK
  /\ flags \in [FlagIds -> Flag]
  /\ seen \in [Slots -> SUBSET Bits]
  /\ \A s \in Slots : Waiting(threads, s) /\ threads[s].wait = "evf" =>
       threads[s].obj \in FlagIds /\ flags[threads[s].obj].active

(* Nobody waits for what is already there: whatever sequence of sets,      *)
(* clears, timeouts and terminations led here, no waiter was left behind.  *)
NobodyLeftBehind ==
  \A id \in FlagIds : \A s \in FlagWaiters(threads, id) :
    ~Matches(threads[s].need, flags[id].pattern)

(* The copy of the pattern that a waiter is told when it gives up is the   *)
(* pattern of its flag, though every call but the wait may change it.      *)
CopiesFresh ==
  \A id \in FlagIds : \A s \in FlagWaiters(threads, id) : seen[s] = flags[id].pattern

Served(s) == threads'[s].state \in {"READY", "RUNNING"} /\ threads'[s].v0 = "ok"

(* Of two waiters that want the same from the same flag, the one that came *)
(* first is served first.                                                  *)
SameNeedsInOrder ==
  [][\A id \in FlagIds : \A r, s \in FlagWaiters(threads, id) :
       /\ threads[r].need = threads[s].need
       /\ threads[r].seq < threads[s].seq
       /\ Served(s)
       => ~Waiting(threads', r)]_evars

Takes(need) == ~need.some /\ need.clear # "nothing"

(* The bits of a flag can pass a resource around: two waiters who each take*)
(* a bit for themselves are never served by the same sceKernelSetEventFlag.*)
BitsTakenOnce ==
  [][\A id \in FlagIds : \A r, s \in FlagWaiters(threads, id) :
       /\ r # s
       /\ Takes(threads[r].need) /\ Takes(threads[s].need)
       /\ threads[r].need.bits \cap threads[s].need.bits # {}
       => ~(Served(r) /\ Served(s))]_evars
=============================================================================
