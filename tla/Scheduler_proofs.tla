-------------------------- MODULE Scheduler_proofs --------------------------
(***************************************************************************)
(* Proofs about Scheduler for any number of slots, threads and clock ticks. *)
(*                                                                         *)
(* Every call updates a copy of the kernel's tables step by step and may   *)
(* end in a context switch.  The lemmas follow that shape: what ClearWaits *)
(* and Wake return, that waking threads keeps a table consistent (Wakes),  *)
(* and what RunScheduler makes of a table that is consistent but for the   *)
(* running thread.                                                         *)
(***************************************************************************)
EXTENDS Scheduler, TLAPS, FiniteSetTheorems, WellFoundedInduction

KernelType == [tcbs : [Slots -> Tcb], timed : Nat]

(* The invariants, of a table t and the next id n. *)
NoneRunning(t) == \A s \in Slots : t[s].state # "RUNNING"

UniqueIds(t, n) ==
  /\ \A s \in Slots : t[s].id < n
  /\ \A r, s \in Slots : t[r].id = t[s].id /\ t[r].id # 0 => r = s
  /\ \A s \in Slots : t[s].id = 0 /\ t[s].state # "FREE" => s = 0

Tidy(t, S) == \A s \in S : t[s].state # "WAITING" => t[s] = Cleared(t[s])

LiveStates == {"RUNNING", "READY", "WAITING"}

HasTarget(t, s) == \E r \in Slots : t[r].id = t[s].obj /\ t[r].state \in LiveStates

EndWaiter(t, s) == Waiting(t, s) /\ t[s].wait \in EndWaits

Targets(t) == \A s \in Slots : EndWaiter(t, s) => HasTarget(t, s)

(* Table u is table t after some waiters became READY. *)
Wakes(t, u) ==
  \A s \in Slots :
    \/ u[s] = t[s]
    \/ /\ t[s].state = "WAITING"
       /\ u[s].state = "READY"
       /\ u[s].id = t[s].id
       /\ u[s] = Cleared(u[s])

(* The count of timed waits is right. *)
WithDeadline(t) == {s \in Slots : t[s].deadline # 0}

Counted(k) == k.timed = Cardinality(WithDeadline(k.tcbs))

-----------------------------------------------------------------------------
(* Operators on the tables *)

LEMMA FieldValues ==
  /\ \A w \in EndWaits \cup TimedWaits : w \in Waits
  /\ "none" \in Waits
  /\ NoNeed \in AnyNeed
  /\ -1 \in Int
BY DEF Waits, AnyNeed

LEMMA ClearedType ==
  ASSUME NEW tcb \in Tcb
  PROVE  /\ Cleared(tcb) \in Tcb
         /\ Cleared(tcb).state = tcb.state
         /\ Cleared(tcb).id = tcb.id
         /\ Cleared(tcb).v0 = tcb.v0
         /\ Cleared(tcb).deadline = 0
         /\ Cleared(Cleared(tcb)) = Cleared(tcb)
BY FieldValues DEF Cleared, Tcb

LEMMA AwakeType ==
  ASSUME NEW tcb \in Tcb, NEW result \in Results
  PROVE  /\ Awake(tcb, result) \in Tcb
         /\ Awake(tcb, result).state = "READY"
         /\ Awake(tcb, result).id = tcb.id
         /\ Awake(tcb, result).deadline = 0
         /\ Cleared(Awake(tcb, result)) = Awake(tcb, result)
<1> DEFINE c == Cleared(tcb)
<1>1. /\ c \in Tcb /\ c.id = tcb.id
      /\ c.wait = "none" /\ c.obj = -1 /\ c.need = NoNeed /\ c.deadline = 0 /\ c.seq = 0
  BY ClearedType DEF Cleared, Tcb
<1> DEFINE a == [c EXCEPT !.state = "READY", !.v0 = result]
<1>2. Awake(tcb, result) = a
  BY DEF Awake
<1> HIDE DEF c
<1>3. /\ a \in Tcb /\ a.state = "READY" /\ a.id = c.id
      /\ a.wait = "none" /\ a.obj = -1 /\ a.need = NoNeed /\ a.deadline = 0 /\ a.seq = 0
  BY <1>1 DEF Tcb, States
<1> HIDE DEF a
<1>4. Cleared(a) = a
  BY <1>3 DEF Cleared, Tcb
<1> QED
  BY <1>1, <1>2, <1>3, <1>4

LEMMA ZeroTcbType ==
  /\ ZeroTcb \in Tcb
  /\ Cleared(ZeroTcb) = ZeroTcb
  /\ ZeroTcb.id = 0
  /\ ZeroTcb.state = "FREE"
  /\ ZeroTcb.deadline = 0
<1>1. ZeroTcb \in Tcb
  BY FieldValues DEF ZeroTcb, Tcb, States, Results
<1>2. /\ ZeroTcb.wait = "none" /\ ZeroTcb.obj = -1 /\ ZeroTcb.need = NoNeed
      /\ ZeroTcb.deadline = 0 /\ ZeroTcb.seq = 0
  BY DEF ZeroTcb
<1> QED
  BY <1>1, <1>2 DEF Cleared, Tcb, ZeroTcb

LEMMA ClearedHasNoDeadline ==
  ASSUME NEW tcb \in Tcb, Cleared(tcb) = tcb
  PROVE  tcb.deadline = 0 /\ tcb.wait = "none"
BY DEF Cleared, Tcb

(* A thread that waits for nothing changes its state. *)
LEMMA StateChange ==
  ASSUME NEW tcb \in Tcb, Cleared(tcb) = tcb, NEW st \in States
  PROVE  LET c == [tcb EXCEPT !.state = st]
         IN  c \in Tcb /\ Cleared(c) = c /\ c.id = tcb.id /\ c.state = st
<1> DEFINE c == [tcb EXCEPT !.state = st]
<1>1. /\ tcb.wait = "none" /\ tcb.obj = -1 /\ tcb.need = NoNeed
      /\ tcb.deadline = 0 /\ tcb.seq = 0
  BY DEF Cleared, Tcb
<1>2. /\ c \in Tcb /\ c.id = tcb.id /\ c.state = st
      /\ c.wait = "none" /\ c.obj = -1 /\ c.need = NoNeed
      /\ c.deadline = 0 /\ c.seq = 0
  BY <1>1 DEF Tcb
<1> HIDE DEF c
<1>3. Cleared(c) = c
  BY <1>2 DEF Cleared, Tcb
<1> QED
  BY <1>2, <1>3 DEF c

LEMMA NewTcbType ==
  ASSUME nextId \in Nat, NEW st \in States
  PROVE  /\ NewTcb(st) \in Tcb /\ Cleared(NewTcb(st)) = NewTcb(st)
         /\ NewTcb(st).id = nextId /\ NewTcb(st).state = st
<1> DEFINE tcb == NewTcb(st)
<1>1. /\ ZeroTcb \in Tcb
      /\ ZeroTcb.wait = "none" /\ ZeroTcb.obj = -1 /\ ZeroTcb.need = NoNeed
      /\ ZeroTcb.deadline = 0 /\ ZeroTcb.seq = 0
  BY ZeroTcbType DEF ZeroTcb
<1>2. /\ tcb \in Tcb /\ tcb.id = nextId /\ tcb.state = st
      /\ tcb.wait = "none" /\ tcb.obj = -1 /\ tcb.need = NoNeed
      /\ tcb.deadline = 0 /\ tcb.seq = 0
  BY <1>1 DEF NewTcb, Tcb
<1> HIDE DEF tcb
<1>3. Cleared(tcb) = tcb
  BY <1>2 DEF Cleared, Tcb
<1> QED
  BY <1>2, <1>3 DEF tcb

LEMMA SlotsFinite == \A S \in SUBSET Slots : IsFiniteSet(S) /\ Cardinality(S) \in Nat
<1>1. IsFiniteSet(Slots)
  BY FS_Interval, SlotsAssumption DEF Slots
<1> QED
  BY <1>1, FS_Subset, FS_CardinalityType

LEMMA WithTcbType ==
  ASSUME NEW k \in KernelType, NEW s \in Slots, NEW tcb \in Tcb
  PROVE  /\ WithTcb(k, s, tcb) \in KernelType
         /\ WithTcb(k, s, tcb).timed = k.timed
         /\ \A r \in Slots : WithTcb(k, s, tcb).tcbs[r] = IF r = s THEN tcb ELSE k.tcbs[r]
BY DEF WithTcb, KernelType

LEMMA ClearWaitsType ==
  ASSUME NEW k \in KernelType, NEW S \in SUBSET Slots
  PROVE  /\ ClearWaits(k, S) \in KernelType
         /\ \A s \in Slots : ClearWaits(k, S).tcbs[s] =
              IF s \in S THEN Cleared(k.tcbs[s]) ELSE k.tcbs[s]
<1> DEFINE D == {s \in S : k.tcbs[s].deadline # 0}
<1>1. Cardinality(D) \in Nat
  BY SlotsFinite
<1>2. \A s \in Slots : Cleared(k.tcbs[s]) \in Tcb
  BY ClearedType DEF KernelType
<1> HIDE DEF D
<1>3. (IF k.timed > Cardinality(D) THEN k.timed - Cardinality(D) ELSE 0) \in Nat
  BY <1>1 DEF KernelType
<1> QED
  BY <1>2, <1>3 DEF ClearWaits, KernelType, D

(* Equal deadlines need equal counts. *)
LEMMA CountedAlike ==
  ASSUME NEW k, NEW j, Counted(k), j.timed = k.timed,
         \A s \in Slots : j.tcbs[s].deadline = 0 <=> k.tcbs[s].deadline = 0
  PROVE  Counted(j)
<1>1. WithDeadline(j.tcbs) = WithDeadline(k.tcbs)
  BY DEF WithDeadline
<1> QED
  BY <1>1 DEF Counted

LEMMA ClearWaitsCounted ==
  ASSUME NEW k \in KernelType, NEW S \in SUBSET Slots, Counted(k)
  PROVE  Counted(ClearWaits(k, S))
<1> DEFINE T == WithDeadline(k.tcbs)
           D == {s \in S : k.tcbs[s].deadline # 0}
           c == ClearWaits(k, S)
<1>1. IsFiniteSet(T) /\ Cardinality(T) \in Nat /\ Cardinality(D) \in Nat
  BY SlotsFinite DEF WithDeadline
<1>2. T \cap S = D
  BY DEF WithDeadline
<1>7. Cardinality(T \ S) = Cardinality(T) - Cardinality(T \cap S)
  BY <1>1, FS_Difference
<1>8. Cardinality(T \cap S) <= Cardinality(T)
  BY <1>1, FS_Intersection
<1>3. Cardinality(T \ S) = Cardinality(T) - Cardinality(D) /\ Cardinality(D) <= Cardinality(T)
  BY <1>2, <1>7, <1>8
<1>4. WithDeadline(c.tcbs) = T \ S
  <2>1. \A s \in Slots : c.tcbs[s] = IF s \in S THEN Cleared(k.tcbs[s]) ELSE k.tcbs[s]
    BY ClearWaitsType
  <2>2. \A s \in Slots : Cleared(k.tcbs[s]).deadline = 0
    BY ClearedType DEF KernelType
  <2> HIDE DEF c
  <2> QED
    BY <2>1, <2>2 DEF WithDeadline
<1>5. c.timed = IF k.timed > Cardinality(D) THEN k.timed - Cardinality(D) ELSE 0
  BY DEF ClearWaits
<1> HIDE DEF c, D
<1>6. c.timed = Cardinality(T) - Cardinality(D)
  BY <1>1, <1>3, <1>5 DEF Counted
<1> QED
  BY <1>3, <1>4, <1>6 DEF Counted, c

LEMMA WakeType ==
  ASSUME NEW k \in KernelType, NEW S \in SUBSET Slots, NEW result \in [Slots -> Results]
  PROVE  /\ Wake(k, S, result) \in KernelType
         /\ \A s \in Slots : Wake(k, S, result).tcbs[s] =
              IF s \in S THEN Awake(k.tcbs[s], result[s]) ELSE k.tcbs[s]
<1>1. ClearWaits(k, S) \in KernelType
  BY ClearWaitsType
<1>2. [s \in Slots |-> IF s \in S THEN Awake(k.tcbs[s], result[s]) ELSE k.tcbs[s]]
        \in [Slots -> Tcb]
  BY AwakeType DEF KernelType
<1> QED
  BY <1>1, <1>2 DEF Wake, KernelType

(* Waking waiters is what Wakes says. *)
LEMMA WakeWakes ==
  ASSUME NEW k \in KernelType, NEW S \in SUBSET Slots, NEW result \in [Slots -> Results],
         \A s \in S : Waiting(k.tcbs, s)
  PROVE  Wakes(k.tcbs, Wake(k, S, result).tcbs)
<1> DEFINE u == Wake(k, S, result).tcbs
<1>1. \A s \in Slots : u[s] = IF s \in S THEN Awake(k.tcbs[s], result[s]) ELSE k.tcbs[s]
  BY WakeType
<1>2. \A s \in S : /\ k.tcbs[s].state = "WAITING"
                   /\ k.tcbs[s] \in Tcb
                   /\ result[s] \in Results
  BY DEF Waiting, KernelType
<1> HIDE DEF u
<1>3. ASSUME NEW s \in S
      PROVE  /\ u[s].state = "READY" /\ u[s].id = k.tcbs[s].id /\ Cleared(u[s]) = u[s]
  <2>1. u[s] = Awake(k.tcbs[s], result[s])
    BY <1>1
  <2> QED
    BY <2>1, <1>2, AwakeType
<1> QED
  BY <1>1, <1>2, <1>3 DEF Wakes, u

LEMMA WakeCounted ==
  ASSUME NEW k \in KernelType, NEW S \in SUBSET Slots, NEW result \in [Slots -> Results],
         Counted(k)
  PROVE  Counted(Wake(k, S, result))
<1> DEFINE c == ClearWaits(k, S)
           w == Wake(k, S, result)
<1>1. Counted(c) /\ \A s \in Slots : c.tcbs[s] = IF s \in S THEN Cleared(k.tcbs[s]) ELSE k.tcbs[s]
  BY ClearWaitsCounted, ClearWaitsType
<1>2. \A s \in Slots : w.tcbs[s] = IF s \in S THEN Awake(k.tcbs[s], result[s]) ELSE k.tcbs[s]
  BY WakeType
<1>3. w.timed = c.timed
  BY ClearWaitsType DEF Wake, KernelType
<1>4. \A s \in Slots : Cleared(k.tcbs[s]).deadline = 0 /\ Awake(k.tcbs[s], result[s]).deadline = 0
  BY ClearedType, AwakeType DEF KernelType
<1> HIDE DEF c, w
<1>5. \A s \in Slots : w.tcbs[s].deadline = 0 <=> c.tcbs[s].deadline = 0
  BY <1>1, <1>2, <1>4
<1>6. Counted(w)
  BY <1>1, <1>3, <1>5, CountedAlike
<1> QED
  BY <1>6 DEF w

LEMMA WakeExpiredWakes ==
  ASSUME NEW k \in KernelType, NEW at \in Nat
  PROVE  /\ WakeExpired(k, at) \in KernelType
         /\ Wakes(k.tcbs, WakeExpired(k, at).tcbs)
         /\ Counted(k) => Counted(WakeExpired(k, at))
<1> DEFINE result == [s \in Slots |-> ExpiryResult(k.tcbs[s])]
<1>1. result \in [Slots -> Results]
  BY DEF ExpiryResult, Results
<1>2. CASE k.timed = 0
  BY <1>2 DEF WakeExpired, Wakes
<1>3. CASE k.timed # 0
  BY <1>1, <1>3, WakeType, WakeWakes, WakeCounted DEF WakeExpired, Expired
<1> QED
  BY <1>2, <1>3

LEMMA WakeEndWaitersWakes ==
  ASSUME NEW k \in KernelType, NEW target
  PROVE  /\ WakeEndWaiters(k, target) \in KernelType
         /\ Wakes(k.tcbs, WakeEndWaiters(k, target).tcbs)
         /\ \A s \in Slots : EndWaiter(WakeEndWaiters(k, target).tcbs, s) =>
              /\ WakeEndWaiters(k, target).tcbs[s] = k.tcbs[s]
              /\ k.tcbs[s].obj # target
         /\ Counted(k) => Counted(WakeEndWaiters(k, target))
<1> DEFINE S == EndWaiters(k.tcbs, target)
           result == [s \in Slots |-> "ok"]
<1>1. result \in [Slots -> Results] /\ S \in SUBSET Slots
  BY DEF Results, EndWaiters
<1>2. \A s \in S : Waiting(k.tcbs, s)
  BY DEF EndWaiters
<1>3. WakeEndWaiters(k, target) = Wake(k, S, result)
  BY DEF WakeEndWaiters
<1> HIDE DEF S, result
<1>4. \A s \in S : Wake(k, S, result).tcbs[s].state = "READY"
  <2> SUFFICES ASSUME NEW s \in S PROVE Wake(k, S, result).tcbs[s].state = "READY"
    OBVIOUS
  <2>1. Wake(k, S, result).tcbs[s] = Awake(k.tcbs[s], result[s])
    BY <1>1, WakeType
  <2>2. k.tcbs[s] \in Tcb /\ result[s] \in Results
    BY <1>1 DEF KernelType
  <2> QED
    BY <2>1, <2>2, AwakeType
<1>5. \A s \in Slots \ S : Wake(k, S, result).tcbs[s] = k.tcbs[s]
  BY <1>1, WakeType
<1> QED
  BY <1>1, <1>2, <1>3, <1>4, <1>5, WakeType, WakeWakes, WakeCounted
  DEF EndWaiter, EndWaiters, Waiting, S

-----------------------------------------------------------------------------
(* The context switch *)

LEMMA WakesPreserves ==
  ASSUME NEW t \in [Slots -> Tcb], NEW u \in [Slots -> Tcb], Wakes(t, u), NEW n
  PROVE  /\ \A s \in Slots : u[s].id = t[s].id
         /\ \A s \in Slots : t[s].state # "WAITING" => u[s] = t[s]
         /\ NoneRunning(t) => NoneRunning(u)
         /\ UniqueIds(t, n) => UniqueIds(u, n)
         /\ Tidy(t, Slots) => Tidy(u, Slots)
         /\ Targets(t) => Targets(u)
<1>1. \A s \in Slots : u[s].id = t[s].id
  BY DEF Wakes
<1>2. \A s \in Slots : t[s].state # "WAITING" => u[s] = t[s]
  BY DEF Wakes
<1>3. NoneRunning(t) => NoneRunning(u)
  BY DEF Wakes, NoneRunning
<1>4. UniqueIds(t, n) => UniqueIds(u, n)
  BY <1>1 DEF Wakes, UniqueIds
<1>5. Tidy(t, Slots) => Tidy(u, Slots)
  BY DEF Wakes, Tidy
<1>6. \A s \in Slots : t[s].state \in LiveStates => u[s].state \in LiveStates
  BY DEF Wakes, LiveStates
<1>7. \A s \in Slots : EndWaiter(u, s) => u[s] = t[s] /\ EndWaiter(t, s)
  BY DEF Wakes, EndWaiter, Waiting
<1>8. ASSUME Targets(t), NEW s \in Slots, EndWaiter(u, s)
      PROVE  HasTarget(u, s)
  BY <1>1, <1>6, <1>7, <1>8 DEF Targets, HasTarget
<1> QED
  BY <1>1, <1>2, <1>3, <1>4, <1>5, <1>8 DEF Targets

(* The table between saving one context and loading the next. *)
Consistent(t, n) ==
  NoneRunning(t) /\ UniqueIds(t, n) /\ Tidy(t, Slots) /\ Targets(t)

(* A table in which only the running thread's wait may be out of order,    *)
(* which is in order for the state st that thread is about to take.        *)
Switchable(t, st, n) ==
  /\ Self \in Slots
  /\ t[Self].id = current
  /\ t[Self].state = "RUNNING"
  /\ \A s \in Slots \ {Self} : t[s].state # "RUNNING"
  /\ UniqueIds(t, n)
  /\ Tidy(t, Slots \ {Self})
  /\ st # "WAITING" => t[Self] = Cleared(t[Self])
  /\ \A s \in Slots \ {Self} : EndWaiter(t, s) => HasTarget(t, s)
  /\ st = "WAITING" /\ t[Self].wait \in EndWaits => HasTarget(t, Self)

LEMMA SaveConsistent ==
  ASSUME NEW k \in KernelType, NEW st \in {"READY", "WAITING", "FREE"},
         NEW v \in Results, NEW n, Switchable(k.tcbs, st, n)
  PROVE  /\ Save(k, st, v) \in KernelType
         /\ Consistent(Save(k, st, v).tcbs, n)
         /\ Counted(k) => Counted(Save(k, st, v))
<1> DEFINE tcb == [k.tcbs[Self] EXCEPT !.state = st, !.v0 = v]
           saved == WithTcb(k, Self, tcb)
           t == k.tcbs
           u == saved.tcbs
<1>1. Self \in Slots /\ t \in [Slots -> Tcb]
  BY DEF Switchable, KernelType
<1>2. /\ tcb \in Tcb /\ tcb.id = t[Self].id /\ tcb.state = st
      /\ tcb.wait = t[Self].wait /\ tcb.obj = t[Self].obj
      /\ tcb.deadline = t[Self].deadline
  BY <1>1 DEF Tcb, States
<1>3. st # "WAITING" => Cleared(tcb) = tcb
  BY <1>1 DEF Cleared, Tcb, Switchable
<1> HIDE DEF tcb
<1>4. /\ saved \in KernelType
      /\ saved.timed = k.timed
      /\ \A s \in Slots : u[s] = IF s = Self THEN tcb ELSE t[s]
  BY <1>1, <1>2, WithTcbType
<1>12. Counted(k) => Counted(saved)
  BY <1>2, <1>4, CountedAlike
<1> HIDE DEF saved
<1>5. \A s \in Slots : u[s].id = t[s].id
  BY <1>1, <1>2, <1>4
<1>6. NoneRunning(u)
  BY <1>2, <1>4 DEF Switchable, NoneRunning
<1>7. UniqueIds(u, n)
  BY <1>2, <1>4, <1>5 DEF Switchable, UniqueIds
<1>8. Tidy(u, Slots)
  BY <1>2, <1>3, <1>4 DEF Switchable, Tidy
<1>9. \A s \in Slots : EndWaiter(u, s) =>
        \E r \in Slots : /\ u[r].id = u[s].obj
                         /\ t[r].state \in LiveStates
                         /\ u[r].state \in LiveStates \/ u[r].id = current
  <2>1. \A s \in Slots : EndWaiter(u, s) => HasTarget(t, s) /\ u[s].obj = t[s].obj
    BY <1>2, <1>4 DEF Switchable, EndWaiter, Waiting
  <2>2. \A r \in Slots : t[r].state \in LiveStates => u[r].state \in LiveStates \/ u[r].id = current
    BY <1>2, <1>4 DEF Switchable
  <2> QED
    BY <1>5, <2>1, <2>2 DEF HasTarget
<1>10. CASE st # "FREE"
  <2>1. \A r \in Slots : t[r].state \in LiveStates => u[r].state \in LiveStates
    BY <1>2, <1>4, <1>10 DEF LiveStates
  <2>2. Targets(u)
    BY <1>9, <2>1 DEF Targets, HasTarget
  <2> QED
    BY <1>4, <1>6, <1>7, <1>8, <1>10, <1>12, <2>2 DEF Save, saved, tcb, Consistent
<1>11. CASE st = "FREE"
  <2> DEFINE c == ClearWaits(saved, {Self})
             w == WakeEndWaiters(c, current)
  <2>1. Save(k, st, v) = w
    BY <1>11 DEF Save, saved, tcb
  <2>2. c \in KernelType /\ \A s \in Slots : c.tcbs[s] = u[s]
    BY <1>1, <1>3, <1>4, <1>11, ClearWaitsType
  <2>3. c.tcbs = u
    BY <1>4, <2>2 DEF KernelType
  <2>9. Counted(k) => Counted(c)
    BY <1>1, <1>4, <1>12, ClearWaitsCounted
  <2> HIDE DEF c
  <2>4. /\ w \in KernelType
        /\ Wakes(u, w.tcbs)
        /\ \A s \in Slots : EndWaiter(w.tcbs, s) => w.tcbs[s] = u[s] /\ u[s].obj # current
        /\ Counted(c) => Counted(w)
    BY <2>2, <2>3, WakeEndWaitersWakes
  <2> HIDE DEF w
  <2>5. u \in [Slots -> Tcb] /\ w.tcbs \in [Slots -> Tcb]
    BY <1>4, <2>4 DEF KernelType
  <2>6. NoneRunning(w.tcbs) /\ UniqueIds(w.tcbs, n) /\ Tidy(w.tcbs, Slots)
    BY <1>6, <1>7, <1>8, <2>4, <2>5, WakesPreserves
  <2>7. \A r \in Slots : /\ w.tcbs[r].id = u[r].id
                         /\ u[r].state \in LiveStates => w.tcbs[r].state \in LiveStates
    BY <2>4 DEF Wakes, LiveStates
  <2>8. ASSUME NEW s \in Slots, EndWaiter(w.tcbs, s)
        PROVE  HasTarget(w.tcbs, s)
    <3>1. w.tcbs[s] = u[s] /\ u[s].obj # current /\ EndWaiter(u, s)
      BY <2>4, <2>8 DEF EndWaiter, Waiting
    <3> QED
      BY <1>9, <2>7, <3>1 DEF HasTarget
  <2> QED
    BY <2>1, <2>4, <2>6, <2>8, <2>9 DEF Consistent, Targets
<1> QED
  BY <1>10, <1>11

LEMMA WakeExpiredConsistent ==
  ASSUME NEW k \in KernelType, NEW at \in Nat, NEW n, Consistent(k.tcbs, n)
  PROVE  /\ WakeExpired(k, at) \in KernelType
         /\ Consistent(WakeExpired(k, at).tcbs, n)
         /\ Counted(k) => Counted(WakeExpired(k, at))
<1> DEFINE w == WakeExpired(k, at)
<1>1. w \in KernelType /\ Wakes(k.tcbs, w.tcbs) /\ (Counted(k) => Counted(w))
  BY WakeExpiredWakes
<1> HIDE DEF w
<1>2. k.tcbs \in [Slots -> Tcb] /\ w.tcbs \in [Slots -> Tcb]
  BY <1>1 DEF KernelType
<1>3. Consistent(w.tcbs, n)
  BY <1>1, <1>2, WakesPreserves DEF Consistent
<1> QED
  BY <1>1, <1>3 DEF w

(* The invariants, of a table t, the running thread c and the next id n. *)
OneRunning(t, c) ==
  \/ c = -1 /\ NoneRunning(t)
  \/ \E s \in Slots : /\ t[s].state = "RUNNING"
                      /\ t[s].id = c
                      /\ \A r \in Slots \ {s} : t[r].state # "RUNNING"

Sound(t, c, n) ==
  /\ t \in [Slots -> Tcb]
  /\ c \in Nat \cup {-1}
  /\ OneRunning(t, c)
  /\ UniqueIds(t, n)
  /\ Tidy(t, Slots)
  /\ Targets(t)

LEMMA SwitchToSound ==
  ASSUME NEW k \in KernelType, NEW n, Consistent(k.tcbs, n),
         NEW s \in Slots, s \in ReadySlots(k.tcbs), SwitchTo(k, s)
  PROVE  /\ Sound(threads', current', n)
         /\ timed' \in Nat
         /\ Counted(k) => TimedWaitsCounted'
<1> DEFINE t == k.tcbs
           u == [t EXCEPT ![s].state = "RUNNING"]
<1>1. t \in [Slots -> Tcb] /\ t[s].state = "READY" /\ t[s] = Cleared(t[s])
  BY DEF KernelType, ReadySlots, Consistent, Tidy
<1>2. /\ [t[s] EXCEPT !.state = "RUNNING"] \in Tcb
      /\ [t[s] EXCEPT !.state = "RUNNING"] = Cleared([t[s] EXCEPT !.state = "RUNNING"])
      /\ [t[s] EXCEPT !.state = "RUNNING"].id = t[s].id
      /\ [t[s] EXCEPT !.state = "RUNNING"].state = "RUNNING"
      /\ [t[s] EXCEPT !.state = "RUNNING"].deadline = 0
      /\ t[s].deadline = 0
  <2> DEFINE tcb == [t[s] EXCEPT !.state = "RUNNING"]
  <2>1. t[s] \in Tcb /\ Cleared(t[s]) = t[s] /\ "RUNNING" \in States
    BY <1>1 DEF States
  <2>2. tcb \in Tcb /\ Cleared(tcb) = tcb /\ tcb.id = t[s].id /\ tcb.state = "RUNNING"
    BY <2>1, StateChange
  <2> HIDE DEF tcb
  <2>3. tcb.deadline = 0 /\ t[s].deadline = 0
    BY <2>1, <2>2, ClearedHasNoDeadline
  <2> QED
    BY <2>2, <2>3 DEF tcb
<1>3. \A r \in Slots : u[r] = IF r = s THEN [t[s] EXCEPT !.state = "RUNNING"] ELSE t[r]
  BY <1>1
<1>4. u \in [Slots -> Tcb]
  BY <1>1, <1>2
<1> HIDE DEF u
<1>5. \A r \in Slots : u[r].id = t[r].id
  BY <1>2, <1>3
<1>6. OneRunning(u, t[s].id)
  <2>1. u[s].state = "RUNNING" /\ u[s].id = t[s].id
    BY <1>2, <1>3
  <2>2. \A r \in Slots \ {s} : u[r].state # "RUNNING"
    BY <1>3 DEF Consistent, NoneRunning
  <2> QED
    BY <2>1, <2>2 DEF OneRunning
<1>7. UniqueIds(u, n)
  BY <1>1, <1>2, <1>3, <1>5 DEF Consistent, UniqueIds
<1>8. Tidy(u, Slots)
  BY <1>2, <1>3 DEF Consistent, Tidy
<1>9. \A r \in Slots : t[r].state \in LiveStates => u[r].state \in LiveStates
  BY <1>2, <1>3 DEF LiveStates
<1>10. \A r \in Slots : EndWaiter(u, r) => u[r] = t[r] /\ EndWaiter(t, r)
  BY <1>2, <1>3 DEF EndWaiter, Waiting
<1>11. Targets(u)
  BY <1>5, <1>9, <1>10 DEF Consistent, Targets, HasTarget
<1>12. t[s].id \in Nat
  BY <1>1 DEF Tcb
<1>13. WithDeadline(u) = WithDeadline(t)
  BY <1>2, <1>3 DEF WithDeadline
<1> QED
  BY <1>4, <1>6, <1>7, <1>8, <1>11, <1>12, <1>13
  DEF SwitchTo, Sound, KernelType, Counted, TimedWaitsCounted, WithDeadline, u

(* Whatever the running thread becomes, run_scheduler leaves a sound table.*)
LEMMA RunSchedulerSound ==
  ASSUME NEW k \in KernelType, NEW st \in {"READY", "WAITING", "FREE"},
         NEW v \in Results, NEW n, Switchable(k.tcbs, st, n), now \in Nat,
         RunScheduler(k, st, v)
  PROVE  /\ Sound(threads', current', n) /\ timed' \in Nat /\ now' \in Nat
         /\ Counted(k) => TimedWaitsCounted'
<1> DEFINE woken == WakeExpired(Save(k, st, v), now)
<1>1. woken \in KernelType /\ Consistent(woken.tcbs, n) /\ (Counted(k) => Counted(woken))
  BY SaveConsistent, WakeExpiredConsistent
<1>2. CASE /\ \E s \in Slots : NearestReady(woken.tcbs, s) /\ SwitchTo(woken, s)
           /\ now' = now
  BY <1>1, <1>2, SwitchToSound DEF NearestReady
<1>3. CASE /\ ReadySlots(woken.tcbs) = {}
           /\ \E at \in now .. MaxTime :
                /\ Expired(woken.tcbs, at) # {}
                /\ now' = at
                /\ LET late == WakeExpired(woken, at)
                   IN  \E s \in Slots : NearestReady(late.tcbs, s) /\ SwitchTo(late, s)
  <2>1. PICK at \in now .. MaxTime :
          /\ now' = at
          /\ \E s \in Slots : /\ NearestReady(WakeExpired(woken, at).tcbs, s)
                              /\ SwitchTo(WakeExpired(woken, at), s)
    BY <1>3
  <2>2. at \in Nat
    BY BoundsAssumption
  <2> HIDE DEF woken
  <2>3. /\ WakeExpired(woken, at) \in KernelType
        /\ Consistent(WakeExpired(woken, at).tcbs, n)
        /\ Counted(woken) => Counted(WakeExpired(woken, at))
    BY <1>1, <2>2, WakeExpiredConsistent
  <2> QED
    BY <1>1, <2>1, <2>2, <2>3, SwitchToSound DEF NearestReady
<1>4. CASE /\ ReadySlots(woken.tcbs) = {}
           /\ Timed(woken.tcbs) = {}
           /\ threads' = woken.tcbs
           /\ timed' = woken.timed
           /\ current' = -1
           /\ now' = now
  <2> HIDE DEF woken
  <2> QED
    BY <1>1, <1>4 DEF Sound, OneRunning, Consistent, KernelType, Counted,
                      TimedWaitsCounted, WithDeadline
<1> QED
  BY <1>2, <1>3, <1>4 DEF RunScheduler

-----------------------------------------------------------------------------
(* The calls *)

LEMMA FirstInNat ==
  ASSUME NEW S \in SUBSET Nat, S # {}
  PROVE  First(S) \in S /\ \A y \in S : First(S) <= y
<1>1. PICK x \in S : \A y \in S : ~ (<<y, x>> \in OpToRel(<, Nat))
  BY NatLessThanWellFounded, WFMin
<1>2. OpToRel(<, Nat) = {p \in Nat \X Nat : p[1] < p[2]}
  BY DEF OpToRel
<1>3. \A y \in S : ~ (y < x)
  BY <1>1, <1>2
<1>4. \A y \in S : x \in Nat /\ y \in Nat
  OBVIOUS
<1>5. \A y \in S : x <= y
  BY <1>3, <1>4
<1>6. \E z \in S : \A y \in S : z <= y
  BY <1>5
<1> QED
  BY <1>6 DEF First

LEMMA FirstIn ==
  ASSUME NEW S \in SUBSET Slots, S # {}
  PROVE  First(S) \in S
<1>1. S \in SUBSET Nat
  BY SlotsAssumption DEF Slots
<1> QED
  BY <1>1, FirstInNat

Inv ==
  /\ TypeOK
  /\ TimedWaitsCounted
  /\ OneRunningThread
  /\ ThreadIdsUnique
  /\ OnlyWaitersWait
  /\ EndWaitersHaveTarget

LEMMA InvSound ==
  Inv <=> TypeOK /\ TimedWaitsCounted /\ Sound(threads, current, nextId)
BY DEF Inv, TypeOK, OneRunningThread, ThreadIdsUnique, OnlyWaitersWait,
       EndWaitersHaveTarget, Sound, OneRunning, NoneRunning, UniqueIds, Tidy,
       Targets, EndWaiter, HasTarget, LiveStates

LEMMA KernelOK ==
  ASSUME TypeOK
  PROVE  Kernel \in KernelType /\ Kernel.tcbs = threads /\ Kernel.timed = timed
         /\ (TimedWaitsCounted => Counted(Kernel))
BY DEF TypeOK, Kernel, KernelType, TimedWaitsCounted, Counted, WithDeadline

(* Self is the one slot that is RUNNING. *)
LEMMA SelfRunning ==
  ASSUME TypeOK, Sound(threads, current, nextId), Alive
  PROVE  /\ Self \in Slots
         /\ threads[Self].id = current
         /\ threads[Self].state = "RUNNING"
         /\ \A s \in Slots \ {Self} : threads[s].state # "RUNNING"
         /\ threads[Self] = Cleared(threads[Self])
         /\ threads[Self].wait = "none"
<1>1. PICK x \in Slots : /\ threads[x].state = "RUNNING"
                         /\ threads[x].id = current
                         /\ \A r \in Slots \ {x} : threads[r].state # "RUNNING"
  BY DEF Sound, OneRunning, Alive
<1>2. Self \in Slots /\ threads[Self].id = current /\ threads[Self].state = "RUNNING"
  BY <1>1 DEF Self
<1>3. Self = x
  BY <1>1, <1>2
<1>4. threads[Self] = Cleared(threads[Self])
  BY <1>2 DEF Sound, Tidy
<1>5. Cleared(threads[Self]).wait = "none"
  BY <1>2 DEF Cleared, Sound, Tcb
<1> HIDE DEF Self
<1> QED
  BY <1>1, <1>2, <1>3, <1>4, <1>5

(* Between two calls the running thread may give up the CPU in any way. *)
LEMMA SwitchableNow ==
  ASSUME TypeOK, Sound(threads, current, nextId), Alive, NEW st
  PROVE  Switchable(threads, st, nextId)
<1>1. "none" \notin EndWaits
  BY DEF EndWaits
<1> QED
  BY <1>1, SelfRunning DEF Switchable, Sound, Tidy, Targets

(* What is to be shown of every call. *)
SoundStep ==
  /\ TimedWaitsCounted'
  /\ Sound(threads', current', nextId')
  /\ nextId' \in Nat
  /\ nextSeq' \in Nat
  /\ timed' \in Nat
  /\ dispatch' \in BOOLEAN
  /\ now' \in Nat

(* The running thread's wait is in its TCB and counted. *)
Waiter(k, w, obj, need, deadline, seq) ==
  [k.tcbs[Self] EXCEPT !.wait = w, !.obj = obj, !.need = need,
                       !.deadline = deadline, !.seq = seq]

Enlisted(k, w, obj, need, deadline, seq) ==
  WithTcb([k EXCEPT !.timed = @ + (IF deadline # 0 THEN 1 ELSE 0)], Self,
          Waiter(k, w, obj, need, deadline, seq))

LEMMA BlockIs ==
  ASSUME NEW k, NEW w, NEW obj, NEW need, NEW deadline, NEW seq
  PROVE  Block(k, w, obj, need, deadline, seq) <=>
           RunScheduler(Enlisted(k, w, obj, need, deadline, seq), "WAITING", "ok")
BY DEF Block, Enlisted, Waiter

(* A wait that is registered leaves a table to switch from. *)
LEMMA BlockSwitchable ==
  ASSUME NEW k \in KernelType, NEW n, Switchable(k.tcbs, "READY", n),
         NEW w \in Waits, NEW obj \in Int, NEW need \in AnyNeed,
         NEW deadline \in Nat, NEW seq \in Nat,
         w \in EndWaits => \E r \in Slots : k.tcbs[r].id = obj /\ k.tcbs[r].state \in LiveStates
  PROVE  LET kb == Enlisted(k, w, obj, need, deadline, seq)
         IN  /\ kb \in KernelType
             /\ Self \in Slots
             /\ \A s \in Slots : kb.tcbs[s] = IF s = Self THEN Waiter(k, w, obj, need, deadline, seq)
                                              ELSE k.tcbs[s]
             /\ Switchable(kb.tcbs, "WAITING", n)
             /\ Counted(k) => Counted(kb)
<1> DEFINE waiter == Waiter(k, w, obj, need, deadline, seq)
           counted == [k EXCEPT !.timed = @ + (IF deadline # 0 THEN 1 ELSE 0)]
           kb == WithTcb(counted, Self, waiter)
<1>1. Self \in Slots /\ k.tcbs[Self] \in Tcb
  BY DEF Switchable, KernelType
<1>2. /\ waiter \in Tcb /\ waiter.id = k.tcbs[Self].id
      /\ waiter.state = k.tcbs[Self].state
      /\ waiter.wait = w /\ waiter.obj = obj /\ waiter.deadline = deadline
  BY <1>1 DEF Tcb, Waiter
<1>3. /\ counted \in KernelType /\ counted.tcbs = k.tcbs
      /\ counted.timed = k.timed + (IF deadline # 0 THEN 1 ELSE 0)
  BY DEF KernelType
<1> HIDE DEF waiter, counted
<1>5. /\ kb \in KernelType
      /\ \A s \in Slots : kb.tcbs[s] = IF s = Self THEN waiter ELSE k.tcbs[s]
      /\ kb.timed = k.timed + (IF deadline # 0 THEN 1 ELSE 0)
  BY <1>1, <1>2, <1>3, WithTcbType
<1> HIDE DEF kb
<1>12. ASSUME Counted(k) PROVE Counted(kb)
  <2>1. k.tcbs[Self].deadline = 0
    BY <1>1, ClearedHasNoDeadline DEF Switchable
  <2>2. CASE deadline = 0
    <3>1. WithDeadline(kb.tcbs) = WithDeadline(k.tcbs)
      BY <1>2, <1>5, <2>1, <2>2 DEF WithDeadline
    <3> QED
      BY <1>5, <1>12, <2>2, <3>1 DEF Counted, KernelType
  <2>3. CASE deadline # 0
    <3>1. WithDeadline(kb.tcbs) = WithDeadline(k.tcbs) \cup {Self}
      BY <1>1, <1>2, <1>5, <2>3 DEF WithDeadline
    <3>2. Self \notin WithDeadline(k.tcbs) /\ IsFiniteSet(WithDeadline(k.tcbs))
      BY <2>1, SlotsFinite DEF WithDeadline
    <3>3. Cardinality(WithDeadline(kb.tcbs)) = Cardinality(WithDeadline(k.tcbs)) + 1
      BY <3>1, <3>2, FS_AddElement
    <3> QED
      BY <1>5, <1>12, <2>3, <3>3 DEF Counted
  <2> QED
    BY <2>2, <2>3
<1>6. \A s \in Slots : kb.tcbs[s].id = k.tcbs[s].id /\ kb.tcbs[s].state = k.tcbs[s].state
  BY <1>2, <1>5
<1>7. UniqueIds(kb.tcbs, n)
  BY <1>6 DEF Switchable, UniqueIds
<1>8. Tidy(kb.tcbs, Slots \ {Self})
  BY <1>5 DEF Switchable, Tidy
<1>9. ASSUME NEW s \in Slots \ {Self}, EndWaiter(kb.tcbs, s)
      PROVE  HasTarget(kb.tcbs, s)
  <2>1. kb.tcbs[s] = k.tcbs[s]
    BY <1>5
  <2>2. HasTarget(k.tcbs, s)
    BY <1>9, <2>1 DEF Switchable, EndWaiter, Waiting
  <2> QED
    BY <1>6, <2>1, <2>2 DEF HasTarget
<1>10. w \in EndWaits => HasTarget(kb.tcbs, Self)
  BY <1>1, <1>2, <1>5, <1>6 DEF HasTarget
<1>11. Switchable(kb.tcbs, "WAITING", n)
  BY <1>1, <1>2, <1>5, <1>6, <1>7, <1>8, <1>9, <1>10 DEF Switchable
<1> QED
  BY <1>1, <1>5, <1>11, <1>12 DEF kb, waiter, counted, Enlisted

LEMMA BlockSound ==
  ASSUME NEW k \in KernelType, NEW n, Switchable(k.tcbs, "READY", n), now \in Nat,
         NEW w \in Waits, NEW obj \in Int, NEW need \in AnyNeed,
         NEW deadline \in Nat, NEW seq \in Nat,
         w \in EndWaits => \E r \in Slots : k.tcbs[r].id = obj /\ k.tcbs[r].state \in LiveStates,
         Block(k, w, obj, need, deadline, seq)
  PROVE  /\ Sound(threads', current', n) /\ timed' \in Nat /\ now' \in Nat
         /\ Counted(k) => TimedWaitsCounted'
<1> DEFINE kb == Enlisted(k, w, obj, need, deadline, seq)
<1>1. kb \in KernelType /\ Switchable(kb.tcbs, "WAITING", n) /\ (Counted(k) => Counted(kb))
  BY BlockSwitchable
<1>2. RunScheduler(kb, "WAITING", "ok")
  BY BlockIs
<1> HIDE DEF kb
<1> QED
  BY <1>1, <1>2, RunSchedulerSound DEF Results

(* A FREE slot receives a new thread, as yet neither running nor waiting. *)
LEMMA NewThreadSound ==
  ASSUME NEW t \in [Slots -> Tcb], NEW c, NEW n \in Nat, Sound(t, c, n),
         NEW s \in Slots, t[s].state = "FREE",
         NEW tcb \in Tcb, Cleared(tcb) = tcb, tcb.id = n,
         tcb.state \in {"FREE", "DORMANT", "READY"},
         NEW u \in [Slots -> Tcb],
         \A r \in Slots : u[r] = IF r = s THEN tcb ELSE t[r]
  PROVE  Sound(u, c, n + 1)
<1>1. /\ tcb.id = n /\ tcb.state \in {"FREE", "DORMANT", "READY"}
      /\ tcb \in Tcb /\ Cleared(tcb) = tcb
  OBVIOUS
<1>2. \A r \in Slots : u[r] = IF r = s THEN tcb ELSE t[r]
  OBVIOUS
<1>3. \A r \in Slots : t[r].id \in Nat /\ t[r].id < n
  BY DEF Sound, UniqueIds, Tcb
<1>4. n # 0
  <2>1. 0 \in Slots
    BY SlotsAssumption DEF Slots
  <2> QED
    BY <2>1, <1>3
<1>5. UniqueIds(u, n + 1)
  <2>1. \A r \in Slots : u[r].id < n + 1
    BY <1>1, <1>2, <1>3
  <2>2. \A q, r \in Slots : u[q].id = u[r].id /\ u[q].id # 0 => q = r
    BY <1>1, <1>2, <1>3 DEF Sound, UniqueIds
  <2>3. \A r \in Slots : u[r].id = 0 /\ u[r].state # "FREE" => r = 0
    BY <1>1, <1>2, <1>4 DEF Sound, UniqueIds
  <2> QED
    BY <2>1, <2>2, <2>3 DEF UniqueIds
<1>6. OneRunning(u, c)
  BY <1>1, <1>2 DEF Sound, OneRunning, NoneRunning
<1>7. Tidy(u, Slots)
  BY <1>1, <1>2 DEF Sound, Tidy
<1>8. \A r \in Slots : EndWaiter(u, r) => u[r] = t[r] /\ EndWaiter(t, r)
  BY <1>1, <1>2 DEF EndWaiter, Waiting
<1>9. \A r \in Slots : t[r].state \in LiveStates => u[r] = t[r]
  BY <1>2 DEF LiveStates
<1>10. Targets(u)
  BY <1>8, <1>9 DEF Sound, Targets, HasTarget
<1> QED
  BY <1>5, <1>6, <1>7, <1>10 DEF Sound

(* A thread ends by another's hand: nobody waits for it any more. *)
LEMMA RemoveSound ==
  ASSUME NEW t \in [Slots -> Tcb], NEW c, NEW n \in Nat, Sound(t, c, n),
         NEW s \in Slots, t[s].id # c,
         NEW u \in [Slots -> Tcb],
         u[s] = Cleared(u[s]),
         u[s].state \in {"FREE", "DORMANT"},
         u[s].id \in {0, t[s].id},
         u[s].id = 0 => u[s].state = "FREE",
         \A r \in Slots \ {s} :
           \/ u[r] = t[r]
           \/ /\ t[r].state = "WAITING"
              /\ u[r].state = "READY"
              /\ u[r].id = t[r].id
              /\ u[r] = Cleared(u[r]),
         \A r \in Slots : EndWaiter(u, r) => t[r].obj # t[s].id
  PROVE  Sound(u, c, n)
<1>1. \A r \in Slots : t[r].id \in Nat /\ t[r].id < n
  BY DEF Sound, UniqueIds, Tcb
<1>2. \A r \in Slots \ {s} : u[r].id = t[r].id
  OBVIOUS
<1>3. UniqueIds(u, n)
  <2>1. \A r \in Slots : u[r].id < n
    BY <1>1, <1>2
  <2>2. \A q, r \in Slots : u[q].id = u[r].id /\ u[q].id # 0 => q = r
    BY <1>2 DEF Sound, UniqueIds
  <2>3. \A r \in Slots : u[r].id = 0 /\ u[r].state # "FREE" => r = 0
    BY <1>2 DEF Sound, UniqueIds
  <2> QED
    BY <2>1, <2>2, <2>3 DEF UniqueIds
<1>4. OneRunning(u, c)
  <2>1. CASE c = -1 /\ NoneRunning(t)
    BY <2>1 DEF OneRunning, NoneRunning
  <2>2. CASE \E x \in Slots : /\ t[x].state = "RUNNING"
                              /\ t[x].id = c
                              /\ \A r \in Slots \ {x} : t[r].state # "RUNNING"
    <3>1. PICK x \in Slots : /\ t[x].state = "RUNNING"
                             /\ t[x].id = c
                             /\ \A r \in Slots \ {x} : t[r].state # "RUNNING"
      BY <2>2
    <3>2. x # s /\ u[x] = t[x]
      BY <3>1
    <3>3. \A r \in Slots \ {x} : u[r].state # "RUNNING"
      BY <3>1
    <3> QED
      BY <3>1, <3>2, <3>3 DEF OneRunning
  <2> QED
    BY <2>1, <2>2 DEF Sound, OneRunning
<1>5. Tidy(u, Slots)
  BY DEF Sound, Tidy
<1>6. \A r \in Slots : EndWaiter(u, r) =>
        EndWaiter(t, r) /\ u[r] = t[r] /\ t[r].obj # t[s].id
  BY DEF EndWaiter, Waiting
<1>7. \A r \in Slots \ {s} : t[r].state \in LiveStates => u[r].state \in LiveStates
  BY DEF LiveStates
<1>8. Targets(u)
  BY <1>2, <1>6, <1>7 DEF Sound, Targets, HasTarget
<1> QED
  BY <1>3, <1>4, <1>5, <1>8 DEF Sound

LEMMA FreeHasNoDeadline ==
  ASSUME TypeOK, Sound(threads, current, nextId), NEW s \in Slots,
         threads[s].state # "WAITING"
  PROVE  threads[s].deadline = 0
BY ClearedHasNoDeadline DEF Sound, Tidy, TypeOK

LEMMA CreateThreadSound ==
  ASSUME TypeOK, TimedWaitsCounted, Sound(threads, current, nextId), CreateThread
  PROVE  SoundStep
<1> DEFINE s == First(FreeSlots(threads))
<1>1. s \in Slots /\ threads[s].state = "FREE"
  BY FirstIn DEF CreateThread, FreeSlots
<1>2. nextId \in Nat /\ threads \in [Slots -> Tcb]
  BY DEF TypeOK
<1>3. /\ NewTcb("DORMANT") \in Tcb /\ Cleared(NewTcb("DORMANT")) = NewTcb("DORMANT")
      /\ NewTcb("DORMANT").id = nextId /\ NewTcb("DORMANT").state = "DORMANT"
  BY <1>2, NewTcbType DEF States
<1>4. threads' = [threads EXCEPT ![s] = NewTcb("DORMANT")]
  BY DEF CreateThread
<1> HIDE DEF s
<1>5. threads' \in [Slots -> Tcb]
  BY <1>1, <1>3, <1>4 DEF TypeOK
<1>6. \A r \in Slots : threads'[r] = IF r = s THEN NewTcb("DORMANT") ELSE threads[r]
  BY <1>4 DEF TypeOK
<1>7. Sound(threads', current, nextId + 1)
  BY <1>1, <1>2, <1>3, <1>5, <1>6, NewThreadSound
<1>8. TimedWaitsCounted'
  <2>1. NewTcb("DORMANT").deadline = 0 /\ threads[s].deadline = 0
    BY <1>1, <1>3, FreeHasNoDeadline, ClearedHasNoDeadline
  <2>2. {r \in Slots : threads'[r].deadline # 0} = {r \in Slots : threads[r].deadline # 0}
    BY <1>6, <2>1
  <2>3. timed' = timed
    BY DEF CreateThread
  <2> QED
    BY <2>2, <2>3 DEF TimedWaitsCounted
<1> QED
  BY <1>7, <1>8 DEF SoundStep, CreateThread, TypeOK

(* The table that sceKernelStartThread switches from. *)
WithStarted(s) == WithTcb(Kernel, s, [threads[s] EXCEPT !.state = "READY"])

LEMMA StartSwitchable ==
  ASSUME TypeOK, TimedWaitsCounted, Sound(threads, current, nextId), NEW s \in Slots, StartThread(s)
  PROVE  /\ WithStarted(s) \in KernelType /\ Counted(WithStarted(s))
         /\ Switchable(WithStarted(s).tcbs, "READY", nextId)
         /\ RunScheduler(WithStarted(s), "READY", "ok")
         /\ \A r \in Slots \ {s} : WithStarted(s).tcbs[r] = threads[r]
         /\ WithStarted(s).tcbs[s].state = "READY" /\ WithStarted(s).tcbs[s].id = threads[s].id
<1> DEFINE tcb == [threads[s] EXCEPT !.state = "READY"]
           k == WithStarted(s)
<1>1. threads[s] \in Tcb /\ threads[s].state = "DORMANT" /\ threads[s] = Cleared(threads[s])
  BY DEF TypeOK, StartThread, Sound, Tidy
<1>2. /\ tcb \in Tcb /\ tcb = Cleared(tcb)
      /\ tcb.id = threads[s].id /\ tcb.state = "READY"
  BY <1>1, StateChange DEF States
<1>3. /\ k \in KernelType
      /\ k.timed = timed
      /\ \A r \in Slots : k.tcbs[r] = IF r = s THEN tcb ELSE threads[r]
  BY <1>2, KernelOK, WithTcbType DEF WithStarted, tcb
<1> HIDE DEF tcb
<1>13. Counted(k)
  <2>1. tcb.deadline = 0 /\ threads[s].deadline = 0
    BY <1>1, <1>2, ClearedHasNoDeadline
  <2> QED
    BY <1>3, <2>1, KernelOK, CountedAlike
<1>4. RunScheduler(k, "READY", "ok")
  BY DEF StartThread, WithStarted
<1> HIDE DEF k
<1>5. Alive
  BY DEF StartThread
<1>6. /\ Self \in Slots \ {s}
      /\ threads[Self].id = current
      /\ threads[Self].state = "RUNNING"
      /\ \A r \in Slots \ {Self} : threads[r].state # "RUNNING"
      /\ threads[Self] = Cleared(threads[Self])
  BY <1>1, <1>5, SelfRunning
<1>7. UniqueIds(k.tcbs, nextId)
  <2>1. \A r \in Slots : k.tcbs[r].id = threads[r].id
    BY <1>2, <1>3
  <2>2. \A r \in Slots : k.tcbs[r].state # "FREE" => threads[r].state # "FREE"
    BY <1>1, <1>3
  <2> QED
    BY <2>1, <2>2 DEF Sound, UniqueIds
<1>8. Tidy(k.tcbs, Slots)
  BY <1>2, <1>3 DEF Sound, Tidy
<1>9. Targets(k.tcbs)
  <2>1. \A r \in Slots : EndWaiter(k.tcbs, r) => k.tcbs[r] = threads[r] /\ EndWaiter(threads, r)
    BY <1>2, <1>3 DEF EndWaiter, Waiting
  <2>2. \A r \in Slots : k.tcbs[r].id = threads[r].id
    BY <1>2, <1>3
  <2>3. \A r \in Slots : threads[r].state \in LiveStates => k.tcbs[r].state \in LiveStates
    BY <1>1, <1>3 DEF LiveStates
  <2> QED
    BY <2>1, <2>2, <2>3 DEF Sound, Targets, HasTarget
<1>10. k.tcbs[Self] = threads[Self]
  BY <1>3, <1>6
<1>11. \A r \in Slots \ {Self} : k.tcbs[r].state # "RUNNING"
  BY <1>2, <1>3, <1>6
<1>12. Switchable(k.tcbs, "READY", nextId)
  BY <1>6, <1>7, <1>8, <1>9, <1>10, <1>11 DEF Switchable, Tidy, Targets
<1> QED
  BY <1>2, <1>3, <1>4, <1>12, <1>13 DEF k

LEMMA StartThreadSound ==
  ASSUME TypeOK, TimedWaitsCounted, Sound(threads, current, nextId), NEW s \in Slots, StartThread(s)
  PROVE  SoundStep
BY StartSwitchable, RunSchedulerSound DEF SoundStep, StartThread, TypeOK, Results

(* The table that sceKernelStartModule and StopModule block in. *)
WithModuleThread == WithTcb(Kernel, First(FreeSlots(threads)), NewTcb("READY"))

LEMMA ModuleThreadSwitchable ==
  ASSUME TypeOK, TimedWaitsCounted, Sound(threads, current, nextId), NEW w \in EndWaits, RunModuleThread(w)
  PROVE  /\ WithModuleThread \in KernelType /\ Counted(WithModuleThread)
         /\ Switchable(WithModuleThread.tcbs, "READY", nextId + 1)
         /\ \E s \in Slots \ {Self} :
              /\ threads[s].state = "FREE"
              /\ WithModuleThread.tcbs[s].id = nextId
              /\ WithModuleThread.tcbs[s].state = "READY"
              /\ \A r \in Slots \ {s} : WithModuleThread.tcbs[r] = threads[r]
<1> DEFINE s == First(FreeSlots(threads))
           k == WithModuleThread
<1>1. s \in Slots /\ threads[s].state = "FREE"
  BY FirstIn DEF RunModuleThread, FreeSlots
<1>2. nextId \in Nat /\ threads \in [Slots -> Tcb]
  BY DEF TypeOK
<1>3. /\ NewTcb("READY") \in Tcb /\ Cleared(NewTcb("READY")) = NewTcb("READY")
      /\ NewTcb("READY").id = nextId /\ NewTcb("READY").state = "READY"
  BY <1>2, NewTcbType DEF States
<1>4. Alive
  BY DEF RunModuleThread
<1>5. /\ k \in KernelType
      /\ k.timed = timed
      /\ \A r \in Slots : k.tcbs[r] = IF r = s THEN NewTcb("READY") ELSE threads[r]
  BY <1>1, <1>3, KernelOK, WithTcbType DEF WithModuleThread, s
<1>14. Counted(k)
  <2>1. NewTcb("READY").deadline = 0 /\ threads[s].deadline = 0
    BY <1>1, <1>3, FreeHasNoDeadline, ClearedHasNoDeadline
  <2> QED
    BY <1>5, <2>1, KernelOK, CountedAlike
<1> HIDE DEF k, s
<1>6. k.tcbs \in [Slots -> Tcb]
  BY <1>5 DEF KernelType
<1>7. Sound(k.tcbs, current, nextId + 1)
  BY <1>1, <1>2, <1>3, <1>5, <1>6, NewThreadSound
<1>8. /\ Self \in Slots \ {s}
      /\ threads[Self].id = current
      /\ threads[Self].state = "RUNNING"
      /\ \A r \in Slots \ {Self} : threads[r].state # "RUNNING"
      /\ threads[Self] = Cleared(threads[Self])
  BY <1>1, <1>4, SelfRunning
<1>9. k.tcbs[Self] = threads[Self] /\ \A r \in Slots \ {Self} : k.tcbs[r].state # "RUNNING"
  BY <1>3, <1>5, <1>8
<1>10. Switchable(k.tcbs, "READY", nextId + 1)
  BY <1>7, <1>8, <1>9 DEF Sound, Switchable, Tidy, Targets
<1> QED
  BY <1>1, <1>3, <1>5, <1>8, <1>10, <1>14 DEF k

LEMMA RunModuleThreadSound ==
  ASSUME TypeOK, TimedWaitsCounted, Sound(threads, current, nextId), NEW w \in EndWaits, RunModuleThread(w)
  PROVE  SoundStep
<1> DEFINE k == WithModuleThread
<1>1. PICK s \in Slots : k.tcbs[s].id = nextId /\ k.tcbs[s].state = "READY"
  BY ModuleThreadSwitchable
<1>2. k \in KernelType /\ Counted(k) /\ Switchable(k.tcbs, "READY", nextId + 1)
  BY ModuleThreadSwitchable
<1>3. Block(k, w, nextId, NoNeed, 0, 0)
  BY DEF RunModuleThread, WithModuleThread
<1> HIDE DEF k
<1>4. w \in Waits /\ NoNeed \in AnyNeed
  BY FieldValues
<1>5. k.tcbs[s].state \in LiveStates
  BY <1>1 DEF LiveStates
<1>6. /\ Sound(threads', current', nextId + 1) /\ timed' \in Nat /\ now' \in Nat
      /\ TimedWaitsCounted'
  <2>1. nextId \in Int /\ 0 \in Nat /\ now \in Nat
    BY DEF TypeOK
  <2> QED
    BY <1>1, <1>2, <1>3, <1>4, <1>5, <2>1, BlockSound
<1> QED
  BY <1>6 DEF SoundStep, RunModuleThread, TypeOK

LEMMA RunModuleThreadFailsSound ==
  ASSUME TypeOK, TimedWaitsCounted, Sound(threads, current, nextId), RunModuleThreadFails
  PROVE  SoundStep
<1> DEFINE s == First(FreeSlots(threads))
<1>1. s \in Slots /\ threads[s].state = "FREE"
  BY FirstIn DEF RunModuleThreadFails, FreeSlots
<1>2. nextId \in Nat /\ threads \in [Slots -> Tcb]
  BY DEF TypeOK
<1>3. /\ NewTcb("FREE") \in Tcb /\ Cleared(NewTcb("FREE")) = NewTcb("FREE")
      /\ NewTcb("FREE").id = nextId /\ NewTcb("FREE").state = "FREE"
  BY <1>2, NewTcbType DEF States
<1>4. threads' = [threads EXCEPT ![s] = NewTcb("FREE")]
  BY DEF RunModuleThreadFails
<1> HIDE DEF s
<1>5. threads' \in [Slots -> Tcb]
  BY <1>1, <1>3, <1>4 DEF TypeOK
<1>6. \A r \in Slots : threads'[r] = IF r = s THEN NewTcb("FREE") ELSE threads[r]
  BY <1>4 DEF TypeOK
<1>7. Sound(threads', current, nextId + 1)
  BY <1>1, <1>2, <1>3, <1>5, <1>6, NewThreadSound
<1>8. TimedWaitsCounted'
  <2>1. NewTcb("FREE").deadline = 0 /\ threads[s].deadline = 0
    BY <1>1, <1>3, FreeHasNoDeadline, ClearedHasNoDeadline
  <2>2. {r \in Slots : threads'[r].deadline # 0} = {r \in Slots : threads[r].deadline # 0}
    BY <1>6, <2>1
  <2>3. timed' = timed
    BY DEF RunModuleThreadFails
  <2> QED
    BY <2>2, <2>3 DEF TimedWaitsCounted
<1> QED
  BY <1>7, <1>8 DEF SoundStep, RunModuleThreadFails, TypeOK

(* Every call that only gives up the CPU. *)
LEMMA SwitchSound ==
  ASSUME TypeOK, TimedWaitsCounted, Sound(threads, current, nextId), Alive,
         NEW st \in {"READY", "WAITING", "FREE"}, NEW v \in Results,
         RunScheduler(Kernel, st, v)
  PROVE  /\ Sound(threads', current', nextId) /\ timed' \in Nat /\ now' \in Nat
         /\ TimedWaitsCounted'
BY KernelOK, SwitchableNow, RunSchedulerSound DEF TypeOK

LEMMA BlockInOrderSound ==
  ASSUME TypeOK, TimedWaitsCounted, Sound(threads, current, nextId), Alive, NEW d \in Nat,
         BlockInOrder(Kernel, "delay", -1, NoNeed, d)
  PROVE  /\ Sound(threads', current', nextId)
         /\ timed' \in Nat /\ now' \in Nat /\ nextSeq' \in Nat
         /\ TimedWaitsCounted'
<1> DEFINE deadline == IF d = 0 THEN 0 ELSE now + d
<1>1. /\ Block(Kernel, "delay", -1, NoNeed, deadline, nextSeq)
      /\ nextSeq' = nextSeq + 1
  BY DEF BlockInOrder
<1>2. deadline \in Nat /\ nextSeq \in Nat /\ now \in Nat
  BY DEF TypeOK
<1> HIDE DEF deadline
<1>3. "delay" \in Waits /\ "delay" \notin EndWaits /\ NoNeed \in AnyNeed /\ -1 \in Int
  BY FieldValues DEF TimedWaits, EndWaits
<1>4. Kernel \in KernelType /\ Switchable(Kernel.tcbs, "READY", nextId) /\ Counted(Kernel)
  BY KernelOK, SwitchableNow
<1> QED
  BY <1>1, <1>2, <1>3, <1>4, BlockSound

LEMMA WaitThreadEndSound ==
  ASSUME TypeOK, TimedWaitsCounted, Sound(threads, current, nextId), NEW s \in Slots, WaitThreadEnd(s)
  PROVE  SoundStep
<1>1. /\ Block(Kernel, "end", threads[s].id, NoNeed, 0, 0)
      /\ Alive
  BY DEF WaitThreadEnd
<1>2. threads[s].state \in LiveStates /\ threads[s].id \in Int
  BY DEF WaitThreadEnd, LiveStates, TypeOK, Tcb, States
<1>3. "end" \in Waits /\ NoNeed \in AnyNeed
  BY FieldValues DEF EndWaits
<1>4. /\ Sound(threads', current', nextId) /\ timed' \in Nat /\ now' \in Nat
      /\ TimedWaitsCounted'
  <2>1. now \in Nat /\ 0 \in Nat
    BY DEF TypeOK
  <2> QED
    BY <1>1, <1>2, <1>3, <2>1, KernelOK, SwitchableNow, BlockSound
<1> QED
  BY <1>4 DEF SoundStep, WaitThreadEnd, TypeOK

LEMMA DeleteThreadSound ==
  ASSUME TypeOK, TimedWaitsCounted, Sound(threads, current, nextId), NEW s \in Slots, DeleteThread(s)
  PROVE  SoundStep
<1> DEFINE w == WakeEndWaiters(Kernel, threads[s].id)
           c == ClearWaits(w, {s})
           k == Zeroed(c, s)
<1>1. /\ w \in KernelType
      /\ Wakes(threads, w.tcbs)
      /\ \A r \in Slots : EndWaiter(w.tcbs, r) =>
           w.tcbs[r] = threads[r] /\ threads[r].obj # threads[s].id
      /\ Counted(w)
  BY KernelOK, WakeEndWaitersWakes
<1> HIDE DEF w
<1>2. /\ c \in KernelType
      /\ \A r \in Slots \ {s} : c.tcbs[r] = w.tcbs[r]
      /\ c.tcbs[s].deadline = 0
      /\ Counted(c)
  BY <1>1, ClearWaitsType, ClearWaitsCounted, ClearedType DEF KernelType
<1> HIDE DEF c
<1>3. /\ k \in KernelType
      /\ k.timed = c.timed
      /\ \A r \in Slots : k.tcbs[r] = IF r = s THEN ZeroTcb ELSE c.tcbs[r]
  BY <1>2, ZeroTcbType, WithTcbType DEF Zeroed
<1>4. /\ threads' = k.tcbs /\ timed' = k.timed /\ threads[s].id # current
      /\ UNCHANGED <<current, nextId, nextSeq, dispatch, now>>
  BY DEF DeleteThread, k, c, w
<1> HIDE DEF k
<1>11. Counted(k)
  BY <1>2, <1>3, ZeroTcbType, CountedAlike
<1>5. threads' \in [Slots -> Tcb] /\ threads \in [Slots -> Tcb] /\ nextId \in Nat
  BY <1>3, <1>4 DEF KernelType, TypeOK
<1>6. threads'[s] = ZeroTcb
  BY <1>3, <1>4
<1>7. \A r \in Slots \ {s} : threads'[r] = w.tcbs[r]
  BY <1>2, <1>3, <1>4
<1>8. \A r \in Slots : EndWaiter(threads', r) => threads[r].obj # threads[s].id
  BY <1>1, <1>6, <1>7, ZeroTcbType DEF EndWaiter, Waiting
<1>9. \A r \in Slots \ {s} :
        \/ threads'[r] = threads[r]
        \/ /\ threads[r].state = "WAITING"
           /\ threads'[r].state = "READY"
           /\ threads'[r].id = threads[r].id
           /\ threads'[r] = Cleared(threads'[r])
  BY <1>1, <1>7 DEF Wakes
<1>10. Sound(threads', current, nextId)
  BY <1>4, <1>5, <1>6, <1>8, <1>9, ZeroTcbType, RemoveSound
<1> QED
  BY <1>3, <1>4, <1>10, <1>11
  DEF SoundStep, TypeOK, KernelType, Counted, TimedWaitsCounted, WithDeadline

LEMMA TerminateThreadSound ==
  ASSUME TypeOK, TimedWaitsCounted, Sound(threads, current, nextId), NEW s \in Slots, NEW erase \in BOOLEAN,
         TerminateThread(s, erase)
  PROVE  SoundStep
<1> DEFINE over == [Cleared(threads[s]) EXCEPT !.state = "DORMANT", !.v0 = "terminated"]
           c == ClearWaits(Kernel, {s})
           dormant == WithTcb(c, s, over)
           w == WakeEndWaiters(dormant, threads[s].id)
           z == Zeroed(ClearWaits(w, {s}), s)
           gone == IF erase THEN z ELSE w
<1>1. threads[s] \in Tcb
  BY DEF TypeOK
<1>2. /\ over \in Tcb /\ over = Cleared(over)
      /\ over.id = threads[s].id /\ over.state = "DORMANT"
  <2> DEFINE e == Cleared(threads[s])
  <2>1. /\ e \in Tcb /\ e.id = threads[s].id
        /\ e.wait = "none" /\ e.obj = -1 /\ e.need = NoNeed /\ e.deadline = 0 /\ e.seq = 0
    BY <1>1, ClearedType DEF Cleared, Tcb
  <2> HIDE DEF e
  <2>2. /\ over \in Tcb /\ over.id = threads[s].id /\ over.state = "DORMANT"
        /\ over.wait = "none" /\ over.obj = -1 /\ over.need = NoNeed
        /\ over.deadline = 0 /\ over.seq = 0
    BY <2>1 DEF Tcb, States, Results, e
  <2> HIDE DEF over
  <2> QED
    BY <2>2 DEF Cleared, Tcb
<1>3. /\ threads' = gone.tcbs /\ timed' = gone.timed
      /\ threads[s].id # current /\ threads[s].id # 0
      /\ UNCHANGED <<current, nextId, nextSeq, dispatch, now>>
  BY DEF TerminateThread
<1> HIDE DEF over
<1>4. /\ c \in KernelType
      /\ \A r \in Slots \ {s} : c.tcbs[r] = threads[r]
      /\ c.tcbs[s].deadline = 0
      /\ Counted(c)
  BY <1>1, KernelOK, ClearWaitsType, ClearWaitsCounted, ClearedType
<1> HIDE DEF c
<1>5. /\ dormant \in KernelType
      /\ dormant.tcbs[s] = over
      /\ dormant.timed = c.timed
      /\ \A r \in Slots : dormant.tcbs[r] = IF r = s THEN over ELSE c.tcbs[r]
      /\ \A r \in Slots \ {s} : dormant.tcbs[r] = threads[r]
  BY <1>2, <1>4, WithTcbType
<1> HIDE DEF dormant
<1>15. Counted(dormant)
  BY <1>2, <1>4, <1>5, ClearedHasNoDeadline, CountedAlike
<1>6. /\ w \in KernelType
      /\ Wakes(dormant.tcbs, w.tcbs)
      /\ \A r \in Slots : EndWaiter(w.tcbs, r) =>
           w.tcbs[r] = dormant.tcbs[r] /\ dormant.tcbs[r].obj # threads[s].id
      /\ Counted(w)
  BY <1>5, <1>15, WakeEndWaitersWakes
<1> HIDE DEF w
<1>7. w.tcbs[s] = over
  BY <1>2, <1>5, <1>6 DEF Wakes
<1>8. /\ z \in KernelType
      /\ z.tcbs[s] = ZeroTcb
      /\ \A r \in Slots \ {s} : z.tcbs[r] = w.tcbs[r]
      /\ Counted(z)
  <2> DEFINE e == ClearWaits(w, {s})
  <2>1. /\ e \in KernelType
        /\ \A r \in Slots \ {s} : e.tcbs[r] = w.tcbs[r]
        /\ e.tcbs[s].deadline = 0
        /\ Counted(e)
    BY <1>6, ClearWaitsType, ClearWaitsCounted, ClearedType DEF KernelType
  <2>2. z = WithTcb(e, s, ZeroTcb)
    BY DEF Zeroed
  <2> HIDE DEF e, z
  <2>3. /\ z \in KernelType /\ z.timed = e.timed
        /\ \A r \in Slots : z.tcbs[r] = IF r = s THEN ZeroTcb ELSE e.tcbs[r]
    BY <2>1, <2>2, ZeroTcbType, WithTcbType
  <2>4. Counted(z)
    BY <2>1, <2>3, ZeroTcbType, CountedAlike
  <2> QED
    BY <2>1, <2>3, <2>4
<1> HIDE DEF z
<1>9. /\ gone \in KernelType
      /\ Counted(gone)
      /\ gone.tcbs[s] \in {over, ZeroTcb}
      /\ \A r \in Slots \ {s} : gone.tcbs[r] = w.tcbs[r]
  BY <1>6, <1>7, <1>8
<1> HIDE DEF gone
<1>10. threads' \in [Slots -> Tcb] /\ threads \in [Slots -> Tcb] /\ nextId \in Nat
  BY <1>3, <1>9 DEF KernelType, TypeOK
<1>11. /\ threads'[s] = Cleared(threads'[s])
       /\ threads'[s].state \in {"FREE", "DORMANT"}
       /\ threads'[s].id \in {0, threads[s].id}
       /\ threads'[s].id = 0 => threads'[s].state = "FREE"
  BY <1>2, <1>3, <1>9, ZeroTcbType
<1>12. \A r \in Slots : EndWaiter(threads', r) => threads[r].obj # threads[s].id
  <2> SUFFICES ASSUME NEW r \in Slots, EndWaiter(threads', r)
               PROVE  threads[r].obj # threads[s].id
    OBVIOUS
  <2>1. r # s
    BY <1>11 DEF EndWaiter, Waiting
  <2>2. threads'[r] = w.tcbs[r] /\ dormant.tcbs[r] = threads[r]
    BY <1>3, <1>5, <1>9, <2>1
  <2>3. EndWaiter(w.tcbs, r)
    BY <2>2 DEF EndWaiter, Waiting
  <2> QED
    BY <1>6, <2>2, <2>3
<1>13. \A r \in Slots \ {s} :
        \/ threads'[r] = threads[r]
        \/ /\ threads[r].state = "WAITING"
           /\ threads'[r].state = "READY"
           /\ threads'[r].id = threads[r].id
           /\ threads'[r] = Cleared(threads'[r])
  BY <1>3, <1>5, <1>6, <1>9 DEF Wakes
<1>14. Sound(threads', current, nextId)
  BY <1>3, <1>10, <1>11, <1>12, <1>13, RemoveSound
<1> QED
  BY <1>3, <1>9, <1>14
  DEF SoundStep, TypeOK, KernelType, Counted, TimedWaitsCounted, WithDeadline

-----------------------------------------------------------------------------
(* The theorems *)

LEMMA InitInv == Init => Inv
<1> SUFFICES ASSUME Init PROVE Inv
  OBVIOUS
<1> DEFINE main == [ZeroTcb EXCEPT !.state = "RUNNING"]
<1>1. main \in Tcb /\ main.state = "RUNNING" /\ main.id = 0 /\ main = Cleared(main)
  BY ZeroTcbType, StateChange DEF States
<1> HIDE DEF main
<1>2. 0 \in Slots
  BY SlotsAssumption DEF Slots
<1>3. /\ threads = [s \in Slots |-> IF s = 0 THEN main ELSE ZeroTcb]
      /\ current = 0 /\ nextId = 1 /\ nextSeq = 1 /\ timed = 0 /\ dispatch = TRUE /\ now = 0
  BY DEF Init, main
<1>4. TypeOK
  BY <1>1, <1>3, ZeroTcbType DEF TypeOK
<1>5. OneRunningThread
  BY <1>1, <1>2, <1>3, ZeroTcbType DEF OneRunningThread
<1>6. ThreadIdsUnique
  BY <1>1, <1>3, ZeroTcbType DEF ThreadIdsUnique
<1>7. OnlyWaitersWait
  BY <1>1, <1>3, ZeroTcbType DEF OnlyWaitersWait
<1>8. EndWaitersHaveTarget
  BY <1>1, <1>3, ZeroTcbType DEF EndWaitersHaveTarget, Waiting
<1>9. TimedWaitsCounted
  <2>1. {s \in Slots : threads[s].deadline # 0} = {}
    BY <1>1, <1>3, ZeroTcbType, ClearedHasNoDeadline
  <2> QED
    BY <1>3, <2>1, FS_EmptySet DEF TimedWaitsCounted
<1> QED
  BY <1>4, <1>5, <1>6, <1>7, <1>8, <1>9 DEF Inv

LEMMA NextInv == Inv /\ [Next]_vars => Inv'
<1> SUFFICES ASSUME Inv, [Next]_vars PROVE Inv'
  OBVIOUS
<1>1. TypeOK /\ TimedWaitsCounted /\ Sound(threads, current, nextId)
  BY InvSound
<1>2. SUFFICES SoundStep
  BY DEF Inv, TypeOK, OneRunningThread, ThreadIdsUnique, OnlyWaitersWait,
         EndWaitersHaveTarget, Sound, OneRunning, NoneRunning, UniqueIds, Tidy,
         Targets, EndWaiter, HasTarget, LiveStates, SoundStep, Waiting
<1>3. CASE UNCHANGED vars
  BY <1>1, <1>3 DEF vars, SoundStep, TypeOK, TimedWaitsCounted
<1>4. CASE CreateThreadFails
  BY <1>1, <1>4 DEF CreateThreadFails, SoundStep, TypeOK, TimedWaitsCounted
<1>5. CASE CreateThread
  BY <1>1, <1>5, CreateThreadSound
<1>6. CASE \E w \in EndWaits : RunModuleThread(w)
  BY <1>1, <1>6, RunModuleThreadSound
<1>7. CASE RunModuleThreadFails
  BY <1>1, <1>7, RunModuleThreadFailsSound
<1>8. CASE ExitThread
  BY <1>1, <1>8, SwitchSound DEF ExitThread, SoundStep, TypeOK, Results
<1>9. ASSUME NEW s \in Slots, StartThread(s)
      PROVE  SoundStep
  BY <1>1, <1>9, StartThreadSound
<1>10. ASSUME NEW s \in Slots, DeleteThread(s)
       PROVE  SoundStep
  BY <1>1, <1>10, DeleteThreadSound
<1>11. ASSUME NEW s \in Slots, NEW erase \in BOOLEAN, TerminateThread(s, erase)
       PROVE  SoundStep
  BY <1>1, <1>11, TerminateThreadSound
<1>12. ASSUME NEW s \in Slots, WaitThreadEnd(s)
       PROVE  SoundStep
  BY <1>1, <1>12, WaitThreadEndSound
<1>13. ASSUME NEW d \in Delays, DelayThread(d) \/ SasCoreDelay(d)
       PROVE  SoundStep
  <2>1. d \in Nat
    BY DelaysAssumption
  <2>2. Alive /\ BlockInOrder(Kernel, "delay", -1, NoNeed, d) /\ UNCHANGED <<nextId, dispatch>>
    BY <1>13 DEF DelayThread, SasCoreDelay
  <2> QED
    BY <1>1, <2>1, <2>2, BlockInOrderSound DEF SoundStep, TypeOK
<1>14. CASE YieldThread
  <2>1. CASE dispatch
    BY <1>1, <1>14, <2>1, SwitchSound DEF YieldThread, Yield, SoundStep, TypeOK, Results
  <2>2. CASE ~dispatch
    BY <1>1, <1>14, <2>2, KernelOK DEF YieldThread, Yield, SoundStep, TypeOK, TimedWaitsCounted
  <2> QED
    BY <2>1, <2>2
<1>15. CASE SleepThread
  BY <1>1, <1>15, SwitchSound DEF SleepThread, SoundStep, TypeOK, Results
<1>16. CASE SuspendDispatch
  BY <1>1, <1>16 DEF SuspendDispatch, SoundStep, TypeOK, TimedWaitsCounted
<1>17. ASSUME NEW enabled \in BOOLEAN, ResumeDispatch(enabled)
       PROVE  SoundStep
  BY <1>1, <1>17 DEF ResumeDispatch, SoundStep, TypeOK, TimedWaitsCounted
<1>18. CASE Preempt
  BY <1>1, <1>18, SwitchSound DEF Preempt, SoundStep, TypeOK, Results
<1>19. CASE Tick
  BY <1>1, <1>19 DEF Tick, SoundStep, TypeOK, TimedWaitsCounted
<1> QED
  BY <1>3, <1>4, <1>5, <1>6, <1>7, <1>8, <1>9, <1>10, <1>11, <1>12, <1>13, <1>14,
     <1>15, <1>16, <1>17, <1>18, <1>19 DEF Next, ModuleThreads, ThreadCalls, SlotCalls

LEMMA SpecInv == Spec => []Inv
BY InitInv, NextInv, PTL DEF Spec

(* Every variable keeps its type, for any number of slots and threads. *)
THEOREM TypeCorrect == Spec => []TypeOK
<1>1. Inv => TypeOK
  BY DEF Inv
<1> QED
  BY <1>1, SpecInv, PTL

(* Context switches and the calls that end threads never leave two threads *)
(* RUNNING, nor a machine that runs a thread other than the RUNNING one.   *)
THEOREM OneThreadRuns == Spec => []OneRunningThread
<1>1. Inv => OneRunningThread
  BY DEF Inv
<1> QED
  BY <1>1, SpecInv, PTL

(* Ids are never shared or assigned twice, however slots are reused. *)
THEOREM IdsStayUnique == Spec => []ThreadIdsUnique
<1>1. Inv => ThreadIdsUnique
  BY DEF Inv
<1> QED
  BY <1>1, SpecInv, PTL

(* No wait data outlives the wait it belongs to. *)
THEOREM NoStaleWaits == Spec => []OnlyWaitersWait
<1>1. Inv => OnlyWaitersWait
  BY DEF Inv
<1> QED
  BY <1>1, SpecInv, PTL

(* Every thread that waits for the end of another is woken by it: the one  *)
(* it waits for has not ended yet, by exit, termination or deletion.       *)
THEOREM EndWaitersAreWoken == Spec => []EndWaitersHaveTarget
<1>1. Inv => EndWaitersHaveTarget
  BY DEF Inv
<1> QED
  BY <1>1, SpecInv, PTL

(* g_timed_wait_count is the number of waits with a deadline: as long as    *)
(* one is left, the scheduler looks for expired ones.                      *)
THEOREM TimedWaitsStayCounted == Spec => []TimedWaitsCounted
<1>1. Inv => TimedWaitsCounted
  BY DEF Inv
<1> QED
  BY <1>1, SpecInv, PTL

-----------------------------------------------------------------------------
(* What a call does to the threads that do not make it, for the modules    *)
(* that build on the scheduler.                                            *)

(* The waiters that differ in u had a deadline or waited for thread id. *)
WokenFor(t, u, id) ==
  \A s \in Slots : \/ u[s] = t[s]
                   \/ t[s].deadline # 0 /\ u[s].v0 = ExpiryResult(t[s])
                   \/ t[s].wait \in EndWaits /\ t[s].obj = id

LEMMA AwakeResult ==
  ASSUME NEW tcb \in Tcb, NEW result \in Results
  PROVE  Awake(tcb, result).v0 = result
<1>1. Cleared(tcb) \in Tcb
  BY ClearedType
<1> QED
  BY <1>1 DEF Awake, Tcb

LEMMA WakesTwice ==
  ASSUME NEW t, NEW u, NEW w, Wakes(t, u), Wakes(u, w)
  PROVE  Wakes(t, w)
BY DEF Wakes

LEMMA WakeExpiredWakens ==
  ASSUME NEW k \in KernelType, NEW at \in Nat, NEW s \in Slots
  PROVE  \/ WakeExpired(k, at).tcbs[s] = k.tcbs[s]
         \/ /\ k.tcbs[s].deadline # 0
            /\ WakeExpired(k, at).tcbs[s].v0 = ExpiryResult(k.tcbs[s])
<1> DEFINE result == [r \in Slots |-> ExpiryResult(k.tcbs[r])]
           S == Expired(k.tcbs, at)
<1>1. CASE k.timed = 0
  BY <1>1 DEF WakeExpired
<1>2. CASE k.timed # 0
  <2>1. result \in [Slots -> Results]
    BY DEF ExpiryResult, Results
  <2>2. WakeExpired(k, at) = Wake(k, S, result) /\ S \in SUBSET Slots
    BY <1>2 DEF WakeExpired, Expired
  <2>3. s \in S => k.tcbs[s].deadline # 0
    BY DEF Expired
  <2>4. result[s] = ExpiryResult(k.tcbs[s])
    OBVIOUS
  <2> HIDE DEF result, S
  <2>5. WakeExpired(k, at).tcbs[s] = IF s \in S THEN Awake(k.tcbs[s], result[s]) ELSE k.tcbs[s]
    BY <2>1, <2>2, WakeType
  <2>6. Awake(k.tcbs[s], result[s]).v0 = result[s]
    BY <2>1, AwakeResult DEF KernelType
  <2> QED
    BY <2>3, <2>4, <2>5, <2>6
<1> QED
  BY <1>1, <1>2

LEMMA WakeEndWaitersWakens ==
  ASSUME NEW k \in KernelType, NEW target, NEW s \in Slots
  PROVE  \/ WakeEndWaiters(k, target).tcbs[s] = k.tcbs[s]
         \/ k.tcbs[s].wait \in EndWaits /\ k.tcbs[s].obj = target
<1> DEFINE result == [r \in Slots |-> "ok"]
           S == EndWaiters(k.tcbs, target)
<1>1. result \in [Slots -> Results]
  BY DEF Results
<1>2. WakeEndWaiters(k, target) = Wake(k, S, result) /\ S \in SUBSET Slots
  BY DEF WakeEndWaiters, EndWaiters
<1>3. s \in S => k.tcbs[s].wait \in EndWaits /\ k.tcbs[s].obj = target
  BY DEF EndWaiters
<1> HIDE DEF result, S
<1> QED
  BY <1>1, <1>2, <1>3, WakeType

(* The table when the running thread is saved with state st. *)
Parked(k, st, v) ==
  [s \in Slots |-> IF s = Self THEN [k.tcbs[Self] EXCEPT !.state = st, !.v0 = v]
                   ELSE k.tcbs[s]]

LEMMA SaveWakens ==
  ASSUME NEW k \in KernelType, NEW st \in {"READY", "WAITING", "FREE"},
         NEW v \in Results, NEW n, Switchable(k.tcbs, st, n)
  PROVE  /\ Wakes(Parked(k, st, v), Save(k, st, v).tcbs)
         /\ WokenFor(Parked(k, st, v), Save(k, st, v).tcbs,
                     IF st = "FREE" THEN current ELSE -1)
<1> DEFINE tcb == [k.tcbs[Self] EXCEPT !.state = st, !.v0 = v]
           saved == WithTcb(k, Self, tcb)
<1>1. Self \in Slots /\ k.tcbs \in [Slots -> Tcb]
  BY DEF Switchable, KernelType
<1>2. tcb \in Tcb /\ (st # "WAITING" => Cleared(tcb) = tcb)
  BY <1>1 DEF Cleared, Tcb, States, Switchable
<1> HIDE DEF tcb
<1>3. saved \in KernelType /\ saved.tcbs = Parked(k, st, v)
  <2>1. saved.tcbs = [s \in Slots |-> IF s = Self THEN tcb ELSE k.tcbs[s]]
    BY DEF WithTcb, KernelType
  <2> QED
    BY <1>1, <1>2, <2>1, WithTcbType DEF Parked, tcb
<1> HIDE DEF saved
<1>4. CASE st # "FREE"
  <2>1. Save(k, st, v) = saved
    BY <1>4 DEF Save, saved, tcb
  <2> QED
    BY <1>3, <2>1 DEF Wakes, WokenFor
<1>5. CASE st = "FREE"
  <2> DEFINE c == ClearWaits(saved, {Self})
             w == WakeEndWaiters(c, current)
             p == Parked(k, st, v)
  <2>1. Save(k, st, v) = w
    BY <1>5 DEF Save, saved, tcb
  <2>2. p[Self] = tcb
    BY <1>1 DEF Parked, tcb
  <2>3. c \in KernelType /\ \A s \in Slots : c.tcbs[s] = p[s]
    BY <1>1, <1>2, <1>3, <1>5, <2>2, ClearWaitsType
  <2> HIDE DEF c, p
  <2>4. Wakes(c.tcbs, w.tcbs)
    BY <2>3, WakeEndWaitersWakes
  <2>5. \A s \in Slots : \/ w.tcbs[s] = c.tcbs[s]
                         \/ c.tcbs[s].wait \in EndWaits /\ c.tcbs[s].obj = current
    BY <2>3, WakeEndWaitersWakens
  <2> HIDE DEF w
  <2>6. Wakes(p, w.tcbs) /\ WokenFor(p, w.tcbs, current)
    BY <2>3, <2>4, <2>5 DEF Wakes, WokenFor
  <2> QED
    BY <1>5, <2>1, <2>6 DEF p
<1> QED
  BY <1>4, <1>5

(* Table u is loaded: one of its READY threads runs, or none does. *)
Loaded(u) ==
  \/ threads' = u
  \/ \E s \in Slots : u[s].state = "READY" /\ threads' = [u EXCEPT ![s].state = "RUNNING"]

LEMMA RunSchedulerWakens ==
  ASSUME NEW k \in KernelType, NEW st \in {"READY", "WAITING", "FREE"},
         NEW v \in Results, NEW n, Switchable(k.tcbs, st, n), now \in Nat,
         RunScheduler(k, st, v)
  PROVE  \E u \in [Slots -> Tcb] :
           /\ Wakes(Parked(k, st, v), u)
           /\ WokenFor(Parked(k, st, v), u, IF st = "FREE" THEN current ELSE -1)
           /\ Loaded(u)
<1> DEFINE saved == Save(k, st, v)
           woken == WakeExpired(saved, now)
           p == Parked(k, st, v)
           id == IF st = "FREE" THEN current ELSE -1
<1>1. saved \in KernelType /\ Wakes(p, saved.tcbs) /\ WokenFor(p, saved.tcbs, id)
  BY SaveConsistent, SaveWakens
<1>2. RunScheduler(k, st, v)
  OBVIOUS
<1> HIDE DEF saved, p, id
<1>3. ASSUME NEW j \in KernelType, NEW at \in Nat, Wakes(p, j.tcbs), WokenFor(p, j.tcbs, id)
      PROVE  LET l == WakeExpired(j, at)
             IN  l \in KernelType /\ Wakes(p, l.tcbs) /\ WokenFor(p, l.tcbs, id)
  <2> DEFINE l == WakeExpired(j, at)
  <2>1. l \in KernelType /\ Wakes(j.tcbs, l.tcbs)
    BY WakeExpiredWakes
  <2>2. \A s \in Slots : \/ l.tcbs[s] = j.tcbs[s]
                         \/ j.tcbs[s].deadline # 0 /\ l.tcbs[s].v0 = ExpiryResult(j.tcbs[s])
    BY WakeExpiredWakens
  <2> HIDE DEF l
  <2>3. Wakes(p, l.tcbs)
    BY <1>3, <2>1, WakesTwice
  <2>4. ASSUME NEW s \in Slots
        PROVE  \/ l.tcbs[s] = p[s]
               \/ p[s].deadline # 0 /\ l.tcbs[s].v0 = ExpiryResult(p[s])
               \/ p[s].wait \in EndWaits /\ p[s].obj = id
    <3>1. CASE j.tcbs[s] = p[s]
      BY <2>2, <3>1
    <3>2. CASE j.tcbs[s] # p[s]
      <4>1. l.tcbs[s] = j.tcbs[s]
        BY <1>3, <2>1, <3>2 DEF Wakes
      <4> QED
        BY <1>3, <3>2, <4>1 DEF WokenFor
    <3> QED
      BY <3>1, <3>2
  <2> QED
    BY <2>1, <2>3, <2>4 DEF WokenFor, l
<1>4. woken \in KernelType /\ Wakes(p, woken.tcbs) /\ WokenFor(p, woken.tcbs, id)
  BY <1>1, <1>3
<1>5. ASSUME NEW j \in KernelType, NEW s \in Slots, NearestReady(j.tcbs, s), SwitchTo(j, s)
      PROVE  Loaded(j.tcbs)
  BY <1>5 DEF NearestReady, ReadySlots, SwitchTo, Loaded
<1>6. CASE \E s \in Slots : NearestReady(woken.tcbs, s) /\ SwitchTo(woken, s)
  BY <1>4, <1>5, <1>6 DEF KernelType, p, id
<1>7. CASE \E at \in now .. MaxTime :
             LET late == WakeExpired(woken, at)
             IN  \E s \in Slots : NearestReady(late.tcbs, s) /\ SwitchTo(late, s)
  <2> HIDE DEF woken
  <2>1. PICK at \in now .. MaxTime :
          \E s \in Slots : /\ NearestReady(WakeExpired(woken, at).tcbs, s)
                           /\ SwitchTo(WakeExpired(woken, at), s)
    BY <1>7
  <2>2. at \in Nat
    BY BoundsAssumption
  <2> DEFINE late == WakeExpired(woken, at)
  <2>3. late \in KernelType /\ Wakes(p, late.tcbs) /\ WokenFor(p, late.tcbs, id)
    BY <1>3, <1>4, <2>2
  <2>4. Loaded(late.tcbs)
    BY <1>5, <2>1, <2>3
  <2> HIDE DEF late
  <2> QED
    BY <2>3, <2>4 DEF KernelType, p, id
<1>8. CASE threads' = woken.tcbs
  <2> HIDE DEF woken
  <2> QED
    BY <1>4, <1>8 DEF KernelType, Loaded, p, id
<1> QED
  BY <1>2, <1>6, <1>7, <1>8 DEF RunScheduler, woken, saved

(* The same, slot by slot. *)
Leaves(k, st, v, s) ==
  /\ threads'[s].id = k.tcbs[s].id
  /\ ~Waiting(k.tcbs, s) /\ s # Self => threads'[s].v0 = k.tcbs[s].v0
  /\ Waiting(threads', s) /\ s # Self => threads'[s] = k.tcbs[s]
  /\ Waiting(threads', Self) =>
       /\ st = "WAITING"
       /\ threads'[Self] = [k.tcbs[Self] EXCEPT !.state = st, !.v0 = v]
  /\ threads'[s].state = "RUNNING" /\ s # Self =>
       k.tcbs[s].state \in {"READY", "WAITING"}
  /\ Waiting(k.tcbs, s) /\ ~Waiting(threads', s) =>
       \/ k.tcbs[s].deadline # 0 /\ threads'[s].v0 = ExpiryResult(k.tcbs[s])
       \/ /\ k.tcbs[s].wait \in EndWaits
          /\ k.tcbs[s].obj = IF st = "FREE" THEN current ELSE -1
  /\ st = "FREE" => threads'[Self].state = "FREE"

LEMMA RunSchedulerLeaves ==
  ASSUME NEW k \in KernelType, NEW st \in {"READY", "WAITING", "FREE"},
         NEW v \in Results, NEW n, Switchable(k.tcbs, st, n), now \in Nat,
         RunScheduler(k, st, v), NEW s \in Slots
  PROVE  Leaves(k, st, v, s)
<1> DEFINE p == Parked(k, st, v)
           me == [k.tcbs[Self] EXCEPT !.state = st, !.v0 = v]
           id == IF st = "FREE" THEN current ELSE -1
<1>1. PICK u \in [Slots -> Tcb] : Wakes(p, u) /\ WokenFor(p, u, id) /\ Loaded(u)
  BY RunSchedulerWakens
<1>2. Self \in Slots /\ \A r \in Slots : p[r] = IF r = Self THEN me ELSE k.tcbs[r]
  BY DEF Parked, Switchable
<1>3. /\ k.tcbs \in [Slots -> Tcb]
      /\ k.tcbs[Self].state = "RUNNING"
      /\ \A r \in Slots \ {Self} : k.tcbs[r].state # "RUNNING"
  BY DEF KernelType, Switchable
<1>4. me.id = k.tcbs[Self].id /\ me.state = st
  BY <1>2, <1>3 DEF Tcb
<1> HIDE DEF me, p, id
<1>5. \A r \in Slots : \/ threads'[r] = u[r]
                       \/ /\ u[r].state = "READY" /\ threads'[r].state = "RUNNING"
                          /\ threads'[r].id = u[r].id /\ threads'[r].v0 = u[r].v0
  <2>1. ASSUME NEW x \in Slots, u[x].state = "READY",
               threads' = [u EXCEPT ![x].state = "RUNNING"], NEW r \in Slots
        PROVE  \/ threads'[r] = u[r]
               \/ /\ u[r].state = "READY" /\ threads'[r].state = "RUNNING"
                  /\ threads'[r].id = u[r].id /\ threads'[r].v0 = u[r].v0
    <3>1. threads'[r] = IF r = x THEN [u[x] EXCEPT !.state = "RUNNING"] ELSE u[r]
      BY <2>1
    <3>2. u[x] \in Tcb
      OBVIOUS
    <3> QED
      BY <2>1, <3>1, <3>2 DEF Tcb
  <2> QED
    BY <1>1, <2>1 DEF Loaded
<1>6. \A r \in Slots : \/ u[r] = p[r]
                       \/ p[r].state = "WAITING" /\ u[r].state = "READY" /\ u[r].id = p[r].id
  BY <1>1 DEF Wakes
<1>7. threads'[s].id = k.tcbs[s].id
  BY <1>2, <1>4, <1>5, <1>6
<1>8. ASSUME NEW r \in Slots, Waiting(threads', r)
      PROVE  threads'[r] = p[r]
  BY <1>5, <1>6, <1>8 DEF Waiting
<1>9. Waiting(threads', Self) => st = "WAITING" /\ threads'[Self] = me
  BY <1>2, <1>4, <1>8 DEF Waiting
<1>10. Waiting(threads', s) /\ s # Self => threads'[s] = k.tcbs[s]
  BY <1>2, <1>8
<1>11. threads'[s].state = "RUNNING" /\ s # Self => k.tcbs[s].state \in {"READY", "WAITING"}
  BY <1>2, <1>3, <1>5, <1>6
<1>12. ASSUME Waiting(k.tcbs, s), ~Waiting(threads', s)
       PROVE  \/ k.tcbs[s].deadline # 0 /\ threads'[s].v0 = ExpiryResult(k.tcbs[s])
              \/ k.tcbs[s].wait \in EndWaits /\ k.tcbs[s].obj = id
  <2>1. s # Self /\ p[s] = k.tcbs[s]
    BY <1>2, <1>3, <1>12 DEF Waiting
  <2>2. u[s] # p[s]
    BY <1>5, <1>12, <2>1 DEF Waiting
  <2>3. threads'[s].v0 = u[s].v0
    BY <1>5
  <2> QED
    BY <1>1, <2>1, <2>2, <2>3 DEF WokenFor
<1>13. st = "FREE" => threads'[Self].state = "FREE"
  BY <1>2, <1>4, <1>5, <1>6
<1>14. ~Waiting(k.tcbs, s) /\ s # Self => threads'[s].v0 = k.tcbs[s].v0
  BY <1>2, <1>5, <1>6 DEF Waiting
<1> QED
  BY <1>7, <1>9, <1>10, <1>11, <1>12, <1>13, <1>14 DEF Leaves, me, id

(* The running thread ends up in the wait it asked for, or goes on. *)
BlockedAs(k, w, obj, need, deadline, seq, s) ==
  /\ threads'[s].id = k.tcbs[s].id
  /\ ~Waiting(k.tcbs, s) /\ s # Self => threads'[s].v0 = k.tcbs[s].v0
  /\ Waiting(threads', s) /\ s # Self => threads'[s] = k.tcbs[s]
  /\ Waiting(threads', Self) =>
       /\ threads'[Self].wait = w /\ threads'[Self].obj = obj
       /\ threads'[Self].need = need /\ threads'[Self].deadline = deadline
       /\ threads'[Self].seq = seq
  /\ threads'[s].state = "RUNNING" /\ s # Self =>
       k.tcbs[s].state \in {"READY", "WAITING"}
  /\ Waiting(k.tcbs, s) /\ ~Waiting(threads', s) =>
       \/ k.tcbs[s].deadline # 0 /\ threads'[s].v0 = ExpiryResult(k.tcbs[s])
       \/ k.tcbs[s].wait \in EndWaits /\ k.tcbs[s].obj = -1

LEMMA BlockLeaves ==
  ASSUME NEW k \in KernelType, NEW n, Switchable(k.tcbs, "READY", n), now \in Nat,
         NEW w \in Waits, NEW obj \in Int, NEW need \in AnyNeed,
         NEW deadline \in Nat, NEW seq \in Nat,
         w \in EndWaits => \E r \in Slots : k.tcbs[r].id = obj /\ k.tcbs[r].state \in LiveStates,
         Block(k, w, obj, need, deadline, seq), NEW s \in Slots
  PROVE  BlockedAs(k, w, obj, need, deadline, seq, s)
<1> DEFINE kb == Enlisted(k, w, obj, need, deadline, seq)
           waiter == Waiter(k, w, obj, need, deadline, seq)
<1>1. /\ kb \in KernelType
      /\ Switchable(kb.tcbs, "WAITING", n)
      /\ Self \in Slots
      /\ \A r \in Slots : kb.tcbs[r] = IF r = Self THEN waiter ELSE k.tcbs[r]
  BY BlockSwitchable
<1>2. RunScheduler(kb, "WAITING", "ok")
  BY BlockIs
<1>3. /\ k.tcbs[Self] \in Tcb /\ waiter \in Tcb /\ waiter.id = k.tcbs[Self].id
      /\ k.tcbs[Self].state = "RUNNING"
      /\ waiter.wait = w /\ waiter.obj = obj /\ waiter.need = need
      /\ waiter.deadline = deadline /\ waiter.seq = seq
  BY <1>1 DEF Switchable, KernelType, Tcb, Waiter
<1> HIDE DEF kb, waiter
<1>4. "ok" \in Results
  BY DEF Results
<1>5. /\ threads'[s].id = kb.tcbs[s].id
      /\ ~Waiting(kb.tcbs, s) /\ s # Self => threads'[s].v0 = kb.tcbs[s].v0
      /\ Waiting(threads', s) /\ s # Self => threads'[s] = kb.tcbs[s]
      /\ Waiting(threads', Self) =>
           threads'[Self] = [kb.tcbs[Self] EXCEPT !.state = "WAITING", !.v0 = "ok"]
      /\ threads'[s].state = "RUNNING" /\ s # Self =>
           kb.tcbs[s].state \in {"READY", "WAITING"}
      /\ Waiting(kb.tcbs, s) /\ ~Waiting(threads', s) =>
           \/ kb.tcbs[s].deadline # 0 /\ threads'[s].v0 = ExpiryResult(kb.tcbs[s])
           \/ kb.tcbs[s].wait \in EndWaits /\ kb.tcbs[s].obj = -1
  <2>1. Leaves(kb, "WAITING", "ok", s)
    BY <1>1, <1>2, <1>4, RunSchedulerLeaves
  <2> QED
    BY <2>1 DEF Leaves
<1>6. Waiting(threads', Self) => threads'[Self] = [waiter EXCEPT !.state = "WAITING", !.v0 = "ok"]
  BY <1>1, <1>5
<1>7. LET x == [waiter EXCEPT !.state = "WAITING", !.v0 = "ok"]
      IN  /\ x.wait = w /\ x.obj = obj /\ x.need = need
          /\ x.deadline = deadline /\ x.seq = seq
  BY <1>3 DEF Tcb
<1>8. ~Waiting(k.tcbs, Self)
  BY <1>3 DEF Waiting
<1>9. s # Self => kb.tcbs[s] = k.tcbs[s] /\ (Waiting(kb.tcbs, s) <=> Waiting(k.tcbs, s))
  BY <1>1 DEF Waiting
<1>10. threads'[s].id = k.tcbs[s].id
  BY <1>1, <1>3, <1>5
<1> QED
  BY <1>5, <1>6, <1>7, <1>8, <1>9, <1>10 DEF BlockedAs

Over(t, id) == \A r \in Slots : t[r].id = id => t[r].state \in {"FREE", "DORMANT"}

(* The caller begins to wait, but not for a semaphore or an event flag. *)
BeginsToWait(s) ==
  /\ Alive /\ s = Self
  /\ threads'[s].id = threads[s].id
  /\ threads'[s].wait \notin {"sema", "evf"}
  /\ threads'[s].wait \in EndWaits => threads'[s].deadline = 0

(* What every call of the scheduler means to the thread in slot s. *)
Passes(s) ==
  /\ Waiting(threads', s) => threads'[s] = threads[s] \/ BeginsToWait(s)
  /\ /\ EndWaiter(threads, s)
     /\ threads'[s].id = threads[s].id
     /\ threads'[s].state \in {"READY", "RUNNING"}
     => threads[s].deadline # 0 \/ Over(threads', threads[s].obj)
  /\ /\ Waiting(threads, s) /\ threads[s].wait \in {"sema", "evf"}
     /\ ~Waiting(threads', s) /\ threads'[s].state # "FREE"
     => \/ threads'[s].v0 = "timeout"
        \/ threads'[s].state = "DORMANT" /\ threads'[s].v0 = "terminated"

(* Nobody waits for -1. *)
LEMMA TargetIsThread ==
  ASSUME Inv, NEW s \in Slots, EndWaiter(threads, s)
  PROVE  threads[s].obj # -1
<1>1. PICK r \in Slots : threads[r].id = threads[s].obj
  BY DEF Inv, EndWaitersHaveTarget, EndWaiter
<1>2. threads[r].id \in Nat
  BY DEF Inv, TypeOK, Tcb
<1> QED
  BY <1>1, <1>2

LEMMA SwitchPasses ==
  ASSUME Inv, Alive, ThreadIdsUnique', NEW st \in {"READY", "WAITING", "FREE"},
         NEW v \in Results, RunScheduler(Kernel, st, v), NEW s \in Slots
  PROVE  Passes(s)
<1>1. TypeOK /\ Sound(threads, current, nextId)
  BY InvSound
<1>2. /\ Kernel \in KernelType /\ Kernel.tcbs = threads
      /\ Switchable(Kernel.tcbs, st, nextId) /\ now \in Nat
  BY <1>1, KernelOK, SwitchableNow DEF TypeOK
<1>3. \A r \in Slots : Leaves(Kernel, st, v, r)
  BY <1>2, RunSchedulerLeaves
<1>4. /\ Self \in Slots /\ threads[Self].id = current /\ threads[Self] \in Tcb
      /\ threads[Self].state = "RUNNING" /\ threads[Self].wait = "none"
  BY <1>1, SelfRunning DEF TypeOK
<1> HIDE DEF Self
<1>5. ASSUME Waiting(threads', s) PROVE threads'[s] = threads[s] \/ BeginsToWait(s)
  <2>1. CASE s # Self
    BY <1>2, <1>3, <1>5, <2>1 DEF Leaves
  <2>2. CASE s = Self
    <3>1. threads'[s] = [threads[Self] EXCEPT !.state = st, !.v0 = v]
      BY <1>2, <1>3, <1>5, <2>2 DEF Leaves
    <3>2. threads'[s].wait = "none" /\ threads'[s].id = threads[s].id
      BY <1>4, <2>2, <3>1 DEF Tcb
    <3> QED
      BY <2>2, <3>2 DEF BeginsToWait, EndWaits
  <2> QED
    BY <2>1, <2>2
<1>6. ASSUME EndWaiter(threads, s), ~Waiting(threads', s), threads[s].deadline = 0
      PROVE  Over(threads', threads[s].obj)
  <2>1. st = "FREE" /\ threads[s].obj = current
    BY <1>2, <1>3, <1>6, TargetIsThread DEF Leaves, EndWaiter
  <2>2. threads'[Self].state = "FREE" /\ threads'[Self].id = current
    BY <1>2, <1>3, <1>4, <2>1 DEF Leaves
  <2>3. ASSUME NEW r \in Slots, threads'[r].id = current, r # Self
        PROVE  threads'[r].state = "FREE"
    <3>1. current = 0
      BY <1>4, <2>2, <2>3 DEF ThreadIdsUnique
    <3>2. Self = 0
      BY <1>4, <3>1 DEF Inv, ThreadIdsUnique
    <3> QED
      BY <2>3, <3>1, <3>2 DEF ThreadIdsUnique
  <2> QED
    BY <2>1, <2>2, <2>3 DEF Over
<1>7. ASSUME Waiting(threads, s), threads[s].wait \in {"sema", "evf"}, ~Waiting(threads', s)
      PROVE  threads'[s].v0 = "timeout"
  BY <1>2, <1>3, <1>7 DEF Leaves, ExpiryResult, EndWaits
<1> QED
  BY <1>5, <1>6, <1>7 DEF Passes, Waiting

LEMMA BlockPasses ==
  ASSUME Inv, Alive, NEW w \in EndWaits \cup {"delay"}, NEW obj \in Int,
         NEW deadline \in Nat, NEW seq \in Nat,
         w \in EndWaits => deadline = 0 /\ \E r \in Slots : /\ threads[r].id = obj
                                                            /\ threads[r].state \in LiveStates,
         Block(Kernel, w, obj, NoNeed, deadline, seq), NEW s \in Slots
  PROVE  Passes(s)
<1>1. TypeOK /\ Sound(threads, current, nextId)
  BY InvSound
<1>2. /\ Kernel \in KernelType /\ Kernel.tcbs = threads
      /\ Switchable(Kernel.tcbs, "READY", nextId) /\ now \in Nat
  BY <1>1, KernelOK, SwitchableNow DEF TypeOK
<1>3. w \in Waits /\ NoNeed \in AnyNeed /\ w \notin {"sema", "evf"}
  BY FieldValues DEF EndWaits, TimedWaits
<1>4. \A r \in Slots :
        /\ threads'[r].id = threads[r].id
        /\ Waiting(threads', r) /\ r # Self => threads'[r] = threads[r]
        /\ Waiting(threads', Self) => threads'[Self].wait = w /\ threads'[Self].deadline = deadline
        /\ Waiting(threads, r) /\ ~Waiting(threads', r) =>
              \/ threads[r].deadline # 0 /\ threads'[r].v0 = ExpiryResult(threads[r])
              \/ threads[r].wait \in EndWaits /\ threads[r].obj = -1
  <2>1. w \in EndWaits => \E r \in Slots : /\ Kernel.tcbs[r].id = obj
                                          /\ Kernel.tcbs[r].state \in LiveStates
    BY <1>2
  <2>2. \A r \in Slots : BlockedAs(Kernel, w, obj, NoNeed, deadline, seq, r)
    BY <1>2, <1>3, <2>1, BlockLeaves
  <2> QED
    BY <1>2, <2>2 DEF BlockedAs
<1>5. ASSUME Waiting(threads, s), threads[s].wait \in {"sema", "evf"}, ~Waiting(threads', s)
      PROVE  threads'[s].v0 = "timeout"
  BY <1>4, <1>5 DEF ExpiryResult, EndWaits
<1> QED
  BY <1>3, <1>4, <1>5, TargetIsThread DEF Passes, EndWaiter, Waiting, BeginsToWait

(* No thread is woken, and none begins to wait. *)
LEMMA QuietPasses ==
  ASSUME NEW s \in Slots,
         \/ threads'[s] = threads[s]
         \/ threads[s].state # "WAITING" /\ threads'[s].state # "WAITING"
  PROVE  Passes(s)
BY DEF Passes, EndWaiter, Waiting

LEMMA StartPasses ==
  ASSUME Inv, NEW x \in Slots, StartThread(x), NEW s \in Slots
  PROVE  Passes(s)
<1> DEFINE k == WithStarted(x)
<1>1. TypeOK /\ TimedWaitsCounted /\ Sound(threads, current, nextId) /\ Alive
  BY InvSound DEF StartThread
<1>2. /\ k \in KernelType /\ Switchable(k.tcbs, "READY", nextId)
      /\ RunScheduler(k, "READY", "ok")
      /\ \A r \in Slots \ {x} : k.tcbs[r] = threads[r]
      /\ k.tcbs[x].state = "READY" /\ k.tcbs[x].id = threads[x].id
  BY <1>1, StartSwitchable
<1> HIDE DEF k
<1>3. now \in Nat /\ "ok" \in Results
  BY <1>1 DEF TypeOK, Results
<1>4. \A r \in Slots : Leaves(k, "READY", "ok", r)
  BY <1>2, <1>3, RunSchedulerLeaves
<1>5. threads[x].state = "DORMANT"
  BY DEF StartThread
<1>6. Waiting(threads', s) => threads'[s] = threads[s]
  BY <1>2, <1>4 DEF Leaves, Waiting
<1>7. EndWaiter(threads, s) /\ ~Waiting(threads', s) => threads[s].deadline # 0
  BY <1>2, <1>4, <1>5, TargetIsThread DEF Leaves, EndWaiter, Waiting
<1>8. ASSUME Waiting(threads, s), threads[s].wait \in {"sema", "evf"}, ~Waiting(threads', s)
      PROVE  threads'[s].v0 = "timeout"
  BY <1>2, <1>4, <1>5, <1>8 DEF Leaves, ExpiryResult, EndWaits, Waiting
<1> QED
  BY <1>6, <1>7, <1>8 DEF Passes, Waiting

LEMMA ModuleThreadPasses ==
  ASSUME Inv, NEW w \in EndWaits, RunModuleThread(w), NEW s \in Slots
  PROVE  Passes(s)
<1> DEFINE k == WithModuleThread
<1>1. TypeOK /\ TimedWaitsCounted /\ Sound(threads, current, nextId) /\ Alive
  BY InvSound DEF RunModuleThread
<1>2. PICK x \in Slots \ {Self} :
        /\ threads[x].state = "FREE"
        /\ k.tcbs[x].id = nextId /\ k.tcbs[x].state = "READY"
        /\ \A r \in Slots \ {x} : k.tcbs[r] = threads[r]
  BY <1>1, ModuleThreadSwitchable
<1>3. k \in KernelType /\ Switchable(k.tcbs, "READY", nextId + 1)
  BY <1>1, ModuleThreadSwitchable
<1>4. Block(k, w, nextId, NoNeed, 0, 0)
  BY DEF RunModuleThread, WithModuleThread
<1> HIDE DEF k
<1>5. /\ w \in Waits /\ NoNeed \in AnyNeed /\ now \in Nat /\ nextId \in Int /\ 0 \in Nat
      /\ w \notin {"sema", "evf"} /\ Self \in Slots
  BY <1>1, FieldValues, SelfRunning DEF TypeOK, EndWaits
<1>6. w \in EndWaits => \E r \in Slots : k.tcbs[r].id = nextId /\ k.tcbs[r].state \in LiveStates
  BY <1>2 DEF LiveStates
<1>7. \A r \in Slots : BlockedAs(k, w, nextId, NoNeed, 0, 0, r)
  BY <1>3, <1>4, <1>5, <1>6, BlockLeaves
<1>8. Waiting(threads', s) => threads'[s] = threads[s] \/ BeginsToWait(s)
  BY <1>1, <1>2, <1>5, <1>7 DEF BlockedAs, Waiting, BeginsToWait
<1>9. EndWaiter(threads, s) /\ ~Waiting(threads', s) => threads[s].deadline # 0
  BY <1>2, <1>7, TargetIsThread DEF BlockedAs, EndWaiter, Waiting
<1>10. ASSUME Waiting(threads, s), threads[s].wait \in {"sema", "evf"}, ~Waiting(threads', s)
       PROVE  threads'[s].v0 = "timeout"
  BY <1>2, <1>7, <1>10 DEF BlockedAs, ExpiryResult, EndWaits, Waiting
<1> QED
  BY <1>8, <1>9, <1>10 DEF Passes, Waiting

(* Slot x ends: only those who wait for its thread become READY. *)
EndsOnly(x) ==
  \A r \in Slots \ {x} :
    \/ threads'[r] = threads[r]
    \/ /\ threads[r].state = "WAITING" /\ threads'[r].state = "READY"
       /\ threads'[r].id = threads[r].id
       /\ threads[r].wait \in EndWaits /\ threads[r].obj = threads[x].id

LEMMA DeleteEndsOnly ==
  ASSUME Inv, NEW x \in Slots, DeleteThread(x)
  PROVE  EndsOnly(x) /\ threads'[x].state = "FREE"
<1> DEFINE w == WakeEndWaiters(Kernel, threads[x].id)
           c == ClearWaits(w, {x})
           k == Zeroed(c, x)
<1>1. Kernel \in KernelType /\ Kernel.tcbs = threads
  BY KernelOK DEF Inv
<1>2. /\ w \in KernelType /\ Wakes(threads, w.tcbs)
      /\ \A r \in Slots : \/ w.tcbs[r] = threads[r]
                          \/ threads[r].wait \in EndWaits /\ threads[r].obj = threads[x].id
  <2>1. w \in KernelType /\ Wakes(Kernel.tcbs, w.tcbs)
    BY <1>1, WakeEndWaitersWakes
  <2>2. \A r \in Slots : \/ w.tcbs[r] = Kernel.tcbs[r]
                         \/ Kernel.tcbs[r].wait \in EndWaits /\ Kernel.tcbs[r].obj = threads[x].id
    BY <1>1, WakeEndWaitersWakens
  <2> HIDE DEF w
  <2> QED
    BY <1>1, <2>1, <2>2
<1> HIDE DEF w
<1>3. c \in KernelType /\ \A r \in Slots \ {x} : c.tcbs[r] = w.tcbs[r]
  BY <1>2, ClearWaitsType
<1> HIDE DEF c
<1>4. \A r \in Slots : k.tcbs[r] = IF r = x THEN ZeroTcb ELSE c.tcbs[r]
  BY <1>3, ZeroTcbType, WithTcbType DEF Zeroed
<1>5. threads' = k.tcbs
  BY DEF DeleteThread, k, c, w
<1> HIDE DEF k
<1> QED
  BY <1>2, <1>3, <1>4, <1>5, ZeroTcbType DEF EndsOnly, Wakes

LEMMA TerminateEndsOnly ==
  ASSUME Inv, NEW x \in Slots, NEW erase \in BOOLEAN, TerminateThread(x, erase)
  PROVE  /\ EndsOnly(x) /\ threads'[x].state \in {"FREE", "DORMANT"}
         /\ threads'[x].state = "DORMANT" => threads'[x].v0 = "terminated"
<1> DEFINE over == [Cleared(threads[x]) EXCEPT !.state = "DORMANT", !.v0 = "terminated"]
           c == ClearWaits(Kernel, {x})
           dormant == WithTcb(c, x, over)
           w == WakeEndWaiters(dormant, threads[x].id)
           e == ClearWaits(w, {x})
           z == Zeroed(e, x)
           gone == IF erase THEN z ELSE w
<1>1. Kernel \in KernelType /\ Kernel.tcbs = threads /\ threads[x] \in Tcb
  BY KernelOK DEF Inv, TypeOK
<1>2. over \in Tcb /\ over.state = "DORMANT" /\ over.v0 = "terminated"
  BY <1>1, ClearedType DEF Tcb, States, Results
<1>3. threads' = gone.tcbs
  BY DEF TerminateThread
<1> HIDE DEF over
<1>4. c \in KernelType /\ \A r \in Slots \ {x} : c.tcbs[r] = threads[r]
  BY <1>1, ClearWaitsType
<1> HIDE DEF c
<1>5. /\ dormant \in KernelType
      /\ \A r \in Slots : dormant.tcbs[r] = IF r = x THEN over ELSE c.tcbs[r]
  BY <1>2, <1>4, WithTcbType
<1> HIDE DEF dormant
<1>6. /\ w \in KernelType /\ Wakes(dormant.tcbs, w.tcbs)
      /\ \A r \in Slots : \/ w.tcbs[r] = dormant.tcbs[r]
                          \/ /\ dormant.tcbs[r].wait \in EndWaits
                             /\ dormant.tcbs[r].obj = threads[x].id
  BY <1>5, WakeEndWaitersWakes, WakeEndWaitersWakens
<1> HIDE DEF w
<1>7. w.tcbs[x].state = "DORMANT" /\ w.tcbs[x].v0 = "terminated"
  BY <1>2, <1>5, <1>6 DEF Wakes
<1>8. e \in KernelType /\ \A r \in Slots \ {x} : e.tcbs[r] = w.tcbs[r]
  BY <1>6, ClearWaitsType
<1> HIDE DEF e
<1>9. \A r \in Slots : z.tcbs[r] = IF r = x THEN ZeroTcb ELSE e.tcbs[r]
  BY <1>8, ZeroTcbType, WithTcbType DEF Zeroed
<1> HIDE DEF z
<1>10. /\ gone.tcbs[x].state \in {"FREE", "DORMANT"}
       /\ gone.tcbs[x].state = "DORMANT" => gone.tcbs[x].v0 = "terminated"
       /\ \A r \in Slots \ {x} : gone.tcbs[r] = w.tcbs[r]
  BY <1>7, <1>8, <1>9, ZeroTcbType
<1> HIDE DEF gone
<1> QED
  BY <1>3, <1>4, <1>5, <1>6, <1>10 DEF EndsOnly, Wakes

LEMMA EndPasses ==
  ASSUME Inv, ThreadIdsUnique', NEW x \in Slots, IsFirstWithId(x) \/ threads[x].id # 0,
         EndsOnly(x), threads'[x].state \in {"FREE", "DORMANT"},
         threads'[x].state = "DORMANT" => threads'[x].v0 = "terminated", NEW s \in Slots
  PROVE  Passes(s)
<1>1. ASSUME s # x, threads'[s] # threads[s] PROVE Over(threads', threads[s].obj)
  <2>1. threads[s].obj = threads[x].id
    BY <1>1 DEF EndsOnly
  <2>2. ASSUME NEW r \in Slots, r # x, threads'[r].id = threads[x].id
        PROVE  threads'[r].state = "FREE"
    <3>1. threads[r].id = threads[x].id
      BY <2>2 DEF EndsOnly
    <3>2. threads[x].id = 0 /\ x <= r
      BY <2>2, <3>1 DEF Inv, ThreadIdsUnique, IsFirstWithId
    <3>3. r # 0
      BY <2>2, <3>2 DEF Slots
    <3> QED
      BY <2>2, <3>2, <3>3 DEF ThreadIdsUnique
  <2> QED
    BY <2>1, <2>2 DEF Over
<1>2. CASE s = x
  BY <1>2 DEF Passes, Waiting
<1>3. CASE s # x /\ threads'[s] = threads[s]
  BY <1>3, QuietPasses
<1>4. CASE s # x /\ threads'[s] # threads[s]
  <2>1. threads'[s].state = "READY" /\ threads[s].wait \in EndWaits
    BY <1>4 DEF EndsOnly
  <2> QED
    BY <1>1, <1>4, <2>1 DEF Passes, Waiting, EndWaits
<1> QED
  BY <1>2, <1>3, <1>4

LEMMA NewThreadPasses ==
  ASSUME Inv, NEW st \in {"FREE", "DORMANT"}, FreeSlots(threads) # {},
         threads' = [threads EXCEPT ![First(FreeSlots(threads))] = NewTcb(st)],
         NEW s \in Slots
  PROVE  Passes(s)
<1> DEFINE x == First(FreeSlots(threads))
<1>1. x \in Slots /\ threads[x].state = "FREE"
  BY FirstIn DEF FreeSlots
<1> HIDE DEF x
<1>2. threads' = [threads EXCEPT ![x] = NewTcb(st)]
  BY DEF x
<1>3. NewTcb(st).state = st
  BY NewTcbType DEF Inv, TypeOK, States
<1>4. threads'[s] = threads[s] \/ (threads[s].state = "FREE" /\ threads'[s].state = st)
  BY <1>1, <1>2, <1>3 DEF Inv, TypeOK
<1> QED
  BY <1>4, QuietPasses

LEMMA NextPasses ==
  ASSUME Inv, [Next]_vars, NEW s \in Slots
  PROVE  Passes(s) /\ nextId <= nextId'
<1>1. Inv'
  BY NextInv
<1>2. ThreadIdsUnique'
  BY <1>1 DEF Inv
<1>3. nextId <= nextId'
  <2>1. nextId \in Nat
    BY DEF Inv, TypeOK
  <2>2. nextId' = nextId \/ nextId' = nextId + 1
    BY DEF Next, ThreadCalls, SlotCalls, ModuleThreads, CreateThreadFails, CreateThread,
           ExitThread, StartThread, DeleteThread, TerminateThread, WaitThreadEnd,
           DelayThread, YieldThread, SleepThread, SuspendDispatch, ResumeDispatch,
           RunModuleThread, RunModuleThreadFails, SasCoreDelay, Preempt, Tick, vars
  <2> QED
    BY <2>1, <2>2
<1> SUFFICES Passes(s)
  BY <1>3
<1>4. CASE UNCHANGED threads
  BY <1>4, QuietPasses
<1>5. ASSUME NEW st \in {"READY", "WAITING", "FREE"}, NEW v \in Results,
             Alive, RunScheduler(Kernel, st, v)
      PROVE  Passes(s)
  BY <1>2, <1>5, SwitchPasses
<1>6. CASE CreateThread \/ RunModuleThreadFails
  BY <1>6, NewThreadPasses DEF CreateThread, RunModuleThreadFails
<1>7. CASE ExitThread \/ SleepThread \/ Preempt
  BY <1>5, <1>7 DEF ExitThread, SleepThread, Preempt, Results
<1>8. CASE YieldThread
  <2>1. CASE dispatch
    BY <1>5, <1>8, <2>1 DEF YieldThread, Yield, Results
  <2>2. CASE ~dispatch
    BY <1>4, <1>8, <2>2 DEF YieldThread, Yield, Kernel
  <2> QED
    BY <2>1, <2>2
<1>9. ASSUME NEW w \in EndWaits, RunModuleThread(w) PROVE Passes(s)
  BY <1>9, ModuleThreadPasses
<1>10. ASSUME NEW x \in Slots, StartThread(x) PROVE Passes(s)
  BY <1>10, StartPasses
<1>11. ASSUME NEW x \in Slots, DeleteThread(x) PROVE Passes(s)
  BY <1>2, <1>11, DeleteEndsOnly, EndPasses DEF DeleteThread
<1>12. ASSUME NEW x \in Slots, NEW erase \in BOOLEAN, TerminateThread(x, erase)
       PROVE  Passes(s)
  BY <1>2, <1>12, TerminateEndsOnly, EndPasses DEF TerminateThread
<1>13. ASSUME NEW x \in Slots, WaitThreadEnd(x) PROVE Passes(s)
  <2>1. /\ Alive /\ Block(Kernel, "end", threads[x].id, NoNeed, 0, 0)
        /\ threads[x].state \in LiveStates /\ threads[x].id \in Int
    BY <1>13 DEF WaitThreadEnd, Inv, TypeOK, Tcb, States, LiveStates
  <2>2. "end" \in EndWaits
    BY DEF EndWaits
  <2> QED
    BY <2>1, <2>2, BlockPasses
<1>14. ASSUME NEW d \in Delays, DelayThread(d) \/ SasCoreDelay(d) PROVE Passes(s)
  <2>1. /\ Alive /\ d \in Nat /\ now \in Nat /\ nextSeq \in Nat
        /\ Block(Kernel, "delay", -1, NoNeed, IF d = 0 THEN 0 ELSE now + d, nextSeq)
    BY <1>14, DelaysAssumption DEF DelayThread, SasCoreDelay, BlockInOrder, Inv, TypeOK
  <2>2. PICK deadline \in Nat : Block(Kernel, "delay", -1, NoNeed, deadline, nextSeq)
    BY <2>1
  <2>3. "delay" \notin EndWaits
    BY DEF EndWaits
  <2> QED
    BY <2>1, <2>2, <2>3, BlockPasses
<1>15. CASE UNCHANGED vars \/ CreateThreadFails \/ SuspendDispatch \/ Tick
            \/ \E enabled \in BOOLEAN : ResumeDispatch(enabled)
  BY <1>4, <1>15 DEF vars, CreateThreadFails, SuspendDispatch, ResumeDispatch, Tick
<1> QED
  BY <1>6, <1>7, <1>8, <1>9, <1>10, <1>11, <1>12, <1>13, <1>14, <1>15
  DEF Next, ModuleThreads, ThreadCalls, SlotCalls

-----------------------------------------------------------------------------
(* What the calls of other components do: they wake waiters and block.     *)

(* Table u is the table after some waiters became READY, counted. *)
Awoken(u) == u \in KernelType /\ Wakes(threads, u.tcbs) /\ Counted(u)

LEMMA KernelAwoken ==
  ASSUME Inv
  PROVE  Awoken(Kernel) /\ Kernel.tcbs = threads
<1>1. Kernel \in KernelType /\ Kernel.tcbs = threads /\ Counted(Kernel)
  BY KernelOK DEF Inv
<1> QED
  BY <1>1 DEF Awoken, Wakes

(* Only those whose time is up were woken. *)
Late(u) ==
  \A s \in Slots : u.tcbs[s] = threads[s] \/ u.tcbs[s].v0 = ExpiryResult(threads[s])

LEMMA ExpiredAwoken ==
  ASSUME Inv
  PROVE  Awoken(WakeExpired(Kernel, now)) /\ Late(WakeExpired(Kernel, now))
<1>1. Kernel \in KernelType /\ Kernel.tcbs = threads /\ Counted(Kernel) /\ now \in Nat
  BY KernelOK DEF Inv, TypeOK
<1>2. /\ WakeExpired(Kernel, now) \in KernelType
      /\ Wakes(Kernel.tcbs, WakeExpired(Kernel, now).tcbs)
      /\ Counted(WakeExpired(Kernel, now))
  BY <1>1, WakeExpiredWakes
<1>3. Late(WakeExpired(Kernel, now))
  <2>1. ASSUME NEW s \in Slots
        PROVE  \/ WakeExpired(Kernel, now).tcbs[s] = Kernel.tcbs[s]
               \/ WakeExpired(Kernel, now).tcbs[s].v0 = ExpiryResult(Kernel.tcbs[s])
    BY <1>1, WakeExpiredWakens
  <2> QED
    BY <1>1, <2>1 DEF Late
<1> QED
  BY <1>1, <1>2, <1>3 DEF Awoken

(* In j the waiters S of the table k were woken, too, with the result v. *)
WokenWith(k, S, v, j) ==
  /\ Awoken(k)
  /\ S \in SUBSET Slots
  /\ \A s \in S : Waiting(k.tcbs, s)
  /\ v \in Results
  /\ j = Wake(k, S, [s \in Slots |-> v])

LEMMA MoreAwoken ==
  ASSUME NEW k, NEW S, NEW v, NEW j, WokenWith(k, S, v, j)
  PROVE  /\ Awoken(j)
         /\ \A s \in Slots \ S : j.tcbs[s] = k.tcbs[s]
         /\ \A s \in S : j.tcbs[s].state = "READY" /\ j.tcbs[s].v0 = v
<1>1. PICK result : result = [s \in Slots |-> v]
  OBVIOUS
<1>2. /\ result \in [Slots -> Results] /\ k \in KernelType /\ S \in SUBSET Slots
      /\ \A s \in Slots : result[s] = v
      /\ \A s \in S : Waiting(k.tcbs, s)
      /\ Wakes(threads, k.tcbs) /\ Counted(k)
  BY <1>1 DEF WokenWith, Awoken
<1>3. j = Wake(k, S, result)
  BY <1>1 DEF WokenWith
<1>4. /\ j \in KernelType /\ Wakes(k.tcbs, j.tcbs) /\ Counted(j)
      /\ \A s \in Slots : j.tcbs[s] = IF s \in S THEN Awake(k.tcbs[s], result[s]) ELSE k.tcbs[s]
  BY <1>2, <1>3, WakeWakes, WakeType, WakeCounted
<1>5. Wakes(threads, j.tcbs)
  BY <1>2, <1>4, WakesTwice
<1>6. ASSUME NEW s \in S PROVE j.tcbs[s].state = "READY" /\ j.tcbs[s].v0 = v
  <2>1. k.tcbs[s] \in Tcb /\ j.tcbs[s] = Awake(k.tcbs[s], v)
    BY <1>2, <1>4 DEF KernelType
  <2>2. Cleared(k.tcbs[s]) \in Tcb
    BY <2>1, ClearedType
  <2> QED
    BY <2>1, <2>2 DEF Awake, Tcb
<1> QED
  BY <1>2, <1>4, <1>5, <1>6 DEF Awoken

(* Waking waiters keeps the invariant. *)
LEMMA AwokenKeepsInv ==
  ASSUME Inv, NEW u, Awoken(u), threads' = u.tcbs, timed' = u.timed,
         UNCHANGED <<current, nextId, nextSeq, dispatch, now>>
  PROVE  Inv'
<1>1. TypeOK /\ TimedWaitsCounted /\ Sound(threads, current, nextId)
  BY InvSound
<1>2. threads' \in [Slots -> Tcb] /\ threads \in [Slots -> Tcb] /\ timed' \in Nat
  BY <1>1 DEF Awoken, KernelType, Sound
<1>3. Wakes(threads, threads')
  BY DEF Awoken
<1>4. /\ UniqueIds(threads', nextId) /\ Tidy(threads', Slots) /\ Targets(threads')
  BY <1>1, <1>2, <1>3, WakesPreserves DEF Sound
<1>5. OneRunning(threads', current)
  BY <1>1, <1>3 DEF Sound, OneRunning, NoneRunning, Wakes
<1>6. Sound(threads', current, nextId)
  BY <1>1, <1>2, <1>4, <1>5 DEF Sound
<1>7. TypeOK' /\ TimedWaitsCounted'
  BY <1>1, <1>2 DEF TypeOK, Awoken, Counted, TimedWaitsCounted, WithDeadline
<1> QED
  BY <1>6, <1>7
  DEF Inv, TypeOK, OneRunningThread, ThreadIdsUnique, OnlyWaitersWait,
      EndWaitersHaveTarget, Sound, OneRunning, NoneRunning, UniqueIds, Tidy,
      Targets, EndWaiter, HasTarget, LiveStates, Waiting

(* The caller still runs in a table where others were woken. *)
LEMMA AwokenSwitchable ==
  ASSUME Inv, Alive, NEW u, Awoken(u)
  PROVE  Switchable(u.tcbs, "READY", nextId)
<1>1. TypeOK /\ Sound(threads, current, nextId)
  BY InvSound
<1>2. /\ Self \in Slots /\ threads[Self].id = current /\ threads[Self].state = "RUNNING"
      /\ \A s \in Slots \ {Self} : threads[s].state # "RUNNING"
      /\ threads[Self] = Cleared(threads[Self]) /\ threads[Self].wait = "none"
  BY <1>1, SelfRunning
<1> HIDE DEF Self
<1>3. threads \in [Slots -> Tcb] /\ u.tcbs \in [Slots -> Tcb] /\ Wakes(threads, u.tcbs)
  BY <1>1 DEF Awoken, KernelType, Sound
<1>4. /\ UniqueIds(u.tcbs, nextId) /\ Tidy(u.tcbs, Slots) /\ Targets(u.tcbs)
      /\ u.tcbs[Self] = threads[Self]
  BY <1>1, <1>2, <1>3, WakesPreserves DEF Sound
<1>5. \A s \in Slots \ {Self} : u.tcbs[s].state # "RUNNING"
  BY <1>2, <1>3 DEF Wakes
<1> QED
  BY <1>2, <1>4, <1>5 DEF Switchable, Tidy, Targets

(* A wait for a semaphore, a flag or time: the invariant, and who waits.   *)
WaitsInOrder(w, obj, need, s) ==
  Waiting(threads', s) =>
    \/ s # Self /\ threads'[s] = threads[s]
    \/ /\ s = Self
       /\ threads'[s].wait = w /\ threads'[s].obj = obj /\ threads'[s].need = need
       /\ threads'[s].seq = nextSeq

(* Who waited for a semaphore or a flag, and waits no more, timed out. *)
TimesOut(s) ==
  Waiting(threads, s) /\ threads[s].wait \in {"sema", "evf"} /\ ~Waiting(threads', s)
    => threads'[s].v0 = "timeout"

LEMMA BlockInOrderKeepsInv ==
  ASSUME Inv, Alive, NEW k, Awoken(k), Late(k), NEW w \in TimedWaits, NEW obj \in Int,
         NEW need \in AnyNeed, NEW d \in Nat, BlockInOrder(k, w, obj, need, d),
         UNCHANGED <<nextId, dispatch>>
  PROVE  Inv' /\ \A s \in Slots : WaitsInOrder(w, obj, need, s) /\ TimesOut(s)
<1>1. TypeOK /\ Sound(threads, current, nextId) /\ now \in Nat /\ nextSeq \in Nat
  BY InvSound DEF Inv, TypeOK
<1>2. PICK deadline \in Nat : Block(k, w, obj, need, deadline, nextSeq)
  <2>1. Block(k, w, obj, need, IF d = 0 THEN 0 ELSE now + d, nextSeq)
    BY DEF BlockInOrder
  <2> QED
    BY <1>1, <2>1
<1>3. k \in KernelType /\ Counted(k) /\ Switchable(k.tcbs, "READY", nextId)
  BY AwokenSwitchable DEF Awoken
<1>4. w \in Waits /\ w \notin EndWaits
  BY FieldValues DEF EndWaits, TimedWaits
<1>5. /\ Sound(threads', current', nextId) /\ timed' \in Nat /\ now' \in Nat
      /\ TimedWaitsCounted'
  BY <1>1, <1>2, <1>3, <1>4, BlockSound
<1>6. nextSeq' \in Nat /\ nextId' = nextId /\ dispatch' \in BOOLEAN /\ nextId' \in Nat
  BY <1>1 DEF BlockInOrder, TypeOK
<1>7. Inv'
  BY <1>5, <1>6
  DEF Inv, TypeOK, OneRunningThread, ThreadIdsUnique, OnlyWaitersWait,
      EndWaitersHaveTarget, Sound, OneRunning, NoneRunning, UniqueIds, Tidy,
      Targets, EndWaiter, HasTarget, LiveStates, Waiting
<1>8. \A s \in Slots : BlockedAs(k, w, obj, need, deadline, nextSeq, s)
  BY <1>1, <1>2, <1>3, <1>4, BlockLeaves
<1>9. ASSUME NEW s \in Slots PROVE WaitsInOrder(w, obj, need, s)
  <2>1. CASE s = Self
    BY <1>8, <2>1 DEF BlockedAs, WaitsInOrder
  <2>2. CASE s # Self
    BY <1>8, <2>2 DEF BlockedAs, WaitsInOrder, Awoken, Wakes, Waiting
  <2> QED
    BY <2>1, <2>2
<1>10. ASSUME NEW s \in Slots, Waiting(threads, s), threads[s].wait \in {"sema", "evf"},
              ~Waiting(threads', s)
       PROVE  threads'[s].v0 = "timeout"
  <2>1. ExpiryResult(threads[s]) = "timeout" /\ threads[s].wait \notin EndWaits
    BY <1>10 DEF ExpiryResult, EndWaits
  <2>2. s # Self
    BY <1>1, <1>10, SelfRunning DEF Waiting
  <2> HIDE DEF Self
  <2>3. CASE k.tcbs[s] = threads[s]
    BY <1>8, <1>10, <2>1, <2>3 DEF BlockedAs, Waiting
  <2>4. CASE k.tcbs[s] # threads[s]
    <3>1. ~Waiting(k.tcbs, s) /\ k.tcbs[s].v0 = "timeout"
      BY <2>1, <2>4 DEF Awoken, Wakes, Late, Waiting
    <3> QED
      BY <1>8, <2>2, <3>1 DEF BlockedAs
  <2> QED
    BY <2>3, <2>4
<1> QED
  BY <1>7, <1>9, <1>10 DEF TimesOut

=============================================================================
