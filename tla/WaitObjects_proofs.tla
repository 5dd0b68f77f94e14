-------------------------- MODULE WaitObjects_proofs --------------------------
(***************************************************************************)
(* Proofs about Semaphores and EventFlags, for any number of threads,      *)
(* semaphores and units, flags and bits, on top of the invariant of the    *)
(* scheduler (Inv).  What waiters ask for together, and the loop that      *)
(* serves the waiters of a flag, are recursive functions: they are shown   *)
(* to exist, to add up and to keep what every round keeps by looking for a *)
(* smallest set, or a first round, where they do not.                      *)
(***************************************************************************)
EXTENDS Semaphores, EventFlags, Scheduler_proofs

-----------------------------------------------------------------------------
(* Sums *)

LEMMA Least ==
  ASSUME NEW S \in SUBSET Nat, S # {}
  PROVE  \E m \in S : \A n \in S : m <= n
BY FirstInNat

Chosen(s) == CHOOSE x \in s : TRUE

(* The body of the sum, for table t. *)
Body(t, g, s) == IF s = {} THEN 0 ELSE t[Chosen(s)].need + g[s \ {Chosen(s)}]

(* g is the sum over the subsets of S. *)
Adds(g, t, S) == g = [s \in SUBSET S |-> Body(t, g, s)]

LEMMA TotalNeedIs ==
  ASSUME NEW t, NEW S
  PROVE  TotalNeed(t, S) = (CHOOSE g : Adds(g, t, S))[S]
BY DEF TotalNeed, MapThenSumSet, MapThenFoldSet, Adds, Body, Chosen

(* A set of waiters of table t, each asking for a number of units. *)
Askers(t, S) == IsFiniteSet(S) /\ \A x \in S : t[x].need \in Nat

AddsUpTo(g, t, S, n) ==
  /\ g \in [SUBSET S -> Nat]
  /\ \A s \in SUBSET S : Cardinality(s) <= n => g[s] = Body(t, g, s)

LEMMA Smaller ==
  ASSUME NEW S, IsFiniteSet(S), NEW s \in SUBSET S, NEW x \in s
  PROVE  /\ s \ {x} \in SUBSET S
         /\ Cardinality(s) \in Nat /\ Cardinality(s \ {x}) \in Nat
         /\ Cardinality(s \ {x}) = Cardinality(s) - 1
<1>1. IsFiniteSet(s)
  BY FS_Subset
<1> QED
  BY <1>1, FS_RemoveElement, FS_CardinalityType

LEMMA ChosenIn ==
  ASSUME NEW s, s # {}
  PROVE  Chosen(s) \in s
BY DEF Chosen

LEMMA BodyType ==
  ASSUME NEW t, NEW S, Askers(t, S), NEW g \in [SUBSET S -> Nat], NEW s \in SUBSET S
  PROVE  Body(t, g, s) \in Nat
<1>1. CASE s = {}
  BY <1>1 DEF Body
<1>2. CASE s # {}
  <2>1. Chosen(s) \in s /\ s \ {Chosen(s)} \in SUBSET S
    BY <1>2, ChosenIn
  <2>2. t[Chosen(s)].need \in Nat /\ g[s \ {Chosen(s)}] \in Nat
    BY <2>1 DEF Askers
  <2> QED
    BY <1>2, <2>2 DEF Body
<1> QED
  BY <1>1, <1>2

LEMMA AddsUpToExists ==
  ASSUME NEW t, NEW S, Askers(t, S), NEW N \in Nat
  PROVE  \E g : AddsUpTo(g, t, S, N)
<1> DEFINE Bad == {n \in Nat : ~ \E g : AddsUpTo(g, t, S, n)}
<1>1. CASE Bad = {}
  BY <1>1
<1>2. CASE Bad # {}
  <2>1. PICK m \in Bad : \A n \in Bad : m <= n
    BY <1>2, Least
  <2>2. CASE m = 0
    <3> DEFINE z == [s \in SUBSET S |-> 0]
    <3>1. ASSUME NEW s \in SUBSET S, Cardinality(s) <= 0
          PROVE  z[s] = Body(t, z, s)
      <4>1. IsFiniteSet(s) /\ Cardinality(s) \in Nat
        BY FS_Subset, FS_CardinalityType DEF Askers
      <4>2. s = {}
        BY <3>1, <4>1, FS_EmptySet
      <4> QED
        BY <4>2 DEF Body
    <3>2. AddsUpTo(z, t, S, 0)
      BY <3>1 DEF AddsUpTo
    <3> QED
      BY <2>1, <2>2, <3>2
  <2>3. CASE m # 0
    <3>1. m \in Nat /\ m - 1 \in Nat /\ m - 1 \notin Bad
      BY <2>1, <2>3
    <3>2. PICK g : AddsUpTo(g, t, S, m - 1)
      BY <3>1
    <3> DEFINE h == [s \in SUBSET S |-> Body(t, g, s)]
    <3>3. h \in [SUBSET S -> Nat]
      BY <3>2, BodyType DEF AddsUpTo
    <3>4. \A s \in SUBSET S : h[s] = Body(t, g, s)
      OBVIOUS
    <3> HIDE DEF h
    <3>5. ASSUME NEW s \in SUBSET S, Cardinality(s) <= m
          PROVE  h[s] = Body(t, h, s)
      <4>1. CASE s = {}
        BY <3>4, <4>1 DEF Body
      <4>2. CASE s # {}
        <5>1. PICK c \in s : c = Chosen(s)
          BY <4>2, ChosenIn
        <5>2. /\ s \ {c} \in SUBSET S
              /\ Cardinality(s \ {c}) \in Nat /\ Cardinality(s) \in Nat
              /\ Cardinality(s \ {c}) = Cardinality(s) - 1
          BY Smaller DEF Askers
        <5>3. Cardinality(s \ {c}) <= m - 1
          BY <3>1, <3>5, <5>2
        <5>4. h[s \ {c}] = g[s \ {c}]
          BY <3>2, <3>4, <5>2, <5>3 DEF AddsUpTo
        <5> QED
          BY <3>4, <5>1, <5>4 DEF Body
      <4> QED
        BY <4>1, <4>2
    <3>6. AddsUpTo(h, t, S, m)
      BY <3>3, <3>5 DEF AddsUpTo
    <3> QED
      BY <2>1, <3>6
  <2> QED
    BY <2>2, <2>3
<1> QED
  BY <1>1, <1>2

LEMMA SumExists ==
  ASSUME NEW t, NEW S, Askers(t, S)
  PROVE  \E g \in [SUBSET S -> Nat] : Adds(g, t, S)
<1>1. Cardinality(S) \in Nat
  BY FS_CardinalityType DEF Askers
<1>2. PICK g : AddsUpTo(g, t, S, Cardinality(S))
  BY <1>1, AddsUpToExists
<1>3. ASSUME NEW s \in SUBSET S PROVE g[s] = Body(t, g, s)
  <2>1. Cardinality(s) <= Cardinality(S)
    BY FS_Subset DEF Askers
  <2> QED
    BY <1>2, <2>1 DEF AddsUpTo
<1> QED
  BY <1>2, <1>3 DEF Adds, AddsUpTo

(* There is one sum. *)
LEMMA SumsAgree ==
  ASSUME NEW t, NEW S, Askers(t, S), NEW T \in SUBSET S,
         NEW g, Adds(g, t, S), NEW h, Adds(h, t, T), NEW r \in SUBSET T
  PROVE  g[r] = h[r]
<1> DEFINE Bad == {n \in Nat : \E s \in SUBSET T : Cardinality(s) = n /\ g[s] # h[s]}
<1>1. CASE Bad = {}
  <2>1. IsFiniteSet(r) /\ Cardinality(r) \in Nat
    BY FS_Subset, FS_CardinalityType DEF Askers
  <2> QED
    BY <1>1, <2>1
<1>2. CASE Bad # {}
  <2>1. PICK m \in Bad : \A n \in Bad : m <= n
    BY <1>2, Least
  <2>2. PICK s \in SUBSET T : Cardinality(s) = m /\ g[s] # h[s]
    BY <2>1
  <2>3. g[s] = Body(t, g, s) /\ h[s] = Body(t, h, s)
    BY DEF Adds
  <2>4. s # {}
    BY <2>2, <2>3 DEF Body
  <2>5. PICK c \in s : c = Chosen(s)
    BY <2>4, ChosenIn
  <2>6. /\ s \ {c} \in SUBSET T
        /\ Cardinality(s) \in Nat /\ Cardinality(s \ {c}) \in Nat
        /\ Cardinality(s \ {c}) = Cardinality(s) - 1
    BY Smaller DEF Askers
  <2>7. Cardinality(s \ {c}) \notin Bad
    <3>1. PICK n \in Nat : n = Cardinality(s \ {c}) /\ n = m - 1
      BY <2>2, <2>6
    <3>2. n \notin Bad
      <4>1. m \in Nat /\ ~(m <= n)
        BY <2>1, <3>1
      <4> HIDE DEF Bad
      <4> QED
        BY <2>1, <4>1
    <3> QED
      BY <3>1, <3>2
  <2>8. g[s \ {c}] = h[s \ {c}]
    BY <2>6, <2>7
  <2> QED
    BY <2>2, <2>3, <2>4, <2>5, <2>8 DEF Body
<1> QED
  BY <1>1, <1>2

LEMMA Totals ==
  ASSUME NEW t, NEW S, Askers(t, S)
  PROVE  \E g \in [SUBSET S -> Nat] :
           Adds(g, t, S) /\ \A T \in SUBSET S : TotalNeed(t, T) = g[T]
<1>1. PICK g \in [SUBSET S -> Nat] : Adds(g, t, S)
  BY SumExists
<1>2. ASSUME NEW T \in SUBSET S PROVE TotalNeed(t, T) = g[T]
  <2>1. Askers(t, T)
    BY FS_Subset DEF Askers
  <2>2. PICK f : f = CHOOSE h : Adds(h, t, T)
    OBVIOUS
  <2>3. Adds(f, t, T)
    BY <2>1, <2>2, SumExists
  <2>4. g[T] = f[T]
    BY <1>1, <2>3, SumsAgree
  <2> QED
    BY <2>2, <2>4, TotalNeedIs
<1> QED
  BY <1>1, <1>2

LEMMA TotalType ==
  ASSUME NEW t, NEW S, Askers(t, S)
  PROVE  TotalNeed(t, S) \in Nat
<1>1. PICK g \in [SUBSET S -> Nat] : \A T \in SUBSET S : TotalNeed(t, T) = g[T]
  BY Totals
<1>2. TotalNeed(t, S) = g[S] /\ g[S] \in Nat
  BY <1>1
<1> QED
  BY <1>2

(* What they ask for does not depend on the order they are counted in. *)
LEMMA TotalPlus ==
  ASSUME NEW t, NEW S, Askers(t, S), NEW a \in S
  PROVE  TotalNeed(t, S) = t[a].need + TotalNeed(t, S \ {a})
<1>1. PICK g \in [SUBSET S -> Nat] :
        Adds(g, t, S) /\ \A T \in SUBSET S : TotalNeed(t, T) = g[T]
  BY Totals
<1>2. \A s \in SUBSET S : g[s] = Body(t, g, s)
  BY <1>1 DEF Adds
<1> DEFINE Wrong(s, x) == g[s] # t[x].need + g[s \ {x}]
           Bad == {n \in Nat : \E s \in SUBSET S : Cardinality(s) = n /\ \E x \in s : Wrong(s, x)}
<1>3. CASE Bad = {}
  <2>1. Cardinality(S) \in Nat /\ S \in SUBSET S /\ S \ {a} \in SUBSET S
    BY FS_CardinalityType DEF Askers
  <2>2. ~Wrong(S, a)
    BY <1>3, <2>1
  <2> QED
    BY <1>1, <2>1, <2>2
<1>4. CASE Bad # {}
  <2>1. PICK m \in Bad : \A n \in Bad : m <= n
    BY <1>4, Least
  <2>2. PICK s \in SUBSET S : Cardinality(s) = m /\ \E x \in s : Wrong(s, x)
    BY <2>1
  <2>3. PICK x \in s : Wrong(s, x)
    BY <2>2
  <2>4. PICK c \in s : c = Chosen(s)
    BY <2>3, ChosenIn
  <2>5. g[s] = t[c].need + g[s \ {c}]
    BY <1>2, <2>3, <2>4 DEF Body
  <2>6. c # x
    BY <2>3, <2>5
  <2>7. ASSUME NEW y \in s
        PROVE  /\ s \ {y} \in SUBSET S
               /\ \A z \in s \ {y} : ~Wrong(s \ {y}, z)
    <3>1. /\ s \ {y} \in SUBSET S
          /\ Cardinality(s) \in Nat /\ Cardinality(s \ {y}) \in Nat
          /\ Cardinality(s \ {y}) = Cardinality(s) - 1
      BY Smaller DEF Askers
    <3>2. PICK n \in Nat : n = Cardinality(s \ {y}) /\ n = m - 1
      BY <2>2, <3>1
    <3>3. n \notin Bad
      <4>1. m \in Nat /\ ~(m <= n)
        BY <2>1, <3>2
      <4> HIDE DEF Bad
      <4> QED
        BY <2>1, <4>1
    <3> QED
      BY <3>1, <3>2, <3>3
  <2>8. g[s \ {c}] = t[x].need + g[(s \ {c}) \ {x}]
    BY <2>6, <2>7
  <2>9. g[s \ {x}] = t[c].need + g[(s \ {x}) \ {c}]
    BY <2>6, <2>7
  <2>10. (s \ {c}) \ {x} = (s \ {x}) \ {c}
    OBVIOUS
  <2>11. /\ t[c].need \in Nat /\ t[x].need \in Nat
         /\ g[(s \ {c}) \ {x}] \in Nat
    BY DEF Askers
  <2>12. g[s] = t[x].need + g[s \ {x}]
    <3>1. PICK u \in Nat, v \in Nat, w \in Nat :
            u = t[c].need /\ v = t[x].need /\ w = g[(s \ {c}) \ {x}]
      BY <2>11
    <3>2. g[s] = u + (v + w)
      BY <2>5, <2>8, <3>1
    <3>3. g[s \ {x}] = u + w
      BY <2>9, <2>10, <3>1
    <3> QED
      BY <3>1, <3>2, <3>3
  <2> QED
    BY <2>3, <2>12
<1> QED
  BY <1>3, <1>4

LEMMA TotalOfNone == ASSUME NEW t PROVE TotalNeed(t, {}) = 0
<1>1. Askers(t, {})
  BY FS_EmptySet DEF Askers
<1>2. PICK g : Adds(g, t, {}) /\ TotalNeed(t, {}) = g[{}]
  BY <1>1, Totals
<1> QED
  BY <1>2 DEF Adds, Body

(* More waiters ask for no less. *)
LEMMA TotalGrows ==
  ASSUME NEW t, NEW S, Askers(t, S), NEW A \in SUBSET S
  PROVE  TotalNeed(t, A) <= TotalNeed(t, S)
<1> DEFINE Wrong(s) == A \subseteq s /\ ~(TotalNeed(t, A) <= TotalNeed(t, s))
           Bad == {n \in Nat : \E s \in SUBSET S : Cardinality(s) = n /\ Wrong(s)}
<1>1. CASE Bad = {}
  <2>1. Cardinality(S) \in Nat
    BY FS_CardinalityType DEF Askers
  <2> QED
    BY <1>1, <2>1
<1>2. CASE Bad # {}
  <2>1. PICK m \in Bad : \A n \in Bad : m <= n
    BY <1>2, Least
  <2>2. PICK s \in SUBSET S : Cardinality(s) = m /\ Wrong(s)
    BY <2>1
  <2>3. Askers(t, s) /\ Askers(t, A)
    BY FS_Subset DEF Askers
  <2>4. TotalNeed(t, A) \in Nat /\ TotalNeed(t, s) \in Nat
    BY <2>3, TotalType
  <2>5. PICK x \in s : x \notin A
    BY <2>2, <2>4
  <2>6. TotalNeed(t, s) = t[x].need + TotalNeed(t, s \ {x})
    BY <2>3, TotalPlus
  <2>7. /\ s \ {x} \in SUBSET S
        /\ Cardinality(s) \in Nat /\ Cardinality(s \ {x}) \in Nat
        /\ Cardinality(s \ {x}) = Cardinality(s) - 1
    BY Smaller DEF Askers
  <2>8. ~Wrong(s \ {x})
    BY <2>1, <2>2, <2>7
  <2>9. t[x].need \in Nat /\ Askers(t, s \ {x})
    BY <2>7, FS_Subset DEF Askers
  <2>10. TotalNeed(t, s \ {x}) \in Nat
    BY <2>9, TotalType
  <2> QED
    BY <2>2, <2>4, <2>5, <2>6, <2>8, <2>9, <2>10
<1> QED
  BY <1>1, <1>2

(* Each asks for a unit at least. *)
LEMMA TotalCounts ==
  ASSUME NEW t, NEW S, IsFiniteSet(S), \A x \in S : t[x].need \in Nat \ {0}
  PROVE  Cardinality(S) <= TotalNeed(t, S)
<1> DEFINE Wrong(s) == ~(Cardinality(s) <= TotalNeed(t, s))
           Bad == {n \in Nat : \E s \in SUBSET S : Cardinality(s) = n /\ Wrong(s)}
<1>1. CASE Bad = {}
  <2>1. Cardinality(S) \in Nat
    BY FS_CardinalityType
  <2> QED
    BY <1>1, <2>1
<1>2. CASE Bad # {}
  <2>1. PICK m \in Bad : \A n \in Bad : m <= n
    BY <1>2, Least
  <2>2. PICK s \in SUBSET S : Cardinality(s) = m /\ Wrong(s)
    BY <2>1
  <2>3. Askers(t, s)
    BY FS_Subset DEF Askers
  <2>4. CASE s = {}
    BY <2>2, <2>4, TotalOfNone, FS_EmptySet
  <2>5. CASE s # {}
    <3>1. PICK x \in s : TRUE
      BY <2>5
    <3>2. TotalNeed(t, s) = t[x].need + TotalNeed(t, s \ {x})
      BY <2>3, TotalPlus
    <3>3. /\ s \ {x} \in SUBSET S
          /\ Cardinality(s) \in Nat /\ Cardinality(s \ {x}) \in Nat
          /\ Cardinality(s \ {x}) = Cardinality(s) - 1
      BY Smaller
    <3>4. ~Wrong(s \ {x})
      BY <2>1, <2>2, <3>3
    <3>5. t[x].need \in Nat \ {0} /\ Askers(t, s \ {x})
      BY <3>3, FS_Subset DEF Askers
    <3>6. TotalNeed(t, s \ {x}) \in Nat
      BY <3>5, TotalType
    <3> QED
      BY <2>2, <3>2, <3>3, <3>4, <3>5, <3>6
  <2> QED
    BY <2>4, <2>5
<1> QED
  BY <1>1, <1>2

-----------------------------------------------------------------------------
(* Waiters of a table t, in the order of their wait sequence *)

SemaWaiting(t, s) == Waiting(t, s) /\ t[s].wait = "sema"

AsksUnits(t) ==
  /\ t \in [Slots -> Tcb]
  /\ \A s \in Slots : SemaWaiting(t, s) => t[s].need \in Nat \ {0}

InTurn(t) ==
  \A r, s \in Slots : SemaWaiting(t, r) /\ SemaWaiting(t, s) /\ t[r].seq = t[s].seq => r = s

(* Slot s is the one of the slots S that waits longest. *)
OldestOf(t, S, s) == s \in S /\ \A r \in S : t[s].seq <= t[r].seq

LEMMA WaitersFinite ==
  ASSUME NEW S \in SUBSET Slots
  PROVE  IsFiniteSet(S) /\ Cardinality(S) \in Nat
BY SlotsFinite, FS_Subset, FS_CardinalityType

LEMMA OldestExists ==
  ASSUME NEW t \in [Slots -> Tcb], NEW S \in SUBSET Slots, S # {}
  PROVE  \E s \in S : OldestOf(t, S, s)
<1> DEFINE Q == {t[s].seq : s \in S}
<1>1. Q \in SUBSET Nat /\ Q # {}
  BY DEF Tcb
<1>2. PICK m \in Q : \A n \in Q : m <= n
  BY <1>1, Least
<1>3. PICK s \in S : t[s].seq = m
  BY <1>2
<1> QED
  BY <1>2, <1>3 DEF OldestOf

LEMMA WaitersAsk ==
  ASSUME NEW t, AsksUnits(t), NEW id, NEW S \in SUBSET SemaWaiters(t, id)
  PROVE  /\ S \in SUBSET Slots /\ Askers(t, S)
         /\ \A s \in S : t[s].need \in Nat \ {0} /\ t[s].seq \in Nat /\ SemaWaiting(t, s)
         /\ TotalNeed(t, S) \in Nat
         /\ Cardinality(S) \in Nat /\ Cardinality(S) <= TotalNeed(t, S)
<1>1. S \in SUBSET Slots
  BY DEF SemaWaiters
<1>2. \A s \in S : SemaWaiting(t, s) /\ t[s].need \in Nat \ {0} /\ t[s].seq \in Nat
  BY <1>1 DEF AsksUnits, SemaWaiters, SemaWaiting, Tcb
<1>3. IsFiniteSet(S) /\ Cardinality(S) \in Nat
  BY <1>1, WaitersFinite
<1>4. Askers(t, S)
  BY <1>2, <1>3 DEF Askers
<1> QED
  BY <1>1, <1>2, <1>3, <1>4, TotalType, TotalCounts

(* A signal leaves less than the first of those it does not serve asks for.*)
LEMMA GrantedLeaves ==
  ASSUME NEW t, AsksUnits(t), InTurn(t), NEW id, NEW c \in Int, NEW w,
         OldestOf(t, SemaWaiters(t, id) \ Granted(t, id, c), w)
  PROVE  c - TotalNeed(t, Granted(t, id, c)) < t[w].need
<1> DEFINE W == SemaWaiters(t, id)
           Until(s) == {r \in W : t[r].seq <= t[s].seq}
<1>1. PICK G \in SUBSET W : G = Granted(t, id, c)
  BY DEF Granted
<1>2. \A s \in W : s \in G <=> TotalNeed(t, Until(s)) <= c
  BY <1>1 DEF Granted, NeedUpTo
<1>3. w \in W /\ w \notin G /\ \A r \in W \ G : t[w].seq <= t[r].seq
  BY <1>1 DEF OldestOf
<1>4. \A s \in W : /\ s \in Slots /\ SemaWaiting(t, s) /\ t[s].seq \in Nat
                  /\ t[s].need \in Nat
  BY DEF AsksUnits, SemaWaiters, SemaWaiting, Tcb
<1>5. \A s \in W : Until(s) \in SUBSET W /\ TotalNeed(t, Until(s)) \in Nat /\ Askers(t, Until(s))
  BY WaitersAsk
<1>51. G \in SUBSET SemaWaiters(t, id)
  BY <1>1
<1> HIDE DEF W
<1>6. ASSUME NEW r \in Until(w), r # w PROVE r \in G
  <2>1. t[r].seq # t[w].seq
    BY <1>3, <1>4, <1>6 DEF InTurn
  <2> QED
    BY <1>3, <1>4, <1>6, <2>1
<1>7. ASSUME NEW r \in G PROVE r \in Until(w) /\ r # w
  <2>1. CASE t[r].seq <= t[w].seq
    BY <1>3, <2>1
  <2>2. CASE ~(t[r].seq <= t[w].seq)
    <3>1. Until(w) \in SUBSET Until(r)
      BY <1>3, <1>4, <2>2
    <3>2. r \in W
      OBVIOUS
    <3> HIDE DEF Until
    <3>3. TotalNeed(t, Until(w)) <= TotalNeed(t, Until(r))
      BY <1>5, <3>1, <3>2, TotalGrows
    <3>4. TotalNeed(t, Until(w)) <= c
      BY <1>2, <1>3, <1>5, <3>2, <3>3
    <3> QED
      BY <1>2, <1>3, <3>4
  <2> QED
    BY <2>1, <2>2
<1>8. Until(w) \ {w} = G /\ w \in Until(w)
  BY <1>3, <1>4, <1>6, <1>7
<1> HIDE DEF Until
<1>9. TotalNeed(t, Until(w)) = t[w].need + TotalNeed(t, G)
  BY <1>3, <1>5, <1>8, TotalPlus
<1>10. ~(TotalNeed(t, Until(w)) <= c) /\ TotalNeed(t, Until(w)) \in Nat
  BY <1>2, <1>3, <1>5
<1>11. TotalNeed(t, G) \in Nat /\ t[w].need \in Nat
  BY <1>3, <1>4, <1>51, WaitersAsk
<1> QED
  BY <1>1, <1>9, <1>10, <1>11

-----------------------------------------------------------------------------
(* The invariant *)

(* Slot s waits on a semaphore that exists and could serve it. *)
WaitsOnSema(t, f, s) ==
  SemaWaiting(t, s) =>
    /\ t[s].obj \in SemaIds
    /\ f[t[s].obj].active
    /\ t[s].need \in Needs
    /\ t[s].need <= f[t[s].obj].max

SemaInv ==
  /\ Inv
  /\ semas \in [SemaIds -> Sema]
  /\ \A s \in Slots : WaitsOnSema(threads, semas, s)
  /\ InTurn(threads)
  /\ \A s \in Slots : SemaWaiting(threads, s) => threads[s].seq < nextSeq

LEMMA InvType == SemaInv => STypeOK
BY DEF SemaInv, STypeOK, WaitsOnSema, SemaWaiting, Inv

LEMMA InvAsks ==
  ASSUME SemaInv
  PROVE  AsksUnits(threads) /\ threads \in [Slots -> Tcb] /\ nextSeq \in Nat
BY NeedsAssumption DEF SemaInv, AsksUnits, WaitsOnSema, Inv, TypeOK

LEMMA InitSemas == SInit => SemaInv
<1> SUFFICES ASSUME SInit PROVE SemaInv
  OBVIOUS
<1>1. Inv
  BY InitInv DEF SInit
<1>2. \A s \in Slots : threads[s].state # "WAITING"
  BY DEF SInit, Init, ZeroTcb
<1>3. NoSema \in Sema
  BY DEF NoSema, Sema
<1> QED
  BY <1>1, <1>2, <1>3 DEF SInit, SemaInv, WaitsOnSema, InTurn, SemaWaiting, Waiting

(* A wait for a semaphore that goes on, or was never there. *)
GoesOn(s) == SemaWaiting(threads', s) => threads'[s] = threads[s]

(* What a call may change of a semaphore that has waiters. *)
SameTerms(id) ==
  \/ semas'[id].active = semas[id].active /\ semas'[id].max = semas[id].max
  \/ SemaWaiters(threads', id) = {}

LEMMA WaitsGoOn ==
  ASSUME SemaInv, Inv', \A s \in Slots : GoesOn(s), semas' \in [SemaIds -> Sema],
         \A id \in SemaIds : SameTerms(id), nextSeq <= nextSeq'
  PROVE  SemaInv'
<1>1. ASSUME NEW s \in Slots, SemaWaiting(threads', s)
      PROVE  /\ SemaWaiting(threads, s) /\ threads'[s] = threads[s]
             /\ WaitsOnSema(threads', semas', s)
             /\ threads'[s].seq < nextSeq'
  <2>1. threads'[s] = threads[s] /\ SemaWaiting(threads, s)
    BY <1>1 DEF GoesOn, SemaWaiting, Waiting
  <2>2. WaitsOnSema(threads, semas, s) /\ threads[s].seq < nextSeq
    BY <2>1 DEF SemaInv
  <2>3. s \in SemaWaiters(threads', threads[s].obj)
    BY <1>1, <2>1 DEF SemaWaiters, SemaWaiting
  <2>4. SameTerms(threads[s].obj)
    BY <2>1, <2>2 DEF WaitsOnSema
  <2>5. WaitsOnSema(threads', semas', s)
    BY <2>1, <2>2, <2>3, <2>4 DEF WaitsOnSema, SameTerms
  <2>6. threads[s].seq \in Nat /\ nextSeq \in Nat /\ nextSeq' \in Nat
    BY DEF SemaInv, Inv, TypeOK, Tcb
  <2> QED
    BY <2>1, <2>2, <2>5, <2>6
<1>2. \A s \in Slots : WaitsOnSema(threads', semas', s)
  BY <1>1 DEF WaitsOnSema
<1>3. InTurn(threads')
  BY <1>1 DEF SemaInv, InTurn
<1> QED
  BY <1>1, <1>2, <1>3 DEF SemaInv

(* Slot s waits on, or its thread gives up without a unit. *)
Deserts(s) ==
  SemaWaiting(threads, s) =>
    \/ threads'[s] = threads[s]
    \/ ~Waiting(threads', s) /\ (threads'[s].v0 # "ok" \/ threads'[s].state = "FREE")

(* What a step may do to semaphore id. *)
Deserted(id) ==
  \E s \in SemaWaiters(threads, id) :
    /\ s \notin SemaWaiters(threads', id)
    /\ threads'[s].v0 # "ok" \/ threads'[s].state = "FREE"

GrantableIn(t, f, id) == \E s \in Slots : Oldest(t, id, s) /\ t[s].need <= f[id].count

LeavesOnlyByDesertion(id) ==
  GrantableIn(threads', semas', id) => GrantableIn(threads, semas, id) \/ Deserted(id)

ExceedsOnlyByExpiry(id) ==
  semas[id].count <= semas[id].max /\ semas'[id].count > semas'[id].max
    => SemaWaiterExpires(id)

Keeps ==
  SemaInv' /\ \A id \in SemaIds : LeavesOnlyByDesertion(id) /\ ExceedsOnlyByExpiry(id)

(* A semaphore whose terms stay and whose count does not grow, or for *)
(* which nobody waits.                                                *)
Modest(id) ==
  \/ /\ semas'[id].active = semas[id].active /\ semas'[id].max = semas[id].max
     /\ semas'[id].count <= semas[id].count
  \/ SemaWaiters(threads', id) = {} /\ semas'[id].count <= semas'[id].max

LEMMA SemaType ==
  ASSUME NEW f \in [SemaIds -> Sema], NEW id \in SemaIds
  PROVE  f[id].active \in BOOLEAN /\ f[id].count \in Int /\ f[id].max \in Int
BY DEF Sema

LEMMA ModestKeeps ==
  ASSUME SemaInv, Inv', \A s \in Slots : GoesOn(s) /\ Deserts(s),
         semas' \in [SemaIds -> Sema], \A id \in SemaIds : Modest(id), nextSeq <= nextSeq'
  PROVE  Keeps
<1>1. SemaInv'
  BY WaitsGoOn DEF Modest, SameTerms
<1>2. ASSUME NEW id \in SemaIds PROVE ExceedsOnlyByExpiry(id)
  <2>1. /\ semas[id].count \in Int /\ semas[id].max \in Int
        /\ semas'[id].count \in Int /\ semas'[id].max \in Int
    BY SemaType DEF SemaInv
  <2> QED
    BY <2>1 DEF Modest, ExceedsOnlyByExpiry
<1>3. ASSUME NEW id \in SemaIds, GrantableIn(threads', semas', id), ~Deserted(id)
      PROVE  GrantableIn(threads, semas, id)
  <2>1. PICK w \in Slots : Oldest(threads', id, w) /\ threads'[w].need <= semas'[id].count
    BY <1>3 DEF GrantableIn
  <2>2. \A s \in SemaWaiters(threads, id) :
          s \in SemaWaiters(threads', id) /\ threads'[s] = threads[s]
    BY <1>3 DEF Deserted, Deserts, SemaWaiters, SemaWaiting, Waiting
  <2>3. w \in SemaWaiters(threads, id) /\ threads'[w] = threads[w]
    BY <2>1 DEF Oldest, GoesOn, SemaWaiters, SemaWaiting, Waiting
  <2>4. Oldest(threads, id, w)
    BY <2>1, <2>2, <2>3 DEF Oldest
  <2>5. semas'[id].count <= semas[id].count
    BY <2>1 DEF Oldest, Modest
  <2>6. threads[w].need <= semas[id].count
    <3>1. threads[w].need \in Nat
      BY <2>3, InvAsks DEF AsksUnits, SemaWaiters, SemaWaiting
    <3>2. semas[id].count \in Int /\ semas'[id].count \in Int
      BY SemaType DEF SemaInv
    <3> QED
      BY <2>1, <2>3, <2>5, <3>1, <3>2
  <2> QED
    BY <2>4, <2>6 DEF GrantableIn
<1> QED
  BY <1>1, <1>2, <1>3 DEF Keeps, LeavesOnlyByDesertion

(* The table after the expired waiters woke. *)
LEMMA LateDeserts ==
  ASSUME NEW u, Awoken(u), Late(u), NEW s \in Slots, threads'[s] = u.tcbs[s]
  PROVE  GoesOn(s) /\ Deserts(s)
<1>1. threads'[s] = threads[s] \/ threads'[s].state = "READY"
  BY DEF Awoken, Wakes
<1>2. GoesOn(s)
  BY <1>1 DEF GoesOn, SemaWaiting, Waiting
<1>3. Deserts(s)
  <2>1. SemaWaiting(threads, s) => ExpiryResult(threads[s]) = "timeout"
    BY DEF SemaWaiting, ExpiryResult
  <2>2. threads'[s] = threads[s] \/ threads'[s].v0 = ExpiryResult(threads[s])
    BY DEF Late
  <2> QED
    BY <1>1, <2>1, <2>2 DEF Deserts, Waiting
<1> QED
  BY <1>2, <1>3

LEMMA NextSeqGrows ==
  ASSUME Inv, [Next]_vars
  PROVE  nextSeq <= nextSeq'
<1>1. nextSeq \in Nat
  BY DEF Inv, TypeOK
<1>2. nextSeq' = nextSeq \/ nextSeq' = nextSeq + 1
  BY DEF Next, ThreadCalls, SlotCalls, ModuleThreads, CreateThreadFails, CreateThread,
         ExitThread, StartThread, DeleteThread, TerminateThread, WaitThreadEnd,
         DelayThread, YieldThread, SleepThread, SuspendDispatch, ResumeDispatch,
         RunModuleThread, RunModuleThreadFails, SasCoreDelay, Preempt, Tick,
         BlockInOrder, vars
<1> QED
  BY <1>1, <1>2

LEMMA SchedulerStepKeeps ==
  ASSUME SemaInv, [Next]_vars, UNCHANGED semas
  PROVE  Keeps
<1>1. Inv /\ Inv' /\ nextSeq <= nextSeq'
  BY NextInv, NextSeqGrows DEF SemaInv
<1>2. ASSUME NEW s \in Slots PROVE GoesOn(s) /\ Deserts(s)
  <2>1. Passes(s)
    BY <1>1, NextPasses
  <2>2. BeginsToWait(s) => ~Waiting(threads, s)
    BY <1>1, InvSound, SelfRunning DEF BeginsToWait, Waiting
  <2>3. GoesOn(s)
    BY <2>1 DEF Passes, BeginsToWait, GoesOn, SemaWaiting
  <2>4. Deserts(s)
    BY <2>1, <2>2 DEF Passes, Deserts, SemaWaiting, Waiting
  <2> QED
    BY <2>3, <2>4
<1>3. semas' \in [SemaIds -> Sema] /\ \A id \in SemaIds : Modest(id)
  BY SemaType DEF SemaInv, Modest
<1> QED
  BY <1>1, <1>2, <1>3, ModestKeeps

LEMMA QuietKeeps ==
  ASSUME SemaInv, UNCHANGED vars, semas' \in [SemaIds -> Sema],
         \A id \in SemaIds : Modest(id)
  PROVE  Keeps
<1>1. threads' = threads /\ nextSeq' = nextSeq
  BY DEF vars
<1>2. Inv' /\ nextSeq \in Nat
  BY NextInv DEF SemaInv, Inv, TypeOK
<1>3. \A s \in Slots : GoesOn(s) /\ Deserts(s)
  BY <1>1 DEF GoesOn, Deserts
<1>4. nextSeq <= nextSeq'
  BY <1>1, <1>2
<1> QED
  BY <1>2, <1>3, <1>4, ModestKeeps

LEMMA CreateSemaKeeps ==
  ASSUME SemaInv, NEW init \in 0 .. MaxCount, NEW max \in 1 .. MaxCount,
         CreateSema(init, max)
  PROVE  Keeps
<1> DEFINE unused == {i \in SemaIds : ~semas[i].active}
           sema == [active |-> TRUE, count |-> init, max |-> max]
<1>1. First(unused) \in unused
  BY SemasAssumption, FirstInNat DEF CreateSema, SemaIds
<1>2. PICK x \in unused : x = First(unused)
  BY <1>1
<1>3. semas' = [semas EXCEPT ![x] = sema] /\ UNCHANGED vars /\ init <= max
  BY <1>2 DEF CreateSema
<1>4. sema \in Sema
  BY SemasAssumption DEF Sema
<1>5. /\ semas' \in [SemaIds -> Sema] /\ semas'[x] = sema
      /\ \A id \in SemaIds \ {x} : semas'[id] = semas[id]
  <2> HIDE DEF sema
  <2> QED
    BY <1>3, <1>4 DEF SemaInv
<1>6. SemaWaiters(threads', x) = {}
  <2>1. threads' = threads
    BY <1>3 DEF vars
  <2> QED
    BY <2>1 DEF SemaInv, WaitsOnSema, SemaWaiting, SemaWaiters
<1>7. ASSUME NEW id \in SemaIds PROVE Modest(id)
  <2>1. CASE id = x
    BY <1>3, <1>5, <1>6, <2>1 DEF Modest
  <2>2. CASE id # x
    BY <1>5, <2>2, SemaType DEF Modest, SemaInv
  <2> QED
    BY <2>1, <2>2
<1> QED
  BY <1>3, <1>5, <1>7, QuietKeeps

LEMMA SemaTakes ==
  ASSUME SemaInv, NEW id \in SemaIds, NEW n \in Needs,
         semas' = [semas EXCEPT ![id].count = @ - n]
  PROVE  semas' \in [SemaIds -> Sema] /\ \A i \in SemaIds : Modest(i)
<1>1. n \in Nat /\ semas \in [SemaIds -> Sema] /\ semas[id] \in Sema
  BY NeedsAssumption DEF SemaInv
<1> DEFINE sema == [semas[id] EXCEPT !.count = @ - n]
<1>2. /\ sema \in Sema /\ sema.active = semas[id].active /\ sema.max = semas[id].max
      /\ sema.count = semas[id].count - n
  BY <1>1 DEF Sema
<1>3. semas' = [semas EXCEPT ![id] = sema]
  OBVIOUS
<1> HIDE DEF sema
<1>4. semas' \in [SemaIds -> Sema] /\ semas'[id] = sema
      /\ \A i \in SemaIds \ {id} : semas'[i] = semas[i]
  BY <1>1, <1>2, <1>3
<1>5. ASSUME NEW i \in SemaIds PROVE Modest(i)
  <2>1. semas[i].count \in Int
    BY <1>1, SemaType
  <2> QED
    BY <1>1, <1>2, <1>4, <2>1 DEF Modest
<1> QED
  BY <1>4, <1>5

LEMMA PollSemaKeeps ==
  ASSUME SemaInv, NEW id \in SemaIds, NEW n \in Needs, PollSema(id, n)
  PROVE  Keeps
BY SemaTakes, QuietKeeps DEF PollSema

(* The clock was looked at and only those whose time was up woke. *)
LEMMA ClockKeeps ==
  ASSUME SemaInv, threads' = WakeExpired(Kernel, now).tcbs,
         timed' = WakeExpired(Kernel, now).timed,
         UNCHANGED <<current, nextId, nextSeq, dispatch, now>>,
         semas' \in [SemaIds -> Sema], \A id \in SemaIds : Modest(id)
  PROVE  Keeps
<1>1. PICK k : k = WakeExpired(Kernel, now)
  OBVIOUS
<1>2. Awoken(k) /\ Late(k)
  BY <1>1, ExpiredAwoken DEF SemaInv
<1>3. Inv'
  BY <1>1, <1>2, AwokenKeepsInv DEF SemaInv
<1>4. \A s \in Slots : GoesOn(s) /\ Deserts(s)
  BY <1>1, <1>2, LateDeserts
<1>5. nextSeq <= nextSeq'
  BY DEF SemaInv, Inv, TypeOK
<1> QED
  BY <1>3, <1>4, <1>5, ModestKeeps

LEMMA LookAtClockKeeps ==
  ASSUME SemaInv, NEW id \in SemaIds, LookAtClock(id)
  PROVE  Keeps
<1>1. semas' \in [SemaIds -> Sema] /\ \A i \in SemaIds : Modest(i)
  BY SemaType DEF LookAtClock, SemaInv, Modest
<1> QED
  BY <1>1, ClockKeeps DEF LookAtClock

LEMMA WaitSemaTakesKeeps ==
  ASSUME SemaInv, NEW id \in SemaIds, NEW n \in Needs, WaitSemaTakes(id, n)
  PROVE  Keeps
<1>1. semas' \in [SemaIds -> Sema] /\ \A i \in SemaIds : Modest(i)
  BY SemaTakes DEF WaitSemaTakes
<1> QED
  BY <1>1, ClockKeeps DEF WaitSemaTakes

LEMMA DeleteSemaKeeps ==
  ASSUME SemaInv, NEW id \in SemaIds, DeleteSema(id)
  PROVE  Keeps
<1>1. PICK k, S, j :
        /\ k = WakeExpired(Kernel, now) /\ S = SemaWaiters(k.tcbs, id)
        /\ j = Wake(k, S, [s \in Slots |-> "deleted"])
  OBVIOUS
<1>2. /\ semas' = [semas EXCEPT ![id] = NoSema] /\ threads' = j.tcbs /\ timed' = j.timed
      /\ UNCHANGED <<current, nextId, nextSeq, dispatch, now>>
  BY <1>1 DEF DeleteSema
<1>3. Awoken(k) /\ Late(k)
  BY <1>1, ExpiredAwoken DEF SemaInv
<1>4. S \in SUBSET Slots /\ (\A s \in S : Waiting(k.tcbs, s)) /\ "deleted" \in Results
  BY <1>1 DEF SemaWaiters, Results
<1>5. /\ Awoken(j)
      /\ \A s \in Slots \ S : j.tcbs[s] = k.tcbs[s]
      /\ \A s \in S : j.tcbs[s].state = "READY" /\ j.tcbs[s].v0 = "deleted"
  <2>1. WokenWith(k, S, "deleted", j)
    BY <1>1, <1>3, <1>4 DEF WokenWith
  <2> QED
    BY <2>1, MoreAwoken
<1>6. Inv' /\ nextSeq <= nextSeq'
  BY <1>2, <1>5, AwokenKeepsInv DEF SemaInv, Inv, TypeOK
<1>7. ASSUME NEW s \in Slots PROVE GoesOn(s) /\ Deserts(s)
  <2>1. CASE s \in S
    BY <1>2, <1>5, <2>1 DEF GoesOn, Deserts, SemaWaiting, Waiting
  <2>2. CASE s \notin S
    BY <1>2, <1>3, <1>5, <2>2, LateDeserts
  <2> QED
    BY <2>1, <2>2
<1>8. SemaWaiters(threads', id) = {}
  <2>1. ASSUME NEW s \in S PROVE s \notin SemaWaiters(threads', id)
    BY <1>2, <1>4, <1>5 DEF SemaWaiters, Waiting
  <2>2. ASSUME NEW s \in Slots \ S PROVE s \notin SemaWaiters(threads', id)
    <3>1. threads'[s] = k.tcbs[s]
      BY <1>2, <1>5
    <3> QED
      BY <1>1, <3>1 DEF SemaWaiters, Waiting
  <2>3. SemaWaiters(threads', id) \subseteq Slots
    BY DEF SemaWaiters
  <2> QED
    BY <2>1, <2>2, <2>3
<1>9. NoSema \in Sema /\ NoSema.count <= NoSema.max
  BY DEF NoSema, Sema
<1>10. /\ semas' \in [SemaIds -> Sema] /\ semas'[id] = NoSema
       /\ \A i \in SemaIds \ {id} : semas'[i] = semas[i]
  BY <1>2, <1>9 DEF SemaInv
<1>11. ASSUME NEW i \in SemaIds PROVE Modest(i)
  <2>1. CASE i = id
    BY <1>8, <1>9, <1>10, <2>1 DEF Modest
  <2>2. CASE i # id
    BY <1>10, <2>2, SemaType DEF Modest, SemaInv
  <2> QED
    BY <2>1, <2>2
<1> QED
  BY <1>6, <1>7, <1>10, <1>11, ModestKeeps

LEMMA WaitSemaBlocksKeeps ==
  ASSUME SemaInv, NEW id \in SemaIds, NEW n \in Needs, NEW d \in Delays \cup {0},
         WaitSemaBlocks(id, n, d)
  PROVE  Keeps
<1>1. PICK k, me : k = WakeExpired(Kernel, now) /\ me = Self
  OBVIOUS
<1>2. /\ Alive /\ semas[id].active /\ n <= semas[id].max
      /\ SemaWaiters(k.tcbs, id) = {} => semas[id].count < n
      /\ BlockInOrder(k, "sema", id, n, d)
      /\ UNCHANGED <<nextId, dispatch, semas>>
  BY <1>1 DEF WaitSemaBlocks
<1>3. /\ d \in Nat /\ id \in Int /\ n \in AnyNeed /\ "sema" \in TimedWaits
      /\ nextSeq \in Nat /\ nextSeq' = nextSeq + 1
  BY <1>2, DelaysAssumption, SemasAssumption
  DEF SemaIds, AnyNeed, TimedWaits, BlockInOrder, SemaInv, Inv, TypeOK
<1>4. Awoken(k) /\ Late(k) /\ Inv
  BY <1>1, ExpiredAwoken DEF SemaInv
<1>5. Inv' /\ \A s \in Slots : WaitsInOrder("sema", id, n, s) /\ TimesOut(s)
  BY <1>2, <1>3, <1>4, BlockInOrderKeepsInv
<1>6. ASSUME NEW s \in Slots, Waiting(threads', s)
      PROVE  \/ s # me /\ threads'[s] = threads[s]
             \/ /\ s = me
                /\ threads'[s].wait = "sema" /\ threads'[s].obj = id
                /\ threads'[s].need = n /\ threads'[s].seq = nextSeq
  BY <1>1, <1>5, <1>6 DEF WaitsInOrder
<1>7. ~Waiting(threads, me)
  BY <1>1, <1>2, <1>4, InvSound, SelfRunning DEF Waiting
<1>8. ASSUME NEW s \in Slots, SemaWaiting(threads, s)
      PROVE  WaitsOnSema(threads, semas, s) /\ threads[s].seq \in Nat /\ threads[s].seq < nextSeq
  BY <1>8, InvAsks DEF SemaInv, Tcb
<1>9. SemaInv'
  <2>1. ASSUME NEW s \in Slots, SemaWaiting(threads', s)
        PROVE  /\ WaitsOnSema(threads', semas', s) /\ threads'[s].seq < nextSeq'
               /\ s # me => SemaWaiting(threads, s) /\ threads'[s] = threads[s]
               /\ s = me => threads'[s].seq = nextSeq
    <3>1. Waiting(threads', s)
      BY <2>1 DEF SemaWaiting
    <3>2. CASE s # me
      <4>1. threads'[s] = threads[s] /\ SemaWaiting(threads, s)
        BY <1>6, <2>1, <3>1, <3>2 DEF SemaWaiting, Waiting
      <4> QED
        BY <1>2, <1>3, <1>8, <3>2, <4>1 DEF WaitsOnSema
    <3>3. CASE s = me
      BY <1>2, <1>3, <1>6, <3>1, <3>3 DEF WaitsOnSema
    <3> QED
      BY <3>2, <3>3
  <2>2. InTurn(threads')
    <3>1. ASSUME NEW r \in Slots, NEW s \in Slots, SemaWaiting(threads', r),
                 SemaWaiting(threads', s), threads'[r].seq = threads'[s].seq
          PROVE  r = s
      <4>1. CASE r # me /\ s # me
        BY <2>1, <3>1, <4>1 DEF SemaInv, InTurn
      <4>2. CASE (r = me \/ s = me) /\ r # s
        BY <1>3, <1>8, <2>1, <3>1, <4>2
      <4> QED
        BY <4>1, <4>2
    <3> QED
      BY <3>1 DEF InTurn
  <2>3. semas' \in [SemaIds -> Sema]
    BY <1>2 DEF SemaInv
  <2>4. \A s \in Slots : WaitsOnSema(threads', semas', s)
    BY <2>1 DEF WaitsOnSema
  <2> QED
    BY <1>5, <2>1, <2>2, <2>3, <2>4 DEF SemaInv
<1>10. ASSUME NEW i \in SemaIds PROVE ExceedsOnlyByExpiry(i)
  BY <1>2, SemaType DEF SemaInv, ExceedsOnlyByExpiry
<1>11. ASSUME NEW i \in SemaIds, GrantableIn(threads', semas', i), ~Deserted(i)
       PROVE  GrantableIn(threads, semas, i)
  <2>1. PICK w \in Slots : Oldest(threads', i, w) /\ threads'[w].need <= semas[i].count
    BY <1>2, <1>11 DEF GrantableIn
  <2>2. ASSUME NEW s \in SemaWaiters(threads, i)
        PROVE  s \in SemaWaiters(threads', i) /\ threads'[s] = threads[s]
    <3>1. /\ s \in Slots /\ Waiting(threads, s) /\ threads[s].wait = "sema"
          /\ SemaWaiting(threads, s)
      BY DEF SemaWaiters, SemaWaiting
    <3>2. CASE Waiting(threads', s)
      BY <1>6, <1>7, <3>1, <3>2 DEF SemaWaiters, Waiting
    <3>3. CASE ~Waiting(threads', s)
      <4>1. threads'[s].v0 = "timeout" /\ s \notin SemaWaiters(threads', i)
        BY <1>5, <3>1, <3>3 DEF TimesOut, SemaWaiters
      <4> QED
        BY <1>11, <4>1 DEF Deserted
    <3> QED
      BY <3>2, <3>3
  <2>3. w \in SemaWaiters(threads', i) /\ Waiting(threads', w)
    BY <2>1 DEF Oldest, SemaWaiters
  <2>4. CASE w # me
    <3>1. threads'[w] = threads[w] /\ w \in SemaWaiters(threads, i)
      BY <1>6, <2>3, <2>4 DEF SemaWaiters, Waiting
    <3>2. Oldest(threads, i, w)
      BY <2>1, <2>2, <3>1 DEF Oldest
    <3> QED
      BY <2>1, <3>1, <3>2 DEF GrantableIn
  <2>5. CASE w = me
    <3>1. i = id /\ threads'[w].need = n /\ threads'[w].seq = nextSeq
      BY <1>6, <2>3, <2>5 DEF SemaWaiters
    <3>2. SemaWaiters(threads, id) = {}
      <4>1. SUFFICES ASSUME NEW r \in SemaWaiters(threads, id) PROVE FALSE
        OBVIOUS
      <4>2. nextSeq <= threads[r].seq
        BY <2>1, <2>2, <3>1 DEF Oldest
      <4>3. threads[r].seq \in Nat /\ threads[r].seq < nextSeq
        BY <1>8 DEF SemaWaiters, SemaWaiting
      <4> QED
        BY <1>3, <4>2, <4>3
    <3>3. SemaWaiters(k.tcbs, id) = {}
      BY <1>4, <3>2 DEF SemaWaiters, Awoken, Wakes, Waiting
    <3>4. n \in Nat /\ semas[id].count \in Int
      BY NeedsAssumption, SemaType DEF SemaInv
    <3> QED
      BY <1>2, <2>1, <3>1, <3>3, <3>4
  <2> QED
    BY <2>4, <2>5
<1> QED
  BY <1>9, <1>10, <1>11 DEF Keeps, LeavesOnlyByDesertion

(* Who is not expired is not woken. *)
LEMMA OthersSleepOn ==
  ASSUME NEW k \in KernelType, NEW at, NEW s \in Slots, s \notin Expired(k.tcbs, at)
  PROVE  WakeExpired(k, at).tcbs[s] = k.tcbs[s]
<1>1. CASE k.timed = 0
  BY <1>1 DEF WakeExpired
<1>2. CASE k.timed # 0
  <2>1. PICK S, result : /\ S = Expired(k.tcbs, at)
                         /\ result = [r \in Slots |-> ExpiryResult(k.tcbs[r])]
    OBVIOUS
  <2>2. result \in [Slots -> Results] /\ S \in SUBSET Slots
    BY <2>1 DEF ExpiryResult, Results, Expired
  <2>3. WakeExpired(k, at) = Wake(k, S, result)
    BY <1>2, <2>1 DEF WakeExpired
  <2>4. WakeExpired(k, at).tcbs[s] = IF s \in S THEN Awake(k.tcbs[s], result[s]) ELSE k.tcbs[s]
    BY <2>2, <2>3, WakeType
  <2> QED
    BY <2>1, <2>4
<1> QED
  BY <1>1, <1>2

(* A signal that finds no waiter expired leaves the count within bounds:   *)
(* the ones it counted are the ones it can serve.                          *)
LEMMA ServedWithinMax ==
  ASSUME NEW t, AsksUnits(t), InTurn(t), NEW id, NEW c \in Int, NEW max \in Int,
         c - Cardinality(SemaWaiters(t, id)) <= max,
         \A s \in SemaWaiters(t, id) : t[s].need <= max
  PROVE  c - TotalNeed(t, Granted(t, id, c)) <= max
<1>1. PICK W, G : W = SemaWaiters(t, id) /\ G = Granted(t, id, c)
  OBVIOUS
<1>2. G \in SUBSET W
  BY <1>1 DEF Granted
<1>3. /\ TotalNeed(t, G) \in Nat /\ Cardinality(G) \in Nat /\ Cardinality(G) <= TotalNeed(t, G)
      /\ G \in SUBSET Slots /\ W \in SUBSET Slots
      /\ \A s \in W : t[s].need \in Nat
  BY <1>1, <1>2, WaitersAsk
<1>4. CASE G = W
  BY <1>1, <1>3, <1>4
<1>5. CASE G # W
  <2>1. W \ G # {} /\ W \ G \in SUBSET Slots /\ t \in [Slots -> Tcb]
    BY <1>2, <1>3, <1>5 DEF AsksUnits
  <2>2. PICK w \in W \ G : OldestOf(t, W \ G, w)
    BY <2>1, OldestExists
  <2>3. c - TotalNeed(t, G) < t[w].need
    BY <1>1, <2>2, GrantedLeaves
  <2>4. t[w].need <= max /\ t[w].need \in Nat
    BY <1>1, <1>3, <2>2
  <2> QED
    BY <1>1, <1>3, <2>3, <2>4
<1> QED
  BY <1>4, <1>5

LEMMA SignalSemaKeeps ==
  ASSUME SemaInv, NEW id \in SemaIds, NEW n \in Needs, SignalSema(id, n)
  PROVE  Keeps
<1>1. PICK k, c, S, j :
        /\ k = WakeExpired(Kernel, now) /\ c = semas[id].count + n
        /\ S = Granted(k.tcbs, id, c) /\ j = Wake(k, S, [s \in Slots |-> "ok"])
  OBVIOUS
<1>2. /\ semas[id].active
      /\ c - Cardinality(SemaWaiters(threads, id)) <= semas[id].max
      /\ semas' = [semas EXCEPT ![id].count = c - TotalNeed(k.tcbs, S)]
      /\ threads' = j.tcbs /\ timed' = j.timed
      /\ UNCHANGED <<current, nextId, nextSeq, dispatch, now>>
  BY <1>1 DEF SignalSema
<1>3. Awoken(k) /\ Late(k) /\ Inv
  BY <1>1, ExpiredAwoken DEF SemaInv
<1> DEFINE t == k.tcbs
<1>4. S \in SUBSET SemaWaiters(t, id) /\ SemaWaiters(t, id) \in SUBSET Slots
  BY <1>1 DEF Granted, SemaWaiters
<1>5. /\ Awoken(j)
      /\ \A s \in Slots \ S : j.tcbs[s] = t[s]
      /\ \A s \in S : j.tcbs[s].state = "READY" /\ j.tcbs[s].v0 = "ok"
  <2>1. S \in SUBSET Slots /\ (\A s \in S : Waiting(t, s)) /\ "ok" \in Results
    BY <1>4 DEF SemaWaiters, Results
  <2>2. WokenWith(k, S, "ok", j)
    BY <1>1, <1>3, <2>1 DEF WokenWith
  <2> QED
    BY <2>2, MoreAwoken
<1>6. Inv' /\ nextSeq <= nextSeq'
  BY <1>2, <1>3, <1>5, AwokenKeepsInv DEF Inv, TypeOK
<1>7. t \in [Slots -> Tcb] /\ \A s \in Slots : Waiting(t, s) => t[s] = threads[s] /\ Waiting(threads, s)
  BY <1>3 DEF Awoken, KernelType, Wakes, Waiting
<1>8. AsksUnits(t) /\ InTurn(t)
  BY <1>7, InvAsks DEF AsksUnits, InTurn, SemaInv, SemaWaiting
<1>9. c \in Int /\ n \in Nat /\ semas[id].count \in Int /\ semas[id].max \in Int
  BY <1>1, NeedsAssumption, SemaType DEF SemaInv
<1>10. PICK left \in Int : left = c - TotalNeed(t, S)
  <2>1. TotalNeed(t, S) \in Nat
    BY <1>4, <1>8, WaitersAsk
  <2> QED
    BY <1>9, <2>1
<1>11. /\ semas' \in [SemaIds -> Sema] /\ semas'[id].count = left
       /\ semas'[id].active = semas[id].active /\ semas'[id].max = semas[id].max
       /\ \A i \in SemaIds \ {id} : semas'[i] = semas[i]
  <2> DEFINE sema == [semas[id] EXCEPT !.count = left]
  <2>1. /\ sema \in Sema /\ sema.count = left
        /\ sema.active = semas[id].active /\ sema.max = semas[id].max
    BY DEF SemaInv, Sema
  <2>2. semas' = [semas EXCEPT ![id] = sema] /\ semas \in [SemaIds -> Sema]
    BY <1>2, <1>10 DEF SemaInv
  <2> HIDE DEF sema
  <2> QED
    BY <2>1, <2>2
<1> HIDE DEF t
<1>12. \A s \in Slots \ S : threads'[s] = t[s]
  BY <1>2, <1>5
<1>13. ASSUME NEW s \in Slots PROVE GoesOn(s)
  BY <1>2, <1>5, <1>7, <1>12 DEF GoesOn, SemaWaiting, Waiting
<1>14. ASSUME NEW s \in Slots \ S PROVE Deserts(s)
  BY <1>2, <1>3, <1>5, LateDeserts, <1>14 DEF t
<1>15. SemaInv'
  BY <1>6, <1>11, <1>13, WaitsGoOn DEF SameTerms
<1>16. ASSUME NEW i \in SemaIds, i # id PROVE ExceedsOnlyByExpiry(i)
  BY <1>11, <1>16, SemaType DEF SemaInv, ExceedsOnlyByExpiry
<1>17. ExceedsOnlyByExpiry(id)
  <2>1. SUFFICES ASSUME left > semas[id].max, ~SemaWaiterExpires(id) PROVE FALSE
    BY <1>11 DEF ExceedsOnlyByExpiry
  <2>2. ASSUME NEW s \in SemaWaiters(threads, id) PROVE s \in SemaWaiters(t, id)
    <3>1. s \in Slots /\ s \notin Expired(threads, now)
      BY <2>1 DEF SemaWaiterExpires, SemaWaiters
    <3>2. Kernel \in KernelType /\ Kernel.tcbs = threads
      BY <1>3, KernelAwoken DEF Awoken
    <3>3. t[s] = threads[s]
      BY <1>1, <3>1, <3>2, OthersSleepOn DEF t
    <3> QED
      BY <3>3 DEF SemaWaiters, Waiting
  <2>3. SemaWaiters(t, id) = SemaWaiters(threads, id)
    BY <1>7, <2>2 DEF SemaWaiters
  <2>4. \A s \in SemaWaiters(t, id) : t[s].need <= semas[id].max
    BY <1>7 DEF SemaWaiters, SemaInv, WaitsOnSema, SemaWaiting
  <2>5. c - TotalNeed(t, Granted(t, id, c)) <= semas[id].max
    BY <1>2, <1>8, <1>9, <2>3, <2>4, ServedWithinMax
  <2> QED
    BY <1>1, <1>9, <1>10, <2>1, <2>5 DEF t
<1>18. ASSUME NEW i \in SemaIds, GrantableIn(threads', semas', i), ~Deserted(i)
       PROVE  GrantableIn(threads, semas, i)
  <2>1. PICK w \in Slots : Oldest(threads', i, w) /\ threads'[w].need <= semas'[i].count
    BY <1>18 DEF GrantableIn
  <2>2. ASSUME i = id PROVE FALSE
    <3>1. ASSUME NEW s \in SemaWaiters(t, id) \ S
          PROVE  s \in SemaWaiters(threads', id) /\ threads'[s] = t[s]
      BY <1>4, <1>12 DEF SemaWaiters, Waiting
    <3>2. w \notin S /\ w \in SemaWaiters(t, id) /\ threads'[w] = t[w]
      <4>1. w \notin S
        BY <1>2, <1>5, <2>1 DEF Oldest, SemaWaiters, Waiting
      <4> QED
        BY <1>12, <2>1, <2>2, <4>1 DEF Oldest, SemaWaiters, Waiting
    <3>3. OldestOf(t, SemaWaiters(t, id) \ S, w)
      BY <2>1, <2>2, <3>1, <3>2 DEF OldestOf, Oldest
    <3>4. left < t[w].need
      BY <1>1, <1>8, <1>9, <1>10, <3>3, GrantedLeaves DEF t
    <3>5. t[w].need \in Nat
      BY <1>8, <3>2 DEF AsksUnits, SemaWaiters, SemaWaiting
    <3> QED
      BY <1>11, <2>1, <2>2, <3>2, <3>4, <3>5
  <2>3. ASSUME NEW s \in SemaWaiters(threads, i)
        PROVE  s \in SemaWaiters(threads', i) /\ threads'[s] = threads[s]
    <3>1. s \in Slots /\ SemaWaiting(threads, s) /\ threads[s].obj = i
      BY DEF SemaWaiters, SemaWaiting
    <3>2. s \notin S
      BY <1>4, <1>7, <2>2, <3>1 DEF SemaWaiters
    <3>3. Deserts(s)
      BY <1>14, <3>1, <3>2
    <3> QED
      BY <1>18, <3>1, <3>3 DEF Deserts, Deserted, SemaWaiters, SemaWaiting, Waiting
  <2>4. w \in SemaWaiters(threads, i) /\ threads'[w] = threads[w]
    BY <1>13, <2>1 DEF Oldest, GoesOn, SemaWaiters, SemaWaiting, Waiting
  <2>5. Oldest(threads, i, w)
    BY <2>1, <2>3, <2>4 DEF Oldest
  <2> QED
    BY <1>11, <2>1, <2>2, <2>4, <2>5 DEF GrantableIn
<1> QED
  BY <1>15, <1>16, <1>17, <1>18 DEF Keeps, LeavesOnlyByDesertion

-----------------------------------------------------------------------------
(* The steps *)

LEMMA SemaStep ==
  ASSUME SemaInv, [SNext]_svars
  PROVE  Keeps
<1>1. ASSUME NEW init \in 0 .. MaxCount, NEW max \in 1 .. MaxCount, CreateSema(init, max)
      PROVE  Keeps
  BY <1>1, CreateSemaKeeps
<1>2. ASSUME NEW id \in SemaIds, DeleteSema(id) PROVE Keeps
  BY <1>2, DeleteSemaKeeps
<1>3. ASSUME NEW id \in SemaIds, LookAtClock(id) PROVE Keeps
  BY <1>3, LookAtClockKeeps
<1>4. ASSUME NEW id \in SemaIds, NEW n \in Needs, WaitSemaTakes(id, n) PROVE Keeps
  BY <1>4, WaitSemaTakesKeeps
<1>5. ASSUME NEW id \in SemaIds, NEW n \in Needs, NEW d \in Delays \cup {0},
             WaitSemaBlocks(id, n, d)
      PROVE  Keeps
  BY <1>5, WaitSemaBlocksKeeps
<1>6. ASSUME NEW id \in SemaIds, NEW n \in Needs, PollSema(id, n) PROVE Keeps
  BY <1>6, PollSemaKeeps
<1>7. ASSUME NEW id \in SemaIds, NEW n \in Needs, SignalSema(id, n) PROVE Keeps
  BY <1>7, SignalSemaKeeps
<1>8. CASE Next /\ UNCHANGED semas
  BY <1>8, SchedulerStepKeeps
<1>9. CASE UNCHANGED svars
  BY <1>9, SchedulerStepKeeps DEF svars, vars
<1> QED
  BY <1>1, <1>2, <1>3, <1>4, <1>5, <1>6, <1>7, <1>8, <1>9 DEF SNext, SemaCalls

LEMMA SpecSemas == SSpec => []SemaInv
<1>1. SemaInv /\ [SNext]_svars => SemaInv'
  BY SemaStep DEF Keeps
<1> QED
  BY <1>1, InitSemas, PTL DEF SSpec

(* The table has its type, and nobody waits for a semaphore that was       *)
(* deleted or that could never serve it: sceKernelDeleteSema leaves no     *)
(* waiter for the next owner of the id.                                    *)
THEOREM NoWaitsOnDeletedSemas == SSpec => []STypeOK
<1>1. SemaInv => STypeOK
  BY InvType
<1> QED
  BY <1>1, SpecSemas, PTL

(* A count passes its maximum only in a sceKernelSignalSema that counted a *)
(* waiter whose time was already up.                                       *)
THEOREM CountsStayBounded == SSpec => CountExceedsOnlyByExpiry
<1>1. SemaInv /\ [SNext]_svars =>
        [\A id \in SemaIds :
           semas[id].count <= semas[id].max /\ semas'[id].count > semas'[id].max
             => SemaWaiterExpires(id)]_svars
  BY SemaStep DEF Keeps, ExceedsOnlyByExpiry
<1> QED
  BY <1>1, SpecSemas, PTL DEF SSpec, CountExceedsOnlyByExpiry

(* A waiter of a semaphore comes to be servable, and unserved, only when   *)
(* one before it gave up.                                                  *)
THEOREM SignalsServeAllTheyCan == SSpec => LeftBehindOnlyByDesertion
<1>1. \A id \in SemaIds : Grantable(id) <=> GrantableIn(threads, semas, id)
  BY DEF Grantable, GrantableIn
<1>2. \A id \in SemaIds : Grantable(id)' <=> GrantableIn(threads', semas', id)
  BY DEF Grantable, GrantableIn
<1>3. SemaInv /\ [SNext]_svars =>
        [\A id \in SemaIds : ~Grantable(id) /\ Grantable(id)' =>
           \E s \in SemaWaiters(threads, id) :
             /\ s \notin SemaWaiters(threads, id)'
             /\ threads'[s].v0 # "ok" \/ threads'[s].state = "FREE"]_svars
  BY <1>1, <1>2, SemaStep DEF Keeps, LeavesOnlyByDesertion, Deserted
<1> QED
  BY <1>3, SpecSemas, PTL DEF SSpec, LeftBehindOnlyByDesertion

-----------------------------------------------------------------------------
(* The abstract semaphore *)

(* Tables that agree on what the waiters in S ask for agree on the total.  *)
LEMMA TotalSame ==
  ASSUME NEW t, NEW u, NEW S, \A s \in S : t[s].need = u[s].need
  PROVE  TotalNeed(t, S) = TotalNeed(u, S)
<1>1. ASSUME NEW g, NEW s \in SUBSET S PROVE Body(t, g, s) = Body(u, g, s)
  <2>1. CASE s = {}
    BY <2>1 DEF Body
  <2>2. CASE s # {}
    <3>1. Chosen(s) \in S
      BY <2>2, ChosenIn
    <3> QED
      BY <2>2, <3>1 DEF Body
  <2> QED
    BY <2>1, <2>2
<1>2. \A g : Adds(g, t, S) <=> Adds(g, u, S)
  BY <1>1 DEF Adds
<1>3. (CHOOSE g : Adds(g, t, S)) = (CHOOSE g : Adds(g, u, S))
  BY <1>2
<1> QED
  BY <1>3, TotalNeedIs

(* The cost of a queue is summed up like the needs of a table. *)
LEMMA CostIs ==
  ASSUME NEW q, NEW S
  PROVE  Fifo!Cost(q, S) = TotalNeed(q, S)
BY DEF TotalNeed, MapThenSumSet, MapThenFoldSet,
       Fifo!Cost, Fifo!MapThenSumSet, Fifo!MapThenFoldSet

LEMMA QueueIs ==
  ASSUME NEW t, NEW id
  PROVE  /\ DOMAIN Queue(t, id) = SemaWaiters(t, id)
         /\ \A s \in SemaWaiters(t, id) :
              /\ Queue(t, id)[s].need = t[s].need
              /\ Queue(t, id)[s].before = {r \in SemaWaiters(t, id) : t[r].seq < t[s].seq}
BY DEF Queue

LEMMA NobodyQueues ==
  ASSUME NEW t, NEW id, SemaWaiters(t, id) = {}
  PROVE  Queue(t, id) = Fifo!EmptyQueue
BY DEF Queue, Fifo!EmptyQueue

(* Those who go on waiting keep their places. *)
Stay(t, u, id) ==
  \A s \in SemaWaiters(u, id) : s \in SemaWaiters(t, id) /\ u[s] = t[s]

LEMMA QueueAfterLeave ==
  ASSUME NEW t, NEW u, NEW id, Stay(t, u, id)
  PROVE  Queue(u, id) = Fifo!Without(Queue(t, id), SemaWaiters(t, id) \ SemaWaiters(u, id))
<1>1. PICK W, V, q : W = SemaWaiters(t, id) /\ V = SemaWaiters(u, id) /\ q = Queue(t, id)
  OBVIOUS
<1>2. /\ DOMAIN q = W /\ DOMAIN q \ (W \ V) = V
      /\ \A s \in V : s \in W /\ u[s] = t[s]
      /\ \A s \in W : q[s].need = t[s].need /\ q[s].before = {r \in W : t[r].seq < t[s].seq}
  BY <1>1, QueueIs DEF Stay
<1>3. ASSUME NEW s \in V
      PROVE  /\ q[s].need = u[s].need
             /\ q[s].before \ (W \ V) = {r \in V : u[r].seq < u[s].seq}
  BY <1>2
<1>31. \A s \in V : [need |-> q[s].need, before |-> q[s].before \ (W \ V)]
                     = [need |-> u[s].need, before |-> {r \in V : u[r].seq < u[s].seq}]
  BY <1>3
<1>4. Queue(u, id) = [s \in V |-> [need |-> u[s].need, before |-> {r \in V : u[r].seq < u[s].seq}]]
  BY <1>1 DEF Queue
<1>5. Fifo!Without(q, W \ V) =
        [s \in V |-> [need |-> q[s].need, before |-> q[s].before \ (W \ V)]]
  BY <1>2 DEF Fifo!Without
<1>6. [s \in V |-> [need |-> u[s].need, before |-> {r \in V : u[r].seq < u[s].seq}]]
      = [s \in V |-> [need |-> q[s].need, before |-> q[s].before \ (W \ V)]]
  BY <1>31
<1> QED
  BY <1>1, <1>4, <1>5, <1>6

(* The states of the abstract semaphore, before and after a step. *)
FifoStep ==
  /\ semas[Observed].count >= 0 => semas'[Observed].count >= 0 /\ [Fifo!FifoNext]_(Fifo!fvars)

LEMMA QueuePrimed == Queue(threads, Observed)' = Queue(threads', Observed)
BY DEF Queue, SemaWaiters, Waiting

LEMMA LeaveStep ==
  ASSUME SemaInv, semas'[Observed] = semas[Observed], Stay(threads, threads', Observed)
  PROVE  FifoStep
<1>1. PICK L : L = SemaWaiters(threads, Observed) \ SemaWaiters(threads', Observed)
  OBVIOUS
<1>2. Queue(threads', Observed) = Fifo!Without(Queue(threads, Observed), L)
  BY <1>1, QueueAfterLeave
<1>3. L \in SUBSET Fifo!Queued
  BY <1>1, QueueIs DEF Fifo!Queued
<1>4. Fifo!Leave(L)
  BY <1>2, QueuePrimed DEF Fifo!Leave
<1>5. Fifo!FifoNext
  BY <1>3, <1>4 DEF Fifo!FifoNext
<1> QED
  BY <1>5 DEF FifoStep

LEMMA ObservedType ==
  ASSUME SemaInv
  PROVE  /\ Observed \in SemaIds /\ semas \in [SemaIds -> Sema]
         /\ semas[Observed] \in Sema
         /\ semas[Observed].count \in Int /\ semas[Observed].max \in Int
         /\ \A n \in Needs : n \in Nat
<1>1. Observed \in SemaIds /\ semas \in [SemaIds -> Sema]
  BY ObservedAssumption DEF SemaIds, SemaInv
<1>2. semas[Observed] \in Sema
  BY <1>1
<1> QED
  BY <1>1, <1>2, NeedsAssumption DEF Sema

(* A semaphore for which nobody waits, before and after. *)
LEMMA EmptiedStep ==
  ASSUME SemaWaiters(threads', Observed) = {}
  PROVE  Queue(threads, Observed)' = Fifo!EmptyQueue
BY NobodyQueues, QueuePrimed

LEMMA CreateStep ==
  ASSUME SemaInv, NEW init \in 0 .. MaxCount, NEW max \in 1 .. MaxCount,
         CreateSema(init, max)
  PROVE  FifoStep
<1> DEFINE unused == {i \in SemaIds : ~semas[i].active}
           sema == [active |-> TRUE, count |-> init, max |-> max]
<1>1. First(unused) \in unused
  BY SemasAssumption, FirstInNat DEF CreateSema, SemaIds
<1>2. PICK x \in unused : x = First(unused)
  BY <1>1
<1>3. semas' = [semas EXCEPT ![x] = sema] /\ UNCHANGED vars /\ init <= max
  BY <1>2 DEF CreateSema
<1>4. threads' = threads
  BY <1>3 DEF vars
<1>5. Observed \in SemaIds /\ semas \in [SemaIds -> Sema]
  BY ObservedAssumption DEF SemaIds, SemaInv
<1>6. CASE x # Observed
  <2>1. semas'[Observed] = semas[Observed]
    BY <1>3, <1>5, <1>6
  <2>2. Stay(threads, threads', Observed)
    BY <1>4 DEF Stay
  <2> QED
    BY <2>1, <2>2, LeaveStep
<1>7. CASE x = Observed
  <2>1. semas'[Observed] = sema
    BY <1>3, <1>5, <1>7
  <2>2. SemaWaiters(threads', Observed) = {}
    BY <1>2, <1>4, <1>7 DEF SemaInv, WaitsOnSema, SemaWaiting, SemaWaiters
  <2>3. Fifo!Create(init, max)
    BY <1>2, <1>3, <1>7, <2>1, <2>2, EmptiedStep DEF Fifo!Create
  <2> QED
    BY <2>1, <2>3 DEF FifoStep, Fifo!FifoNext
<1> QED
  BY <1>6, <1>7

(* Units are taken when nobody waits, by sceKernelWaitSema or -PollSema.   *)
LEMMA TakeStep ==
  ASSUME SemaInv, NEW n \in Needs, semas[Observed].active, n <= semas[Observed].count,
         semas' = [semas EXCEPT ![Observed].count = @ - n],
         SemaWaiters(threads', Observed) = {}
  PROVE  FifoStep
<1> DEFINE sema == [semas[Observed] EXCEPT !.count = @ - n]
<1>1. Observed \in SemaIds /\ semas \in [SemaIds -> Sema] /\ n \in Nat
  BY ObservedAssumption, NeedsAssumption DEF SemaIds, SemaInv
<1>2. semas[Observed] \in Sema
  BY <1>1
<1>3. /\ sema.active = semas[Observed].active /\ sema.max = semas[Observed].max
      /\ sema.count = semas[Observed].count - n /\ semas[Observed].count \in Int
  BY <1>2 DEF Sema
<1>4. semas'[Observed] = sema
  BY <1>1
<1> HIDE DEF sema
<1>5. Fifo!Take(n)
  BY <1>3, <1>4, EmptiedStep DEF Fifo!Take
<1>6. semas'[Observed].count >= 0
  BY <1>1, <1>3, <1>4
<1> QED
  BY <1>5, <1>6 DEF FifoStep, Fifo!FifoNext

(* Another semaphore's call. *)
LEMMA OtherSema ==
  ASSUME SemaInv, NEW id \in SemaIds, id # Observed, NEW f, NEW e,
         \/ semas' = [semas EXCEPT ![id] = e]
         \/ semas' = [semas EXCEPT ![id].count = f]
  PROVE  semas'[Observed] = semas[Observed]
BY ObservedAssumption DEF SemaInv, SemaIds

(* Who is woken keeps nobody's place; the others keep theirs. *)
LEMMA AwokenStay ==
  ASSUME NEW k, Awoken(k), NEW id
  PROVE  Stay(threads, k.tcbs, id)
BY DEF Awoken, Wakes, Stay, SemaWaiters, Waiting

LEMMA SchedulerFifo ==
  ASSUME SemaInv, [Next]_vars, UNCHANGED semas
  PROVE  FifoStep
<1>1. ASSUME NEW s \in SemaWaiters(threads', Observed)
      PROVE  s \in SemaWaiters(threads, Observed) /\ threads'[s] = threads[s]
  <2>1. s \in Slots /\ Waiting(threads', s) /\ threads'[s].wait = "sema"
    BY DEF SemaWaiters
  <2>2. Passes(s)
    BY <2>1, NextPasses DEF SemaInv
  <2>3. threads'[s] = threads[s]
    BY <2>1, <2>2 DEF Passes, BeginsToWait
  <2> QED
    BY <2>3 DEF SemaWaiters, Waiting
<1>2. Stay(threads, threads', Observed)
  BY <1>1 DEF Stay
<1> QED
  BY <1>2, LeaveStep

(* A call that wakes only those whose time is up, for another semaphore or *)
(* without effect on the count.                                            *)
LEMMA ClockFifo ==
  ASSUME SemaInv, threads' = WakeExpired(Kernel, now).tcbs,
         semas'[Observed] = semas[Observed]
  PROVE  FifoStep
<1>1. Stay(threads, threads', Observed)
  BY ExpiredAwoken, AwokenStay DEF SemaInv
<1> QED
  BY <1>1, LeaveStep

LEMMA SameFifo ==
  ASSUME SemaInv, UNCHANGED vars, semas'[Observed] = semas[Observed]
  PROVE  FifoStep
BY LeaveStep DEF vars, Stay

LEMMA LookAtClockFifo ==
  ASSUME SemaInv, NEW id \in SemaIds, LookAtClock(id)
  PROVE  FifoStep
BY ClockFifo DEF LookAtClock

LEMMA WaitSemaTakesFifo ==
  ASSUME SemaInv, NEW id \in SemaIds, NEW n \in Needs, WaitSemaTakes(id, n)
  PROVE  FifoStep
<1>1. CASE id # Observed
  BY <1>1, ClockFifo, OtherSema DEF WaitSemaTakes
<1>2. CASE id = Observed
  <2>1. /\ semas[Observed].active /\ semas[Observed].count >= n
        /\ semas' = [semas EXCEPT ![Observed].count = @ - n]
        /\ SemaWaiters(threads', Observed) = {}
    BY <1>2 DEF WaitSemaTakes
  <2>2. semas[Observed].count \in Int /\ n \in Int
    BY ObservedType
  <2> QED
    BY <2>1, <2>2, TakeStep
<1> QED
  BY <1>1, <1>2

LEMMA PollSemaFifo ==
  ASSUME SemaInv, NEW id \in SemaIds, NEW n \in Needs, PollSema(id, n)
  PROVE  FifoStep
<1>1. CASE id # Observed
  BY <1>1, SameFifo, OtherSema DEF PollSema
<1>2. CASE id = Observed
  <2>1. /\ semas[Observed].active /\ semas[Observed].count >= n
        /\ semas' = [semas EXCEPT ![Observed].count = @ - n]
        /\ SemaWaiters(threads', Observed) = {}
    BY <1>2 DEF PollSema, vars
  <2>2. semas[Observed].count \in Int /\ n \in Int
    BY ObservedType
  <2> QED
    BY <2>1, <2>2, TakeStep
<1> QED
  BY <1>1, <1>2

LEMMA DeleteSemaFifo ==
  ASSUME SemaInv, NEW id \in SemaIds, DeleteSema(id)
  PROVE  FifoStep
<1>1. PICK k, S, j :
        /\ k = WakeExpired(Kernel, now) /\ S = SemaWaiters(k.tcbs, id)
        /\ j = Wake(k, S, [s \in Slots |-> "deleted"])
  OBVIOUS
<1>2. semas[id].active /\ semas' = [semas EXCEPT ![id] = NoSema] /\ threads' = j.tcbs
  BY <1>1 DEF DeleteSema
<1>3. Awoken(k)
  BY <1>1, ExpiredAwoken DEF SemaInv
<1>4. S \in SUBSET Slots /\ (\A s \in S : Waiting(k.tcbs, s)) /\ "deleted" \in Results
  BY <1>1 DEF SemaWaiters, Results
<1>5. /\ Awoken(j)
      /\ \A s \in Slots \ S : j.tcbs[s] = k.tcbs[s]
      /\ \A s \in S : j.tcbs[s].state = "READY"
  <2>1. WokenWith(k, S, "deleted", j)
    BY <1>1, <1>3, <1>4 DEF WokenWith
  <2> QED
    BY <2>1, MoreAwoken
<1>6. CASE id # Observed
  BY <1>2, <1>5, <1>6, AwokenStay, OtherSema, LeaveStep
<1>7. CASE id = Observed
  <2>1. ASSUME NEW s \in Slots PROVE s \notin SemaWaiters(j.tcbs, id)
    <3>1. CASE s \in S
      BY <1>5, <3>1 DEF SemaWaiters, Waiting
    <3>2. CASE s \notin S
      BY <1>1, <1>5, <3>2 DEF SemaWaiters, Waiting
    <3> QED
      BY <3>1, <3>2
  <2>2. SemaWaiters(threads', Observed) = {}
    BY <1>2, <1>7, <2>1 DEF SemaWaiters
  <2>3. semas'[Observed] = NoSema
    BY <1>2, <1>7 DEF SemaInv
  <2>4. Fifo!Delete
    BY <1>2, <1>7, <2>2, <2>3, EmptiedStep DEF Fifo!Delete, NoSema
  <2> QED
    BY <2>3, <2>4 DEF FifoStep, Fifo!FifoNext, NoSema
<1> QED
  BY <1>6, <1>7

(* A caller that blocks joins those left waiting after the clock was       *)
(* looked at.                                                              *)
LEMMA JoinStep ==
  ASSUME SemaInv, NEW me \in Slots, NEW n \in Needs, NEW K \in SUBSET SemaWaiters(threads, Observed),
         ~Waiting(threads, me), UNCHANGED semas,
         semas[Observed].active, n <= semas[Observed].max,
         semas[Observed].count < n \/ K # {},
         \A s \in SemaWaiters(threads', Observed) :
           \/ s # me /\ threads'[s] = threads[s]
           \/ s = me /\ threads'[s].need = n /\ threads'[s].seq = nextSeq
  PROVE  FifoStep
<1>1. PICK W, V, q0 : /\ W = SemaWaiters(threads, Observed)
                      /\ V = SemaWaiters(threads', Observed)
                      /\ q0 = Queue(threads, Observed)
  OBVIOUS
<1>2. PICK D, L, M : D = K \cup (V \ {me}) /\ L = W \ D /\ M = (D \cup {me}) \ V
  OBVIOUS
<1>3. /\ me \notin W
      /\ \A s \in V : s # me => s \in W /\ threads'[s] = threads[s]
      /\ \A s \in V : s = me => threads'[s].need = n /\ threads'[s].seq = nextSeq
      /\ V \in SUBSET Slots /\ W \in SUBSET Slots
  BY <1>1 DEF SemaWaiters, Waiting
<1>4. D \subseteq W /\ me \notin D /\ W \ L = D /\ (D \cup {me}) \ M = V /\ D \ M = V \ {me}
  BY <1>1, <1>2, <1>3
<1>5. \A s \in W : threads[s].seq \in Nat /\ threads[s].seq < nextSeq
  BY <1>1, InvAsks DEF SemaInv, SemaWaiters, SemaWaiting, Tcb
<1>6. nextSeq \in Nat
  BY InvAsks
<1> DEFINE q == Fifo!Without(q0, L)
<1>7. /\ DOMAIN q = D
      /\ \A s \in D : /\ q[s].need = threads[s].need
                       /\ q[s].before = {r \in D : threads[r].seq < threads[s].seq}
  <2>1. /\ DOMAIN q0 = W
        /\ \A s \in W : /\ q0[s].need = threads[s].need
                         /\ q0[s].before = {r \in W : threads[r].seq < threads[s].seq}
    BY <1>1, QueueIs
  <2>2. q = [s \in D |-> [need |-> q0[s].need, before |-> q0[s].before \ L]]
    BY <1>4, <2>1 DEF Fifo!Without
  <2>3. DOMAIN q = D /\ \A s \in D : q[s].need = q0[s].need /\ q[s].before = q0[s].before \ L
    BY <2>2
  <2> HIDE DEF q
  <2>4. ASSUME NEW s \in D
        PROVE  q0[s].before \ L = {r \in D : threads[r].seq < threads[s].seq}
    BY <1>4, <2>1
  <2> QED
    BY <1>4, <2>1, <2>3, <2>4
<1> HIDE DEF q
<1> DEFINE j == Fifo!Joined(q, me, n)
<1>8. /\ DOMAIN j = D \cup {me}
      /\ j[me].need = n /\ j[me].before = D
      /\ \A s \in D : j[s] = q[s]
  BY <1>4, <1>7 DEF Fifo!Joined
<1> HIDE DEF j
<1>9. ASSUME NEW s \in V
      PROVE  /\ j[s].need = threads'[s].need
             /\ j[s].before \ M = {r \in V : threads'[r].seq < threads'[s].seq}
  <2>1. CASE s = me
    <3>1. \A r \in V : r # me <=> threads'[r].seq < threads'[s].seq
      BY <1>3, <1>5, <1>6, <2>1
    <3> QED
      BY <1>3, <1>4, <1>8, <2>1, <3>1
  <2>2. CASE s # me
    <3>1. s \in D /\ s \in W /\ threads'[s] = threads[s]
      BY <1>2, <1>3, <2>2
    <3>2. \A r \in V : r = me => ~(threads'[r].seq < threads'[s].seq)
      BY <1>3, <1>5, <1>6, <3>1
    <3>3. {r \in V : threads'[r].seq < threads'[s].seq}
          = {r \in V \ {me} : threads[r].seq < threads[s].seq}
      BY <1>3, <3>1, <3>2
    <3>4. {r \in D : threads[r].seq < threads[s].seq} \ M
          = {r \in V \ {me} : threads[r].seq < threads[s].seq}
      BY <1>4
    <3> QED
      BY <1>7, <1>8, <3>1, <3>3, <3>4
  <2> QED
    BY <2>1, <2>2
<1>10. Queue(threads', Observed) = Fifo!Without(j, M)
  <2>1. Queue(threads', Observed) =
          [s \in V |-> [need |-> threads'[s].need,
                        before |-> {r \in V : threads'[r].seq < threads'[s].seq}]]
    BY <1>1 DEF Queue
  <2>2. Fifo!Without(j, M) = [s \in V |-> [need |-> j[s].need, before |-> j[s].before \ M]]
    BY <1>4, <1>8 DEF Fifo!Without
  <2>3. \A s \in V : [need |-> threads'[s].need,
                      before |-> {r \in V : threads'[r].seq < threads'[s].seq}]
                     = [need |-> j[s].need, before |-> j[s].before \ M]
    BY <1>9
  <2>4. [s \in V |-> [need |-> threads'[s].need,
                      before |-> {r \in V : threads'[r].seq < threads'[s].seq}]]
        = [s \in V |-> [need |-> j[s].need, before |-> j[s].before \ M]]
    BY <2>3
  <2> QED
    BY <2>1, <2>2, <2>4
<1>11. Fifo!Join(me, n, L, M)
  <2>1. semas[Observed].count < n \/ DOMAIN q # {}
    BY <1>2, <1>7
  <2>2. me \notin Fifo!Queued
    BY <1>1, <1>3, QueueIs DEF Fifo!Queued
  <2>3. Queue(threads, Observed)' = Fifo!Without(Fifo!Joined(Fifo!Without(Queue(threads, Observed), L), me, n), M)
    BY <1>1, <1>10, QueuePrimed DEF q, j
  <2>4. semas[Observed].count < n \/ DOMAIN Fifo!Without(Queue(threads, Observed), L) # {}
    BY <1>1, <2>1 DEF q
  <2> QED
    BY <2>2, <2>3, <2>4 DEF Fifo!Join
<1>12. Fifo!FifoNext
  <2>1. L \in SUBSET Fifo!Queued /\ M \in SUBSET Slots
    BY <1>1, <1>2, <1>3, <1>4, QueueIs DEF Fifo!Queued
  <2> QED
    BY <1>11, <2>1 DEF Fifo!FifoNext
<1> QED
  BY <1>12 DEF FifoStep

LEMMA WaitSemaBlocksFifo ==
  ASSUME SemaInv, NEW id \in SemaIds, NEW n \in Needs, NEW d \in Delays \cup {0},
         WaitSemaBlocks(id, n, d)
  PROVE  FifoStep
<1>1. PICK k, me : k = WakeExpired(Kernel, now) /\ me = Self
  OBVIOUS
<1>2. /\ Alive /\ semas[id].active /\ n <= semas[id].max
      /\ semas[id].count < n \/ SemaWaiters(k.tcbs, id) # {}
      /\ BlockInOrder(k, "sema", id, n, d)
      /\ UNCHANGED <<nextId, dispatch, semas>>
  BY <1>1 DEF WaitSemaBlocks
<1>3. d \in Nat /\ id \in Int /\ n \in AnyNeed /\ "sema" \in TimedWaits
  BY <1>2, DelaysAssumption, SemasAssumption DEF SemaIds, AnyNeed, TimedWaits
<1>4. Awoken(k) /\ Late(k) /\ Inv
  BY <1>1, ExpiredAwoken DEF SemaInv
<1>5. \A s \in Slots : WaitsInOrder("sema", id, n, s)
  BY <1>2, <1>3, <1>4, BlockInOrderKeepsInv
<1>6. ASSUME NEW s \in Slots, Waiting(threads', s)
      PROVE  \/ s # me /\ threads'[s] = threads[s]
             \/ /\ s = me /\ threads'[s].obj = id
                /\ threads'[s].need = n /\ threads'[s].seq = nextSeq
  BY <1>1, <1>5, <1>6 DEF WaitsInOrder
<1>7. me \in Slots /\ ~Waiting(threads, me)
  BY <1>1, <1>2, <1>4, InvSound, SelfRunning DEF Waiting
<1>8. CASE id # Observed
  <2>1. ASSUME NEW s \in SemaWaiters(threads', Observed)
        PROVE  s \in SemaWaiters(threads, Observed) /\ threads'[s] = threads[s]
    <3>1. s \in Slots /\ Waiting(threads', s) /\ threads'[s].obj = Observed
      BY DEF SemaWaiters
    <3>2. threads'[s] = threads[s]
      BY <1>6, <1>8, <3>1
    <3> QED
      BY <3>2 DEF SemaWaiters, Waiting
  <2>2. Stay(threads, threads', Observed)
    BY <2>1 DEF Stay
  <2> QED
    BY <1>2, <2>2, LeaveStep
<1>9. CASE id = Observed
  <2>1. PICK K : K = SemaWaiters(k.tcbs, Observed)
    OBVIOUS
  <2>2. K \in SUBSET SemaWaiters(threads, Observed)
    BY <1>4, <2>1, AwokenStay DEF Stay
  <2>3. \A s \in SemaWaiters(threads', Observed) :
          \/ s # me /\ threads'[s] = threads[s]
          \/ s = me /\ threads'[s].need = n /\ threads'[s].seq = nextSeq
    BY <1>6 DEF SemaWaiters
  <2> QED
    BY <1>2, <1>7, <1>9, <2>1, <2>2, <2>3, JoinStep
<1> QED
  BY <1>8, <1>9

(* A signal serves a front of the queue ... *)
LEMMA GrantedFront ==
  ASSUME NEW t, AsksUnits(t), NEW id, NEW c \in Int, NEW s \in Granted(t, id, c),
         NEW r \in SemaWaiters(t, id), t[r].seq < t[s].seq
  PROVE  r \in Granted(t, id, c)
<1> DEFINE W == SemaWaiters(t, id)
           Until(x) == {y \in W : t[y].seq <= t[x].seq}
<1>1. s \in W /\ TotalNeed(t, Until(s)) <= c
  BY DEF Granted, NeedUpTo
<1>2. \A x \in W : t[x].seq \in Nat
  BY DEF AsksUnits, SemaWaiters, Tcb
<1>3. Until(r) \in SUBSET Until(s) /\ Until(s) \in SUBSET W /\ Until(r) \in SUBSET W
  BY <1>1, <1>2
<1>4. /\ Askers(t, Until(s))
      /\ TotalNeed(t, Until(s)) \in Nat /\ TotalNeed(t, Until(r)) \in Nat
  BY <1>3, WaitersAsk
<1>5. TotalNeed(t, Until(r)) <= TotalNeed(t, Until(s))
  BY <1>3, <1>4, TotalGrows
<1>6. TotalNeed(t, Until(r)) <= c
  <2> HIDE DEF Until
  <2> QED
    BY <1>1, <1>4, <1>5
<1> QED
  BY <1>6 DEF Granted, NeedUpTo

LEMMA LatestExists ==
  ASSUME NEW t, NEW S, S # {}, NEW N \in Nat, \A s \in S : t[s].seq \in Nat /\ t[s].seq < N
  PROVE  \E s \in S : \A r \in S : t[r].seq <= t[s].seq
<1> DEFINE Q == {N - t[s].seq : s \in S}
<1>1. Q \in SUBSET Nat /\ Q # {}
  OBVIOUS
<1>2. PICK m \in Q : \A n \in Q : m <= n
  BY <1>1, Least
<1>3. PICK s \in S : N - t[s].seq = m
  BY <1>2
<1>4. ASSUME NEW r \in S PROVE t[r].seq <= t[s].seq
  <2>1. N - t[s].seq <= N - t[r].seq
    BY <1>2, <1>3
  <2>2. t[r].seq \in Nat /\ t[s].seq \in Nat
    OBVIOUS
  <2> QED
    BY <2>1, <2>2
<1> QED
  BY <1>4

(* ... that it can pay for. *)
LEMMA GrantedPays ==
  ASSUME NEW t, AsksUnits(t), NEW id, NEW c \in Nat, NEW N \in Nat,
         \A s \in SemaWaiters(t, id) : t[s].seq < N
  PROVE  TotalNeed(t, Granted(t, id, c)) <= c
<1> DEFINE W == SemaWaiters(t, id)
           Until(x) == {y \in W : t[y].seq <= t[x].seq}
<1>1. PICK G \in SUBSET W : G = Granted(t, id, c)
  BY DEF Granted
<1>2. CASE G = {}
  BY <1>1, <1>2, TotalOfNone
<1>3. CASE G # {}
  <2>1. \A s \in G : t[s].seq \in Nat /\ t[s].seq < N
    BY WaitersAsk
  <2>2. PICK s \in G : \A r \in G : t[r].seq <= t[s].seq
    BY <1>3, <2>1, LatestExists
  <2>3. G \in SUBSET Until(s) /\ Until(s) \in SUBSET W
    BY <2>2
  <2>4. /\ Askers(t, Until(s)) /\ TotalNeed(t, Until(s)) \in Nat
        /\ TotalNeed(t, G) \in Nat
    BY <2>3, WaitersAsk
  <2>5. TotalNeed(t, G) <= TotalNeed(t, Until(s))
    BY <2>3, <2>4, TotalGrows
  <2>6. TotalNeed(t, Until(s)) <= c
    BY <1>1, <2>2 DEF Granted, NeedUpTo
  <2> HIDE DEF Until
  <2> QED
    BY <1>1, <2>4, <2>5, <2>6
<1> QED
  BY <1>2, <1>3

(* A release serves S, a front of those left waiting in table t. *)
LEMMA ReleaseStep ==
  ASSUME SemaInv, NEW n \in Needs, NEW t, NEW S \in SUBSET SemaWaiters(t, Observed),
         NEW left \in Nat,
         AsksUnits(t), InTurn(t), Stay(threads, t, Observed),
         SemaWaiters(threads', Observed) = SemaWaiters(t, Observed) \ S,
         \A s \in SemaWaiters(t, Observed) \ S : threads'[s] = t[s],
         semas[Observed].active, semas'[Observed].active, semas'[Observed].max = semas[Observed].max,
         semas'[Observed].count = left,
         left = semas[Observed].count + n - TotalNeed(t, S),
         \A s \in S, r \in SemaWaiters(t, Observed) : t[r].seq < t[s].seq => r \in S,
         \A w : OldestOf(t, SemaWaiters(t, Observed) \ S, w) => left < t[w].need
  PROVE  FifoStep
<1>1. PICK W, L : W = SemaWaiters(t, Observed) /\ L = SemaWaiters(threads, Observed) \ W
  OBVIOUS
<1>2. PICK q : q = Queue(t, Observed)
  OBVIOUS
<1>3. q = Fifo!Without(Queue(threads, Observed), L)
  BY <1>1, <1>2, QueueAfterLeave
<1>4. /\ DOMAIN q = W
      /\ \A s \in W : /\ q[s].need = t[s].need
                       /\ q[s].before = {r \in W : t[r].seq < t[s].seq}
  BY <1>1, <1>2, QueueIs
<1>5. Queue(threads', Observed) = Fifo!Without(q, S)
  <2>1. Stay(t, threads', Observed)
    BY DEF Stay
  <2>2. SemaWaiters(t, Observed) \ SemaWaiters(threads', Observed) = S
    OBVIOUS
  <2> QED
    BY <1>2, <2>1, <2>2, QueueAfterLeave
<1>6. Fifo!Cost(q, S) = TotalNeed(t, S)
  <2>1. TotalNeed(t, S) = TotalNeed(q, S)
    BY <1>1, <1>4, TotalSame
  <2> QED
    BY <2>1, CostIs
<1>7. semas[Observed].count + n - Fifo!Cost(q, S) = left
  BY <1>6
<1>8. \A s \in W : t[s].seq \in Nat /\ t[s].need \in Nat
  BY <1>1 DEF AsksUnits, SemaWaiters, SemaWaiting, Tcb
<1>9. ASSUME NEW w \in W \ S, q[w].before \subseteq S
      PROVE  q[w].need > left
  <2>1. \A r \in W \ S : ~(t[r].seq < t[w].seq)
    BY <1>4, <1>9
  <2>2. OldestOf(t, W \ S, w)
    BY <1>8, <2>1 DEF OldestOf
  <2>3. left < t[w].need
    BY <1>1, <2>2
  <2> QED
    BY <1>4, <1>8, <2>3
<1>10. \A s \in S : q[s].before \subseteq S
  BY <1>1, <1>4
<1>11. Fifo!Release(n, L, S)
  <2>1. /\ S \subseteq DOMAIN q
        /\ \A w \in DOMAIN q \ S : q[w].before \subseteq S => q[w].need > left
        /\ left >= 0
    BY <1>1, <1>4, <1>9
  <2> QED
    BY <1>3, <1>5, <1>7, <1>10, <2>1, QueuePrimed DEF Fifo!Release
<1>12. L \in SUBSET Fifo!Queued /\ S \in SUBSET Fifo!Queued
  BY <1>1, QueueIs DEF Fifo!Queued, Stay
<1>13. Fifo!FifoNext
  BY <1>11, <1>12 DEF Fifo!FifoNext
<1> QED
  BY <1>13 DEF FifoStep

LEMMA SignalSemaFifo ==
  ASSUME SemaInv, NEW id \in SemaIds, NEW n \in Needs, SignalSema(id, n)
  PROVE  FifoStep
<1>1. PICK k, c, S, j :
        /\ k = WakeExpired(Kernel, now) /\ c = semas[id].count + n
        /\ S = Granted(k.tcbs, id, c) /\ j = Wake(k, S, [s \in Slots |-> "ok"])
  OBVIOUS
<1>2. /\ semas[id].active
      /\ semas' = [semas EXCEPT ![id].count = c - TotalNeed(k.tcbs, S)]
      /\ threads' = j.tcbs
  BY <1>1 DEF SignalSema
<1>3. Awoken(k) /\ Inv
  BY <1>1, ExpiredAwoken DEF SemaInv
<1>4. PICK t : t = k.tcbs
  OBVIOUS
<1>5. S \in SUBSET SemaWaiters(t, id) /\ S \in SUBSET Slots
  BY <1>1, <1>4 DEF Granted, SemaWaiters
<1>6. /\ Awoken(j)
      /\ \A s \in Slots \ S : j.tcbs[s] = t[s]
      /\ \A s \in S : j.tcbs[s].state = "READY"
  <2>1. (\A s \in S : Waiting(t, s)) /\ "ok" \in Results
    BY <1>5 DEF SemaWaiters, Results
  <2>2. WokenWith(k, S, "ok", j)
    BY <1>1, <1>3, <1>4, <1>5, <2>1 DEF WokenWith
  <2> QED
    BY <1>4, <2>2, MoreAwoken
<1>7. CASE id # Observed
  <2>1. semas'[Observed] = semas[Observed]
    BY <1>2, <1>7, OtherSema
  <2> QED
    BY <1>2, <1>6, <2>1, AwokenStay, LeaveStep
<1>8. CASE id = Observed
  <2>1. /\ t \in [Slots -> Tcb]
        /\ \A s \in Slots : Waiting(t, s) => t[s] = threads[s] /\ Waiting(threads, s)
    BY <1>3, <1>4 DEF Awoken, KernelType, Wakes, Waiting
  <2>2. AsksUnits(t) /\ InTurn(t)
    BY <2>1, InvAsks DEF AsksUnits, InTurn, SemaInv, SemaWaiting
  <2>3. /\ c \in Int /\ n \in Nat /\ semas[id].count \in Int
        /\ TotalNeed(t, S) \in Nat
    <3>1. n \in Nat /\ semas[id].count \in Int
      BY <1>8, ObservedType
    <3>2. TotalNeed(t, S) \in Nat
      BY <1>5, <2>2, WaitersAsk
    <3>3. c \in Int
      BY <1>1, <3>1
    <3> QED
      BY <3>1, <3>2, <3>3
  <2>4. SUFFICES ASSUME semas[id].count >= 0 PROVE FifoStep
    BY <1>8 DEF FifoStep
  <2>5. \A s \in SemaWaiters(t, id) : t[s].seq < nextSeq
    BY <2>1 DEF SemaInv, SemaWaiters, SemaWaiting
  <2>6. c \in Nat /\ nextSeq \in Nat
    BY <1>1, <2>3, <2>4, InvAsks
  <2>7. TotalNeed(t, S) <= c
    BY <1>1, <1>4, <2>2, <2>5, <2>6, GrantedPays
  <2>8. PICK left \in Nat : left = c - TotalNeed(t, S)
    BY <2>3, <2>6, <2>7
  <2>9. /\ semas'[id].count = left
        /\ semas'[id].active = semas[id].active /\ semas'[id].max = semas[id].max
    <3> DEFINE sema == [semas[id] EXCEPT !.count = left]
    <3>1. semas[id] \in Sema /\ semas \in [SemaIds -> Sema]
      BY DEF SemaInv
    <3>2. sema.count = left /\ sema.active = semas[id].active /\ sema.max = semas[id].max
      BY <3>1 DEF Sema
    <3>3. semas' = [semas EXCEPT ![id] = sema]
      BY <1>2, <1>4, <2>8
    <3> HIDE DEF sema
    <3> QED
      BY <3>1, <3>2, <3>3
  <2>10. ASSUME NEW s \in S, NEW r \in SemaWaiters(t, id), t[r].seq < t[s].seq
         PROVE  r \in S
    BY <1>1, <1>4, <2>2, <2>3, <2>10, GrantedFront
  <2>11. ASSUME NEW w, OldestOf(t, SemaWaiters(t, id) \ S, w)
         PROVE  left < t[w].need
    BY <1>1, <1>4, <2>2, <2>3, <2>8, <2>11, GrantedLeaves
  <2>12. Stay(threads, t, id)
    BY <1>3, <1>4, AwokenStay
  <2>13. /\ SemaWaiters(threads', id) = SemaWaiters(t, id) \ S
         /\ \A s \in SemaWaiters(t, id) \ S : threads'[s] = t[s]
    <3>1. ASSUME NEW s \in S PROVE s \notin SemaWaiters(threads', id)
      BY <1>2, <1>6 DEF SemaWaiters, Waiting
    <3>2. ASSUME NEW s \in Slots \ S PROVE threads'[s] = t[s]
      BY <1>2, <1>6
    <3> QED
      BY <3>1, <3>2 DEF SemaWaiters, Waiting
  <2>14. left = semas[id].count + n - TotalNeed(t, S)
    BY <1>1, <2>3, <2>8
  <2>15. \A s \in S, r \in SemaWaiters(t, Observed) : t[r].seq < t[s].seq => r \in S
    BY <1>8, <2>10
  <2>16. \A w : OldestOf(t, SemaWaiters(t, Observed) \ S, w) => left < t[w].need
    BY <1>8, <2>11
  <2>17. /\ S \in SUBSET SemaWaiters(t, Observed)
         /\ semas[Observed].active /\ semas'[Observed].active
         /\ semas'[Observed].max = semas[Observed].max /\ semas'[Observed].count = left
         /\ left = semas[Observed].count + n - TotalNeed(t, S)
         /\ Stay(threads, t, Observed)
         /\ SemaWaiters(threads', Observed) = SemaWaiters(t, Observed) \ S
         /\ \A s \in SemaWaiters(t, Observed) \ S : threads'[s] = t[s]
    BY <1>2, <1>5, <1>8, <2>9, <2>12, <2>13, <2>14
  <2> QED
    BY <2>2, <2>15, <2>16, <2>17, ReleaseStep
<1> QED
  BY <1>7, <1>8

LEMMA EveryStepFifo ==
  ASSUME SemaInv, [SNext]_svars
  PROVE  FifoStep
<1>1. ASSUME NEW init \in 0 .. MaxCount, NEW max \in 1 .. MaxCount, CreateSema(init, max)
      PROVE  FifoStep
  BY <1>1, CreateStep
<1>2. ASSUME NEW id \in SemaIds, DeleteSema(id) PROVE FifoStep
  BY <1>2, DeleteSemaFifo
<1>3. ASSUME NEW id \in SemaIds, LookAtClock(id) PROVE FifoStep
  BY <1>3, LookAtClockFifo
<1>4. ASSUME NEW id \in SemaIds, NEW n \in Needs, WaitSemaTakes(id, n) PROVE FifoStep
  BY <1>4, WaitSemaTakesFifo
<1>5. ASSUME NEW id \in SemaIds, NEW n \in Needs, NEW d \in Delays \cup {0},
             WaitSemaBlocks(id, n, d)
      PROVE  FifoStep
  BY <1>5, WaitSemaBlocksFifo
<1>6. ASSUME NEW id \in SemaIds, NEW n \in Needs, PollSema(id, n) PROVE FifoStep
  BY <1>6, PollSemaFifo
<1>7. ASSUME NEW id \in SemaIds, NEW n \in Needs, SignalSema(id, n) PROVE FifoStep
  BY <1>7, SignalSemaFifo
<1>8. CASE Next /\ UNCHANGED semas
  BY <1>8, SchedulerFifo
<1>9. CASE UNCHANGED svars
  BY <1>9, SchedulerFifo DEF svars, vars
<1> QED
  BY <1>1, <1>2, <1>3, <1>4, <1>5, <1>6, <1>7, <1>8, <1>9 DEF SNext, SemaCalls

LEMMA InitFifo == SInit => Fifo!FifoInit /\ semas[Observed].count >= 0
<1> SUFFICES ASSUME SInit PROVE Fifo!FifoInit /\ semas[Observed].count >= 0
  OBVIOUS
<1>1. semas[Observed] = NoSema
  BY ObservedAssumption DEF SInit, SemaIds
<1>2. SemaWaiters(threads, Observed) = {}
  BY DEF SInit, Init, ZeroTcb, SemaWaiters, Waiting
<1>3. Queue(threads, Observed) = Fifo!EmptyQueue
  BY <1>2, NobodyQueues
<1> QED
  BY <1>1, <1>3 DEF Fifo!FifoInit, NoSema

(* A semaphore of the table, with its waiters in the thread table by wait  *)
(* sequence, is a FIFO semaphore, whatever the scheduler and the other     *)
(* semaphores do: no unit is made or lost by sceKernelWaitSema, -PollSema, *)
(* -SignalSema or a time-out, nobody overtakes, and a signal serves as     *)
(* many as it can pay for.                                                 *)
THEOREM SemaphoresAreFifo == SSpec => ImplementsFifo
<1>1. SInit => Fifo!FifoInit /\ semas[Observed].count >= 0
  BY InitFifo
<1>2. SemaInv /\ semas[Observed].count >= 0 /\ [SNext]_svars =>
        [Fifo!FifoNext]_(Fifo!fvars) /\ (semas[Observed].count >= 0)'
  BY EveryStepFifo DEF FifoStep
<1> QED
  BY <1>1, <1>2, SpecSemas, PTL DEF SSpec, ImplementsFifo, Fifo!FifoSpec

-----------------------------------------------------------------------------
(* Event flags: the waiters of a flag and the rounds that serve them *)

(* The loop of hle_thread_wake_event_flag after some rounds. *)
Progress == [pattern : SUBSET Bits, served : SUBSET Slots]

(* The waiters that are still to be served. *)
Eager(t, id, x) ==
  {s \in FlagWaiters(t, id) \ x.served : Matches(t[s].need, x.pattern)}

NextServed(t, id, x) ==
  CHOOSE w \in Eager(t, id, x) : \A r \in Eager(t, id, x) : Precedes(t, w, r)

Round(t, id, multiple, x) ==
  IF Eager(t, id, x) = {} \/ (x.served # {} /\ ~multiple) THEN x
  ELSE [pattern |-> After(t[NextServed(t, id, x)].need, x.pattern),
        served  |-> x.served \cup {NextServed(t, id, x)}]

-----------------------------------------------------------------------------
(* Recursive functions *)

(* A function whose value at n is made from its value at n - 1. *)
Iterates(f, R, a, step, n) ==
  /\ f \in [0 .. n -> R]
  /\ f[0] = a
  /\ \A i \in 1 .. n : f[i] = step[f[i - 1]]

LEMMA IterationExists ==
  ASSUME NEW R, NEW a \in R, NEW step \in [R -> R], NEW N \in Nat
  PROVE  \E f : Iterates(f, R, a, step, N)
<1> DEFINE Bad == {n \in Nat : ~ \E f : Iterates(f, R, a, step, n)}
<1>1. CASE Bad = {}
  BY <1>1
<1>2. CASE Bad # {}
  <2>1. PICK m \in Bad : \A n \in Bad : m <= n
    BY <1>2, Least
  <2>2. CASE m = 0
    <3>1. Iterates([i \in 0 .. 0 |-> a], R, a, step, 0)
      BY DEF Iterates
    <3> QED
      BY <2>2, <3>1
  <2>3. CASE m # 0
    <3>1. m \in Nat /\ m - 1 \in Nat /\ m - 1 \notin Bad
      BY <2>1, <2>3
    <3>2. PICK f : Iterates(f, R, a, step, m - 1)
      BY <3>1
    <3> DEFINE g == [i \in 0 .. m |-> IF i = m THEN step[f[m - 1]] ELSE f[i]]
    <3>3. f \in [0 .. m - 1 -> R] /\ f[m - 1] \in R
      BY <3>1, <3>2 DEF Iterates
    <3>4. g \in [0 .. m -> R]
      BY <3>1, <3>3
    <3>5. \A i \in 0 .. m : g[i] = IF i = m THEN step[f[m - 1]] ELSE f[i]
      OBVIOUS
    <3> HIDE DEF g
    <3>6. g[0] = a
      BY <2>3, <3>1, <3>2, <3>5 DEF Iterates
    <3>7. ASSUME NEW i \in 1 .. m PROVE g[i] = step[g[i - 1]]
      <4>1. i - 1 \in 0 .. m - 1 /\ i - 1 # m
        BY <3>1
      <4>2. g[i - 1] = f[i - 1]
        BY <3>1, <3>5, <4>1
      <4>3. CASE i = m
        BY <3>1, <3>5, <4>2, <4>3
      <4>4. CASE i # m
        BY <3>1, <3>2, <3>5, <4>2, <4>4 DEF Iterates
      <4> QED
        BY <4>3, <4>4
    <3>8. Iterates(g, R, a, step, m)
      BY <3>4, <3>6, <3>7 DEF Iterates
    <3> QED
      BY <2>1, <3>8
  <2> QED
    BY <2>2, <2>3
<1> QED
  BY <1>1, <1>2

(* The loop, unfolded. *)
LEMMA ServingIs ==
  ASSUME NEW t, NEW id, NEW pattern \in SUBSET Bits, NEW multiple,
         \A x \in Progress : Round(t, id, multiple, x) \in Progress
  PROVE  \E f : /\ f[0] = [pattern |-> pattern, served |-> {}]
                /\ \A n \in 1 .. NumSlots : f[n] = Round(t, id, multiple, f[n - 1])
                /\ Serving(t, id, pattern, multiple) = f[Cardinality(FlagWaiters(t, id))]
<1> DEFINE a == [pattern |-> pattern, served |-> {}]
           step == [x \in Progress |-> Round(t, id, multiple, x)]
           Unfolds(f) == f = [n \in 0 .. NumSlots |->
                                IF n = 0 THEN a ELSE Round(t, id, multiple, f[n - 1])]
           g == CHOOSE f : Unfolds(f)
<1>1. a \in Progress /\ NumSlots \in Nat
  BY SlotsAssumption DEF Progress
<1>2. step \in [Progress -> Progress]
  OBVIOUS
<1>3. \A x \in Progress : step[x] = Round(t, id, multiple, x)
  OBVIOUS
<1>4. Serving(t, id, pattern, multiple) = g[Cardinality(FlagWaiters(t, id))]
  BY Zenon DEF Serving, Round, NextServed, Eager
<1> HIDE DEF a, step
<1>5. PICK f : Iterates(f, Progress, a, step, NumSlots)
  BY <1>1, <1>2, IterationExists
<1>6. f \in [0 .. NumSlots -> Progress]
  BY <1>5 DEF Iterates
<1>7. \A n \in 0 .. NumSlots : f[n] = IF n = 0 THEN a ELSE Round(t, id, multiple, f[n - 1])
  <2>1. ASSUME NEW n \in 0 .. NumSlots, n # 0
        PROVE  f[n] = Round(t, id, multiple, f[n - 1])
    <3>1. n \in 1 .. NumSlots /\ n - 1 \in 0 .. NumSlots
      BY <1>1, <2>1
    <3>2. f[n] = step[f[n - 1]] /\ f[n - 1] \in Progress
      BY <1>5, <1>6, <3>1 DEF Iterates
    <3> QED
      BY <1>3, <3>2
  <2> QED
    BY <1>5, <2>1 DEF Iterates
<1>8. Unfolds(f)
  BY <1>6, <1>7
<1>9. Unfolds(g)
  BY <1>8, Zenon
<1> HIDE DEF g
<1>10. g[0] = a /\ \A n \in 1 .. NumSlots : g[n] = Round(t, id, multiple, g[n - 1])
  <2>1. \A n \in 0 .. NumSlots : g[n] = IF n = 0 THEN a ELSE Round(t, id, multiple, g[n - 1])
    BY <1>9, Zenon
  <2>2. 0 \in 0 .. NumSlots
    BY <1>1
  <2>3. \A n \in 1 .. NumSlots : n \in 0 .. NumSlots /\ n # 0
    BY <1>1
  <2> QED
    BY <2>1, <2>2, <2>3, Zenon
<1> QED
  BY <1>4, <1>10, Zenon DEF a

-----------------------------------------------------------------------------
(* What every round keeps *)

(* A thread table in which who waits for a flag asks for what one may ask. *)
Asks(t) ==
  /\ t \in [Slots -> Tcb]
  /\ \A s \in Slots : Waiting(t, s) /\ t[s].wait = "evf" => t[s].need \in Needs

LEMMA NeedsOfWaiters ==
  ASSUME NEW t, Asks(t), NEW id
  PROVE  \A s \in FlagWaiters(t, id) :
           s \in Slots /\ t[s].need \in Modes /\ t[s].seq \in Nat
BY ModesAssumption DEF Asks, FlagWaiters, Tcb

LEMMA MatchingIs ==
  ASSUME NEW need \in Modes, NEW pattern \in SUBSET Bits
  PROVE  /\ After(need, pattern) \in SUBSET pattern
         /\ Takes(need) => After(need, pattern) \cap need.bits = {}
         /\ Takes(need) /\ Matches(need, pattern) => need.bits \subseteq pattern
<1>1. need.clear \in {"nothing", "bits", "all"}
  BY DEF Modes
<1>2. CASE need.clear = "nothing"
  BY <1>2 DEF After, Takes, Matches
<1>3. CASE need.clear = "bits"
  BY <1>3 DEF After, Takes, Matches
<1>4. CASE need.clear = "all"
  BY <1>4 DEF After, Takes, Matches
<1> QED
  BY <1>1, <1>2, <1>3, <1>4

(* A smaller pattern serves nobody who was not served by the larger one.   *)
LEMMA LessMatchesLess ==
  ASSUME NEW need, NEW p, NEW q \in SUBSET p, Matches(need, q)
  PROVE  Matches(need, p)
BY DEF Matches

LEMMA NextServedIs ==
  ASSUME NEW t, Asks(t), NEW id, NEW x \in Progress, Eager(t, id, x) # {}
  PROVE  /\ NextServed(t, id, x) \in Eager(t, id, x)
         /\ \A r \in Eager(t, id, x) : t[NextServed(t, id, x)].seq <= t[r].seq
<1> DEFINE E == Eager(t, id, x)
           N == {t[s].seq : s \in E}
<1>1. \A s \in E : t[s].seq \in Nat
  BY NeedsOfWaiters DEF Eager
<1>2. N \in SUBSET Nat /\ N # {}
  BY <1>1
<1>3. PICK m \in N : \A n \in N : m <= n
  BY <1>2, Least
<1>4. PICK w \in E : t[w].seq = m
  BY <1>3
<1>5. \A r \in E : Precedes(t, w, r)
  BY <1>3, <1>4 DEF Precedes
<1> HIDE DEF E
<1>6. /\ (CHOOSE v \in E : \A r \in E : Precedes(t, v, r)) \in E
      /\ \A r \in E : Precedes(t, CHOOSE v \in E : \A q \in E : Precedes(t, v, q), r)
  BY <1>4, <1>5, Zenon
<1> QED
  BY <1>6, Zenon DEF E, NextServed, Precedes

(* After n rounds: who is served; in which order those who want the same   *)
(* are; and who takes bits found them and leaves them to nobody.           *)
ServedInOrder(t, id, x) ==
  \A r, s \in FlagWaiters(t, id) :
    s \in x.served /\ t[r].need = t[s].need /\ t[r].seq < t[s].seq => r \in x.served

TakersApart(t, x) ==
  /\ \A s \in x.served : Takes(t[s].need) => t[s].need.bits \cap x.pattern = {}
  /\ \A r, s \in x.served : r # s /\ Takes(t[r].need) /\ Takes(t[s].need) =>
       t[r].need.bits \cap t[s].need.bits = {}

NoMore(t, id, multiple, x) == Eager(t, id, x) = {} \/ (x.served # {} /\ ~multiple)

SoFar(t, id, pattern, multiple, n, x) ==
  /\ x \in Progress
  /\ x.pattern \subseteq pattern
  /\ x.served \subseteq FlagWaiters(t, id)
  /\ NoMore(t, id, multiple, x) \/ Cardinality(x.served) = n
  /\ ServedInOrder(t, id, x)
  /\ TakersApart(t, x)

LEMMA RoundKeeps ==
  ASSUME NEW t, Asks(t), NEW id, NEW pattern, NEW multiple, NEW n \in Nat, NEW x,
         SoFar(t, id, pattern, multiple, n, x)
  PROVE  SoFar(t, id, pattern, multiple, n + 1, Round(t, id, multiple, x))
<1> DEFINE s == NextServed(t, id, x)
           y == [pattern |-> After(t[s].need, x.pattern), served |-> x.served \cup {s}]
<1>1. CASE NoMore(t, id, multiple, x)
  BY <1>1 DEF NoMore, SoFar, Round
<1>2. CASE ~NoMore(t, id, multiple, x)
  <2>1. Round(t, id, multiple, x) = y
    BY <1>2 DEF NoMore, Round
  <2>2. /\ x \in Progress /\ x.served \subseteq FlagWaiters(t, id)
        /\ x.pattern \in SUBSET Bits /\ x.served \in SUBSET Slots
        /\ x.pattern \subseteq pattern
        /\ ServedInOrder(t, id, x) /\ TakersApart(t, x)
        /\ Cardinality(x.served) = n /\ Eager(t, id, x) # {}
    BY <1>2 DEF SoFar, NoMore, Progress
  <2>3. /\ s \in Eager(t, id, x)
        /\ \A r \in Eager(t, id, x) : t[s].seq <= t[r].seq
    BY <2>2, NextServedIs
  <2> HIDE DEF s
  <2>4. /\ s \in FlagWaiters(t, id) /\ s \notin x.served /\ s \in Slots
        /\ Matches(t[s].need, x.pattern)
    BY <2>3 DEF Eager, FlagWaiters
  <2>5. t[s].need \in Modes /\ t[s].seq \in Nat
    BY <2>4, NeedsOfWaiters
  <2>6. /\ After(t[s].need, x.pattern) \in SUBSET x.pattern
        /\ Takes(t[s].need) => After(t[s].need, x.pattern) \cap t[s].need.bits = {}
        /\ Takes(t[s].need) => t[s].need.bits \subseteq x.pattern
    BY <2>2, <2>4, <2>5, MatchingIs
  <2>7. y.pattern = After(t[s].need, x.pattern) /\ y.served = x.served \cup {s}
    OBVIOUS
  <2>8. y \in Progress
    BY <2>2, <2>4, <2>6 DEF Progress
  <2> HIDE DEF y
  <2>9. Cardinality(y.served) = n + 1
    <3>1. IsFiniteSet(x.served)
      BY <2>2, SlotsFinite
    <3> QED
      BY <2>2, <2>4, <2>7, <3>1, FS_AddElement
  <2>10. ServedInOrder(t, id, y)
    <3>1. ASSUME NEW r \in FlagWaiters(t, id), t[r].need = t[s].need, t[r].seq < t[s].seq
          PROVE  r \in y.served
      <4>1. t[r].seq \in Nat
        BY NeedsOfWaiters
      <4>2. r \notin Eager(t, id, x)
        BY <2>3, <2>5, <3>1, <4>1
      <4> QED
        BY <2>4, <2>7, <3>1, <4>2 DEF Eager
    <3> QED
      BY <2>2, <2>7, <3>1 DEF ServedInOrder
  <2>11. TakersApart(t, y)
    <3>1. \A r \in y.served : Takes(t[r].need) => t[r].need.bits \cap y.pattern = {}
      BY <2>2, <2>6, <2>7 DEF TakersApart
    <3>2. \A r \in x.served : Takes(t[r].need) /\ Takes(t[s].need) =>
            t[r].need.bits \cap t[s].need.bits = {}
      BY <2>2, <2>6 DEF TakersApart
    <3> QED
      BY <2>2, <2>7, <3>1, <3>2 DEF TakersApart
  <2> QED
    BY <2>1, <2>2, <2>4, <2>6, <2>7, <2>8, <2>9, <2>10, <2>11 DEF SoFar
<1> QED
  BY <1>1, <1>2

LEMMA WaitersCounted ==
  ASSUME NEW W \in SUBSET Slots
  PROVE  /\ Cardinality(W) \in 0 .. NumSlots
         /\ \A S \in SUBSET W : Cardinality(S) = Cardinality(W) => S = W
<1>1. NumSlots - 1 \in Int /\ 0 \in Int /\ NumSlots \in Nat /\ NumSlots > 0
  BY SlotsAssumption
<1>2. IsFiniteSet(Slots) /\ Cardinality(Slots) = NumSlots
  BY <1>1, FS_Interval DEF Slots
<1>3. IsFiniteSet(W) /\ Cardinality(W) \in Nat /\ Cardinality(W) <= Cardinality(Slots)
  BY <1>2, FS_Subset, SlotsFinite
<1>4. ASSUME NEW S \in SUBSET W, Cardinality(S) = Cardinality(W) PROVE S = W
  BY <1>3, <1>4, FS_Subset
<1> QED
  BY <1>1, <1>2, <1>3, <1>4

(* Every waiter who matches what is left of the pattern has been served.   *)
LEMMA ServingServes ==
  ASSUME NEW t, Asks(t), NEW id, NEW pattern \in SUBSET Bits, NEW multiple,
         multiple \/ \A r, s \in FlagWaiters(t, id) : r = s
  PROVE  LET x == Serving(t, id, pattern, multiple)
         IN  /\ x \in Progress
             /\ x.served \subseteq FlagWaiters(t, id)
             /\ Eager(t, id, x) = {}
             /\ ServedInOrder(t, id, x)
             /\ TakersApart(t, x)
<1> DEFINE W == FlagWaiters(t, id)
<1>1. W \in SUBSET Slots
  BY DEF FlagWaiters
<1>2. \A x \in Progress : Round(t, id, multiple, x) \in Progress
  <2>1. ASSUME NEW x \in Progress PROVE Round(t, id, multiple, x) \in Progress
    <3> DEFINE s == NextServed(t, id, x)
    <3>1. CASE Eager(t, id, x) = {}
      BY <3>1 DEF Round
    <3>2. CASE Eager(t, id, x) # {}
      <4>1. s \in Eager(t, id, x)
        BY <3>2, NextServedIs
      <4> HIDE DEF s
      <4>2. s \in Slots /\ t[s].need \in Modes /\ x.pattern \in SUBSET Bits /\ x.served \in SUBSET Slots
        BY <4>1, NeedsOfWaiters DEF Eager, Progress
      <4>3. After(t[s].need, x.pattern) \in SUBSET Bits
        BY <4>2, MatchingIs
      <4> QED
        BY <4>2, <4>3 DEF Round, Progress, s
    <3> QED
      BY <3>1, <3>2
  <2> QED
    BY <2>1
<1>3. PICK f : /\ f[0] = [pattern |-> pattern, served |-> {}]
               /\ \A n \in 1 .. NumSlots : f[n] = Round(t, id, multiple, f[n - 1])
               /\ Serving(t, id, pattern, multiple) = f[Cardinality(W)]
  BY <1>2, ServingIs
<1>4. SoFar(t, id, pattern, multiple, 0, f[0])
  <2>1. f[0].pattern = pattern /\ f[0].served = {} /\ f[0] \in Progress
    BY <1>3 DEF Progress
  <2>2. Cardinality({}) = 0
    BY FS_EmptySet
  <2> QED
    BY <2>1, <2>2 DEF SoFar, ServedInOrder, TakersApart
<1> DEFINE Holds(n) == SoFar(t, id, pattern, multiple, n, f[n])
           Bad == {n \in Nat : n <= NumSlots /\ ~Holds(n)}
<1>5. Bad = {}
  <2>1. SUFFICES ASSUME Bad # {} PROVE FALSE
    OBVIOUS
  <2>2. PICK m \in Bad : \A n \in Bad : m <= n
    BY <2>1, Least
  <2>3. m \in 1 .. NumSlots /\ m - 1 \in Nat /\ m - 1 <= NumSlots /\ (m - 1) + 1 = m
    BY <1>4, <2>2, SlotsAssumption
  <2>4. m - 1 \notin Bad
    BY <2>2, <2>3
  <2>5. SoFar(t, id, pattern, multiple, m - 1, f[m - 1])
    BY <2>3, <2>4
  <2>6. SoFar(t, id, pattern, multiple, (m - 1) + 1, Round(t, id, multiple, f[m - 1]))
    BY <2>3, <2>5, RoundKeeps
  <2>7. f[m] = Round(t, id, multiple, f[m - 1])
    BY <1>3, <2>3
  <2>8. Holds(m)
    BY <2>3, <2>6, <2>7, Zenon
  <2> QED
    BY <2>2, <2>8
<1>6. Cardinality(W) \in 0 .. NumSlots /\ Cardinality(W) \in Nat /\ Cardinality(W) <= NumSlots
  BY <1>1, WaitersCounted, SlotsAssumption
<1>7. SoFar(t, id, pattern, multiple, Cardinality(W), f[Cardinality(W)])
  BY <1>5, <1>6
<1> DEFINE x == f[Cardinality(W)]
<1> HIDE DEF x
<1>8. SoFar(t, id, pattern, multiple, Cardinality(W), x)
  BY <1>7 DEF x
<1>9. Eager(t, id, x) = {}
  <2>1. CASE Cardinality(x.served) = Cardinality(W)
    <3>1. x.served = W
      BY <1>1, <1>8, <2>1, WaitersCounted DEF SoFar
    <3> QED
      BY <3>1 DEF Eager
  <2>2. CASE x.served # {} /\ ~multiple
    <3>1. x.served = W
      BY <1>8, <2>2 DEF SoFar
    <3> QED
      BY <3>1 DEF Eager
  <2> QED
    BY <1>8, <2>1, <2>2 DEF SoFar, NoMore
<1> QED
  BY <1>3, <1>8, <1>9 DEF SoFar, x

-----------------------------------------------------------------------------
(* The invariant *)

(* Whoever waits for a flag waits for one that exists, for what is not     *)
(* there yet, and carries a fresh copy of its pattern.                     *)
WaitsOnFlag(t, f, copies, s) ==
  Waiting(t, s) /\ t[s].wait = "evf" =>
    /\ t[s].obj \in FlagIds
    /\ f[t[s].obj].active
    /\ t[s].need \in Needs
    /\ ~Matches(t[s].need, f[t[s].obj].pattern)
    /\ copies[s] = f[t[s].obj].pattern

(* A flag that takes one waiter has at most one. *)
OneUnlessSeveral(t, f) ==
  \A id \in FlagIds :
    f[id].multiple \/ \A r, s \in FlagWaiters(t, id) : r = s

EInv ==
  /\ Inv
  /\ flags \in [FlagIds -> Flag]
  /\ seen \in [Slots -> SUBSET Bits]
  /\ \A s \in Slots : WaitsOnFlag(threads, flags, seen, s)
  /\ OneUnlessSeveral(threads, flags)

LEMMA FlagInv ==
  ASSUME EInv
  PROVE  ETypeOK /\ NobodyLeftBehind /\ CopiesFresh
<1>1. ASSUME NEW id \in FlagIds, NEW s \in FlagWaiters(threads, id)
      PROVE  ~Matches(threads[s].need, flags[id].pattern) /\ seen[s] = flags[id].pattern
  BY <1>1 DEF EInv, WaitsOnFlag, FlagWaiters
<1>2. NobodyLeftBehind /\ CopiesFresh
  BY <1>1 DEF NobodyLeftBehind, CopiesFresh
<1> QED
  BY <1>2 DEF EInv, ETypeOK, WaitsOnFlag, Inv

LEMMA InitFlags == EInit => EInv
<1> SUFFICES ASSUME EInit PROVE EInv
  OBVIOUS
<1>1. Inv
  BY InitInv DEF EInit
<1>2. \A s \in Slots : threads[s].state # "WAITING"
  BY DEF EInit, Init, ZeroTcb
<1>3. NoFlag \in Flag
  BY DEF NoFlag, Flag
<1> QED
  BY <1>1, <1>2, <1>3 DEF EInit, EInv, WaitsOnFlag, OneUnlessSeveral, FlagWaiters, Waiting

(* A wait for a flag that goes on, or was never there. *)
FlagWaitGoesOn(s) ==
  Waiting(threads', s) /\ threads'[s].wait = "evf" => threads'[s] = threads[s]

(* Nobody who waits for a flag gets what it waits for. *)
ServesNot(s) ==
  Waiting(threads, s) /\ threads[s].wait = "evf" => ~Served(s)

LEMMA FewerWaiters ==
  ASSUME \A s \in Slots : FlagWaitGoesOn(s), NEW id
  PROVE  FlagWaiters(threads', id) \subseteq FlagWaiters(threads, id)
BY DEF FlagWaitGoesOn, FlagWaiters, Waiting

LEMMA KeepSeenType ==
  ASSUME EInv, KeepSeen
  PROVE  seen' \in [Slots -> SUBSET Bits]
BY DEF EInv, KeepSeen

LEMMA UpdateType ==
  ASSUME EInv, NEW id \in FlagIds, NEW pattern \in SUBSET Bits, Update(id, pattern)
  PROVE  /\ seen' \in [Slots -> SUBSET Bits]
         /\ flags' \in [FlagIds -> Flag]
         /\ flags'[id] = [flags[id] EXCEPT !.pattern = pattern]
         /\ \A i \in FlagIds \ {id} : flags'[i] = flags[i]
<1>1. flags \in [FlagIds -> Flag] /\ seen \in [Slots -> SUBSET Bits]
  BY DEF EInv
<1>2. [flags[id] EXCEPT !.pattern = pattern] \in Flag
  BY <1>1 DEF Flag
<1> QED
  BY <1>1, <1>2 DEF Update

(* The flags stay and nobody begins to wait. *)
LEMMA FlagWaitsGoOn ==
  ASSUME EInv, Inv', \A s \in Slots : FlagWaitGoesOn(s), KeepSeen, UNCHANGED flags
  PROVE  EInv'
<1>1. \A s \in Slots : WaitsOnFlag(threads', flags', seen', s)
  BY DEF EInv, FlagWaitGoesOn, WaitsOnFlag, KeepSeen, Waiting
<1>2. OneUnlessSeveral(threads', flags')
  BY FewerWaiters DEF EInv, OneUnlessSeveral
<1>3. seen' \in [Slots -> SUBSET Bits]
  BY KeepSeenType
<1> QED
  BY <1>1, <1>2, <1>3 DEF EInv

(* The pattern of a flag changes to one that no waiter asked for. *)
LEMMA WaitsSeeUpdate ==
  ASSUME EInv, Inv', \A s \in Slots : FlagWaitGoesOn(s), NEW id \in FlagIds, flags[id].active,
         NEW pattern \in SUBSET Bits, Update(id, pattern),
         \A s \in FlagWaiters(threads', id) : ~Matches(threads'[s].need, pattern)
  PROVE  EInv'
<1>1. /\ seen' \in [Slots -> SUBSET Bits]
      /\ flags' \in [FlagIds -> Flag]
      /\ flags'[id] = [flags[id] EXCEPT !.pattern = pattern]
      /\ \A i \in FlagIds \ {id} : flags'[i] = flags[i]
  BY UpdateType
<1>2. flags[id] \in Flag
  BY DEF EInv
<1>3. /\ flags'[id].active = flags[id].active /\ flags'[id].multiple = flags[id].multiple
      /\ flags'[id].pattern = pattern
  BY <1>1, <1>2 DEF Flag
<1>4. ASSUME NEW s \in Slots PROVE WaitsOnFlag(threads', flags', seen', s)
  <2>1. SUFFICES ASSUME Waiting(threads', s), threads'[s].wait = "evf"
        PROVE  WaitsOnFlag(threads', flags', seen', s)
    BY DEF WaitsOnFlag
  <2>2. threads'[s] = threads[s]
    BY <2>1 DEF FlagWaitGoesOn
  <2>3. WaitsOnFlag(threads, flags, seen, s) /\ Waiting(threads, s)
    BY <2>1, <2>2 DEF EInv, Waiting
  <2>4. CASE threads[s].obj = id
    <3>1. s \in FlagWaiters(threads', id)
      BY <2>1, <2>2, <2>4 DEF FlagWaiters
    <3>2. seen'[s] = pattern
      BY <3>1 DEF Update
    <3> QED
      BY <1>3, <2>1, <2>2, <2>3, <2>4, <3>1, <3>2 DEF WaitsOnFlag
  <2>5. CASE threads[s].obj # id
    <3>1. s \notin FlagWaiters(threads', id)
      BY <2>2, <2>5 DEF FlagWaiters
    <3>2. seen'[s] = seen[s]
      BY <2>1, <3>1 DEF Update
    <3> QED
      BY <1>1, <2>1, <2>2, <2>3, <2>5, <3>2 DEF WaitsOnFlag
  <2> QED
    BY <2>4, <2>5
<1>5. OneUnlessSeveral(threads', flags')
  BY <1>1, <1>3, FewerWaiters DEF EInv, OneUnlessSeveral
<1> QED
  BY <1>1, <1>4, <1>5 DEF EInv

-----------------------------------------------------------------------------
(* The calls *)

LEMMA UnchangedThreads ==
  ASSUME EInv, UNCHANGED vars
  PROVE  Inv' /\ \A s \in Slots : FlagWaitGoesOn(s) /\ ServesNot(s)
<1>1. Inv'
  BY NextInv DEF EInv
<1>2. threads' = threads
  BY DEF vars
<1> QED
  BY <1>1, <1>2 DEF FlagWaitGoesOn, ServesNot, Served, Waiting

LEMMA CreateFlagKeeps ==
  ASSUME EInv, NEW pattern \in SUBSET Bits, NEW multiple \in BOOLEAN,
         CreateFlag(pattern, multiple)
  PROVE  EInv' /\ \A s \in Slots : ServesNot(s)
<1> DEFINE unused == {i \in FlagIds : ~flags[i].active}
           new == [active |-> TRUE, multiple |-> multiple, pattern |-> pattern]
<1>1. /\ unused # {} /\ UNCHANGED vars /\ seen' = seen
      /\ flags' = [flags EXCEPT ![First(unused)] = new]
  BY DEF CreateFlag
<1>2. unused \in SUBSET Nat
  BY FlagsAssumption DEF FlagIds
<1>3. PICK x \in unused : x = First(unused)
  BY <1>1, <1>2, FirstInNat
<1>4. /\ Inv' /\ threads' = threads
      /\ \A s \in Slots : FlagWaitGoesOn(s) /\ ServesNot(s)
  BY <1>1, UnchangedThreads DEF vars
<1>5. x \in FlagIds /\ ~flags[x].active /\ flags' = [flags EXCEPT ![x] = new]
  BY <1>1, <1>3
<1> HIDE DEF unused
<1>6. new \in Flag
  BY DEF Flag
<1>7. flags \in [FlagIds -> Flag] /\ flags' \in [FlagIds -> Flag]
  BY <1>5, <1>6 DEF EInv
<1>8. \A s \in Slots : WaitsOnFlag(threads', flags', seen', s)
  BY <1>1, <1>4, <1>5, <1>7 DEF EInv, WaitsOnFlag
<1>9. FlagWaiters(threads, x) = {}
  BY <1>5 DEF EInv, WaitsOnFlag, FlagWaiters
<1>10. OneUnlessSeveral(threads', flags')
  <2>1. ASSUME NEW id \in FlagIds, id # x
        PROVE  flags'[id].multiple \/ \A r, s \in FlagWaiters(threads', id) : r = s
    BY <1>4, <1>5, <1>7, <2>1 DEF EInv, OneUnlessSeveral
  <2> QED
    BY <1>4, <1>9, <2>1 DEF OneUnlessSeveral
<1> QED
  BY <1>1, <1>4, <1>7, <1>8, <1>10 DEF EInv

LEMMA ClearFlagKeeps ==
  ASSUME EInv, NEW id \in FlagIds, NEW mask, ClearFlag(id, mask)
  PROVE  EInv' /\ \A s \in Slots : ServesNot(s)
<1>1. /\ flags[id].active /\ UNCHANGED vars
      /\ Update(id, flags[id].pattern \cap mask)
  BY DEF ClearFlag
<1>2. Inv' /\ threads' = threads /\ \A s \in Slots : FlagWaitGoesOn(s) /\ ServesNot(s)
  BY <1>1, UnchangedThreads DEF vars
<1>3. flags[id].pattern \cap mask \in SUBSET Bits
  BY DEF EInv, Flag
<1>4. \A s \in FlagWaiters(threads', id) :
        ~Matches(threads'[s].need, flags[id].pattern \cap mask)
  <2>1. ASSUME NEW s \in FlagWaiters(threads', id)
        PROVE  ~Matches(threads'[s].need, flags[id].pattern \cap mask)
    <3>1. ~Matches(threads[s].need, flags[id].pattern)
      BY <1>2 DEF EInv, WaitsOnFlag, FlagWaiters
    <3> QED
      BY <1>2, <3>1, LessMatchesLess
  <2> QED
    BY <2>1
<1>5. EInv'
  BY <1>1, <1>2, <1>3, <1>4, WaitsSeeUpdate
<1> QED
  BY <1>2, <1>5

LEMMA WaitFlagTakesKeeps ==
  ASSUME EInv, NEW id \in FlagIds, NEW need \in Needs, WaitFlagTakes(id, need)
  PROVE  EInv' /\ \A s \in Slots : ServesNot(s)
<1>1. /\ flags[id].active /\ UNCHANGED vars
      /\ Update(id, After(need, flags[id].pattern))
  BY DEF WaitFlagTakes
<1>2. Inv' /\ threads' = threads /\ \A s \in Slots : FlagWaitGoesOn(s) /\ ServesNot(s)
  BY <1>1, UnchangedThreads DEF vars
<1>3. flags[id].pattern \in SUBSET Bits
  BY DEF EInv, Flag
<1>4. After(need, flags[id].pattern) \in SUBSET flags[id].pattern
  BY <1>3, MatchingIs, ModesAssumption
<1>5. \A s \in FlagWaiters(threads', id) :
        ~Matches(threads'[s].need, After(need, flags[id].pattern))
  <2>1. ASSUME NEW s \in FlagWaiters(threads', id)
        PROVE  ~Matches(threads'[s].need, After(need, flags[id].pattern))
    <3>1. ~Matches(threads[s].need, flags[id].pattern)
      BY <1>2 DEF EInv, WaitsOnFlag, FlagWaiters
    <3> QED
      BY <1>2, <1>4, <3>1, LessMatchesLess
  <2> QED
    BY <2>1
<1>6. EInv'
  BY <1>1, <1>2, <1>3, <1>4, <1>5, WaitsSeeUpdate
<1> QED
  BY <1>2, <1>6

(* A table in which some of those who waited were woken, by the clock or   *)
(* with another result than "ok".                                          *)
LEMMA AwokenGoOn ==
  ASSUME NEW u, Wakes(threads, u), threads' = u
  PROVE  \A s \in Slots : FlagWaitGoesOn(s)
BY DEF Wakes, FlagWaitGoesOn, Waiting

LEMMA LateServesNot ==
  ASSUME NEW u, Late(u), NEW s \in Slots, threads'[s] = u.tcbs[s]
  PROVE  ServesNot(s)
<1>1. CASE u.tcbs[s] = threads[s]
  BY <1>1 DEF ServesNot, Served, Waiting
<1>2. CASE u.tcbs[s] # threads[s]
  BY <1>2 DEF Late, ServesNot, Served, ExpiryResult
<1> QED
  BY <1>1, <1>2

LEMMA ReferFlagStatusKeeps ==
  ASSUME EInv, NEW id \in FlagIds, ReferFlagStatus(id)
  PROVE  EInv' /\ \A s \in Slots : ServesNot(s)
<1>1. PICK k : /\ k = WakeExpired(Kernel, now) /\ threads' = k.tcbs /\ timed' = k.timed
  BY DEF ReferFlagStatus
<1>2. Awoken(k) /\ Late(k)
  BY <1>1, ExpiredAwoken DEF EInv
<1>3. Inv'
  BY <1>1, <1>2, AwokenKeepsInv DEF EInv, ReferFlagStatus
<1>4. \A s \in Slots : FlagWaitGoesOn(s)
  BY <1>1, <1>2, AwokenGoOn DEF Awoken
<1>5. \A s \in Slots : ServesNot(s)
  BY <1>1, <1>2, LateServesNot
<1> QED
  BY <1>3, <1>4, <1>5, FlagWaitsGoOn DEF ReferFlagStatus

LEMMA DeleteFlagKeeps ==
  ASSUME EInv, NEW id \in FlagIds, DeleteFlag(id)
  PROVE  EInv' /\ \A s \in Slots : ServesNot(s)
<1>1. PICK k, S, j :
        /\ k = WakeExpired(Kernel, now) /\ S = FlagWaiters(k.tcbs, id)
        /\ j = Wake(k, S, [s \in Slots |-> "deleted"])
  OBVIOUS
<1>2. /\ flags' = [flags EXCEPT ![id] = NoFlag] /\ threads' = j.tcbs /\ timed' = j.timed
      /\ KeepSeen /\ UNCHANGED <<current, nextId, nextSeq, dispatch, now>>
  BY <1>1 DEF DeleteFlag
<1>3. Awoken(k) /\ Late(k)
  BY <1>1, ExpiredAwoken DEF EInv
<1>4. /\ S \in SUBSET Slots /\ \A s \in S : Waiting(k.tcbs, s)
      /\ "deleted" \in Results
  BY <1>1 DEF FlagWaiters, Results
<1>5. /\ Awoken(j)
      /\ \A s \in Slots \ S : j.tcbs[s] = k.tcbs[s]
      /\ \A s \in S : j.tcbs[s].state = "READY" /\ j.tcbs[s].v0 = "deleted"
  <2>1. WokenWith(k, S, "deleted", j)
    BY <1>1, <1>3, <1>4 DEF WokenWith
  <2> QED
    BY <2>1, MoreAwoken
<1>6. Inv'
  BY <1>2, <1>5, AwokenKeepsInv DEF EInv
<1>7. \A s \in Slots : FlagWaitGoesOn(s)
  BY <1>2, <1>5, AwokenGoOn DEF Awoken
<1>8. \A s \in Slots : ServesNot(s)
  <2>1. ASSUME NEW s \in S PROVE ServesNot(s)
    BY <1>2, <1>5 DEF ServesNot, Served
  <2>2. ASSUME NEW s \in Slots \ S PROVE ServesNot(s)
    BY <1>2, <1>3, <1>5, LateServesNot
  <2> QED
    BY <2>1, <2>2
<1>9. FlagWaiters(threads', id) = {}
  <2>1. ASSUME NEW s \in S PROVE s \notin FlagWaiters(threads', id)
    BY <1>2, <1>5 DEF FlagWaiters, Waiting
  <2>2. ASSUME NEW s \in Slots \ S PROVE s \notin FlagWaiters(threads', id)
    <3>1. threads'[s] = k.tcbs[s]
      BY <1>2, <1>5
    <3> QED
      BY <1>1, <3>1 DEF FlagWaiters, Waiting
  <2>3. FlagWaiters(threads', id) \subseteq Slots
    BY DEF FlagWaiters
  <2> QED
    BY <2>1, <2>2, <2>3
<1>10. NoFlag \in Flag
  BY DEF NoFlag, Flag
<1>11. flags' \in [FlagIds -> Flag] /\ \A i \in FlagIds \ {id} : flags'[i] = flags[i]
  BY <1>2, <1>10 DEF EInv
<1>12. ASSUME NEW s \in Slots PROVE WaitsOnFlag(threads', flags', seen', s)
  <2>1. SUFFICES ASSUME Waiting(threads', s), threads'[s].wait = "evf"
        PROVE  WaitsOnFlag(threads', flags', seen', s)
    BY DEF WaitsOnFlag
  <2>2. threads'[s] = threads[s] /\ seen'[s] = seen[s]
    BY <1>2, <1>7, <2>1 DEF FlagWaitGoesOn, KeepSeen
  <2>3. threads'[s].obj # id
    BY <1>9, <2>1 DEF FlagWaiters
  <2> QED
    BY <1>11, <2>1, <2>2, <2>3 DEF EInv, WaitsOnFlag, Waiting
<1>13. OneUnlessSeveral(threads', flags')
  <2>1. ASSUME NEW i \in FlagIds, i # id
        PROVE  flags'[i].multiple \/ \A r, s \in FlagWaiters(threads', i) : r = s
    BY <1>7, <1>11, <2>1, FewerWaiters DEF EInv, OneUnlessSeveral
  <2> QED
    BY <1>9, <2>1 DEF OneUnlessSeveral
<1> QED
  BY <1>2, <1>6, <1>8, <1>11, <1>12, <1>13, KeepSeenType DEF EInv

LEMMA WaitFlagBlocksKeeps ==
  ASSUME EInv, NEW id \in FlagIds, NEW need \in Needs, NEW d \in Delays \cup {0},
         WaitFlagBlocks(id, need, d)
  PROVE  EInv' /\ \A s \in Slots : ServesNot(s)
<1>1. /\ Alive /\ flags[id].active /\ ~Matches(need, flags[id].pattern) /\ MayWait(id)
      /\ BlockInOrder(Kernel, "evf", id, need, d)
      /\ seen' = [s \in Slots |-> IF threads'[s].wait # "evf" THEN {}
                                  ELSE IF s = Self THEN flags[id].pattern ELSE seen[s]]
      /\ UNCHANGED <<nextId, dispatch, flags>>
  BY DEF WaitFlagBlocks
<1>2. /\ d \in Nat /\ id \in Int /\ need \in AnyNeed /\ "evf" \in TimedWaits
  BY DelaysAssumption, FlagsAssumption DEF FlagIds, AnyNeed, TimedWaits
<1>3. Awoken(Kernel) /\ Late(Kernel) /\ Inv
  BY KernelAwoken DEF EInv, Late
<1>4. Inv' /\ \A s \in Slots : WaitsInOrder("evf", id, need, s) /\ TimesOut(s)
  BY <1>1, <1>2, <1>3, BlockInOrderKeepsInv
<1>5. PICK me : me = Self
  OBVIOUS
<1>6. \A s \in Slots : Waiting(threads', s) =>
        \/ s # me /\ threads'[s] = threads[s]
        \/ /\ s = me
           /\ threads'[s].wait = "evf" /\ threads'[s].obj = id /\ threads'[s].need = need
  BY <1>4, <1>5 DEF WaitsInOrder
<1>7. seen' = [s \in Slots |-> IF threads'[s].wait # "evf" THEN {}
                               ELSE IF s = me THEN flags[id].pattern ELSE seen[s]]
  BY <1>1, <1>5
<1>8. flags[id].pattern \in SUBSET Bits /\ seen \in [Slots -> SUBSET Bits]
  BY DEF EInv, Flag
<1>9. seen' \in [Slots -> SUBSET Bits]
  BY <1>7, <1>8
<1>10. ASSUME NEW s \in Slots PROVE WaitsOnFlag(threads', flags', seen', s)
  BY <1>1, <1>6, <1>7 DEF EInv, WaitsOnFlag, Waiting
<1>11. OneUnlessSeveral(threads', flags')
  <2>1. ASSUME NEW i \in FlagIds
        PROVE  FlagWaiters(threads', i) \subseteq
                 FlagWaiters(threads, i) \cup (IF i = id THEN {me} ELSE {})
    BY <1>6 DEF FlagWaiters, Waiting
  <2>2. CASE flags[id].multiple
    BY <1>1, <2>1, <2>2 DEF EInv, OneUnlessSeveral
  <2>3. CASE FlagWaiters(threads, id) = {}
    BY <1>1, <2>1, <2>3 DEF EInv, OneUnlessSeveral
  <2> QED
    BY <1>1, <2>2, <2>3 DEF MayWait
<1>12. \A s \in Slots : ServesNot(s)
  BY <1>4 DEF TimesOut, ServesNot, Served, Waiting
<1> QED
  BY <1>1, <1>4, <1>9, <1>10, <1>11, <1>12 DEF EInv

(* A set serves those whom its rounds serve, and nobody else.              *)
ServesBy(id, t, x) ==
  /\ Asks(t) /\ Wakes(threads, t)
  /\ x \in Progress
  /\ x.served \subseteq FlagWaiters(t, id)
  /\ ServedInOrder(t, id, x)
  /\ TakersApart(t, x)
  /\ \A s \in Slots : s \in x.served \/ ~Waiting(t, s) => ~Waiting(threads', s)
  /\ \A s \in Slots : s \in x.served \/ ServesNot(s)

LEMMA SetFlagKeeps ==
  ASSUME EInv, NEW id \in FlagIds, NEW bits \in SUBSET Bits, SetFlag(id, bits)
  PROVE  EInv' /\ \E t, x : ServesBy(id, t, x)
<1>1. PICK k : k = WakeExpired(Kernel, now)
  OBVIOUS
<1>2. PICK x : x = Serving(k.tcbs, id, flags[id].pattern \cup bits, flags[id].multiple)
  OBVIOUS
<1>3. PICK S, j : S = x.served /\ j = Wake(k, S, [s \in Slots |-> "ok"])
  OBVIOUS
<1>4. /\ flags[id].active /\ Update(id, x.pattern) /\ threads' = j.tcbs /\ timed' = j.timed
      /\ UNCHANGED <<current, nextId, nextSeq, dispatch, now>>
  BY <1>1, <1>2, <1>3 DEF SetFlag
<1>5. Awoken(k) /\ Late(k)
  BY <1>1, ExpiredAwoken DEF EInv
<1>6. k.tcbs \in [Slots -> Tcb] /\ Wakes(threads, k.tcbs)
  BY <1>5 DEF Awoken, KernelType
<1>7. Asks(k.tcbs)
  BY <1>6 DEF Asks, Wakes, EInv, WaitsOnFlag, Waiting
<1>8. FlagWaiters(k.tcbs, id) \subseteq FlagWaiters(threads, id)
  BY <1>6 DEF Wakes, FlagWaiters, Waiting
<1>9. /\ flags[id].multiple \/ \A r, s \in FlagWaiters(k.tcbs, id) : r = s
      /\ flags[id].pattern \cup bits \in SUBSET Bits
  BY <1>8 DEF EInv, OneUnlessSeveral, Flag
<1>10. /\ x \in Progress
      /\ x.served \subseteq FlagWaiters(k.tcbs, id)
      /\ Eager(k.tcbs, id, x) = {}
      /\ ServedInOrder(k.tcbs, id, x)
      /\ TakersApart(k.tcbs, x)
  BY <1>2, <1>7, <1>9, ServingServes
<1>11. /\ S \in SUBSET Slots /\ \A s \in S : Waiting(k.tcbs, s)
       /\ "ok" \in Results
  BY <1>10, <1>3 DEF FlagWaiters, Results
<1>12. /\ Awoken(j)
       /\ \A s \in Slots \ S : j.tcbs[s] = k.tcbs[s]
       /\ \A s \in S : j.tcbs[s].state = "READY" /\ j.tcbs[s].v0 = "ok"
  <2>1. WokenWith(k, S, "ok", j)
    BY <1>3, <1>5, <1>11 DEF WokenWith
  <2> QED
    BY <2>1, MoreAwoken
<1>13. Inv'
  BY <1>4, <1>12, AwokenKeepsInv DEF EInv
<1>14. \A s \in Slots : FlagWaitGoesOn(s)
  BY <1>4, <1>12, AwokenGoOn DEF Awoken
<1>15. ASSUME NEW s \in FlagWaiters(threads', id)
       PROVE  ~Matches(threads'[s].need, x.pattern)
  <2>1. s \in Slots \ S
    BY <1>4, <1>12 DEF FlagWaiters, Waiting
  <2>2. threads'[s] = k.tcbs[s]
    BY <1>4, <1>12, <2>1
  <2>3. s \in FlagWaiters(k.tcbs, id)
    BY <2>2 DEF FlagWaiters, Waiting
  <2> QED
    BY <1>10, <1>3, <2>1, <2>2, <2>3 DEF Eager
<1>16. x.pattern \in SUBSET Bits
  BY <1>10 DEF Progress
<1>17. EInv'
  BY <1>4, <1>13, <1>14, <1>15, <1>16, WaitsSeeUpdate
<1>18. \A s \in Slots : s \in x.served \/ ~Waiting(k.tcbs, s) => ~Waiting(threads', s)
  BY <1>4, <1>12, <1>3 DEF Waiting
<1>19. \A s \in Slots : s \in x.served \/ ServesNot(s)
  BY <1>4, <1>5, <1>12, <1>3, LateServesNot
<1>20. ServesBy(id, k.tcbs, x)
  BY <1>6, <1>7, <1>10, <1>18, <1>19 DEF ServesBy
<1> QED
  BY <1>17, <1>20

-----------------------------------------------------------------------------
(* The steps *)

LEMMA SchedulerStepKeepsFlags ==
  ASSUME EInv, Next \/ UNCHANGED vars, KeepSeen \/ UNCHANGED <<vars, seen>>, UNCHANGED flags
  PROVE  EInv' /\ \A s \in Slots : ServesNot(s)
<1>1. Inv' /\ \A s \in Slots : Passes(s)
  BY NextInv, NextPasses DEF EInv
<1>2. ASSUME NEW s \in Slots PROVE FlagWaitGoesOn(s) /\ ServesNot(s)
  <2>1. Passes(s)
    BY <1>1
  <2>2. FlagWaitGoesOn(s)
    BY <2>1 DEF Passes, BeginsToWait, FlagWaitGoesOn
  <2>3. ServesNot(s)
    BY <2>1 DEF Passes, ServesNot, Served, Waiting
  <2> QED
    BY <2>2, <2>3
<1>3. CASE KeepSeen
  BY <1>1, <1>2, <1>3, FlagWaitsGoOn
<1>4. CASE UNCHANGED <<vars, seen>>
  <2>1. threads' = threads /\ seen' = seen /\ flags' = flags
    BY <1>4 DEF vars
  <2> QED
    BY <1>1, <1>2, <2>1
    DEF EInv, WaitsOnFlag, OneUnlessSeveral, FlagWaiters, Waiting
<1> QED
  BY <1>2, <1>3, <1>4

LEMMA FlagStep ==
  ASSUME EInv, [ENext]_evars
  PROVE  /\ EInv'
         /\ \/ \A s \in Slots : ServesNot(s)
            \/ \E id \in FlagIds : \E t, x : ServesBy(id, t, x)
<1>1. CASE \E pattern \in SUBSET Bits, multiple \in BOOLEAN : CreateFlag(pattern, multiple)
  BY <1>1, CreateFlagKeeps
<1>2. CASE \E id \in FlagIds : DeleteFlag(id)
  BY <1>2, DeleteFlagKeeps
<1>3. CASE \E id \in FlagIds : ReferFlagStatus(id)
  BY <1>3, ReferFlagStatusKeeps
<1>4. CASE \E id \in FlagIds, bits \in SUBSET Bits : SetFlag(id, bits)
  BY <1>4, SetFlagKeeps
<1>5. CASE \E id \in FlagIds, bits \in SUBSET Bits : ClearFlag(id, Bits \ bits)
  BY <1>5, ClearFlagKeeps
<1>6. CASE \E id \in FlagIds, need \in Needs : WaitFlagTakes(id, need)
  BY <1>6, WaitFlagTakesKeeps
<1>7. CASE \E id \in FlagIds, need \in Needs, d \in Delays \cup {0} : WaitFlagBlocks(id, need, d)
  BY <1>7, WaitFlagBlocksKeeps
<1>8. CASE Next /\ KeepSeen /\ UNCHANGED flags
  BY <1>8, SchedulerStepKeepsFlags
<1>9. CASE UNCHANGED evars
  <2>1. UNCHANGED vars /\ UNCHANGED seen /\ UNCHANGED flags
    BY <1>9 DEF evars, vars
  <2> QED
    BY <2>1, SchedulerStepKeepsFlags
<1> QED
  BY <1>1, <1>2, <1>3, <1>4, <1>5, <1>6, <1>7, <1>8, <1>9 DEF ENext, FlagCalls

LEMMA SpecFlags == ESpec => []EInv
<1>1. EInv /\ [ENext]_evars => EInv'
  BY FlagStep
<1> QED
  BY <1>1, InitFlags, PTL DEF ESpec

(* Flags, copies and waiters have their types, and nobody waits for a flag *)
(* that was deleted or for what the next flag with its id has to offer.    *)
THEOREM FlagsTyped == ESpec => []ETypeOK
<1>1. EInv => ETypeOK
  BY FlagInv
<1> QED
  BY <1>1, SpecFlags, PTL

(* hle_thread_wake_event_flag leaves nobody behind: whatever sequence of   *)
(* sets, clears, polls, timeouts and deletions led here, no thread waits   *)
(* for bits that are there.                                                *)
THEOREM NobodyIsLeftBehind == ESpec => []NobodyLeftBehind
<1>1. EInv => NobodyLeftBehind
  BY FlagInv
<1> QED
  BY <1>1, SpecFlags, PTL

(* hle_thread_update_event_flag_pattern reaches every waiter: the pattern  *)
(* that a waiter is told when its time runs out is the one the flag has.   *)
THEOREM CopiesStayFresh == ESpec => []CopiesFresh
<1>1. EInv => CopiesFresh
  BY FlagInv
<1> QED
  BY <1>1, SpecFlags, PTL

-----------------------------------------------------------------------------
(* Who is served *)

LEMMA ServedBySet ==
  ASSUME EInv, [ENext]_evars, NEW id, NEW s \in FlagWaiters(threads, id), Served(s)
  PROVE  \E t, x : ServesBy(id, t, x) /\ s \in x.served
<1>1. s \in Slots /\ Waiting(threads, s) /\ threads[s].wait = "evf" /\ threads[s].obj = id
  BY DEF FlagWaiters
<1>2. ~ServesNot(s)
  BY <1>1 DEF ServesNot
<1>3. PICK i, t, x : ServesBy(i, t, x)
  BY <1>1, <1>2, FlagStep
<1>4. s \in x.served /\ s \in FlagWaiters(t, i)
  BY <1>1, <1>2, <1>3 DEF ServesBy
<1>5. i = id
  BY <1>1, <1>3, <1>4 DEF ServesBy, Wakes, FlagWaiters, Waiting
<1> QED
  BY <1>3, <1>4, <1>5

(* A waiter has been served, has lost patience, or looks the same.         *)
LEMMA StillThere ==
  ASSUME NEW id, NEW t, NEW x, ServesBy(id, t, x), NEW r \in FlagWaiters(threads, id)
  PROVE  ~Waiting(threads', r) \/ (r \in FlagWaiters(t, id) /\ t[r] = threads[r])
BY DEF ServesBy, Wakes, FlagWaiters, Waiting

LEMMA ServedIs ==
  ASSUME NEW id, NEW t, NEW x, ServesBy(id, t, x), NEW r \in FlagWaiters(threads, id), Served(r)
  PROVE  r \in x.served /\ r \in FlagWaiters(t, id) /\ t[r] = threads[r]
<1>1. r \in x.served
  BY DEF ServesBy, ServesNot, FlagWaiters
<1> QED
  BY <1>1 DEF ServesBy, Wakes, FlagWaiters, Waiting

LEMMA StepServesInOrder ==
  ASSUME EInv, [ENext]_evars, NEW id, NEW r \in FlagWaiters(threads, id),
         NEW s \in FlagWaiters(threads, id), threads[r].need = threads[s].need,
         threads[r].seq < threads[s].seq, Served(s)
  PROVE  ~Waiting(threads', r)
<1>1. PICK t, x : ServesBy(id, t, x)
  BY ServedBySet
<1>2. s \in x.served /\ s \in FlagWaiters(t, id) /\ t[s] = threads[s]
  BY <1>1, ServedIs
<1>3. CASE ~Waiting(threads', r)
  BY <1>3
<1>4. CASE r \in FlagWaiters(t, id) /\ t[r] = threads[r]
  <2>1. r \in x.served
    BY <1>1, <1>2, <1>4 DEF ServesBy, ServedInOrder
  <2> QED
    BY <1>1, <2>1 DEF ServesBy, FlagWaiters
<1> QED
  BY <1>1, <1>3, <1>4, StillThere

LEMMA StepTakesOnce ==
  ASSUME EInv, [ENext]_evars, NEW id, NEW r \in FlagWaiters(threads, id),
         NEW s \in FlagWaiters(threads, id), r # s,
         Takes(threads[r].need), Takes(threads[s].need),
         threads[r].need.bits \cap threads[s].need.bits # {},
         Served(r), Served(s)
  PROVE  FALSE
<1>1. PICK t, x : ServesBy(id, t, x)
  BY ServedBySet
<1>2. s \in x.served /\ t[s] = threads[s] /\ r \in x.served /\ t[r] = threads[r]
  BY <1>1, ServedIs
<1> QED
  BY <1>1, <1>2 DEF ServesBy, TakersApart

(* Waiters who ask for the same are served in the order of their waits,    *)
(* whichever slots their threads have and whoever gave up between them.    *)
THEOREM ServedInTurn == ESpec => SameNeedsInOrder
<1> DEFINE InOrder ==
      \A id \in FlagIds : \A r, s \in FlagWaiters(threads, id) :
         /\ threads[r].need = threads[s].need
         /\ threads[r].seq < threads[s].seq
         /\ Served(s)
         => ~Waiting(threads', r)
<1>1. EInv /\ [ENext]_evars => InOrder
  BY StepServesInOrder
<1> HIDE DEF InOrder
<1>2. ESpec => [][InOrder]_evars
  BY <1>1, SpecFlags, PTL DEF ESpec
<1> QED
  BY <1>2 DEF SameNeedsInOrder, InOrder

(* One sceKernelSetEventFlag never gives a bit to two waiters who each     *)
(* take it for themselves.                                                 *)
THEOREM NoBitServesTwice == ESpec => BitsTakenOnce
<1> DEFINE Once ==
      \A id \in FlagIds : \A r, s \in FlagWaiters(threads, id) :
         /\ r # s
         /\ Takes(threads[r].need) /\ Takes(threads[s].need)
         /\ threads[r].need.bits \cap threads[s].need.bits # {}
         => ~(Served(r) /\ Served(s))
<1>1. EInv /\ [ENext]_evars => Once
  BY StepTakesOnce
<1> HIDE DEF Once
<1>2. ESpec => [][Once]_evars
  BY <1>1, SpecFlags, PTL DEF ESpec
<1> QED
  BY <1>2 DEF BitsTakenOnce, Once

=============================================================================
