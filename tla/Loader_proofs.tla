----------------------------- MODULE Loader_proofs -----------------------------
(***************************************************************************)
(* Proofs about Loader, for any memory, any table of system calls and any  *)
(* files that satisfy SoundFiles.  Segments, relocation entries, exports   *)
(* and stubs are handled one after the other: what a fold over them does   *)
(* is found by following the chain of its intermediate values, and each    *)
(* stage of a load is described by what it leaves in place (PutTo, Moved,  *)
(* ImportsLinked, Settled) before the invariant LInv puts them together.   *)
(***************************************************************************)
EXTENDS Loader, TLAPS, FiniteSetTheorems, WellFoundedInduction

-----------------------------------------------------------------------------
(* Counting and folding *)

LEMMA LeastNumber ==
  ASSUME NEW S \in SUBSET Nat, S # {}
  PROVE  \E x \in S : \A y \in S : x <= y
<1>1. PICK x \in S : \A y \in S : ~ (<<y, x>> \in OpToRel(<, Nat))
  BY NatLessThanWellFounded, WFMin
<1>2. OpToRel(<, Nat) = {p \in Nat \X Nat : p[1] < p[2]}
  BY DEF OpToRel
<1>3. \A y \in S : ~ (y < x)
  BY <1>1, <1>2
<1> QED
  BY <1>3

(* What holds at zero and passes from each number to the next. *)
LEMMA CountUp ==
  ASSUME NEW N \in Nat, NEW S, 0 \in S, \A n \in 0 .. N - 1 : n \in S => n + 1 \in S
  PROVE  \A n \in 0 .. N : n \in S
<1> DEFINE Bad == {n \in 0 .. N : n \notin S}
<1>1. CASE Bad = {}
  BY <1>1
<1>2. CASE Bad # {}
  <2>1. Bad \in SUBSET Nat
    OBVIOUS
  <2>2. PICK m \in Bad : \A n \in Bad : m <= n
    BY <1>2, <2>1, LeastNumber
  <2>3. m \in 0 .. N /\ m \notin S /\ m # 0
    BY <2>2
  <2>4. m - 1 \in 0 .. N - 1 /\ ~ (m <= m - 1)
    BY <2>3
  <2>5. m - 1 \in 0 .. N /\ m - 1 \notin Bad
    BY <2>2, <2>4
  <2>6. m - 1 \in S /\ (m - 1) + 1 = m
    BY <2>3, <2>5
  <2> QED
    BY <2>3, <2>4, <2>6
<1> QED
  BY <1>1, <1>2

LEMMA MaxOf ==
  ASSUME NEW N \in Nat, NEW s \in SUBSET (1 .. N), s # {}
  PROVE  Max(s) \in s
<1> DEFINE T == {N - x : x \in s}
<1>0. \A x \in s : N - x \in Nat
  OBVIOUS
<1>1. T \in SUBSET Nat /\ T # {}
  BY <1>0
<1>2. PICK t \in T : \A u \in T : t <= u
  BY <1>1, LeastNumber
<1>3. PICK x \in s : t = N - x
  BY <1>2
<1>4. \A y \in s : N - x <= N - y
  BY <1>2, <1>3
<1>5. \A y \in s : x >= y
  BY <1>4
<1> QED
  BY <1>5 DEF Max

LEMMA MaxOfRange ==
  ASSUME NEW n \in Nat \ {0}
  PROVE  Max(1 .. n) = n
<1>1. n \in 1 .. n /\ \A y \in 1 .. n : n >= y
  OBVIOUS
<1>2. \A x \in 1 .. n : (\A y \in 1 .. n : x >= y) => x = n
  BY <1>1
<1> QED
  BY <1>1, <1>2 DEF Max

(* One step of a fold over the subsets of 1 .. N. *)
FoldsAt(g, k, step, s) ==
  g[s] = IF s = {} THEN k ELSE step[Max(s)][g[s \ {Max(s)}]]

FoldsUpTo(g, N, R, k, step, n) ==
  /\ g \in [SUBSET (1 .. N) -> R]
  /\ \A s \in SUBSET (1 .. N) : Cardinality(s) <= n => FoldsAt(g, k, step, s)

LEMMA SmallerSet ==
  ASSUME NEW N \in Nat, NEW s \in SUBSET (1 .. N), NEW x \in s
  PROVE  /\ s \ {x} \in SUBSET (1 .. N)
         /\ Cardinality(s) \in Nat /\ Cardinality(s \ {x}) \in Nat
         /\ Cardinality(s \ {x}) = Cardinality(s) - 1
<1>1. IsFiniteSet(1 .. N)
  BY FS_Interval
<1>2. IsFiniteSet(s)
  BY <1>1, FS_Subset
<1> QED
  BY <1>2, FS_RemoveElement, FS_CardinalityType

LEMMA FoldsUpToExists ==
  ASSUME NEW N \in Nat, NEW R, NEW k \in R, NEW step \in [1 .. N -> [R -> R]], NEW M \in Nat
  PROVE  \E g : FoldsUpTo(g, N, R, k, step, M)
<1> DEFINE S == {n \in Nat : \E g : FoldsUpTo(g, N, R, k, step, n)}
<1>1. 0 \in S
  <2> DEFINE z == [s \in SUBSET (1 .. N) |-> k]
  <2>1. ASSUME NEW s \in SUBSET (1 .. N), Cardinality(s) <= 0
        PROVE  FoldsAt(z, k, step, s)
    <3>1. IsFiniteSet(1 .. N)
      BY FS_Interval
    <3>2. IsFiniteSet(s) /\ Cardinality(s) \in Nat
      BY <3>1, FS_Subset, FS_CardinalityType
    <3>3. s = {}
      BY <2>1, <3>2, FS_EmptySet
    <3> QED
      BY <3>3 DEF FoldsAt
  <2>2. FoldsUpTo(z, N, R, k, step, 0)
    BY <2>1 DEF FoldsUpTo
  <2> QED
    BY <2>2
<1>2. ASSUME NEW n \in 0 .. M - 1, n \in S PROVE n + 1 \in S
  <2>1. PICK g : FoldsUpTo(g, N, R, k, step, n)
    BY <1>2
  <2> DEFINE h == [s \in SUBSET (1 .. N) |->
                     IF s = {} THEN k ELSE step[Max(s)][g[s \ {Max(s)}]]]
  <2>2. ASSUME NEW s \in SUBSET (1 .. N), s # {}
        PROVE  /\ Max(s) \in s /\ Max(s) \in 1 .. N /\ s \ {Max(s)} \in SUBSET (1 .. N)
               /\ step[Max(s)][g[s \ {Max(s)}]] \in R
    <3>1. Max(s) \in s
      BY <2>2, MaxOf
    <3>2. g[s \ {Max(s)}] \in R
      BY <2>1 DEF FoldsUpTo
    <3> QED
      BY <3>1, <3>2
  <2>3. h \in [SUBSET (1 .. N) -> R]
    BY <2>2
  <2>4. \A s \in SUBSET (1 .. N) :
          h[s] = IF s = {} THEN k ELSE step[Max(s)][g[s \ {Max(s)}]]
    OBVIOUS
  <2> HIDE DEF h
  <2>5. ASSUME NEW s \in SUBSET (1 .. N), Cardinality(s) <= n + 1
        PROVE  FoldsAt(h, k, step, s)
    <3>1. CASE s = {}
      BY <2>4, <3>1 DEF FoldsAt
    <3>2. CASE s # {}
      <4>1. PICK c \in s : c = Max(s)
        BY <2>2, <3>2
      <4>2. /\ s \ {c} \in SUBSET (1 .. N)
            /\ Cardinality(s \ {c}) \in Nat /\ Cardinality(s) \in Nat
            /\ Cardinality(s \ {c}) = Cardinality(s) - 1
        BY SmallerSet
      <4>3. Cardinality(s \ {c}) <= n
        BY <2>5, <4>2
      <4>4. FoldsAt(g, k, step, s \ {c})
        BY <2>1, <4>2, <4>3 DEF FoldsUpTo
      <4>5. h[s \ {c}] = g[s \ {c}]
        BY <2>4, <4>2, <4>4 DEF FoldsAt
      <4> QED
        BY <2>4, <3>2, <4>1, <4>5 DEF FoldsAt
    <3> QED
      BY <3>1, <3>2
  <2>6. FoldsUpTo(h, N, R, k, step, n + 1)
    BY <2>3, <2>5 DEF FoldsUpTo
  <2>7. n + 1 \in Nat
    OBVIOUS
  <2> QED
    BY <2>6, <2>7
<1> HIDE DEF S
<1>3. \A n \in 0 .. M : n \in S
  BY <1>1, <1>2, CountUp
<1>4. M \in S
  BY <1>3
<1> QED
  BY <1>4 DEF S

(* A fold whose step keeps a type has a value. *)
LEMMA FoldExists ==
  ASSUME NEW N \in Nat, NEW R, NEW k \in R, NEW step \in [1 .. N -> [R -> R]]
  PROVE  \E g \in [SUBSET (1 .. N) -> R] :
           \A s \in SUBSET (1 .. N) : FoldsAt(g, k, step, s)
<1>1. IsFiniteSet(1 .. N) /\ Cardinality(1 .. N) \in Nat
  BY FS_Interval, FS_CardinalityType
<1>2. PICK g : FoldsUpTo(g, N, R, k, step, Cardinality(1 .. N))
  BY <1>1, FoldsUpToExists
<1>3. ASSUME NEW s \in SUBSET (1 .. N) PROVE FoldsAt(g, k, step, s)
  <2>1. Cardinality(s) <= Cardinality(1 .. N)
    BY <1>1, FS_Subset
  <2> QED
    BY <1>2, <2>1 DEF FoldsUpTo
<1> QED
  BY <1>2, <1>3 DEF FoldsUpTo

(* It is the last link of a chain of one link for each number. *)
IsChain(h, N, R, k, step, last) ==
  /\ h \in [0 .. N -> R] /\ h[0] = k /\ h[N] = last
  /\ \A n \in 1 .. N : h[n] = step[n][h[n - 1]]

Unfolds(G, N, R, k, step) ==
  /\ G[{}] = k
  /\ \A s \in SUBSET (1 .. N) : s # {} /\ G[s \ {Max(s)}] \in R =>
       G[s] = step[Max(s)][G[s \ {Max(s)}]]

LEMMA FoldChain ==
  ASSUME NEW N \in Nat, NEW R, NEW k \in R, NEW step \in [1 .. N -> [R -> R]],
         NEW G, Unfolds(G, N, R, k, step)
  PROVE  \E h : IsChain(h, N, R, k, step, G[1 .. N])
<1> DEFINE h == [n \in 0 .. N |-> G[1 .. n]]
           S == {n \in 0 .. N : G[1 .. n] \in R}
<1>1. ASSUME NEW n \in 0 .. N - 1, G[1 .. n] \in R
      PROVE  G[1 .. (n + 1)] = step[n + 1][G[1 .. n]] /\ G[1 .. (n + 1)] \in R
  <2>1. /\ 1 .. (n + 1) \in SUBSET (1 .. N) /\ 1 .. (n + 1) # {}
        /\ (1 .. (n + 1)) \ {n + 1} = 1 .. n
    OBVIOUS
  <2>2. Max(1 .. (n + 1)) = n + 1
    BY MaxOfRange
  <2>3. G[1 .. (n + 1)] = step[n + 1][G[1 .. n]]
    BY <1>1, <2>1, <2>2 DEF Unfolds
  <2>4. n + 1 \in 1 .. N
    OBVIOUS
  <2> QED
    BY <1>1, <2>3, <2>4
<1>2. 1 .. 0 = {}
  OBVIOUS
<1>3. 0 \in S
  BY <1>2 DEF Unfolds
<1>4. \A n \in 0 .. N - 1 : n \in S => n + 1 \in S
  BY <1>1
<1>5. \A n \in 0 .. N : n \in S
  <2> HIDE DEF S
  <2> QED
    BY <1>3, <1>4, CountUp
<1>6. h \in [0 .. N -> R] /\ h[0] = k /\ h[N] = G[1 .. N]
  BY <1>2, <1>5 DEF Unfolds
<1>7. ASSUME NEW n \in 1 .. N PROVE h[n] = step[n][h[n - 1]]
  <2>1. n - 1 \in 0 .. N - 1 /\ (n - 1) + 1 = n /\ G[1 .. (n - 1)] \in R
    BY <1>5
  <2>2. G[1 .. n] = step[n][G[1 .. (n - 1)]]
    BY <2>1, <1>1
  <2> QED
    BY <2>1, <2>2
<1>8. IsChain(h, N, R, k, step, G[1 .. N])
  BY <1>6, <1>7 DEF IsChain
<1> QED
  BY <1>8

-----------------------------------------------------------------------------
(* What a load works on *)

HullFits(h)   == h[2] = 0 \/ (UserStart <= h[1] /\ h[2] <= UserEnd)
HullType      == {h \in Nat \X Nat : HullFits(h)}
FallbackTable == {q \in Seq(STRING) : Len(q) <= MaxFallbacks}
ExportType    == [start : Nat, stop : Nat, gp : Nat]
SegmentType   == [at : Nat, words : Seq(0 .. Word - 1), zeros : Int, exec : BOOLEAN]
Loads ==
  [mem : [Ram -> Nat], hull : HullType, fallbacks : FallbackTable,
   exported : ExportType, gp : Nat, status : Int]

(* Two states of a load that differ in memory, hull and status at most. *)
SameTables(k, x) == x.fallbacks = k.fallbacks /\ x.exported = k.exported /\ x.gp = k.gp

LEMMA Layout ==
  /\ Half \in Nat /\ Half > 0 /\ Word \in Nat /\ Word > 0
  /\ UserStart \in Nat /\ UserStart > 0 /\ UserEnd \in Nat /\ UserEnd <= Word
  /\ MaxFallbacks \in Nat
  /\ LoadBase \in Nat /\ UserStart <= LoadBase /\ FirstModule \in Nat /\ UserStart <= FirstModule
BY LayoutAssumption DEF Word

LEMMA FailedLoad ==
  ASSUME NEW k \in Loads, NEW status \in Int
  PROVE  /\ Failed(k, status) \in Loads
         /\ Failed(k, status).mem = k.mem /\ Failed(k, status).hull = k.hull
         /\ Failed(k, status).status = status
         /\ SameTables(k, Failed(k, status))
BY DEF Failed, Loads, SameTables

(* The cells of a segment hold its words, and zeros behind them. *)
Laid(m, seg, bias) ==
  \A a \in Span(seg, bias) :
    m[a] = IF a < bias + seg.at + Len(seg.words) THEN seg.words[a - (bias + seg.at) + 1] ELSE 0

Covers(h, seg, bias) ==
  h[2] # 0 /\ h[1] <= bias + seg.at /\ bias + seg.at + Len(seg.words) + seg.zeros <= h[2]

Grown(h, g) == h[2] <= g[2] /\ (h[2] # 0 => g[2] # 0 /\ g[1] <= h[1])

LEMMA ElementOf ==
  ASSUME NEW S, NEW q \in Seq(S), NEW i \in 1 .. Len(q)
  PROVE  q[i] \in S
OBVIOUS

(* x is k with words and zeros put to an address. *)
PutTo(k, to, words, zeros, x) ==
  /\ x \in Loads /\ SameTables(k, x) /\ x.status = k.status
  /\ \A a \in Ram : x.mem[a] =
       IF a < to \/ a >= to + Len(words) + zeros THEN k.mem[a]
       ELSE IF a < to + Len(words) THEN words[a - to + 1] ELSE 0
  /\ x.hull[2] # 0 /\ x.hull[1] <= to /\ to + Len(words) + zeros <= x.hull[2]
  /\ Grown(k.hull, x.hull)

LEMMA PutEffect ==
  ASSUME NEW k \in Loads, NEW to \in Nat, NEW words \in Seq(0 .. Word - 1), NEW zeros \in Nat,
         UserStart <= to, to + Len(words) + zeros <= UserEnd
  PROVE  PutTo(k, to, words, zeros, Put(k, to, words, zeros))
<1> DEFINE M == [a \in Ram |->
               IF a < to \/ a >= to + Len(words) + zeros THEN k.mem[a]
               ELSE IF a < to + Len(words) THEN words[a - to + 1] ELSE 0]
           H == <<IF k.hull[2] = 0 THEN to ELSE Lesser(k.hull[1], to),
                  Greater(k.hull[2], to + Len(words) + zeros)>>
<1>1. PICK x : x = Put(k, to, words, zeros) /\ x = [k EXCEPT !.mem = M, !.hull = H]
  BY DEF Put
<1>2. Len(words) \in Nat /\ \A a \in Ram : a \in Int
  BY Layout DEF Ram
<1>3. ASSUME NEW a \in Ram PROVE M[a] \in Nat
  <2>1. CASE a < to \/ a >= to + Len(words) + zeros
    BY <2>1 DEF Loads
  <2>2. CASE ~(a < to \/ a >= to + Len(words) + zeros) /\ a < to + Len(words)
    <3>1. PICK i : i = a - to + 1 /\ i \in 1 .. Len(words)
      BY <1>2, <2>2
    <3>2. words[i] \in 0 .. Word - 1
      BY <3>1, ElementOf
    <3> QED
      BY <2>2, <3>1, <3>2
  <2>3. CASE ~(a < to \/ a >= to + Len(words) + zeros) /\ ~(a < to + Len(words))
    BY <2>3
  <2> QED
    BY <2>1, <2>2, <2>3
<1>4. M \in [Ram -> Nat]
  BY <1>3
<1>5. k.hull \in Nat \X Nat /\ HullFits(k.hull)
  BY DEF Loads, HullType
<1>6. H \in Nat \X Nat
  BY <1>2, <1>5 DEF Lesser, Greater
<1>7. /\ UserStart <= H[1] /\ H[2] <= UserEnd /\ H[2] # 0
      /\ H[1] <= to /\ to + Len(words) + zeros <= H[2]
      /\ Grown(k.hull, H)
  BY <1>2, <1>5, Layout DEF Lesser, Greater, HullFits, Grown
<1>8. H \in HullType
  BY <1>6, <1>7 DEF HullType, HullFits
<1>9. \A a \in Ram : M[a] =
              IF a < to \/ a >= to + Len(words) + zeros THEN k.mem[a]
              ELSE IF a < to + Len(words) THEN words[a - to + 1] ELSE 0
  OBVIOUS
<1> HIDE DEF M, H
<1>10. /\ x \in Loads /\ SameTables(k, x) /\ x.status = k.status /\ x.mem = M /\ x.hull = H
  BY <1>1, <1>4, <1>8 DEF Loads, SameTables
<1> QED
  BY <1>1, <1>7, <1>9, <1>10 DEF PutTo

LEMMA PutSegmentEffect ==
  ASSUME NEW k \in Loads, NEW seg \in SegmentType, NEW bias \in Nat, k.status = 0,
         NEW x, x = PutSegment(k, seg, bias)
  PROVE  /\ x \in Loads /\ SameTables(k, x)
         /\ \A a \in Ram : a < bias + seg.at => x.mem[a] = k.mem[a]
         /\ Grown(k.hull, x.hull)
         /\ x.status = 0 =>
              /\ seg.zeros \in Nat /\ Span(seg, bias) \subseteq Ram
              /\ Laid(x.mem, seg, bias)
              /\ \A a \in Ram \ Span(seg, bias) : x.mem[a] = k.mem[a]
              /\ Covers(x.hull, seg, bias)
<1>1. /\ seg.at \in Nat /\ seg.words \in Seq(0 .. Word - 1) /\ seg.zeros \in Int
      /\ Len(seg.words) \in Nat
  BY DEF SegmentType
<1>2. PICK to \in Nat : to = seg.at + bias /\ to = bias + seg.at
  BY <1>1
<1>3. CASE seg.zeros < 0 \/ to < UserStart \/ to + Len(seg.words) + seg.zeros > UserEnd
  <2>1. \E s \in Int : s # 0 /\ x = Failed(k, s)
    BY <1>2, <1>3 DEF PutSegment
  <2>2. Grown(k.hull, k.hull)
    BY DEF Grown, Loads, HullType
  <2> QED
    BY <2>1, <2>2, FailedLoad
<1>4. CASE ~(seg.zeros < 0 \/ to < UserStart \/ to + Len(seg.words) + seg.zeros > UserEnd)
  <2>1. /\ seg.zeros \in Nat /\ UserStart <= to /\ to + Len(seg.words) + seg.zeros <= UserEnd
    BY <1>1, <1>4, Layout
  <2>2. x = Put(k, to, seg.words, seg.zeros)
    BY <1>2, <1>4 DEF PutSegment
  <2>3. /\ x \in Loads /\ SameTables(k, x) /\ x.status = k.status
        /\ \A a \in Ram : x.mem[a] =
             IF a < to \/ a >= to + Len(seg.words) + seg.zeros THEN k.mem[a]
             ELSE IF a < to + Len(seg.words) THEN seg.words[a - to + 1] ELSE 0
        /\ x.hull[2] # 0 /\ x.hull[1] <= to /\ to + Len(seg.words) + seg.zeros <= x.hull[2]
        /\ Grown(k.hull, x.hull)
    <3>1. PutTo(k, to, seg.words, seg.zeros, x)
      BY <1>1, <2>1, <2>2, PutEffect
    <3> QED
      BY <3>1 DEF PutTo
  <2>4. Span(seg, bias) = to .. to + Len(seg.words) + seg.zeros - 1
    BY <1>2 DEF Span
  <2>5. Span(seg, bias) \subseteq Ram
    BY <1>1, <2>1, <2>4, Layout DEF Ram
  <2>6. ASSUME NEW a \in Span(seg, bias)
        PROVE  x.mem[a] = IF a < bias + seg.at + Len(seg.words)
                          THEN seg.words[a - (bias + seg.at) + 1] ELSE 0
    <3>1. a \in Ram /\ ~(a < to \/ a >= to + Len(seg.words) + seg.zeros)
      BY <1>1, <2>1, <2>4, <2>5
    <3>2. x.mem[a] = IF a < to + Len(seg.words) THEN seg.words[a - to + 1] ELSE 0
      BY <2>3, <3>1
    <3> QED
      BY <1>2, <3>2
  <2>7. \A a \in Ram \ Span(seg, bias) : x.mem[a] = k.mem[a]
    BY <1>1, <2>1, <2>3, <2>4, Layout DEF Ram
  <2>8. \A a \in Ram : a < bias + seg.at => x.mem[a] = k.mem[a]
    BY <1>2, <2>3
  <2>9. Covers(x.hull, seg, bias)
    BY <1>2, <2>3 DEF Covers
  <2> QED
    BY <2>1, <2>3, <2>5, <2>6, <2>7, <2>8, <2>9 DEF Laid
<1> QED
  BY <1>3, <1>4

LEMMA ThenPutType ==
  ASSUME NEW k \in Loads, NEW seg \in SegmentType, NEW bias \in Nat
  PROVE  Then(k, LAMBDA y : PutSegment(y, seg, bias)) \in Loads
BY PutSegmentEffect DEF Then

LEMMA SegmentsChain ==
  ASSUME NEW k \in Loads, NEW f, f.segs \in Seq(SegmentType), NEW bias \in Nat
  PROVE  \E h \in [0 .. Len(f.segs) -> Loads] :
           /\ h[0] = k
           /\ \A n \in 1 .. Len(f.segs) :
                h[n] = IF h[n - 1].status = 0 THEN PutSegment(h[n - 1], f.segs[n], bias)
                       ELSE h[n - 1]
           /\ PutSegments(k, f, bias) = h[Len(f.segs)]
<1> DEFINE N == Len(f.segs)
           Op(x, n) == IF x.status = 0 THEN PutSegment(x, f.segs[n], bias) ELSE x
           step == [n \in 1 .. N |-> [x \in Loads |-> Op(x, n)]]
           Folds(g) == g = [s \in SUBSET (1 .. N) |->
                              IF s = {} THEN k ELSE Op(g[s \ {Max(s)}], Max(s))]
           G == CHOOSE g : Folds(g)
<1>1. N \in Nat /\ DOMAIN f.segs = 1 .. N /\ \A n \in 1 .. N : f.segs[n] \in SegmentType
  OBVIOUS
<1>2. ASSUME NEW n \in 1 .. N, NEW x \in Loads PROVE Op(x, n) \in Loads
  BY <1>1, PutSegmentEffect
<1>3. step \in [1 .. N -> [Loads -> Loads]]
  BY <1>2
<1>4. \A n \in 1 .. N, x \in Loads : step[n][x] = Op(x, n)
  OBVIOUS
<1>5. PutSegments(k, f, bias) = G[1 .. N]
  BY <1>1 DEF PutSegments, FoldLeft, MapThenFoldSet, Then
<1> HIDE DEF Op, step, N
<1>6. Folds(G)
  <2>1. PICK g \in [SUBSET (1 .. N) -> Loads] :
          \A s \in SUBSET (1 .. N) : FoldsAt(g, k, step, s)
    BY <1>1, <1>3, FoldExists
  <2>2. ASSUME NEW s \in SUBSET (1 .. N)
        PROVE  g[s] = IF s = {} THEN k ELSE Op(g[s \ {Max(s)}], Max(s))
    <3>1. CASE s = {}
      BY <2>1, <3>1 DEF FoldsAt
    <3>2. CASE s # {}
      <4>1. Max(s) \in 1 .. N /\ g[s \ {Max(s)}] \in Loads
        BY <1>1, <2>1, <3>2, MaxOf
      <4> QED
        BY <1>4, <2>1, <3>2, <4>1 DEF FoldsAt
    <3> QED
      BY <3>1, <3>2
  <2>3. Folds(g)
    BY <2>1, <2>2
  <2> QED
    BY <2>3
<1> HIDE DEF G
<1>7. G[{}] = k
  BY <1>6
<1>8. ASSUME NEW s \in SUBSET (1 .. N), s # {}, G[s \ {Max(s)}] \in Loads
      PROVE  G[s] = step[Max(s)][G[s \ {Max(s)}]]
  <2>1. Max(s) \in 1 .. N
    BY <1>1, <1>8, MaxOf
  <2>2. G[s] = Op(G[s \ {Max(s)}], Max(s))
    BY <1>6, <1>8
  <2> QED
    BY <1>4, <1>8, <2>1, <2>2
<1>9. Unfolds(G, N, Loads, k, step)
  BY <1>7, <1>8 DEF Unfolds
<1>10. PICK h : IsChain(h, N, Loads, k, step, G[1 .. N])
  BY <1>1, <1>3, <1>9, FoldChain
<1>11. ASSUME NEW n \in 1 .. N PROVE h[n] = Op(h[n - 1], n)
  <2>1. n - 1 \in 0 .. N
    BY <1>1
  <2> QED
    BY <1>4, <1>10, <2>1 DEF IsChain
<1> QED
  BY <1>5, <1>10, <1>11 DEF Op, N, IsChain

LEMMA SpanMoved ==
  ASSUME NEW seg \in SegmentType, NEW bias \in Nat, NEW a \in Int
  PROVE  a \in Span(seg, bias) <=> a - bias \in Span(seg, 0)
<1>1. seg.at \in Nat /\ Len(seg.words) \in Nat /\ seg.zeros \in Int
  BY DEF SegmentType
<1>2. PICK p \in Nat, l \in Nat, z \in Int :
        p = seg.at /\ l = Len(seg.words) /\ z = seg.zeros
  BY <1>1
<1>3. Span(seg, bias) = bias + p .. bias + p + l + z - 1 /\ Span(seg, 0) = 0 + p .. 0 + p + l + z - 1
  BY <1>2 DEF Span
<1> QED
  BY <1>3

LEMMA ApartMoved ==
  ASSUME NEW f, f.segs \in Seq(SegmentType), SegmentsApart(f), NEW bias \in Nat,
         NEW i \in DOMAIN f.segs, NEW j \in DOMAIN f.segs, i # j,
         NEW a \in Int, a \in Span(f.segs[i], bias)
  PROVE  a \notin Span(f.segs[j], bias)
<1>1. f.segs[i] \in SegmentType /\ f.segs[j] \in SegmentType
  BY ElementOf
<1>2. a - bias \in Span(f.segs[i], 0)
  BY <1>1, SpanMoved
<1>3. a - bias \notin Span(f.segs[j], 0)
  BY <1>2 DEF SegmentsApart
<1> QED
  BY <1>1, <1>3, SpanMoved

(* A segment is where it belongs. *)
InPlace(x, seg, bias) ==
  /\ seg.zeros \in Nat /\ Span(seg, bias) \subseteq Ram
  /\ Laid(x.mem, seg, bias) /\ Covers(x.hull, seg, bias)

LEMMA StillInPlace ==
  ASSUME NEW k \in Loads, NEW x \in Loads, NEW seg \in SegmentType, NEW bias \in Nat,
         InPlace(k, seg, bias), Grown(k.hull, x.hull),
         \A a \in Span(seg, bias) : x.mem[a] = k.mem[a]
  PROVE  InPlace(x, seg, bias)
<1>1. Laid(x.mem, seg, bias)
  BY DEF InPlace, Laid
<1>2. seg.at \in Nat /\ Len(seg.words) \in Nat /\ seg.zeros \in Int
  BY DEF SegmentType
<1>3. k.hull \in Nat \X Nat /\ x.hull \in Nat \X Nat
  BY DEF Loads, HullType
<1>4. Covers(x.hull, seg, bias)
  <2>1. PICK lo \in Nat, hi \in Int :
          lo = bias + seg.at /\ hi = bias + seg.at + Len(seg.words) + seg.zeros
    BY <1>2
  <2>2. k.hull[2] # 0 /\ k.hull[1] <= lo /\ hi <= k.hull[2]
    BY <2>1 DEF InPlace, Covers
  <2>3. x.hull[2] # 0 /\ x.hull[1] <= lo /\ hi <= x.hull[2]
    BY <1>3, <2>1, <2>2 DEF Grown
  <2> QED
    BY <2>1, <2>3 DEF Covers
<1> QED
  BY <1>1, <1>4 DEF InPlace

(* x is k with the segments of a file loaded, as far as nothing failed. *)
SegmentsPut(k, f, bias, n, x) ==
  /\ x \in Loads /\ SameTables(k, x)
  /\ \A a \in Ram : a < bias => x.mem[a] = k.mem[a]
  /\ Grown(k.hull, x.hull)
  /\ x.status = 0 => \A i \in 1 .. n : InPlace(x, f.segs[i], bias)

LEMMA OneSegmentMore ==
  ASSUME NEW k \in Loads, NEW f, f.segs \in Seq(SegmentType), SegmentsApart(f), NEW bias \in Nat,
         NEW n \in 0 .. Len(f.segs) - 1, NEW x, SegmentsPut(k, f, bias, n, x),
         NEW y, y = IF x.status = 0 THEN PutSegment(x, f.segs[n + 1], bias) ELSE x
  PROVE  SegmentsPut(k, f, bias, n + 1, y)
<1>1. CASE x.status # 0
  <2>1. y = x
    BY <1>1
  <2> QED
    BY <1>1, <2>1 DEF SegmentsPut
<1>2. CASE x.status = 0
  <2>1. /\ n + 1 \in 1 .. Len(f.segs) /\ n + 1 \in DOMAIN f.segs
        /\ x \in Loads /\ \A i \in 1 .. n : i \in DOMAIN f.segs /\ i # n + 1
    BY DEF SegmentsPut
  <2>2. PICK seg \in SegmentType : seg = f.segs[n + 1]
    BY <2>1, ElementOf
  <2>3. y = PutSegment(x, seg, bias)
    BY <1>2, <2>2
  <2>4. /\ y \in Loads /\ SameTables(x, y)
        /\ \A a \in Ram : a < bias + seg.at => y.mem[a] = x.mem[a]
        /\ Grown(x.hull, y.hull)
        /\ y.status = 0 =>
             /\ seg.zeros \in Nat /\ Span(seg, bias) \subseteq Ram
             /\ Laid(y.mem, seg, bias)
             /\ \A a \in Ram \ Span(seg, bias) : y.mem[a] = x.mem[a]
             /\ Covers(y.hull, seg, bias)
    BY <1>2, <2>1, <2>3, PutSegmentEffect
  <2>5. SameTables(k, y)
    BY <2>4 DEF SegmentsPut, SameTables
  <2>6. \A a \in Ram : a < bias => y.mem[a] = k.mem[a]
    <3>1. \A a \in Ram : a \in Nat
      BY Layout DEF Ram
    <3>2. seg.at \in Nat
      BY DEF SegmentType
    <3> QED
      BY <2>4, <3>1, <3>2 DEF SegmentsPut
  <2>9. Grown(k.hull, y.hull)
    <3>1. k.hull \in Nat \X Nat /\ x.hull \in Nat \X Nat /\ y.hull \in Nat \X Nat
      BY <2>1, <2>4 DEF Loads, HullType
    <3>2. Grown(k.hull, x.hull) /\ Grown(x.hull, y.hull)
      BY <2>4 DEF SegmentsPut
    <3> QED
      BY <3>1, <3>2 DEF Grown
  <2>7. ASSUME y.status = 0
        PROVE  \A i \in 1 .. n + 1 : InPlace(y, f.segs[i], bias)
    <3>2. InPlace(y, seg, bias)
      BY <2>4, <2>7 DEF InPlace
    <3>3. ASSUME NEW i \in 1 .. n PROVE InPlace(y, f.segs[i], bias)
      <4>1. PICK s \in SegmentType : s = f.segs[i]
        BY <2>1, ElementOf
      <4>2. InPlace(x, s, bias)
        BY <1>2, <4>1 DEF SegmentsPut
      <4>3. ASSUME NEW a \in Span(s, bias) PROVE y.mem[a] = x.mem[a]
        <5>1. a \in Ram /\ a \in Int
          BY <4>2 DEF InPlace, Ram
        <5>2. a \notin Span(seg, bias)
          BY <2>1, <2>2, <4>1, <5>1, ApartMoved
        <5> QED
          BY <2>4, <2>7, <5>1, <5>2
      <4>4. Grown(x.hull, y.hull)
        BY <2>4, <2>7
      <4>5. InPlace(y, s, bias)
        BY <2>1, <2>4, <4>2, <4>3, <4>4, StillInPlace
      <4> QED
        BY <4>1, <4>5
    <3>4. \A i \in 1 .. n + 1 : i \in 1 .. n \/ i = n + 1
      OBVIOUS
    <3> QED
      BY <2>2, <3>2, <3>3, <3>4
  <2> QED
    BY <2>4, <2>5, <2>6, <2>7, <2>9 DEF SegmentsPut
<1> QED
  BY <1>1, <1>2

LEMMA PutSegmentsEffect ==
  ASSUME NEW k \in Loads, NEW f, f.segs \in Seq(SegmentType), SegmentsApart(f), NEW bias \in Nat
  PROVE  SegmentsPut(k, f, bias, Len(f.segs), PutSegments(k, f, bias))
<1> DEFINE N == Len(f.segs)
<1>1. N \in Nat
  OBVIOUS
<1>2. PICK h \in [0 .. N -> Loads] :
        /\ h[0] = k
        /\ \A n \in 1 .. N :
             h[n] = IF h[n - 1].status = 0 THEN PutSegment(h[n - 1], f.segs[n], bias)
                    ELSE h[n - 1]
        /\ PutSegments(k, f, bias) = h[N]
  BY SegmentsChain
<1> DEFINE S == {n \in 0 .. N : SegmentsPut(k, f, bias, n, h[n])}
<1>3. 0 \in S
  <2>1. k.hull \in Nat \X Nat
    BY DEF Loads, HullType
  <2>2. Grown(k.hull, k.hull)
    BY <2>1 DEF Grown
  <2>3. SegmentsPut(k, f, bias, 0, k)
    BY <2>2 DEF SegmentsPut, SameTables
  <2> QED
    BY <1>1, <1>2, <2>3
<1>4. ASSUME NEW n \in 0 .. N - 1, n \in S PROVE n + 1 \in S
  <2>1. n + 1 \in 1 .. N /\ n + 1 \in 0 .. N /\ (n + 1) - 1 = n
    BY <1>1
  <2>2. h[n + 1] = IF h[n].status = 0 THEN PutSegment(h[n], f.segs[n + 1], bias) ELSE h[n]
    BY <1>2, <2>1
  <2>3. SegmentsPut(k, f, bias, n, h[n])
    BY <1>4
  <2>4. SegmentsPut(k, f, bias, n + 1, h[n + 1])
    BY <2>2, <2>3, OneSegmentMore
  <2> QED
    BY <2>1, <2>4
<1> HIDE DEF S
<1>5. \A n \in 0 .. N : n \in S
  BY <1>1, <1>3, <1>4, CountUp
<1>6. N \in S
  BY <1>1, <1>5
<1> QED
  BY <1>2, <1>6 DEF S

-----------------------------------------------------------------------------
(* Words and their halves *)

LEMMA DivMod ==
  ASSUME NEW a \in Int, NEW b \in Nat \ {0}
  PROVE  \E q \in Int, r \in 0 .. b - 1 : a = b * q + r /\ q = a \div b /\ r = a % b
OBVIOUS

LEMMA ModWithin ==
  ASSUME NEW a \in Nat, NEW b \in Nat \ {0}
  PROVE  a % b \in 0 .. b - 1 /\ a % b <= a
OBVIOUS

LEMMA HalfFacts ==
  /\ Half \in Nat \ {0} /\ Half > 1 /\ Half * Half = Word
  /\ Word \in Nat \ {0} /\ Jump \in Nat \ {0}
<1>1. Half \in Nat /\ Half > 1
  BY LayoutAssumption
<1>2. Half * Half >= 2 /\ Half * Half \in Nat
  BY <1>1
<1>3. PICK w \in Nat : w = Word /\ w >= 2 /\ w = Half * Half
  BY <1>2 DEF Word
<1>4. w \div 2 \in Nat /\ w \div 2 >= 1
  BY <1>3
<1> QED
  BY <1>1, <1>3, <1>4 DEF Jump

LEMMA LowIn ==
  ASSUME NEW w \in Int
  PROVE  /\ Low(w) \in 0 .. Half - 1 /\ Signed(w) \in Int
         /\ Signed(w) = Low(w) \/ Signed(w) = Low(w) - Half
<1>1. Low(w) \in 0 .. Half - 1
  BY HalfFacts, DivMod DEF Low
<1>2. Half \in Int
  BY HalfFacts
<1> QED
  BY <1>1, <1>2 DEF Signed

LEMMA WithLowType ==
  ASSUME NEW w \in Nat, NEW v \in Int
  PROVE  WithLow(w, v) \in Nat
<1>1. Low(w) \in 0 .. Half - 1 /\ Low(w) <= w
  BY HalfFacts, ModWithin DEF Low
<1>2. v % Half \in 0 .. Half - 1
  BY HalfFacts, DivMod
<1>3. PICK l \in Int, u \in Int : l = Low(w) /\ u = v % Half /\ 0 <= u /\ l <= w
  BY <1>1, <1>2
<1> QED
  BY <1>3 DEF WithLow

LEMMA HighOfType ==
  ASSUME NEW full \in Int
  PROVE  HighOf(full) \in 0 .. Half - 1
<1>1. full - Signed(full) \in Int
  BY LowIn
<1>2. PICK d \in Int : d = full - Signed(full)
  BY <1>1
<1>3. d \div Half \in Int
  BY HalfFacts, DivMod
<1>4. (d \div Half) % Half \in 0 .. Half - 1
  BY <1>3, HalfFacts, DivMod
<1> QED
  BY <1>2, <1>4 DEF HighOf

-----------------------------------------------------------------------------
(* The entries of a section *)

EntryType   == [seg : Nat, off : Nat, rel : Nat, type : Nat]
SectionType == [good : BOOLEAN, entries : Seq(EntryType)]

LEMMA SegmentAtType ==
  ASSUME NEW f, f.segs \in Seq(SegmentType), NEW bias \in Nat, NEW i
  PROVE  /\ SegmentAt(f, bias, i) \in Nat
         /\ i \in DOMAIN f.segs =>
              /\ SegmentAt(f, bias, i) = f.segs[i].at + bias
              /\ f.segs[i].at \in Nat
<1>1. ASSUME i \in DOMAIN f.segs PROVE f.segs[i].at \in Nat
  <2>1. f.segs[i] \in SegmentType
    BY <1>1, ElementOf
  <2> QED
    BY <2>1 DEF SegmentType
<1> QED
  BY <1>1 DEF SegmentAt

LEMMA TargetIs ==
  ASSUME NEW f, f.segs \in Seq(SegmentType), NEW bias \in Nat, NEW e \in EntryType,
         e.seg \in DOMAIN f.segs
  PROVE  /\ Target(f, bias, e) \in Nat /\ Target(f, 0, e) \in Nat
         /\ Target(f, bias, e) = Target(f, 0, e) + bias
<1>1. e.off \in Nat
  BY DEF EntryType
<1>2. /\ SegmentAt(f, bias, e.seg) = f.segs[e.seg].at + bias
      /\ SegmentAt(f, 0, e.seg) = f.segs[e.seg].at + 0 /\ f.segs[e.seg].at \in Nat
  BY SegmentAtType
<1>3. PICK p \in Nat, o \in Nat : p = f.segs[e.seg].at /\ o = e.off
  BY <1>1, <1>2
<1>4. Target(f, bias, e) = o + (p + bias) /\ Target(f, 0, e) = o + (p + 0)
  BY <1>2, <1>3 DEF Target
<1> QED
  BY <1>4

Reached(h, f, bias, es) ==
  {r \in DOMAIN es : es[r].seg \in DOMAIN f.segs /\ InHull([hull |-> h], Target(f, bias, es[r]))}
Before(m, h, f, bias, es) == [r \in Reached(h, f, bias, es) |-> m[Target(f, bias, es[r])]]
NewWord(m, h, f, bias, es, r) ==
  Moved(es, Before(m, h, f, bias, es), Reached(h, f, bias, es), r,
        SegmentAt(f, bias, es[r].rel))

LEMMA ReachedInRam ==
  ASSUME NEW f, f.segs \in Seq(SegmentType), NEW bias \in Nat, NEW es \in Seq(EntryType),
         NEW h \in HullType, NEW r \in Reached(h, f, bias, es)
  PROVE  /\ r \in 1 .. Len(es) /\ es[r] \in EntryType /\ es[r].seg \in DOMAIN f.segs
         /\ Target(f, bias, es[r]) \in Ram
<1>1. r \in 1 .. Len(es) /\ es[r].seg \in DOMAIN f.segs
  BY DEF Reached
<1>2. es[r] \in EntryType
  BY <1>1, ElementOf
<1>3. PICK a \in Nat : a = Target(f, bias, es[r])
  BY <1>1, <1>2, TargetIs
<1>4. h[1] <= a /\ a < h[2] /\ h \in Nat \X Nat /\ HullFits(h)
  BY <1>3 DEF Reached, InHull, HullType
<1>5. a \in Ram
  BY <1>4, Layout DEF HullFits, Ram
<1> QED
  BY <1>1, <1>2, <1>3, <1>5

Partners(es, valid, r) == {t \in r + 1 .. Len(es) : es[t].type \in {1, 6} /\ t \in valid}
PairWord(w, v, to) == WithLow(w, HighOf((Low(w) * Half + Signed(v) + to) % Word))

LEMMA MovedIs ==
  ASSUME NEW es, NEW op, NEW valid, NEW r, NEW to, NEW w, w = op[r],
         NEW x, x = Moved(es, op, valid, r, to)
  PROVE  /\ es[r].type \in {1, 6} => x = WithLow(w, w + to)
         /\ es[r].type \in {2, 3} => x = (w + to) % Word
         /\ es[r].type = 4 => x = (w - (w % Jump)) + ((w + to) % Jump)
         /\ es[r].type = 5 /\ Partners(es, valid, r) # {} =>
              x = PairWord(w, op[CHOOSE t \in Partners(es, valid, r) :
                                   \A u \in Partners(es, valid, r) : t <= u], to)
         /\ es[r].type = 5 /\ Partners(es, valid, r) = {} => x = w
         /\ es[r].type \notin {1, 2, 3, 4, 5, 6} => x = w
<1>1. CASE es[r].type \in {1, 6}
  <2>1. CASE es[r].type = 1
    <3>1. x = WithLow(w, w + to)
      BY <2>1 DEF Moved
    <3> QED
      BY <2>1, <3>1
  <2>2. CASE es[r].type = 6
    <3>1. x = WithLow(w, w + to)
      BY <2>2 DEF Moved
    <3> QED
      BY <2>2, <3>1
  <2> QED
    BY <1>1, <2>1, <2>2
<1>2. CASE es[r].type \in {2, 3}
  <2>1. CASE es[r].type = 2
    <3>1. x = (w + to) % Word
      BY <2>1 DEF Moved
    <3> QED
      BY <2>1, <3>1
  <2>2. CASE es[r].type = 3
    <3>1. x = (w + to) % Word
      BY <2>2 DEF Moved
    <3> QED
      BY <2>2, <3>1
  <2> QED
    BY <1>2, <2>1, <2>2
<1>3. CASE es[r].type = 4
  BY <1>3 DEF Moved
<1>4. CASE es[r].type = 5
  <2> DEFINE los == {t \in r + 1 .. Len(es) : es[t].type \in {1, 6} /\ t \in valid}
  <2>1. los = Partners(es, valid, r)
    BY DEF Partners
  <2>2. CASE los # {}
    <3>1. x = LET lo == CHOOSE t \in los : \A u \in los : t <= u
              IN  WithLow(w, HighOf((Low(w) * Half + Signed(op[lo]) + to) % Word))
      BY <1>4, <2>2 DEF Moved
    <3> HIDE DEF los
    <3> QED
      BY <1>4, <2>1, <2>2, <3>1 DEF PairWord
  <2>3. CASE los = {}
    <3>1. x = w
      BY <1>4, <2>3 DEF Moved
    <3> HIDE DEF los
    <3> QED
      BY <1>4, <2>1, <2>3, <3>1
  <2> QED
    BY <2>2, <2>3
<1>5. CASE es[r].type \notin {1, 2, 3, 4, 5, 6}
  BY <1>5 DEF Moved
<1> QED
  BY <1>1, <1>2, <1>3, <1>4, <1>5

LEMMA FirstPartner ==
  ASSUME NEW es \in Seq(EntryType), NEW valid \in SUBSET (1 .. Len(es)), NEW r \in valid,
         Partners(es, valid, r) # {}
  PROVE  (CHOOSE t \in Partners(es, valid, r) : \A u \in Partners(es, valid, r) : t <= u)
           \in Partners(es, valid, r)
<1> DEFINE los == Partners(es, valid, r)
<1>1. los \in SUBSET Nat
  BY DEF Partners
<1> HIDE DEF los
<1>2. \E t \in los : \A u \in los : t <= u
  <2>1. los # {}
    BY DEF los
  <2> QED
    BY <1>1, <2>1, LeastNumber
<1>3. (CHOOSE t \in los : \A u \in los : t <= u) \in los
  BY <1>2
<1> QED
  BY <1>3 DEF los

LEMMA MovedType ==
  ASSUME NEW es \in Seq(EntryType), NEW valid \in SUBSET (1 .. Len(es)),
         NEW op \in [valid -> Nat], NEW r \in valid, NEW to \in Nat
  PROVE  Moved(es, op, valid, r, to) \in Nat
<1>1. PICK w \in Nat : w = op[r]
  OBVIOUS
<1>2. WithLow(w, w + to) \in Nat
  <2>1. w + to \in Int
    OBVIOUS
  <2> QED
    BY <2>1, WithLowType
<1>3. (w + to) % Word \in Nat
  <2>1. w + to \in Nat
    OBVIOUS
  <2>2. (w + to) % Word \in 0 .. Word - 1
    BY <2>1, HalfFacts, ModWithin
  <2> QED
    BY <2>2, HalfFacts
<1>4. (w - (w % Jump)) + ((w + to) % Jump) \in Nat
  <2>1. PICK j \in Nat \ {0} : j = Jump
    BY HalfFacts
  <2>2. w + to \in Nat
    OBVIOUS
  <2>3. /\ w % j \in 0 .. j - 1 /\ w % j <= w
        /\ (w + to) % j \in 0 .. j - 1
    BY <2>2, ModWithin
  <2>4. PICK a \in Nat, b \in Nat : a = w % j /\ b = (w + to) % j /\ a <= w
    BY <2>3
  <2>5. (w - a) + b \in Nat
    BY <2>4
  <2> QED
    BY <2>1, <2>4, <2>5
<1>5. ASSUME Partners(es, valid, r) # {}
      PROVE  PairWord(w, op[CHOOSE t \in Partners(es, valid, r) :
                              \A u \in Partners(es, valid, r) : t <= u], to) \in Nat
  <2>1. PICK lo \in valid : lo = CHOOSE t \in Partners(es, valid, r) :
                                   \A u \in Partners(es, valid, r) : t <= u
    BY <1>5, FirstPartner DEF Partners
  <2>2. PICK v \in Int : v = op[lo]
    OBVIOUS
  <2>3. PICK l \in Int, s \in Int : l = Low(w) /\ s = Signed(v)
    <3>1. Low(w) \in Int
      BY LowIn
    <3>2. Signed(v) \in Int
      BY LowIn
    <3> QED
      BY <3>1, <3>2
  <2>4. l * Half + s + to \in Int
    BY <2>3, HalfFacts
  <2>5. (l * Half + s + to) % Word \in Int
    BY <2>4, HalfFacts, DivMod
  <2>6. HighOf((l * Half + s + to) % Word) \in Int
    BY <2>5, HighOfType
  <2>7. PairWord(w, v, to) \in Nat
    BY <2>3, <2>6, WithLowType DEF PairWord
  <2> QED
    BY <2>1, <2>2, <2>7
<1>6. PICK x : x = Moved(es, op, valid, r, to)
  OBVIOUS
<1>7. /\ es[r].type \in {1, 6} => x = WithLow(w, w + to)
      /\ es[r].type \in {2, 3} => x = (w + to) % Word
      /\ es[r].type = 4 => x = (w - (w % Jump)) + ((w + to) % Jump)
      /\ es[r].type = 5 /\ Partners(es, valid, r) # {} =>
           x = PairWord(w, op[CHOOSE t \in Partners(es, valid, r) :
                                \A u \in Partners(es, valid, r) : t <= u], to)
      /\ es[r].type = 5 /\ Partners(es, valid, r) = {} => x = w
      /\ es[r].type \notin {1, 2, 3, 4, 5, 6} => x = w
  BY <1>1, <1>6, MovedIs
<1> QED
  BY <1>1, <1>2, <1>3, <1>4, <1>5, <1>6, <1>7

LEMMA NewWordType ==
  ASSUME NEW f, f.segs \in Seq(SegmentType), NEW bias \in Nat, NEW es \in Seq(EntryType),
         NEW h \in HullType, NEW m \in [Ram -> Nat], NEW r \in Reached(h, f, bias, es)
  PROVE  NewWord(m, h, f, bias, es, r) \in Nat
<1>1. Reached(h, f, bias, es) \in SUBSET (1 .. Len(es))
  BY DEF Reached
<1>2. Before(m, h, f, bias, es) \in [Reached(h, f, bias, es) -> Nat]
  <2>1. \A t \in Reached(h, f, bias, es) : m[Target(f, bias, es[t])] \in Nat
    BY ReachedInRam
  <2> QED
    BY <2>1 DEF Before
<1>3. SegmentAt(f, bias, es[r].rel) \in Nat
  BY SegmentAtType
<1> QED
  BY <1>1, <1>2, <1>3, MovedType DEF NewWord

(* The words of a section are written one by one. *)
SectionSteps(g, k, f, bias, section) ==
  LET es == section.entries
  IN  /\ g \in [0 .. Len(es) -> [Ram -> Nat]] /\ g[0] = k.mem
      /\ \A n \in 1 .. Len(es) :
           g[n] = IF n \notin Reached(k.hull, f, bias, es) THEN g[n - 1]
                  ELSE [g[n - 1] EXCEPT ![Target(f, bias, es[n])] =
                          NewWord(k.mem, k.hull, f, bias, es, n)]
      /\ RelocateSection(k, f, bias, section) = [k EXCEPT !.mem = g[Len(es)]]

LEMMA SectionChain ==
  ASSUME NEW f, f.segs \in Seq(SegmentType), NEW bias \in Nat,
         NEW section \in SectionType, section.good, NEW k \in Loads
  PROVE  \E g : SectionSteps(g, k, f, bias, section)
<1> DEFINE es == section.entries
           N == Len(es)
           R == [Ram -> Nat]
           V == Reached(k.hull, f, bias, es)
           Op(m, r) == IF r \notin V THEN m
                       ELSE [m EXCEPT ![Target(f, bias, es[r])] =
                               NewWord(k.mem, k.hull, f, bias, es, r)]
           step == [n \in 1 .. N |-> [x \in R |-> Op(x, n)]]
           Folds(g) == g = [s \in SUBSET (1 .. N) |->
                              IF s = {} THEN k.mem ELSE Op(g[s \ {Max(s)}], Max(s))]
           G == CHOOSE g : Folds(g)
<1>1. es \in Seq(EntryType) /\ N \in Nat /\ DOMAIN es = 1 .. N
  BY DEF SectionType
<1>2. k.mem \in R /\ k.hull \in HullType
  BY DEF Loads
<1>3. ASSUME NEW n \in 1 .. N, NEW x \in R PROVE Op(x, n) \in R
  <2>1. CASE n \notin V
    BY <2>1
  <2>2. CASE n \in V
    <3>1. NewWord(k.mem, k.hull, f, bias, es, n) \in Nat
      BY <1>1, <1>2, <2>2, NewWordType
    <3> QED
      BY <2>2, <3>1
  <2> QED
    BY <2>1, <2>2
<1>4. step \in [1 .. N -> [R -> R]]
  BY <1>3
<1>5. \A n \in 1 .. N, x \in R : step[n][x] = Op(x, n)
  OBVIOUS
<1>6. RelocateSection(k, f, bias, section) = [k EXCEPT !.mem = G[1 .. N]]
  <2> DEFINE valid == {r \in DOMAIN es : es[r].seg \in DOMAIN f.segs
                                  /\ InHull(k, Target(f, bias, es[r]))}
             op == [r \in valid |-> k.mem[Target(f, bias, es[r])]]
             Apply(m, r) == IF r \notin valid THEN m
                     ELSE [m EXCEPT ![Target(f, bias, es[r])] =
                            Moved(es, op, valid, r, SegmentAt(f, bias, es[r].rel))]
             ids == [r \in DOMAIN es |-> r]
  <2>1. RelocateSection(k, f, bias, section) =
          [k EXCEPT !.mem = FoldLeft(Apply, k.mem, ids)]
    BY DEF RelocateSection
  <2>2. valid = V
    BY DEF Reached, InHull
  <2>3. op = Before(k.mem, k.hull, f, bias, es)
    BY <2>2 DEF Before
  <2>4. \A m, r : Apply(m, r) = Op(m, r)
    <3> HIDE DEF valid, op, V
    <3> QED
      BY <2>2, <2>3 DEF NewWord, V
  <2>5. DOMAIN ids = 1 .. N /\ \A s \in SUBSET (1 .. N) : s # {} => ids[Max(s)] = Max(s)
    <3>1. \A s \in SUBSET (1 .. N) : s # {} => Max(s) \in 1 .. N
      BY <1>1, MaxOf
    <3> QED
      BY <1>1, <3>1
  <2> HIDE DEF ids, Apply
  <2>6. FoldLeft(Apply, k.mem, ids) =
          (CHOOSE g : g = [s \in SUBSET (1 .. N) |->
             IF s = {} THEN k.mem ELSE Apply(g[s \ {Max(s)}], ids[Max(s)])])[1 .. N]
    BY <2>5 DEF FoldLeft, MapThenFoldSet
  <2>7. ASSUME NEW g
        PROVE  (g = [s \in SUBSET (1 .. N) |->
             IF s = {} THEN k.mem ELSE Apply(g[s \ {Max(s)}], ids[Max(s)])]) = Folds(g)
    <3> HIDE DEF Op
    <3>1. \A s \in SUBSET (1 .. N) :
            (IF s = {} THEN k.mem ELSE Apply(g[s \ {Max(s)}], ids[Max(s)])) =
            (IF s = {} THEN k.mem ELSE Op(g[s \ {Max(s)}], Max(s)))
      BY <2>4, <2>5
    <3>2. [s \in SUBSET (1 .. N) |->
             IF s = {} THEN k.mem ELSE Apply(g[s \ {Max(s)}], ids[Max(s)])] =
          [s \in SUBSET (1 .. N) |->
             IF s = {} THEN k.mem ELSE Op(g[s \ {Max(s)}], Max(s))]
      BY <3>1
    <3> QED
      BY <3>2
  <2>8. (CHOOSE g : g = [s \in SUBSET (1 .. N) |->
             IF s = {} THEN k.mem ELSE Apply(g[s \ {Max(s)}], ids[Max(s)])]) = G
    <3> HIDE DEF Folds
    <3> QED
      BY <2>7
  <2> QED
    BY <2>1, <2>6, <2>8
<1> HIDE DEF Op, step, R, V, es, N
<1>7. Folds(G)
  <2>1. PICK g \in [SUBSET (1 .. N) -> R] :
          \A s \in SUBSET (1 .. N) : FoldsAt(g, k.mem, step, s)
    BY <1>1, <1>2, <1>4, FoldExists
  <2>2. ASSUME NEW s \in SUBSET (1 .. N)
        PROVE  g[s] = IF s = {} THEN k.mem ELSE Op(g[s \ {Max(s)}], Max(s))
    <3>1. CASE s = {}
      BY <2>1, <3>1 DEF FoldsAt
    <3>2. CASE s # {}
      <4>1. Max(s) \in 1 .. N /\ g[s \ {Max(s)}] \in R
        BY <1>1, <2>1, <3>2, MaxOf
      <4> QED
        BY <1>5, <2>1, <3>2, <4>1 DEF FoldsAt
    <3> QED
      BY <3>1, <3>2
  <2>3. Folds(g)
    BY <2>1, <2>2
  <2> QED
    BY <2>3
<1> HIDE DEF G
<1>8. G[{}] = k.mem
  BY <1>7
<1>9. ASSUME NEW s \in SUBSET (1 .. N), s # {}, G[s \ {Max(s)}] \in R
      PROVE  G[s] = step[Max(s)][G[s \ {Max(s)}]]
  <2>1. Max(s) \in 1 .. N
    BY <1>1, <1>9, MaxOf
  <2>2. G[s] = Op(G[s \ {Max(s)}], Max(s))
    BY <1>7, <1>9
  <2> QED
    BY <1>5, <1>9, <2>1, <2>2
<1>10. Unfolds(G, N, R, k.mem, step)
  BY <1>8, <1>9 DEF Unfolds
<1>11. PICK h : IsChain(h, N, R, k.mem, step, G[1 .. N])
  BY <1>1, <1>2, <1>4, <1>10, FoldChain
<1>12. ASSUME NEW n \in 1 .. N PROVE h[n] = Op(h[n - 1], n)
  <2>1. n - 1 \in 0 .. N
    BY <1>1
  <2> QED
    BY <1>5, <1>11, <2>1 DEF IsChain
<1> QED
  BY <1>6, <1>11, <1>12 DEF Op, N, V, R, es, IsChain, SectionSteps

(* An entry of the section moves the word at a. *)
MovesAt(f, bias, es, a) ==
  \E r \in DOMAIN es : es[r].seg \in DOMAIN f.segs /\ Target(f, bias, es[r]) = a

OnceIn(f, es) ==
  \A r, t \in DOMAIN es :
    /\ es[r].seg \in DOMAIN f.segs /\ es[t].seg \in DOMAIN f.segs
    /\ Target(f, 0, es[r]) = Target(f, 0, es[t])
    => r = t

(* x is k with the words of a section moved. *)
SectionMoved(k, f, bias, section, x) ==
  /\ x \in Loads /\ SameTables(k, x) /\ x.hull = k.hull
  /\ \A a \in Ram : ~ MovesAt(f, bias, section.entries, a) => x.mem[a] = k.mem[a]
  /\ x.status = 0 =>
       \A r \in Reached(k.hull, f, bias, section.entries) :
         x.mem[Target(f, bias, section.entries[r])] =
           NewWord(k.mem, k.hull, f, bias, section.entries, r)

LEMMA RelocateSectionEffect ==
  ASSUME NEW f, f.segs \in Seq(SegmentType), NEW bias \in Nat, NEW section \in SectionType,
         OnceIn(f, section.entries), NEW k \in Loads
  PROVE  SectionMoved(k, f, bias, section, RelocateSection(k, f, bias, section))
<1>1. CASE ~ section.good
  <2>1. RelocateSection(k, f, bias, section) = Failed(k, -11)
    BY <1>1 DEF RelocateSection
  <2>2. PICK x : x = Failed(k, -11)
    OBVIOUS
  <2>3. x \in Loads /\ SameTables(k, x) /\ x.hull = k.hull /\ x.mem = k.mem /\ x.status # 0
    <3>1. -11 \in Int /\ -11 # 0
      OBVIOUS
    <3> QED
      BY <2>2, <3>1, FailedLoad
  <2> QED
    BY <2>1, <2>2, <2>3 DEF SectionMoved
<1>2. CASE section.good
  <2> DEFINE es == section.entries
             N == Len(es)
             V == Reached(k.hull, f, bias, es)
             T(n) == Target(f, bias, es[n])
  <2>1. es \in Seq(EntryType) /\ N \in Nat /\ DOMAIN es = 1 .. N
    BY DEF SectionType
  <2>2. PICK g \in [0 .. N -> [Ram -> Nat]] :
           /\ g[0] = k.mem
           /\ \A n \in 1 .. N :
                g[n] = IF n \notin V THEN g[n - 1]
                       ELSE [g[n - 1] EXCEPT ![T(n)] = NewWord(k.mem, k.hull, f, bias, es, n)]
           /\ RelocateSection(k, f, bias, section) = [k EXCEPT !.mem = g[N]]
    <3>1. PICK g : SectionSteps(g, k, f, bias, section)
      BY <1>2, SectionChain
    <3> QED
      BY <3>1 DEF SectionSteps
  <2>3. PICK x : x = RelocateSection(k, f, bias, section) /\ x = [k EXCEPT !.mem = g[N]]
    BY <2>2
  <2>4. g[N] \in [Ram -> Nat]
    BY <2>1, <2>2
  <2>5. x \in Loads /\ SameTables(k, x) /\ x.hull = k.hull /\ x.mem = g[N]
    BY <2>3, <2>4 DEF Loads, SameTables
  <2>6. k.hull \in HullType
    BY DEF Loads
  <2>7. ASSUME NEW r \in V
        PROVE  r \in 1 .. N /\ es[r] \in EntryType /\ es[r].seg \in DOMAIN f.segs /\ T(r) \in Ram
    BY <2>1, <2>6, ReachedInRam
  <2>8. ASSUME NEW r \in V, NEW t \in V, T(r) = T(t) PROVE r = t
    <3>1. es[r] \in EntryType /\ es[t] \in EntryType
          /\ es[r].seg \in DOMAIN f.segs /\ es[t].seg \in DOMAIN f.segs
          /\ r \in DOMAIN es /\ t \in DOMAIN es
      BY <2>1, <2>7
    <3>2. /\ T(r) = Target(f, 0, es[r]) + bias /\ Target(f, 0, es[r]) \in Nat
          /\ T(t) = Target(f, 0, es[t]) + bias /\ Target(f, 0, es[t]) \in Nat
      BY <3>1, TargetIs
    <3>3. Target(f, 0, es[r]) = Target(f, 0, es[t])
      <4>1. PICK p \in Nat, q \in Nat : p = Target(f, 0, es[r]) /\ q = Target(f, 0, es[t])
        BY <3>2
      <4>2. p + bias = q + bias
        BY <2>8, <3>2, <4>1
      <4> QED
        BY <4>1, <4>2
    <3> QED
      BY <3>1, <3>3 DEF OnceIn
  <2>9. ASSUME NEW a \in Ram, ~ MovesAt(f, bias, es, a) PROVE g[N][a] = k.mem[a]
    <3> DEFINE S == {n \in 0 .. N : g[n][a] = k.mem[a]}
    <3>1. 0 \in S
      BY <2>1, <2>2
    <3>2. ASSUME NEW n \in 0 .. N - 1, n \in S PROVE n + 1 \in S
      <4>1. n + 1 \in 1 .. N /\ (n + 1) - 1 = n /\ n + 1 \in 0 .. N /\ n \in 0 .. N
        BY <2>1
      <4>2. n + 1 \in V => T(n + 1) # a
        BY <2>1, <2>7, <2>9, <4>1 DEF MovesAt
      <4>3. g[n + 1] = IF n + 1 \notin V THEN g[n]
              ELSE [g[n] EXCEPT ![T(n + 1)] = NewWord(k.mem, k.hull, f, bias, es, n + 1)]
        BY <2>2, <4>1
      <4>4. g[n] \in [Ram -> Nat]
        BY <4>1
      <4>5. g[n + 1][a] = g[n][a]
        <5> HIDE DEF T, V, es
        <5> QED
          BY <4>2, <4>3, <4>4
      <4> QED
        BY <3>2, <4>1, <4>5
    <3> HIDE DEF S
    <3>3. \A n \in 0 .. N : n \in S
      BY <2>1, <3>1, <3>2, CountUp
    <3>4. N \in S
      BY <2>1, <3>3
    <3> QED
      BY <3>4 DEF S
  <2>10. ASSUME NEW r \in V PROVE g[N][T(r)] = NewWord(k.mem, k.hull, f, bias, es, r)
    <3> DEFINE S == {n \in 0 .. N : r <= n => g[n][T(r)] = NewWord(k.mem, k.hull, f, bias, es, r)}
    <3>0. r \in 1 .. N /\ T(r) \in Ram
      BY <2>7
    <3>1. 0 \in S
      BY <2>1, <3>0
    <3>2. ASSUME NEW n \in 0 .. N - 1, n \in S PROVE n + 1 \in S
      <4>1. n + 1 \in 1 .. N /\ (n + 1) - 1 = n /\ n + 1 \in 0 .. N /\ n \in 0 .. N
        BY <2>1
      <4>2. g[n + 1] = IF n + 1 \notin V THEN g[n]
              ELSE [g[n] EXCEPT ![T(n + 1)] = NewWord(k.mem, k.hull, f, bias, es, n + 1)]
        BY <2>2, <4>1
      <4>3. g[n] \in [Ram -> Nat]
        BY <4>1
      <4>4. CASE r = n + 1
        <5>1. g[n + 1] = [g[n] EXCEPT ![T(r)] = NewWord(k.mem, k.hull, f, bias, es, r)]
          BY <4>2, <4>4
        <5>2. g[n + 1][T(r)] = NewWord(k.mem, k.hull, f, bias, es, r)
          <6> HIDE DEF T, V, es
          <6> QED
            BY <3>0, <4>3, <5>1
        <5> QED
          BY <4>1, <5>2
      <4>5. CASE r # n + 1
        <5>1. n + 1 \in V => T(n + 1) # T(r)
          BY <2>8, <4>5
        <5>2. g[n + 1][T(r)] = g[n][T(r)]
          <6> HIDE DEF T, V, es
          <6> QED
            BY <3>0, <4>2, <4>3, <5>1
        <5>3. r <= n + 1 => r <= n
          BY <3>0, <4>1, <4>5
        <5> QED
          BY <3>2, <4>1, <5>2, <5>3
      <4> QED
        BY <4>4, <4>5
    <3> HIDE DEF S
    <3>3. \A n \in 0 .. N : n \in S
      BY <2>1, <3>1, <3>2, CountUp
    <3>4. N \in S
      BY <2>1, <3>3
    <3> QED
      BY <3>0, <3>4 DEF S
  <2> QED
    BY <2>3, <2>5, <2>9, <2>10 DEF SectionMoved
<1> QED
  BY <1>1, <1>2

LEMMA RelocateChain ==
  ASSUME NEW k \in Loads, NEW f, f.segs \in Seq(SegmentType), f.relocs \in Seq(SectionType),
         \A i \in DOMAIN f.relocs : OnceIn(f, f.relocs[i].entries), NEW bias \in Nat
  PROVE  \E h \in [0 .. Len(f.relocs) -> Loads] :
           /\ h[0] = k
           /\ \A n \in 1 .. Len(f.relocs) :
                h[n] = IF h[n - 1].status = 0 THEN RelocateSection(h[n - 1], f, bias, f.relocs[n])
                       ELSE h[n - 1]
           /\ Relocate(k, f, bias) = h[Len(f.relocs)]
<1> DEFINE N == Len(f.relocs)
           Op(x, n) == IF x.status = 0 THEN RelocateSection(x, f, bias, f.relocs[n]) ELSE x
           step == [n \in 1 .. N |-> [x \in Loads |-> Op(x, n)]]
           Folds(g) == g = [s \in SUBSET (1 .. N) |->
                              IF s = {} THEN k ELSE Op(g[s \ {Max(s)}], Max(s))]
           G == CHOOSE g : Folds(g)
<1>1. N \in Nat /\ DOMAIN f.relocs = 1 .. N /\ \A n \in 1 .. N : f.relocs[n] \in SectionType
  BY ElementOf
<1>2. ASSUME NEW n \in 1 .. N, NEW x \in Loads PROVE Op(x, n) \in Loads
  <2>1. SectionMoved(x, f, bias, f.relocs[n], RelocateSection(x, f, bias, f.relocs[n]))
    BY <1>1, RelocateSectionEffect
  <2> QED
    BY <2>1 DEF SectionMoved
<1>3. step \in [1 .. N -> [Loads -> Loads]]
  BY <1>2
<1>4. \A n \in 1 .. N, x \in Loads : step[n][x] = Op(x, n)
  OBVIOUS
<1>5. Relocate(k, f, bias) = G[1 .. N]
  BY <1>1 DEF Relocate, FoldLeft, MapThenFoldSet, Then
<1> HIDE DEF Op, step, N
<1>6. Folds(G)
  <2>1. PICK g \in [SUBSET (1 .. N) -> Loads] :
          \A s \in SUBSET (1 .. N) : FoldsAt(g, k, step, s)
    BY <1>1, <1>3, FoldExists
  <2>2. ASSUME NEW s \in SUBSET (1 .. N)
        PROVE  g[s] = IF s = {} THEN k ELSE Op(g[s \ {Max(s)}], Max(s))
    <3>1. CASE s = {}
      BY <2>1, <3>1 DEF FoldsAt
    <3>2. CASE s # {}
      <4>1. Max(s) \in 1 .. N /\ g[s \ {Max(s)}] \in Loads
        BY <1>1, <2>1, <3>2, MaxOf
      <4> QED
        BY <1>4, <2>1, <3>2, <4>1 DEF FoldsAt
    <3> QED
      BY <3>1, <3>2
  <2>3. Folds(g)
    BY <2>1, <2>2
  <2> QED
    BY <2>3
<1> HIDE DEF G
<1>7. G[{}] = k
  BY <1>6
<1>8. ASSUME NEW s \in SUBSET (1 .. N), s # {}, G[s \ {Max(s)}] \in Loads
      PROVE  G[s] = step[Max(s)][G[s \ {Max(s)}]]
  <2>1. Max(s) \in 1 .. N
    BY <1>1, <1>8, MaxOf
  <2>2. G[s] = Op(G[s \ {Max(s)}], Max(s))
    BY <1>6, <1>8
  <2> QED
    BY <1>4, <1>8, <2>1, <2>2
<1>9. Unfolds(G, N, Loads, k, step)
  BY <1>7, <1>8 DEF Unfolds
<1>10. PICK h : IsChain(h, N, Loads, k, step, G[1 .. N])
  BY <1>1, <1>3, <1>9, FoldChain
<1>11. ASSUME NEW n \in 1 .. N PROVE h[n] = Op(h[n - 1], n)
  <2>1. n - 1 \in 0 .. N
    BY <1>1
  <2> QED
    BY <1>4, <1>10, <2>1 DEF IsChain
<1> QED
  BY <1>5, <1>10, <1>11 DEF Op, N, IsChain

(* A file as far as segments and relocations go. *)
Movable(f) ==
  /\ f.segs \in Seq(SegmentType) /\ f.relocs \in Seq(SectionType)
  /\ SegmentsApart(f) /\ RelocatedOnce(f)

LEMMA SectionEntry ==
  ASSUME NEW f, Movable(f), NEW i \in DOMAIN f.relocs, NEW r \in DOMAIN f.relocs[i].entries
  PROVE  /\ f.relocs[i] \in SectionType /\ f.relocs[i].entries \in Seq(EntryType)
         /\ f.relocs[i].entries[r] \in EntryType
         /\ i \in 1 .. Len(f.relocs) /\ r \in 1 .. Len(f.relocs[i].entries)
<1>1. i \in 1 .. Len(f.relocs) /\ f.relocs[i] \in SectionType
  BY ElementOf DEF Movable
<1>2. f.relocs[i].entries \in Seq(EntryType)
  BY <1>1 DEF SectionType
<1>3. r \in 1 .. Len(f.relocs[i].entries)
  BY <1>2
<1> QED
  BY <1>1, <1>2, <1>3, ElementOf

(* No two entries of a file move the same word. *)
LEMMA MovedOnce ==
  ASSUME NEW f, Movable(f), NEW bias \in Nat,
         NEW i \in DOMAIN f.relocs, NEW r \in DOMAIN f.relocs[i].entries,
         NEW j \in DOMAIN f.relocs, NEW t \in DOMAIN f.relocs[j].entries,
         f.relocs[i].entries[r].seg \in DOMAIN f.segs,
         f.relocs[j].entries[t].seg \in DOMAIN f.segs,
         Target(f, bias, f.relocs[i].entries[r]) = Target(f, bias, f.relocs[j].entries[t])
  PROVE  i = j /\ r = t
<1>1. PICK d \in EntryType, e \in EntryType :
        d = f.relocs[i].entries[r] /\ e = f.relocs[j].entries[t]
  BY SectionEntry
<1>2. f.segs \in Seq(SegmentType)
  BY DEF Movable
<1>3. /\ Target(f, bias, d) = Target(f, 0, d) + bias /\ Target(f, 0, d) \in Nat
      /\ Target(f, bias, e) = Target(f, 0, e) + bias /\ Target(f, 0, e) \in Nat
  <2>1. d.seg \in DOMAIN f.segs /\ e.seg \in DOMAIN f.segs
    BY <1>1
  <2>2. Target(f, bias, d) = Target(f, 0, d) + bias /\ Target(f, 0, d) \in Nat
    BY <1>2, <2>1, TargetIs
  <2>3. Target(f, bias, e) = Target(f, 0, e) + bias /\ Target(f, 0, e) \in Nat
    BY <1>2, <2>1, TargetIs
  <2> QED
    BY <2>2, <2>3
<1>4. PICK p \in Nat, q \in Nat : p = Target(f, 0, d) /\ q = Target(f, 0, e)
  BY <1>3
<1>5. p + bias = q + bias
  BY <1>1, <1>3, <1>4
<1>6. Target(f, 0, d) = Target(f, 0, e)
  BY <1>4, <1>5
<1> QED
  BY <1>1, <1>6 DEF Movable, RelocatedOnce

(* x is k with the words of the first n sections moved. *)
RelocatedTo(k, f, bias, n, x) ==
  /\ x \in Loads /\ SameTables(k, x) /\ x.hull = k.hull
  /\ \A a \in Ram :
       (\A i \in 1 .. n : ~ MovesAt(f, bias, f.relocs[i].entries, a)) => x.mem[a] = k.mem[a]
  /\ x.status = 0 =>
       \A i \in 1 .. n : \A r \in Reached(k.hull, f, bias, f.relocs[i].entries) :
         x.mem[Target(f, bias, f.relocs[i].entries[r])] =
           NewWord(k.mem, k.hull, f, bias, f.relocs[i].entries, r)

LEMMA OneSectionMore ==
  ASSUME NEW f, Movable(f), NEW bias \in Nat, NEW k \in Loads,
         NEW n \in 0 .. Len(f.relocs) - 1, NEW x, RelocatedTo(k, f, bias, n, x),
         NEW y, y = IF x.status = 0 THEN RelocateSection(x, f, bias, f.relocs[n + 1]) ELSE x
  PROVE  RelocatedTo(k, f, bias, n + 1, y)
<1>0. n + 1 \in DOMAIN f.relocs /\ \A i \in 1 .. n : i \in DOMAIN f.relocs /\ i # n + 1
  BY DEF Movable
<1>1. \A i \in 1 .. n + 1 : i \in 1 .. n \/ i = n + 1
  OBVIOUS
<1>2. \A i \in 1 .. n : i \in 1 .. n + 1
  OBVIOUS
<1>3. CASE x.status # 0
  <2>1. y = x
    BY <1>3
  <2> QED
    BY <1>2, <1>3, <2>1 DEF RelocatedTo
<1>4. CASE x.status = 0
  <2>1. PICK section \in SectionType : section = f.relocs[n + 1]
    BY <1>0, ElementOf DEF Movable
  <2> DEFINE es == section.entries
             V(i) == Reached(k.hull, f, bias, f.relocs[i].entries)
  <2>2. OnceIn(f, es)
    BY <1>0, <2>1 DEF OnceIn, Movable, RelocatedOnce
  <2>3. x \in Loads /\ x.hull = k.hull /\ k.hull \in HullType /\ f.segs \in Seq(SegmentType)
    BY DEF RelocatedTo, Loads, Movable
  <2>4. SectionMoved(x, f, bias, section, y)
    BY <1>4, <2>1, <2>2, <2>3, RelocateSectionEffect
  <2>5. y \in Loads /\ SameTables(k, y) /\ y.hull = k.hull
    BY <2>4 DEF RelocatedTo, SectionMoved, SameTables
  <2>6. ASSUME NEW a \in Ram, \A i \in 1 .. n + 1 : ~ MovesAt(f, bias, f.relocs[i].entries, a)
        PROVE  y.mem[a] = k.mem[a]
    <3>1. x.mem[a] = k.mem[a]
      BY <1>2, <2>6 DEF RelocatedTo
    <3>2. n + 1 \in 1 .. n + 1
      OBVIOUS
    <3>3. ~ MovesAt(f, bias, es, a)
      BY <2>1, <2>6, <3>2
    <3> QED
      BY <2>4, <3>1, <3>3 DEF SectionMoved
  <2>7. ASSUME y.status = 0, NEW i \in 1 .. n + 1, NEW r \in V(i)
        PROVE  y.mem[Target(f, bias, f.relocs[i].entries[r])] =
                 NewWord(k.mem, k.hull, f, bias, f.relocs[i].entries, r)
    <3>1. i \in DOMAIN f.relocs
      BY <1>0, <1>1
    <3>2. f.relocs[i].entries \in Seq(EntryType)
      <4>1. f.relocs[i] \in SectionType
        BY <3>1, ElementOf DEF Movable
      <4> QED
        BY <4>1 DEF SectionType
    <3>3. PICK a \in Ram : /\ a = Target(f, bias, f.relocs[i].entries[r])
                           /\ r \in DOMAIN f.relocs[i].entries
                           /\ f.relocs[i].entries[r].seg \in DOMAIN f.segs
      BY <2>3, <3>2, ReachedInRam
    <3>4. CASE i \in 1 .. n
      <4>1. ~ MovesAt(f, bias, es, a)
        <5>1. SUFFICES ASSUME NEW t \in DOMAIN es, es[t].seg \in DOMAIN f.segs,
                              Target(f, bias, es[t]) = a
                       PROVE  FALSE
          BY DEF MovesAt
        <5>2. i = n + 1
          BY <1>0, <2>1, <3>1, <3>3, <5>1, MovedOnce
        <5> QED
          BY <3>4, <5>2
      <4>2. y.mem[a] = x.mem[a]
        BY <2>4, <4>1 DEF SectionMoved
      <4> QED
        BY <1>4, <3>3, <3>4, <4>2 DEF RelocatedTo
    <3>5. CASE i = n + 1
      <4>1. /\ r \in Reached(x.hull, f, bias, es)
            /\ y.mem[a] = NewWord(x.mem, x.hull, f, bias, es, r)
        BY <2>1, <2>3, <2>4, <2>7, <3>3, <3>5 DEF SectionMoved
      <4>2. ASSUME NEW t \in Reached(k.hull, f, bias, es)
            PROVE  x.mem[Target(f, bias, es[t])] = k.mem[Target(f, bias, es[t])]
        <5>1. PICK b \in Ram : b = Target(f, bias, es[t]) /\ t \in DOMAIN es
                               /\ es[t].seg \in DOMAIN f.segs
          BY <2>1, <2>3, <3>2, <3>5, ReachedInRam
        <5>2. ASSUME NEW j \in 1 .. n PROVE ~ MovesAt(f, bias, f.relocs[j].entries, b)
          <6>1. SUFFICES ASSUME NEW u \in DOMAIN f.relocs[j].entries,
                                f.relocs[j].entries[u].seg \in DOMAIN f.segs,
                                Target(f, bias, f.relocs[j].entries[u]) = b
                         PROVE  FALSE
            BY DEF MovesAt
          <6>2. j = n + 1
            BY <1>0, <2>1, <5>1, <6>1, MovedOnce
          <6> QED
            BY <6>2
        <5> QED
          BY <5>1, <5>2 DEF RelocatedTo
      <4>3. Before(x.mem, x.hull, f, bias, es) = Before(k.mem, k.hull, f, bias, es)
        BY <2>3, <4>2 DEF Before
      <4>4. NewWord(x.mem, x.hull, f, bias, es, r) = NewWord(k.mem, k.hull, f, bias, es, r)
        BY <2>3, <4>3 DEF NewWord
      <4> QED
        BY <2>1, <3>3, <3>5, <4>1, <4>4
    <3> QED
      BY <1>1, <3>4, <3>5
  <2> QED
    BY <2>5, <2>6, <2>7 DEF RelocatedTo
<1> QED
  BY <1>3, <1>4

LEMMA RelocateEffect ==
  ASSUME NEW k \in Loads, NEW f, Movable(f), NEW bias \in Nat
  PROVE  RelocatedTo(k, f, bias, Len(f.relocs), Relocate(k, f, bias))
<1> DEFINE N == Len(f.relocs)
<1>1. N \in Nat
  BY DEF Movable
<1>2. \A i \in DOMAIN f.relocs : OnceIn(f, f.relocs[i].entries)
  BY DEF OnceIn, Movable, RelocatedOnce
<1>3. PICK h \in [0 .. N -> Loads] :
        /\ h[0] = k
        /\ \A n \in 1 .. N :
             h[n] = IF h[n - 1].status = 0 THEN RelocateSection(h[n - 1], f, bias, f.relocs[n])
                    ELSE h[n - 1]
        /\ Relocate(k, f, bias) = h[N]
  BY <1>2, RelocateChain DEF Movable
<1> DEFINE S == {n \in 0 .. N : RelocatedTo(k, f, bias, n, h[n])}
<1>4. 0 \in S
  <2>1. RelocatedTo(k, f, bias, 0, k)
    BY DEF RelocatedTo, SameTables
  <2> QED
    BY <1>1, <1>3, <2>1
<1>5. ASSUME NEW n \in 0 .. N - 1, n \in S PROVE n + 1 \in S
  <2>1. n + 1 \in 1 .. N /\ n + 1 \in 0 .. N /\ (n + 1) - 1 = n
    BY <1>1
  <2>2. h[n + 1] = IF h[n].status = 0 THEN RelocateSection(h[n], f, bias, f.relocs[n + 1])
                   ELSE h[n]
    BY <1>3, <2>1
  <2>3. RelocatedTo(k, f, bias, n, h[n])
    BY <1>5
  <2>4. RelocatedTo(k, f, bias, n + 1, h[n + 1])
    BY <2>2, <2>3, OneSectionMore
  <2> QED
    BY <2>1, <2>4
<1> HIDE DEF S
<1>6. \A n \in 0 .. N : n \in S
  BY <1>1, <1>4, <1>5, CountUp
<1>7. N \in S
  BY <1>1, <1>6
<1> QED
  BY <1>3, <1>7 DEF S

Splits(a, b, q, r) == a = b * q + r

LEMMA Divides ==
  ASSUME NEW a \in Int, NEW b \in Nat \ {0}
  PROVE  \E q \in Int, r \in 0 .. b - 1 : Splits(a, b, q, r) /\ q = a \div b /\ r = a % b
BY DivMod DEF Splits

LEMMA DividesUnique ==
  ASSUME NEW b \in Nat \ {0}, NEW q \in Int, NEW r \in 0 .. b - 1, NEW a \in Int,
         Splits(a, b, q, r)
  PROVE  a \div b = q /\ a % b = r
BY DEF Splits

(* What remains does not change with a multiple. *)
LEMMA RestKept ==
  ASSUME NEW b \in Nat \ {0}, NEW a \in Int, NEW n \in Int, NEW c \in Int, Splits(c, b, n, a)
  PROVE  c % b = a % b
<1>1. PICK q \in Int, r \in 0 .. b - 1 : Splits(a, b, q, r) /\ r = a % b
  BY Divides
<1>2. b * (q + n) = b * q + b * n
  OBVIOUS
<1>3. PICK m \in Int : m = q + n
  OBVIOUS
<1>4. Splits(c, b, m, r)
  <2>1. PICK x \in Int, y \in Int : x = b * q /\ y = b * n
    OBVIOUS
  <2>2. a = x + r /\ c = y + a /\ b * m = x + y
    BY <1>1, <1>2, <1>3, <2>1 DEF Splits
  <2>3. c = b * m + r
    BY <2>1, <2>2
  <2> QED
    BY <2>3 DEF Splits
<1>5. c % b = r
  BY <1>4, DividesUnique
<1> QED
  BY <1>1, <1>5

LEMMA LowWithLow ==
  ASSUME NEW w \in Int, NEW x \in Int
  PROVE  Low(WithLow(w, x)) = x % Half
<1>1. PICK H \in Nat \ {0} : H = Half
  BY HalfFacts
<1>2. PICK q \in Int, r \in 0 .. H - 1 : w = H * q + r /\ r = Low(w)
  BY <1>1, DivMod DEF Low
<1>3. PICK u \in 0 .. H - 1 : u = x % H
  BY DivMod
<1>4. WithLow(w, x) = (w - r) + u
  BY <1>1, <1>2, <1>3 DEF WithLow
<1>5. (w - r) + u = H * q + u /\ (w - r) + u \in Int
  BY <1>2
<1>6. PICK x1 \in Int : x1 = (w - r) + u /\ Splits(x1, H, q, u)
  BY <1>5 DEF Splits
<1>7. x1 % H = u
  BY <1>6, DividesUnique
<1> QED
  BY <1>1, <1>3, <1>4, <1>6, <1>7 DEF Low

LEMMA SignedFromLow ==
  ASSUME NEW v, NEW w, Low(v) = Low(w)
  PROVE  Signed(v) = Signed(w)
BY DEF Signed

LEMMA SignedRest ==
  ASSUME NEW v \in Int
  PROVE  \E q \in Int : v - Signed(v) = Half * q
<1>1. PICK H \in Nat \ {0} : H = Half
  BY HalfFacts
<1>2. PICK q \in Int, r \in 0 .. H - 1 : v = H * q + r /\ r = Low(v)
  BY <1>1, DivMod DEF Low
<1>3. CASE Signed(v) = r
  <2>1. v - Signed(v) = H * q
    BY <1>2, <1>3
  <2> QED
    BY <1>1, <2>1
<1>4. CASE Signed(v) = r - H
  <2>1. H * (q + 1) = H * q + H
    OBVIOUS
  <2>2. PICK p \in Int : p = q + 1
    OBVIOUS
  <2>3. v - Signed(v) = H * p
    BY <1>2, <1>4, <2>1, <2>2
  <2> QED
    BY <1>1, <2>3
<1> QED
  BY <1>1, <1>2, <1>3, <1>4, LowIn

(* The halves of a moved pair compose the address that the pair composed,  *)
(* moved.                                                                  *)
LEMMA PairComposes ==
  ASSUME NEW w \in Nat, NEW v \in Nat, NEW to \in Nat
  PROVE  Composed(PairWord(w, v, to), WithLow(v, v + to)) = (Composed(w, v) + to) % Word
<1>1. PICK H \in Nat \ {0}, W \in Nat \ {0} : H = Half /\ W = Word /\ W = H * H
  BY HalfFacts
<1>2. PICK l \in Int, s \in Int : l = Low(w) /\ s = Signed(v)
  BY LowIn
<1>3. PICK a \in Int : a = l * H + s
  OBVIOUS
<1>4. PICK c \in Int, F \in 0 .. W - 1 : a + to = W * c + F /\ F = (a + to) % W
  <2>1. a + to \in Int
    OBVIOUS
  <2> QED
    BY <2>1, DivMod
<1>5. PICK g \in Int, q \in Int : g = Signed(F) /\ F - g = H * q
  <2>1. F \in Int
    OBVIOUS
  <2>2. Signed(F) \in Int
    BY <2>1, LowIn
  <2>3. PICK q \in Int : F - Signed(F) = Half * q
    BY <2>1, SignedRest
  <2> QED
    BY <1>1, <2>2, <2>3
<1>6. PICK p \in Int, h \in 0 .. H - 1 : q = H * p + h /\ h = q % H
  BY DivMod
<1>7. HighOf(F) = h
  <2>1. H * q = H * q + 0 /\ 0 \in 0 .. H - 1
    BY <1>1
  <2>2. PICK d \in Int : d = F - g
    BY <1>4, <1>5
  <2>3. Splits(d, H, q, 0)
    BY <1>5, <2>1, <2>2 DEF Splits
  <2>4. d \div H = q
    BY <2>1, <2>3, DividesUnique
  <2> QED
    BY <1>1, <1>5, <1>6, <2>2, <2>4 DEF HighOf
<1>8. Low(PairWord(w, v, to)) = h
  <2>1. PairWord(w, v, to) = WithLow(w, h)
    BY <1>1, <1>2, <1>3, <1>4, <1>7 DEF PairWord
  <2>2. h % H = h
    <3>1. Splits(h, H, 0, h) /\ h \in Int
      BY <1>1 DEF Splits
    <3> QED
      BY <3>1, DividesUnique
  <2>3. Low(WithLow(w, h)) = h % Half
    BY LowWithLow
  <2> QED
    BY <1>1, <2>1, <2>2, <2>3
<1>9. PICK e \in Int : v - s = H * e
  <2>1. PICK e \in Int : v - Signed(v) = Half * e
    BY SignedRest
  <2> QED
    BY <1>1, <1>2, <2>1
<1>10. Low(WithLow(v, v + to)) = Low(F)
  <2>1. Low(WithLow(v, v + to)) = (v + to) % H
    <3>1. PICK vt \in Int : vt = v + to
      OBVIOUS
    <3> QED
      BY <1>1, <3>1, LowWithLow
  <2>2. PICK n \in Int : n = l - e - H * c
    BY <1>1
  <2>3. H * n = H * l - H * e - H * (H * c)
    BY <1>1, <2>2
  <2>4. W * c = H * (H * c) /\ l * H = H * l
    BY <1>1
  <2>5. F = (v + to) + H * n
    <3>1. PICK x1 \in Int, x2 \in Int, x3 \in Int : x1 = H * l /\ x2 = H * e /\ x3 = H * (H * c)
      OBVIOUS
    <3>2. F = a + to - x3 /\ a = x1 + s /\ v - s = x2 /\ H * n = x1 - x2 - x3
      BY <1>3, <1>4, <1>9, <2>3, <2>4, <3>1
    <3> QED
      BY <3>1, <3>2
  <2>6. PICK vt \in Int : vt = v + to /\ Splits(F, H, n, vt) /\ F \in Int
    BY <2>5 DEF Splits
  <2>7. F % H = vt % H
    BY <2>6, RestKept
  <2> QED
    BY <1>1, <2>1, <2>6, <2>7 DEF Low
<1>11. Signed(WithLow(v, v + to)) = g
  BY <1>5, <1>10, SignedFromLow
<1>12. Composed(PairWord(w, v, to), WithLow(v, v + to)) = (h * H + g) % W
  BY <1>1, <1>8, <1>11 DEF Composed
<1>13. (h * H + g) % W = F
  <2>1. PICK x \in Int : x = h * H + g
    OBVIOUS
  <2>2. H * q = H * (H * p) + H * h
    BY <1>6
  <2>3. W * p = H * (H * p) /\ H * h = h * H
    BY <1>1
  <2>4. PICK y \in Int, z \in Int : y = H * (H * p) /\ z = H * h
    OBVIOUS
  <2>5. F - g = y + z /\ x = z + g
    BY <1>5, <2>1, <2>2, <2>3, <2>4
  <2>6. Splits(F, W, p, x) /\ F \in Int
    BY <2>3, <2>4, <2>5 DEF Splits
  <2>7. F % W = x % W
    BY <2>6, RestKept
  <2>8. Splits(F, W, 0, F)
    BY <1>1 DEF Splits
  <2>9. F % W = F
    BY <2>6, <2>8, DividesUnique
  <2> QED
    BY <2>1, <2>7, <2>9
<1>14. (Composed(w, v) + to) % Word = F
  <2>1. PICK k \in Int, u \in 0 .. W - 1 : a = W * k + u /\ u = a % W
    BY DivMod
  <2>2. Composed(w, v) = u
    BY <1>1, <1>2, <1>3, <2>1 DEF Composed
  <2>3. PICK b \in Int, j \in Int : b = u + to /\ j = a + to
    BY <1>3
  <2>4. Splits(j, W, k, b)
    <3>1. PICK x \in Int : x = W * k
      OBVIOUS
    <3>2. j = x + b
      <4>1. a = x + u
        BY <2>1, <3>1
      <4> QED
        BY <2>3, <4>1
    <3> QED
      BY <3>1, <3>2 DEF Splits
  <2>5. j % W = b % W
    BY <2>4, RestKept
  <2> QED
    BY <1>1, <1>4, <2>2, <2>3, <2>5
<1> QED
  BY <1>12, <1>13, <1>14

AllInPlace(k, f, bias) == \A i \in DOMAIN f.segs : InPlace(k, f.segs[i], bias)

(* A word of the file lies where its entry points. *)
LEMMA InFileReached ==
  ASSUME NEW f, Movable(f), NEW bias \in Nat, NEW k \in Loads, AllInPlace(k, f, bias),
         NEW e \in EntryType, InFile(f, e), NEW a, a = Target(f, bias, e)
  PROVE  /\ e.seg \in DOMAIN f.segs /\ a \in Span(f.segs[e.seg], bias) /\ a \in Ram
         /\ InHull([hull |-> k.hull], a)
         /\ k.mem[a] = FileWord(f, e) /\ FileWord(f, e) \in 0 .. Word - 1
<1>1. PICK seg \in SegmentType : seg = f.segs[e.seg] /\ e.seg \in DOMAIN f.segs
  BY ElementOf DEF InFile, Movable
<1>2. PICK p \in Nat, l \in Nat, z \in Nat, o \in Nat :
        p = seg.at /\ l = Len(seg.words) /\ z = seg.zeros /\ o = e.off /\ o < l
  <2>1. seg.at \in Nat /\ Len(seg.words) \in Nat /\ e.off \in Nat
    BY DEF SegmentType, EntryType
  <2>2. seg.zeros \in Nat
    BY <1>1 DEF AllInPlace, InPlace
  <2>3. e.off < Len(seg.words)
    BY <1>1 DEF InFile
  <2> QED
    BY <2>1, <2>2, <2>3
<1>3. a = o + (p + bias)
  BY <1>1, <1>2 DEF Target, SegmentAt
<1>4. Span(seg, bias) = bias + p .. bias + p + l + z - 1
  BY <1>2 DEF Span
<1>14. o < l
  BY <1>2
<1>15. a \in Int /\ bias + p <= a /\ a < bias + p + l /\ a < bias + p + l + z
       /\ a - (bias + p) + 1 = o + 1
  BY <1>3, <1>14
<1>5. a \in Span(seg, bias) /\ a \in Int
  BY <1>4, <1>15
<1>6. InPlace(k, seg, bias)
  BY <1>1 DEF AllInPlace
<1>7. k.hull \in Nat \X Nat
  BY DEF Loads, HullType
<1>8. /\ bias + seg.at = bias + p /\ bias + seg.at + Len(seg.words) + seg.zeros = bias + p + l + z
  BY <1>2
<1>9. k.hull[1] <= bias + p /\ bias + p + l + z <= k.hull[2]
  BY <1>6, <1>8 DEF InPlace, Covers
<1>10. InHull([hull |-> k.hull], a)
  BY <1>7, <1>9, <1>15 DEF InHull
<1>11. k.mem[a] = seg.words[o + 1]
  <2>1. a < bias + seg.at + Len(seg.words) /\ a - (bias + seg.at) + 1 = o + 1
    BY <1>2, <1>15
  <2>2. k.mem[a] = IF a < bias + seg.at + Len(seg.words)
                   THEN seg.words[a - (bias + seg.at) + 1] ELSE 0
    BY <1>5, <1>6 DEF InPlace, Laid
  <2> QED
    BY <2>1, <2>2
<1>12. seg.words[o + 1] \in 0 .. Word - 1
  <2>1. PICK n \in 1 .. Len(seg.words) : n = o + 1
    BY <1>2
  <2>2. seg.words \in Seq(0 .. Word - 1)
    BY DEF SegmentType
  <2> QED
    BY <2>1, <2>2, ElementOf
<1> QED
  BY <1>1, <1>2, <1>5, <1>6, <1>10, <1>11, <1>12 DEF FileWord, InPlace

(* What AddressesMoved says of one file. *)
FileMoved(m, f, bias) ==
  \A i \in DOMAIN f.relocs :
    LET es == f.relocs[i].entries
        Now(e)  == m[Target(f, bias, e)]
        Base(e) == SegmentAt(f, bias, e.rel)
    IN  \A r \in DOMAIN es :
          /\ es[r].type = 2 /\ InFile(f, es[r]) => Now(es[r]) = (FileWord(f, es[r]) + Base(es[r])) % Word
          /\ es[r].type = 5 /\ r < Len(es) /\ es[r + 1].type = 6
               /\ InFile(f, es[r]) /\ InFile(f, es[r + 1]) =>
               Composed(Now(es[r]), Now(es[r + 1])) =
                 (Composed(FileWord(f, es[r]), FileWord(f, es[r + 1])) + Base(es[r])) % Word

EntryMoved(f, bias, k, x, es, r) ==
  LET op == Before(k.mem, k.hull, f, bias, es)
      V  == Reached(k.hull, f, bias, es)
  IN  /\ r \in V /\ op[r] = FileWord(f, es[r])
      /\ x.mem[Target(f, bias, es[r])] = Moved(es, op, V, r, SegmentAt(f, bias, es[r].rel))

(* What an entry makes of a word of the file. *)
LEMMA EntryMovedAfter ==
  ASSUME NEW f, Movable(f), NEW bias \in Nat, NEW k \in Loads, AllInPlace(k, f, bias),
         NEW x, RelocatedTo(k, f, bias, Len(f.relocs), x), x.status = 0,
         NEW i \in DOMAIN f.relocs, NEW es, es = f.relocs[i].entries,
         NEW r \in DOMAIN es, InFile(f, es[r])
  PROVE  EntryMoved(f, bias, k, x, es, r)
<1>1. es[r] \in EntryType /\ i \in 1 .. Len(f.relocs)
  BY SectionEntry
<1>2. PICK a : a = Target(f, bias, es[r])
  OBVIOUS
<1>3. /\ es[r].seg \in DOMAIN f.segs /\ InHull([hull |-> k.hull], a)
      /\ k.mem[a] = FileWord(f, es[r])
  BY <1>1, <1>2, InFileReached
<1>4. r \in Reached(k.hull, f, bias, es)
  BY <1>2, <1>3 DEF Reached
<1>5. Before(k.mem, k.hull, f, bias, es)[r] = FileWord(f, es[r])
  BY <1>2, <1>3, <1>4 DEF Before
<1>6. x.mem[a] = NewWord(k.mem, k.hull, f, bias, es, r)
  BY <1>1, <1>2, <1>4 DEF RelocatedTo
<1> QED
  BY <1>2, <1>4, <1>5, <1>6 DEF NewWord, EntryMoved

LEMMA FileMovedAfter ==
  ASSUME NEW f, Movable(f), NEW bias \in Nat, NEW k \in Loads, AllInPlace(k, f, bias),
         NEW x, RelocatedTo(k, f, bias, Len(f.relocs), x), x.status = 0
  PROVE  FileMoved(x.mem, f, bias)
<1>1. SUFFICES ASSUME NEW i \in DOMAIN f.relocs, NEW es, es = f.relocs[i].entries,
                      NEW r \in DOMAIN es, InFile(f, es[r])
      PROVE  /\ es[r].type = 2 => x.mem[Target(f, bias, es[r])] =
                  (FileWord(f, es[r]) + SegmentAt(f, bias, es[r].rel)) % Word
             /\ es[r].type = 5 /\ r < Len(es) /\ es[r + 1].type = 6 /\ InFile(f, es[r + 1]) =>
                  Composed(x.mem[Target(f, bias, es[r])], x.mem[Target(f, bias, es[r + 1])]) =
                    (Composed(FileWord(f, es[r]), FileWord(f, es[r + 1]))
                      + SegmentAt(f, bias, es[r].rel)) % Word
  BY DEF FileMoved
<1> DEFINE op == Before(k.mem, k.hull, f, bias, es)
           V  == Reached(k.hull, f, bias, es)
           to == SegmentAt(f, bias, es[r].rel)
<1>2. /\ r \in V /\ op[r] = FileWord(f, es[r])
      /\ x.mem[Target(f, bias, es[r])] = Moved(es, op, V, r, to)
  <2>1. EntryMoved(f, bias, k, x, es, r)
    BY <1>1, EntryMovedAfter
  <2> QED
    BY <2>1 DEF EntryMoved
<1>3. /\ es[r] \in EntryType /\ es \in Seq(EntryType) /\ DOMAIN es = 1 .. Len(es)
      /\ Len(es) \in Nat /\ f.segs \in Seq(SegmentType)
  BY <1>1, SectionEntry DEF Movable
<1>4. FileWord(f, es[r]) \in Nat
  <2>1. FileWord(f, es[r]) \in 0 .. Word - 1
    BY <1>1, <1>3, InFileReached
  <2> QED
    BY <2>1
<1>5. to \in Nat
  BY <1>3, SegmentAtType
<1> HIDE DEF op, V, to
<1>6. ASSUME es[r].type = 2
      PROVE  x.mem[Target(f, bias, es[r])] = (FileWord(f, es[r]) + to) % Word
  BY <1>2, <1>6, MovedIs
<1>7. ASSUME es[r].type = 5, r < Len(es), es[r + 1].type = 6, InFile(f, es[r + 1])
      PROVE  Composed(x.mem[Target(f, bias, es[r])], x.mem[Target(f, bias, es[r + 1])]) =
               (Composed(FileWord(f, es[r]), FileWord(f, es[r + 1])) + to) % Word
  <2>1. PICK t \in DOMAIN es : t = r + 1
    BY <1>1, <1>3, <1>7
  <2>2. es[t].type = 6 /\ InFile(f, es[t])
    BY <1>7, <2>1
  <2>3. /\ t \in V /\ op[t] = FileWord(f, es[t])
        /\ x.mem[Target(f, bias, es[t])] = Moved(es, op, V, t, SegmentAt(f, bias, es[t].rel))
    <3>1. EntryMoved(f, bias, k, x, es, t)
      BY <1>1, <2>2, EntryMovedAfter
    <3> QED
      BY <3>1 DEF EntryMoved, op, V
  <2>4. es[t].rel = es[r].rel
    BY <1>1, <1>7, <2>1, <2>2 DEF Movable, RelocatedOnce
  <2>5. FileWord(f, es[t]) \in Nat
    <3>1. es[t] \in EntryType
      BY <1>1, SectionEntry
    <3>2. FileWord(f, es[t]) \in 0 .. Word - 1
      BY <2>2, <3>1, InFileReached
    <3> QED
      BY <3>2
  <2>6. x.mem[Target(f, bias, es[t])] = WithLow(FileWord(f, es[t]), FileWord(f, es[t]) + to)
    BY <2>2, <2>3, <2>4, MovedIs DEF to
  <2>7. t \in Partners(es, V, r) /\ \A u \in Partners(es, V, r) : u \in Int /\ t <= u
    BY <1>1, <1>3, <2>1, <2>2, <2>3 DEF Partners
  <2>8. PICK c : c = CHOOSE q \in Partners(es, V, r) : \A u \in Partners(es, V, r) : q <= u
    OBVIOUS
  <2>9. c \in Partners(es, V, r) /\ \A u \in Partners(es, V, r) : c <= u
    BY <2>7, <2>8
  <2>10. c = t
    <3>1. c \in Int /\ t \in Int /\ t <= c /\ c <= t
      BY <2>7, <2>9
    <3> QED
      BY <3>1
  <2>11. x.mem[Target(f, bias, es[r])] = PairWord(FileWord(f, es[r]), FileWord(f, es[t]), to)
    <3>1. Partners(es, V, r) # {}
      BY <2>7
    <3>2. Moved(es, op, V, r, to) = PairWord(op[r], op[c], to)
      BY <1>7, <2>8, <3>1, MovedIs
    <3> QED
      BY <1>2, <2>3, <2>10, <3>2
  <2> QED
    BY <1>4, <1>5, <2>1, <2>5, <2>6, <2>11, PairComposes
<1> QED
  BY <1>6, <1>7 DEF to

-----------------------------------------------------------------------------
(* Pointers *)

(* The n-th word of segment i is the one at a place of the file. *)
IsWordAt(f, at, i, n) ==
  i \in DOMAIN f.segs /\ n \in DOMAIN f.segs[i].words /\ at = f.segs[i].at + n - 1

LEMMA WordCell ==
  ASSUME NEW f, Movable(f), NEW bias \in Nat, NEW k \in Loads, AllInPlace(k, f, bias),
         NEW at, NEW i, NEW n, IsWordAt(f, at, i, n)
  PROVE  /\ at \in Nat /\ bias + at \in Ram /\ InHull([hull |-> k.hull], bias + at)
         /\ k.mem[bias + at] = f.segs[i].words[n] /\ f.segs[i].words[n] \in 0 .. Word - 1
         /\ at \in Span(f.segs[i], 0) /\ i \in DOMAIN f.segs
         /\ at - f.segs[i].at \in 0 .. Len(f.segs[i].words) - 1 /\ at - f.segs[i].at + 1 = n
<1>1. PICK seg \in SegmentType : seg = f.segs[i] /\ i \in DOMAIN f.segs /\ n \in DOMAIN seg.words
                                 /\ at = seg.at + n - 1
  BY ElementOf DEF IsWordAt, Movable
<1>2. /\ seg.words \in Seq(0 .. Word - 1) /\ DOMAIN seg.words = 1 .. Len(seg.words)
      /\ seg.at \in Nat /\ Len(seg.words) \in Nat
  BY DEF SegmentType
<1>3. InPlace(k, seg, bias)
  BY <1>1 DEF AllInPlace
<1>4. PICK p \in Nat, l \in Nat, z \in Nat :
        p = seg.at /\ l = Len(seg.words) /\ z = seg.zeros
  BY <1>2, <1>3 DEF InPlace
<1>5. n \in 1 .. l /\ at = p + n - 1
  BY <1>1, <1>2, <1>4
<1>6. /\ Span(seg, 0) = 0 + p .. 0 + p + l + z - 1
      /\ Span(seg, bias) = bias + p .. bias + p + l + z - 1
  BY <1>4 DEF Span
<1>7. PICK a \in Nat : a = bias + at /\ a >= bias + p /\ a < bias + p + l /\ a - (bias + p) + 1 = n
                       /\ a < bias + p + l + z
  BY <1>5
<1>8. /\ at \in Nat /\ at \in Span(seg, 0) /\ a \in Span(seg, bias)
      /\ at - p \in 0 .. l - 1 /\ at - p + 1 = n
  BY <1>5, <1>6, <1>7
<1>9. k.hull \in Nat \X Nat
  BY DEF Loads, HullType
<1>10. /\ bias + seg.at = bias + p /\ bias + seg.at + Len(seg.words) = bias + p + l
       /\ bias + seg.at + Len(seg.words) + seg.zeros = bias + p + l + z
  BY <1>4
<1>11. k.hull[1] <= bias + p /\ bias + p + l + z <= k.hull[2]
  BY <1>3, <1>10 DEF InPlace, Covers
<1>12. InHull([hull |-> k.hull], a)
  BY <1>7, <1>9, <1>11 DEF InHull
<1>13. k.mem[a] = seg.words[n]
  <2>1. k.mem[a] = IF a < bias + seg.at + Len(seg.words)
                   THEN seg.words[a - (bias + seg.at) + 1] ELSE 0
    BY <1>3, <1>8 DEF InPlace, Laid
  <2> QED
    BY <1>7, <1>10, <2>1
<1>14. seg.words[n] \in 0 .. Word - 1
  BY <1>1, <1>2, ElementOf
<1> QED
  BY <1>1, <1>3, <1>4, <1>7, <1>8, <1>12, <1>13, <1>14 DEF InPlace

LEMMA WordPlace ==
  ASSUME NEW f, Movable(f), NEW bias \in Nat, NEW k \in Loads, AllInPlace(k, f, bias),
         NEW at, NEW i, NEW n, IsWordAt(f, at, i, n), NEW j, NEW m, IsWordAt(f, at, j, m)
  PROVE  i = j /\ n = m
<1>1. /\ at \in Span(f.segs[i], 0) /\ i \in DOMAIN f.segs /\ at - f.segs[i].at + 1 = n
  BY WordCell
<1>2. /\ at \in Span(f.segs[j], 0) /\ j \in DOMAIN f.segs /\ at - f.segs[j].at + 1 = m
  BY WordCell
<1>3. i = j
  BY <1>1, <1>2 DEF Movable, SegmentsApart
<1> QED
  BY <1>1, <1>2, <1>3

LEMMA MoverEntry ==
  ASSUME NEW f, Movable(f), NEW at, NEW e \in Movers(f, at)
  PROVE  \E i, r :
           /\ i \in DOMAIN f.relocs /\ r \in DOMAIN f.relocs[i].entries
           /\ e = f.relocs[i].entries[r] /\ e \in EntryType
           /\ e.seg \in DOMAIN f.segs /\ Target(f, 0, e) = at
<1>1. PICK i \in DOMAIN f.relocs : e \in Range(f.relocs[i].entries)
  BY DEF Movers
<1>2. PICK r \in DOMAIN f.relocs[i].entries : e = f.relocs[i].entries[r]
  BY <1>1 DEF Range
<1>3. e \in EntryType
  BY <1>2, SectionEntry
<1> QED
  BY <1>2, <1>3 DEF Movers

LEMMA MoverOne ==
  ASSUME NEW f, Movable(f), NEW at, NEW d \in Movers(f, at), NEW e \in Movers(f, at)
  PROVE  d = e
<1>1. PICK i, r :
           /\ i \in DOMAIN f.relocs /\ r \in DOMAIN f.relocs[i].entries
           /\ d = f.relocs[i].entries[r]
           /\ d.seg \in DOMAIN f.segs /\ Target(f, 0, d) = at
  BY MoverEntry
<1>2. PICK j, t :
           /\ j \in DOMAIN f.relocs /\ t \in DOMAIN f.relocs[j].entries
           /\ e = f.relocs[j].entries[t]
           /\ e.seg \in DOMAIN f.segs /\ Target(f, 0, e) = at
  BY MoverEntry
<1>3. i = j /\ r = t
  BY <1>1, <1>2, MovedOnce
<1> QED
  BY <1>1, <1>2, <1>3

LEMMA EntryMoves ==
  ASSUME NEW f, Movable(f), NEW i \in DOMAIN f.relocs, NEW r \in DOMAIN f.relocs[i].entries,
         f.relocs[i].entries[r].seg \in DOMAIN f.segs
  PROVE  f.relocs[i].entries[r] \in Movers(f, Target(f, 0, f.relocs[i].entries[r]))
BY DEF Movers, Range

(* What the memory holds at a word of the file after the relocations. *)
LEMMA WordAfter ==
  ASSUME NEW f, Movable(f), NEW bias \in Nat, NEW k \in Loads, AllInPlace(k, f, bias),
         NEW x, RelocatedTo(k, f, bias, Len(f.relocs), x), x.status = 0,
         NEW at, NEW i, NEW n, IsWordAt(f, at, i, n)
  PROVE  /\ \A e \in Movers(f, at) : e.type = 2 =>
              x.mem[bias + at] = (f.segs[i].words[n] + SegmentAt(f, bias, e.rel)) % Word
         /\ (\A e \in Movers(f, at) : e.type \notin 1 .. 6) =>
              x.mem[bias + at] = f.segs[i].words[n]
<1>1. PICK a \in Ram : a = bias + at /\ InHull([hull |-> k.hull], a)
                       /\ k.mem[a] = f.segs[i].words[n] /\ at \in Nat
  BY WordCell
<1>2. ASSUME NEW e \in Movers(f, at)
      PROVE  /\ e.type = 2 => x.mem[a] = (k.mem[a] + SegmentAt(f, bias, e.rel)) % Word
             /\ e.type \notin 1 .. 6 => x.mem[a] = k.mem[a]
  <2>1. PICK j, r :
           /\ j \in DOMAIN f.relocs /\ r \in DOMAIN f.relocs[j].entries
           /\ e = f.relocs[j].entries[r] /\ e \in EntryType
           /\ e.seg \in DOMAIN f.segs /\ Target(f, 0, e) = at
    BY MoverEntry
  <2> DEFINE es == f.relocs[j].entries
             op == Before(k.mem, k.hull, f, bias, es)
             V  == Reached(k.hull, f, bias, es)
             to == SegmentAt(f, bias, e.rel)
  <2>2. Target(f, bias, e) = a
    <3>1. f.segs \in Seq(SegmentType)
      BY DEF Movable
    <3>2. Target(f, bias, e) = Target(f, 0, e) + bias
      BY <2>1, <3>1, TargetIs
    <3> QED
      BY <1>1, <2>1, <3>2
  <2>3. r \in V
    BY <1>1, <2>1, <2>2 DEF Reached
  <2>4. op[r] = k.mem[a]
    BY <2>1, <2>2, <2>3 DEF Before
  <2>5. j \in 1 .. Len(f.relocs)
    BY <2>1, SectionEntry
  <2>6. x.mem[a] = Moved(es, op, V, r, to)
    BY <2>1, <2>2, <2>3, <2>5 DEF RelocatedTo, NewWord
  <2> HIDE DEF op, V, to
  <2>7. es[r].type = 2 => x.mem[a] = (op[r] + to) % Word
    BY <2>6, MovedIs
  <2>8. es[r].type \notin {1, 2, 3, 4, 5, 6} => x.mem[a] = op[r]
    BY <2>6, MovedIs
  <2>9. e.type \notin 1 .. 6 => e.type \notin {1, 2, 3, 4, 5, 6}
    OBVIOUS
  <2> QED
    BY <2>1, <2>4, <2>7, <2>8, <2>9 DEF to
<1>3. ASSUME Movers(f, at) = {} PROVE x.mem[a] = k.mem[a]
  <2>1. ASSUME NEW j \in 1 .. Len(f.relocs), MovesAt(f, bias, f.relocs[j].entries, a)
        PROVE  FALSE
    <3>1. j \in DOMAIN f.relocs
      BY DEF Movable
    <3>2. PICK r \in DOMAIN f.relocs[j].entries :
            /\ f.relocs[j].entries[r].seg \in DOMAIN f.segs
            /\ Target(f, bias, f.relocs[j].entries[r]) = a
      BY <2>1 DEF MovesAt
    <3>3. PICK e \in EntryType : e = f.relocs[j].entries[r]
      BY <3>1, SectionEntry
    <3>4. Target(f, bias, e) = Target(f, 0, e) + bias /\ Target(f, 0, e) \in Nat
      <4>1. f.segs \in Seq(SegmentType) /\ e.seg \in DOMAIN f.segs
        BY <3>2, <3>3 DEF Movable
      <4> QED
        BY <4>1, TargetIs
    <3>5. PICK t \in Nat : t = Target(f, 0, e)
      BY <3>4
    <3>6. t = at
      BY <1>1, <3>2, <3>3, <3>4, <3>5
    <3>7. e \in Movers(f, at)
      BY <3>1, <3>2, <3>3, <3>5, <3>6, EntryMoves
    <3> QED
      BY <1>3, <3>7
  <2> QED
    BY <2>1 DEF RelocatedTo
<1>4. ASSUME \A e \in Movers(f, at) : e.type \notin 1 .. 6 PROVE x.mem[a] = k.mem[a]
  <2>1. CASE Movers(f, at) = {}
    BY <1>3, <2>1
  <2>2. CASE Movers(f, at) # {}
    BY <1>2, <1>4, <2>2
  <2> QED
    BY <2>1, <2>2
<1> QED
  BY <1>1, <1>2, <1>4

LEMMA CellsIs ==
  ASSUME NEW p, NEW a
  PROVE  a \in Cells(p) <=> \E i \in DOMAIN p.file.segs : a \in Span(p.file.segs[i], p.bias)
BY DEF Cells

LEMMA CellMoved ==
  ASSUME NEW f, Movable(f), NEW bias \in Nat, NEW k \in Loads, AllInPlace(k, f, bias),
         NEW p, p.file = f, p.bias = bias, NEW c, c \in Cells(Unmoved(f))
  PROVE  /\ c \in Int /\ c + bias \in Cells(p) /\ c + bias \in Ram
         /\ InHull([hull |-> k.hull], c + bias)
<1>1. PICK i \in DOMAIN f.segs : c \in Span(f.segs[i], 0)
  BY CellsIs DEF Unmoved
<1>2. PICK seg \in SegmentType : seg = f.segs[i]
  BY ElementOf DEF Movable
<1>3. InPlace(k, seg, bias)
  BY <1>2 DEF AllInPlace
<1>4. PICK s \in Nat, l \in Nat, z \in Nat :
        s = seg.at /\ l = Len(seg.words) /\ z = seg.zeros
  BY <1>3 DEF InPlace, SegmentType
<1>5. /\ Span(seg, 0) = 0 + s .. 0 + s + l + z - 1
      /\ Span(seg, bias) = bias + s .. bias + s + l + z - 1
  BY <1>4 DEF Span
<1>6. c \in Int /\ c \in 0 + s .. 0 + s + l + z - 1
  BY <1>1, <1>2, <1>5
<1>7. PICK a \in Nat : a = c + bias /\ a \in bias + s .. bias + s + l + z - 1
  BY <1>6
<1>8. a \in Span(seg, bias) /\ a \in Ram
  BY <1>3, <1>5, <1>7 DEF InPlace
<1>9. bias + seg.at = bias + s /\ bias + seg.at + Len(seg.words) + seg.zeros = bias + s + l + z
  BY <1>4
<1>10. k.hull \in Nat \X Nat /\ k.hull[1] <= bias + s /\ bias + s + l + z <= k.hull[2]
  BY <1>3, <1>9 DEF InPlace, Covers, Loads, HullType
<1>11. InHull([hull |-> k.hull], a)
  BY <1>7, <1>10 DEF InHull
<1>12. a \in Cells(p)
  BY <1>2, <1>8, CellsIs
<1> QED
  BY <1>6, <1>7, <1>8, <1>11, <1>12

LEMMA MeantIs ==
  ASSUME NEW f, Movable(f), NEW bias \in Nat, NEW k \in Loads, AllInPlace(k, f, bias),
         NEW at, NEW i, NEW n, IsWordAt(f, at, i, n), NEW p, p.file = f
  PROVE  /\ \A e \in Movers(f, at) : e.type = 2 =>
              Meant(p, at) = f.segs[i].words[n] + SegmentAt(f, p.bias, e.rel)
         /\ (\A e \in Movers(f, at) : e.type \notin 1 .. 6) =>
              Meant(p, at) = f.segs[i].words[n] + p.bias
<1> DEFINE es == {e \in Movers(f, at) : e.type = 2}
           seg == CHOOSE j \in DOMAIN f.segs :
                    at - f.segs[j].at \in 0 .. Len(f.segs[j].words) - 1
           word == f.segs[seg].words[at - f.segs[seg].at + 1]
<1>1. Meant(p, at) = IF es # {} THEN word + SegmentAt(f, p.bias, (CHOOSE e \in es : TRUE).rel)
                     ELSE word + p.bias
  BY DEF Meant
<1>2. /\ i \in DOMAIN f.segs /\ at - f.segs[i].at \in 0 .. Len(f.segs[i].words) - 1
      /\ at - f.segs[i].at + 1 = n /\ at \in Nat
  BY WordCell
<1>3. PICK j : j = seg /\ j \in DOMAIN f.segs
               /\ at - f.segs[j].at \in 0 .. Len(f.segs[j].words) - 1
  BY <1>2
<1>4. PICK m : m = at - f.segs[j].at + 1
  OBVIOUS
<1>5. IsWordAt(f, at, j, m)
  <2>1. f.segs[j] \in SegmentType
    <3>1. f.segs \in Seq(SegmentType) /\ j \in 1 .. Len(f.segs)
      BY <1>3 DEF Movable
    <3> QED
      BY <3>1, ElementOf
  <2>2. f.segs[j].at \in Nat /\ DOMAIN f.segs[j].words = 1 .. Len(f.segs[j].words)
        /\ Len(f.segs[j].words) \in Nat
    BY <2>1 DEF SegmentType
  <2>3. PICK s \in Nat, l \in Nat : s = f.segs[j].at /\ l = Len(f.segs[j].words)
    BY <2>2
  <2>4. at - s \in 0 .. l - 1 /\ m = at - s + 1
    BY <1>3, <1>4, <2>3
  <2>5. m \in 1 .. l /\ at = s + m - 1
    BY <1>2, <2>4
  <2> QED
    BY <1>3, <2>2, <2>3, <2>5 DEF IsWordAt
<1>6. j = i /\ m = n
  BY <1>5, WordPlace
<1>7. word = f.segs[i].words[n]
  BY <1>3, <1>4, <1>6
<1> HIDE DEF word, seg
<1>8. ASSUME NEW e \in Movers(f, at), e.type = 2
      PROVE  Meant(p, at) = f.segs[i].words[n] + SegmentAt(f, p.bias, e.rel)
  <2>1. PICK d : d = CHOOSE q \in es : TRUE
    OBVIOUS
  <2>2. d \in es /\ es # {}
    BY <1>8, <2>1
  <2>3. d = e
    BY <2>2, MoverOne
  <2> QED
    BY <1>1, <1>7, <2>1, <2>2, <2>3
<1>9. ASSUME \A e \in Movers(f, at) : e.type \notin 1 .. 6
      PROVE  Meant(p, at) = f.segs[i].words[n] + p.bias
  <2>1. es = {}
    BY <1>9
  <2> QED
    BY <1>1, <1>7, <2>1
<1> QED
  BY <1>8, <1>9

(* The pointer at a place of the file leads to what it means. *)
LEMMA PointerValue ==
  ASSUME NEW f, Movable(f), NEW bias \in Nat, NEW k \in Loads, AllInPlace(k, f, bias),
         NEW x, RelocatedTo(k, f, bias, Len(f.relocs), x), x.status = 0,
         NEW at, IsPointer(f, at), Meant(Unmoved(f), at) \in Cells(Unmoved(f)),
         f.entry \in Nat, bias = 0 \/ f.entry < UserStart,
         NEW p, p.file = f, p.bias = bias
  PROVE  /\ at \in Nat /\ at + bias \in Ram
         /\ Meant(Unmoved(f), at) \in Int /\ Meant(p, at) = Meant(Unmoved(f), at) + bias
         /\ Meant(p, at) \in Ram
         /\ RelocateAddr(x.mem[at + bias], bias) = Meant(p, at)
<1>1. PICK i, n : /\ IsWordAt(f, at, i, n)
                  /\ \/ \E e \in Movers(f, at) : e.type = 2 /\ e.rel \in DOMAIN f.segs
                     \/ /\ \A e \in Movers(f, at) : e.type \notin 1 .. 6
                        /\ f.segs[i].words[n] \in 1 .. UserStart - 1 \/ f.entry >= UserStart
  BY DEF IsPointer, IsWordAt
<1>2. PICK c : c = Meant(Unmoved(f), at) /\ c \in Int /\ c + bias \in Ram
  BY CellMoved
<1>3. at \in Nat /\ bias + at \in Ram
  BY <1>1, WordCell
<1>4. at + bias = bias + at /\ at + bias \in Ram
  BY <1>3
<1>5. PICK w \in Nat : w = f.segs[i].words[n]
  <2>1. f.segs[i].words[n] \in 0 .. Word - 1
    BY <1>1, WordCell
  <2> QED
    BY <2>1
<1>6. Unmoved(f).file = f /\ Unmoved(f).bias = 0
  BY DEF Unmoved
<1>7. PICK v : v = x.mem[bias + at]
  OBVIOUS
<1>8. \A e \in Movers(f, at) : e.type = 2 => v = (w + SegmentAt(f, bias, e.rel)) % Word
  BY <1>1, <1>5, <1>7, WordAfter
<1>9. (\A e \in Movers(f, at) : e.type \notin 1 .. 6) => v = w
  BY <1>1, <1>5, <1>7, WordAfter
<1>10. \A e \in Movers(f, at) : e.type = 2 =>
         /\ Meant(p, at) = w + SegmentAt(f, bias, e.rel)
         /\ Meant(Unmoved(f), at) = w + SegmentAt(f, 0, e.rel)
  BY <1>1, <1>5, <1>6, MeantIs
<1>11. (\A e \in Movers(f, at) : e.type \notin 1 .. 6) =>
         Meant(p, at) = w + bias /\ Meant(Unmoved(f), at) = w + 0
  BY <1>1, <1>5, <1>6, MeantIs
<1>12. c + bias \in Nat /\ UserStart <= c + bias /\ c + bias < Word
  BY <1>2, Layout DEF Ram
<1>13. CASE \E e \in Movers(f, at) : e.type = 2 /\ e.rel \in DOMAIN f.segs
  <2>1. PICK e \in Movers(f, at) : e.type = 2 /\ e.rel \in DOMAIN f.segs
    BY <1>13
  <2>2. PICK s \in Nat : SegmentAt(f, bias, e.rel) = s + bias /\ SegmentAt(f, 0, e.rel) = s + 0
    <3>1. f.segs \in Seq(SegmentType) /\ bias \in Nat /\ 0 \in Nat
      BY DEF Movable
    <3>2. /\ SegmentAt(f, bias, e.rel) = f.segs[e.rel].at + bias
          /\ f.segs[e.rel].at \in Nat
      BY <2>1, <3>1, SegmentAtType
    <3>3. SegmentAt(f, 0, e.rel) = f.segs[e.rel].at + 0
      BY <2>1, <3>1, SegmentAtType
    <3> QED
      BY <3>2, <3>3
  <2>3. c = w + s /\ Meant(p, at) = c + bias
    BY <1>2, <1>10, <2>1, <2>2
  <2>4. v = (c + bias) % Word
    <3>1. w + (s + bias) = c + bias
      BY <2>3
    <3> QED
      BY <1>8, <2>1, <2>2, <3>1
  <2>5. v = c + bias
    <3>1. PICK d \in Nat, W \in Nat \ {0} : d = c + bias /\ W = Word /\ d < W
      BY <1>12, HalfFacts
    <3>2. Splits(d, W, 0, d) /\ d \in 0 .. W - 1
      BY <3>1 DEF Splits
    <3>3. d % W = d
      BY <3>2, DividesUnique
    <3> QED
      BY <2>4, <3>1, <3>3
  <2>6. RelocateAddr(v, bias) = v
    BY <1>12, <2>5 DEF RelocateAddr
  <2> QED
    BY <1>2, <1>3, <1>4, <1>7, <2>3, <2>5, <2>6
<1>14. CASE /\ \A e \in Movers(f, at) : e.type \notin 1 .. 6
            /\ w \in 1 .. UserStart - 1 \/ f.entry >= UserStart
  <2>1. v = w /\ Meant(p, at) = w + bias /\ c = w
    BY <1>2, <1>9, <1>11, <1>14
  <2>2. RelocateAddr(v, bias) = w + bias
    <3>1. CASE bias = 0
      BY <2>1, <3>1 DEF RelocateAddr
    <3>2. CASE bias # 0
      <4>1. w # 0 /\ ~(w >= UserStart)
        BY <1>14, <3>2, Layout
      <4> QED
        BY <2>1, <4>1 DEF RelocateAddr
    <3> QED
      BY <3>1, <3>2
  <2> QED
    BY <1>2, <1>3, <1>4, <1>7, <2>1, <2>2
<1> QED
  BY <1>1, <1>5, <1>13, <1>14

-----------------------------------------------------------------------------
(* Stubs *)

LibraryType == [good : BOOLEAN, at : Nat, nids : Seq(STRING)]

Extends(q, t) == Len(q) <= Len(t) /\ \A n \in DOMAIN q : n \in DOMAIN t /\ t[n] = q[n]

LinkedTo(m, table, at, nid) ==
  IF nid \in DOMAIN Known THEN m[at] = Syscall(Known[nid])
  ELSE \/ Len(table) = MaxFallbacks /\ m[at] < Word
       \/ \E n \in DOMAIN table : m[at] = Syscall(FallbackCode(n)) /\ table[n] = nid

LEMMA SyscallType ==
  /\ \A nid \in DOMAIN Known : Syscall(Known[nid]) \in Nat
  /\ \A n \in Nat : Syscall(FallbackCode(n)) \in Nat
<1>1. Cardinality(DOMAIN Known) \in Nat
  BY LayoutAssumption, FS_CardinalityType
<1>2. \A nid \in DOMAIN Known : Known[nid] \in Nat
  <2>1. \A nid \in DOMAIN Known : Known[nid] \in 1 .. Cardinality(DOMAIN Known)
    BY LayoutAssumption
  <2> QED
    BY <1>1, <2>1
<1> QED
  BY <1>1, <1>2, Layout DEF Syscall, FallbackCode

LEMMA ExtendsItself ==
  ASSUME NEW q \in FallbackTable
  PROVE  Extends(q, q)
<1>1. Len(q) \in Nat
  BY DEF FallbackTable
<1> QED
  BY <1>1 DEF Extends

LEMMA ExtendsOn ==
  ASSUME NEW q \in FallbackTable, NEW t \in FallbackTable, NEW u \in FallbackTable,
         Extends(q, t), Extends(t, u)
  PROVE  Extends(q, u)
<1>1. Len(q) \in Nat /\ Len(t) \in Nat /\ Len(u) \in Nat
  BY DEF FallbackTable
<1> QED
  BY <1>1 DEF Extends

LEMMA LinkedStays ==
  ASSUME NEW t \in FallbackTable, NEW u \in FallbackTable, Extends(t, u),
         NEW at, NEW nid, NEW m, NEW y, y[at] = m[at], LinkedTo(m, t, at, nid)
  PROVE  LinkedTo(y, u, at, nid)
<1>1. Len(t) \in Nat /\ Len(u) \in Nat /\ Len(u) <= MaxFallbacks /\ MaxFallbacks \in Nat
  BY Layout DEF FallbackTable
<1>2. Len(t) = MaxFallbacks => Len(u) = MaxFallbacks
  BY <1>1 DEF Extends
<1>3. \A n \in DOMAIN t : n \in DOMAIN u /\ u[n] = t[n]
  BY DEF Extends
<1> QED
  BY <1>2, <1>3 DEF LinkedTo

(* x is k with the stub of an import patched. *)
StubPatched(k, at, nid, x) ==
  /\ x \in Loads /\ x.hull = k.hull /\ x.exported = k.exported /\ x.status = k.status
  /\ Extends(k.fallbacks, x.fallbacks)
  /\ \A a \in Ram : a # at /\ a # at + 1 => x.mem[a] = k.mem[a]
  /\ at \in Ram /\ k.mem[at] < Word => LinkedTo(x.mem, x.fallbacks, at, nid)

LEMMA PatchedEffect ==
  ASSUME NEW k \in Loads, NEW at \in Int, NEW code, Syscall(code) \in Nat
  PROVE  /\ Patched(k, at, code) \in Loads
         /\ Patched(k, at, code).hull = k.hull /\ Patched(k, at, code).exported = k.exported
         /\ Patched(k, at, code).status = k.status
         /\ Patched(k, at, code).fallbacks = k.fallbacks
         /\ \A a \in Ram : a # at /\ a # at + 1 => Patched(k, at, code).mem[a] = k.mem[a]
         /\ at \in Ram => Patched(k, at, code).mem[at] = Syscall(code)
<1> DEFINE m == [k.mem EXCEPT ![at] = Syscall(code), ![at + 1] = 0]
<1>1. k.mem \in [Ram -> Nat]
  BY DEF Loads
<1>2. m \in [Ram -> Nat]
  BY <1>1
<1>3. \A a \in Ram : a # at /\ a # at + 1 => m[a] = k.mem[a]
  BY <1>1
<1>4. at \in Ram => m[at] = Syscall(code)
  <2>1. at # at + 1
    OBVIOUS
  <2> QED
    BY <1>1, <2>1
<1>5. Patched(k, at, code) = [k EXCEPT !.mem = m]
  BY DEF Patched
<1> HIDE DEF m
<1> QED
  BY <1>2, <1>3, <1>4, <1>5 DEF Loads

LEMMA PatchStubEffect ==
  ASSUME NEW k \in Loads, NEW at \in Int, NEW nid \in STRING
  PROVE  StubPatched(k, at, nid, PatchStub(k, at, nid))
<1>0. PICK q \in FallbackTable, l \in Nat : q = k.fallbacks /\ l = Len(q) /\ q \in Seq(STRING)
  BY DEF Loads, FallbackTable
<1>1. CASE nid \in DOMAIN Known
  <2>1. PICK x : x = PatchStub(k, at, nid) /\ x = Patched(k, at, Known[nid])
    BY <1>1 DEF PatchStub
  <2>2. Syscall(Known[nid]) \in Nat
    BY <1>1, SyscallType
  <2>3. /\ x \in Loads /\ x.hull = k.hull /\ x.exported = k.exported /\ x.status = k.status
        /\ x.fallbacks = k.fallbacks
        /\ \A a \in Ram : a # at /\ a # at + 1 => x.mem[a] = k.mem[a]
        /\ at \in Ram => x.mem[at] = Syscall(Known[nid])
    BY <2>1, <2>2, PatchedEffect
  <2>4. Extends(k.fallbacks, x.fallbacks)
    BY <1>0, <2>3, ExtendsItself
  <2>5. at \in Ram => LinkedTo(x.mem, x.fallbacks, at, nid)
    BY <1>1, <2>3 DEF LinkedTo
  <2> QED
    BY <2>1, <2>3, <2>4, <2>5 DEF StubPatched
<1>2. CASE nid \notin DOMAIN Known /\ l < MaxFallbacks
  <2>1. PICK y : y = Patched(k, at, FallbackCode(l + 1))
    OBVIOUS
  <2>2. PICK t : t = Append(q, nid)
    OBVIOUS
  <2>3. PICK x : x = PatchStub(k, at, nid) /\ x = [y EXCEPT !.fallbacks = Append(@, nid)]
    BY <1>0, <1>2, <2>1 DEF PatchStub, Fallback
  <2>4. Syscall(FallbackCode(l + 1)) \in Nat
    BY SyscallType
  <2>5. /\ y \in Loads /\ y.hull = k.hull /\ y.exported = k.exported /\ y.status = k.status
        /\ y.fallbacks = k.fallbacks
        /\ \A a \in Ram : a # at /\ a # at + 1 => y.mem[a] = k.mem[a]
        /\ at \in Ram => y.mem[at] = Syscall(FallbackCode(l + 1))
    BY <2>1, <2>4, PatchedEffect
  <2>6. /\ t \in Seq(STRING) /\ Len(t) = l + 1 /\ DOMAIN t = 1 .. l + 1 /\ t[l + 1] = nid
        /\ \A n \in 1 .. l : t[n] = q[n]
    BY <1>0, <2>2
  <2>7. t \in FallbackTable
    BY <1>2, <2>6, Layout DEF FallbackTable
  <2>8. x = [y EXCEPT !.fallbacks = t]
    BY <1>0, <2>2, <2>3, <2>5
  <2>9. /\ x \in Loads /\ x.hull = k.hull /\ x.exported = k.exported /\ x.status = k.status
        /\ x.fallbacks = t /\ x.mem = y.mem
    BY <2>5, <2>7, <2>8 DEF Loads
  <2>10. Extends(q, t)
    <3>1. DOMAIN q = 1 .. l
      BY <1>0
    <3> QED
      BY <1>0, <2>6, <3>1 DEF Extends
  <2>11. at \in Ram => LinkedTo(x.mem, t, at, nid)
    <3>1. l + 1 \in DOMAIN t
      BY <2>6
    <3> QED
      BY <1>2, <2>5, <2>6, <2>9, <3>1 DEF LinkedTo
  <2> QED
    BY <1>0, <2>3, <2>5, <2>9, <2>10, <2>11 DEF StubPatched
<1>3. CASE nid \notin DOMAIN Known /\ ~(l < MaxFallbacks)
  <2>1. PatchStub(k, at, nid) = k
    BY <1>0, <1>3 DEF PatchStub
  <2>2. Len(q) = MaxFallbacks
    BY <1>0, <1>3, Layout DEF FallbackTable
  <2>3. Extends(k.fallbacks, k.fallbacks)
    BY <1>0, ExtendsItself
  <2>4. k.mem[at] < Word => LinkedTo(k.mem, k.fallbacks, at, nid)
    BY <1>0, <1>3, <2>2 DEF LinkedTo
  <2> QED
    BY <2>1, <2>3, <2>4 DEF StubPatched
<1> QED
  BY <1>1, <1>2, <1>3

(* The stubs of a library are patched one by one. *)
LibrarySteps(h, k, s, lib, x) ==
  /\ h \in [0 .. Len(lib.nids) -> Loads] /\ h[0] = k /\ x = h[Len(lib.nids)]
  /\ \A n \in 1 .. Len(lib.nids) : h[n] = PatchStub(h[n - 1], s + 2 * (n - 1), lib.nids[n])

LEMMA LibraryChain ==
  ASSUME NEW k \in Loads, NEW lib \in LibraryType, NEW bias, NEW s \in Int,
         s = PointerAt(k, lib.at, bias), lib.good, lib.nids # <<>>,
         InHull(k, s), InHull(k, s + 2 * Len(lib.nids) - 1)
  PROVE  \E h : LibrarySteps(h, k, s, lib, LinkLibrary(k, lib, bias))
<1> DEFINE N == Len(lib.nids)
           Op(x, j) == PatchStub(x, s + 2 * (j - 1), lib.nids[j])
           step == [n \in 1 .. N |-> [x \in Loads |-> Op(x, n)]]
           Folds(g) == g = [q \in SUBSET (1 .. N) |->
                              IF q = {} THEN k ELSE Op(g[q \ {Max(q)}], Max(q))]
           G == CHOOSE g : Folds(g)
<1>1. lib.nids \in Seq(STRING) /\ N \in Nat /\ DOMAIN lib.nids = 1 .. N
  BY DEF LibraryType
<1>2. ASSUME NEW n \in 1 .. N, NEW x \in Loads PROVE Op(x, n) \in Loads
  <2>1. lib.nids[n] \in STRING
    BY <1>1, ElementOf
  <2>2. s + 2 * (n - 1) \in Int
    OBVIOUS
  <2> QED
    BY <2>1, <2>2, PatchStubEffect DEF StubPatched
<1>3. step \in [1 .. N -> [Loads -> Loads]]
  BY <1>2
<1>4. \A n \in 1 .. N, x \in Loads : step[n][x] = Op(x, n)
  OBVIOUS
<1>5. LinkLibrary(k, lib, bias) = G[1 .. N]
  <2> DEFINE stubs == PointerAt(k, lib.at, bias)
             Link(x, j) == PatchStub(x, stubs + 2 * (j - 1), lib.nids[j])
             ids == [j \in DOMAIN lib.nids |-> j]
  <2>1. LinkLibrary(k, lib, bias) = FoldLeft(Link, k, ids)
    BY DEF LinkLibrary
  <2>2. \A x, j : Link(x, j) = Op(x, j)
    OBVIOUS
  <2>3. DOMAIN ids = 1 .. N /\ \A q \in SUBSET (1 .. N) : q # {} => ids[Max(q)] = Max(q)
    <3>1. \A q \in SUBSET (1 .. N) : q # {} => Max(q) \in 1 .. N
      BY <1>1, MaxOf
    <3> QED
      BY <1>1, <3>1
  <2> HIDE DEF ids, Link
  <2>4. FoldLeft(Link, k, ids) =
          (CHOOSE g : g = [q \in SUBSET (1 .. N) |->
             IF q = {} THEN k ELSE Link(g[q \ {Max(q)}], ids[Max(q)])])[1 .. N]
    BY <2>3 DEF FoldLeft, MapThenFoldSet
  <2>5. ASSUME NEW g
        PROVE  (g = [q \in SUBSET (1 .. N) |->
             IF q = {} THEN k ELSE Link(g[q \ {Max(q)}], ids[Max(q)])]) = Folds(g)
    <3> HIDE DEF Op
    <3>1. \A q \in SUBSET (1 .. N) :
            (IF q = {} THEN k ELSE Link(g[q \ {Max(q)}], ids[Max(q)])) =
            (IF q = {} THEN k ELSE Op(g[q \ {Max(q)}], Max(q)))
      BY <2>2, <2>3
    <3>2. [q \in SUBSET (1 .. N) |->
             IF q = {} THEN k ELSE Link(g[q \ {Max(q)}], ids[Max(q)])] =
          [q \in SUBSET (1 .. N) |->
             IF q = {} THEN k ELSE Op(g[q \ {Max(q)}], Max(q))]
      BY <3>1
    <3> QED
      BY <3>2
  <2>6. (CHOOSE g : g = [q \in SUBSET (1 .. N) |->
             IF q = {} THEN k ELSE Link(g[q \ {Max(q)}], ids[Max(q)])]) = G
    <3> HIDE DEF Folds
    <3> QED
      BY <2>5
  <2> QED
    BY <2>1, <2>4, <2>6
<1> HIDE DEF Op, step, N
<1>6. Folds(G)
  <2>1. PICK g \in [SUBSET (1 .. N) -> Loads] :
          \A q \in SUBSET (1 .. N) : FoldsAt(g, k, step, q)
    BY <1>1, <1>3, FoldExists
  <2>2. ASSUME NEW q \in SUBSET (1 .. N)
        PROVE  g[q] = IF q = {} THEN k ELSE Op(g[q \ {Max(q)}], Max(q))
    <3>1. CASE q = {}
      BY <2>1, <3>1 DEF FoldsAt
    <3>2. CASE q # {}
      <4>1. Max(q) \in 1 .. N /\ g[q \ {Max(q)}] \in Loads
        BY <1>1, <2>1, <3>2, MaxOf
      <4> QED
        BY <1>4, <2>1, <3>2, <4>1 DEF FoldsAt
    <3> QED
      BY <3>1, <3>2
  <2>3. Folds(g)
    BY <2>1, <2>2
  <2> QED
    BY <2>3
<1> HIDE DEF G
<1>7. G[{}] = k
  BY <1>6
<1>8. ASSUME NEW q \in SUBSET (1 .. N), q # {}, G[q \ {Max(q)}] \in Loads
      PROVE  G[q] = step[Max(q)][G[q \ {Max(q)}]]
  <2>1. Max(q) \in 1 .. N
    BY <1>1, <1>8, MaxOf
  <2>2. G[q] = Op(G[q \ {Max(q)}], Max(q))
    BY <1>6, <1>8
  <2> QED
    BY <1>4, <1>8, <2>1, <2>2
<1>9. Unfolds(G, N, Loads, k, step)
  BY <1>7, <1>8 DEF Unfolds
<1>10. PICK h : IsChain(h, N, Loads, k, step, G[1 .. N])
  BY <1>1, <1>3, <1>9, FoldChain
<1>11. ASSUME NEW n \in 1 .. N PROVE h[n] = Op(h[n - 1], n)
  <2>1. n - 1 \in 0 .. N
    BY <1>1
  <2> QED
    BY <1>4, <1>10, <2>1 DEF IsChain
<1> QED
  BY <1>5, <1>10, <1>11 DEF Op, N, IsChain, LibrarySteps

(* x is k with the first n stubs of a library patched. *)
StubsPatched(k, s, nids, n, x) ==
  /\ x \in Loads /\ x.hull = k.hull /\ x.exported = k.exported /\ x.status = k.status
  /\ Extends(k.fallbacks, x.fallbacks)
  /\ \A a \in Ram : a < s \/ a >= s + 2 * n => x.mem[a] = k.mem[a]
  /\ \A j \in 1 .. n :
       k.mem[s + 2 * (j - 1)] < Word => LinkedTo(x.mem, x.fallbacks, s + 2 * (j - 1), nids[j])

LEMMA OneStubMore ==
  ASSUME NEW k \in Loads, NEW s \in Nat, NEW nids \in Seq(STRING),
         s .. s + 2 * Len(nids) - 1 \subseteq Ram,
         NEW n \in 0 .. Len(nids) - 1, NEW x, StubsPatched(k, s, nids, n, x),
         NEW y, y = PatchStub(x, s + 2 * n, nids[n + 1])
  PROVE  StubsPatched(k, s, nids, n + 1, y)
<1>0. PICK N \in Nat : N = Len(nids)
  OBVIOUS
<1>1. PICK at \in Nat : at = s + 2 * n
  OBVIOUS
<1>2. n + 1 \in 1 .. N /\ n \in Nat /\ nids[n + 1] \in STRING
  BY <1>0, ElementOf
<1>3. at \in s .. s + 2 * N - 1 /\ at \in Ram
  BY <1>0, <1>1, <1>2
<1>4. x \in Loads
  BY DEF StubsPatched
<1>5. /\ y \in Loads /\ y.hull = x.hull /\ y.exported = x.exported /\ y.status = x.status
      /\ Extends(x.fallbacks, y.fallbacks)
      /\ \A a \in Ram : a # at /\ a # at + 1 => y.mem[a] = x.mem[a]
      /\ at \in Ram /\ x.mem[at] < Word => LinkedTo(y.mem, y.fallbacks, at, nids[n + 1])
  <2>1. PICK nid \in STRING : nid = nids[n + 1]
    BY <1>2
  <2>2. at \in Int /\ y = PatchStub(x, at, nid)
    BY <1>1, <2>1
  <2>3. StubPatched(x, at, nid, y)
    BY <1>4, <2>2, PatchStubEffect
  <2> QED
    BY <2>1, <2>3 DEF StubPatched
<1>6. x.mem[at] = k.mem[at]
  BY <1>0, <1>1, <1>3 DEF StubsPatched
<1>7. k.mem[at] < Word => LinkedTo(y.mem, y.fallbacks, at, nids[n + 1])
  BY <1>3, <1>5, <1>6
<1>8. k.fallbacks \in FallbackTable /\ x.fallbacks \in FallbackTable /\ y.fallbacks \in FallbackTable
  BY <1>4, <1>5 DEF Loads
<1>9. Extends(k.fallbacks, y.fallbacks)
  BY <1>5, <1>8, ExtendsOn DEF StubsPatched
<1>10. ASSUME NEW a \in Ram, a < s \/ a >= s + 2 * (n + 1) PROVE y.mem[a] = k.mem[a]
  <2>1. a \in Int
    BY DEF Ram
  <2>2. a # at /\ a # at + 1 /\ (a < s \/ a >= s + 2 * n)
    BY <1>1, <1>10, <2>1
  <2> QED
    BY <1>5, <2>2 DEF StubsPatched
<1>11. ASSUME NEW j \in 1 .. n, k.mem[s + 2 * (j - 1)] < Word
       PROVE  LinkedTo(y.mem, y.fallbacks, s + 2 * (j - 1), nids[j])
  <2>1. PICK a \in Nat : a = s + 2 * (j - 1) /\ a < at /\ a >= s
    BY <1>1
  <2>2. a \in s .. s + 2 * N - 1
    BY <1>3, <2>1
  <2>3. a \in Ram /\ a # at /\ a # at + 1
    BY <1>0, <1>1, <2>1, <2>2
  <2>4. LinkedTo(x.mem, x.fallbacks, a, nids[j])
    BY <1>11, <2>1 DEF StubsPatched
  <2>5. y.mem[a] = x.mem[a]
    BY <1>5, <2>3
  <2> QED
    BY <1>5, <1>8, <2>1, <2>4, <2>5, LinkedStays
<1>12. s + 2 * ((n + 1) - 1) = at /\ \A j \in 1 .. n + 1 : j \in 1 .. n \/ j = n + 1
  BY <1>1
<1>13. ASSUME NEW j \in 1 .. n + 1, k.mem[s + 2 * (j - 1)] < Word
       PROVE  LinkedTo(y.mem, y.fallbacks, s + 2 * (j - 1), nids[j])
  <2>1. CASE j \in 1 .. n
    BY <1>11, <1>13, <2>1
  <2>2. CASE j = n + 1
    BY <1>7, <1>12, <1>13, <2>2
  <2> QED
    BY <1>12, <2>1, <2>2
<1>14. y.hull = k.hull /\ y.exported = k.exported /\ y.status = k.status
  BY <1>5 DEF StubsPatched
<1> QED
  BY <1>5, <1>9, <1>10, <1>13, <1>14 DEF StubsPatched

LEMMA LinkLibraryEffect ==
  ASSUME NEW k \in Loads, NEW lib \in LibraryType, NEW bias, NEW s \in Nat,
         s = PointerAt(k, lib.at, bias), lib.good, lib.nids # <<>>,
         InHull(k, s), InHull(k, s + 2 * Len(lib.nids) - 1),
         s .. s + 2 * Len(lib.nids) - 1 \subseteq Ram
  PROVE  StubsPatched(k, s, lib.nids, Len(lib.nids), LinkLibrary(k, lib, bias))
<1>0. lib.nids \in Seq(STRING)
  BY DEF LibraryType
<1>1. PICK N \in Nat : N = Len(lib.nids)
  BY <1>0
<1>2. PICK h : LibrarySteps(h, k, s, lib, LinkLibrary(k, lib, bias))
  BY LibraryChain
<1> DEFINE S == {n \in 0 .. N : StubsPatched(k, s, lib.nids, n, h[n])}
<1>3. 0 \in S
  <2>1. Extends(k.fallbacks, k.fallbacks)
    BY ExtendsItself DEF Loads
  <2>2. StubsPatched(k, s, lib.nids, 0, k)
    BY <2>1 DEF StubsPatched
  <2>3. h[0] = k /\ 0 \in 0 .. N
    BY <1>1, <1>2 DEF LibrarySteps
  <2> QED
    BY <2>2, <2>3
<1>4. ASSUME NEW n \in 0 .. N - 1, n \in S PROVE n + 1 \in S
  <2>1. n + 1 \in 1 .. N /\ n + 1 \in 0 .. N /\ (n + 1) - 1 = n
    BY <1>1
  <2>2. h[n + 1] = PatchStub(h[n], s + 2 * n, lib.nids[n + 1])
    BY <1>1, <1>2, <2>1 DEF LibrarySteps
  <2>3. StubsPatched(k, s, lib.nids, n, h[n])
    BY <1>4
  <2>4. StubsPatched(k, s, lib.nids, n + 1, h[n + 1])
    BY <1>0, <1>1, <2>2, <2>3, OneStubMore
  <2> QED
    BY <2>1, <2>4
<1> HIDE DEF S
<1>5. N \in S
  <2>1. \A n \in 0 .. N : n \in S
    BY <1>3, <1>4, CountUp
  <2> QED
    BY <2>1
<1> QED
  BY <1>1, <1>2, <1>5 DEF S, LibrarySteps

-----------------------------------------------------------------------------
(* Exports *)

ExportEntry == [name : {"start", "stop"}, at : Nat]
InfoType == [good : BOOLEAN, gp : Nat, exports : Seq(ExportEntry), libs : Seq(LibraryType)]

(* The pointers of the exports lead into what was loaded. *)
ExportsLead(k, info, bias) ==
  \A n \in DOMAIN info.exports :
    PointerAt(k, info.exports[n].at, bias) \in Nat
    /\ InHull(k, PointerAt(k, info.exports[n].at, bias))

ExportSteps(h, k, info, bias, x) ==
  /\ h \in [0 .. Len(info.exports) -> ExportType]
  /\ h[0] = [k.exported EXCEPT !.gp = RelocateAddr(info.gp, bias)]
  /\ \A n \in 1 .. Len(info.exports) :
       h[n] = [h[n - 1] EXCEPT ![info.exports[n].name] = PointerAt(k, info.exports[n].at, bias)]
  /\ x.exported = h[Len(info.exports)]
  /\ x \in Loads /\ x.mem = k.mem /\ x.hull = k.hull /\ x.fallbacks = k.fallbacks
  /\ x.status = k.status

LEMMA SetExport ==
  ASSUME NEW x \in ExportType, NEW name \in {"start", "stop"}, NEW v \in Nat
  PROVE  /\ [x EXCEPT ![name] = v] \in ExportType
         /\ [x EXCEPT ![name] = v][name] = v
         /\ \A m \in {"start", "stop"} : m # name => [x EXCEPT ![name] = v][m] = x[m]
BY DEF ExportType

LEMMA OwnGp ==
  ASSUME NEW info \in InfoType, NEW bias \in Nat
  PROVE  RelocateAddr(info.gp, bias) \in Nat
BY DEF InfoType, RelocateAddr

LEMMA ExportChain ==
  ASSUME NEW k \in Loads, NEW info \in InfoType, NEW bias \in Nat, ExportsLead(k, info, bias)
  PROVE  \E h : ExportSteps(h, k, info, bias, FindExports(k, info, bias))
<1> DEFINE N == Len(info.exports)
           R == ExportType
           own == RelocateAddr(info.gp, bias)
           b == [k.exported EXCEPT !.gp = own]
           Op(x, n) == [x EXCEPT ![info.exports[n].name] = PointerAt(k, info.exports[n].at, bias)]
           step == [n \in 1 .. N |-> [x \in R |-> Op(x, n)]]
           Folds(g) == g = [q \in SUBSET (1 .. N) |->
                              IF q = {} THEN b ELSE Op(g[q \ {Max(q)}], Max(q))]
           G == CHOOSE g : Folds(g)
<1>1. info.exports \in Seq(ExportEntry) /\ N \in Nat /\ DOMAIN info.exports = 1 .. N
  BY DEF InfoType
<1>0. own \in Nat /\ b \in R
  BY OwnGp DEF Loads, ExportType
<1>2. ASSUME NEW n \in 1 .. N, NEW x \in R PROVE Op(x, n) \in R
  <2>1. info.exports[n] \in ExportEntry
    BY <1>1, ElementOf
  <2>2. info.exports[n].name \in {"start", "stop"}
    BY <2>1 DEF ExportEntry
  <2>3. PointerAt(k, info.exports[n].at, bias) \in Nat
    BY <1>1 DEF ExportsLead
  <2> QED
    BY <2>2, <2>3, SetExport
<1>3. step \in [1 .. N -> [R -> R]]
  BY <1>2
<1>4. \A n \in 1 .. N, x \in R : step[n][x] = Op(x, n)
  OBVIOUS
<1>5. FindExports(k, info, bias) =
        [k EXCEPT !.gp = IF own # 0 THEN own ELSE @, !.exported = G[1 .. N]]
  <2> DEFINE Export(x, e) == LET a == PointerAt(k, e.at, bias)
                             IN  IF InHull(k, a) THEN [x EXCEPT ![e.name] = a] ELSE x
  <2>1. FindExports(k, info, bias) =
          [k EXCEPT !.gp = IF own # 0 THEN own ELSE @,
                    !.exported = FoldLeft(Export, b, info.exports)]
    BY DEF FindExports
  <2>2. \A x : \A n \in 1 .. N : Export(x, info.exports[n]) = Op(x, n)
    BY <1>1 DEF ExportsLead
  <2>3. \A q \in SUBSET (1 .. N) : q # {} => Max(q) \in 1 .. N
    BY <1>1, MaxOf
  <2> HIDE DEF Export, b, own
  <2>4. FoldLeft(Export, b, info.exports) =
          (CHOOSE g : g = [q \in SUBSET (1 .. N) |->
             IF q = {} THEN b ELSE Export(g[q \ {Max(q)}], info.exports[Max(q)])])[1 .. N]
    BY <1>1 DEF FoldLeft, MapThenFoldSet
  <2>5. ASSUME NEW g
        PROVE  (g = [q \in SUBSET (1 .. N) |->
             IF q = {} THEN b ELSE Export(g[q \ {Max(q)}], info.exports[Max(q)])]) = Folds(g)
    <3> HIDE DEF Op
    <3>1. \A q \in SUBSET (1 .. N) :
            (IF q = {} THEN b ELSE Export(g[q \ {Max(q)}], info.exports[Max(q)])) =
            (IF q = {} THEN b ELSE Op(g[q \ {Max(q)}], Max(q)))
      BY <2>2, <2>3
    <3>2. [q \in SUBSET (1 .. N) |->
             IF q = {} THEN b ELSE Export(g[q \ {Max(q)}], info.exports[Max(q)])] =
          [q \in SUBSET (1 .. N) |->
             IF q = {} THEN b ELSE Op(g[q \ {Max(q)}], Max(q))]
      BY <3>1
    <3> QED
      BY <3>2
  <2>6. (CHOOSE g : g = [q \in SUBSET (1 .. N) |->
             IF q = {} THEN b ELSE Export(g[q \ {Max(q)}], info.exports[Max(q)])]) = G
    <3> HIDE DEF Folds
    <3> QED
      BY <2>5
  <2> QED
    BY <2>1, <2>4, <2>6
<1>12. /\ FindExports(k, info, bias).mem = k.mem /\ FindExports(k, info, bias).hull = k.hull
       /\ FindExports(k, info, bias).fallbacks = k.fallbacks
       /\ FindExports(k, info, bias).status = k.status
       /\ FindExports(k, info, bias).exported = G[1 .. N]
       /\ G[1 .. N] \in R => FindExports(k, info, bias) \in Loads
  <2> HIDE DEF G, own, R
  <2>1. R = ExportType
    BY DEF R
  <2> QED
    BY <1>0, <1>5, <2>1 DEF Loads
<1> HIDE DEF Op, step, N, b, own, R
<1>6. Folds(G)
  <2>1. PICK g \in [SUBSET (1 .. N) -> R] :
          \A q \in SUBSET (1 .. N) : FoldsAt(g, b, step, q)
    BY <1>0, <1>1, <1>3, FoldExists
  <2>2. ASSUME NEW q \in SUBSET (1 .. N)
        PROVE  g[q] = IF q = {} THEN b ELSE Op(g[q \ {Max(q)}], Max(q))
    <3>1. CASE q = {}
      BY <2>1, <3>1 DEF FoldsAt
    <3>2. CASE q # {}
      <4>1. Max(q) \in 1 .. N /\ g[q \ {Max(q)}] \in R
        BY <1>1, <2>1, <3>2, MaxOf
      <4> QED
        BY <1>4, <2>1, <3>2, <4>1 DEF FoldsAt
    <3> QED
      BY <3>1, <3>2
  <2>3. Folds(g)
    BY <2>1, <2>2
  <2> QED
    BY <2>3
<1> HIDE DEF G
<1>7. G[{}] = b
  BY <1>6
<1>8. ASSUME NEW q \in SUBSET (1 .. N), q # {}, G[q \ {Max(q)}] \in R
      PROVE  G[q] = step[Max(q)][G[q \ {Max(q)}]]
  <2>1. Max(q) \in 1 .. N
    BY <1>1, <1>8, MaxOf
  <2>2. G[q] = Op(G[q \ {Max(q)}], Max(q))
    BY <1>6, <1>8
  <2> QED
    BY <1>4, <1>8, <2>1, <2>2
<1>9. Unfolds(G, N, R, b, step)
  BY <1>7, <1>8 DEF Unfolds
<1>10. PICK h : IsChain(h, N, R, b, step, G[1 .. N])
  BY <1>0, <1>1, <1>3, <1>9, FoldChain
<1>11. ASSUME NEW n \in 1 .. N PROVE h[n] = Op(h[n - 1], n)
  <2>1. n - 1 \in 0 .. N
    BY <1>1
  <2> QED
    BY <1>4, <1>10, <2>1 DEF IsChain
<1>13. h \in [0 .. N -> R] /\ h[0] = b /\ h[N] = G[1 .. N] /\ h[N] \in R
  BY <1>1, <1>10 DEF IsChain
<1>14. PICK x : x = FindExports(k, info, bias)
  OBVIOUS
<1>15. /\ x.mem = k.mem /\ x.hull = k.hull /\ x.fallbacks = k.fallbacks
       /\ x.status = k.status /\ x.exported = h[N] /\ x \in Loads
  BY <1>12, <1>13, <1>14
<1>16. \A n \in 1 .. N :
         h[n] = [h[n - 1] EXCEPT ![info.exports[n].name] = PointerAt(k, info.exports[n].at, bias)]
  BY <1>11 DEF Op
<1>17. h \in [0 .. N -> ExportType] /\ h[0] = [k.exported EXCEPT !.gp = RelocateAddr(info.gp, bias)]
  BY <1>13 DEF R, b, own
<1>18. ExportSteps(h, k, info, bias, x)
  BY <1>15, <1>16, <1>17 DEF N, ExportSteps
<1> QED
  BY <1>14, <1>18

(* What the table of exports holds after its first n entries. *)
ExportFound(k, info, bias, n, name, x) ==
  IF \E i \in 1 .. n : info.exports[i].name = name
  THEN \E i \in 1 .. n : info.exports[i].name = name
                         /\ x[name] = PointerAt(k, info.exports[i].at, bias)
  ELSE x[name] = k.exported[name]

ExportsFound(k, info, bias, x) ==
  /\ x \in Loads /\ x.mem = k.mem /\ x.hull = k.hull /\ x.fallbacks = k.fallbacks
  /\ x.status = k.status
  /\ \A name \in {"start", "stop"} :
       ExportFound(k, info, bias, Len(info.exports), name, x.exported)

LEMMA FindExportsEffect ==
  ASSUME NEW k \in Loads, NEW info \in InfoType, NEW bias \in Nat, ExportsLead(k, info, bias)
  PROVE  ExportsFound(k, info, bias, FindExports(k, info, bias))
<1>0. info.exports \in Seq(ExportEntry) /\ DOMAIN info.exports = 1 .. Len(info.exports)
  BY DEF InfoType
<1>1. PICK N \in Nat : N = Len(info.exports)
  BY <1>0
<1>2. PICK x : x = FindExports(k, info, bias)
  OBVIOUS
<1>3. PICK h : ExportSteps(h, k, info, bias, x)
  BY <1>2, ExportChain
<1> DEFINE S == {n \in 0 .. N : \A name \in {"start", "stop"} :
                                  ExportFound(k, info, bias, n, name, h[n])}
<1>4. 0 \in S
  <2>1. h[0].start = k.exported.start /\ h[0].stop = k.exported.stop
    BY <1>3 DEF ExportSteps, Loads, ExportType
  <2>2. h[0]["start"] = k.exported["start"] /\ h[0]["stop"] = k.exported["stop"]
    BY <2>1
  <2>3. \A name \in {"start", "stop"} : ExportFound(k, info, bias, 0, name, h[0])
    BY <2>2 DEF ExportFound
  <2> QED
    BY <2>3
<1>5. ASSUME NEW n \in 0 .. N - 1, n \in S PROVE n + 1 \in S
  <2>1. n + 1 \in 1 .. N /\ n + 1 \in 0 .. N /\ (n + 1) - 1 = n /\ n \in 0 .. N
    BY <1>1
  <2>2. PICK e \in ExportEntry : e = info.exports[n + 1]
    BY <1>0, <1>1, <2>1, ElementOf
  <2>3. PICK v \in Nat : v = PointerAt(k, e.at, bias)
    BY <1>0, <1>1, <2>1, <2>2 DEF ExportsLead
  <2>4. h[n] \in ExportType /\ h[n + 1] = [h[n] EXCEPT ![e.name] = v]
    BY <1>1, <1>3, <2>1, <2>2, <2>3 DEF ExportSteps
  <2>5. e.name \in {"start", "stop"}
    BY <2>2 DEF ExportEntry
  <2>6. /\ h[n + 1][e.name] = v
        /\ \A m \in {"start", "stop"} : m # e.name => h[n + 1][m] = h[n][m]
    BY <2>4, <2>5, SetExport
  <2>7. \A i \in 1 .. n + 1 : i \in 1 .. n \/ i = n + 1
    OBVIOUS
  <2>8. ASSUME NEW name \in {"start", "stop"}
        PROVE  ExportFound(k, info, bias, n + 1, name, h[n + 1])
    <3>1. CASE name = e.name
      <4>1. n + 1 \in 1 .. n + 1 /\ info.exports[n + 1].name = name
            /\ h[n + 1][name] = PointerAt(k, info.exports[n + 1].at, bias)
        BY <2>1, <2>2, <2>3, <2>6, <3>1
      <4> QED
        BY <4>1 DEF ExportFound
    <3>2. CASE name # e.name
      <4>1. h[n + 1][name] = h[n][name]
        BY <2>6, <3>2
      <4>2. ExportFound(k, info, bias, n, name, h[n])
        BY <1>5
      <4>3. \A i \in 1 .. n + 1 : info.exports[i].name = name <=>
              i \in 1 .. n /\ info.exports[i].name = name
        BY <2>2, <2>7, <3>2
      <4>4. \A i \in 1 .. n : i \in 1 .. n + 1
        OBVIOUS
      <4> QED
        BY <4>1, <4>2, <4>3, <4>4 DEF ExportFound
    <3> QED
      BY <3>1, <3>2
  <2> QED
    BY <2>1, <2>8
<1> HIDE DEF S
<1>6. N \in S
  <2>1. \A n \in 0 .. N : n \in S
    BY <1>4, <1>5, CountUp
  <2> QED
    BY <2>1
<1>7. x.exported = h[N]
  BY <1>1, <1>3 DEF ExportSteps
<1>8. \A name \in {"start", "stop"} : ExportFound(k, info, bias, N, name, x.exported)
  BY <1>6, <1>7 DEF S
<1>9. /\ x \in Loads /\ x.mem = k.mem /\ x.hull = k.hull /\ x.fallbacks = k.fallbacks
      /\ x.status = k.status
  BY <1>3 DEF ExportSteps
<1> QED
  BY <1>1, <1>2, <1>8, <1>9 DEF ExportsFound

-----------------------------------------------------------------------------
(* Libraries *)

Stub(p, n)    == Meant(p, p.file.info.libs[n].at)
StubsOf(p, n) == Stub(p, n) .. Stub(p, n) + 2 * Len(p.file.info.libs[n].nids) - 1

(* The pointer to the stubs of a library is in x what it is in k. *)
SamePointer(k, p, n, x) ==
  x.mem[p.file.info.libs[n].at + p.bias] = k.mem[p.file.info.libs[n].at + p.bias]

(* The stubs of a library are where they belong, those of others elsewhere. *)
Linkable(k, p, n) ==
  /\ p.file.info.libs[n].at + p.bias \in Ram /\ Stub(p, n) \in Nat
  /\ PointerAt(k, p.file.info.libs[n].at, p.bias) = Stub(p, n)
  /\ StubsOf(p, n) \subseteq Ram
  /\ InHull(k, Stub(p, n)) /\ InHull(k, Stub(p, n) + 2 * Len(p.file.info.libs[n].nids) - 1)
  /\ \A a \in StubsOf(p, n) : k.mem[a] < Word
  /\ \A m \in Linked(p.file) :
       /\ p.file.info.libs[m].at + p.bias \notin StubsOf(p, n)
       /\ m # n => StubsOf(p, m) \cap StubsOf(p, n) = {}

Ready(k, p) ==
  /\ k \in Loads /\ p.bias \in Nat /\ p.file.info.libs \in Seq(LibraryType)
  /\ \A n \in Linked(p.file) : Linkable(k, p, n)

(* y is x with the stubs of one library patched. *)
LibraryLinked(k, p, n, x, y) ==
  /\ y \in Loads /\ y.hull = x.hull /\ y.exported = x.exported
  /\ Extends(x.fallbacks, y.fallbacks)
  /\ \A a \in Ram : n \notin Linked(p.file) \/ a \notin StubsOf(p, n) => y.mem[a] = x.mem[a]
  /\ y.status = 0 =>
       /\ n \in Linked(p.file)
       /\ \A j \in 1 .. Len(p.file.info.libs[n].nids) :
            x.mem[Stub(p, n) + 2 * (j - 1)] < Word =>
              LinkedTo(y.mem, y.fallbacks, Stub(p, n) + 2 * (j - 1), p.file.info.libs[n].nids[j])

LEMMA LibraryEffect ==
  ASSUME NEW k, NEW p, Ready(k, p), NEW n \in 1 .. Len(p.file.info.libs),
         NEW x \in Loads, x.hull = k.hull, n \in Linked(p.file) => SamePointer(k, p, n, x)
  PROVE  LibraryLinked(k, p, n, x, LinkLibrary(x, p.file.info.libs[n], p.bias))
<1>1. PICK lib \in LibraryType : lib = p.file.info.libs[n]
  BY ElementOf DEF Ready
<1>2. PICK y : y = LinkLibrary(x, lib, p.bias)
  OBVIOUS
<1>3. n \in Linked(p.file) <=> lib.good /\ lib.nids # <<>>
  <2>1. n \in DOMAIN p.file.info.libs
    BY DEF Ready
  <2> QED
    BY <1>1, <2>1 DEF Linked
<1>4. CASE n \notin Linked(p.file)
  <2>1. y = Failed(x, -12)
    BY <1>2, <1>3, <1>4 DEF LinkLibrary
  <2>2. -12 \in Int /\ -12 # 0
    OBVIOUS
  <2>3. /\ y \in Loads /\ y.mem = x.mem /\ y.hull = x.hull /\ y.status # 0
        /\ y.exported = x.exported /\ y.fallbacks = x.fallbacks
    BY <2>1, <2>2, FailedLoad DEF SameTables
  <2>4. Extends(x.fallbacks, y.fallbacks)
    BY <2>3, ExtendsItself DEF Loads
  <2> QED
    BY <1>1, <1>2, <2>3, <2>4 DEF LibraryLinked
<1>5. CASE n \in Linked(p.file)
  <2>1. Linkable(k, p, n)
    BY <1>5 DEF Ready
  <2>2. PICK s \in Nat : s = Stub(p, n)
    BY <2>1 DEF Linkable
  <2>3. PICK nids \in Seq(STRING), N \in Nat : nids = lib.nids /\ N = Len(nids)
    BY DEF LibraryType
  <2>4. s = PointerAt(x, lib.at, p.bias)
    <3>1. PointerAt(k, lib.at, p.bias) = s
      BY <1>1, <2>1, <2>2 DEF Linkable
    <3>2. x.mem[lib.at + p.bias] = k.mem[lib.at + p.bias]
      BY <1>1, <1>5 DEF SamePointer
    <3> QED
      BY <3>1, <3>2 DEF PointerAt
  <2>5. StubsOf(p, n) = s .. s + 2 * N - 1
    BY <1>1, <2>2, <2>3 DEF StubsOf
  <2>6. InHull(x, s) /\ InHull(x, s + 2 * N - 1)
    BY <1>1, <2>1, <2>2, <2>3 DEF Linkable, InHull
  <2>7. s .. s + 2 * N - 1 \subseteq Ram
    BY <2>1, <2>5 DEF Linkable
  <2>8. StubsPatched(x, s, nids, N, y)
    BY <1>2, <1>3, <1>5, <2>3, <2>4, <2>6, <2>7, LinkLibraryEffect
  <2>9. /\ y \in Loads /\ y.hull = x.hull /\ y.exported = x.exported
        /\ Extends(x.fallbacks, y.fallbacks)
        /\ \A a \in Ram : a < s \/ a >= s + 2 * N => y.mem[a] = x.mem[a]
        /\ \A j \in 1 .. N : x.mem[s + 2 * (j - 1)] < Word =>
             LinkedTo(y.mem, y.fallbacks, s + 2 * (j - 1), nids[j])
    BY <2>8 DEF StubsPatched
  <2>10. \A a \in Ram : a \notin StubsOf(p, n) => y.mem[a] = x.mem[a]
    <3>1. \A a \in Ram : a \in Int
      BY DEF Ram
    <3> QED
      BY <2>5, <2>9, <3>1
  <2> QED
    BY <1>1, <1>2, <1>5, <2>2, <2>3, <2>9, <2>10 DEF LibraryLinked
<1> QED
  BY <1>4, <1>5

(* The libraries are linked one by one. *)
LibsSteps(h, k, p, x) ==
  /\ h \in [0 .. Len(p.file.info.libs) -> Loads] /\ h[0] = k
  /\ x = h[Len(p.file.info.libs)]
  /\ \A n \in 1 .. Len(p.file.info.libs) :
       h[n] = IF h[n - 1].status = 0 THEN LinkLibrary(h[n - 1], p.file.info.libs[n], p.bias)
              ELSE h[n - 1]

LinkLibraries(k, libs, bias) ==
  FoldLeft(LAMBDA x, lib : Then(x, LAMBDA y : LinkLibrary(y, lib, bias)), k, libs)

LEMMA LibsChain ==
  ASSUME NEW k, NEW p, Ready(k, p)
  PROVE  \E h : LibsSteps(h, k, p, LinkLibraries(k, p.file.info.libs, p.bias))
<1> DEFINE libs == p.file.info.libs
           N == Len(libs)
           R == {x \in Loads : x.hull = k.hull
                               /\ \A n \in Linked(p.file) : SamePointer(k, p, n, x)}
           Op(x, n) == IF x.status = 0 THEN LinkLibrary(x, libs[n], p.bias) ELSE x
           step == [n \in 1 .. N |-> [x \in R |-> Op(x, n)]]
           Folds(g) == g = [s \in SUBSET (1 .. N) |->
                              IF s = {} THEN k ELSE Op(g[s \ {Max(s)}], Max(s))]
           G == CHOOSE g : Folds(g)
<1>1. libs \in Seq(LibraryType) /\ N \in Nat /\ DOMAIN libs = 1 .. N
  BY DEF Ready
<1>0. k \in R
  BY DEF Ready, SamePointer
<1>2. ASSUME NEW n \in 1 .. N, NEW x \in R PROVE Op(x, n) \in R
  <2>1. CASE x.status # 0
    BY <2>1
  <2>2. CASE x.status = 0
    <3>1. PICK y : y = LinkLibrary(x, libs[n], p.bias)
      OBVIOUS
    <3>2. x \in Loads /\ x.hull = k.hull /\ (n \in Linked(p.file) => SamePointer(k, p, n, x))
      OBVIOUS
    <3>3. LibraryLinked(k, p, n, x, y)
      BY <3>1, <3>2, LibraryEffect
    <3>4. ASSUME NEW m \in Linked(p.file) PROVE SamePointer(k, p, m, y)
      <4>1. Linkable(k, p, m) /\ (n \in Linked(p.file) => Linkable(k, p, n))
        BY DEF Ready
      <4>2. PICK a \in Ram : a = p.file.info.libs[m].at + p.bias
        BY <4>1 DEF Linkable
      <4>3. n \notin Linked(p.file) \/ a \notin StubsOf(p, n)
        BY <4>1, <4>2 DEF Linkable
      <4>4. y.mem[a] = x.mem[a]
        BY <3>3, <4>3 DEF LibraryLinked
      <4> QED
        BY <4>2, <4>4 DEF SamePointer
    <3>5. y \in Loads /\ y.hull = k.hull
      BY <3>2, <3>3 DEF LibraryLinked
    <3> QED
      BY <2>2, <3>1, <3>4, <3>5
  <2> QED
    BY <2>1, <2>2
<1>3. step \in [1 .. N -> [R -> R]]
  BY <1>2
<1>4. \A n \in 1 .. N, x \in R : step[n][x] = Op(x, n)
  OBVIOUS
<1>5. LinkLibraries(k, libs, p.bias) = G[1 .. N]
  BY <1>1 DEF LinkLibraries, FoldLeft, MapThenFoldSet, Then
<1> HIDE DEF Op, step, N, libs
<1>6. Folds(G)
  <2> HIDE DEF R
  <2>1. PICK g \in [SUBSET (1 .. N) -> R] :
          \A s \in SUBSET (1 .. N) : FoldsAt(g, k, step, s)
    BY <1>0, <1>1, <1>3, FoldExists
  <2>2. ASSUME NEW s \in SUBSET (1 .. N)
        PROVE  g[s] = IF s = {} THEN k ELSE Op(g[s \ {Max(s)}], Max(s))
    <3>1. CASE s = {}
      BY <2>1, <3>1 DEF FoldsAt
    <3>2. CASE s # {}
      <4>1. Max(s) \in 1 .. N /\ g[s \ {Max(s)}] \in R
        BY <1>1, <2>1, <3>2, MaxOf
      <4> QED
        BY <1>4, <2>1, <3>2, <4>1 DEF FoldsAt
    <3> QED
      BY <3>1, <3>2
  <2>3. Folds(g)
    BY <2>1, <2>2
  <2> QED
    BY <2>3
<1> HIDE DEF G
<1>7. G[{}] = k
  BY <1>6
<1>8. ASSUME NEW s \in SUBSET (1 .. N), s # {}, G[s \ {Max(s)}] \in R
      PROVE  G[s] = step[Max(s)][G[s \ {Max(s)}]]
  <2> HIDE DEF R
  <2>1. Max(s) \in 1 .. N
    BY <1>1, <1>8, MaxOf
  <2>2. G[s] = Op(G[s \ {Max(s)}], Max(s))
    BY <1>6, <1>8
  <2> QED
    BY <1>4, <1>8, <2>1, <2>2
<1>12. \A x \in R : x \in Loads
  OBVIOUS
<1> HIDE DEF R
<1>9. Unfolds(G, N, R, k, step)
  BY <1>7, <1>8 DEF Unfolds
<1>10. PICK h : IsChain(h, N, R, k, step, G[1 .. N])
  BY <1>0, <1>1, <1>3, <1>9, FoldChain
<1>11. ASSUME NEW n \in 1 .. N PROVE h[n] = Op(h[n - 1], n)
  <2>1. n - 1 \in 0 .. N
    BY <1>1
  <2> QED
    BY <1>4, <1>10, <2>1 DEF IsChain
<1>13. PICK x : x = LinkLibraries(k, libs, p.bias) /\ x = h[N]
  BY <1>5, <1>10 DEF IsChain
<1>14. h \in [0 .. N -> Loads] /\ h[0] = k
  BY <1>10, <1>12 DEF IsChain
<1>15. LibsSteps(h, k, p, x)
  BY <1>11, <1>13, <1>14 DEF LibsSteps, Op, N, libs
<1> QED
  BY <1>13, <1>15 DEF libs

(* Every import of a library has its system call. *)
ImportsLinked(m, table, p, n) ==
  \A j \in 1 .. Len(p.file.info.libs[n].nids) :
    LinkedTo(m, table, Stub(p, n) + 2 * (j - 1), p.file.info.libs[n].nids[j])

(* x is k with the first n libraries linked, as far as nothing failed. *)
LibsLinked(k, p, n, x) ==
  /\ x \in Loads /\ x.hull = k.hull /\ x.exported = k.exported
  /\ Extends(k.fallbacks, x.fallbacks)
  /\ \A a \in Ram : (\A m \in Linked(p.file) : m <= n => a \notin StubsOf(p, m)) => x.mem[a] = k.mem[a]
  /\ x.status = 0 => \A m \in 1 .. n : m \in Linked(p.file) /\ ImportsLinked(x.mem, x.fallbacks, p, m)

LEMMA StubPlace ==
  ASSUME NEW k, NEW p, Ready(k, p), NEW n \in Linked(p.file),
         NEW j \in 1 .. Len(p.file.info.libs[n].nids)
  PROVE  Stub(p, n) + 2 * (j - 1) \in StubsOf(p, n) /\ Stub(p, n) + 2 * (j - 1) \in Ram
<1>1. Linkable(k, p, n)
  BY DEF Ready
<1>2. PICK lib \in LibraryType : lib = p.file.info.libs[n]
  <2>1. n \in 1 .. Len(p.file.info.libs)
    BY DEF Ready, Linked
  <2> QED
    BY <2>1, ElementOf DEF Ready
<1>3. PICK s \in Nat, N \in Nat : s = Stub(p, n) /\ N = Len(lib.nids)
  BY <1>1 DEF Linkable, LibraryType
<1>4. StubsOf(p, n) = s .. s + 2 * N - 1 /\ j \in 1 .. N
  BY <1>2, <1>3 DEF StubsOf
<1>5. s + 2 * (j - 1) \in s .. s + 2 * N - 1
  BY <1>4
<1>6. Stub(p, n) + 2 * (j - 1) \in StubsOf(p, n)
  BY <1>3, <1>4, <1>5
<1> QED
  BY <1>1, <1>6 DEF Linkable

LEMMA OneLibraryMore ==
  ASSUME NEW k, NEW p, Ready(k, p), NEW n \in 0 .. Len(p.file.info.libs) - 1,
         NEW x, LibsLinked(k, p, n, x),
         NEW y, y = IF x.status = 0 THEN LinkLibrary(x, p.file.info.libs[n + 1], p.bias) ELSE x
  PROVE  LibsLinked(k, p, n + 1, y)
<1>0. PICK N \in Nat : N = Len(p.file.info.libs)
  BY DEF Ready
<1>1. n + 1 \in 1 .. N /\ n \in Nat
  BY <1>0
<1>2. \A m \in Linked(p.file) : m \in 1 .. N
  BY <1>0 DEF Linked, Ready
<1>3. CASE x.status # 0
  <2>1. y = x
    BY <1>3
  <2>2. \A m \in Linked(p.file) : m <= n => m <= n + 1
    BY <1>1, <1>2
  <2> QED
    BY <1>3, <2>1, <2>2 DEF LibsLinked
<1>4. CASE x.status = 0
  <2>1. x \in Loads /\ x.hull = k.hull /\ k \in Loads
    BY DEF LibsLinked, Ready
  <2>2. ASSUME n + 1 \in Linked(p.file) PROVE SamePointer(k, p, n + 1, x)
    <3>1. PICK a \in Ram : a = p.file.info.libs[n + 1].at + p.bias
      BY <2>2 DEF Ready, Linkable
    <3>2. \A m \in Linked(p.file) : a \notin StubsOf(p, m)
      BY <2>2, <3>1 DEF Ready, Linkable
    <3> QED
      BY <3>1, <3>2 DEF LibsLinked, SamePointer
  <2>3. y = LinkLibrary(x, p.file.info.libs[n + 1], p.bias)
    BY <1>4
  <2>4. LibraryLinked(k, p, n + 1, x, y)
    BY <1>0, <1>1, <2>1, <2>2, <2>3, LibraryEffect
  <2>5. /\ y \in Loads /\ y.hull = k.hull /\ y.exported = k.exported
        /\ Extends(x.fallbacks, y.fallbacks)
    BY <2>4 DEF LibraryLinked, LibsLinked
  <2>6. k.fallbacks \in FallbackTable /\ x.fallbacks \in FallbackTable /\ y.fallbacks \in FallbackTable
    BY <2>1, <2>5 DEF Loads
  <2>7. Extends(k.fallbacks, y.fallbacks)
    BY <2>5, <2>6, ExtendsOn DEF LibsLinked
  <2>8. ASSUME NEW a \in Ram, \A m \in Linked(p.file) : m <= n + 1 => a \notin StubsOf(p, m)
        PROVE  y.mem[a] = k.mem[a]
    <3>1. \A m \in Linked(p.file) : m <= n => a \notin StubsOf(p, m)
      BY <1>1, <1>2, <2>8
    <3>2. x.mem[a] = k.mem[a]
      BY <3>1 DEF LibsLinked
    <3>3. n + 1 \notin Linked(p.file) \/ a \notin StubsOf(p, n + 1)
      BY <1>1, <2>8
    <3> QED
      BY <2>4, <3>2, <3>3 DEF LibraryLinked
  <2>9. ASSUME y.status = 0, NEW m \in 1 .. n + 1
        PROVE  m \in Linked(p.file) /\ ImportsLinked(y.mem, y.fallbacks, p, m)
    <3>1. n + 1 \in Linked(p.file)
      BY <2>4, <2>9 DEF LibraryLinked
    <3>2. CASE m = n + 1
      <4>1. ASSUME NEW j \in 1 .. Len(p.file.info.libs[m].nids)
            PROVE  LinkedTo(y.mem, y.fallbacks, Stub(p, m) + 2 * (j - 1), p.file.info.libs[m].nids[j])
        <5>1. PICK at \in Ram : at = Stub(p, m) + 2 * (j - 1) /\ at \in StubsOf(p, m)
          BY <3>1, <3>2, StubPlace
        <5>2. k.mem[at] < Word
          BY <3>1, <3>2, <5>1 DEF Ready, Linkable
        <5>3. ASSUME NEW q \in Linked(p.file), q <= n PROVE at \notin StubsOf(p, q)
          <6>1. q # m
            BY <1>1, <1>2, <3>2, <5>3
          <6>2. Linkable(k, p, m)
            BY <3>1, <3>2 DEF Ready
          <6>3. StubsOf(p, q) \cap StubsOf(p, m) = {}
            BY <6>1, <6>2 DEF Linkable
          <6> QED
            BY <5>1, <6>3
        <5>4. x.mem[at] < Word
          BY <5>2, <5>3 DEF LibsLinked
        <5> QED
          BY <2>4, <2>9, <3>2, <5>1, <5>4 DEF LibraryLinked
      <4> QED
        BY <3>1, <3>2, <4>1 DEF ImportsLinked
    <3>3. CASE m \in 1 .. n
      <4>1. m \in Linked(p.file) /\ ImportsLinked(x.mem, x.fallbacks, p, m)
        BY <1>4, <3>3 DEF LibsLinked
      <4>2. ASSUME NEW j \in 1 .. Len(p.file.info.libs[m].nids)
            PROVE  LinkedTo(y.mem, y.fallbacks, Stub(p, m) + 2 * (j - 1), p.file.info.libs[m].nids[j])
        <5>1. PICK at \in Ram : at = Stub(p, m) + 2 * (j - 1) /\ at \in StubsOf(p, m)
          BY <4>1, StubPlace
        <5>2. m # n + 1 /\ Linkable(k, p, n + 1)
          BY <3>1, <3>3 DEF Ready
        <5>3. at \notin StubsOf(p, n + 1)
          BY <4>1, <5>1, <5>2 DEF Linkable
        <5>4. y.mem[at] = x.mem[at]
          BY <2>4, <5>3 DEF LibraryLinked
        <5>5. LinkedTo(x.mem, x.fallbacks, at, p.file.info.libs[m].nids[j])
          BY <4>1, <5>1 DEF ImportsLinked
        <5> QED
          BY <2>5, <2>6, <5>1, <5>4, <5>5, LinkedStays
      <4> QED
        BY <4>1, <4>2 DEF ImportsLinked
    <3> QED
      BY <1>1, <3>2, <3>3
  <2> QED
    BY <2>5, <2>7, <2>8, <2>9 DEF LibsLinked
<1> QED
  BY <1>3, <1>4

LEMMA LinkLibrariesEffect ==
  ASSUME NEW k, NEW p, Ready(k, p)
  PROVE  LibsLinked(k, p, Len(p.file.info.libs), LinkLibraries(k, p.file.info.libs, p.bias))
<1>0. PICK N \in Nat : N = Len(p.file.info.libs)
  BY DEF Ready
<1>1. PICK x : x = LinkLibraries(k, p.file.info.libs, p.bias)
  OBVIOUS
<1>2. PICK h : LibsSteps(h, k, p, x)
  BY <1>1, LibsChain
<1> DEFINE S == {n \in 0 .. N : LibsLinked(k, p, n, h[n])}
<1>3. 0 \in S
  <2>1. k \in Loads /\ Extends(k.fallbacks, k.fallbacks)
    BY ExtendsItself DEF Loads, Ready
  <2>2. LibsLinked(k, p, 0, k)
    BY <2>1 DEF LibsLinked
  <2>3. h[0] = k /\ 0 \in 0 .. N
    BY <1>2 DEF LibsSteps
  <2> QED
    BY <2>2, <2>3
<1>4. ASSUME NEW n \in 0 .. N - 1, n \in S PROVE n + 1 \in S
  <2>1. n + 1 \in 1 .. N /\ n + 1 \in 0 .. N /\ (n + 1) - 1 = n
    OBVIOUS
  <2>2. h[n + 1] = IF h[n].status = 0 THEN LinkLibrary(h[n], p.file.info.libs[n + 1], p.bias)
                   ELSE h[n]
    BY <1>0, <1>2, <2>1 DEF LibsSteps
  <2>3. LibsLinked(k, p, n, h[n])
    BY <1>4
  <2>4. LibsLinked(k, p, n + 1, h[n + 1])
    BY <1>0, <2>2, <2>3, OneLibraryMore
  <2> QED
    BY <2>1, <2>4
<1> HIDE DEF S
<1>5. N \in S
  <2>1. \A n \in 0 .. N : n \in S
    BY <1>3, <1>4, CountUp
  <2> QED
    BY <2>1
<1> QED
  BY <1>0, <1>1, <1>2, <1>5 DEF S, LibsSteps

(* x is k with the exports found and the libraries linked. *)
ModuleLinked(k, p, x) ==
  /\ x \in Loads /\ x.hull = k.hull /\ Extends(k.fallbacks, x.fallbacks)
  /\ \A a \in Ram :
       (ValidInfo(p.file.info, p.bias) => \A m \in Linked(p.file) : a \notin StubsOf(p, m)) =>
         x.mem[a] = k.mem[a]
  /\ x.status = 0 /\ ValidInfo(p.file.info, p.bias) =>
       \A m \in 1 .. Len(p.file.info.libs) :
         m \in Linked(p.file) /\ ImportsLinked(x.mem, x.fallbacks, p, m)
  /\ \A name \in {"start", "stop"} :
       IF ValidInfo(p.file.info, p.bias)
       THEN ExportFound(k, p.file.info, p.bias, Len(p.file.info.exports), name, x.exported)
       ELSE x.exported[name] = k.exported[name]

LEMMA ReadyToo ==
  ASSUME NEW k, NEW p, Ready(k, p), NEW y \in Loads, y.mem = k.mem, y.hull = k.hull
  PROVE  Ready(y, p)
<1>1. \A n \in Linked(p.file) : Linkable(y, p, n)
  BY DEF Ready, Linkable, InHull, PointerAt
<1> QED
  BY <1>1 DEF Ready

LEMMA LinkModuleEffect ==
  ASSUME NEW k \in Loads, NEW p, p.bias \in Nat, p.file.info \in InfoType,
         ValidInfo(p.file.info, p.bias) => Ready(k, p) /\ ExportsLead(k, p.file.info, p.bias)
  PROVE  ModuleLinked(k, p, LinkModule(k, p.file, p.bias))
<1>1. CASE ~ ValidInfo(p.file.info, p.bias)
  <2>1. LinkModule(k, p.file, p.bias) = k
    BY <1>1 DEF LinkModule
  <2>2. Extends(k.fallbacks, k.fallbacks)
    BY ExtendsItself DEF Loads
  <2> QED
    BY <1>1, <2>1, <2>2 DEF ModuleLinked
<1>2. CASE ValidInfo(p.file.info, p.bias)
  <2>1. PICK y : y = FindExports(k, p.file.info, p.bias)
    OBVIOUS
  <2>2. PICK x : x = LinkLibraries(y, p.file.info.libs, p.bias)
    OBVIOUS
  <2>3. LinkModule(k, p.file, p.bias) = x
    BY <1>2, <2>1, <2>2 DEF LinkModule, LinkLibraries
  <2>4. ExportsFound(k, p.file.info, p.bias, y)
    BY <1>2, <2>1, FindExportsEffect
  <2>5. /\ y \in Loads /\ y.mem = k.mem /\ y.hull = k.hull /\ y.fallbacks = k.fallbacks
        /\ \A name \in {"start", "stop"} :
             ExportFound(k, p.file.info, p.bias, Len(p.file.info.exports), name, y.exported)
    BY <2>4 DEF ExportsFound
  <2>6. Ready(y, p)
    BY <1>2, <2>5, ReadyToo
  <2>7. LibsLinked(y, p, Len(p.file.info.libs), x)
    BY <2>2, <2>6, LinkLibrariesEffect
  <2>8. \A m \in Linked(p.file) : m <= Len(p.file.info.libs)
    <3>1. p.file.info.libs \in Seq(LibraryType)
      BY DEF InfoType
    <3> QED
      BY <3>1 DEF Linked
  <2>9. /\ x \in Loads /\ x.hull = k.hull /\ x.exported = y.exported
        /\ Extends(k.fallbacks, x.fallbacks)
        /\ \A a \in Ram : (\A m \in Linked(p.file) : a \notin StubsOf(p, m)) => x.mem[a] = k.mem[a]
        /\ x.status = 0 => \A m \in 1 .. Len(p.file.info.libs) :
             m \in Linked(p.file) /\ ImportsLinked(x.mem, x.fallbacks, p, m)
    BY <2>5, <2>7, <2>8 DEF LibsLinked
  <2> QED
    BY <1>2, <2>3, <2>5, <2>9 DEF ModuleLinked
<1> QED
  BY <1>1, <1>2

-----------------------------------------------------------------------------
(* What linking finds in a file that is in place and moved *)

MovedInPlace(k, f, bias, x) ==
  /\ Movable(f) /\ bias \in Nat /\ k \in Loads /\ AllInPlace(k, f, bias)
  /\ RelocatedTo(k, f, bias, Len(f.relocs), x) /\ x.status = 0
  /\ f.entry \in Nat /\ (bias = 0 \/ f.entry < UserStart)
  /\ f.info \in InfoType /\ InfoFits(f)

LEMMA MeantInt ==
  ASSUME NEW k, NEW f, NEW bias, NEW x, MovedInPlace(k, f, bias, x), NEW at, IsPointer(f, at)
  PROVE  Meant(Unmoved(f), at) \in Int
<1>1. PICK i, n : /\ IsWordAt(f, at, i, n)
                  /\ \/ \E e \in Movers(f, at) : e.type = 2 /\ e.rel \in DOMAIN f.segs
                     \/ /\ \A e \in Movers(f, at) : e.type \notin 1 .. 6
                        /\ f.segs[i].words[n] \in 1 .. UserStart - 1 \/ f.entry >= UserStart
  BY DEF IsPointer, IsWordAt
<1>2. Movable(f) /\ bias \in Nat /\ k \in Loads /\ AllInPlace(k, f, bias)
  BY DEF MovedInPlace
<1>3. PICK w \in Nat : w = f.segs[i].words[n]
  <2>1. f.segs[i].words[n] \in 0 .. Word - 1
    BY <1>1, <1>2, WordCell
  <2> QED
    BY <2>1
<1>4. Unmoved(f).file = f /\ Unmoved(f).bias = 0
  BY DEF Unmoved
<1>5. /\ \A e \in Movers(f, at) : e.type = 2 =>
           Meant(Unmoved(f), at) = w + SegmentAt(f, 0, e.rel)
      /\ (\A e \in Movers(f, at) : e.type \notin 1 .. 6) => Meant(Unmoved(f), at) = w + 0
  BY <1>1, <1>2, <1>3, <1>4, MeantIs
<1>6. \A i_1 : SegmentAt(f, 0, i_1) \in Nat
  <2>1. f.segs \in Seq(SegmentType) /\ 0 \in Nat
    BY <1>2 DEF Movable
  <2> QED
    BY <2>1, SegmentAtType
<1> QED
  BY <1>1, <1>3, <1>5, <1>6

(* The value of a pointer into the file. *)
Leads(k, p, at) ==
  /\ at \in Nat /\ at + p.bias \in Ram
  /\ Meant(Unmoved(p.file), at) \in Int
  /\ Meant(p, at) = Meant(Unmoved(p.file), at) + p.bias
  /\ Meant(p, at) \in Nat /\ InHull(k, Meant(p, at))
  /\ PointerAt(k, at, p.bias) = Meant(p, at)

LEMMA PointerLeads ==
  ASSUME NEW k, NEW f, NEW bias, NEW x, MovedInPlace(k, f, bias, x),
         NEW at, IsPointer(f, at), Meant(Unmoved(f), at) \in Cells(Unmoved(f)),
         NEW p, p.file = f, p.bias = bias
  PROVE  Leads(x, p, at)
<1>1. /\ at \in Nat /\ at + bias \in Ram
      /\ Meant(Unmoved(f), at) \in Int /\ Meant(p, at) = Meant(Unmoved(f), at) + bias
      /\ Meant(p, at) \in Ram
      /\ RelocateAddr(x.mem[at + bias], bias) = Meant(p, at)
  <2>1. /\ Movable(f) /\ bias \in Nat /\ k \in Loads /\ AllInPlace(k, f, bias)
        /\ RelocatedTo(k, f, bias, Len(f.relocs), x) /\ x.status = 0
        /\ f.entry \in Nat /\ (bias = 0 \/ f.entry < UserStart)
    BY DEF MovedInPlace
  <2> QED
    BY <2>1, PointerValue
<1>2. PICK c : c = Meant(Unmoved(f), at)
  OBVIOUS
<1>3. InHull([hull |-> k.hull], c + bias)
  BY <1>2, CellMoved DEF MovedInPlace
<1>4. x.hull = k.hull
  BY DEF MovedInPlace, RelocatedTo
<1>5. InHull(x, Meant(p, at))
  BY <1>1, <1>2, <1>3, <1>4 DEF InHull
<1>6. Meant(p, at) \in Nat
  BY <1>1, Layout DEF Ram
<1> QED
  BY <1>1, <1>5, <1>6 DEF Leads, PointerAt

(* A cell that no relocation moves holds a word of the file or zero. *)
LEMMA UnmovedCell ==
  ASSUME NEW k, NEW f, NEW bias, NEW x, MovedInPlace(k, f, bias, x),
         NEW c, c \in Cells(Unmoved(f)), Movers(f, c) = {}
  PROVE  x.mem[c + bias] < Word
<1>1. Movable(f) /\ bias \in Nat /\ k \in Loads /\ AllInPlace(k, f, bias)
  BY DEF MovedInPlace
<1>2. PICK p : p = [file |-> f, bias |-> bias]
  OBVIOUS
<1>3. c \in Int /\ c + bias \in Cells(p) /\ c + bias \in Ram
  <2>1. p.file = f /\ p.bias = bias
    BY <1>2
  <2> QED
    BY <1>1, <2>1, CellMoved
<1>4. PICK a \in Ram : a = c + bias
  BY <1>3
<1>5. PICK i \in DOMAIN f.segs : a \in Span(f.segs[i], bias)
  BY <1>2, <1>3, <1>4, CellsIs
<1>6. PICK seg \in SegmentType : seg = f.segs[i]
  BY <1>1, ElementOf DEF Movable
<1>7. InPlace(k, seg, bias)
  BY <1>1, <1>6 DEF AllInPlace
<1>8. k.mem[a] < Word
  <2>1. k.mem[a] = IF a < bias + seg.at + Len(seg.words)
                   THEN seg.words[a - (bias + seg.at) + 1] ELSE 0
    BY <1>5, <1>6, <1>7 DEF InPlace, Laid
  <2>2. PICK s \in Nat, l \in Nat, z \in Nat :
          s = seg.at /\ l = Len(seg.words) /\ z = seg.zeros
    BY <1>7 DEF SegmentType, InPlace
  <2>3. a \in bias + s .. bias + s + l + z - 1
    BY <1>5, <1>6, <2>2 DEF Span
  <2>4. CASE a < bias + s + l
    <3>1. PICK n : n = a - (bias + s) + 1 /\ n \in 1 .. l
      <4>1. a \in Int /\ bias + s <= a /\ a < bias + s + l
        BY <2>3, <2>4
      <4>2. a - (bias + s) + 1 \in 1 .. l
        BY <1>1, <2>2, <4>1
      <4> QED
        BY <4>2
    <3>2. seg.words[n] \in 0 .. Word - 1
      BY <2>2, <3>1, ElementOf DEF SegmentType
    <3>3. k.mem[a] = seg.words[n]
      BY <2>1, <2>2, <2>4, <3>1
    <3> QED
      BY <3>2, <3>3, HalfFacts
  <2>5. CASE ~(a < bias + s + l)
    <3>1. k.mem[a] = 0
      BY <2>1, <2>2, <2>5
    <3> QED
      BY <3>1, Layout
  <2> QED
    BY <2>4, <2>5
<1>9. ASSUME NEW j \in 1 .. Len(f.relocs), MovesAt(f, bias, f.relocs[j].entries, a) PROVE FALSE
  <2>1. PICK r \in DOMAIN f.relocs[j].entries :
          /\ f.relocs[j].entries[r].seg \in DOMAIN f.segs
          /\ Target(f, bias, f.relocs[j].entries[r]) = a
    BY <1>9 DEF MovesAt
  <2>2. j \in DOMAIN f.relocs
    BY <1>1 DEF Movable
  <2>3. PICK e \in EntryType : e = f.relocs[j].entries[r]
    BY <1>1, <2>2, SectionEntry
  <2>4. Target(f, bias, e) = Target(f, 0, e) + bias /\ Target(f, 0, e) \in Nat
    BY <1>1, <2>1, <2>3, TargetIs DEF Movable
  <2>5. Target(f, 0, e) = c
    BY <1>1, <1>3, <1>4, <2>1, <2>3, <2>4
  <2>6. e \in Movers(f, Target(f, 0, e))
    BY <1>1, <2>1, <2>2, <2>3, EntryMoves
  <2> QED
    BY <2>5, <2>6
<1>10. x.mem[a] = k.mem[a]
  BY <1>9 DEF MovedInPlace, RelocatedTo
<1> QED
  BY <1>4, <1>8, <1>10

(* A linked library: its pointer leads to its stubs, moved by the base. *)
LibraryFits(f, n) ==
  /\ n \in Linked(f)
  /\ IsPointer(f, f.info.libs[n].at)
  /\ Stubs(f, n) \subseteq Cells(Unmoved(f))
  /\ \A at \in Stubs(f, n) : Movers(f, at) = {}
  /\ \A m \in Linked(f) :
       f.info.libs[m].at \notin Stubs(f, n) /\ (m # n => Stubs(f, m) \cap Stubs(f, n) = {})

LEMMA LibrariesFit ==
  ASSUME NEW f, InfoFits(f), NEW n \in Linked(f)
  PROVE  LibraryFits(f, n)
BY DEF InfoFits, LibraryFits

StubsMoved(f, p, n, s, N) ==
  /\ Stubs(f, n) = s .. s + 2 * N - 1 /\ N > 0 /\ N = Len(f.info.libs[n].nids)
  /\ s = Meant(Unmoved(f), f.info.libs[n].at)

LEMMA StubsAre ==
  ASSUME NEW k, NEW f, NEW bias, NEW x, MovedInPlace(k, f, bias, x), NEW n \in Linked(f),
         NEW p, p.file = f, p.bias = bias
  PROVE  \E s \in Int, N \in Nat : StubsMoved(f, p, n, s, N)
<1>1. f.info.libs \in Seq(LibraryType) /\ n \in 1 .. Len(f.info.libs)
  BY DEF MovedInPlace, InfoType, Linked
<1>2. PICK lib \in LibraryType : lib = f.info.libs[n]
  BY <1>1, ElementOf
<1>3. lib.nids \in Seq(STRING) /\ lib.nids # <<>>
  BY <1>2 DEF LibraryType, Linked
<1>4. PICK N \in Nat : N = Len(lib.nids) /\ N > 0
  BY <1>3
<1>5. LibraryFits(f, n)
  BY LibrariesFit DEF MovedInPlace
<1>6. PICK s \in Int : s = Meant(Unmoved(f), lib.at)
  BY <1>2, <1>5, MeantInt DEF LibraryFits
<1>7. Stubs(f, n) = s .. s + 2 * N - 1
  BY <1>2, <1>4, <1>6 DEF Stubs
<1>8. StubsMoved(f, p, n, s, N)
  BY <1>2, <1>4, <1>6, <1>7 DEF StubsMoved
<1> QED
  BY <1>8

(* What is known of the stubs of a library. *)
StubFacts(x, p, n) ==
  /\ Leads(x, p, p.file.info.libs[n].at) /\ Stub(p, n) \in Nat
  /\ Stub(p, n) + 2 * Len(p.file.info.libs[n].nids) - 1 \in StubsOf(p, n)
  /\ Stub(p, n) \in StubsOf(p, n)
  /\ \A a \in StubsOf(p, n) : a \in Int /\ a - p.bias \in Stubs(p.file, n)

LEMMA StubFact ==
  ASSUME NEW k, NEW f, NEW bias, NEW x, MovedInPlace(k, f, bias, x), NEW n \in Linked(f),
         NEW p, p.file = f, p.bias = bias
  PROVE  StubFacts(x, p, n)
<1>1. PICK s \in Int, N \in Nat : StubsMoved(f, p, n, s, N)
  BY StubsAre
<1>2. Stubs(f, n) = s .. s + 2 * N - 1 /\ N > 0 /\ N = Len(f.info.libs[n].nids)
      /\ s = Meant(Unmoved(f), f.info.libs[n].at)
  BY <1>1 DEF StubsMoved
<1>3. LibraryFits(f, n) /\ bias \in Nat
  BY LibrariesFit DEF MovedInPlace
<1>4. s \in s .. s + 2 * N - 1
  BY <1>2
<1>5. Meant(Unmoved(f), f.info.libs[n].at) \in Cells(Unmoved(f))
  BY <1>2, <1>3, <1>4 DEF LibraryFits
<1>6. PICK at : at = f.info.libs[n].at
  OBVIOUS
<1>7. Leads(x, p, at)
  BY <1>3, <1>5, <1>6, PointerLeads DEF LibraryFits
<1>8. PICK t \in Nat : t = Stub(p, n) /\ t = s + bias
  <2>1. Meant(p, at) = s + bias /\ Meant(p, at) \in Nat
    BY <1>2, <1>6, <1>7 DEF Leads
  <2> QED
    BY <1>6, <2>1 DEF Stub
<1>9. StubsOf(p, n) = t .. t + 2 * N - 1
  BY <1>2, <1>8 DEF StubsOf
<1>10. t \in t .. t + 2 * N - 1 /\ t + 2 * N - 1 \in t .. t + 2 * N - 1
  BY <1>2
<1>11. \A a \in t .. t + 2 * N - 1 : a \in Int /\ a - bias \in s .. s + 2 * N - 1
  BY <1>3, <1>8
<1> QED
  BY <1>2, <1>6, <1>7, <1>8, <1>9, <1>10, <1>11 DEF StubFacts

(* A stub is a cell of what was loaded that holds no system call. *)
LEMMA StubCell ==
  ASSUME NEW k, NEW f, NEW bias, NEW x, MovedInPlace(k, f, bias, x), NEW n \in Linked(f),
         NEW p, p.file = f, p.bias = bias, NEW a \in StubsOf(p, n)
  PROVE  /\ a \in Cells(p) /\ a \in Ram /\ InHull(x, a) /\ x.mem[a] < Word
         /\ Movers(f, a - bias) = {} /\ a - bias \in Int /\ a = (a - bias) + bias
<1>1. StubFacts(x, p, n)
  BY StubFact
<1>2. PICK c : c = a - bias /\ c \in Stubs(f, n) /\ a \in Int
  BY <1>1 DEF StubFacts
<1>3. LibraryFits(f, n)
  BY LibrariesFit DEF MovedInPlace
<1>4. c \in Cells(Unmoved(f)) /\ Movers(f, c) = {}
  BY <1>2, <1>3 DEF LibraryFits
<1>5. Movable(f) /\ bias \in Nat /\ k \in Loads /\ AllInPlace(k, f, bias)
      /\ x.hull = k.hull
  BY DEF MovedInPlace, RelocatedTo
<1>6. /\ c \in Int /\ c + bias \in Cells(p) /\ c + bias \in Ram
      /\ InHull([hull |-> k.hull], c + bias)
  BY <1>4, <1>5, CellMoved
<1>7. c + bias = a
  BY <1>2, <1>5
<1>8. x.mem[c + bias] < Word
  BY <1>4, UnmovedCell
<1>9. InHull(x, a)
  BY <1>5, <1>6, <1>7 DEF InHull
<1> QED
  BY <1>2, <1>4, <1>6, <1>7, <1>8, <1>9

LEMMA LibraryReady ==
  ASSUME NEW k, NEW f, NEW bias, NEW x, MovedInPlace(k, f, bias, x), NEW n \in Linked(f),
         NEW p, p.file = f, p.bias = bias
  PROVE  Linkable(x, p, n)
<1>1. StubFacts(x, p, n)
  BY StubFact
<1>2. PICK at : at = f.info.libs[n].at
  OBVIOUS
<1>3. /\ at + p.bias \in Ram /\ Stub(p, n) \in Nat /\ PointerAt(x, at, p.bias) = Stub(p, n)
  BY <1>1, <1>2 DEF StubFacts, Leads, Stub
<1>4. \A a \in StubsOf(p, n) : a \in Ram /\ InHull(x, a) /\ x.mem[a] < Word
  BY StubCell
<1>5. InHull(x, Stub(p, n)) /\ InHull(x, Stub(p, n) + 2 * Len(p.file.info.libs[n].nids) - 1)
  BY <1>1, <1>4 DEF StubFacts
<1>6. ASSUME NEW m \in Linked(f)
      PROVE  /\ f.info.libs[m].at + p.bias \notin StubsOf(p, n)
             /\ m # n => StubsOf(p, m) \cap StubsOf(p, n) = {}
  <2>1. LibraryFits(f, n) /\ bias \in Nat
    BY LibrariesFit DEF MovedInPlace
  <2>2. f.info.libs[m].at \notin Stubs(f, n) /\ (m # n => Stubs(f, m) \cap Stubs(f, n) = {})
    BY <2>1 DEF LibraryFits
  <2>3. StubFacts(x, p, m)
    BY StubFact
  <2>4. PICK q \in Nat : q = f.info.libs[m].at
    BY <2>3 DEF StubFacts, Leads
  <2>5. (q + bias) - bias = q
    BY <2>1
  <2>6. q + bias \notin StubsOf(p, n)
    BY <1>1, <2>2, <2>4, <2>5 DEF StubFacts
  <2>7. ASSUME m # n, NEW a \in StubsOf(p, m), a \in StubsOf(p, n) PROVE FALSE
    BY <1>1, <2>2, <2>3, <2>7 DEF StubFacts
  <2> QED
    BY <2>4, <2>6, <2>7
<1> QED
  BY <1>2, <1>3, <1>4, <1>5, <1>6 DEF Linkable

LEMMA LoadReady ==
  ASSUME NEW k, NEW f, NEW bias, NEW x, MovedInPlace(k, f, bias, x),
         NEW p, p.file = f, p.bias = bias
  PROVE  Ready(x, p) /\ ExportsLead(x, f.info, bias)
<1>1. Ready(x, p)
  <2>1. x \in Loads /\ bias \in Nat /\ f.info.libs \in Seq(LibraryType)
    BY DEF MovedInPlace, RelocatedTo, InfoType
  <2>2. \A n \in Linked(f) : Linkable(x, p, n)
    BY LibraryReady
  <2> QED
    BY <2>1, <2>2 DEF Ready
<1>2. ASSUME NEW n \in DOMAIN f.info.exports
      PROVE  Leads(x, p, f.info.exports[n].at)
  <2>1. PICK at : at = f.info.exports[n].at
    OBVIOUS
  <2>2. IsPointer(f, at) /\ Meant(Unmoved(f), at) \in Cells(Unmoved(f))
    BY <2>1 DEF MovedInPlace, InfoFits
  <2> QED
    BY <2>1, <2>2, PointerLeads
<1>3. ExportsLead(x, f.info, bias)
  BY <1>2 DEF ExportsLead, Leads
<1> QED
  BY <1>1, <1>3

LEMMA ExportLeads ==
  ASSUME NEW k, NEW f, NEW bias, NEW x, MovedInPlace(k, f, bias, x),
         NEW p, p.file = f, p.bias = bias, NEW n \in DOMAIN f.info.exports
  PROVE  PointerAt(x, f.info.exports[n].at, bias) = Meant(p, f.info.exports[n].at)
<1>1. PICK at : at = f.info.exports[n].at
  OBVIOUS
<1>2. IsPointer(f, at) /\ Meant(Unmoved(f), at) \in Cells(Unmoved(f))
  BY <1>1 DEF MovedInPlace, InfoFits
<1>3. Leads(x, p, at)
  BY <1>2, PointerLeads
<1> QED
  BY <1>1, <1>3 DEF Leads

-----------------------------------------------------------------------------
(* A whole load *)

LEMMA CellAbove ==
  ASSUME NEW f, f.segs \in Seq(SegmentType), NEW bias \in Nat,
         NEW p, p.file = f, p.bias = bias, NEW a \in Cells(p)
  PROVE  a \in Int /\ a >= bias
<1>1. PICK i \in DOMAIN f.segs : a \in Span(f.segs[i], bias)
  BY CellsIs
<1>2. PICK seg \in SegmentType : seg = f.segs[i]
  BY ElementOf
<1>3. PICK s \in Nat, l \in Nat, z \in Int : s = seg.at /\ l = Len(seg.words) /\ z = seg.zeros
  BY DEF SegmentType
<1>4. a \in bias + s .. bias + s + l + z - 1
  BY <1>1, <1>2, <1>3 DEF Span
<1> QED
  BY <1>4

LEMMA CellInPlace ==
  ASSUME NEW f, f.segs \in Seq(SegmentType), NEW bias \in Nat, NEW k \in Loads,
         AllInPlace(k, f, bias), NEW p, p.file = f, p.bias = bias, NEW a \in Cells(p)
  PROVE  a \in Ram /\ a < k.hull[2]
<1>1. PICK i \in DOMAIN f.segs : a \in Span(f.segs[i], bias)
  BY CellsIs
<1>2. PICK seg \in SegmentType : seg = f.segs[i]
  BY ElementOf
<1>3. InPlace(k, seg, bias)
  BY <1>2 DEF AllInPlace
<1>4. PICK s \in Nat, l \in Nat, z \in Nat : s = seg.at /\ l = Len(seg.words) /\ z = seg.zeros
  BY <1>3 DEF SegmentType, InPlace
<1>5. a \in bias + s .. bias + s + l + z - 1 /\ a \in Ram
  BY <1>1, <1>2, <1>3, <1>4 DEF Span, InPlace
<1>6. k.hull[2] \in Nat /\ bias + s + l + z <= k.hull[2]
  BY <1>3, <1>4 DEF InPlace, Covers, Loads, HullType
<1> QED
  BY <1>5, <1>6

LEMMA MovesAbove ==
  ASSUME NEW f, Movable(f), NEW bias \in Nat, NEW i \in DOMAIN f.relocs,
         NEW a \in Int, a < bias
  PROVE  ~ MovesAt(f, bias, f.relocs[i].entries, a)
<1>1. SUFFICES ASSUME NEW r \in DOMAIN f.relocs[i].entries,
                      f.relocs[i].entries[r].seg \in DOMAIN f.segs,
                      Target(f, bias, f.relocs[i].entries[r]) = a
               PROVE  FALSE
  BY DEF MovesAt
<1>2. PICK e \in EntryType : e = f.relocs[i].entries[r]
  BY SectionEntry
<1>3. Target(f, bias, e) = Target(f, 0, e) + bias /\ Target(f, 0, e) \in Nat
  BY <1>1, <1>2, TargetIs DEF Movable
<1> QED
  BY <1>1, <1>2, <1>3

(* The words that the entries of a file move. *)
EntryPlaces(f, bias) ==
  {a \in Nat : \E i \in DOMAIN f.relocs : \E r \in DOMAIN f.relocs[i].entries :
                 InFile(f, f.relocs[i].entries[r]) /\ a = Target(f, bias, f.relocs[i].entries[r])}

LEMMA EntryPlace ==
  ASSUME NEW f, Movable(f), NEW bias \in Nat, NEW i \in DOMAIN f.relocs,
         NEW r \in DOMAIN f.relocs[i].entries, InFile(f, f.relocs[i].entries[r])
  PROVE  Target(f, bias, f.relocs[i].entries[r]) \in EntryPlaces(f, bias)
<1>1. PICK e \in EntryType : e = f.relocs[i].entries[r]
  BY SectionEntry
<1>2. e.seg \in DOMAIN f.segs
  BY <1>1 DEF InFile
<1>3. Target(f, bias, e) \in Nat
  BY <1>2, TargetIs DEF Movable
<1> QED
  BY <1>1, <1>3 DEF EntryPlaces

EntryHolds(m, f, bias, es, r) ==
  InFile(f, es[r]) =>
    /\ es[r].type = 2 => m[Target(f, bias, es[r])] =
         (FileWord(f, es[r]) + SegmentAt(f, bias, es[r].rel)) % Word
    /\ es[r].type = 5 /\ r < Len(es) /\ es[r + 1].type = 6 /\ InFile(f, es[r + 1]) =>
         Composed(m[Target(f, bias, es[r])], m[Target(f, bias, es[r + 1])]) =
           (Composed(FileWord(f, es[r]), FileWord(f, es[r + 1]))
             + SegmentAt(f, bias, es[r].rel)) % Word

LEMMA EntriesHold ==
  ASSUME NEW f, NEW bias, NEW m, FileMoved(m, f, bias),
         NEW i \in DOMAIN f.relocs, NEW r \in DOMAIN f.relocs[i].entries
  PROVE  EntryHolds(m, f, bias, f.relocs[i].entries, r)
BY DEF FileMoved, EntryHolds

LEMMA AllEntriesHold ==
  ASSUME NEW f, NEW bias, NEW m,
         \A i \in DOMAIN f.relocs : \A r \in DOMAIN f.relocs[i].entries :
           EntryHolds(m, f, bias, f.relocs[i].entries, r)
  PROVE  FileMoved(m, f, bias)
<1>1. SUFFICES ASSUME NEW i \in DOMAIN f.relocs, NEW es, es = f.relocs[i].entries,
                      NEW r \in DOMAIN es, InFile(f, es[r])
      PROVE  /\ es[r].type = 2 => m[Target(f, bias, es[r])] =
                  (FileWord(f, es[r]) + SegmentAt(f, bias, es[r].rel)) % Word
             /\ es[r].type = 5 /\ r < Len(es) /\ es[r + 1].type = 6 /\ InFile(f, es[r + 1]) =>
                  Composed(m[Target(f, bias, es[r])], m[Target(f, bias, es[r + 1])]) =
                    (Composed(FileWord(f, es[r]), FileWord(f, es[r + 1]))
                      + SegmentAt(f, bias, es[r].rel)) % Word
  BY DEF FileMoved
<1>2. EntryHolds(m, f, bias, es, r)
  BY <1>1
<1> QED
  BY <1>1, <1>2 DEF EntryHolds

LEMMA FileMovedKept ==
  ASSUME NEW f, Movable(f), NEW bias \in Nat, NEW m, FileMoved(m, f, bias),
         NEW y, \A a \in EntryPlaces(f, bias) : y[a] = m[a]
  PROVE  FileMoved(y, f, bias)
<1>1. ASSUME NEW i \in DOMAIN f.relocs, NEW r \in DOMAIN f.relocs[i].entries
      PROVE  EntryHolds(y, f, bias, f.relocs[i].entries, r)
  <2>0. PICK es \in Seq(EntryType) : es = f.relocs[i].entries
    BY <1>1, SectionEntry
  <2>1. EntryHolds(m, f, bias, es, r)
    BY <2>0, EntriesHold
  <2>2. InFile(f, es[r]) => y[Target(f, bias, es[r])] = m[Target(f, bias, es[r])]
    BY <2>0, EntryPlace
  <2>3. r < Len(es) /\ InFile(f, es[r + 1]) =>
          y[Target(f, bias, es[r + 1])] = m[Target(f, bias, es[r + 1])]
    <3>1. r < Len(es) => r + 1 \in DOMAIN es
      BY <2>0
    <3> QED
      BY <2>0, <3>1, EntryPlace
  <2> QED
    BY <2>0, <2>1, <2>2, <2>3 DEF EntryHolds
<1> QED
  BY <1>1, AllEntriesHold

(* What remains true of a file after its load. *)
Settled(p, m, table) ==
  /\ EntryPlaces(p.file, p.bias) \subseteq Cells(p)
  /\ FileMoved(m, p.file, p.bias)
  /\ ValidInfo(p.file.info, p.bias) =>
       \A n \in 1 .. Len(p.file.info.libs) :
         /\ \A j \in 1 .. Len(p.file.info.libs[n].nids) : Stub(p, n) + 2 * (j - 1) \in Cells(p)
         /\ ImportsLinked(m, table, p, n)

LEMMA SettledStays ==
  ASSUME NEW p, Movable(p.file), p.bias \in Nat, NEW m, NEW t \in FallbackTable, Settled(p, m, t),
         NEW y, NEW u \in FallbackTable, Extends(t, u), \A a \in Cells(p) : y[a] = m[a]
  PROVE  Settled(p, y, u)
<1>1. FileMoved(y, p.file, p.bias)
  <2>1. \A a \in EntryPlaces(p.file, p.bias) : y[a] = m[a]
    BY DEF Settled
  <2>2. FileMoved(m, p.file, p.bias)
    BY DEF Settled
  <2> QED
    BY <2>1, <2>2, FileMovedKept
<1>2. ASSUME ValidInfo(p.file.info, p.bias), NEW n \in 1 .. Len(p.file.info.libs),
             NEW j \in 1 .. Len(p.file.info.libs[n].nids)
      PROVE  LinkedTo(y, u, Stub(p, n) + 2 * (j - 1), p.file.info.libs[n].nids[j])
  <2>1. PICK at : at = Stub(p, n) + 2 * (j - 1) /\ at \in Cells(p)
    BY <1>2 DEF Settled
  <2>2. LinkedTo(m, t, at, p.file.info.libs[n].nids[j])
    BY <1>2, <2>1 DEF Settled, ImportsLinked
  <2> QED
    BY <2>1, <2>2, LinkedStays
<1> QED
  BY <1>1, <1>2 DEF Settled, ImportsLinked

Loadable(p) ==
  /\ Movable(p.file) /\ p.bias \in Nat /\ p.file.entry \in Nat /\ p.file.info \in InfoType
  /\ p.bias = 0 \/ p.file.entry < UserStart
  /\ p.file.entry < UserStart \/ ValidInfo(p.file.info, 0) => InfoFits(p.file)

(* x is k with the segments loaded, as far as nothing failed. *)
Partly(k, p, x) ==
  /\ x \in Loads /\ SameTables(k, x) /\ Grown(k.hull, x.hull)
  /\ \A a \in Ram : a < p.bias => x.mem[a] = k.mem[a]

LEMMA SegmentsStage ==
  ASSUME NEW k \in Loads, NEW p, Loadable(p), NEW mayMiss, NEW x, NEW y,
         x = PutSegments(k, p.file, p.bias),
         y = IF x.status = 0 THEN CheckEntry(x, p.file, p.bias, mayMiss) ELSE x
  PROVE  Partly(k, p, y) /\ (y.status = 0 => AllInPlace(y, p.file, p.bias))
<1>1. p.file.segs \in Seq(SegmentType) /\ SegmentsApart(p.file) /\ p.bias \in Nat
  BY DEF Loadable, Movable
<1>2. SegmentsPut(k, p.file, p.bias, Len(p.file.segs), x)
  BY <1>1, PutSegmentsEffect
<1>3. /\ x \in Loads /\ SameTables(k, x) /\ Grown(k.hull, x.hull)
      /\ \A a \in Ram : a < p.bias => x.mem[a] = k.mem[a]
      /\ x.status = 0 => AllInPlace(x, p.file, p.bias)
  BY <1>1, <1>2 DEF SegmentsPut, AllInPlace
<1>4. y = x \/ y = Failed(x, -10)
  BY DEF CheckEntry
<1>5. CASE y = x
  BY <1>3, <1>5 DEF Partly
<1>6. CASE y = Failed(x, -10)
  <2>1. -10 \in Int /\ -10 # 0
    OBVIOUS
  <2>2. /\ y \in Loads /\ y.mem = x.mem /\ y.hull = x.hull /\ y.status # 0 /\ SameTables(x, y)
    BY <1>3, <1>6, <2>1, FailedLoad
  <2> QED
    BY <1>3, <2>2 DEF Partly, SameTables
<1> QED
  BY <1>4, <1>5, <1>6

LEMMA RelocateStage ==
  ASSUME NEW k \in Loads, NEW p, Loadable(p), NEW y, Partly(k, p, y), NEW z,
         z = IF y.status = 0 THEN Relocate(y, p.file, p.bias) ELSE y
  PROVE  /\ Partly(k, p, z)
         /\ z.status = 0 =>
              y.status = 0 /\ RelocatedTo(y, p.file, p.bias, Len(p.file.relocs), z)
<1>1. CASE y.status # 0
  BY <1>1
<1>2. CASE y.status = 0
  <2>1. Movable(p.file) /\ p.bias \in Nat /\ y \in Loads
    BY DEF Loadable, Partly
  <2>2. RelocatedTo(y, p.file, p.bias, Len(p.file.relocs), z)
    BY <1>2, <2>1, RelocateEffect
  <2>3. /\ z \in Loads /\ SameTables(y, z) /\ z.hull = y.hull
        /\ \A a \in Ram :
             (\A i \in 1 .. Len(p.file.relocs) : ~ MovesAt(p.file, p.bias, p.file.relocs[i].entries, a))
               => z.mem[a] = y.mem[a]
    BY <2>2 DEF RelocatedTo
  <2>4. ASSUME NEW a \in Ram, a < p.bias PROVE z.mem[a] = k.mem[a]
    <3>1. a \in Int /\ \A i \in 1 .. Len(p.file.relocs) : i \in DOMAIN p.file.relocs
      BY <2>1 DEF Ram, Movable
    <3>2. \A i \in 1 .. Len(p.file.relocs) : ~ MovesAt(p.file, p.bias, p.file.relocs[i].entries, a)
      BY <2>1, <2>4, <3>1, MovesAbove
    <3>3. z.mem[a] = y.mem[a]
      BY <2>3, <3>2
    <3> QED
      BY <2>4, <3>3 DEF Partly
  <2>5. Partly(k, p, z)
    BY <2>3, <2>4 DEF Partly, SameTables
  <2> QED
    BY <1>2, <2>2, <2>5
<1> QED
  BY <1>1, <1>2

OwnExports(p, name) ==
  IF ~ValidInfo(p.file.info, p.bias) THEN {}
  ELSE {Meant(p, e.at) : e \in {d \in Range(p.file.info.exports) : d.name = name}}

(* x is k with a file loaded, as far as nothing failed. *)
Loaded(k, p, x) ==
  /\ x \in Loads /\ Extends(k.fallbacks, x.fallbacks) /\ Grown(k.hull, x.hull)
  /\ \A a \in Ram : a < p.bias => x.mem[a] = k.mem[a]
  /\ x.status = 0 =>
       /\ \A a \in Cells(p) : a \in Ram /\ a < x.hull[2]
       /\ Settled(p, x.mem, x.fallbacks)
       /\ \A name \in {"start", "stop"} :
            IF OwnExports(p, name) = {} THEN x.exported[name] = k.exported[name]
            ELSE x.exported[name] \in OwnExports(p, name)

LEMMA ReadyInfo ==
  ASSUME NEW p, Loadable(p), ValidInfo(p.file.info, p.bias)
  PROVE  InfoFits(p.file)
BY DEF Loadable

LEMMA ExportsOwned ==
  ASSUME NEW p, p.file.info \in InfoType, NEW x, NEW name, NEW y, NEW v,
         ValidInfo(p.file.info, p.bias),
         \A n \in DOMAIN p.file.info.exports :
           PointerAt(x, p.file.info.exports[n].at, p.bias) = Meant(p, p.file.info.exports[n].at),
         ExportFound(x, p.file.info, p.bias, Len(p.file.info.exports), name, y),
         v = x.exported[name]
  PROVE  IF OwnExports(p, name) = {} THEN y[name] = v ELSE y[name] \in OwnExports(p, name)
<1>1. PICK q \in Seq(ExportEntry) : q = p.file.info.exports /\ DOMAIN q = 1 .. Len(q)
  BY DEF InfoType
<1>2. Range(q) = {q[n] : n \in 1 .. Len(q)}
  BY <1>1 DEF Range
<1>3. OwnExports(p, name) = {Meant(p, e.at) : e \in {d \in Range(q) : d.name = name}}
  BY <1>1 DEF OwnExports
<1>4. CASE \E i \in 1 .. Len(q) : q[i].name = name
  <2>1. PICK i \in 1 .. Len(q) : q[i].name = name /\ y[name] = PointerAt(x, q[i].at, p.bias)
    BY <1>1, <1>4 DEF ExportFound
  <2>2. y[name] = Meant(p, q[i].at)
    BY <1>1, <2>1
  <2>3. q[i] \in {d \in Range(q) : d.name = name}
    BY <1>2, <2>1
  <2>4. y[name] \in OwnExports(p, name)
    BY <1>3, <2>2, <2>3
  <2> QED
    BY <2>4
<1>5. CASE ~ \E i \in 1 .. Len(q) : q[i].name = name
  <2>1. OwnExports(p, name) = {}
    BY <1>2, <1>3, <1>5
  <2>2. y[name] = v
    BY <1>1, <1>5 DEF ExportFound
  <2> QED
    BY <2>1, <2>2
<1> QED
  BY <1>4, <1>5

LEMMA LinkStage ==
  ASSUME NEW k \in Loads, NEW p, Loadable(p), NEW y, NEW z, Partly(k, p, z),
         z.status = 0, y \in Loads, AllInPlace(y, p.file, p.bias),
         RelocatedTo(y, p.file, p.bias, Len(p.file.relocs), z),
         NEW x, x = LinkModule(z, p.file, p.bias)
  PROVE  Loaded(k, p, x)
<1>1. /\ Movable(p.file) /\ p.bias \in Nat /\ p.file.info \in InfoType /\ p.file.entry \in Nat
      /\ p.file.segs \in Seq(SegmentType) /\ p.file.relocs \in Seq(SectionType)
  BY DEF Loadable, Movable
<1>2. ASSUME ValidInfo(p.file.info, p.bias) PROVE MovedInPlace(y, p.file, p.bias, z)
  <2>1. InfoFits(p.file)
    BY <1>2, ReadyInfo
  <2> QED
    BY <1>1, <2>1 DEF Loadable, MovedInPlace
<1>3. z \in Loads /\ SameTables(k, z) /\ Grown(k.hull, z.hull) /\ z.hull = y.hull
      /\ \A a \in Ram : a < p.bias => z.mem[a] = k.mem[a]
  BY DEF Partly, RelocatedTo
<1>4. ASSUME ValidInfo(p.file.info, p.bias)
      PROVE  Ready(z, p) /\ ExportsLead(z, p.file.info, p.bias)
  BY <1>2, <1>4, LoadReady
<1>5. ModuleLinked(z, p, x)
  BY <1>1, <1>3, <1>4, LinkModuleEffect
<1>6. x \in Loads /\ x.hull = z.hull /\ Extends(k.fallbacks, x.fallbacks)
  BY <1>3, <1>5 DEF ModuleLinked, SameTables
<1>7. ASSUME NEW a \in Ram, ~(a \in Cells(p) /\ Movers(p.file, a - p.bias) = {})
      PROVE  x.mem[a] = z.mem[a]
  <2>1. ASSUME ValidInfo(p.file.info, p.bias), NEW m \in Linked(p.file), a \in StubsOf(p, m)
        PROVE  FALSE
    BY <1>2, <1>7, <2>1, StubCell
  <2> QED
    BY <1>5, <2>1 DEF ModuleLinked
<1>8. ASSUME NEW a \in Ram, a < p.bias PROVE x.mem[a] = k.mem[a]
  <2>1. a \notin Cells(p)
    BY <1>1, <1>8, CellAbove
  <2> QED
    BY <1>3, <1>7, <1>8, <2>1
<1>9. \A a \in Cells(p) : a \in Ram /\ a < x.hull[2]
  BY <1>1, <1>3, <1>6, CellInPlace
<1>10. ASSUME NEW i \in DOMAIN p.file.relocs, NEW r \in DOMAIN p.file.relocs[i].entries,
              InFile(p.file, p.file.relocs[i].entries[r]),
              NEW a, a = Target(p.file, p.bias, p.file.relocs[i].entries[r])
       PROVE  a \in Cells(p) /\ x.mem[a] = z.mem[a]
  <2>1. PICK e \in EntryType : e = p.file.relocs[i].entries[r]
    BY <1>1, SectionEntry
  <2>2. e.seg \in DOMAIN p.file.segs /\ a \in Span(p.file.segs[e.seg], p.bias) /\ a \in Ram
    BY <1>1, <1>10, <2>1, InFileReached
  <2>3. a \in Cells(p)
    BY <2>2, CellsIs
  <2>4. Target(p.file, p.bias, e) = Target(p.file, 0, e) + p.bias /\ Target(p.file, 0, e) \in Nat
    BY <1>1, <2>2, TargetIs
  <2>5. a - p.bias = Target(p.file, 0, e)
    BY <1>1, <1>10, <2>1, <2>4
  <2>6. e \in Movers(p.file, Target(p.file, 0, e))
    BY <1>1, <2>1, <2>2, EntryMoves
  <2>7. Movers(p.file, a - p.bias) # {}
    BY <2>5, <2>6
  <2> QED
    BY <1>7, <2>2, <2>3, <2>7
<1>11. EntryPlaces(p.file, p.bias) \subseteq Cells(p)
  BY <1>10 DEF EntryPlaces
<1>12. FileMoved(x.mem, p.file, p.bias)
  <2>1. FileMoved(z.mem, p.file, p.bias)
    BY <1>1, FileMovedAfter
  <2>2. \A a \in EntryPlaces(p.file, p.bias) : x.mem[a] = z.mem[a]
    BY <1>10 DEF EntryPlaces
  <2> QED
    BY <1>1, <2>1, <2>2, FileMovedKept
<1>13. ASSUME x.status = 0, ValidInfo(p.file.info, p.bias), NEW n \in 1 .. Len(p.file.info.libs)
       PROVE  /\ \A j \in 1 .. Len(p.file.info.libs[n].nids) : Stub(p, n) + 2 * (j - 1) \in Cells(p)
              /\ ImportsLinked(x.mem, x.fallbacks, p, n)
  <2>1. n \in Linked(p.file) /\ ImportsLinked(x.mem, x.fallbacks, p, n)
    BY <1>5, <1>13 DEF ModuleLinked
  <2>2. ASSUME NEW j \in 1 .. Len(p.file.info.libs[n].nids)
        PROVE  Stub(p, n) + 2 * (j - 1) \in Cells(p)
    <3>1. Stub(p, n) + 2 * (j - 1) \in StubsOf(p, n)
      BY <1>4, <1>13, <2>1, StubPlace
    <3> QED
      BY <1>2, <1>13, <2>1, <3>1, StubCell
  <2> QED
    BY <2>1, <2>2
<1>14. x.status = 0 => Settled(p, x.mem, x.fallbacks)
  BY <1>11, <1>12, <1>13 DEF Settled
<1>15. ASSUME NEW name \in {"start", "stop"}
       PROVE  IF OwnExports(p, name) = {} THEN x.exported[name] = k.exported[name]
              ELSE x.exported[name] \in OwnExports(p, name)
  <2>1. z.exported = k.exported
    BY <1>3 DEF SameTables
  <2>2. CASE ~ValidInfo(p.file.info, p.bias)
    BY <1>5, <2>1, <2>2 DEF ModuleLinked, OwnExports
  <2>3. CASE ValidInfo(p.file.info, p.bias)
    <3>1. \A n \in DOMAIN p.file.info.exports :
            PointerAt(z, p.file.info.exports[n].at, p.bias) = Meant(p, p.file.info.exports[n].at)
      BY <1>2, <2>3, ExportLeads
    <3>2. ExportFound(z, p.file.info, p.bias, Len(p.file.info.exports), name, x.exported)
      BY <1>5, <2>3 DEF ModuleLinked
    <3> QED
      BY <1>1, <2>1, <2>3, <3>1, <3>2, ExportsOwned
  <2> QED
    BY <2>2, <2>3
<1> QED
  BY <1>3, <1>6, <1>8, <1>9, <1>14, <1>15 DEF Loaded

LEMMA LoadElfEffect ==
  ASSUME NEW k \in Loads, k.status = 0, NEW p, Loadable(p), NEW mayMiss
  PROVE  Loaded(k, p, LoadElf(k, p.file, p.bias, mayMiss))
<1>0. PICK w : w = LoadElf(k, p.file, p.bias, mayMiss)
  OBVIOUS
<1>1. ASSUME NEW x, Partly(k, p, x), x.status # 0 PROVE Loaded(k, p, x)
  <2>1. Extends(k.fallbacks, x.fallbacks)
    <3>1. x.fallbacks = k.fallbacks /\ k.fallbacks \in FallbackTable
      BY <1>1 DEF Partly, SameTables, Loads
    <3> QED
      BY <3>1, ExtendsItself
  <2> QED
    BY <1>1, <2>1 DEF Partly, Loaded
<1>2. CASE ~p.file.headers
  <2>1. w = Failed(k, -7)
    BY <1>0, <1>2 DEF LoadElf
  <2>2. -7 \in Int /\ -7 # 0
    OBVIOUS
  <2>3. w \in Loads /\ w.mem = k.mem /\ w.hull = k.hull /\ w.status # 0 /\ SameTables(k, w)
    BY <2>1, <2>2, FailedLoad
  <2>4. Grown(k.hull, w.hull)
    BY <2>3 DEF Grown, Loads, HullType
  <2>5. Partly(k, p, w)
    BY <2>3, <2>4 DEF Partly
  <2> QED
    BY <1>0, <1>1, <2>3, <2>5
<1>3. CASE p.file.headers
  <2>1. PICK s : s = PutSegments(k, p.file, p.bias)
    OBVIOUS
  <2>2. PICK y : y = IF s.status = 0 THEN CheckEntry(s, p.file, p.bias, mayMiss) ELSE s
    OBVIOUS
  <2>3. PICK z : z = IF y.status = 0 THEN Relocate(y, p.file, p.bias) ELSE y
    OBVIOUS
  <2>4. w = IF z.status = 0 THEN LinkModule(z, p.file, p.bias) ELSE z
    BY <1>0, <1>3, <2>1, <2>2, <2>3 DEF LoadElf, Then
  <2>5. Partly(k, p, y) /\ (y.status = 0 => AllInPlace(y, p.file, p.bias))
    BY <2>1, <2>2, SegmentsStage
  <2>6. /\ Partly(k, p, z)
        /\ z.status = 0 =>
             y.status = 0 /\ RelocatedTo(y, p.file, p.bias, Len(p.file.relocs), z)
    BY <2>3, <2>5, RelocateStage
  <2>7. CASE z.status # 0
    BY <1>0, <1>1, <2>4, <2>6, <2>7
  <2>8. CASE z.status = 0
    <3>1. y \in Loads
      BY <2>5 DEF Partly
    <3> QED
      BY <1>0, <2>4, <2>5, <2>6, <2>8, <3>1, LinkStage
  <2> QED
    BY <2>7, <2>8
<1> QED
  BY <1>2, <1>3

-----------------------------------------------------------------------------
(* The invariant *)

LTypes ==
  /\ mem \in [Ram -> Nat] /\ hull \in HullType /\ fallbacks \in FallbackTable
  /\ exported \in ExportType /\ gp \in Nat /\ nextLoad \in Nat
  /\ DOMAIN modules = 1 .. ModuleSlots

(* What was linked lies below the next load and is as linking left it.     *)
Stays(p) ==
  /\ p.file \in Programs \cup Files /\ p.bias \in Nat
  /\ \A a \in Cells(p) : a \in Ram /\ a < nextLoad /\ a < hull[2]
  /\ p.file.form # "flat" => Settled(p, mem, fallbacks)

ModulesOwn ==
  \A m \in 1 .. ModuleSlots : modules[m] # NoModule =>
    ExportOwn(modules[m], "start") /\ ExportOwn(modules[m], "stop")

LInv ==
  /\ LTypes
  /\ phase # "running" => placed = {}
  /\ \A p \in placed : Stays(p)
  /\ ModulesOwn

LEMMA LoadingType ==
  ASSUME LTypes
  PROVE  /\ Loading \in Loads /\ Loading.status = 0 /\ Loading.mem = mem /\ Loading.hull = hull
         /\ Loading.fallbacks = fallbacks /\ Loading.exported = exported /\ Loading.gp = gp
BY DEF LTypes, Loading, Loads

LEMMA FileType ==
  ASSUME NEW f, Sound(f)
  PROVE  /\ Movable(f) /\ f.entry \in Nat /\ f.info \in InfoType
         /\ f.entry < UserStart \/ ValidInfo(f.info, 0) => InfoFits(f)
<1>1. f \in File /\ SegmentsApart(f) /\ RelocatedOnce(f)
      /\ (f.entry < UserStart \/ ValidInfo(f.info, 0) => InfoFits(f))
  BY DEF Sound
<1>2. f.segs \in Seq(SegmentType) /\ f.entry \in Nat
  BY <1>1 DEF File, SegmentType
<1>3. f.relocs \in Seq(SectionType)
  BY <1>1 DEF File, SectionType, EntryType
<1>4. f.info \in InfoType
  BY <1>1 DEF File, InfoType, ExportEntry, LibraryType
<1> QED
  BY <1>1, <1>2, <1>3, <1>4 DEF Movable

LEMMA RoundUpAbove ==
  ASSUME NEW a \in Nat
  PROVE  RoundUp(a) \in Nat /\ a <= RoundUp(a)
<1>1. PICK b \in Nat \ {0} : b = Half
  BY HalfFacts
<1>2. PICK c \in Nat : c = a + b - 1
  BY <1>1
<1>3. PICK q \in Int, r \in 0 .. b - 1 : c = b * q + r /\ q = c \div b
  BY DivMod
<1>4. PICK d \in Int : d = b * q
  BY <1>3
<1>5. d = q * b
  BY <1>3, <1>4
<1>6. RoundUp(a) = d
  BY <1>1, <1>2, <1>3, <1>5 DEF RoundUp
<1>7. a <= d /\ d \in Nat
  BY <1>2, <1>3, <1>4
<1> QED
  BY <1>6, <1>7

LEMMA GreaterType ==
  ASSUME NEW a \in Nat, NEW b \in Nat
  PROVE  Greater(a, b) \in Nat /\ a <= Greater(a, b)
BY DEF Greater

(* x is k with a flat program copied. *)
LEMMA LoadFlatEffect ==
  ASSUME NEW k \in Loads, k.status = 0, NEW f, Sound(f), f.form = "flat",
         NEW p, p.file = f, p.bias = LoadBase, NEW x, x = LoadFlat(k, f)
  PROVE  /\ x \in Loads
         /\ x.status = 0 => \A a \in Cells(p) : a \in Ram /\ a < x.hull[2]
<1>1. f.segs \in Seq(SegmentType) /\ Len(f.segs) = 1 /\ f.segs[1].at = 0 /\ f.segs[1].zeros = 0
  BY FileType DEF Sound, Movable
<1>2. PICK seg \in SegmentType : seg = f.segs[1] /\ DOMAIN f.segs = {1}
  <2>1. 1 \in 1 .. Len(f.segs) /\ DOMAIN f.segs = {1}
    BY <1>1
  <2> QED
    BY <1>1, <2>1, ElementOf
<1>3. PICK words \in Seq(0 .. Word - 1), l \in Nat : words = seg.words /\ l = Len(words)
  BY DEF SegmentType
<1>4. PICK b \in Nat : b = LoadBase /\ UserStart <= b
  BY Layout
<1>5. CASE b + l > UserEnd
  <2>1. x = Failed(k, -5) /\ -5 \in Int /\ -5 # 0
    BY <1>2, <1>3, <1>4, <1>5 DEF LoadFlat
  <2> QED
    BY <2>1, FailedLoad
<1>6. CASE ~(b + l > UserEnd)
  <2>1. PICK y : y = Put(k, b, words, 0)
    OBVIOUS
  <2>2. PutTo(k, b, words, 0, y)
    <3>1. b + Len(words) + 0 <= UserEnd /\ 0 \in Nat
      BY <1>3, <1>6, Layout
    <3> QED
      BY <1>4, <2>1, <3>1, PutEffect
  <2>3. y \in Loads /\ b + l + 0 <= y.hull[2] /\ y.status = 0
    BY <1>3, <2>2 DEF PutTo
  <2>4. x = y \/ x = Failed(y, -10)
    BY <1>2, <1>3, <1>4, <1>6, <2>1 DEF LoadFlat
  <2>5. -10 \in Int /\ -10 # 0
    OBVIOUS
  <2>6. x \in Loads /\ (x.status = 0 => x = y)
    BY <2>3, <2>4, <2>5, FailedLoad
  <2>7. ASSUME NEW a \in Cells(p) PROVE a \in Ram /\ a < y.hull[2]
    <3>1. a \in Span(seg, b)
      BY <1>2, <1>4, CellsIs
    <3>2. a \in b + 0 .. b + 0 + l + 0 - 1
      BY <1>1, <1>2, <1>3, <3>1 DEF Span
    <3>3. y.hull[2] \in Nat
      BY <2>3 DEF Loads, HullType
    <3> QED
      BY <1>4, <1>6, <2>3, <3>2, <3>3, Layout DEF Ram
  <2> QED
    BY <2>6, <2>7
<1> QED
  BY <1>5, <1>6

LEMMA LInitInv == LInit => LInv
<1> SUFFICES ASSUME LInit PROVE LInv
  OBVIOUS
<1>1. hull \in HullType
  BY DEF LInit, HullType, HullFits
<1>2. fallbacks \in FallbackTable
  BY Layout DEF LInit, FallbackTable
<1>3. exported \in ExportType
  BY DEF LInit, NoExports, ExportType
<1>4. LTypes
  BY <1>1, <1>2, <1>3 DEF LInit, LTypes
<1>5. ModulesOwn
  BY DEF LInit, ModulesOwn
<1> QED
  BY <1>4, <1>5 DEF LInit, LInv

(* The state that a load leaves. *)
LEMMA TakenTypes ==
  ASSUME NEW k \in Loads, Take(k), nextLoad' \in Nat, DOMAIN modules' = 1 .. ModuleSlots
  PROVE  LTypes'
BY DEF Take, Loads, LTypes

StaysIn(p, m, h, table, next) ==
  /\ p.file \in Programs \cup Files /\ p.bias \in Nat
  /\ \A a \in Cells(p) : a \in Ram /\ a < next /\ a < h[2]
  /\ p.file.form # "flat" => Settled(p, m, table)

LEMMA OldStays ==
  ASSUME SoundFiles, NEW k \in Loads, NEW x \in Loads, NEW p, NEW next \in Nat, NEW later \in Nat,
         StaysIn(p, k.mem, k.hull, k.fallbacks, next),
         Extends(k.fallbacks, x.fallbacks), Grown(k.hull, x.hull),
         \A a \in Cells(p) : x.mem[a] = k.mem[a],
         next <= later \/ x.hull[2] <= later
  PROVE  StaysIn(p, x.mem, x.hull, x.fallbacks, later)
<1>1. /\ p.file \in Programs \cup Files /\ p.bias \in Nat
      /\ \A a \in Cells(p) : a \in Ram /\ a < next /\ a < k.hull[2]
      /\ p.file.form # "flat" => Settled(p, k.mem, k.fallbacks)
  BY DEF StaysIn
<1>2. Movable(p.file)
  BY <1>1, FileType DEF SoundFiles
<1>3. ASSUME p.file.form # "flat" PROVE Settled(p, x.mem, x.fallbacks)
  <2>1. k.fallbacks \in FallbackTable /\ x.fallbacks \in FallbackTable
    BY DEF Loads
  <2>2. Settled(p, k.mem, k.fallbacks)
    BY <1>1, <1>3
  <2> QED
    BY <1>1, <1>2, <2>1, <2>2, SettledStays
<1>4. ASSUME NEW a \in Cells(p) PROVE a \in Ram /\ a < later /\ a < x.hull[2]
  <2>1. a \in Ram /\ a \in Int /\ a < next /\ a < k.hull[2]
    BY <1>1 DEF Ram
  <2>2. k.hull[2] \in Nat /\ x.hull[2] \in Nat /\ k.hull[2] <= x.hull[2]
    BY DEF Loads, HullType, Grown
  <2> QED
    BY <2>1, <2>2
<1> QED
  BY <1>1, <1>3, <1>4 DEF StaysIn

LEMMA OwnExportsOf ==
  ASSUME NEW p, NEW x, x.file = p.file, x.bias = p.bias, NEW name
  PROVE  OwnExports(x, name) = OwnExports(p, name)
<1>1. \A at : Meant(x, at) = Meant(p, at)
  BY DEF Meant
<1> QED
  BY <1>1 DEF OwnExports

LEMMA ExportOwnFrom ==
  ASSUME NEW p, NEW x, x.file = p.file, x.bias = p.bias, NEW name,
         IF OwnExports(p, name) = {} THEN x[name] = 0 ELSE x[name] \in OwnExports(p, name)
  PROVE  ExportOwn(x, name)
<1>1. OwnExports(x, name) = OwnExports(p, name)
  BY OwnExportsOf
<1>2. IF OwnExports(x, name) = {} THEN x[name] = 0 ELSE x[name] \in OwnExports(x, name)
  BY <1>1
<1> QED
  BY <1>2 DEF ExportOwn, OwnExports

LEMMA BootStep ==
  ASSUME SoundFiles, LInv, NEW f \in Programs, Boot(f)
  PROVE  LInv' /\ placed = {}
<1> DEFINE bias == IF f.entry >= UserStart THEN 0 ELSE LoadBase
           p == [file |-> f, bias |-> IF f.form = "flat" THEN LoadBase ELSE bias]
<1>0. PICK k : k = CASE f.form = "flat" -> LoadFlat(Loading, f)
                     [] f.form = "elf"  -> LoadElf(Loading, f, bias, FALSE)
                     [] OTHER           -> Failed(Loading, -4)
  OBVIOUS
<1>14. /\ Take(k)
       /\ IF k.status = 0
          THEN /\ phase' = "running"
               /\ nextLoad' = Greater(RoundUp(k.hull[2]), FirstModule)
               /\ placed' = {p}
          ELSE phase' = "exited" /\ UNCHANGED <<nextLoad, placed>>
  BY <1>0 DEF Boot
<1>1. phase = "start" /\ placed = {} /\ modules' = modules
  BY DEF Boot, LInv
<1>2. LTypes /\ Loading \in Loads /\ Loading.status = 0
  BY LoadingType DEF LInv
<1>3. Sound(f) /\ f \in Programs \cup Files
  BY DEF SoundFiles
<1>4. bias \in Nat /\ LoadBase \in Nat
  BY Layout
<1>5. k \in Loads /\ (k.status = 0 => StaysIn(p, k.mem, k.hull, k.fallbacks, k.hull[2]))
  <2>1. CASE f.form = "flat"
    <3>1. p.file = f /\ p.bias = LoadBase /\ k = LoadFlat(Loading, f)
      BY <1>0, <2>1
    <3> HIDE DEF p
    <3>2. /\ k \in Loads
          /\ k.status = 0 => \A a \in Cells(p) : a \in Ram /\ a < k.hull[2]
      BY <1>2, <1>3, <2>1, <3>1, LoadFlatEffect
    <3> QED
      BY <1>3, <1>4, <2>1, <3>1, <3>2 DEF StaysIn
  <2>2. CASE f.form = "elf"
    <3>1. p.file = f /\ p.bias = bias /\ k = LoadElf(Loading, f, bias, FALSE)
      BY <1>0, <2>2
    <3>2. bias = 0 \/ f.entry < UserStart
      <4>1. f.entry \in Nat /\ UserStart \in Nat
        BY <1>3, FileType, Layout
      <4> QED
        BY <4>1
    <3> HIDE DEF p, bias
    <3>3. Loadable(p)
      BY <1>3, <1>4, <3>1, <3>2, FileType DEF Loadable
    <3>4. Loaded(Loading, p, k)
      <4>1. Loaded(Loading, p, LoadElf(Loading, p.file, p.bias, FALSE))
        BY <1>2, <3>3, LoadElfEffect
      <4> QED
        BY <3>1, <4>1
    <3> QED
      BY <1>3, <1>4, <3>1, <3>4 DEF StaysIn, Loaded
  <2>3. CASE f.form # "flat" /\ f.form # "elf"
    <3>1. k = Failed(Loading, -4) /\ -4 \in Int /\ -4 # 0
      BY <1>0, <2>3
    <3> QED
      BY <1>2, <3>1, FailedLoad
  <2> QED
    BY <2>1, <2>2, <2>3
<1> HIDE DEF p, bias
<1>6. k.hull[2] \in Nat
  BY <1>5 DEF Loads, HullType
<1>7. /\ mem' = k.mem /\ hull' = k.hull /\ fallbacks' = k.fallbacks
      /\ exported' = k.exported /\ gp' = k.gp
  BY <1>14 DEF Take
<1>8. ASSUME k.status = 0 PROVE nextLoad' \in Nat /\ k.hull[2] <= nextLoad'
  <2>1. PICK r \in Nat : r = RoundUp(k.hull[2]) /\ k.hull[2] <= r
    BY <1>6, RoundUpAbove
  <2>2. Greater(r, FirstModule) \in Nat /\ r <= Greater(r, FirstModule)
    BY <2>1, Layout, GreaterType
  <2> QED
    <3>1. PICK g \in Nat : g = Greater(r, FirstModule) /\ r <= g
      BY <2>2
    <3>2. nextLoad' = g
      BY <1>14, <1>8, <2>1, <3>1
    <3>3. PICK h \in Nat : h = k.hull[2] /\ h <= r
      BY <1>6, <2>1
    <3>4. h <= g
      BY <3>1, <3>3
    <3> QED
      BY <3>2, <3>3, <3>4
<1>9. LTypes'
  <2>1. nextLoad' \in Nat
    BY <1>14, <1>2, <1>8 DEF LTypes
  <2> QED
    BY <1>14, <1>1, <1>2, <1>5, <2>1, TakenTypes DEF LTypes
<1>10. ASSUME k.status = 0 PROVE Stays(p)'
  <2>1. StaysIn(p, k.mem, k.hull, k.fallbacks, k.hull[2])
    BY <1>5, <1>10
  <2>2. \A a \in Cells(p) : a \in Ram /\ a < nextLoad' /\ a < hull'[2]
    <3>1. \A a \in Cells(p) : a \in Ram /\ a \in Int /\ a < k.hull[2]
      BY <2>1 DEF StaysIn, Ram
    <3> QED
      BY <1>6, <1>7, <1>8, <1>10, <3>1
  <2> QED
    BY <1>7, <2>1, <2>2 DEF StaysIn, Stays
<1>11. \A q \in placed' : Stays(q)'
  BY <1>14, <1>1, <1>10
<1>12. phase' # "running" => placed' = {}
  BY <1>14, <1>1
<1>13. ModulesOwn'
  BY <1>1 DEF LInv, ModulesOwn
<1> QED
  BY <1>1, <1>9, <1>11, <1>12, <1>13 DEF LInv

PlacedKept == \A p \in placed : \A a \in Cells(p) : mem'[a] = mem[a]

LEMMA ResetLoad ==
  ASSUME LTypes
  PROVE  /\ Reset(Loading) \in Loads /\ Reset(Loading).status = 0
         /\ Reset(Loading).mem = mem /\ Reset(Loading).hull = hull
         /\ Reset(Loading).fallbacks = fallbacks
         /\ Reset(Loading).exported["start"] = 0 /\ Reset(Loading).exported["stop"] = 0
<1>1. NoExports \in ExportType /\ NoExports["start"] = 0 /\ NoExports["stop"] = 0
  BY DEF NoExports, ExportType
<1> QED
  BY <1>1, LoadingType DEF Reset, Loads

LEMMA LoadModuleStep ==
  ASSUME SoundFiles, LInv, NEW f \in Files, LoadModule(f)
  PROVE  LInv' /\ PlacedKept
<1>0. PICK k : k = LoadElf(Reset(Loading), f, nextLoad, TRUE)
  OBVIOUS
<1>1. PICK p : p = [file |-> f, bias |-> nextLoad]
  OBVIOUS
<1>2. LTypes /\ nextLoad \in Nat /\ mem \in [Ram -> Nat] /\ DOMAIN modules = 1 .. ModuleSlots
  BY DEF LInv, LTypes
<1>3. PICK l : l = Reset(Loading)
  OBVIOUS
<1>4. /\ l \in Loads /\ l.status = 0 /\ l.mem = mem /\ l.hull = hull /\ l.fallbacks = fallbacks
      /\ l.exported["start"] = 0 /\ l.exported["stop"] = 0
  BY <1>2, <1>3, ResetLoad
<1>5. Sound(f) /\ f.entry < UserStart /\ f \in Programs \cup Files
  BY DEF SoundFiles
<1>6. Loadable(p)
  <2>1. p.file = f /\ p.bias = nextLoad
    BY <1>1
  <2> QED
    BY <1>2, <1>5, <2>1, FileType DEF Loadable
<1>7. Loaded(l, p, k)
  <2>1. Loaded(l, p, LoadElf(l, p.file, p.bias, TRUE))
    BY <1>4, <1>6, LoadElfEffect
  <2> QED
    BY <1>0, <1>1, <1>3, <2>1
<1>8. /\ k \in Loads /\ Extends(l.fallbacks, k.fallbacks) /\ Grown(l.hull, k.hull)
      /\ \A a \in Ram : a < nextLoad => k.mem[a] = l.mem[a]
  BY <1>1, <1>7 DEF Loaded
<1>9. /\ mem' = k.mem /\ hull' = k.hull /\ fallbacks' = k.fallbacks
      /\ exported' = k.exported /\ gp' = k.gp /\ Take(k)
  BY <1>0 DEF LoadModule, Take
<1>10. PlacedKept
  <2>1. ASSUME NEW q \in placed, NEW a \in Cells(q) PROVE mem'[a] = mem[a]
    <3>1. a \in Ram /\ a < nextLoad
      BY DEF LInv, Stays
    <3> QED
      BY <1>4, <1>8, <1>9, <3>1
  <2> QED
    BY <2>1 DEF PlacedKept
<1>11. PICK top \in Nat : top = k.hull[2]
  BY <1>8 DEF Loads, HullType
<1>12. PICK r \in Nat : r = RoundUp(top) /\ top <= r
  BY RoundUpAbove
<1>13. k.status = 0 => nextLoad' = r
  BY <1>0, <1>11, <1>12 DEF LoadModule, Advanced
<1>14. k.status # 0 => modules' = modules /\ nextLoad' = nextLoad /\ placed' = placed
  BY <1>0 DEF LoadModule
<1>15. k.status = 0 => placed' = placed \cup {p}
  BY <1>0, <1>1 DEF LoadModule
<1>16. phase = "running" /\ phase' = phase
  BY DEF LoadModule
<1>17. nextLoad' \in Nat /\ (nextLoad <= nextLoad' \/ k.hull[2] <= nextLoad')
  BY <1>2, <1>11, <1>12, <1>13, <1>14
<1>18. ASSUME NEW q \in placed PROVE Stays(q)'
  <2>1. StaysIn(q, l.mem, l.hull, l.fallbacks, nextLoad)
    BY <1>4 DEF LInv, Stays, StaysIn
  <2>2. \A a \in Cells(q) : k.mem[a] = l.mem[a]
    BY <1>4, <1>9, <1>10 DEF PlacedKept
  <2>3. StaysIn(q, k.mem, k.hull, k.fallbacks, nextLoad')
    BY <1>2, <1>4, <1>8, <1>17, <2>1, <2>2, OldStays
  <2> QED
    BY <1>9, <2>3 DEF Stays, StaysIn
<1>19. ASSUME k.status = 0 PROVE Stays(p)'
  <2>1. /\ \A a \in Cells(p) : a \in Ram /\ a < k.hull[2]
        /\ Settled(p, k.mem, k.fallbacks)
    BY <1>7, <1>19 DEF Loaded
  <2>2. p.file \in Programs \cup Files /\ p.bias \in Nat
    BY <1>1, <1>2, <1>5
  <2>3. \A a \in Cells(p) : a \in Ram /\ a < nextLoad' /\ a < hull'[2]
    <3>1. \A a \in Cells(p) : a \in Ram /\ a \in Int /\ a < top
      BY <1>11, <2>1 DEF Ram
    <3> QED
      BY <1>9, <1>11, <1>12, <1>13, <1>19, <3>1
  <2> QED
    BY <1>9, <2>1, <2>2, <2>3 DEF Stays
<1>20. \A q \in placed' : Stays(q)'
  BY <1>14, <1>15, <1>18, <1>19
<1>21. CASE k.status # 0
  <2>1. ModulesOwn'
    BY <1>14, <1>21 DEF LInv, ModulesOwn
  <2>2. LTypes'
    BY <1>2, <1>8, <1>9, <1>14, <1>17, <1>21, TakenTypes
  <2> QED
    BY <1>10, <1>16, <1>20, <2>1, <2>2 DEF LInv
<1>22. CASE k.status = 0
  <2> DEFINE rec == [id |-> nextModule, file |-> f, bias |-> nextLoad,
                     entry |-> IF f.entry = 0 THEN 0 ELSE f.entry + nextLoad,
                     start |-> k.exported.start, stop |-> k.exported.stop,
                     gp |-> k.exported.gp]
             m == CHOOSE x \in FreeModules : \A y \in FreeModules : x <= y
  <2>1. modules' = [modules EXCEPT ![m] = rec]
    BY <1>0, <1>22 DEF LoadModule
  <2>2. /\ rec.file = p.file /\ rec.bias = p.bias
        /\ rec["start"] = k.exported["start"] /\ rec["stop"] = k.exported["stop"]
    BY <1>1
  <2>3. ExportOwn(rec, "start") /\ ExportOwn(rec, "stop")
    <3> HIDE DEF rec
    <3>1. \A name \in {"start", "stop"} :
            IF OwnExports(p, name) = {} THEN k.exported[name] = l.exported[name]
            ELSE k.exported[name] \in OwnExports(p, name)
      BY <1>7, <1>22 DEF Loaded
    <3>2. IF OwnExports(p, "start") = {} THEN rec["start"] = 0
          ELSE rec["start"] \in OwnExports(p, "start")
      BY <1>4, <2>2, <3>1
    <3>3. IF OwnExports(p, "stop") = {} THEN rec["stop"] = 0
          ELSE rec["stop"] \in OwnExports(p, "stop")
      BY <1>4, <2>2, <3>1
    <3> QED
      BY <2>2, <3>2, <3>3, ExportOwnFrom
  <2> HIDE DEF rec, m
  <2>4. DOMAIN modules' = 1 .. ModuleSlots
    BY <1>2, <2>1
  <2>5. \A n \in 1 .. ModuleSlots : modules'[n] = modules[n] \/ modules'[n] = rec
    BY <1>2, <2>1
  <2>6. ModulesOwn'
    BY <2>3, <2>5 DEF LInv, ModulesOwn
  <2>7. LTypes'
    BY <1>8, <1>9, <1>17, <2>4, TakenTypes
  <2> QED
    BY <1>10, <1>16, <1>20, <2>6, <2>7 DEF LInv
<1> QED
  BY <1>21, <1>22

LEMMA UnloadStep ==
  ASSUME LInv, NEW n \in 1 .. ModuleSlots, UnloadModule(n)
  PROVE  LInv' /\ PlacedKept
<1>1. UNCHANGED <<mem, hull, nextLoad, fallbacks, exported, gp, phase, placed>>
      /\ modules' = [modules EXCEPT ![n] = NoModule]
  BY DEF UnloadModule
<1>2. LTypes'
  BY <1>1 DEF LInv, LTypes
<1>3. \A m \in 1 .. ModuleSlots : modules'[m] = modules[m] \/ modules'[m] = NoModule
  BY <1>1 DEF LInv, LTypes
<1>4. ModulesOwn'
  BY <1>3 DEF LInv, ModulesOwn
<1>5. \A p \in placed' : Stays(p)'
  BY <1>1 DEF LInv, Stays
<1> QED
  BY <1>1, <1>2, <1>4, <1>5 DEF LInv, PlacedKept

LEMMA LStep ==
  ASSUME SoundFiles, LInv, [LNext]_lvars
  PROVE  LInv' /\ PlacedKept
<1>1. CASE \E f \in Programs : Boot(f)
  BY <1>1, BootStep DEF PlacedKept
<1>2. CASE \E f \in Files : LoadModule(f)
  BY <1>2, LoadModuleStep
<1>3. CASE \E m \in 1 .. ModuleSlots : UnloadModule(m)
  BY <1>3, UnloadStep
<1>4. CASE UNCHANGED lvars
  <2>1. UNCHANGED <<mem, hull, nextLoad, fallbacks, exported, gp, modules, phase, placed>>
    BY <1>4 DEF lvars
  <2>2. LTypes' /\ ModulesOwn'
    BY <2>1 DEF LInv, LTypes, ModulesOwn
  <2>3. \A p \in placed' : Stays(p)'
    BY <2>1 DEF LInv, Stays
  <2> QED
    BY <2>1, <2>2, <2>3 DEF LInv, PlacedKept
<1> QED
  BY <1>1, <1>2, <1>3, <1>4 DEF LNext

(* Before the program is booted nothing is linked; afterwards all of what  *)
(* was linked, by load_eboot or by sceKernelLoadModule, lies in user       *)
(* memory below the next load address, and stays relocated and linked as   *)
(* load_elf_buffer left it.  Each module in the table was given exports of *)
(* its own.                                                                *)
THEOREM LoaderInvariant ==
  ASSUME SoundFiles
  PROVE  LSpec => []LInv
<1>1. LInit => LInv
  BY LInitInv
<1>2. LInv /\ [LNext]_lvars => LInv'
  BY LStep
<1> QED
  BY <1>1, <1>2, PTL DEF LSpec

(* No call writes to a word of what was linked before: a load begins where *)
(* everything so far ends, for g_next_module_load_addr follows the end of  *)
(* the hull and not the end of one file, and a load that fails half-way    *)
(* leaves words above it only.                                             *)
THEOREM CodeStaysKept ==
  ASSUME SoundFiles
  PROVE  LSpec => CodeKept
<1>1. LInv /\ [LNext]_lvars => [\A p \in placed : \A a \in Cells(p) : mem'[a] = mem[a]]_lvars
  BY LStep DEF PlacedKept
<1>2. LSpec => []LInv
  BY LoaderInvariant
<1> QED
  BY <1>1, <1>2, PTL DEF LSpec, CodeKept

LEMMA PlacedMoved == LInv => AddressesMoved
<1> SUFFICES ASSUME LInv, NEW p \in placed, p.file.form # "flat"
             PROVE  FileMoved(mem, p.file, p.bias)
  BY DEF AddressesMoved, FileMoved
<1> QED
  BY DEF LInv, Stays, Settled

(* mips_apply_relocations gives every data word and every HI16/LO16 pair   *)
(* of a file the address it had, moved by the base of the segment it names *)
(* (the borrow of a negative low half included), and the linking of its    *)
(* own and of later files leaves these words alone.                        *)
THEOREM AddressesStayMoved ==
  ASSUME SoundFiles
  PROVE  LSpec => []AddressesMoved
<1>1. LSpec => []LInv
  BY LoaderInvariant
<1> QED
  BY <1>1, PlacedMoved, PTL

LEMMA PlacedLinked ==
  ASSUME SoundFiles, LInv
  PROVE  ModulesLinked
<1>1. ASSUME NEW p \in placed, p.file.form # "flat", ValidInfo(p.file.info, p.bias),
             NEW i \in DOMAIN p.file.info.libs, NEW j \in DOMAIN p.file.info.libs[i].nids
      PROVE  ImportLinked(Meant(p, p.file.info.libs[i].at) + 2 * (j - 1), p.file.info.libs[i].nids[j])
  <2>1. Stays(p)
    BY DEF LInv
  <2>2. p.file.info \in InfoType
    BY <2>1, FileType DEF Stays, SoundFiles
  <2>3. p.file.info.libs \in Seq(LibraryType) /\ i \in 1 .. Len(p.file.info.libs)
    BY <2>2 DEF InfoType
  <2>4. PICK lib \in LibraryType : lib = p.file.info.libs[i]
    BY <2>3, ElementOf
  <2>5. j \in 1 .. Len(p.file.info.libs[i].nids)
    BY <2>4 DEF LibraryType
  <2>6. ImportsLinked(mem, fallbacks, p, i)
    BY <1>1, <2>1, <2>3 DEF Stays, Settled
  <2>7. LinkedTo(mem, fallbacks, Stub(p, i) + 2 * (j - 1), p.file.info.libs[i].nids[j])
    BY <2>5, <2>6 DEF ImportsLinked
  <2> QED
    BY <2>7 DEF LinkedTo, ImportLinked, Stub
<1>2. ModulesOwn
  BY DEF LInv
<1> QED
  BY <1>1, <1>2 DEF ModulesLinked, ModulesOwn

(* Every import of what was linked keeps the system call of its NID, or    *)
(* the fallback whose entry in the append-only table names it; a module    *)
(* is started and stopped at an export of its own, or has none, although   *)
(* last_module_start and last_module_stop are shared by all loads.         *)
THEOREM ModulesStayLinked ==
  ASSUME SoundFiles
  PROVE  LSpec => []ModulesLinked
<1>1. LSpec => []LInv
  BY LoaderInvariant
<1>2. LInv => ModulesLinked
  BY PlacedLinked
<1> QED
  BY <1>1, <1>2, PTL

================================================================================
