-------------------------- MODULE AudioMixer_proofs --------------------------
(***************************************************************************)
(* Proofs about AudioMixer, for rings of any even size, any number of      *)
(* channels and any block lengths: the counters of the rings agree, frames *)
(* stay whole, and the rings are the queues of SampleQueues.               *)
(***************************************************************************)
EXTENDS AudioMixer, TLAPS

-----------------------------------------------------------------------------
(* Positions in a ring *)

Wrap(x) == IF x < Capacity THEN x ELSE x - Capacity

LEMMA CapacityIs == Capacity \in Nat /\ Capacity > 0
BY RateAssumption DEF Capacity

LEMMA Wraps ==
  ASSUME NEW C \in Nat \ {0}, NEW x \in Nat, x < C + C
  PROVE  x % C = IF x < C THEN x ELSE x - C
<1>1. PICK q \in Int, r \in 0 .. C - 1 : x = C * q + r /\ r = x % C
  <2>1. x = C * (x \div C) + (x % C) /\ x \div C \in Int /\ x % C \in 0 .. C - 1
    OBVIOUS
  <2> QED
    BY <2>1
<1>2. q = 0 \/ q = 1
  <2>1. ASSUME q >= 2 PROVE FALSE
    <3>1. C * q >= C * 2
      BY <2>1
    <3> QED
      BY <1>1, <3>1
  <2>2. ASSUME q <= -1 PROVE FALSE
    <3>1. C * q <= C * (-1)
      BY <2>2
    <3> QED
      BY <1>1, <3>1
  <2> QED
    BY <2>1, <2>2
<1> QED
  BY <1>1, <1>2

LEMMA WrapIs ==
  ASSUME NEW x \in Nat, x < Capacity + Capacity
  PROVE  x % Capacity = Wrap(x) /\ Wrap(x) \in 0 .. Capacity - 1
<1>1. Capacity \in Nat /\ Capacity > 0
  BY CapacityIs
<1> HIDE DEF Capacity
<1>2. x % Capacity = Wrap(x)
  <2>1. Capacity \in Nat \ {0}
    BY <1>1
  <2> QED
    BY <2>1, Wraps DEF Wrap
<1> QED
  BY <1>1, <1>2 DEF Wrap

(* Where the counters of a ring lead, with any C for its size. *)
LEMMA Numbers ==
  ASSUME NEW w \in 0 .. Capacity - 1, NEW r \in 0 .. Capacity - 1,
         NEW a \in 0 .. Capacity, NEW l \in Nat, l <= Capacity - a,
         w = Wrap(r + a)
  PROVE  /\ Wrap(w + l) \in 0 .. Capacity - 1
         /\ (w + l) % Capacity = Wrap(w + l)
         /\ a + l \in 0 .. Capacity
         /\ Wrap(w + l) = Wrap(r + (a + l))
<1>1. Capacity \in Nat /\ Capacity > 0
  BY CapacityIs
<1> HIDE DEF Capacity
<1>2. a + l \in 0 .. Capacity
  BY <1>1
<1>3. PICK x \in Nat : x = w + l /\ x < Capacity + Capacity
  BY <1>1
<1>4. x % Capacity = Wrap(x) /\ Wrap(x) \in 0 .. Capacity - 1
  BY <1>3, WrapIs
<1>5. w = IF r + a < Capacity THEN r + a ELSE (r + a) - Capacity
  BY DEF Wrap
<1>6. Wrap(w + l) = Wrap(r + (a + l))
  BY <1>1, <1>2, <1>5 DEF Wrap
<1> QED
  BY <1>2, <1>3, <1>4, <1>6

LEMMA Distances ==
  ASSUME NEW w \in 0 .. Capacity - 1, NEW i \in 0 .. Capacity - 1
  PROVE  /\ ((i + Capacity) - w) % Capacity = Wrap((i + Capacity) - w)
         /\ Wrap((i + Capacity) - w) \in 0 .. Capacity - 1
<1>1. Capacity \in Nat /\ Capacity > 0
  BY CapacityIs
<1> HIDE DEF Capacity
<1>2. PICK x \in Nat : x = (i + Capacity) - w /\ x < Capacity + Capacity
  BY <1>1
<1> QED
  BY <1>2, WrapIs

LEMMA OldPlaces ==
  ASSUME NEW r \in 0 .. Capacity - 1, NEW a \in 0 .. Capacity, NEW w, w = Wrap(r + a),
         NEW i \in 1 .. a, NEW p, p = Wrap((r + i) - 1)
  PROVE  /\ p \in 0 .. Capacity - 1
         /\ Wrap((p + Capacity) - w) >= Capacity - a
<1>1. Capacity \in Nat /\ Capacity > 0
  BY CapacityIs
<1> HIDE DEF Capacity
<1>2. w = IF r + a < Capacity THEN r + a ELSE (r + a) - Capacity
  BY DEF Wrap
<1>3. p = IF (r + i) - 1 < Capacity THEN (r + i) - 1 ELSE ((r + i) - 1) - Capacity
  BY DEF Wrap
<1>4. p \in 0 .. Capacity - 1 /\ w \in 0 .. Capacity - 1
  BY <1>1, <1>2, <1>3
<1>5. PICK d \in Int : d = (p + Capacity) - w
  BY <1>1, <1>4
<1>6. (IF d < Capacity THEN d ELSE d - Capacity) >= Capacity - a
  BY <1>1, <1>2, <1>3, <1>4, <1>5
<1> QED
  BY <1>4, <1>5, <1>6 DEF Wrap

LEMMA NewPlaces ==
  ASSUME NEW r \in 0 .. Capacity - 1, NEW a \in 0 .. Capacity, NEW w, w = Wrap(r + a),
         NEW i \in 0 .. (Capacity - a) - 1, NEW p, p = Wrap((r + a) + i)
  PROVE  p \in 0 .. Capacity - 1 /\ Wrap((p + Capacity) - w) = i
<1>1. Capacity \in Nat /\ Capacity > 0
  BY CapacityIs
<1> HIDE DEF Capacity
<1>2. w = IF r + a < Capacity THEN r + a ELSE (r + a) - Capacity
  BY DEF Wrap
<1>3. p = IF (r + a) + i < Capacity THEN (r + a) + i ELSE ((r + a) + i) - Capacity
  BY DEF Wrap
<1>4. p \in 0 .. Capacity - 1 /\ w \in 0 .. Capacity - 1
  BY <1>1, <1>2, <1>3
<1>5. PICK d \in Int : d = (p + Capacity) - w
  BY <1>1, <1>4
<1>6. (IF d < Capacity THEN d ELSE d - Capacity) = i
  BY <1>1, <1>2, <1>3, <1>4, <1>5
<1> QED
  BY <1>4, <1>5, <1>6 DEF Wrap

(* The channel ch can be read and written at Wrap of its counters: what is *)
(* i-th in its queue.                                                      *)
At(ch, i) == ch.ring[Wrap((ch.read + i) - 1)]

(* The counters of the ring agree. *)
Agrees(ch) == ch.write = Wrap(ch.read + ch.avail)

(* What is queued is made of whole frames. *)
Side(i) == IF i % 2 = 1 THEN "left" ELSE "right"

Framed(ch) == ch.stereo =>
  /\ ch.avail % 2 = 0
  /\ \A i \in 1 .. ch.avail : At(ch, i).side = Side(i)

(* A block at the end of the queue leaves the rest of the queue alone. *)
Extends(new, old, block, length) ==
  /\ new.active = old.active /\ new.stereo = old.stereo /\ new.count = old.count
  /\ new.read = old.read /\ new.avail = old.avail + length
  /\ \A i \in 1 .. old.avail : At(new, i) = At(old, i)
  /\ \A i \in 0 .. length - 1 : At(new, old.avail + 1 + i) = block[i]

LEMMA PushedExtends ==
  ASSUME NEW ch \in Channel, Agrees(ch),
         NEW length \in Nat, length <= Capacity - ch.avail,
         NEW block \in [0 .. length - 1 -> Sample]
  PROVE  /\ Pushed(ch, block, length) \in Channel
         /\ Agrees(Pushed(ch, block, length))
         /\ Extends(Pushed(ch, block, length), ch, block, length)
<1> HIDE DEF Capacity
<1>2. /\ ch.write \in 0 .. Capacity - 1 /\ ch.read \in 0 .. Capacity - 1
      /\ ch.avail \in 0 .. Capacity
      /\ ch.ring \in [0 .. Capacity - 1 -> Sample]
  BY DEF Channel
<1>0. /\ Wrap(ch.write + length) \in 0 .. Capacity - 1
      /\ (ch.write + length) % Capacity = Wrap(ch.write + length)
      /\ ch.avail + length \in 0 .. Capacity
      /\ Wrap(ch.write + length) = Wrap(ch.read + (ch.avail + length))
  BY <1>2, Numbers DEF Agrees
<1>1. \A i \in 0 .. Capacity - 1 : Wrap((i + Capacity) - ch.write) \in 0 .. Capacity - 1
  BY <1>2, Distances
<1> DEFINE Dist(i) == (i + Capacity) - ch.write
           new == Pushed(ch, block, length)
<1>3. new = [ch EXCEPT
               !.ring = [i \in 0 .. Capacity - 1 |->
                           IF Wrap(Dist(i)) < length THEN block[Wrap(Dist(i))]
                                                     ELSE ch.ring[i]],
               !.write = Wrap(ch.write + length),
               !.avail = ch.avail + length]
  <2>1. ASSUME NEW i \in 0 .. Capacity - 1
        PROVE  Dist(i) % Capacity = Wrap(Dist(i))
    BY <1>2, Distances
  <2>2. (ch.write + length) % Capacity = Wrap(ch.write + length)
    BY <1>0
  <2> DEFINE Slot(i) == (i + (Capacity - ch.write)) % Capacity
  <2>3. [i \in 0 .. Capacity - 1 |-> IF Slot(i) < length THEN block[Slot(i)] ELSE ch.ring[i]]
        = [i \in 0 .. Capacity - 1 |->
             IF Wrap(Dist(i)) < length THEN block[Wrap(Dist(i))] ELSE ch.ring[i]]
    <3>1. ASSUME NEW i \in 0 .. Capacity - 1
          PROVE  Slot(i) = Wrap(Dist(i))
      <4>1. i + (Capacity - ch.write) = Dist(i)
        BY <1>2, CapacityIs
      <4> QED
        BY <2>1, <4>1
    <3> HIDE DEF Slot, Dist
    <3> QED
      BY <3>1
  <2>4. new = [ch EXCEPT
                 !.ring = [i \in 0 .. Capacity - 1 |->
                             IF Slot(i) < length THEN block[Slot(i)] ELSE ch.ring[i]],
                 !.write = (ch.write + length) % Capacity,
                 !.avail = ch.avail + length]
    BY DEF Pushed
  <2> QED
    BY <2>2, <2>3, <2>4
<1>4. PICK n : n = new
  OBVIOUS
<1>5. /\ n.active = ch.active /\ n.stereo = ch.stereo /\ n.count = ch.count
      /\ n.read = ch.read
      /\ n.avail = ch.avail + length /\ n.write = Wrap(ch.write + length)
      /\ n.ring = [i \in 0 .. Capacity - 1 |->
                     IF Wrap(Dist(i)) < length THEN block[Wrap(Dist(i))]
                                               ELSE ch.ring[i]]
  BY <1>3, <1>4 DEF Channel
<1>6. n.ring \in [0 .. Capacity - 1 -> Sample]
  <2>1. ASSUME NEW i \in 0 .. Capacity - 1, Wrap(Dist(i)) < length
        PROVE  block[Wrap(Dist(i))] \in Sample
    <3>1. Wrap(Dist(i)) \in 0 .. length - 1
      <4>1. PICK d : d = Wrap(Dist(i))
        OBVIOUS
      <4>2. Capacity \in Nat
        BY CapacityIs
      <4>3. d \in 0 .. Capacity - 1 /\ d < length
        BY <1>1, <2>1, <4>1
      <4>4. d \in 0 .. length - 1
        BY <4>2, <4>3
      <4> QED
        BY <4>1, <4>4
    <3> QED
      BY <3>1
  <2> QED
    BY <1>2, <1>5, <2>1
<1>7. n \in Channel
  <2>1. n.write \in 0 .. Capacity - 1 /\ n.avail \in 0 .. Capacity
    BY <1>0, <1>5
  <2> QED
    BY <1>3, <1>4, <1>5, <1>6, <2>1 DEF Channel
<1>8. Agrees(n)
  BY <1>0, <1>5 DEF Agrees
<1>9. ASSUME NEW i \in 1 .. ch.avail
      PROVE  At(n, i) = At(ch, i)
  <2> DEFINE p == Wrap((ch.read + i) - 1)
  <2>1. p \in 0 .. Capacity - 1 /\ Wrap(Dist(p)) >= Capacity - ch.avail
    BY <1>2, OldPlaces DEF Agrees
  <2>2. Wrap(Dist(p)) \in 0 .. Capacity - 1
    BY <1>1, <2>1
  <2>3. ~(Wrap(Dist(p)) < length)
    <3>1. PICK d : d = Wrap(Dist(p))
      OBVIOUS
    <3>2. d \in 0 .. Capacity - 1 /\ d >= Capacity - ch.avail
      BY <2>1, <2>2, <3>1
    <3>3. Capacity \in Nat
      BY CapacityIs
    <3>4. ~(d < length)
      BY <1>2, <3>2, <3>3
    <3> QED
      BY <3>1, <3>4
  <2>4. n.ring[p] = ch.ring[p]
    BY <1>5, <2>1, <2>3
  <2> QED
    BY <1>5, <2>4 DEF At
<1>10. ASSUME NEW i \in 0 .. length - 1
       PROVE  At(n, ch.avail + 1 + i) = block[i]
  <2> DEFINE p == Wrap((ch.read + ch.avail) + i)
  <2>1. i \in 0 .. (Capacity - ch.avail) - 1
    <3>1. Capacity \in Nat
      BY CapacityIs
    <3> QED
      BY <1>2, <3>1
  <2>2. p \in 0 .. Capacity - 1 /\ Wrap(Dist(p)) = i
    BY <1>2, <2>1, NewPlaces DEF Agrees
  <2>3. n.ring[p] = block[i]
    BY <1>5, <2>2
  <2>4. (ch.read + (ch.avail + 1 + i)) - 1 = (ch.read + ch.avail) + i
    BY <1>2
  <2> QED
    BY <1>5, <2>3, <2>4 DEF At
<1>11. Extends(n, ch, block, length)
  BY <1>5, <1>9, <1>10 DEF Extends
<1> QED
  BY <1>4, <1>7, <1>8, <1>11

(* The first n of the queue are played. *)
Shifts(new, old, n) ==
  /\ new.active = old.active /\ new.stereo = old.stereo /\ new.count = old.count
  /\ new.avail = old.avail - n
  /\ \A i \in 1 .. old.avail - n : At(new, i) = At(old, n + i)

Taken(ch, n) == [ch EXCEPT !.read = (@ + n) % Capacity, !.avail = @ - n]

LEMMA ReadOn ==
  ASSUME NEW w, NEW r \in 0 .. Capacity - 1, NEW a \in 0 .. Capacity, NEW n \in 0 .. a,
         w = Wrap(r + a)
  PROVE  /\ (r + n) % Capacity = Wrap(r + n)
         /\ Wrap(r + n) \in 0 .. Capacity - 1
         /\ a - n \in 0 .. Capacity
         /\ w = Wrap(Wrap(r + n) + (a - n))
         /\ \A i \in 1 .. a - n : Wrap((Wrap(r + n) + i) - 1) = Wrap((r + (n + i)) - 1)
<1>1. Capacity \in Nat /\ Capacity > 0
  BY CapacityIs
<1> HIDE DEF Capacity
<1>2. PICK x \in Nat : x = r + n /\ x < Capacity + Capacity
  BY <1>1
<1>3. x % Capacity = Wrap(x) /\ Wrap(x) \in 0 .. Capacity - 1
  BY <1>2, WrapIs
<1>4. PICK m \in 0 .. Capacity - 1 : m = Wrap(x)
  BY <1>3
<1>5. m = IF r + n < Capacity THEN r + n ELSE (r + n) - Capacity
  BY <1>2, <1>4 DEF Wrap
<1>6. w = Wrap(m + (a - n))
  BY <1>1, <1>5 DEF Wrap
<1>7. ASSUME NEW i \in 1 .. a - n
      PROVE  Wrap((m + i) - 1) = Wrap((r + (n + i)) - 1)
  BY <1>1, <1>5 DEF Wrap
<1>8. a - n \in 0 .. Capacity
  BY <1>1
<1> QED
  BY <1>2, <1>3, <1>4, <1>6, <1>7, <1>8

LEMMA TakenShifts ==
  ASSUME NEW ch \in Channel, Agrees(ch), NEW n \in 0 .. ch.avail
  PROVE  /\ Taken(ch, n) \in Channel
         /\ Agrees(Taken(ch, n))
         /\ Shifts(Taken(ch, n), ch, n)
<1> HIDE DEF Capacity
<1>1. ch.read \in 0 .. Capacity - 1 /\ ch.avail \in 0 .. Capacity
  BY DEF Channel
<1>2. PICK r \in 0 .. Capacity - 1, a \in 0 .. Capacity : r = ch.read /\ a = ch.avail
  BY <1>1
<1>3. /\ (r + n) % Capacity = Wrap(r + n)
      /\ Wrap(r + n) \in 0 .. Capacity - 1
      /\ a - n \in 0 .. Capacity
      /\ ch.write = Wrap(Wrap(r + n) + (a - n))
      /\ \A i \in 1 .. a - n : Wrap((Wrap(r + n) + i) - 1) = Wrap((r + (n + i)) - 1)
  <2>1. n \in 0 .. a /\ ch.write = Wrap(r + a)
    BY <1>2 DEF Agrees
  <2> QED
    BY <2>1, ReadOn
<1>4. PICK new : new = Taken(ch, n)
  OBVIOUS
<1>5. new = [ch EXCEPT !.read = Wrap(r + n), !.avail = a - n]
  BY <1>2, <1>3, <1>4 DEF Taken
<1>6. /\ new.active = ch.active /\ new.stereo = ch.stereo /\ new.count = ch.count
      /\ new.ring = ch.ring /\ new.write = ch.write
      /\ new.read = Wrap(r + n) /\ new.avail = a - n
  BY <1>5 DEF Channel
<1>7. new \in Channel
  BY <1>3, <1>5, <1>6 DEF Channel
<1>8. Agrees(new)
  BY <1>3, <1>6 DEF Agrees
<1>9. Shifts(new, ch, n)
  BY <1>2, <1>3, <1>6 DEF Shifts, At
<1> QED
  BY <1>4, <1>7, <1>8, <1>9

-----------------------------------------------------------------------------
(* Frames *)

LEMMA SidesOf ==
  ASSUME NEW a \in Nat, NEW i \in Nat, a % 2 = 0
  PROVE  Side(a + i) = Side(i) /\ (a + i) % 2 = i % 2
BY DEF Side

LEMMA ExtendsFramed ==
  ASSUME NEW old \in Channel, Framed(old), NEW new,
         NEW length \in Nat, NEW block, Extends(new, old, block, length),
         old.stereo => /\ length % 2 = 0
                       /\ \A i \in 0 .. length - 1 : block[i].side = Side(i + 1)
  PROVE  Framed(new)
<1> SUFFICES ASSUME old.stereo
             PROVE  /\ new.avail % 2 = 0
                    /\ \A i \in 1 .. new.avail : At(new, i).side = Side(i)
  BY DEF Framed, Extends
<1>1. PICK a \in Nat : a = old.avail /\ a % 2 = 0
  BY CapacityIs DEF Channel, Framed
<1>2. new.avail = a + length /\ (a + length) % 2 = 0
  BY <1>1, SidesOf DEF Extends
<1>3. ASSUME NEW i \in 1 .. a + length
      PROVE  At(new, i).side = Side(i)
  <2>1. CASE i <= a
    BY <1>1, <2>1 DEF Extends, Framed
  <2>2. CASE i > a
    <3>1. PICK j \in 0 .. length - 1 : i = a + 1 + j /\ i = a + (j + 1)
      <4>1. i - (a + 1) \in 0 .. length - 1
        BY <2>2
      <4> QED
        BY <4>1
    <3>2. At(new, i).side = Side(j + 1)
      BY <1>1, <3>1 DEF Extends
    <3>3. Side(i) = Side(j + 1)
      BY <1>1, <3>1, SidesOf
    <3> QED
      BY <3>2, <3>3
  <2> QED
    BY <2>1, <2>2
<1> QED
  BY <1>2, <1>3

LEMMA ShiftsFramed ==
  ASSUME NEW old \in Channel, Framed(old), NEW new,
         NEW n \in 0 .. old.avail, Shifts(new, old, n), old.stereo => n % 2 = 0
  PROVE  Framed(new)
<1> SUFFICES ASSUME old.stereo
             PROVE  /\ new.avail % 2 = 0
                    /\ \A i \in 1 .. new.avail : At(new, i).side = Side(i)
  BY DEF Framed, Shifts
<1>1. PICK a \in Nat : a = old.avail /\ a % 2 = 0
  BY CapacityIs DEF Channel, Framed
<1>2. n \in Nat /\ n % 2 = 0 /\ a - n \in Nat
  BY <1>1
<1>3. new.avail = a - n /\ (a - n) % 2 = 0
  BY <1>1, <1>2 DEF Shifts
<1>4. ASSUME NEW i \in 1 .. a - n
      PROVE  At(new, i).side = Side(i)
  <2>1. n + i \in 1 .. a /\ i \in Nat
    BY <1>2
  <2>2. At(new, i).side = Side(n + i)
    BY <1>1, <2>1 DEF Shifts, Framed
  <2> QED
    BY <1>2, <2>1, <2>2, SidesOf
<1> QED
  BY <1>3, <1>4

-----------------------------------------------------------------------------
(* Queues *)

QueueOf(ch) == [i \in 1 .. ch.avail |-> At(ch, i)]

LEMMA QueueIs ==
  ASSUME NEW ch \in Channel
  PROVE  /\ [i \in 1 .. ch.avail |-> ch.ring[(ch.read + i - 1) % Capacity]] = QueueOf(ch)
         /\ ch.avail \in Nat
         /\ QueueOf(ch) \in [1 .. ch.avail -> Sample]
         /\ QueueOf(ch) \in Seq(Sample)
         /\ Len(QueueOf(ch)) = ch.avail
         /\ \A i \in 1 .. ch.avail : QueueOf(ch)[i] = At(ch, i)
<1>1. Capacity \in Nat /\ Capacity > 0
  BY CapacityIs
<1> HIDE DEF Capacity
<1>2. PICK r \in 0 .. Capacity - 1, a \in 0 .. Capacity : r = ch.read /\ a = ch.avail
  BY DEF Channel
<1>3. ch.ring \in [0 .. Capacity - 1 -> Sample]
  BY DEF Channel
<1>4. ASSUME NEW i \in 1 .. a
      PROVE  /\ (r + i - 1) % Capacity = Wrap((r + i) - 1)
             /\ Wrap((r + i) - 1) \in 0 .. Capacity - 1
  <2>1. PICK x \in Nat : x = r + i - 1 /\ x = (r + i) - 1 /\ x < Capacity + Capacity
    BY <1>1
  <2> QED
    BY <2>1, WrapIs
<1>5. [i \in 1 .. ch.avail |-> ch.ring[(ch.read + i - 1) % Capacity]] = QueueOf(ch)
  BY <1>2, <1>4 DEF QueueOf, At
<1>6. QueueOf(ch) \in [1 .. ch.avail -> Sample]
  BY <1>2, <1>3, <1>4 DEF QueueOf, At
<1>7. a \in Nat
  BY <1>1
<1>8. QueueOf(ch) \in Seq(Sample) /\ Len(QueueOf(ch)) = ch.avail
  BY <1>2, <1>6, <1>7
<1> QED
  BY <1>2, <1>5, <1>6, <1>7, <1>8 DEF QueueOf

LEMMA ExtendsPrefix ==
  ASSUME NEW old \in Channel, NEW new \in Channel,
         NEW length \in Nat, NEW block, Extends(new, old, block, length)
  PROVE  Abstract!IsPrefix(QueueOf(old), QueueOf(new))
<1>1. PICK s \in Seq(Sample), t \in Seq(Sample) : s = QueueOf(old) /\ t = QueueOf(new)
  BY QueueIs
<1>2. Len(s) = old.avail /\ Len(t) = old.avail + length /\ old.avail \in Nat
  BY <1>1, QueueIs DEF Extends
<1>3. ASSUME NEW i \in 1 .. Len(s)
      PROVE  s[i] = t[i]
  <2>1. i \in 1 .. old.avail /\ i \in 1 .. new.avail
    BY <1>2 DEF Extends
  <2> QED
    BY <1>1, <2>1, QueueIs DEF Extends
<1>4. Len(s) <= Len(t)
  BY <1>2
<1>5. SubSeq(s, 1, Len(s)) = SubSeq(t, 1, Len(s))
  BY <1>3, <1>4
<1> QED
  BY <1>1, <1>4, <1>5 DEF Abstract!IsPrefix

LEMMA Backwards ==
  ASSUME NEW a \in Nat, NEW n \in 0 .. a, NEW i \in 1 .. a - n
  PROVE  /\ ((a - n) - i) + 1 \in 1 .. a - n
         /\ n + (((a - n) - i) + 1) = (a - i) + 1
         /\ n + (((a - n) - i) + 1) \in 1 .. a
OBVIOUS

LEMMA ShiftsSuffix ==
  ASSUME NEW old \in Channel, NEW new \in Channel,
         NEW n \in 0 .. old.avail, Shifts(new, old, n)
  PROVE  Abstract!IsSuffix(QueueOf(new), QueueOf(old))
<1>1. PICK s \in Seq(Sample), t \in Seq(Sample) : s = QueueOf(new) /\ t = QueueOf(old)
  BY QueueIs
<1>2. PICK a \in Nat : a = old.avail /\ n \in 0 .. a
  BY QueueIs
<1>3. Len(s) = a - n /\ Len(t) = a /\ a - n \in Nat /\ new.avail = a - n
  BY <1>1, <1>2, QueueIs DEF Shifts
<1> DEFINE u == Abstract!Reverse(s)
           v == Abstract!Reverse(t)
<1>4. u \in Seq(Sample) /\ Len(u) = a - n /\ \A i \in 1 .. a - n : u[i] = s[((a - n) - i) + 1]
  BY <1>3 DEF Abstract!Reverse
<1>5. v \in Seq(Sample) /\ Len(v) = a /\ \A i \in 1 .. a : v[i] = t[(a - i) + 1]
  BY <1>3 DEF Abstract!Reverse
<1>6. ASSUME NEW i \in 1 .. a - n
      PROVE  u[i] = v[i]
  <2>1. PICK j \in 1 .. a - n : j = ((a - n) - i) + 1 /\ n + j = (a - i) + 1 /\ n + j \in 1 .. a
    <3>1. /\ ((a - n) - i) + 1 \in 1 .. a - n
          /\ n + (((a - n) - i) + 1) = (a - i) + 1
          /\ n + (((a - n) - i) + 1) \in 1 .. a
      BY <1>2, Backwards
    <3> QED
      BY <3>1
  <2>2. s[j] = At(new, j)
    BY <1>1, <1>3, <2>1, QueueIs
  <2>3. t[n + j] = At(old, n + j)
    BY <1>1, <1>2, <2>1, QueueIs
  <2>4. s[j] = t[n + j]
    BY <1>2, <2>1, <2>2, <2>3 DEF Shifts
  <2>5. i \in 1 .. a
    BY <1>2, <1>3
  <2> QED
    BY <1>4, <1>5, <2>1, <2>4, <2>5
<1> HIDE DEF u, v
<1>7. Len(u) <= Len(v)
  BY <1>2, <1>4, <1>5
<1>8. SubSeq(u, 1, Len(u)) = SubSeq(v, 1, Len(u))
  BY <1>3, <1>4, <1>5, <1>6, <1>7
<1>9. Abstract!IsPrefix(u, v)
  BY <1>7, <1>8 DEF Abstract!IsPrefix
<1> QED
  BY <1>1, <1>9 DEF Abstract!IsSuffix, u, v

-----------------------------------------------------------------------------
(* The invariant *)

Rings ==
  /\ channels \in [Channels -> Channel]
  /\ \A c \in Channels : Agrees(channels[c]) /\ Framed(channels[c])

CallTyped ==
  /\ main \in [op : {"idle", "output", "release"}, channel : Channels, number : {0, 1}]
  /\ silent \in BOOLEAN

(* The emulator thread polls a channel that is reserved, for an output only *)
(* if there is a device; without one nothing is ever queued.                *)
CallFounded ==
  /\ main.op # "idle" => channels[main.channel].active
  /\ main.op = "output" => ~silent
  /\ silent => \A c \in Channels : channels[c].avail = 0

MixInv == Rings /\ CallTyped /\ CallFounded

LEMMA IdleIs == Idle \in [op : {"idle", "output", "release"}, channel : Channels, number : {0, 1}]
                /\ Idle.op = "idle"
BY ChannelsAssumption DEF Idle, Channels

LEMMA NoChannelIs == NoChannel \in Channel /\ Agrees(NoChannel) /\ Framed(NoChannel)
<1>1. Capacity \in Nat /\ Capacity > 0
  BY CapacityIs
<1> HIDE DEF Capacity
<1>2. NoChannel.count \in Counts
  BY RateAssumption DEF NoChannel
<1>3. [i \in 0 .. Capacity - 1 |-> Silence] \in [0 .. Capacity - 1 -> Sample]
  BY DEF Silence, Sample
<1>4. NoChannel \in Channel
  BY <1>1, <1>2, <1>3 DEF NoChannel, Channel
<1>5. Agrees(NoChannel)
  BY <1>1 DEF NoChannel, Agrees, Wrap
<1> QED
  BY <1>4, <1>5 DEF NoChannel, Framed

LEMMA InitHolds == MInit => MixInv
<1> SUFFICES ASSUME MInit PROVE MixInv
  OBVIOUS
<1>1. Rings
  BY NoChannelIs DEF MInit, Rings
<1>2. CallTyped
  BY IdleIs DEF MInit, CallTyped
<1>3. CallFounded
  BY IdleIs DEF MInit, CallFounded, NoChannel
<1> QED
  BY <1>1, <1>2, <1>3 DEF MixInv

LEMMA OneRing ==
  ASSUME Rings, NEW c \in Channels, NEW new \in Channel, Agrees(new), Framed(new),
         Set(c, new)
  PROVE  /\ Rings'
         /\ channels'[c] = new
         /\ \A d \in Channels \ {c} : channels'[d] = channels[d]
<1>1. /\ channels' \in [Channels -> Channel]
      /\ channels'[c] = new
      /\ \A d \in Channels \ {c} : channels'[d] = channels[d]
  BY DEF Rings, Set
<1>2. ASSUME NEW d \in Channels
      PROVE  Agrees(channels'[d]) /\ Framed(channels'[d])
  BY <1>1 DEF Rings
<1> QED
  BY <1>1, <1>2 DEF Rings

LEMMA BlockIs ==
  ASSUME Rings, NEW c \in Channels, NEW number \in {0, 1}
  PROVE  /\ Element(c) \in Nat
         /\ Block(c, number) \in [0 .. Element(c) - 1 -> Sample]
         /\ channels[c].stereo => /\ Element(c) % 2 = 0
                                  /\ \A i \in 0 .. Element(c) - 1 :
                                       Block(c, number)[i].side = Side(i + 1)
<1>1. channels[c].count \in Nat /\ channels[c].stereo \in BOOLEAN
  BY RateAssumption DEF Rings, Channel
<1>2. PICK n \in Nat : n = channels[c].count
  BY <1>1
<1>3. Element(c) = IF channels[c].stereo THEN n * 2 ELSE n
  BY <1>2 DEF Element, Width
<1>4. PICK e \in Nat : e = Element(c) /\ (channels[c].stereo => e % 2 = 0)
  <2>1. n * 2 \in Nat /\ (n * 2) % 2 = 0
    OBVIOUS
  <2> QED
    BY <1>3, <2>1
<1>5. ASSUME NEW i \in 0 .. e - 1
      PROVE  /\ Block(c, number)[i] \in Sample
             /\ channels[c].stereo => Block(c, number)[i].side = Side(i + 1)
  <2>1. (i + 1) % 2 = IF i % 2 = 1 THEN 0 ELSE 1
    OBVIOUS
  <2>2. Block(c, number)[i] =
          [block |-> number,
           side |-> IF channels[c].stereo /\ i % 2 = 1 THEN "right" ELSE "left"]
    BY <1>4 DEF Block
  <2> QED
    BY <2>1, <2>2 DEF Sample, Side
<1>6. Block(c, number) \in [0 .. e - 1 -> Sample]
  <2>1. ASSUME NEW i \in 0 .. e - 1
        PROVE  [block |-> number,
                side |-> IF channels[c].stereo /\ i % 2 = 1 THEN "right" ELSE "left"]
               \in Sample
    BY DEF Sample
  <2> QED
    BY <1>4, <2>1 DEF Block
<1> QED
  BY <1>4, <1>5, <1>6

(* What the two outputs do to the rings. *)
LEMMA PushKeeps ==
  ASSUME Rings, NEW c \in Channels, NEW number \in {0, 1}, Fits(c), Push(c, number)
  PROVE  /\ Rings'
         /\ \A d \in Channels \ {c} : channels'[d] = channels[d]
         /\ channels'[c].active = channels[c].active
         /\ Extends(channels'[c], channels[c], Block(c, number), Element(c))
<1>1. PICK ch \in Channel : ch = channels[c] /\ Agrees(ch) /\ Framed(ch)
  BY DEF Rings
<1>2. PICK length \in Nat, block \in {Block(c, number)} :
        /\ length = Element(c) /\ block = Block(c, number)
        /\ block \in [0 .. length - 1 -> Sample]
        /\ ch.stereo => /\ length % 2 = 0
                        /\ \A i \in 0 .. length - 1 : block[i].side = Side(i + 1)
  BY <1>1, BlockIs
<1>3. length <= Capacity - ch.avail
  BY <1>1, <1>2 DEF Fits
<1>4. PICK new : new = Pushed(ch, block, length)
  OBVIOUS
<1>5. new \in Channel /\ Agrees(new) /\ Extends(new, ch, block, length)
  BY <1>1, <1>2, <1>3, <1>4, PushedExtends
<1>6. Framed(new)
  BY <1>1, <1>2, <1>5, ExtendsFramed
<1>7. Set(c, new)
  BY <1>1, <1>2, <1>4 DEF Push
<1>8. /\ Rings' /\ channels'[c] = new
      /\ \A d \in Channels \ {c} : channels'[d] = channels[d]
  BY <1>5, <1>6, <1>7, OneRing
<1> QED
  BY <1>1, <1>2, <1>5, <1>8 DEF Extends

(* What the callback does to one ring. *)
LEMMA MixedShifts ==
  ASSUME Rings, NEW c \in Channels
  PROVE  /\ Mixed(c) \in Channel /\ Agrees(Mixed(c)) /\ Framed(Mixed(c))
         /\ Mixed(c).active = channels[c].active
         /\ \E n \in 0 .. channels[c].avail : Shifts(Mixed(c), channels[c], n)
<1>1. PICK ch \in Channel : ch = channels[c] /\ Agrees(ch) /\ Framed(ch)
  BY DEF Rings
<1>2. PICK a \in Nat : a = ch.avail
  BY QueueIs
<1>3. ch.stereo \in BOOLEAN /\ Chunk \in Nat
  BY RateAssumption DEF Channel
<1> DEFINE frames == Least(Chunk, a \div Width(c))
           taken  == frames * Width(c)
<1>4. PICK w \in {1, 2} : w = Width(c) /\ (ch.stereo => w = 2)
  BY <1>1 DEF Width
<1>5. taken \in 0 .. a /\ (ch.stereo => taken % 2 = 0)
  <2>1. PICK f \in Nat : f = frames /\ f <= a \div w
    BY <1>3, <1>4 DEF Least
  <2>2. f * w <= a /\ f * w \in Nat /\ (w = 2 => (f * w) % 2 = 0)
    BY <2>1, <1>4
  <2> QED
    BY <1>4, <2>1, <2>2
<1>6. PICK n \in 0 .. a : n = taken /\ (ch.stereo => n % 2 = 0)
  BY <1>5
<1>7. CASE ch.active
  <2>1. PICK new : new = Taken(ch, n)
    OBVIOUS
  <2>2. new = Mixed(c)
    BY <1>1, <1>2, <1>6, <1>7, <2>1 DEF Taken, Mixed
  <2>3. n \in 0 .. ch.avail
    BY <1>2
  <2>4. new \in Channel /\ Agrees(new) /\ Shifts(new, ch, n)
    BY <1>1, <2>1, <2>3, TakenShifts
  <2>5. Framed(new)
    BY <1>1, <1>6, <2>3, <2>4, ShiftsFramed
  <2> QED
    BY <1>1, <2>2, <2>3, <2>4, <2>5 DEF Shifts
<1>8. CASE ~ch.active
  <2>1. Mixed(c) = ch
    BY <1>1, <1>8 DEF Mixed
  <2>2. 0 \in 0 .. ch.avail /\ Shifts(ch, ch, 0)
    BY <1>2 DEF Shifts
  <2> QED
    BY <1>1, <2>1, <2>2
<1> QED
  BY <1>7, <1>8

-----------------------------------------------------------------------------
(* Steps: each keeps the invariant and is a step of SampleQueues. *)

Reserved == [c \in Channels |-> channels[c].active]
Queues   == [c \in Channels |-> Queue(c)]
Lengths  == [c \in Channels |-> Element(c)]

LEMMA SameLength ==
  ASSUME NEW c \in Channels,
         channels'[c].stereo = channels[c].stereo, channels'[c].count = channels[c].count
  PROVE  Lengths'[c] = Lengths[c]
BY DEF Lengths, Element, Width

LEMMA SameLengths ==
  ASSUME \A c \in Channels : /\ channels'[c].stereo = channels[c].stereo
                             /\ channels'[c].count = channels[c].count
  PROVE  UNCHANGED Lengths
<1>1. \A c \in Channels : Lengths'[c] = Lengths[c]
  BY SameLength
<1> QED
  BY <1>1 DEF Lengths

LEMMA OtherLengths ==
  ASSUME NEW c \in Channels, \A d \in Channels \ {c} : channels'[d] = channels[d]
  PROVE  Abstract!Measures(c)
<1>1. \A d \in Channels \ {c} : Lengths'[d] = Lengths[d]
  BY SameLength
<1> QED
  BY <1>1 DEF Abstract!Measures, Lengths

LEMMA QueuesNow ==
  ASSUME Rings, NEW c \in Channels
  PROVE  Reserved[c] = channels[c].active /\ Queues[c] = QueueOf(channels[c])
<1>1. channels[c] \in Channel
  BY DEF Rings
<1> QED
  BY <1>1, QueueIs DEF Reserved, Queues, Queue

LEMMA QueuesNext ==
  ASSUME Rings', NEW c \in Channels
  PROVE  Reserved'[c] = channels'[c].active /\ Queues'[c] = QueueOf(channels'[c])
<1>1. channels'[c] \in Channel
  BY DEF Rings
<1> QED
  BY <1>1, QueueIs DEF Reserved, Queues, Queue

LEMMA EmptyQueue ==
  ASSUME NEW ch \in Channel
  PROVE  QueueOf(ch) = <<>> <=> ch.avail = 0
<1>1. PICK q \in Seq(Sample) : q = QueueOf(ch) /\ Len(q) = ch.avail
  BY QueueIs
<1>2. q = <<>> <=> Len(q) = 0
  OBVIOUS
<1> QED
  BY <1>1, <1>2

LEMMA ReserveStep ==
  ASSUME MixInv, NEW c \in Channels, NEW count \in Counts, NEW stereo \in BOOLEAN,
         Reserve(c, count, stereo)
  PROVE  MixInv' /\ Abstract!Reserve(c)
<1> USE DEF MixInv
<1>1. PICK ch \in Channel : ch = channels[c] /\ ~ch.active
  BY DEF Rings, Reserve
<1>2. PICK new : new = [ch EXCEPT !.active = TRUE, !.stereo = stereo, !.count = count,
                                  !.write = 0, !.read = 0, !.avail = 0]
  OBVIOUS
<1>3. new \in Channel /\ new.avail = 0 /\ new.read = 0 /\ new.write = 0 /\ new.active
  <2>1. new = [active |-> TRUE, stereo |-> stereo, count |-> count, ring |-> ch.ring,
               write |-> 0, read |-> 0, avail |-> 0]
    BY <1>2 DEF Channel
  <2>2. ch.ring \in [0 .. Capacity - 1 -> Sample]
    BY DEF Channel
  <2>3. 0 \in 0 .. Capacity - 1 /\ 0 \in 0 .. Capacity
    BY CapacityIs
  <2> QED
    BY <2>1, <2>2, <2>3 DEF Channel
<1>4. Agrees(new) /\ Framed(new)
  BY <1>3, CapacityIs DEF Agrees, Framed, Wrap
<1>5. Set(c, new)
  BY <1>1, <1>2 DEF Reserve
<1>6. /\ Rings' /\ channels'[c] = new
      /\ \A d \in Channels \ {c} : channels'[d] = channels[d]
  BY <1>3, <1>4, <1>5, OneRing
<1>7. MixInv'
  <2>1. CallTyped'
    BY DEF Reserve, CallTyped
  <2>2. CallFounded'
    BY <1>3, <1>6 DEF Reserve, CallFounded
  <2> QED
    BY <1>6, <2>1, <2>2
<1>8. ~Reserved[c]
  BY <1>1, QueuesNow
<1>9. Reserved' = [Reserved EXCEPT ![c] = TRUE]
  BY <1>3, <1>6 DEF Reserved
<1>10. Queues' = [Queues EXCEPT ![c] = <<>>]
  <2>1. Queues'[c] = <<>>
    BY <1>3, <1>6, QueuesNext, EmptyQueue
  <2>2. ASSUME NEW d \in Channels \ {c}
        PROVE  Queues'[d] = Queues[d]
    BY <1>6, QueuesNow, QueuesNext
  <2> QED
    BY <2>1, <2>2 DEF Queues
<1>11. Abstract!Reserve(c)
  BY <1>6, <1>8, <1>9, <1>10, OtherLengths DEF Abstract!Reserve, Reserved, Queues
<1> QED
  BY <1>7, <1>11

LEMMA SameQueues ==
  ASSUME Rings, Rings',
         \A c \in Channels : /\ channels'[c].active = channels[c].active
                             /\ QueueOf(channels'[c]) = QueueOf(channels[c])
  PROVE  Reserved' = Reserved /\ Queues' = Queues
<1>1. \A c \in Channels : Reserved'[c] = Reserved[c] /\ Queues'[c] = Queues[c]
  BY QueuesNow, QueuesNext
<1> QED
  BY <1>1 DEF Reserved, Queues

LEMMA SameChannels ==
  ASSUME Rings, Rings', UNCHANGED channels
  PROVE  UNCHANGED Abstract!qvars
<1>1. Reserved' = Reserved /\ Queues' = Queues
  BY SameQueues
<1>2. UNCHANGED Lengths
  BY SameLengths
<1> QED
  BY <1>1, <1>2 DEF Abstract!qvars, Reserved, Queues, Lengths

LEMMA SetLengthStep ==
  ASSUME MixInv, NEW c \in Channels, NEW count \in Counts, SetLength(c, count)
  PROVE  MixInv' /\ Abstract!SetLength(c)
<1> USE DEF MixInv
<1>1. PICK ch \in Channel : ch = channels[c] /\ Agrees(ch) /\ Framed(ch)
  BY DEF Rings
<1>2. PICK new : new = [ch EXCEPT !.count = count]
  OBVIOUS
<1>3. /\ new \in Channel /\ new.avail = ch.avail /\ new.read = ch.read
      /\ new.write = ch.write /\ new.active = ch.active /\ new.stereo = ch.stereo
      /\ new.ring = ch.ring
  BY <1>2 DEF Channel
<1>4. Agrees(new) /\ Framed(new) /\ QueueOf(new) = QueueOf(ch)
  BY <1>1, <1>3 DEF Agrees, Framed, QueueOf, At
<1>5. Set(c, new)
  BY <1>1, <1>2 DEF SetLength
<1>6. /\ Rings' /\ channels'[c] = new
      /\ \A d \in Channels \ {c} : channels'[d] = channels[d]
  BY <1>3, <1>4, <1>5, OneRing
<1>7. CallTyped'
  BY DEF SetLength, CallTyped
<1>8. \A d \in Channels : /\ channels'[d].active = channels[d].active
                          /\ channels'[d].avail = channels[d].avail
                          /\ QueueOf(channels'[d]) = QueueOf(channels[d])
  BY <1>1, <1>3, <1>4, <1>6
<1>9. CallFounded'
  BY <1>8 DEF SetLength, CallFounded, CallTyped
<1>10. Reserved' = Reserved /\ Queues' = Queues
  BY <1>6, <1>8, SameQueues
<1>11. Abstract!SetLength(c)
  BY <1>6, <1>10, OtherLengths DEF Abstract!SetLength, Reserved, Queues
<1> QED
  BY <1>6, <1>7, <1>9, <1>11

(* A push by either output. *)
LEMMA PushStep ==
  ASSUME Rings, NEW c \in Channels, NEW number \in {0, 1},
         channels[c].active, Fits(c), Push(c, number)
  PROVE  /\ Rings' /\ \A d \in Channels : channels'[d].active = channels[d].active
         /\ Abstract!Push(c)
<1>1. /\ Rings'
      /\ \A d \in Channels \ {c} : channels'[d] = channels[d]
      /\ channels'[c].active = channels[c].active
      /\ Extends(channels'[c], channels[c], Block(c, number), Element(c))
  BY PushKeeps
<1>2. \A d \in Channels : channels'[d].active = channels[d].active
  BY <1>1
<1>3. channels[c] \in Channel /\ channels'[c] \in Channel
  BY <1>1 DEF Rings
<1>4. Reserved[c]
  BY QueuesNow
<1>5. Len(Queues'[c]) <= Capacity
  <2>1. Queues'[c] = QueueOf(channels'[c])
    BY <1>1, QueuesNext
  <2>2. channels'[c].avail \in 0 .. Capacity
    BY <1>3 DEF Channel
  <2> QED
    BY <1>3, <2>1, <2>2, QueueIs, CapacityIs
<1>6. Abstract!IsPrefix(Queues[c], Queues'[c])
  <2>1. Element(c) \in Nat
    BY BlockIs
  <2>2. Abstract!IsPrefix(QueueOf(channels[c]), QueueOf(channels'[c]))
    BY <1>1, <1>3, <2>1, ExtendsPrefix
  <2> QED
    BY <1>1, <2>2, QueuesNow, QueuesNext
<1>7. \A d \in Channels \ {c} : Queues'[d] = Queues[d]
  BY <1>1, QueuesNow, QueuesNext
<1>8. UNCHANGED Reserved
  BY <1>2 DEF Reserved
<1>9. UNCHANGED Lengths
  BY <1>1, SameLengths DEF Extends
<1>10. Len(Queues'[c]) = Len(Queues[c]) + Lengths[c]
  <2>1. Queues'[c] = QueueOf(channels'[c]) /\ Queues[c] = QueueOf(channels[c])
    BY <1>1, QueuesNow, QueuesNext
  <2>2. channels'[c].avail = channels[c].avail + Element(c)
    BY <1>1 DEF Extends
  <2> QED
    BY <1>3, <2>1, <2>2, QueueIs DEF Lengths
<1>11. Abstract!Push(c)
  BY <1>4, <1>5, <1>6, <1>7, <1>8, <1>9, <1>10
     DEF Abstract!Push, Reserved, Queues, Lengths
<1> QED
  BY <1>1, <1>2, <1>11

LEMMA OutputStep ==
  ASSUME MixInv, NEW c \in Channels, NEW number \in {0, 1}, Output(c, number)
  PROVE  MixInv' /\ Abstract!Push(c)
<1> USE DEF MixInv
<1>1. /\ Rings' /\ \A d \in Channels : channels'[d].active = channels[d].active
      /\ Abstract!Push(c)
  BY PushStep DEF Output
<1>2. CallTyped' /\ CallFounded'
  BY <1>1 DEF Output, CallTyped, CallFounded
<1> QED
  BY <1>1, <1>2

LEMMA OutputFitsStep ==
  ASSUME MixInv, OutputFits
  PROVE  MixInv' /\ Abstract!Push(main.channel)
<1> USE DEF MixInv
<1>1. main.channel \in Channels /\ main.number \in {0, 1} /\ channels[main.channel].active
  BY DEF CallTyped, CallFounded, OutputFits
<1>2. /\ Rings' /\ \A d \in Channels : channels'[d].active = channels[d].active
      /\ Abstract!Push(main.channel)
  BY <1>1, PushStep DEF OutputFits
<1>3. CallTyped' /\ CallFounded'
  BY IdleIs DEF OutputFits, CallTyped, CallFounded
<1> QED
  BY <1>2, <1>3

(* A call that begins to poll. *)
LEMMA CallStep ==
  ASSUME MixInv, NEW c \in Channels, NEW number \in {0, 1}, NEW op \in {"output", "release"},
         channels[c].active, op = "output" => ~silent,
         main' = [op |-> op, channel |-> c, number |-> number],
         UNCHANGED <<channels, silent>>
  PROVE  MixInv' /\ UNCHANGED Abstract!qvars
<1> USE DEF MixInv
<1>1. Rings'
  BY DEF Rings
<1>2. CallTyped' /\ CallFounded'
  BY DEF CallTyped, CallFounded
<1>3. UNCHANGED Abstract!qvars
  BY <1>1, SameChannels
<1> QED
  BY <1>1, <1>2, <1>3

LEMMA DrainedStep ==
  ASSUME MixInv, Drained
  PROVE  MixInv' /\ \E c \in Channels : Abstract!Release(c)
<1> USE DEF MixInv
<1>1. PICK c \in Channels : c = main.channel
  BY DEF CallTyped
<1>2. channels[c].active
  BY <1>1 DEF CallFounded, Drained
<1>3. PICK ch \in Channel : ch = channels[c] /\ Agrees(ch) /\ Framed(ch)
  BY DEF Rings
<1>4. ch.avail = 0
  BY <1>1, <1>3, QueueIs DEF CallFounded, Drained
<1>5. PICK new : new = [ch EXCEPT !.active = FALSE]
  OBVIOUS
<1>6. /\ new \in Channel /\ new.avail = 0 /\ new.read = ch.read /\ new.active = FALSE
      /\ new.write = ch.write /\ new.stereo = ch.stereo /\ new.ring = ch.ring
      /\ new.count = ch.count
  BY <1>4, <1>5 DEF Channel
<1>7. Agrees(new) /\ Framed(new) /\ QueueOf(new) = QueueOf(ch)
  BY <1>3, <1>4, <1>6 DEF Agrees, Framed, QueueOf, At
<1>8. Set(c, new)
  BY <1>1, <1>3, <1>5 DEF Drained
<1>9. /\ Rings' /\ channels'[c] = new
      /\ \A d \in Channels \ {c} : channels'[d] = channels[d]
  BY <1>6, <1>7, <1>8, OneRing
<1>10. CallTyped' /\ CallFounded'
  BY <1>6, <1>9, IdleIs DEF Drained, CallTyped, CallFounded
<1>11. Reserved[c] /\ Queues[c] = <<>>
  BY <1>2, <1>3, <1>4, QueuesNow, EmptyQueue
<1>12. Reserved' = [Reserved EXCEPT ![c] = FALSE]
  BY <1>6, <1>9 DEF Reserved
<1>13. UNCHANGED Queues
  <2>1. \A d \in Channels : Queues'[d] = Queues[d]
    BY <1>3, <1>7, <1>9, QueuesNow, QueuesNext
  <2> QED
    BY <2>1 DEF Queues
<1>14. UNCHANGED Lengths
  BY <1>3, <1>6, <1>9, SameLengths
<1>15. Abstract!Release(c)
  BY <1>11, <1>12, <1>13, <1>14 DEF Abstract!Release, Reserved, Queues, Lengths
<1> QED
  BY <1>9, <1>10, <1>15

LEMMA MixStep ==
  ASSUME MixInv, Mix
  PROVE  MixInv' /\ Abstract!Play
<1> USE DEF MixInv
<1>1. ASSUME NEW c \in Channels
      PROVE  /\ channels'[c] \in Channel /\ Agrees(channels'[c]) /\ Framed(channels'[c])
             /\ channels'[c].active = channels[c].active
             /\ \E n \in 0 .. channels[c].avail : Shifts(channels'[c], channels[c], n)
  <2>1. channels'[c] = Mixed(c)
    BY DEF Mix
  <2> QED
    BY <2>1, MixedShifts
<1>2. Rings'
  BY <1>1 DEF Rings, Mix
<1>3. CallTyped' /\ CallFounded'
  BY <1>1 DEF Mix, CallTyped, CallFounded
<1>4. ASSUME NEW c \in Channels
      PROVE  Abstract!IsSuffix(Queues'[c], Queues[c])
  <2>1. PICK n \in 0 .. channels[c].avail : Shifts(channels'[c], channels[c], n)
    BY <1>1
  <2>2. channels[c] \in Channel
    BY DEF Rings
  <2>3. Abstract!IsSuffix(QueueOf(channels'[c]), QueueOf(channels[c]))
    BY <1>1, <2>1, <2>2, ShiftsSuffix
  <2> QED
    BY <1>2, <2>3, QueuesNow, QueuesNext
<1>5. UNCHANGED Reserved
  BY <1>1 DEF Reserved
<1>6. UNCHANGED Lengths
  BY <1>1, SameLengths DEF Shifts
<1>7. Abstract!Play
  BY <1>4, <1>5, <1>6 DEF Abstract!Play, Reserved, Queues, Lengths
<1> QED
  BY <1>2, <1>3, <1>7

LEMMA StepKeeps ==
  MixInv /\ [MNext]_mvars => MixInv' /\ [Abstract!QNext]_(Abstract!qvars)
<1> SUFFICES ASSUME MixInv, [MNext]_mvars
             PROVE  MixInv' /\ [Abstract!QNext]_(Abstract!qvars)
  OBVIOUS
<1>1. ASSUME NEW c \in Channels, NEW count \in Counts, SetLength(c, count)
      PROVE  MixInv' /\ Abstract!QNext
  BY <1>1, SetLengthStep DEF Abstract!QNext
<1>2. ASSUME NEW c \in Channels, NEW count \in Counts, NEW stereo \in BOOLEAN,
             Reserve(c, count, stereo)
      PROVE  MixInv' /\ Abstract!QNext
  BY <1>2, ReserveStep DEF Abstract!QNext
<1>3. ASSUME NEW c \in Channels, NEW number \in {0, 1}, Output(c, number)
      PROVE  MixInv' /\ Abstract!QNext
  BY <1>3, OutputStep DEF Abstract!QNext
<1>4. ASSUME NEW c \in Channels, NEW number \in {0, 1}, OutputBlocking(c, number)
      PROVE  MixInv' /\ UNCHANGED Abstract!qvars
  BY <1>4, CallStep DEF OutputBlocking
<1>5. ASSUME NEW c \in Channels, Release(c)
      PROVE  MixInv' /\ UNCHANGED Abstract!qvars
  BY <1>5, CallStep DEF Release
<1>6. CASE OutputFits
  <2>1. main.channel \in Channels
    BY DEF MixInv, CallTyped
  <2> QED
    BY <1>6, <2>1, OutputFitsStep DEF Abstract!QNext
<1>7. CASE Drained
  BY <1>7, DrainedStep DEF Abstract!QNext
<1>8. CASE Mix
  BY <1>8, MixStep DEF Abstract!QNext
<1>9. CASE UNCHANGED mvars
  <2>1. MixInv'
    BY <1>9 DEF mvars, MixInv, Rings, CallTyped, CallFounded
  <2> QED
    BY <1>9, <2>1, SameChannels DEF mvars, MixInv
<1>10. CASE Calls
  BY <1>1, <1>2, <1>3, <1>4, <1>5, <1>10 DEF Calls
<1> QED
  BY <1>6, <1>7, <1>8, <1>9, <1>10 DEF MNext, Polls

LEMMA InvTyped == MixInv => MTypeOK
<1> SUFFICES ASSUME MixInv PROVE MTypeOK
  OBVIOUS
<1> HIDE DEF Capacity
<1>1. ASSUME NEW c \in Channels
      PROVE  channels[c].write = (channels[c].read + channels[c].avail) % Capacity
  <2>1. PICK r \in 0 .. Capacity - 1, a \in 0 .. Capacity :
          /\ r = channels[c].read /\ a = channels[c].avail
          /\ channels[c].write = Wrap(r + a)
    BY DEF MixInv, Rings, Channel, Agrees
  <2>2. PICK x \in Nat : x = r + a /\ x < Capacity + Capacity
    BY CapacityIs
  <2> QED
    BY <2>1, <2>2, WrapIs
<1>2. ASSUME NEW c \in Channels, channels[c].stereo
      PROVE  /\ channels[c].avail % 2 = 0
             /\ \A i \in 1 .. channels[c].avail :
                  Queue(c)[i].side = IF i % 2 = 1 THEN "left" ELSE "right"
  <2>1. channels[c] \in Channel /\ Framed(channels[c])
    BY DEF MixInv, Rings
  <2>2. Queue(c) = QueueOf(channels[c])
    BY <2>1, QueueIs DEF Queue
  <2> QED
    BY <1>2, <2>1, <2>2, QueueIs DEF Framed, Side
<1>3. FramesWhole
  BY <1>2 DEF FramesWhole
<1> QED
  BY <1>1, <1>3 DEF MTypeOK, MixInv, Rings, CallTyped

-----------------------------------------------------------------------------
(* The counters of every ring agree, and a stereo channel always holds     *)
(* whole frames, left before right: the callback, which takes what fits    *)
(* from mips_audio_mix at any moment, never swaps the sides, for any size  *)
(* of the ring, any lengths of blocks and any request of the device.       *)
THEOREM FramesStayWhole == MSpec => []MTypeOK
<1>1. MixInv /\ [MNext]_mvars => MixInv'
  BY StepKeeps
<1> QED
  BY <1>1, InitHolds, InvTyped, PTL DEF MSpec

LEMMA InitMaps == MInit => Abstract!QInit
<1> SUFFICES ASSUME MInit PROVE Abstract!QInit
  OBVIOUS
<1>1. Rings
  BY InitHolds DEF MixInv
<1>2. ASSUME NEW c \in Channels
      PROVE  Reserved[c] = FALSE /\ Queues[c] = <<>>
  <2>1. /\ channels[c] \in Channel /\ channels[c].avail = 0
        /\ channels[c].active = FALSE
    BY NoChannelIs DEF MInit, NoChannel
  <2> QED
    BY <1>1, <2>1, QueuesNow, EmptyQueue
<1>3. Reserved = [c \in Channels |-> FALSE] /\ Queues = [c \in Channels |-> <<>>]
  BY <1>2 DEF Reserved, Queues
<1>4. Lengths \in [Channels -> Nat]
  BY <1>1, BlockIs DEF Lengths
<1> QED
  BY <1>3, <1>4 DEF Abstract!QInit, Reserved, Queues, Lengths

(* The rings of mips_audio.c are queues: a channel plays what it was given *)
(* in order and once, nothing of an earlier reservation, a block is queued *)
(* whole or not at all, and a release of sceAudioChRelease cuts nothing    *)
(* off.                                                                    *)
THEOREM RingsAreQueues == MSpec => ImplementsQueues
<1>1. MixInv /\ [MNext]_mvars => MixInv' /\ [Abstract!QNext]_(Abstract!qvars)
  BY StepKeeps
<1> QED
  BY <1>1, InitHolds, InitMaps, PTL DEF MSpec, ImplementsQueues, Abstract!QSpec

=============================================================================
