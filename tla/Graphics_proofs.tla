---------------------------- MODULE Graphics_proofs ----------------------------
(***************************************************************************)
(* Proofs about the two graphics components.                               *)
(*                                                                         *)
(* Display, for every period, width of the counter, lateness and set of    *)
(* contents: the framebuffer requests keep their order, and the counter of *)
(* vertical blanks keeps the time.                                         *)
(*                                                                         *)
(* GeLists, for lists of any length and any depth of calls: the call stack *)
(* stays in its array, and a list that is released piece by piece runs as  *)
(* one that was complete from the start.                                   *)
(***************************************************************************)
EXTENDS Display, GeLists, TLAPS, WellFoundedInduction

-----------------------------------------------------------------------------
(* Framebuffer requests *)

(* EXCEPT gives a record its fields back only if it has them. *)
HasAddr(v) == "addr" \in DOMAIN v

(* Bringing the framebuffer to the canvas selects no other one. *)
LEMMA BeginFrameKeepsAddr ==
  ASSUME NEW v, HasAddr(v)
  PROVE  HasAddr(BeginFrame(v)) /\ BeginFrame(v).addr = v.addr
<1>1. ASSUME NEW w, HasAddr(w)
      PROVE  HasAddr(Upload(w)) /\ Upload(w).addr = w.addr
  BY <1>1 DEF Upload, HasAddr
<1>2. DEFINE b == [v EXCEPT !.started = TRUE]
<1>3. HasAddr(b) /\ b.addr = v.addr
  BY DEF HasAddr
<1>4. HasAddr(Upload(b)) /\ Upload(b).addr = v.addr
  BY <1>1, <1>3
<1>5. QED
  BY <1>3, <1>4 DEF BeginFrame

(* Neither a primitive nor a vertical blank selects a framebuffer. *)
LEMMA DrawKeepsAddr ==
  ASSUME NEW v, HasAddr(v), NEW kind, NEW skipped
  PROVE  HasAddr(Draw(v, kind, skipped)) /\ Draw(v, kind, skipped).addr = v.addr
<1> DEFINE marked == [v EXCEPT !.picture = @ \/ kind = "picture"]
<1>1. HasAddr(marked) /\ marked.addr = v.addr
  BY DEF HasAddr
<1>2. HasAddr(BeginFrame(marked)) /\ BeginFrame(marked).addr = v.addr
  BY <1>1, BeginFrameKeepsAddr
<1>3. DEFINE painted == [BeginFrame(marked) EXCEPT !.canvas = kind, !.drawn = TRUE]
<1>4. HasAddr(painted) /\ painted.addr = v.addr
  BY <1>2 DEF HasAddr
<1>5. QED
  BY <1>1, <1>4 DEF Draw

LEMMA PresentKeepsAddr ==
  ASSUME NEW v, HasAddr(v)
  PROVE  HasAddr(Present(v)) /\ Present(v).addr = v.addr
<1> DEFINE b == BeginFrame(v)
<1>1. HasAddr(b) /\ b.addr = v.addr
  BY BeginFrameKeepsAddr
<1>2. HasAddr(Swapped(b)) /\ Swapped(b).addr = v.addr
  BY <1>1 DEF Swapped, HasAddr
<1>3. /\ HasAddr([b EXCEPT !.deferred = @ + 1])
      /\ [b EXCEPT !.deferred = @ + 1].addr = v.addr
  BY <1>1 DEF HasAddr
<1>4. QED
  BY <1>2, <1>3 DEF Present

(* A request selects its framebuffer. *)
LEMMA SetFramebufferSelects ==
  ASSUME NEW v, HasAddr(v), NEW addr
  PROVE  HasAddr(SetFramebuffer(v, addr)) /\ SetFramebuffer(v, addr).addr = addr
BY DEF HasAddr, SetFramebuffer

RequestInv == HasAddr(video) /\ NothingOlderShown

LEMMA RequestInit == DInit => RequestInv
BY DEF DInit, RequestInv, HasAddr, NothingOlderShown, NewVideo

(* A vertical blank shows what was latched, which is the newest request. *)
LEMMA ShowFrameKeepsOrder ==
  ASSUME RequestInv, ShowFrame, newest' = newest
  PROVE  RequestInv'
<1> DEFINE selected == IF latch = Nothing THEN video ELSE SetFramebuffer(video, latch)
<1>1. HasAddr(selected) /\ selected.addr = IF latch = Nothing THEN video.addr ELSE latch
  BY SetFramebufferSelects DEF RequestInv
<1>2. HasAddr(Present(selected)) /\ Present(selected).addr = selected.addr
  BY <1>1, PresentKeepsAddr
<1>3. video' = Present(selected)
  BY DEF ShowFrame
<1>4. HasAddr(video')
  BY <1>2, <1>3
<1>5. NothingOlderShown'
  BY <1>1, <1>2, <1>3 DEF RequestInv, NothingOlderShown, ShowFrame
<1>6. QED
  BY <1>4, <1>5 DEF RequestInv, HasAddr

LEMMA RequestNext == RequestInv /\ [DNext]_dvars => RequestInv'
<1> SUFFICES ASSUME RequestInv, [DNext]_dvars PROVE RequestInv'
  OBVIOUS
<1>1. CASE Service
  <2>1. CASE due # Nothing /\ due <= 0 /\ Count /\ ShowFrame
    BY <1>1, <2>1, ShowFrameKeepsOrder DEF Service
  <2>2. CASE UNCHANGED <<video, shown, latch>>
    BY <1>1, <2>2 DEF Service, RequestInv, NothingOlderShown, HasAddr
  <2>3. QED
    BY <1>1, <2>1, <2>2 DEF Service, ServiceVblank
<1>2. CASE ProgramStep
  <2>1. CASE WaitVblank
    BY <2>1 DEF WaitVblank, RequestInv, NothingOlderShown, HasAddr
  <2>2. CASE ListEnqueue
    BY <2>2, BeginFrameKeepsAddr DEF ListEnqueue, RequestInv, NothingOlderShown, HasAddr
  <2>3. ASSUME NEW addr \in Addresses, SetFrameBufNow(addr)
        PROVE  RequestInv'
    BY <2>3, SetFramebufferSelects
    DEF SetFrameBufNow, Select, RequestInv, NothingOlderShown, HasAddr
  <2>4. ASSUME NEW addr \in Addresses, SetFrameBufLatched(addr)
        PROVE  RequestInv'
    BY <2>4, NothingAssumption
    DEF SetFrameBufLatched, Addresses, RequestInv, NothingOlderShown, HasAddr
  <2>5. ASSUME NEW kind \in {"clear", "picture"}, NEW skipped \in BOOLEAN,
               DrawPrim(kind, skipped)
        PROVE  RequestInv'
    <3>1. video' = Draw(video, kind, skipped)
      BY <2>5 DEF DrawPrim
    <3>2. HasAddr(video') /\ video'.addr = video.addr
      BY <3>1, DrawKeepsAddr DEF RequestInv
    <3>3. QED
      BY <2>5, <3>2 DEF DrawPrim, RequestInv, NothingOlderShown, HasAddr
  <2>6. ASSUME NEW content \in Contents, WriteFramebuffer(content)
        PROVE  RequestInv'
    BY <2>6 DEF WriteFramebuffer, RequestInv, NothingOlderShown, HasAddr
  <2>7. QED
    BY <1>2, <2>1, <2>2, <2>3, <2>4, <2>5, <2>6 DEF ProgramStep
<1>3. CASE Tick
  BY <1>3 DEF Tick, RequestInv, NothingOlderShown, HasAddr
<1>4. CASE CloseWindow
  BY <1>4 DEF CloseWindow, RequestInv, NothingOlderShown, HasAddr
<1>5. CASE UNCHANGED dvars
  BY <1>5 DEF dvars, clock, RequestInv, NothingOlderShown, HasAddr
<1>6. QED
  BY <1>1, <1>2, <1>3, <1>4, <1>5 DEF DNext

(* No framebuffer request of the program is ever overtaken by an older     *)
(* one: hle_syscall_impl clears the latch on an immediate request, and     *)
(* hle_display_service_vblank empties it when it applies it.               *)
THEOREM RequestsKeepOrder == DSpec => []NothingOlderShown
<1>1. RequestInv => NothingOlderShown
  BY DEF RequestInv
<1>2. QED
  BY <1>1, RequestInit, RequestNext, PTL DEF DSpec

-----------------------------------------------------------------------------
(* The counter of vertical blanks *)

LEMMA DivMod ==
  ASSUME NEW a \in Int, NEW b \in Nat \ {0}
  PROVE  \E q \in Int, r \in 0 .. b - 1 : a = b * q + r /\ q = a \div b /\ r = a % b
OBVIOUS

LEMMA DivModUnique ==
  ASSUME NEW b \in Nat \ {0}, NEW q \in Int, NEW r \in 0 .. b - 1, NEW a \in Int, a = b * q + r
  PROVE  a \div b = q /\ a % b = r
OBVIOUS

(* A number below the modulus, away from another by a multiple of it, is   *)
(* what remains of the other.                                              *)
LEMMA RestOf ==
  ASSUME NEW w \in Nat \ {0}, NEW j \in Int, NEW q \in 0 .. w - 1, NEW a \in Int
  PROVE  a = w * j + q => a % w = q
<1>0. HAVE a = w * j + q
<1>1. PICK m \in Int, rest \in 0 .. w - 1 : a = w * m + rest /\ m = a \div w /\ rest = a % w
  BY DivMod
<1>2. PICK n \in Int : n = j - m
  OBVIOUS
<1>3. w * n = rest - q
  <2>1. w * n = w * j - w * m
    BY <1>2
  <2>2. a = w * m + rest
    BY <1>1
  <2>3. w * j + q = w * m + rest
    BY <1>0, <2>2
  <2>4. QED
    BY <2>1, <2>3
<1>4. n = 0
  <2>1. SUFFICES ASSUME n >= 1 \/ n <= -1 PROVE FALSE
    OBVIOUS
  <2>2. CASE n >= 1
    <3>1. w * n >= w
      BY <2>2
    <3>2. QED
      BY <3>1, <1>3
  <2>3. CASE n <= -1
    <3>1. w * n <= -w
      BY <2>3
    <3>2. QED
      BY <3>1, <1>3
  <2>4. QED
    BY <2>1, <2>2, <2>3
<1>5. rest = q
  BY <1>3, <1>4
<1>6. QED
  BY <1>1, <1>5

(* The next vertical blank, in d ticks, comes at a multiple of the period  *)
(* p, and the counter c is one less than that multiple, up to its width w. *)
OnTime(p, w, d, c, t) == \E k \in Int : t + d = p * (c + 1 + k * w)

LEMMA StartOnTime ==
  ASSUME NEW p \in Nat, NEW w \in Nat
  PROVE  OnTime(p, w, p, 0, 0)
<1>1. 0 + p = p * (0 + 1 + 0 * w)
  OBVIOUS
<1>2. QED
  BY <1>1 DEF OnTime

(* A tick, with which the time may come round. *)
LEMMA TickKeepsTime ==
  ASSUME NEW p \in Nat \ {0}, NEW w \in Nat \ {0}, NEW d \in Int, NEW c \in Int, NEW t \in Int,
         OnTime(p, w, d, c, t)
  PROVE  OnTime(p, w, d - 1, c, (t + 1) % (p * w))
<1>1. PICK k \in Int : t + d = p * (c + 1 + k * w)
  BY DEF OnTime
<1>2. PICK n \in Nat \ {0} : n = p * w
  OBVIOUS
<1>3. PICK u \in Int : u = t + 1
  OBVIOUS
<1>4. PICK m \in Int, rest \in 0 .. n - 1 : u = n * m + rest /\ m = u \div n /\ rest = u % n
  BY DivMod
<1>5. rest + (d - 1) = p * (c + 1 + (k - m) * w)
  <2>1. u = p * w * m + rest
    BY <1>2, <1>4
  <2>2. rest + (d - 1) = p * (c + 1 + k * w) - p * w * m
    BY <1>1, <1>3, <2>1
  <2>3. p * (c + 1 + k * w) - p * w * m = p * (c + 1 + (k - m) * w)
    OBVIOUS
  <2>4. QED
    BY <2>2, <2>3
<1>6. k - m \in Int /\ rest = (t + 1) % (p * w)
  BY <1>2, <1>3, <1>4
<1>7. QED
  BY <1>5, <1>6 DEF OnTime

(* Counting e vertical blanks moves the next one by as many periods. *)
LEMMA CountKeepsTime ==
  ASSUME NEW p \in Nat \ {0}, NEW w \in Nat \ {0}, NEW d \in Int, NEW c \in Int, NEW t \in Int,
         NEW e \in Int, OnTime(p, w, d, c, t)
  PROVE  OnTime(p, w, d + e * p, (c + e) % w, t)
<1>1. PICK k \in Int : t + d = p * (c + 1 + k * w)
  BY DEF OnTime
<1>0. PICK sum \in Int : sum = c + e
  OBVIOUS
<1>2. PICK m \in Int, rest \in 0 .. w - 1 : sum = w * m + rest /\ m = sum \div w /\ rest = sum % w
  BY DivMod
<1>3. t + (d + e * p) = p * (sum + 1 + k * w)
  BY <1>1, <1>0
<1>4. sum + 1 + k * w = rest + 1 + (k + m) * w
  BY <1>2
<1>5. t + (d + e * p) = p * (rest + 1 + (k + m) * w)
  BY <1>3, <1>4
<1>6. rest = sum % w
  BY <1>2
<1>7. rest = (c + e) % w
  BY <1>6, <1>0
<1>8. k + m \in Int
  BY <1>1, <1>2
<1>9. QED
  BY <1>5, <1>7, <1>8 DEF OnTime

LEMMA Quotient ==
  ASSUME NEW b \in Nat \ {0}, NEW w \in Nat \ {0}, NEW q \in Int, NEW r \in 0 .. b - 1,
         b * q + r \in 0 .. b * w - 1
  PROVE  q \in 0 .. w - 1
<1>1. q >= 0
  <2>1. SUFFICES ASSUME q <= -1 PROVE FALSE
    OBVIOUS
  <2>2. b * q <= -b
    BY <2>1
  <2>3. QED
    BY <2>2
<1>2. q < w
  <2>1. SUFFICES ASSUME q - w >= 0 PROVE FALSE
    OBVIOUS
  <2>2. b * (q - w) >= 0
    BY <2>1
  <2>3. b * (q - w) = b * q - b * w
    OBVIOUS
  <2>4. QED
    BY <2>2, <2>3
<1>3. QED
  BY <1>1, <1>2

(* The number c + o, up to its width w, is the number of periods in t. *)
Tells(p, w, c, o, t) == (c + o) % w = t \div p

(* With the o vertical blanks that are still to be counted, the counter    *)
(* is the number of periods that have passed.                              *)
LEMMA CountedTells ==
  ASSUME NEW p \in Nat \ {0}, NEW w \in Nat \ {0}, NEW d \in Int, NEW c \in Int,
         NEW t \in 0 .. p * w - 1, NEW o \in Int,
         OnTime(p, w, d, c, t), \E r \in 0 .. p - 1 : -d = p * (o - 1) + r
  PROVE  Tells(p, w, c, o, t)
<1>0. PICK r \in 0 .. p - 1 : -d = p * (o - 1) + r
  OBVIOUS
<1>1. PICK k \in Int : t + d = p * (c + 1 + k * w)
  BY DEF OnTime
<1>2. PICK q \in Int : q = c + o + k * w
  OBVIOUS
<1>3. t = p * q + r
  <2>1. t = p * (c + o + k * w) + r
    BY <1>0, <1>1
  <2>2. QED
    BY <1>2, <2>1
<1>4. t \div p = q
  BY <1>3
<1>5. q \in 0 .. w - 1
  BY <1>3, Quotient
<1>6. (c + o) % w = q
  <2>1. PICK a \in Int : a = c + o
    OBVIOUS
  <2>2. PICK j \in Int : j = -k
    OBVIOUS
  <2>3. a = w * j + q
    BY <1>2, <2>1, <2>2
  <2>4. a % w = q
    BY <1>5, <2>3, RestOf
  <2>5. QED
    BY <2>1, <2>4
<1>7. QED
  BY <1>4, <1>6 DEF Tells

(* What a late look counts brings the next vertical blank within a period. *)
LEMMA Late ==
  ASSUME NEW p \in Nat \ {0}, NEW d \in Int, d <= 0
  PROVE  \E e \in Int : /\ e = (-d) \div p + 1
                        /\ d + e * p \in 1 .. p
                        /\ \E r \in 0 .. p - 1 : -d = p * (e - 1) + r
<1>1. PICK late \in Int : late = -d
  OBVIOUS
<1>2. PICK q \in Int, r \in 0 .. p - 1 : late = p * q + r /\ q = late \div p /\ r = late % p
  BY DivMod
<1>3. PICK e \in Int : e = q + 1
  OBVIOUS
<1>4. e = (-d) \div p + 1
  BY <1>1, <1>2, <1>3
<1>5. -d = p * (e - 1) + r
  <2>1. q = e - 1
    BY <1>3
  <2>2. -d = p * q + r
    BY <1>1, <1>2
  <2>3. QED
    BY <2>1, <2>2
<1>6. d + e * p \in 1 .. p
  <2>1. d + e * p = p - r
    BY <1>5
  <2>2. QED
    BY <2>1
<1>7. \E rest \in 0 .. p - 1 : -d = p * (e - 1) + rest
  BY <1>5
<1>8. QED
  BY <1>4, <1>6, <1>7, Zenon

-----------------------------------------------------------------------------
(* The clock keeps its phase *)

LEMMA Positive == Period \in Nat \ {0} /\ Wrap \in Nat \ {0}
<1>1. Period \in Nat \ {0} /\ MaxLate \in Nat /\ Wrap \in Nat /\ MaxLate \div Period + 1 < Wrap
  BY ClockAssumption
<1>2. MaxLate \div Period >= 0
  BY <1>1
<1>3. QED
  BY <1>1, <1>2

ClockInv ==
  \/ due = Nothing /\ counter = 0
  \/ /\ due \in Int /\ due <= Period
     /\ counter \in 0 .. Wrap - 1
     /\ time \in 0 .. Period * Wrap - 1
     /\ OnTime(Period, Wrap, due, counter, time)

LEMMA ClockInit == DInit => ClockInv
BY DEF DInit, ClockInv

(* The first look. *)
LEMMA StartClockOnTime ==
  ASSUME ClockInv, due = Nothing, StartClock
  PROVE  ClockInv'
<1>1. due' = Period /\ time' = 0 /\ counter' = 0
  BY NothingAssumption DEF StartClock, ClockInv
<1>2. Period * Wrap >= 1
  BY Positive
<1>3. OnTime(Period, Wrap, Period, 0, 0)
  BY Positive, StartOnTime
<1>4. OnTime(Period, Wrap, due', counter', time')
  BY <1>1, <1>3
<1>5. QED
  BY <1>1, <1>2, <1>4, Positive DEF ClockInv

(* A late look counts the vertical blanks up to the time. *)
LEMMA CountOnTime ==
  ASSUME ClockInv, due # Nothing, due <= 0, Count
  PROVE  ClockInv'
<1>1. /\ due \in Int /\ counter \in 0 .. Wrap - 1 /\ time \in 0 .. Period * Wrap - 1
      /\ OnTime(Period, Wrap, due, counter, time)
  BY DEF ClockInv
<1>2. PICK e \in Int : e = (-due) \div Period + 1 /\ due + e * Period \in 1 .. Period
  BY <1>1, Positive, Late, Zenon
<1>3. due' = due + e * Period /\ counter' = (counter + e) % Wrap /\ time' = time
  BY <1>2 DEF Count
<1>4. OnTime(Period, Wrap, due + e * Period, (counter + e) % Wrap, time)
  <2>1. counter \in Int /\ time \in Int
    BY <1>1
  <2>2. QED
    BY <1>1, <2>1, Positive, CountKeepsTime, Zenon
<1>5. OnTime(Period, Wrap, due', counter', time')
  BY <1>3, <1>4
<1>6. counter' \in 0 .. Wrap - 1
  BY <1>1, <1>3, Positive
<1>7. due' \in Int /\ due' <= Period
  BY <1>2, <1>3, Positive
<1>8. QED
  BY <1>1, <1>3, <1>5, <1>6, <1>7 DEF ClockInv

(* Time passes. *)
LEMMA TickOnTime ==
  ASSUME ClockInv, Tick
  PROVE  ClockInv'
<1>1. /\ due \in Int /\ due <= Period /\ counter \in 0 .. Wrap - 1
      /\ time \in 0 .. Period * Wrap - 1
      /\ OnTime(Period, Wrap, due, counter, time)
  BY DEF ClockInv, Tick
<1>2. due' = due - 1 /\ counter' = counter /\ time' = (time + 1) % (Period * Wrap)
  BY DEF Tick
<1>3. PICK n \in Nat \ {0} : n = Period * Wrap
  BY Positive
<1>4. PICK u \in Int : u = time + 1
  BY <1>1
<1>5. u % n \in 0 .. n - 1
  OBVIOUS
<1>6. time' \in 0 .. Period * Wrap - 1
  BY <1>2, <1>3, <1>4, <1>5
<1>7. OnTime(Period, Wrap, due - 1, counter, (time + 1) % (Period * Wrap))
  BY <1>1, Positive, TickKeepsTime
<1>8. OnTime(Period, Wrap, due', counter', time')
  BY <1>2, <1>7
<1>9. due' \in Int /\ due' <= Period
  BY <1>1, <1>2, Positive
<1>10. QED
  BY <1>1, <1>2, <1>6, <1>8, <1>9 DEF ClockInv

LEMMA ClockNext == ClockInv /\ [DNext]_dvars => ClockInv'
<1> SUFFICES ASSUME ClockInv, [DNext]_dvars PROVE ClockInv'
  OBVIOUS
<1>1. CASE UNCHANGED clock
  BY <1>1 DEF clock, ClockInv
<1>2. CASE Service
  BY <1>1, <1>2, StartClockOnTime, CountOnTime DEF Service, ServiceVblank
<1>3. CASE ProgramStep
  BY <1>1, <1>3
  DEF ProgramStep, WaitVblank, ListEnqueue, SetFrameBufNow, SetFrameBufLatched, DrawPrim,
      WriteFramebuffer
<1>4. CASE Tick
  BY <1>4, TickOnTime
<1>5. CASE CloseWindow
  BY <1>1, <1>5 DEF CloseWindow
<1>6. CASE UNCHANGED dvars
  BY <1>1, <1>6 DEF dvars, clock
<1>7. QED
  BY <1>2, <1>3, <1>4, <1>5, <1>6 DEF DNext

LEMMA ClockTells == ClockInv => CounterKeepsTime
<1> SUFFICES ASSUME ClockInv, due # Nothing
             PROVE  LET overdue == IF due > 0 THEN 0 ELSE (-due) \div Period + 1
                    IN  (counter + overdue) % Wrap = time \div Period
  BY DEF CounterKeepsTime
<1>1. /\ due \in Int /\ due <= Period /\ counter \in 0 .. Wrap - 1
      /\ time \in 0 .. Period * Wrap - 1
      /\ OnTime(Period, Wrap, due, counter, time)
  BY DEF ClockInv
<1>2. CASE due > 0
  <2>1. Period - due \in 0 .. Period - 1 /\ -due = Period * (0 - 1) + (Period - due)
    BY <1>1, <1>2, Positive
  <2>2. \E r \in 0 .. Period - 1 : -due = Period * (0 - 1) + r
    BY <2>1, Zenon
  <2>3. counter \in Int /\ 0 \in Int
    BY <1>1
  <2>4. Tells(Period, Wrap, counter, 0, time)
    BY <1>1, <2>2, <2>3, Positive, CountedTells, Zenon
  <2>5. QED
    BY <1>2, <2>4 DEF Tells
<1>3. CASE due <= 0
  <2>1. PICK o \in Int : /\ o = (-due) \div Period + 1
                         /\ \E r \in 0 .. Period - 1 : -due = Period * (o - 1) + r
    BY <1>1, <1>3, Positive, Late, Zenon
  <2>2. counter \in Int
    BY <1>1
  <2>3. Tells(Period, Wrap, counter, o, time)
    BY <1>1, <2>1, <2>2, Positive, CountedTells, Zenon
  <2>4. ~(due > 0)
    BY <1>1, <1>3
  <2>5. QED
    BY <2>1, <2>3, <2>4 DEF Tells
<1>4. QED
  BY <1>1, <1>2, <1>3

(* sceDisplayGetVcount never falls behind nor runs ahead of the clock,     *)
(* however late hle_display_service_vblank is called and whatever the      *)
(* program does: each vertical blank counts once, the ones still to be     *)
(* counted included.                                                       *)
THEOREM CounterTellsTime == DSpec => []CounterKeepsTime
<1>1. QED
  BY ClockInit, ClockNext, ClockTells, PTL DEF DSpec

-----------------------------------------------------------------------------
(* Commands *)

Jumping == {"jump", "bjump", "call"}

(* What a command makes of the engine: the fields that control the list,   *)
(* and the call stack, which grows by the cell behind a call.              *)
LEMMA ExecutedIs ==
  ASSUME NEW g \in Engine, NEW c \in Command
  PROVE  LET h == Executed(g, c)
         IN  /\ h \in Engine
             /\ h.stall = g.stall
             /\ \/ h.stack = g.stack
                \/ /\ c.op = "call" /\ Len(g.stack) < MaxDepth
                   /\ h.stack = Append(g.stack, [pc |-> g.pc + 1, offset |-> g.offset])
                \/ /\ g.stack # <<>>
                   /\ h.stack = SubSeq(g.stack, 1, Len(g.stack) - 1)
             /\ \/ h.pc = g.pc + 1
                \/ c.op \in Jumping /\ h.pc = g.offset + c.to
                \/ g.stack # <<>> /\ h.pc = g.stack[Len(g.stack)].pc
<1> DEFINE n == [g EXCEPT !.pc = @ + 1]
           target == g.offset + c.to
           h == Executed(g, c)
<1>1. /\ n \in Engine /\ target \in Nat /\ g.pc \in Nat /\ g.stack \in Seq(Return)
      /\ n.pc = g.pc + 1 /\ n.stall = g.stall /\ n.stack = g.stack
      /\ n.offset = g.offset /\ n.visible = g.visible
      /\ n.running = g.running /\ n.finished = g.finished
  BY DEF Engine, Command
<1>2. c.op \in Ops
  BY DEF Command
<1>3. CASE c.op \in {"draw", "offset", "origin", "bbox", "end", "finish"}
  BY <1>3, <1>1 DEF Executed, Engine, Stopped, Command
<1>4. JumpedTo(n, target) \in Engine /\ JumpedTo(n, target).stall = g.stall
      /\ JumpedTo(n, target).stack = g.stack
      /\ JumpedTo(n, target).pc \in {g.pc + 1, target}
  BY <1>1 DEF JumpedTo, Stopped, Engine
<1>5. CASE c.op \in {"jump", "bjump"}
  BY <1>1, <1>4, <1>5 DEF Executed, Jumping
<1>6. CASE c.op = "call"
  <2>1. h = Called(n, target)
    BY <1>1, <1>6 DEF Executed
  <2>2. CASE target \notin Cells \/ Len(n.stack) >= MaxDepth
    BY <1>1, <2>1, <2>2 DEF Called, Stopped, Engine
  <2>3. CASE ~(target \notin Cells \/ Len(n.stack) >= MaxDepth)
    <3>1. Append(g.stack, [pc |-> g.pc + 1, offset |-> g.offset]) \in Seq(Return)
      BY <1>1 DEF Return, Engine
    <3>2. Len(g.stack) < MaxDepth
      BY <1>1, <2>3, DepthAssumption
    <3> QED
      BY <1>1, <1>6, <2>1, <2>3, <3>1, <3>2 DEF Called, Engine, Jumping
  <2> QED
    BY <2>2, <2>3
<1>7. CASE c.op = "ret"
  <2>1. h = Returned(n)
    BY <1>1, <1>7 DEF Executed
  <2>2. CASE g.stack = <<>>
    BY <1>1, <2>1, <2>2 DEF Returned, Engine
  <2>3. CASE g.stack # <<>>
    <3>1. g.stack[Len(g.stack)] \in Return
      BY <1>1, <2>3
    <3>2. SubSeq(g.stack, 1, Len(g.stack) - 1) \in Seq(Return)
      BY <1>1, <2>3
    <3> QED
      BY <1>1, <2>1, <2>3, <3>1, <3>2 DEF Returned, Engine, Return
  <2> QED
    BY <2>2, <2>3
<1> QED
  BY <1>2, <1>3, <1>5, <1>6, <1>7 DEF Ops

(* Two engines with the same control fields make the same of a command.    *)
Same(g, h) ==
  /\ g.pc = h.pc /\ g.offset = h.offset /\ g.visible = h.visible
  /\ g.stack = h.stack /\ g.running = h.running

LEMMA ExecutedSame ==
  ASSUME NEW g \in Engine, NEW h \in Engine, Same(g, h), NEW c \in Command
  PROVE  Same(Executed(g, c), Executed(h, c))
<1> DEFINE m == [g EXCEPT !.pc = @ + 1]
           n == [h EXCEPT !.pc = @ + 1]
           target == g.offset + c.to
<1>1. /\ m \in Engine /\ n \in Engine /\ Same(m, n) /\ target = h.offset + c.to
      /\ m.pc = g.pc + 1 /\ m.stack = g.stack /\ m.offset = g.offset
      /\ g.pc = h.pc
  BY DEF Engine, Same
<1>2. Same(Stopped(m), Stopped(n))
  BY <1>1 DEF Same, Stopped, Engine
<1>3. Same(JumpedTo(m, target), JumpedTo(n, target))
  BY <1>1, <1>2 DEF JumpedTo, Same, Engine
<1>4. Same(Called(m, target), Called(n, target))
  BY <1>1, <1>2 DEF Called, Same, Engine
<1>5. Same(Returned(m), Returned(n))
  BY <1>1 DEF Returned, Same, Engine
<1>6. Same([m EXCEPT !.offset = g.pc], [n EXCEPT !.offset = h.pc])
  BY <1>1 DEF Same, Engine
<1>7. /\ Same([m EXCEPT !.visible = (c.to # 0)], [n EXCEPT !.visible = (c.to # 0)])
      /\ Same([m EXCEPT !.offset = c.to], [n EXCEPT !.offset = c.to])
  BY <1>1 DEF Same, Engine
<1>8. Same([m EXCEPT !.running = FALSE], [n EXCEPT !.running = FALSE])
  BY <1>1 DEF Same, Engine
<1>9. m.visible = n.visible
  BY <1>1 DEF Same
<1>10. c.op \in Ops
  BY DEF Command
<1> HIDE DEF m, n, target
<1>11. /\ Executed(g, c) =
            CASE c.op = "draw"   -> m
              [] c.op = "offset" -> [m EXCEPT !.offset = c.to]
              [] c.op = "origin" -> [m EXCEPT !.offset = g.pc]
              [] c.op = "bbox"   -> [m EXCEPT !.visible = (c.to # 0)]
              [] c.op = "jump"   -> JumpedTo(m, target)
              [] c.op = "bjump"  -> IF m.visible THEN m ELSE JumpedTo(m, target)
              [] c.op = "call"   -> Called(m, target)
              [] c.op = "ret"    -> Returned(m)
              [] c.op = "end"    -> [m EXCEPT !.running = FALSE]
              [] c.op = "finish" -> Stopped(m)
       /\ Executed(h, c) =
            CASE c.op = "draw"   -> n
              [] c.op = "offset" -> [n EXCEPT !.offset = c.to]
              [] c.op = "origin" -> [n EXCEPT !.offset = h.pc]
              [] c.op = "bbox"   -> [n EXCEPT !.visible = (c.to # 0)]
              [] c.op = "jump"   -> JumpedTo(n, target)
              [] c.op = "bjump"  -> IF n.visible THEN n ELSE JumpedTo(n, target)
              [] c.op = "call"   -> Called(n, target)
              [] c.op = "ret"    -> Returned(n)
              [] c.op = "end"    -> [n EXCEPT !.running = FALSE]
              [] c.op = "finish" -> Stopped(n)
  BY <1>1 DEF Executed, m, n, target
<1> QED
  BY <1>1, <1>2, <1>3, <1>4, <1>5, <1>6, <1>7, <1>8, <1>9, <1>10, <1>11 DEF Ops

-----------------------------------------------------------------------------
(* Types *)

TypeInv == GTypeOK /\ program \in Programs

LEMMA FetchedIs ==
  ASSUME TypeInv, NEW cell \in Cells
  PROVE  /\ Fetched(cell) \in Command
         /\ Fetched(cell).op # "finish" => Fetched(cell) = program[cell]
         /\ program[cell] \in Command
<1>1. program \in [Cells -> Command]
  BY ProgramsAssumption DEF TypeInv
<1> QED
  BY <1>1 DEF Fetched, Command, Ops

LEMMA RunCommandTypes ==
  ASSUME TypeInv, RunCommand
  PROVE  TypeInv'
<1> DEFINE c == Fetched(ge.pc)
<1>1. /\ ge \in Engine /\ ge' = Executed(ge, c) /\ ge.pc \in Cells
      /\ UNCHANGED <<busy, program, written>>
      /\ drawn' = drawn \/ drawn' = Append(drawn, ge.pc)
  BY DEF RunCommand, TypeInv, GTypeOK
<1>2. c \in Command /\ (c.op # "finish" => c = program[ge.pc])
  BY <1>1, FetchedIs
<1> HIDE DEF c
<1>3. ge' \in Engine
  BY <1>1, <1>2, ExecutedIs
<1>4. \/ ge'.stack = ge.stack
      \/ /\ c.op = "call" /\ Len(ge.stack) < MaxDepth
         /\ ge'.stack = Append(ge.stack, [pc |-> ge.pc + 1, offset |-> ge.offset])
      \/ /\ ge.stack # <<>>
         /\ ge'.stack = SubSeq(ge.stack, 1, Len(ge.stack) - 1)
  BY <1>1, <1>2, ExecutedIs
<1>5. ge.stack \in Seq(Return) /\ ge.pc \in Nat
  BY <1>1 DEF Engine
<1>6. Len(ge'.stack) <= MaxDepth
  BY <1>4, <1>5, DepthAssumption DEF TypeInv, GTypeOK
<1>7. ReturnsBehindCalls'
  <2>1. ASSUME NEW i \in DOMAIN ge'.stack
        PROVE  /\ ge'.stack[i].pc - 1 \in Cells
               /\ program[ge'.stack[i].pc - 1].op = "call"
    <3>1. CASE i \in DOMAIN ge.stack /\ ge'.stack[i] = ge.stack[i]
      BY <3>1 DEF TypeInv, GTypeOK, ReturnsBehindCalls
    <3>2. CASE /\ c.op = "call"
               /\ ge'.stack[i] = [pc |-> ge.pc + 1, offset |-> ge.offset]
      <4>1. ge'.stack[i].pc - 1 = ge.pc
        BY <3>2, <1>5
      <4> QED
        BY <1>1, <1>2, <3>2, <4>1
    <3>3. \/ i \in DOMAIN ge.stack /\ ge'.stack[i] = ge.stack[i]
          \/ /\ c.op = "call"
             /\ ge'.stack[i] = [pc |-> ge.pc + 1, offset |-> ge.offset]
      BY <1>4, <1>5, <2>1
    <3> QED
      BY <3>1, <3>2, <3>3
  <2> QED
    BY <1>1, <2>1 DEF ReturnsBehindCalls
<1>8. drawn' \in Seq(Cells)
  BY <1>1 DEF TypeInv, GTypeOK
<1> QED
  BY <1>1, <1>3, <1>6, <1>7, <1>8 DEF TypeInv, GTypeOK

LEMMA StepTypes ==
  ASSUME TypeInv, [GNext]_gvars
  PROVE  TypeInv'
<1> USE DEF TypeInv, GTypeOK
<1>1. CASE UNCHANGED gvars
  BY <1>1 DEF gvars, ReturnsBehindCalls
<1>2. CASE Write
  BY <1>2, CellsAssumption DEF Write, ReturnsBehindCalls
<1>3. ASSUME NEW stall \in Stalls, Enqueue(stall)
      PROVE  TypeInv'
  <2>1. stall \in Int
    BY CellsAssumption DEF Stalls, NoStall
  <2>2. /\ Begun(ge) \in Engine /\ Begun(ge).stack = <<>>
    <3>1. <<>> \in Seq(Return)
      OBVIOUS
    <3> QED
      BY <3>1 DEF Begun, Engine
  <2>3. ge' \in Engine /\ ge'.stack = <<>>
    BY <1>3, <2>1, <2>2 DEF Enqueue, RunFrom, Engine
  <2> QED
    BY <1>3, <2>3, DepthAssumption DEF Enqueue, ReturnsBehindCalls
<1>4. ASSUME NEW stall \in Stalls, UpdateStall(stall)
      PROVE  TypeInv'
  <2>1. stall \in Int
    BY CellsAssumption DEF Stalls, NoStall
  <2>2. /\ ge' \in Engine /\ ge'.stack = ge.stack /\ busy' \in BOOLEAN
    BY <1>4, <2>1 DEF UpdateStall, RunFrom, Engine
  <2> QED
    BY <1>4, <2>2 DEF UpdateStall, ReturnsBehindCalls
<1>5. CASE RunEnds
  <2>1. ge' \in Engine /\ ge'.stack = ge.stack
    BY <1>5 DEF RunEnds, Stopped, Engine
  <2> QED
    BY <1>5, <2>1 DEF RunEnds, ReturnsBehindCalls
<1> QED
  BY <1>1, <1>2, <1>3, <1>4, <1>5, RunCommandTypes DEF GNext, Calls, Run

LEMMA NewEngineTyped == NewEngine \in Engine
<1>1. <<>> \in Seq(Return)
  OBVIOUS
<1> QED
  BY <1>1 DEF NewEngine, Engine, NoStall

LEMMA InitTypes == GInit => TypeInv
<1>1. <<>> \in Seq(Cells)
  OBVIOUS
<1>2. NewEngine \in Engine /\ NewEngine.stack = <<>>
  BY NewEngineTyped DEF NewEngine
<1>3. ASSUME GInit PROVE ge \in Engine /\ Len(ge.stack) <= MaxDepth /\ ReturnsBehindCalls
  BY <1>2, <1>3, DepthAssumption DEF GInit, ReturnsBehindCalls
<1>4. ASSUME GInit
      PROVE  busy \in BOOLEAN /\ written \in 0 .. MainCells /\ drawn \in Seq(Cells)
  <2>1. busy \in BOOLEAN /\ drawn \in Seq(Cells)
    BY <1>1, <1>4 DEF GInit
  <2>2. written \in 0 .. MainCells
    BY <1>4, CellsAssumption DEF GInit
  <2> QED
    BY <2>1, <2>2
<1>5. GInit => program \in Programs
  BY DEF GInit
<1> QED
  BY <1>3, <1>4, <1>5 DEF TypeInv, GTypeOK

(* What the engine keeps of a list has its type: the call stack stays in   *)
(* its array (ge->stack), whatever subroutines a list calls, and what a    *)
(* return takes from it is the cell behind a call.                         *)
THEOREM StacksStayInBounds == GSpec => []GTypeOK
<1>1. GInit => TypeInv
  BY InitTypes
<1>2. TypeInv /\ [GNext]_gvars => TypeInv'
  BY StepTypes
<1>3. TypeInv => GTypeOK
  BY DEF TypeInv
<1> QED
  BY <1>1, <1>2, <1>3, PTL DEF GSpec

-----------------------------------------------------------------------------
(* A list that is complete from the start *)

Began == [engine |-> RunFrom(NewEngine, 0, NoStall), drawn |-> <<>>]

(* The next command of the list p. *)
Advanced(p, x) ==
  [engine |-> Executed(x.engine, p[x.engine.pc]),
   drawn  |-> IF p[x.engine.pc].op = "draw" THEN Append(x.drawn, x.engine.pc) ELSE x.drawn]

Unfolds(f, p, n) ==
  f = [i \in 0 .. n |-> IF i = 0 THEN Began ELSE Advanced(p, f[i - 1])]

Whole(p, n) == (CHOOSE f : Unfolds(f, p, n))[n]

LEMMA UnstalledIs == \A n : Unstalled(n) = Whole(program, n)
BY Zenon DEF Unstalled, Whole, Unfolds, Advanced, Began

LEMMA LeastNumber ==
  ASSUME NEW S \in SUBSET Nat, S # {}
  PROVE  \E m \in S : \A n \in S : m <= n
<1>1. PICK m \in S : \A n \in S : ~ (<<n, m>> \in OpToRel(<, Nat))
  BY NatLessThanWellFounded, WFMin
<1>2. OpToRel(<, Nat) = {r \in Nat \X Nat : r[1] < r[2]}
  BY DEF OpToRel
<1>3. \A n \in S : ~ (n < m)
  BY <1>1, <1>2
<1>4. \A n \in S : n \in Nat
  OBVIOUS
<1> QED
  BY <1>3, <1>4

LEMMA UnfoldingValues ==
  ASSUME NEW f, NEW p, NEW n \in Nat, Unfolds(f, p, n)
  PROVE  f[0] = Began /\ \A i \in 1 .. n : f[i] = Advanced(p, f[i - 1])
<1> DEFINE F == [i \in 0 .. n |-> IF i = 0 THEN Began ELSE Advanced(p, f[i - 1])]
<1>1. f = F
  BY DEF Unfolds
<1>2. \A i \in 0 .. n : F[i] = IF i = 0 THEN Began ELSE Advanced(p, f[i - 1])
  OBVIOUS
<1> HIDE DEF F
<1>3. \A i \in 0 .. n : f[i] = IF i = 0 THEN Began ELSE Advanced(p, f[i - 1])
  BY <1>1, <1>2, Zenon
<1> QED
  BY <1>3

LEMMA UnfoldingExists ==
  ASSUME NEW p, NEW n \in Nat
  PROVE  \E f : Unfolds(f, p, n)
<1> DEFINE Bad == {k \in Nat : ~ \E f : Unfolds(f, p, k)}
<1> SUFFICES ASSUME Bad # {} PROVE FALSE
  OBVIOUS
<1>1. PICK m \in Bad : \A k \in Bad : m <= k
  BY LeastNumber
<1>2. CASE m = 0
  <2>1. Unfolds([i \in 0 .. 0 |-> Began], p, 0)
    BY DEF Unfolds
  <2> QED
    BY <1>1, <1>2, <2>1
<1>3. CASE m # 0
  <2>1. m \in Nat /\ m - 1 \in Nat /\ m - 1 \notin Bad
    BY <1>1, <1>3
  <2>2. PICK f : Unfolds(f, p, m - 1)
    BY <2>1
  <2> DEFINE g == [i \in 0 .. m |-> IF i = m THEN Advanced(p, f[m - 1]) ELSE f[i]]
             G == [i \in 0 .. m |-> IF i = 0 THEN Began ELSE Advanced(p, g[i - 1])]
  <2>3. \A i \in 0 .. m : g[i] = IF i = m THEN Advanced(p, f[m - 1]) ELSE f[i]
    OBVIOUS
  <2>4. g \in [0 .. m -> {g[i] : i \in 0 .. m}] /\ DOMAIN g = 0 .. m
    OBVIOUS
  <2>5. f[0] = Began /\ \A i \in 1 .. m - 1 : f[i] = Advanced(p, f[i - 1])
    BY <2>1, <2>2, UnfoldingValues
  <2> HIDE DEF g
  <2>6. ASSUME NEW i \in 0 .. m
        PROVE  g[i] = IF i = 0 THEN Began ELSE Advanced(p, g[i - 1])
    <3>1. CASE i = 0
      BY <1>3, <2>1, <2>3, <2>5, <3>1
    <3>2. CASE i # 0
      <4>1. i - 1 \in 0 .. m - 1 /\ i - 1 \in 0 .. m /\ i - 1 # m
        BY <2>1, <3>2
      <4>2. g[i - 1] = f[i - 1]
        BY <2>3, <4>1
      <4>3. CASE i = m
        BY <2>3, <3>2, <4>2, <4>3
      <4>4. CASE i # m
        <5>1. i \in 1 .. m - 1
          BY <2>1, <3>2, <4>4
        <5> QED
          BY <2>3, <2>5, <3>2, <4>2, <4>4, <5>1
      <4> QED
        BY <4>3, <4>4
    <3> QED
      BY <3>1, <3>2
  <2>7. g = G
    BY <2>4, <2>6
  <2>8. Unfolds(g, p, m)
    BY <2>7, Zenon DEF Unfolds
  <2> QED
    BY <1>1, <2>8
<1> QED
  BY <1>2, <1>3

LEMMA WholeIs ==
  ASSUME NEW p, NEW n \in Nat
  PROVE  /\ Whole(p, 0) = Began
         /\ Whole(p, n + 1) = Advanced(p, Whole(p, n))
<1> DEFINE f(k) == CHOOSE g : Unfolds(g, p, k)
<1>1. \A k \in Nat : Unfolds(f(k), p, k) /\ Whole(p, k) = f(k)[k]
  BY UnfoldingExists, Zenon DEF Whole
<1> HIDE DEF f
<1>2. \A k \in Nat : /\ f(k)[0] = Began
                     /\ \A i \in 1 .. k : f(k)[i] = Advanced(p, f(k)[i - 1])
  BY <1>1, UnfoldingValues
<1>3. f(n)[n] = f(n + 1)[n]
  <2> DEFINE Bad == {i \in 0 .. n : f(n)[i] # f(n + 1)[i]}
  <2> SUFFICES ASSUME Bad # {} PROVE FALSE
    OBVIOUS
  <2>1. PICK m \in Bad : \A i \in Bad : m <= i
    <3>1. Bad \in SUBSET Nat
      OBVIOUS
    <3> HIDE DEF Bad
    <3> QED
      BY <3>1, LeastNumber
  <2>2. m # 0
    BY <1>2, <2>1
  <2>3. m - 1 \in 0 .. n /\ m \in 1 .. n /\ m \in 1 .. n + 1 /\ m - 1 \notin Bad
    BY <2>1, <2>2
  <2>4. f(n)[m - 1] = f(n + 1)[m - 1]
    BY <2>3
  <2>5. /\ f(n)[m] = Advanced(p, f(n)[m - 1])
        /\ f(n + 1)[m] = Advanced(p, f(n + 1)[m - 1])
    BY <1>2, <2>3
  <2> QED
    BY <2>1, <2>4, <2>5
<1>4. f(n + 1)[n + 1] = Advanced(p, f(n + 1)[n])
  <2>1. n + 1 \in Nat /\ n + 1 \in 1 .. n + 1 /\ (n + 1) - 1 = n
    OBVIOUS
  <2>2. f(n + 1)[n + 1] = Advanced(p, f(n + 1)[(n + 1) - 1])
    BY <1>2, <2>1
  <2> QED
    BY <2>1, <2>2
<1> QED
  BY <1>1, <1>2, <1>3, <1>4

-----------------------------------------------------------------------------
(* Stalls *)

(* The engine may be at this cell of the list: it is before the stall      *)
(* address or at it, or in a subroutine.                                   *)
Released(cell) == cell >= MainCells \/ ge.stall = NoStall \/ cell <= ge.stall

(* A list that is held up is released as far as it was written, and the    *)
(* engine, with what it returns to, is in what was released.               *)
StallInv ==
  ge.running =>
    /\ IF ge.stall = NoStall THEN written = MainCells ELSE ge.stall \in 0 .. written
    /\ Released(ge.pc)
    /\ \A i \in DOMAIN ge.stack : Released(ge.stack[i].pc)

(* What a program must see to: no command jumps to a cell of the list that *)
(* is not released yet.                                                    *)
JumpsReleased ==
  ge.running /\ ge.pc \in Cells /\ program[ge.pc].op \in Jumping =>
    Released(ge.offset + program[ge.pc].to)

(* The engine and the one that was given the whole list.                   *)
TraceInv ==
  LET whole == Whole(program, steps)
  IN  /\ steps \in 0 .. MaxSteps
      /\ steps < MaxSteps /\ (ge.running \/ steps # 0) =>
           /\ whole.engine \in Engine
           /\ drawn = whole.drawn
           /\ ge.stack = whole.engine.stack
           /\ ge.offset = whole.engine.offset
           /\ ge.running => Same(ge, whole.engine)
           /\ whole.engine.running => ge.running \/ ge.finished

ListInv == TypeInv /\ StallInv /\ TraceInv

(* The command at pc is the one of the list. *)
LEMMA FetchesProgram ==
  ASSUME ListInv, ge.running, ge.pc \in Cells, ge.pc # ge.stall
  PROVE  /\ Fetched(ge.pc) = program[ge.pc]
         /\ ge.pc < MainCells /\ ge.stall # NoStall => ge.pc < ge.stall
<1>1. /\ ge.pc \in Nat /\ ge.stall \in Int /\ written \in 0 .. MainCells
  BY DEF ListInv, TypeInv, GTypeOK, Engine
<1> QED
  BY <1>1, CellsAssumption DEF ListInv, StallInv, Released, Fetched

LEMMA RunCommandStalls ==
  ASSUME ListInv, JumpsReleased, RunCommand
  PROVE  StallInv'
<1> DEFINE c == program[ge.pc]
<1>1. /\ ge.running /\ ge.pc \in Cells /\ ge.pc # ge.stall
      /\ ge' = Executed(ge, c) /\ written' = written
  BY FetchesProgram DEF RunCommand
<1>2. c \in Command
  BY <1>1, FetchedIs DEF ListInv
<1>3. /\ ge \in Engine /\ ge.pc \in Nat /\ ge.stall \in Int /\ ge.stack \in Seq(Return)
      /\ MainCells \in Nat
  BY CellsAssumption DEF ListInv, TypeInv, GTypeOK, Engine
<1>4. Released(ge.pc + 1)
  BY <1>1, <1>3, FetchesProgram DEF Released
<1>5. c.op \in Jumping => Released(ge.offset + c.to)
  BY <1>1 DEF JumpsReleased
<1>6. \A i \in DOMAIN ge.stack : Released(ge.stack[i].pc)
  BY <1>1 DEF ListInv, StallInv
<1>7. ge'.stall = ge.stall
  BY <1>1, <1>2, <1>3, ExecutedIs
<1>8. \A cell : Released(cell)' <=> Released(cell')
  BY <1>7 DEF Released
<1> HIDE DEF c
<1>9. Released(ge'.pc)
  <2>1. \/ ge'.pc = ge.pc + 1
        \/ c.op \in Jumping /\ ge'.pc = ge.offset + c.to
        \/ ge.stack # <<>> /\ ge'.pc = ge.stack[Len(ge.stack)].pc
    BY <1>1, <1>2, <1>3, ExecutedIs
  <2>2. ge.stack # <<>> => Len(ge.stack) \in DOMAIN ge.stack
    BY <1>3
  <2> QED
    BY <1>4, <1>5, <1>6, <2>1, <2>2
<1>10. ASSUME NEW i \in DOMAIN ge'.stack
       PROVE  Released(ge'.stack[i].pc)
  <2>1. \/ ge'.stack = ge.stack
        \/ ge'.stack = Append(ge.stack, [pc |-> ge.pc + 1, offset |-> ge.offset])
        \/ /\ ge.stack # <<>>
           /\ ge'.stack = SubSeq(ge.stack, 1, Len(ge.stack) - 1)
    BY <1>1, <1>2, <1>3, ExecutedIs
  <2>2. \/ i \in DOMAIN ge.stack /\ ge'.stack[i] = ge.stack[i]
        \/ ge'.stack[i] = [pc |-> ge.pc + 1, offset |-> ge.offset]
    <3> DEFINE e == [pc |-> ge.pc + 1, offset |-> ge.offset]
    <3>1. e \in Return
      BY <1>1, <1>3 DEF Return, Engine
    <3> HIDE DEF e
    <3>2. ASSUME ge'.stack = Append(ge.stack, e)
          PROVE  (i \in DOMAIN ge.stack /\ ge'.stack[i] = ge.stack[i]) \/ ge'.stack[i] = e
      BY <1>3, <1>10, <3>1, <3>2
    <3>3. ASSUME ge.stack # <<>>, ge'.stack = SubSeq(ge.stack, 1, Len(ge.stack) - 1)
          PROVE  i \in DOMAIN ge.stack /\ ge'.stack[i] = ge.stack[i]
      BY <1>3, <1>10, <3>3
    <3> QED
      BY <1>10, <2>1, <3>2, <3>3 DEF e
  <2>3. CASE i \in DOMAIN ge.stack /\ ge'.stack[i] = ge.stack[i]
    BY <1>6, <2>3
  <2>4. CASE ge'.stack[i] = [pc |-> ge.pc + 1, offset |-> ge.offset]
    <3>1. ge'.stack[i].pc = ge.pc + 1
      BY <2>4
    <3> QED
      BY <1>4, <3>1
  <2> QED
    BY <2>2, <2>3, <2>4
<1>11. ge.running
  BY <1>1
<1> QED
  BY <1>1, <1>7, <1>9, <1>10, <1>11 DEF ListInv, StallInv, Released

LEMMA RunCommandTraces ==
  ASSUME ListInv, RunCommand
  PROVE  TraceInv'
<1> DEFINE c == program[ge.pc]
           whole == Whole(program, steps)
<1>1. /\ ge.running /\ ge.pc \in Cells
      /\ ge' = Executed(ge, c) /\ program' = program
      /\ IF steps < MaxSteps
           THEN /\ drawn' = IF c.op = "draw" THEN Append(drawn, ge.pc) ELSE drawn
                /\ steps' = steps + 1
           ELSE UNCHANGED <<drawn, steps>>
  BY FetchesProgram DEF RunCommand
<1>2. c \in Command /\ ge \in Engine
  BY <1>1, FetchedIs DEF ListInv, TypeInv, GTypeOK
<1>3. steps \in 0 .. MaxSteps /\ MaxSteps \in Nat
  BY DepthAssumption DEF ListInv, TraceInv
<1>4. steps' \in 0 .. MaxSteps
  BY <1>1, <1>3
<1>5. CASE steps < MaxSteps
  <2>1. /\ whole.engine \in Engine
        /\ drawn = whole.drawn
        /\ Same(ge, whole.engine)
    BY <1>1, <1>5 DEF ListInv, TraceInv
  <2>2. whole.engine.pc = ge.pc
    BY <2>1 DEF Same
  <2>3. Whole(program, steps)' = Whole(program, steps + 1)
    BY <1>1, <1>5 DEF Whole, Unfolds, Advanced, Began
  <2>4. Whole(program, steps)' = Advanced(program, whole)
    BY <1>3, <2>3, WholeIs
  <2>5. /\ Whole(program, steps)'.engine = Executed(whole.engine, c)
        /\ Whole(program, steps)'.drawn = drawn'
    BY <1>1, <1>5, <2>1, <2>2, <2>4 DEF Advanced
  <2>6. Same(ge', Executed(whole.engine, c)) /\ Executed(whole.engine, c) \in Engine
    BY <1>1, <1>2, <2>1, ExecutedSame, ExecutedIs
  <2> HIDE DEF c, whole
  <2> QED
    BY <1>4, <2>5, <2>6 DEF TraceInv, Same
<1>6. CASE ~(steps < MaxSteps)
  BY <1>1, <1>3, <1>6 DEF TraceInv
<1> QED
  BY <1>5, <1>6

LEMMA StepTraces ==
  ASSUME ListInv, JumpsReleased, [GNext]_gvars
  PROVE  ListInv'
<1>1. TypeInv'
  BY StepTypes DEF ListInv
<1>2. ge \in Engine /\ written \in 0 .. MainCells /\ MainCells \in Nat
  BY CellsAssumption DEF ListInv, TypeInv, GTypeOK
<1>3. CASE RunCommand
  BY <1>1, <1>3, RunCommandStalls, RunCommandTraces DEF ListInv
<1>4. ASSUME UNCHANGED <<program, steps>> PROVE Whole(program, steps)' = Whole(program, steps)
  BY <1>4 DEF Whole, Unfolds, Advanced, Began
<1>5. CASE UNCHANGED <<ge, program, steps, drawn>> /\ written' \in written .. MainCells
  <2>1. StallInv'
    BY <1>2, <1>5 DEF ListInv, StallInv, Released
  <2>2. TraceInv'
    BY <1>4, <1>5, Zenon DEF ListInv, TraceInv, Same
  <2> QED
    BY <1>1, <2>1, <2>2 DEF ListInv
<1>6. ASSUME NEW stall \in Stalls, Enqueue(stall)
      PROVE  StallInv' /\ TraceInv'
  <2>1. /\ ge' = RunFrom(Begun(ge), 0, stall) /\ Releases(stall) /\ written' = written
        /\ drawn' = <<>> /\ steps' = 0 /\ program' = program
    BY <1>6 DEF Enqueue
  <2>2. /\ ge'.pc = 0 /\ ge'.stall = stall /\ ge'.running /\ ge'.stack = <<>>
        /\ ge'.offset = 0 /\ ge'.visible = FALSE
    BY <1>2, <2>1 DEF RunFrom, Begun, Engine
  <2>3. StallInv'
    BY <1>2, <2>1, <2>2 DEF StallInv, Released, Releases, NoStall
  <2>4. Whole(program, steps)' = Whole(program, 0)
    BY <2>1 DEF Whole, Unfolds, Advanced, Began
  <2>5. Whole(program, steps)' = Began
    BY <2>4, WholeIs
  <2>6. Began.engine \in Engine /\ Began.drawn = <<>>
    <3>1. RunFrom(NewEngine, 0, NoStall) \in Engine
      <4>1. ASSUME NEW g \in Engine PROVE RunFrom(g, 0, NoStall) \in Engine
        <5>1. NoStall \in Int
          BY DEF NoStall
        <5> QED
          BY <5>1 DEF RunFrom, Engine
      <4> QED
        BY <4>1, NewEngineTyped
    <3> QED
      BY <3>1 DEF Began
  <2>7. Same(ge', Began.engine)
    BY <2>2 DEF Same, Began, RunFrom, NewEngine
  <2> HIDE DEF Began
  <2> QED
    BY <2>1, <2>2, <2>3, <2>5, <2>6, <2>7, DepthAssumption DEF TraceInv, Same
<1>7. ASSUME NEW stall \in Stalls, UpdateStall(stall)
      PROVE  StallInv' /\ TraceInv'
  <2>1. /\ ge'.stall = stall /\ ge'.stack = ge.stack /\ Same(ge', ge)
        /\ ge.finished => ge'.running \/ ge'.finished
        /\ Releases(stall) /\ UNCHANGED <<written, program, drawn, steps>>
    BY <1>2, <1>7 DEF UpdateStall, RunFrom, Engine, Same
  <2>2. StallInv'
    <3> SUFFICES ASSUME ge.running PROVE StallInv'
      BY <2>1 DEF StallInv, Same
    <3>1. /\ ge.pc \in Nat /\ ge.stack \in Seq(Return) /\ ge'.pc = ge.pc
          /\ \A i \in DOMAIN ge.stack : ge.stack[i].pc \in Nat
      <4>1. ge.pc \in Nat /\ ge.stack \in Seq(Return) /\ ge'.pc = ge.pc
        BY <1>2, <2>1 DEF Engine, Same
      <4>2. \A i \in DOMAIN ge.stack : ge.stack[i] \in Return
        BY <4>1
      <4> QED
        BY <4>1, <4>2 DEF Return
    <3>2. IF ge.stall = NoStall THEN written = MainCells ELSE ge.stall \in 0 .. written
      BY DEF ListInv, StallInv
    <3>3. IF stall = NoStall THEN written = MainCells ELSE stall \in 0 .. written
      BY <1>2, <2>1 DEF Releases, NoStall
    <3>4. ASSUME NEW cell \in Nat, Released(cell)
          PROVE  cell >= MainCells \/ stall = NoStall \/ cell <= stall
      BY <1>2, <2>1, <3>2, <3>4 DEF Released, Releases, NoStall
    <3>5. /\ Released(ge.pc)
          /\ \A i \in DOMAIN ge.stack : Released(ge.stack[i].pc)
      BY DEF ListInv, StallInv
    <3> QED
      BY <2>1, <3>1, <3>3, <3>4, <3>5 DEF StallInv, Released
  <2>3. TraceInv'
    BY <1>4, <2>1 DEF ListInv, TraceInv, Same
  <2> QED
    BY <2>2, <2>3
<1>8. CASE RunEnds
  <2>1. ge' = ge \/ ge' = Stopped(ge)
    BY <1>8 DEF RunEnds
  <2>2. CASE ge' = ge
    BY <1>2, <1>5, <1>8, <2>2 DEF RunEnds
  <2>3. CASE ge' = Stopped(ge)
    <3>1. /\ ~ge'.running /\ ge'.finished
          /\ ge'.stack = ge.stack /\ ge'.offset = ge.offset
      BY <1>2, <2>3 DEF Stopped, Engine
    <3>2. StallInv'
      BY <3>1 DEF StallInv
    <3>3. TraceInv'
      BY <1>4, <1>8, <3>1 DEF ListInv, TraceInv, RunEnds
    <3> QED
      BY <1>1, <3>2, <3>3 DEF ListInv
  <2> QED
    BY <2>1, <2>2, <2>3
<1> QED
  BY <1>1, <1>2, <1>3, <1>5, <1>6, <1>7, <1>8
  DEF ListInv, GNext, Calls, Run, Write, gvars

(* Being written and released piece by piece makes no difference to a list *)
(* (sceGeListUpdateStallAddr goes on at ge->pc and begins nothing anew),   *)
(* provided that no command jumps into what is not released yet.           *)
THEOREM StallsMakeNoDifference == GSpec /\ []JumpsReleased => []StallsLeaveNoTrace
<1>1. GInit => ListInv
  <2>1. GInit => TypeInv
    BY InitTypes
  <2>2. GInit => ~ge.running /\ steps = 0
    BY DEF GInit, NewEngine
  <2> QED
    BY <2>1, <2>2, DepthAssumption DEF ListInv, StallInv, TraceInv
<1>2. ListInv /\ JumpsReleased /\ [GNext]_gvars => ListInv'
  BY StepTraces
<1>3. ListInv => StallsLeaveNoTrace
  <2>1. SUFFICES ASSUME ListInv, steps \in 1 .. MaxSteps - 1
                 PROVE  LET whole == Unstalled(steps)
                        IN  /\ drawn = whole.drawn
                            /\ ge.stack = whole.engine.stack
                            /\ ge.offset = whole.engine.offset
                            /\ ge.running => ge.pc = whole.engine.pc
                            /\ whole.engine.running => ge.running \/ ge.finished
    BY DEF StallsLeaveNoTrace
  <2>2. steps < MaxSteps /\ steps # 0
    BY <2>1, DepthAssumption
  <2>3. Unstalled(steps) = Whole(program, steps)
    BY UnstalledIs
  <2> QED
    BY <2>1, <2>2, <2>3 DEF ListInv, TraceInv, Same
<1> QED
  BY <1>1, <1>2, <1>3, PTL DEF GSpec

=============================================================================
