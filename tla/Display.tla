------------------------------- MODULE Display -------------------------------
(***************************************************************************)
(* The display: the vertical blank clock and the framebuffer calls of      *)
(* main_v35.c, and the frames of mips_video.c.  The emulator has one       *)
(* thread: it runs the program, whose calls select framebuffers and draw,  *)
(* and looks at the clock now and then; in a wait it only looks at the     *)
(* clock.  Drawing goes to a target of the host, the canvas, which a       *)
(* vertical blank shows on the screen.                                     *)
(***************************************************************************)
EXTENDS Integers

CONSTANTS
  Period,    \* ticks of the clock between vertical blanks
  MaxLate,   \* bound: ticks that a vertical blank is looked at too late
  Wrap,      \* the width of vblank_counter (2^32)
  Contents,  \* what the program can write to the framebuffer in its memory
  Buffer,    \* the address of that framebuffer
  Nowhere,   \* an address without memory behind it
  Nothing    \* no content, no address

ASSUME ClockAssumption ==
  Period \in Nat \ {0} /\ MaxLate \in Nat /\ Wrap \in Nat /\ MaxLate \div Period + 1 < Wrap

ASSUME NothingAssumption == Nothing \notin Int /\ Nothing \notin {Buffer, Nowhere}

VARIABLES
  due,      \* next_vblank_ns less the time, Nothing before the first look
  counter,  \* vblank_counter
  waiting,  \* start_counter of hle_display_wait_vblank, Nothing outside of it
  shown,    \* g_display.topaddr, Nothing until it is configured
  latch,    \* g_latched_display.topaddr, Nothing unless it is latched
  ram,      \* the content of the framebuffer in memory
  video,    \* MIPS_VideoSystem
  exit,     \* cpu->exit_requested
  time,     \* history: ticks since the first look, modulo Wrap periods
  newest    \* history: the address of the last request that was accepted

clock == <<due, counter, time>>
dvars == <<due, counter, waiting, shown, latch, ram, video, exit, time, newest>>

Addresses == {Buffer, Nowhere}

NewVideo == [addr |-> Nothing, dirty |-> FALSE, started |-> FALSE, snapshot |-> Nothing,
             canvas |-> Nothing, screen |-> Nothing, changed |-> FALSE, drawn |-> FALSE,
             picture |-> FALSE, deferred |-> 0, presented |-> FALSE, close |-> FALSE]

-----------------------------------------------------------------------------
(* mips_video.c *)

SetFramebuffer(v, addr) == [v EXCEPT !.addr = addr, !.dirty = TRUE]

(* The framebuffer in memory is brought to the canvas when it was selected *)
(* anew and differs from what was brought last.                            *)
Upload(v) ==
  CASE v.addr = Nowhere      -> v
    [] v.snapshot = ram      -> [v EXCEPT !.dirty = FALSE]
    [] OTHER -> [v EXCEPT !.dirty = FALSE, !.changed = TRUE, !.snapshot = ram, !.canvas = ram]

BeginFrame(v) ==
  LET begun == [v EXCEPT !.started = TRUE]
  IN  IF v.dirty THEN Upload(begun) ELSE begun

(* A primitive, in clear mode or not; one whose vertices are malformed or  *)
(* not in memory is skipped after it was counted as a picture (the frame   *)
(* begins at mips_video.c:1818 and the drawing is counted at 1976).        *)
Draw(v, kind, skipped) ==
  LET marked == [v EXCEPT !.picture = @ \/ kind = "picture"]
  IN  IF skipped THEN marked ELSE [BeginFrame(marked) EXCEPT !.canvas = kind, !.drawn = TRUE]

(* A frame that was only cleared waits for its picture, but not for ever. *)
OnlyCleared(v) ==
  v.presented /\ ~v.dirty /\ ~v.changed /\ v.drawn /\ ~v.picture

Swapped(v) ==
  [v EXCEPT !.screen = v.canvas, !.drawn = FALSE, !.changed = FALSE, !.presented = TRUE,
            !.picture = FALSE, !.deferred = 0, !.started = FALSE, !.dirty = FALSE]

(* Mutant of Present: a cleared frame waits as long as no picture comes. *)
PresentPictures(v) ==
  IF v.close \/ (~v.started /\ ~v.dirty) THEN v
  ELSE LET b == BeginFrame(v) IN IF OnlyCleared(b) THEN b ELSE Swapped(b)

Present(v) ==
  IF v.close \/ (~v.started /\ ~v.dirty) THEN v
  ELSE LET b == BeginFrame(v)
       IN  IF OnlyCleared(b) /\ b.deferred < 2 THEN [b EXCEPT !.deferred = @ + 1]
           ELSE Swapped(b)

-----------------------------------------------------------------------------
(* hle_display_service_vblank *)

(* The first look only starts the clock. *)
StartClock == due' = Period /\ time' = 0 /\ UNCHANGED counter

(* Mutant of Count: a late look counts one vertical blank. *)
CountOne ==
  /\ due' = due + ((-due) \div Period + 1) * Period
  /\ counter' = (counter + 1) % Wrap
  /\ UNCHANGED time

(* A late look counts every vertical blank that has passed. *)
Count ==
  LET elapsed == (-due) \div Period + 1
  IN  /\ due' = due + elapsed * Period
      /\ counter' = (counter + elapsed) % Wrap
      /\ UNCHANGED time

(* The latched framebuffer is selected before the frame is shown. *)
ShowFrame ==
  LET selected == IF latch = Nothing THEN video ELSE SetFramebuffer(video, latch)
  IN  /\ video' = Present(selected)
      /\ exit' = (exit \/ video.close)
      /\ shown' = IF latch = Nothing THEN shown ELSE latch
      /\ latch' = Nothing

ServiceVblank ==
  \/ due = Nothing /\ StartClock /\ UNCHANGED <<video, exit, shown, latch>>
  \/ due # Nothing /\ due > 0 /\ UNCHANGED <<clock, video, exit, shown, latch>>
  \/ due # Nothing /\ due <= 0 /\ Count /\ ShowFrame

(* The dispatcher, or the loop of a wait, which ends when the counter has  *)
(* moved or the window was closed.                                         *)
Service ==
  /\ ~exit
  /\ ServiceVblank
  /\ waiting' = IF waiting # counter' \/ exit' THEN Nothing ELSE waiting
  /\ UNCHANGED <<ram, newest>>

-----------------------------------------------------------------------------
(* What the program does. *)

Running == ~exit /\ waiting = Nothing

(* sceDisplayWaitVblankStart, its callback variant and sceDisplaySetMode. *)
WaitVblank ==
  /\ Running
  /\ waiting' = counter
  /\ UNCHANGED <<clock, shown, latch, ram, video, exit, newest>>

Select(addr) ==
  /\ shown' = addr
  /\ video' = SetFramebuffer(video, addr)

(* Mutant of SetFrameBufNow: a latched request stays. *)
SetFrameBufNowOnly(addr) ==
  /\ Running
  /\ Select(addr)
  /\ newest' = addr
  /\ UNCHANGED <<clock, waiting, latch, ram, exit>>

(* sceDisplaySetFrameBuf with sync 0.  With another sync than 0 and 1 the  *)
(* call only returns an error.                                             *)
SetFrameBufNow(addr) ==
  /\ Running
  /\ Select(addr)
  /\ latch' = Nothing
  /\ newest' = addr
  /\ UNCHANGED <<clock, waiting, ram, exit>>

(* sceDisplaySetFrameBuf with sync 1. *)
SetFrameBufLatched(addr) ==
  /\ Running
  /\ latch' = addr
  /\ newest' = addr
  /\ UNCHANGED <<clock, waiting, shown, ram, video, exit>>

(* sceGeListEnqueue begins a frame, the list of which may draw nothing. *)
ListEnqueue ==
  /\ Running
  /\ video' = BeginFrame(video)
  /\ UNCHANGED <<clock, waiting, shown, latch, ram, exit, newest>>

(* A primitive of a list, which may have been held up since. *)
DrawPrim(kind, skipped) ==
  /\ Running
  /\ video' = Draw(video, kind, skipped)
  /\ UNCHANGED <<clock, waiting, shown, latch, ram, exit, newest>>

(* The program writes to the framebuffer itself. *)
WriteFramebuffer(content) ==
  /\ Running
  /\ ram' = content
  /\ UNCHANGED <<clock, waiting, shown, latch, video, exit, newest>>

ProgramStep ==
  \/ WaitVblank \/ ListEnqueue
  \/ \E addr \in Addresses : SetFrameBufNow(addr) \/ SetFrameBufLatched(addr)
  \/ \E kind \in {"clear", "picture"}, skipped \in BOOLEAN : DrawPrim(kind, skipped)
  \/ \E content \in Contents : WriteFramebuffer(content)

(* The monotonic clock. *)
Tick ==
  /\ due # Nothing /\ due > -MaxLate
  /\ due' = due - 1
  /\ time' = (time + 1) % (Period * Wrap)
  /\ UNCHANGED <<counter, waiting, shown, latch, ram, video, exit, newest>>

(* The user closes the window. *)
CloseWindow ==
  /\ ~video.close
  /\ video' = [video EXCEPT !.close = TRUE]
  /\ UNCHANGED <<clock, waiting, shown, latch, ram, exit, newest>>

DInit ==
  /\ due = Nothing /\ counter = 0 /\ time = 0
  /\ waiting = Nothing /\ shown = Nothing /\ latch = Nothing /\ newest = Nothing
  /\ ram \in Contents
  /\ video = NewVideo /\ exit = FALSE

DNext == Service \/ ProgramStep \/ Tick \/ CloseWindow

DSpec == DInit /\ [][DNext]_dvars /\ WF_dvars(Service) /\ WF_dvars(Tick)

-----------------------------------------------------------------------------
(* Properties *)

(* A request for a framebuffer is never overtaken by an older one: what is *)
(* latched, or else what is selected, is the last one accepted, whatever   *)
(* mix of immediate and latched requests led there, and the renderer reads *)
(* the framebuffer that is selected.                                       *)
NothingOlderShown ==
  /\ newest = IF latch # Nothing THEN latch ELSE shown
  /\ video.addr = shown

(* The counter tells the time: with the vertical blanks that are due it is *)
(* the number of periods since the clock was started, however late it was  *)
(* looked at.                                                              *)
CounterKeepsTime ==
  due # Nothing =>
    LET overdue == IF due > 0 THEN 0 ELSE (-due) \div Period + 1
    IN  (counter + overdue) % Wrap = time \div Period

(* Every wait for a vertical blank ends, and what is drawn or selected is  *)
(* on the screen again and again, a cleared frame included, in whatever    *)
(* order lists, framebuffers and vertical blanks come.                     *)
WaitsAndFramesEnd ==
  /\ []<>(waiting = Nothing)
  /\ []<>(exit \/ video.screen = video.canvas)

=============================================================================
