------------------------------- MODULE AsyncIo -------------------------------
(***************************************************************************)
(* The file descriptors of mips_hle.c and their asynchronous requests.     *)
(* Every HLE call runs on the one emulator thread ("main"); sceIoOpenAsync *)
(* and sceIoReadAsync create a POSIX thread, the worker of the descriptor, *)
(* which works on it without a lock and takes async_mutex to report its    *)
(* result.  What main does under async_mutex is one action.  A raw-sector  *)
(* descriptor keeps its position in the HLE_File, where main and a worker  *)
(* may read and write it at the same time; the position of a host file is  *)
(* the kernel's, which serialises it.                                      *)
(***************************************************************************)
EXTENDS Integers, FiniteSets, Functions

CONSTANTS
  NumFiles,   \* MAX_FILES
  RawLength,  \* the length of a raw-sector file
  Sizes,      \* the sizes a program reads
  ImageEnd,   \* what the disc image holds from the start of that file on
  MaxAsked    \* bound: asynchronous requests

ASSUME FilesAssumption == NumFiles \in Nat \ {0} /\ Sizes \subseteq Nat /\ MaxAsked \in Nat
ASSUME ImageAssumption == RawLength \in Nat /\ ImageEnd \in Nat /\ RawLength <= ImageEnd

VARIABLES
  files,  \* kernel->files[]
  io,     \* what each thread does: the worker of each slot, and main (0)
  asked,  \* history: per descriptor, the number of the latest request
  got,    \* history: per descriptor, the number of the request collected last
  raced   \* history: descriptors whose position main touched under a worker,
          \* until a seek while no worker is at work puts it right

avars == <<files, io, asked, got, raced>>

Main  == 0
Files == 1 .. NumFiles   \* the descriptor; the slot is one less

Kinds  == {"closed", "host", "raw"}
Result == [of : Nat, ok : BOOLEAN]

File == [active : BOOLEAN, fd : Kinds, pos : Nat, isAsync : BOOLEAN,
         done : BOOLEAN, result : Result, valid : BOOLEAN, opening : BOOLEAN]

NoFile == [active |-> FALSE, fd |-> "closed", pos |-> 0, isAsync |-> FALSE,
           done |-> FALSE, result |-> [of |-> 0, ok |-> TRUE],
           valid |-> FALSE, opening |-> FALSE]

(* A thread between two steps; a worker's request is number "of".          *)
Steps == {"idle", "open", "place", "request", "read", "load", "store", "report", "over",
          "wait", "join", "close", "release"}
Job   == [step : Steps, file : Files, of : Nat, size : Nat, at : Nat, ok : BOOLEAN]
Idle  == [step |-> "idle", file |-> 1, of |-> 0, size |-> 0, at |-> 0, ok |-> TRUE]

At(t, step) == io[t].step = step

(* main is free to run the program. *)
Free(f) == At(Main, "idle") /\ files[f].active

Unused     == {f \in Files : ~files[f].active}
FirstFile  == CHOOSE f \in Unused : \A g \in Unused : f <= g
Requesting == At(Main, "idle") /\ FoldFunction(+, 0, asked) < MaxAsked

Set(f, file)  == files' = [files EXCEPT ![f] = file]
Does(t, job)  == io' = [io EXCEPT ![t] = job]

-----------------------------------------------------------------------------
(* Calls of the program *)

(* A freshly opened descriptor of kind fd (open_psp_file). *)
Opened(file, fd) == [file EXCEPT !.fd = fd, !.pos = 0]

OpenFile(fd) ==
  /\ At(Main, "idle") /\ Unused # {}
  /\ Set(FirstFile, [Opened(files[FirstFile], fd) EXCEPT
            !.active = (fd # "closed"), !.isAsync = FALSE, !.opening = FALSE])
  /\ UNCHANGED <<io, asked, got, raced>>

(* The descriptor while its worker is at work. *)
Started(file, opening) ==
  [file EXCEPT !.active = TRUE, !.isAsync = TRUE, !.done = FALSE,
               !.result = [of |-> 0, ok |-> TRUE], !.valid = TRUE,
               !.opening = opening]

StartWorker(f, step, size) ==
  /\ asked' = [asked EXCEPT ![f] = @ + 1]
  /\ io' = [io EXCEPT ![f] = [step |-> step, file |-> f, of |-> asked[f] + 1,
                              size |-> size, at |-> 0, ok |-> TRUE]]

OpenAsync ==
  /\ Unused # {} /\ Requesting
  /\ Set(FirstFile, Started([files[FirstFile] EXCEPT !.fd = "closed"], TRUE))
  /\ StartWorker(FirstFile, "open", 0)
  /\ UNCHANGED <<got, raced>>

Accepts(file) == ~file.isAsync /\ ~file.done

(* A worker that the code would join first (async_thread_valid with no     *)
(* result to collect) does not exist: both go when the result is collected.*)
(* A pthread_create that fails is left out.                                *)
ReadAsync(f, size) ==
  /\ Requesting /\ files[f].active
  /\ Accepts(files[f])
  /\ Set(f, Started(files[f], files[f].opening))
  /\ StartWorker(f, "request", size)
  /\ UNCHANGED <<got, raced>>

(* Mutant of LseekAsync: a worker may be at work. *)
LseekAsyncAnytime(f, pos) ==
  /\ Requesting /\ files[f].active
  /\ files[f].fd # "closed"
  /\ Set(f, [files[f] EXCEPT !.done = TRUE, !.result = [of |-> asked[f] + 1, ok |-> TRUE],
                             !.pos = IF files[f].fd = "raw" THEN pos ELSE @])
  /\ asked' = [asked EXCEPT ![f] = @ + 1]
  /\ raced' = raced \ {f}
  /\ UNCHANGED <<io, got>>

(* The seek is done at once; its result is collected like a worker's. *)
LseekAsync(f, pos) ==
  /\ Requesting /\ files[f].active
  /\ Accepts(files[f])
  /\ files[f].fd # "closed"
  /\ Set(f, [files[f] EXCEPT !.done = TRUE, !.result = [of |-> asked[f] + 1, ok |-> TRUE],
                             !.pos = IF files[f].fd = "raw" THEN pos ELSE @])
  /\ asked' = [asked EXCEPT ![f] = @ + 1]
  /\ raced' = raced \ {f}
  /\ UNCHANGED <<io, got>>

(* The result is handed out; main goes on to join the worker, if any, and  *)
(* to give back the descriptor of an open that failed.                     *)
FailedOpen(file) == file.opening /\ ~file.result.ok

Doing(step, f, ok) == IF step = "idle" THEN Idle
                      ELSE [Idle EXCEPT !.step = step, !.file = f, !.ok = ok]

NextStep(joins, failed) == IF joins THEN "join" ELSE IF failed THEN "release" ELSE "idle"

Collect(f) ==
  LET failed == FailedOpen(files[f])
      next   == NextStep(files[f].valid, failed)
  IN  /\ Set(f, [files[f] EXCEPT !.done = FALSE, !.opening = FALSE, !.valid = FALSE])
      /\ got' = [got EXCEPT ![f] = files[f].result.of]
      /\ Does(Main, Doing(next, f, ~failed))
      /\ UNCHANGED <<asked, raced>>

(* sceIoWaitAsync(CB) on a request under way blocks the emulator thread,   *)
(* sceIoPollAsync returns at once; both collect a result that is ready.    *)
WaitAsync(f) ==
  /\ Free(f)
  /\ files[f].isAsync
  /\ Does(Main, Doing("wait", f, TRUE))
  /\ UNCHANGED <<files, asked, got, raced>>

CollectReady(f) == Free(f) /\ ~files[f].isAsync /\ files[f].done /\ Collect(f)

(* sceIoClose joins the worker first. *)
Close(f) ==
  /\ Free(f)
  /\ Does(Main, Doing("close", f, TRUE))
  /\ UNCHANGED <<files, asked, got, raced>>

(* sceIoRead, in the steps of RawRead, and sceIoLseek look at no async     *)
(* state.                                                                  *)
Read(f, size) ==
  /\ Free(f)
  /\ files[f].fd = "raw"
  /\ io' = [io EXCEPT ![Main] = [Idle EXCEPT !.step = "request", !.file = f, !.size = size]]
  /\ raced' = IF files[f].isAsync THEN raced \cup {f} ELSE raced
  /\ UNCHANGED <<files, asked, got>>

Lseek(f, pos) ==
  /\ Free(f)
  /\ files[f].fd = "raw"
  /\ Set(f, [files[f] EXCEPT !.pos = pos])
  /\ raced' = IF files[f].isAsync THEN raced \cup {f} ELSE raced \ {f}
  /\ UNCHANGED <<io, asked, got>>

-----------------------------------------------------------------------------
(* Steps of the workers and of main inside a call *)

(* The thread is done with its read: the call returns, or the worker goes  *)
(* on to report.                                                           *)
ReadDone(t, ok) ==
  io' = [io EXCEPT ![t] = IF t = Main THEN Idle
                          ELSE [@ EXCEPT !.step = "report", !.ok = ok, !.size = 0, !.at = 0]]

(* Mutant of OpenWork: an open that fails is tried again. *)
OpenWorkRetries(w) ==
  /\ At(w, "open")
  /\ \E fd \in Kinds :
       /\ Set(w, [files[w] EXCEPT !.fd = fd, !.pos = IF fd = "host" THEN 0 ELSE @])
       /\ io' = [io EXCEPT ![w].step = CASE fd = "raw" -> "place" [] fd = "host" -> "report"
                                         [] OTHER -> "open",
                           ![w].ok = (fd # "closed") \/ ~@]
  /\ UNCHANGED <<asked, got, raced>>

(* async_io_open_worker: the file is opened, or the open fails.  No lock is *)
(* held: a raw-sector file is one, with its offset and length (those of all*)
(* raw-sector files here), before its position is set; until then the slot *)
(* has the position of its last file, and a seek of main's is overwritten. *)
OpenWork(w) ==
  /\ At(w, "open")
  /\ \E fd \in Kinds :
       /\ Set(w, [files[w] EXCEPT !.fd = fd, !.pos = IF fd = "host" THEN 0 ELSE @])
       /\ io' = [io EXCEPT ![w].step = IF fd = "raw" THEN "place" ELSE "report",
                           ![w].ok = (fd # "closed")]
  /\ UNCHANGED <<asked, got, raced>>

Placed(w) ==
  /\ At(w, "place")
  /\ Set(w, [files[w] EXCEPT !.pos = 0])
  /\ io' = [io EXCEPT ![w].step = "report"]
  /\ UNCHANGED <<asked, got, raced>>

(* A read of a host file, or one that fails: no position of ours moves. *)
ReadElsewhere(w) ==
  /\ w # Main /\ At(w, "request")
  /\ \E ok \in BOOLEAN : ReadDone(w, ok)
  /\ UNCHANGED <<files, asked, got, raced>>

(* What is left of the file; uint64_t, so a position past the end leaves   *)
(* more than any request asks for.                                         *)
Clipped(size, pos) ==
  IF pos > RawLength \/ size <= RawLength - pos THEN size ELSE RawLength - pos

(* Mutant of RawRequest: the size is not clipped. *)
RawRequestAll(t) ==
  LET f == io[t].file
  IN  /\ At(t, "request") /\ files[f].fd = "raw"
      /\ io' = [io EXCEPT ![t].step = "read"]
      /\ UNCHANGED <<files, asked, got, raced>>

(* The read of a raw-sector file: the size is clipped, the sectors at the  *)
(* position are read, the position is advanced.                            *)
RawRequest(t) ==
  LET f == io[t].file
  IN  /\ At(t, "request") /\ files[f].fd = "raw"
      /\ io' = [io EXCEPT ![t].step = "read", ![t].size = Clipped(@, files[f].pos)]
      /\ UNCHANGED <<files, asked, got, raced>>

(* iso_read_exact fails past the end of the image. *)
RawRead(t) ==
  LET pos == files[io[t].file].pos
  IN  /\ At(t, "read")
      /\ IF pos + io[t].size <= ImageEnd
         THEN io' = [io EXCEPT ![t].step = "load", ![t].at = pos]
         ELSE ReadDone(t, FALSE)
      /\ UNCHANGED <<files, asked, got, raced>>

(* raw_position += request_size, without a lock. *)
RawLoad(t) ==
  /\ At(t, "load")
  /\ io' = [io EXCEPT ![t].step = "store", ![t].at = files[io[t].file].pos]
  /\ UNCHANGED <<files, asked, got, raced>>

RawStore(t) ==
  LET f == io[t].file
  IN  /\ At(t, "store")
      /\ Set(f, [files[f] EXCEPT !.pos = io[t].at + io[t].size])
      /\ ReadDone(t, TRUE)
      /\ UNCHANGED <<asked, got, raced>>

Report(w) ==
  /\ w # Main /\ At(w, "report")
  /\ Set(w, [files[w] EXCEPT !.isAsync = FALSE, !.done = TRUE,
                             !.result = [of |-> io[w].of, ok |-> io[w].ok]])
  /\ Does(w, [io[w] EXCEPT !.step = "over"])
  /\ UNCHANGED <<asked, got, raced>>

(* The condition variable wakes main when the request is not under way any *)
(* more.                                                                   *)
Woken ==
  LET f == io[Main].file
  IN  /\ At(Main, "wait")
      /\ ~files[f].isAsync
      /\ IF files[f].done THEN Collect(f)
         ELSE Does(Main, Idle) /\ UNCHANGED <<files, asked, got, raced>>

(* pthread_join returns once the worker is over. *)
Joined ==
  LET f == io[Main].file
  IN  /\ At(Main, "join") /\ At(f, "over")
      /\ io' = [io EXCEPT ![f] = Idle,
                          ![Main] = Doing(NextStep(FALSE, ~@.ok), f, @.ok)]
      /\ UNCHANGED <<files, asked, got, raced>>

(* The descriptor of a failed open is given back. *)
Release ==
  LET f == io[Main].file
  IN  /\ At(Main, "release")
      /\ Set(f, [files[f] EXCEPT !.fd = "closed", !.active = FALSE])
      /\ Does(Main, Idle)
      /\ UNCHANGED <<asked, got, raced>>

(* Mutant of Closed: the worker is not joined. *)
ClosedAtOnce ==
  LET f == io[Main].file
  IN  /\ At(Main, "close")
      /\ Set(f, [files[f] EXCEPT !.active = FALSE, !.fd = "closed", !.valid = FALSE,
                   !.done = FALSE, !.isAsync = FALSE, !.opening = FALSE])
      /\ Does(Main, Idle)
      /\ raced' = raced \ {f}
      /\ UNCHANGED <<asked, got>>

(* Mutant of Closed: a result not collected is kept. *)
ClosedKeepsResult ==
  LET f == io[Main].file
  IN  /\ At(Main, "close")
      /\ files[f].valid => At(f, "over")
      /\ Set(f, [files[f] EXCEPT !.active = FALSE, !.fd = "closed", !.valid = FALSE,
                   !.isAsync = FALSE, !.opening = FALSE])
      /\ io' = [io EXCEPT ![f] = IF files[f].valid THEN Idle ELSE @, ![Main] = Idle]
      /\ raced' = raced \ {f}
      /\ UNCHANGED <<asked, got>>

Closed ==
  LET f == io[Main].file
  IN  /\ At(Main, "close")
      /\ files[f].valid => At(f, "over")
      /\ Set(f, [files[f] EXCEPT !.active = FALSE, !.fd = "closed", !.valid = FALSE,
                   !.done = FALSE, !.isAsync = FALSE, !.opening = FALSE])
      /\ io' = [io EXCEPT ![f] = IF files[f].valid THEN Idle ELSE @,
                          ![Main] = Idle]
      /\ raced' = raced \ {f}
      /\ UNCHANGED <<asked, got>>

-----------------------------------------------------------------------------
AInit ==
  /\ files = [f \in Files |-> NoFile]
  /\ io = [t \in Files \cup {Main} |-> Idle]
  /\ asked = [f \in Files |-> 0]
  /\ got = [f \in Files |-> 0]
  /\ raced = {}

Calls ==
  \/ \E fd \in {"host", "raw"} : OpenFile(fd)
  \/ OpenAsync
  \/ \E f \in Files :
       \/ WaitAsync(f)
       \/ CollectReady(f)
       \/ Close(f)
       \/ \E size \in Sizes : ReadAsync(f, size) \/ Read(f, size)
       \/ \E pos \in 0 .. RawLength : LseekAsync(f, pos) \/ Lseek(f, pos)

RawSteps(t) == RawRequest(t) \/ RawRead(t) \/ RawLoad(t) \/ RawStore(t)

Worker(w) == OpenWork(w) \/ Placed(w) \/ ReadElsewhere(w) \/ RawSteps(w) \/ Report(w)

Returning == Woken \/ Joined \/ Release \/ Closed \/ RawSteps(Main)

ANext == Calls \/ Returning \/ \E w \in Files : Worker(w)

ASpec == AInit /\ [][ANext]_avars

(* The operating system schedules the emulator thread and the workers.     *)
FairASpec ==
  /\ ASpec
  /\ WF_avars(Returning)
  /\ \A w \in Files : WF_avars(Worker(w))

-----------------------------------------------------------------------------
(* Properties *)

AtWork(w) == ~At(w, "idle") /\ ~At(w, "over")

(* A descriptor is busy exactly while its worker is at work on it: no      *)
(* worker outlives its descriptor, and nobody waits for no worker.         *)
BusyWithWorker ==
  \A f \in Files :
    /\ files[f].isAsync = AtWork(f)
    /\ files[f].isAsync => files[f].active /\ ~files[f].done

(* Every worker thread has one pthread_join to come: async_thread_valid    *)
(* holds its handle, or main is about to join it.                          *)
WorkersJoinedOnce ==
  \A f \in Files :
    ~At(f, "idle") = (files[f].valid \/ (At(Main, "join") /\ io[Main].file = f))

(* The type of every variable; a descriptor that is open to the program and*)
(* not busy refers to a file: one whose open failed is given back when the *)
(* failure is collected; and descriptors and workers match.                *)
ATypeOK ==
  /\ files \in [Files -> File]
  /\ io \in [Files \cup {Main} -> Job]
  /\ asked \in [Files -> Nat]
  /\ got \in [Files -> Nat]
  /\ raced \in SUBSET Files
  /\ \A f \in Files : Free(f) /\ Accepts(files[f]) => files[f].fd # "closed"
  /\ BusyWithWorker /\ WorkersJoinedOnce

(* A raw-sector read stays within the sectors of its file, although its    *)
(* steps take no lock, unless main read from the file, or moved in it,     *)
(* while a worker was at work on it.  Such a race is over with the next    *)
(* seek, of either kind, while no worker is at work: from then on reads    *)
(* stay in the file again, whatever the race left in raw_position.         *)
RawReadsInFile ==
  \A t \in Files \cup {Main} :
    (At(t, "load") /\ io[t].file \notin raced) => io[t].at + io[t].size <= RawLength

(* A call that blocks the emulator thread (sceIoWaitAsync, sceIoClose)     *)
(* returns.                                                                *)
MainReturns == ~At(Main, "idle") ~> At(Main, "idle")

Status(file) ==
  IF ~file.active THEN "closed"
  ELSE IF file.isAsync THEN "busy"
  ELSE IF file.done THEN "ready"
  ELSE "idle"

Handle == INSTANCE AsyncHandle WITH
            Handles <- Files, status <- [f \in Files |-> Status(files[f])]

(* The descriptors keep the promise of AsyncHandle: the result collected is*)
(* that of the latest request, once, and requests do not get mixed up.     *)
ImplementsHandle == Handle!HSpec
=============================================================================
