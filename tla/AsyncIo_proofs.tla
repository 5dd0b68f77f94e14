---------------------------- MODULE AsyncIo_proofs ----------------------------
(***************************************************************************)
(* Proofs about AsyncIo, for any number of descriptors and any sizes: the  *)
(* inductive invariant of the descriptors and their workers, the position  *)
(* of a raw-sector file, and the refinement of AsyncHandle.                *)
(***************************************************************************)
EXTENDS AsyncIo, TLAPS, WellFoundedInduction

-----------------------------------------------------------------------------
(* The invariant, for one descriptor: its slot (file), its worker (job) and*)
(* what main does.                                                         *)

InCall(main, f, S) == main.step \in S /\ main.file = f
Working(job)       == job.step \notin {"idle", "over"}

RawStep     == {"request", "read", "load", "store"}
WorkerSteps == {"idle", "open", "place", "report", "over"} \cup RawStep
MainSteps   == {"idle", "wait", "join", "close", "release"} \cup RawStep

Types ==
  /\ files \in [Files -> File]
  /\ io \in [Files \cup {Main} -> Job]
  /\ asked \in [Files -> Nat]
  /\ got \in [Files -> Nat]
  /\ raced \in SUBSET Files
  /\ io[Main].step \in MainSteps

(* Descriptors and workers match. *)
Matched(f, file, job, main) ==
  /\ job.step \in WorkerSteps
  /\ job.step # "idle" => job.file = f
  /\ file.isAsync <=> Working(job)
  /\ job.step # "idle" <=> file.valid \/ InCall(main, f, {"join"})
  /\ file.isAsync => file.valid
  /\ file.valid /\ ~file.isAsync => file.done

(* What is set in the slot belongs to the file that has it now. *)
Tidy(f, file, main) ==
  /\ file.isAsync \/ file.valid \/ file.done => file.active
  /\ file.isAsync => ~file.done
  /\ file.opening => file.isAsync \/ file.done
  /\ InCall(main, f, {"join", "release"}) =>
       file.active /\ ~file.isAsync /\ ~file.valid /\ ~file.done
  /\ InCall(main, f, {"close"}) => file.active

(* An open slot refers to a file, or its open is under way or has failed.  *)
Explained(f, file, job, main) ==
  /\ job.step = "open" => file.opening /\ file.fd = "closed"
  /\ job.step = "place" => file.fd = "raw"
  /\ file.active /\ file.fd = "closed" =>
       \/ file.opening /\ job.step = "open"
       \/ file.opening /\ job.step = "report" /\ ~job.ok
       \/ file.opening /\ file.done /\ ~file.result.ok
       \/ InCall(main, f, {"join"}) /\ ~main.ok
       \/ InCall(main, f, {"release"})

(* The request under way, or the one whose result is ready, is the latest. *)
Latest(file, job, n) ==
  /\ Working(job) => job.of = n
  /\ file.done => file.result.of = n

Orderly(f) ==
  /\ Matched(f, files[f], io[f], io[Main])
  /\ Tidy(f, files[f], io[Main])
  /\ Explained(f, files[f], io[f], io[Main])
  /\ Latest(files[f], io[f], asked[f])

(* A read of a raw-sector file by one thread. *)
InFile(file, job) ==
  /\ job.step \in {"read", "load", "store"} => file.fd = "raw"
  /\ job.step = "read" => file.pos + job.size <= RawLength
  /\ job.step = "load" => job.at = file.pos /\ file.pos + job.size <= RawLength
  /\ job.step = "store" => job.at + job.size <= RawLength

(* The position of a file that main and a worker have not both touched     *)
(* since the last seek in peace.                                           *)
Alone(f) ==
  f \notin raced =>
    /\ files[f].fd = "raw" /\ io[f].step # "place" => files[f].pos <= RawLength
    /\ InFile(files[f], io[f])
    /\ InCall(io[Main], f, RawStep) => ~files[f].isAsync /\ InFile(files[f], io[Main])

FilesInv == Types /\ \A f \in Files : Orderly(f) /\ Alone(f)

-----------------------------------------------------------------------------
(* What the invariant says *)

LEMMA FilesApart == Main \notin Files /\ 1 \in Files /\ Files \subseteq Nat
BY FilesAssumption DEF Main, Files

LEMMA StepsApart ==
  /\ WorkerSteps \subseteq Steps /\ MainSteps \subseteq Steps /\ RawStep \subseteq WorkerSteps
BY DEF WorkerSteps, MainSteps, RawStep, Steps

LEMMA InvTypes ==
  ASSUME FilesInv
  PROVE  ATypeOK
<1>1. ASSUME NEW f \in Files, Free(f), Accepts(files[f]) PROVE files[f].fd # "closed"
  <2>1. Orderly(f) /\ io[Main].step = "idle" /\ files[f].active
    BY <1>1 DEF FilesInv, Free, At
  <2>2. ~files[f].isAsync /\ ~files[f].done
    BY <1>1 DEF Accepts
  <2> QED
    BY <2>1, <2>2 DEF Orderly, Explained, Tidy, InCall
<1>2. BusyWithWorker
  <2>1. ASSUME NEW f \in Files
        PROVE  /\ files[f].isAsync = AtWork(f)
               /\ files[f].isAsync => files[f].active /\ ~files[f].done
    BY DEF FilesInv, Types, File, Orderly, Matched, Tidy, AtWork, At, Working
  <2> QED
    BY <2>1 DEF BusyWithWorker
<1>3. WorkersJoinedOnce
  <2>1. ASSUME NEW f \in Files
        PROVE  ~At(f, "idle") <=> (files[f].valid \/ (At(Main, "join") /\ io[Main].file = f))
    BY DEF FilesInv, Orderly, Matched, At, InCall
  <2> QED
    BY <2>1 DEF WorkersJoinedOnce
<1> QED
  BY <1>1, <1>2, <1>3 DEF FilesInv, Types, ATypeOK

LEMMA InvReads ==
  ASSUME FilesInv
  PROVE  RawReadsInFile
<1>1. ASSUME NEW t \in Files \cup {Main}, At(t, "load"), io[t].file \notin raced
      PROVE  io[t].at + io[t].size <= RawLength
  <2> DEFINE f == io[t].file
  <2>1. f \in Files
    BY DEF FilesInv, Types, Job
  <2>2. Orderly(f) /\ Alone(f)
    BY <2>1 DEF FilesInv
  <2>3. CASE t = Main
    BY <1>1, <2>2, <2>3 DEF Alone, InCall, RawStep, InFile, At
  <2>4. CASE t \in Files
    <3>1. f = t
      BY <1>1, <2>4 DEF FilesInv, Orderly, Matched, At
    <3> QED
      BY <1>1, <2>2, <3>1 DEF Alone, InFile, At
  <2> QED
    BY <2>3, <2>4
<1> QED
  BY <1>1 DEF RawReadsInFile

LEMMA InitFiles ==
  ASSUME AInit
  PROVE  FilesInv
<1>1. NoFile \in File /\ Idle \in Job
  BY FilesApart DEF NoFile, File, Kinds, Result, Idle, Job, Steps
<1>2. Types
  BY <1>1 DEF AInit, Types, MainSteps, Idle
<1>3. ASSUME NEW f \in Files PROVE Orderly(f) /\ Alone(f)
  <2>1. files[f] = NoFile /\ io[f] = Idle /\ io[Main] = Idle /\ asked[f] = 0
    BY DEF AInit
  <2>2. Orderly(f)
    BY <2>1 DEF Orderly, Matched, Tidy, Explained, Latest, InCall, Working, WorkerSteps,
                NoFile, Idle
  <2>3. Alone(f)
    BY <2>1 DEF Alone, InFile, InCall, RawStep, NoFile, Idle
  <2> QED
    BY <2>2, <2>3
<1> QED
  BY <1>2, <1>3 DEF FilesInv

-----------------------------------------------------------------------------
(* Steps on one descriptor *)

(* main is in no call on another descriptor than f. *)
OnlyOn(main, f) == main.step = "idle" \/ main.file = f

OthersStay(f) ==
  /\ \A g \in Files \ {f} :
       /\ files'[g] = files[g] /\ io'[g] = io[g] /\ asked'[g] = asked[g]
       /\ g \in raced' <=> g \in raced
  /\ \/ io'[Main] = io[Main]
     \/ OnlyOn(io[Main], f) /\ OnlyOn(io'[Main], f)

LEMMA StepAt ==
  ASSUME FilesInv, Types', NEW f \in Files, OthersStay(f), Orderly(f)', Alone(f)'
  PROVE  FilesInv'
<1>1. ASSUME NEW g \in Files, g # f PROVE Orderly(g)' /\ Alone(g)'
  <2>1. Orderly(g) /\ Alone(g)
    BY DEF FilesInv
  <2>2. files'[g] = files[g] /\ io'[g] = io[g] /\ asked'[g] = asked[g] /\ (g \in raced' <=> g \in raced)
    BY <1>1 DEF OthersStay
  <2>3. CASE io'[Main] = io[Main]
    BY <2>1, <2>2, <2>3 DEF Orderly, Alone
  <2>4. CASE OnlyOn(io[Main], f) /\ OnlyOn(io'[Main], f)
    <3>1. \A S \in {{"join"}, {"close"}, {"release"}, {"join", "release"}, RawStep} :
             ~InCall(io[Main], g, S) /\ ~InCall(io'[Main], g, S)
      BY <1>1, <2>4 DEF OnlyOn, InCall, RawStep
    <3>2. Orderly(g)'
      BY <2>1, <2>2, <3>1 DEF Orderly, Matched, Tidy, Explained
    <3>3. Alone(g)'
      BY <2>1, <2>2, <3>1 DEF Alone
    <3> QED
      BY <3>2, <3>3
  <2> QED
    BY <2>3, <2>4 DEF OthersStay
<1>2. \A g \in Files : Orderly(g)' /\ Alone(g)'
  BY <1>1
<1> QED
  BY <1>2 DEF FilesInv

LEMMA FirstFileIs ==
  ASSUME FilesInv, Unused # {}
  PROVE  /\ FirstFile \in Files /\ ~files[FirstFile].active
         /\ files[FirstFile] \in File
<1>1. Unused \in SUBSET Nat
  BY FilesApart DEF Unused
<1>2. \E f \in Unused : \A g \in Unused : f <= g
  <2>1. PICK f \in Unused : \A g \in Unused : ~ (<<g, f>> \in OpToRel(<, Nat))
    BY <1>1, NatLessThanWellFounded, WFMin
  <2>2. \A g \in Unused : ~ (g < f) /\ f \in Nat /\ g \in Nat
    BY <1>1, <2>1 DEF OpToRel
  <2> QED
    BY <2>2
<1>3. FirstFile \in Unused
  BY <1>2 DEF FirstFile
<1> QED
  BY <1>3 DEF Unused, FilesInv, Types

LEMMA OpenFileKeeps ==
  ASSUME FilesInv, NEW fd \in {"host", "raw"}, OpenFile(fd)
  PROVE  FilesInv'
<1>1. PICK f \in Files : f = FirstFile /\ ~files[f].active /\ files[f] \in File
  BY FirstFileIs DEF OpenFile
<1> DEFINE file == [Opened(files[f], fd) EXCEPT
                      !.active = (fd # "closed"), !.isAsync = FALSE, !.opening = FALSE]
<1>2. /\ At(Main, "idle") /\ files' = [files EXCEPT ![f] = file]
      /\ UNCHANGED <<io, asked, got, raced>>
  BY <1>1 DEF OpenFile, Set
<1>3. /\ file \in File /\ file.active /\ file.fd = fd /\ file.pos = 0 /\ ~file.isAsync
      /\ ~file.opening
      /\ file.done = files[f].done /\ file.valid = files[f].valid /\ file.result = files[f].result
  BY <1>1 DEF Opened, File, Kinds
<1> HIDE DEF file
<1>4. Types'
  BY <1>2, <1>3 DEF FilesInv, Types
<1>5. OthersStay(f)
  BY <1>2 DEF OthersStay, FilesInv, Types
<1>6. files'[f] = file /\ io' = io /\ asked' = asked /\ raced' = raced
  BY <1>2 DEF FilesInv, Types
<1>7. Orderly(f) /\ Alone(f)
  BY DEF FilesInv
<1>8. ~files[f].isAsync /\ ~files[f].valid /\ ~files[f].done
  BY <1>1, <1>7 DEF Orderly, Tidy
<1>9. io[f].step = "idle" /\ io[Main].step = "idle"
  BY <1>2, <1>7, <1>8 DEF At, Orderly, Matched, InCall
<1>10. Orderly(f)'
  BY <1>3, <1>6, <1>7, <1>8, <1>9
  DEF Orderly, Matched, Tidy, Explained, Latest, InCall, Working
<1>11. Alone(f)'
  BY <1>3, <1>6, <1>9, ImageAssumption DEF Alone, InCall, InFile, RawStep
<1> QED
  BY <1>4, <1>5, <1>10, <1>11, StepAt

(* An idle descriptor has no worker. *)
LEMMA NoWorker ==
  ASSUME FilesInv, NEW f \in Files, io[Main].step # "join",
         ~files[f].isAsync, ~files[f].done
  PROVE  io[f].step = "idle" /\ ~files[f].valid /\ ~files[f].opening
<1>1. Orderly(f)
  BY DEF FilesInv
<1> QED
  BY <1>1 DEF Orderly, Matched, Tidy, InCall

LEMMA StartedType ==
  ASSUME NEW file \in File, NEW opening \in BOOLEAN
  PROVE  LET x == Started(file, opening)
         IN  /\ x \in File /\ x.active /\ x.isAsync /\ ~x.done /\ x.valid
             /\ x.opening = opening /\ x.fd = file.fd /\ x.pos = file.pos
BY DEF Started, File, Result

LEMMA StartWorkerIs ==
  ASSUME FilesInv, NEW f \in Files, NEW step \in {"open", "request"}, NEW size \in Nat,
         StartWorker(f, step, size)
  PROVE  /\ asked' \in [Files -> Nat] /\ io' \in [Files \cup {Main} -> Job]
         /\ asked'[f] = asked[f] + 1
         /\ io'[f].step = step /\ io'[f].file = f /\ io'[f].of = asked[f] + 1
         /\ io'[Main] = io[Main]
         /\ \A g \in Files \ {f} : io'[g] = io[g] /\ asked'[g] = asked[g]
<1> DEFINE job == [step |-> step, file |-> f, of |-> asked[f] + 1, size |-> size,
                   at |-> 0, ok |-> TRUE]
<1>1. asked \in [Files -> Nat] /\ io \in [Files \cup {Main} -> Job]
  BY DEF FilesInv, Types
<1>2. job \in Job /\ job.step = step /\ job.file = f /\ job.of = asked[f] + 1
  BY <1>1 DEF Job, Steps
<1>3. io' = [io EXCEPT ![f] = job] /\ asked' = [asked EXCEPT ![f] = @ + 1]
  BY DEF StartWorker
<1> HIDE DEF job
<1> QED
  BY <1>1, <1>2, <1>3, FilesApart

LEMMA OpenAsyncKeeps ==
  ASSUME FilesInv, OpenAsync
  PROVE  FilesInv'
<1>1. PICK f \in Files : f = FirstFile /\ ~files[f].active /\ files[f] \in File
  BY FirstFileIs DEF OpenAsync
<1> DEFINE old == [files[f] EXCEPT !.fd = "closed"]
           file == Started(old, TRUE)
<1>2. /\ At(Main, "idle") /\ files' = [files EXCEPT ![f] = file]
      /\ StartWorker(f, "open", 0) /\ UNCHANGED <<got, raced>>
  BY <1>1 DEF OpenAsync, Requesting, Set
<1>3. old \in File /\ old.fd = "closed"
  BY <1>1 DEF File, Kinds
<1> HIDE DEF old
<1>4. /\ file \in File /\ file.active /\ file.isAsync /\ ~file.done /\ file.valid
      /\ file.opening /\ file.fd = "closed"
  BY <1>3, StartedType
<1> HIDE DEF file
<1>5. /\ asked' \in [Files -> Nat] /\ io' \in [Files \cup {Main} -> Job]
      /\ asked'[f] = asked[f] + 1
      /\ io'[f].step = "open" /\ io'[f].file = f /\ io'[f].of = asked[f] + 1
      /\ io'[Main] = io[Main]
      /\ \A g \in Files \ {f} : io'[g] = io[g] /\ asked'[g] = asked[g]
  BY <1>2, StartWorkerIs
<1>6. Types'
  BY <1>2, <1>4, <1>5 DEF FilesInv, Types
<1>7. OthersStay(f)
  BY <1>2, <1>5 DEF OthersStay, FilesInv, Types
<1>8. files'[f] = file /\ raced' = raced /\ io'[Main].step = "idle"
  BY <1>2, <1>5 DEF FilesInv, Types, At
<1>9. Orderly(f)'
  BY <1>4, <1>5, <1>8
  DEF Orderly, Matched, Tidy, Explained, Latest, InCall, Working, WorkerSteps
<1>10. Alone(f)'
  BY <1>4, <1>5, <1>8 DEF Alone, InCall, InFile, RawStep
<1> QED
  BY <1>6, <1>7, <1>9, <1>10, StepAt

LEMMA ReadAsyncKeeps ==
  ASSUME FilesInv, NEW f \in Files, NEW size \in Sizes, ReadAsync(f, size)
  PROVE  FilesInv'
<1> DEFINE file == Started(files[f], files[f].opening)
<1>1. /\ At(Main, "idle") /\ files[f].active /\ ~files[f].isAsync /\ ~files[f].done
      /\ files' = [files EXCEPT ![f] = file]
      /\ StartWorker(f, "request", size) /\ UNCHANGED <<got, raced>>
  BY DEF ReadAsync, Requesting, Accepts, Set
<1>2. files[f] \in File /\ files[f].opening \in BOOLEAN /\ size \in Nat /\ Orderly(f) /\ Alone(f)
  BY FilesAssumption DEF FilesInv, Types, File
<1>3. io[f].step = "idle" /\ ~files[f].valid /\ ~files[f].opening
  BY <1>1, NoWorker DEF At
<1>4. /\ file \in File /\ file.active /\ file.isAsync /\ ~file.done /\ file.valid
      /\ ~file.opening /\ file.fd = files[f].fd /\ file.pos = files[f].pos
  BY <1>2, <1>3, StartedType
<1> HIDE DEF file
<1>5. /\ asked' \in [Files -> Nat] /\ io' \in [Files \cup {Main} -> Job]
      /\ asked'[f] = asked[f] + 1
      /\ io'[f].step = "request" /\ io'[f].file = f /\ io'[f].of = asked[f] + 1
      /\ io'[Main] = io[Main]
      /\ \A g \in Files \ {f} : io'[g] = io[g] /\ asked'[g] = asked[g]
  BY <1>1, <1>2, StartWorkerIs
<1>6. Types'
  BY <1>1, <1>4, <1>5 DEF FilesInv, Types
<1>7. OthersStay(f)
  BY <1>1, <1>5 DEF OthersStay, FilesInv, Types
<1>8. files'[f] = file /\ raced' = raced /\ io'[Main].step = "idle" /\ io[Main].step = "idle"
  BY <1>1, <1>5 DEF FilesInv, Types, At
<1>9. files[f].fd # "closed"
  BY <1>1, <1>2, <1>3, <1>8 DEF Orderly, Explained, InCall
<1>10. Orderly(f)'
  BY <1>4, <1>5, <1>8, <1>9
  DEF Orderly, Matched, Tidy, Explained, Latest, InCall, Working, WorkerSteps, RawStep
<1>11. Alone(f)'
  BY <1>2, <1>3, <1>4, <1>5, <1>8 DEF Alone, InCall, InFile, RawStep
<1> QED
  BY <1>6, <1>7, <1>10, <1>11, StepAt

LEMMA LseekAsyncKeeps ==
  ASSUME FilesInv, NEW f \in Files, NEW pos \in 0 .. RawLength, LseekAsync(f, pos)
  PROVE  FilesInv'
<1>0. PICK at, done : /\ at = IF files[f].fd = "raw" THEN pos ELSE files[f].pos
                      /\ done = [of |-> asked[f] + 1, ok |-> TRUE]
  OBVIOUS
<1> DEFINE file == [files[f] EXCEPT !.done = TRUE, !.result = done, !.pos = at]
<1>1. /\ At(Main, "idle") /\ files[f].active /\ ~files[f].isAsync /\ ~files[f].done
      /\ files[f].fd # "closed"
      /\ files' = [files EXCEPT ![f] = file]
      /\ asked' = [asked EXCEPT ![f] = @ + 1]
      /\ raced' = raced \ {f} /\ UNCHANGED <<io, got>>
  BY <1>0 DEF LseekAsync, Requesting, Accepts, Set
<1>2. files[f] \in File /\ Orderly(f) /\ Alone(f) /\ asked[f] \in Nat /\ pos \in Nat
  BY ImageAssumption DEF FilesInv, Types
<1>3. io[f].step = "idle" /\ ~files[f].valid /\ ~files[f].opening /\ io[Main].step = "idle"
  BY <1>1, NoWorker DEF At
<1>4. /\ file \in File /\ file.active = files[f].active /\ file.isAsync = files[f].isAsync
      /\ file.done /\ file.valid = files[f].valid /\ file.opening = files[f].opening
      /\ file.fd = files[f].fd /\ file.result.of = asked[f] + 1
      /\ file.fd = "raw" => file.pos = pos
  <2>1. at \in Nat /\ done \in Result /\ done.of = asked[f] + 1
    BY <1>0, <1>2 DEF File, Result
  <2>2. files[f].fd = "raw" => at = pos
    BY <1>0
  <2> QED
    BY <1>2, <2>1, <2>2 DEF File
<1> HIDE DEF file
<1>5. Types'
  BY <1>1, <1>2, <1>4 DEF FilesInv, Types
<1>6. OthersStay(f)
  BY <1>1 DEF OthersStay, FilesInv, Types
<1>7. files'[f] = file /\ io' = io /\ asked'[f] = asked[f] + 1
  BY <1>1 DEF FilesInv, Types
<1>8. Orderly(f)'
  BY <1>1, <1>2, <1>3, <1>4, <1>7
  DEF Orderly, Matched, Tidy, Explained, Latest, InCall, Working
<1>9. Alone(f)'
  BY <1>3, <1>4, <1>7 DEF Alone, InCall, InFile, RawStep
<1> QED
  BY <1>5, <1>6, <1>8, <1>9, StepAt

(* main begins or ends a call on a descriptor. *)
LEMMA DoingType ==
  ASSUME NEW step \in Steps, NEW f \in Files, NEW ok \in BOOLEAN
  PROVE  /\ Doing(step, f, ok) \in Job
         /\ Doing(step, f, ok).step = step
         /\ step # "idle" => Doing(step, f, ok).file = f /\ Doing(step, f, ok).ok = ok
BY FilesApart DEF Doing, Idle, Job, Steps

LEMMA MainDoes ==
  ASSUME FilesInv, NEW job \in Job, Does(Main, job)
  PROVE  /\ io' \in [Files \cup {Main} -> Job]
         /\ io'[Main] = job /\ \A g \in Files : io'[g] = io[g]
BY FilesApart DEF FilesInv, Types, Does

LEMMA BeginsKeeps ==
  ASSUME FilesInv, NEW f \in Files, Free(f), NEW step \in {"wait", "close"},
         Does(Main, Doing(step, f, TRUE)), UNCHANGED <<files, asked, got, raced>>
  PROVE  FilesInv'
<1> DEFINE job == Doing(step, f, TRUE)
<1>1. job \in Job /\ job.step = step /\ job.file = f
  BY FilesApart DEF Doing, Idle, Job, Steps
<1> HIDE DEF job
<1>2. Does(Main, job)
  BY DEF job
<1>3. /\ io' \in [Files \cup {Main} -> Job]
      /\ io'[Main] = job /\ \A g \in Files : io'[g] = io[g]
  BY <1>1, <1>2, MainDoes
<1>4. Types'
  BY <1>1, <1>3 DEF FilesInv, Types, MainSteps
<1>5. Orderly(f) /\ Alone(f) /\ io[Main].step = "idle" /\ files[f].active
  BY DEF FilesInv, Free, At
<1>6. OthersStay(f)
  BY <1>1, <1>3, <1>5 DEF OthersStay, OnlyOn
<1>7. Orderly(f)'
  BY <1>1, <1>3, <1>5 DEF Orderly, Matched, Tidy, Explained, Latest, InCall
<1>8. Alone(f)'
  BY <1>1, <1>3, <1>5 DEF Alone, InCall, RawStep
<1> QED
  BY <1>4, <1>6, <1>7, <1>8, StepAt

(* A result is collected, from a call of its own or from sceIoWaitAsync.   *)
LEMMA CollectKeeps ==
  ASSUME FilesInv, NEW f \in Files, Collect(f), ~files[f].isAsync, files[f].done,
         \/ io[Main].step = "idle"
         \/ io[Main].step = "wait" /\ io[Main].file = f
  PROVE  FilesInv'
<1> DEFINE file == [files[f] EXCEPT !.done = FALSE, !.opening = FALSE, !.valid = FALSE]
           failed == FailedOpen(files[f])
           next == NextStep(files[f].valid, failed)
           job == Doing(next, f, ~failed)
<1>1. /\ files' = [files EXCEPT ![f] = file]
      /\ got' = [got EXCEPT ![f] = files[f].result.of]
      /\ Does(Main, job) /\ UNCHANGED <<asked, raced>>
  BY DEF Collect, Set
<1>2. files[f] \in File /\ Orderly(f) /\ Alone(f)
  BY DEF FilesInv, Types
<1>3. /\ file \in File /\ file.active = files[f].active /\ file.isAsync = files[f].isAsync
      /\ ~file.done /\ ~file.valid /\ ~file.opening
      /\ file.fd = files[f].fd /\ file.pos = files[f].pos
  BY <1>2 DEF File
<1> HIDE DEF file
<1>4. /\ failed \in BOOLEAN
      /\ failed <=> files[f].opening /\ ~files[f].result.ok
  BY DEF FailedOpen
<1> HIDE DEF failed
<1>5. /\ next \in {"join", "release", "idle"}
      /\ next = "join" <=> files[f].valid
      /\ next = "idle" => ~files[f].valid /\ ~failed
      /\ next = "release" => failed
  BY DEF NextStep
<1> HIDE DEF next
<1>6. /\ job \in Job /\ job.step = next
      /\ next # "idle" => job.file = f /\ job.ok = ~failed
  <2>1. next \in Steps /\ (~failed) \in BOOLEAN
    BY <1>5 DEF Steps
  <2> QED
    BY <2>1, DoingType, Zenon
<1> HIDE DEF job
<1>7. /\ io' \in [Files \cup {Main} -> Job]
      /\ io'[Main] = job /\ \A g \in Files : io'[g] = io[g]
  BY <1>1, <1>6, MainDoes
<1>8. files[f].result.of \in Nat
  BY <1>2 DEF File, Result
<1>9. Types'
  BY <1>1, <1>3, <1>5, <1>6, <1>7, <1>8 DEF FilesInv, Types, MainSteps
<1>10. OthersStay(f)
  BY <1>1, <1>5, <1>6, <1>7 DEF OthersStay, OnlyOn, FilesInv, Types
<1>11. files'[f] = file /\ asked' = asked /\ raced' = raced
  BY <1>1 DEF FilesInv, Types
<1>12. files[f].active /\ ~Working(io[f])
  BY <1>2 DEF Orderly, Tidy, Matched
<1>13. io[f].step # "idle" <=> files[f].valid
  BY <1>2 DEF Orderly, Matched, InCall
<1>14. Matched(f, file, io[f], job)
  BY <1>2, <1>3, <1>5, <1>6, <1>12, <1>13 DEF Orderly, Matched, InCall
<1>15. Tidy(f, file, job)
  BY <1>3, <1>5, <1>6, <1>12 DEF Tidy, InCall
<1>16. Explained(f, file, io[f], job)
  BY <1>2, <1>3, <1>4, <1>5, <1>6, <1>12, <1>13
  DEF Orderly, Explained, Tidy, InCall, Working
<1>17. Latest(file, io[f], asked[f])
  BY <1>3, <1>12 DEF Latest
<1>18. Orderly(f)'
  BY <1>7, <1>11, <1>14, <1>15, <1>16, <1>17 DEF Orderly
<1>19. Alone(f)'
  BY <1>2, <1>3, <1>5, <1>6, <1>7, <1>11 DEF Alone, InCall, InFile, RawStep
<1> QED
  BY <1>9, <1>10, <1>18, <1>19, StepAt

LEMMA ReadKeeps ==
  ASSUME FilesInv, NEW f \in Files, NEW size \in Sizes, Read(f, size)
  PROVE  FilesInv'
<1> DEFINE job == [Idle EXCEPT !.step = "request", !.file = f, !.size = size]
<1>1. /\ Free(f) /\ files[f].fd = "raw" /\ io' = [io EXCEPT ![Main] = job]
      /\ raced' = IF files[f].isAsync THEN raced \cup {f} ELSE raced
      /\ UNCHANGED <<files, asked, got>>
  BY DEF Read
<1>2. job \in Job /\ job.step = "request" /\ job.file = f
  BY FilesAssumption DEF Idle, Job, Steps
<1> HIDE DEF job
<1>3. /\ io' \in [Files \cup {Main} -> Job]
      /\ io'[Main] = job /\ \A g \in Files : io'[g] = io[g]
  BY <1>1, <1>2, MainDoes DEF Does
<1>4. Types'
  BY <1>1, <1>2, <1>3 DEF FilesInv, Types, MainSteps, RawStep
<1>5. Orderly(f) /\ Alone(f) /\ io[Main].step = "idle" /\ files[f].active
  BY <1>1 DEF FilesInv, Free, At
<1>6. OthersStay(f)
  BY <1>1, <1>2, <1>3, <1>5 DEF OthersStay, OnlyOn
<1>7. Orderly(f)'
  BY <1>1, <1>2, <1>3, <1>5 DEF Orderly, Matched, Tidy, Explained, Latest, InCall
<1>8. Alone(f)'
  BY <1>1, <1>2, <1>3, <1>5 DEF Alone, InCall, InFile
<1> QED
  BY <1>4, <1>6, <1>7, <1>8, StepAt

LEMMA LseekKeeps ==
  ASSUME FilesInv, NEW f \in Files, NEW pos \in 0 .. RawLength, Lseek(f, pos)
  PROVE  FilesInv'
<1> DEFINE file == [files[f] EXCEPT !.pos = pos]
<1>1. /\ Free(f) /\ files[f].fd = "raw" /\ files' = [files EXCEPT ![f] = file]
      /\ raced' = IF files[f].isAsync THEN raced \cup {f} ELSE raced \ {f}
      /\ UNCHANGED <<io, asked, got>>
  BY DEF Lseek, Set
<1>2. files[f] \in File /\ Orderly(f) /\ Alone(f) /\ pos \in Nat
  BY ImageAssumption DEF FilesInv, Types
<1>3. /\ file \in File /\ file.active = files[f].active /\ file.isAsync = files[f].isAsync
      /\ file.done = files[f].done /\ file.valid = files[f].valid
      /\ file.opening = files[f].opening /\ file.fd = files[f].fd
      /\ file.result = files[f].result /\ file.pos = pos
  BY <1>2 DEF File
<1> HIDE DEF file
<1>4. Types'
  BY <1>1, <1>3 DEF FilesInv, Types
<1>5. OthersStay(f)
  BY <1>1 DEF OthersStay, FilesInv, Types
<1>6. files'[f] = file /\ io[Main].step = "idle"
  BY <1>1 DEF FilesInv, Types, Free, At
<1>7. Orderly(f)'
  BY <1>1, <1>2, <1>3, <1>6 DEF Orderly, Matched, Tidy, Explained, Latest
<1>8. Alone(f)'
  <2>1. SUFFICES ASSUME ~files[f].isAsync PROVE Alone(f)'
    BY <1>1 DEF Alone
  <2>2. ~Working(io[f])
    BY <1>2, <2>1 DEF Orderly, Matched
  <2> QED
    BY <1>1, <1>3, <1>6, <2>2 DEF Alone, InCall, InFile, RawStep, Working
<1> QED
  BY <1>4, <1>5, <1>7, <1>8, StepAt

-----------------------------------------------------------------------------
(* The steps of the workers *)

(* Worker w goes from one step to the next. *)
LEMMA WorkerDoes ==
  ASSUME FilesInv, NEW w \in Files, NEW job \in Job, io' = [io EXCEPT ![w] = job]
  PROVE  /\ io' \in [Files \cup {Main} -> Job]
         /\ io'[Main] = io[Main] /\ io'[w] = job
         /\ \A g \in Files \ {w} : io'[g] = io[g]
BY FilesApart DEF FilesInv, Types

(* One of the two steps in which a worker opens a file. *)
LEMMA OpenStep ==
  ASSUME FilesInv, NEW w \in Files, io[w].step \in {"open", "place"},
         NEW file \in File, NEW step \in {"place", "report"}, NEW ok \in BOOLEAN,
         files' = [files EXCEPT ![w] = file],
         io' = [io EXCEPT ![w].step = step, ![w].ok = ok],
         UNCHANGED <<asked, got, raced>>,
         file.active = files[w].active, file.isAsync = files[w].isAsync,
         file.done = files[w].done, file.valid = files[w].valid,
         file.opening = files[w].opening, file.result = files[w].result,
         file.fd = "closed" => step = "report" /\ ~ok /\ io[w].step = "open",
         file.fd = "raw" => step = "place" \/ file.pos = 0,
         step = "place" => file.fd = "raw"
  PROVE  FilesInv'
<1>1. files[w] \in File /\ io[w] \in Job /\ Orderly(w) /\ Alone(w)
  BY DEF FilesInv, Types
<1> DEFINE job == [io[w] EXCEPT !.step = step, !.ok = ok]
<1>2. job \in Job /\ job.step = step /\ job.file = io[w].file /\ job.of = io[w].of /\ job.ok = ok
  BY <1>1 DEF Job, Steps
<1>3. io' = [io EXCEPT ![w] = job]
  BY <1>1 DEF FilesInv, Types
<1> HIDE DEF job
<1>4. /\ io' \in [Files \cup {Main} -> Job]
      /\ io'[Main] = io[Main] /\ io'[w] = job
      /\ \A g \in Files \ {w} : io'[g] = io[g]
  BY <1>2, <1>3, WorkerDoes
<1>5. Types'
  <2>1. files' \in [Files -> File]
    BY DEF FilesInv, Types
  <2>2. io'[Main].step \in MainSteps
    BY <1>4 DEF FilesInv, Types
  <2> QED
    BY <1>4, <2>1, <2>2 DEF FilesInv, Types
<1>6. OthersStay(w)
  BY <1>4 DEF OthersStay, FilesInv, Types
<1>7. files'[w] = file /\ asked' = asked /\ raced' = raced
  BY DEF FilesInv, Types
<1>8. files[w].isAsync
  BY <1>1 DEF Orderly, Matched, Working
<1>9. Orderly(w)'
  BY <1>1, <1>2, <1>4, <1>7
  DEF Orderly, Matched, Tidy, Explained, Latest, Working, WorkerSteps
<1>10. Alone(w)'
  BY <1>1, <1>2, <1>4, <1>7, <1>8, ImageAssumption DEF Alone, InFile
<1> QED
  BY <1>5, <1>6, <1>9, <1>10, StepAt

LEMMA OpenWorkKeeps ==
  ASSUME FilesInv, NEW w \in Files, OpenWork(w)
  PROVE  FilesInv'
<1>1. PICK fd \in Kinds :
        /\ io[w].step = "open"
        /\ files' = [files EXCEPT ![w] = [files[w] EXCEPT !.fd = fd,
                                              !.pos = IF fd = "host" THEN 0 ELSE @]]
        /\ io' = [io EXCEPT ![w].step = IF fd = "raw" THEN "place" ELSE "report",
                            ![w].ok = (fd # "closed")]
        /\ UNCHANGED <<asked, got, raced>>
  BY DEF OpenWork, Set, At
<1>2. PICK file, step, ok :
        /\ file = [files[w] EXCEPT !.fd = fd, !.pos = IF fd = "host" THEN 0 ELSE @]
        /\ step = IF fd = "raw" THEN "place" ELSE "report"
        /\ ok = (fd # "closed")
  OBVIOUS
<1>3. files[w] \in File
  BY DEF FilesInv, Types
<1>4. /\ file \in File /\ file.active = files[w].active /\ file.isAsync = files[w].isAsync
      /\ file.done = files[w].done /\ file.valid = files[w].valid
      /\ file.opening = files[w].opening /\ file.result = files[w].result /\ file.fd = fd
  BY <1>2, <1>3 DEF File
<1>5. step \in {"place", "report"} /\ ok \in BOOLEAN
  BY <1>2
<1>6. /\ files' = [files EXCEPT ![w] = file]
      /\ io' = [io EXCEPT ![w].step = step, ![w].ok = ok]
  BY <1>1, <1>2
<1>7. /\ io[w].step \in {"open", "place"}
      /\ file.fd = "closed" => step = "report" /\ ~ok /\ io[w].step = "open"
      /\ file.fd = "raw" => step = "place" \/ file.pos = 0
      /\ step = "place" => file.fd = "raw"
  BY <1>1, <1>2, <1>4
<1>8. UNCHANGED <<asked, got, raced>>
  BY <1>1
<1> QED
  BY ONLY FilesInv, w \in Files, <1>4, <1>5, <1>6, <1>7, <1>8, OpenStep

LEMMA PlacedKeeps ==
  ASSUME FilesInv, NEW w \in Files, Placed(w)
  PROVE  FilesInv'
<1> DEFINE file == [files[w] EXCEPT !.pos = 0]
<1>1. /\ io[w].step = "place" /\ files' = [files EXCEPT ![w] = file]
      /\ io' = [io EXCEPT ![w].step = "report"] /\ UNCHANGED <<asked, got, raced>>
  BY DEF Placed, Set, At
<1>2. files[w] \in File /\ io[w] \in Job /\ Orderly(w)
  BY DEF FilesInv, Types
<1>3. /\ file \in File /\ file.active = files[w].active /\ file.isAsync = files[w].isAsync
      /\ file.done = files[w].done /\ file.valid = files[w].valid /\ file.fd = files[w].fd
      /\ file.opening = files[w].opening /\ file.result = files[w].result /\ file.pos = 0
  BY <1>2 DEF File
<1>4. files[w].fd = "raw"
  BY <1>1, <1>2 DEF Orderly, Explained
<1>5. io' = [io EXCEPT ![w].step = "report", ![w].ok = io[w].ok] /\ io[w].ok \in BOOLEAN
  BY <1>1, <1>2 DEF Job, FilesInv, Types
<1> HIDE DEF file
<1> QED
  BY <1>1, <1>3, <1>4, <1>5, OpenStep

LEMMA ReadDoneIs ==
  ASSUME FilesInv, NEW w \in Files, NEW ok \in BOOLEAN, ReadDone(w, ok)
  PROVE  /\ io' \in [Files \cup {Main} -> Job]
         /\ io'[Main] = io[Main]
         /\ io'[w].step = "report" /\ io'[w].file = io[w].file /\ io'[w].of = io[w].of
         /\ io'[w].ok = ok
         /\ \A g \in Files \ {w} : io'[g] = io[g]
<1> DEFINE job == [io[w] EXCEPT !.step = "report", !.ok = ok, !.size = 0, !.at = 0]
<1>1. io[w] \in Job /\ w # Main
  BY FilesApart DEF FilesInv, Types
<1>2. io' = [io EXCEPT ![w] = job]
  BY <1>1 DEF ReadDone
<1>3. job \in Job /\ job.step = "report" /\ job.file = io[w].file /\ job.of = io[w].of /\ job.ok = ok
  BY <1>1 DEF Job, Steps
<1> HIDE DEF job
<1> QED
  BY <1>2, <1>3, WorkerDoes

(* A worker that only reports what became of its read. *)
LEMMA GivesUpKeeps ==
  ASSUME FilesInv, NEW w \in Files, NEW ok \in BOOLEAN, io[w].step \in RawStep,
         ReadDone(w, ok), UNCHANGED <<files, asked, got, raced>>
  PROVE  FilesInv'
<1>1. Orderly(w) /\ Alone(w)
  BY DEF FilesInv
<1>2. /\ io' \in [Files \cup {Main} -> Job]
      /\ io'[Main] = io[Main]
      /\ io'[w].step = "report" /\ io'[w].file = io[w].file /\ io'[w].of = io[w].of
      /\ \A g \in Files \ {w} : io'[g] = io[g]
  BY ReadDoneIs
<1>3. Types'
  BY <1>2 DEF FilesInv, Types
<1>4. OthersStay(w)
  BY <1>2 DEF OthersStay
<1>5. Orderly(w)'
  BY <1>1, <1>2
  DEF Orderly, Matched, Tidy, Explained, Latest, Working, WorkerSteps, RawStep
<1>6. Alone(w)'
  BY <1>1, <1>2 DEF Alone, InFile, RawStep
<1> QED
  BY <1>3, <1>4, <1>5, <1>6, StepAt

LEMMA ReadElsewhereKeeps ==
  ASSUME FilesInv, NEW w \in Files, ReadElsewhere(w)
  PROVE  FilesInv'
BY GivesUpKeeps DEF ReadElsewhere, At, RawStep

LEMMA ReportKeeps ==
  ASSUME FilesInv, NEW w \in Files, Report(w)
  PROVE  FilesInv'
<1> DEFINE job == [io[w] EXCEPT !.step = "over"]
<1>1. PICK result : result = [of |-> io[w].of, ok |-> io[w].ok]
  OBVIOUS
<1> DEFINE file == [files[w] EXCEPT !.isAsync = FALSE, !.done = TRUE, !.result = result]
<1>2. /\ io[w].step = "report" /\ files' = [files EXCEPT ![w] = file]
      /\ io' = [io EXCEPT ![w] = job] /\ UNCHANGED <<asked, got, raced>>
  BY <1>1 DEF Report, Set, Does, At
<1>3. files[w] \in File /\ io[w] \in Job /\ Orderly(w) /\ Alone(w)
  BY DEF FilesInv, Types
<1>4. result \in Result /\ result.of = io[w].of /\ result.ok = io[w].ok
  BY <1>1, <1>3 DEF Result, Job
<1>5. /\ file \in File /\ file.active = files[w].active /\ ~file.isAsync /\ file.done
      /\ file.valid = files[w].valid /\ file.opening = files[w].opening
      /\ file.fd = files[w].fd /\ file.pos = files[w].pos /\ file.result = result
  BY <1>3, <1>4 DEF File
<1> HIDE DEF file
<1>6. job \in Job /\ job.step = "over" /\ job.file = io[w].file
  BY <1>3 DEF Job, Steps
<1> HIDE DEF job
<1>7. /\ io' \in [Files \cup {Main} -> Job]
      /\ io'[Main] = io[Main] /\ io'[w] = job
      /\ \A g \in Files \ {w} : io'[g] = io[g]
  BY <1>2, <1>6, WorkerDoes
<1>8. Types'
  <2>1. files' \in [Files -> File]
    BY <1>2, <1>5 DEF FilesInv, Types
  <2>2. io'[Main].step \in MainSteps
    BY <1>7 DEF FilesInv, Types
  <2> QED
    BY <1>2, <1>7, <2>1, <2>2 DEF FilesInv, Types
<1>9. OthersStay(w)
  BY <1>2, <1>7 DEF OthersStay, FilesInv, Types
<1>10. files'[w] = file /\ asked' = asked /\ raced' = raced
  BY <1>2 DEF FilesInv, Types
<1>11. files[w].isAsync /\ files[w].valid /\ files[w].active
  BY <1>2, <1>3 DEF Orderly, Matched, Tidy, Working
<1>12. Matched(w, file, job, io[Main])
  BY <1>2, <1>3, <1>5, <1>6, <1>11 DEF Orderly, Matched, Working, WorkerSteps
<1>13. Tidy(w, file, io[Main])
  BY <1>3, <1>5, <1>11 DEF Orderly, Tidy, InCall
<1>14. Explained(w, file, job, io[Main])
  BY <1>2, <1>3, <1>4, <1>5, <1>6, <1>11 DEF Orderly, Explained, Tidy
<1>15. Latest(file, job, asked[w])
  BY <1>2, <1>3, <1>4, <1>5, <1>6 DEF Orderly, Latest, Working
<1>16. Orderly(w)'
  BY <1>7, <1>10, <1>12, <1>13, <1>14, <1>15 DEF Orderly
<1>17. Alone(w)'
  BY <1>2, <1>3, <1>5, <1>6, <1>7, <1>10, <1>11 DEF Alone, InFile
<1> QED
  BY <1>8, <1>9, <1>16, <1>17, StepAt

-----------------------------------------------------------------------------
(* The steps of a raw-sector read, by a worker or by main *)

NextSteps(t) == RawStep \cup (IF t = Main THEN {"idle"} ELSE {"report"})

(* A thread in a read goes on or ends it; the position may move.           *)
Reads(t, f, job, pos) ==
  /\ io[t].step \in RawStep /\ io[t].file = f
  /\ job.step \in NextSteps(t)
  /\ job.step # "idle" => job.file = f
  /\ job.of = io[t].of \/ t = Main
  /\ io' = [io EXCEPT ![t] = job]
  /\ files' = [files EXCEPT ![f] = [files[f] EXCEPT !.pos = pos]]
  /\ UNCHANGED <<asked, got, raced>>
  /\ InFile(files[f], io[t]) /\ (files[f].fd = "raw" => files[f].pos <= RawLength) =>
       /\ InFile([files[f] EXCEPT !.pos = pos], job)
       /\ files[f].fd = "raw" => pos <= RawLength

LEMMA ReadsKeep ==
  ASSUME FilesInv, NEW t \in Files \cup {Main}, NEW f, NEW job \in Job, NEW pos \in Nat,
         Reads(t, f, job, pos)
  PROVE  FilesInv'
<1>0. /\ io[t].step \in RawStep /\ io[t].file = f
      /\ job.step \in NextSteps(t)
      /\ job.step # "idle" => job.file = f
      /\ job.of = io[t].of \/ t = Main
      /\ io' = [io EXCEPT ![t] = job]
      /\ files' = [files EXCEPT ![f] = [files[f] EXCEPT !.pos = pos]]
      /\ UNCHANGED <<asked, got, raced>>
      /\ InFile(files[f], io[t]) /\ (files[f].fd = "raw" => files[f].pos <= RawLength) =>
           /\ InFile([files[f] EXCEPT !.pos = pos], job)
           /\ files[f].fd = "raw" => pos <= RawLength
  BY DEF Reads
<1> DEFINE file == [files[f] EXCEPT !.pos = pos]
<1>1. f \in Files /\ io[t] \in Job /\ files[f] \in File
  BY <1>0 DEF FilesInv, Types, Job
<1>2. /\ file \in File /\ file.active = files[f].active /\ file.isAsync = files[f].isAsync
      /\ file.done = files[f].done /\ file.valid = files[f].valid
      /\ file.opening = files[f].opening /\ file.fd = files[f].fd
      /\ file.result = files[f].result /\ file.pos = pos
  BY <1>0, <1>1 DEF File
<1>3. /\ files' = [files EXCEPT ![f] = file]
      /\ f \notin raced => (InFile(files[f], io[t]) /\ (files[f].fd = "raw" => files[f].pos <= RawLength) =>
           InFile(file, job) /\ (file.fd = "raw" => file.pos <= RawLength))
  BY <1>0, <1>2
<1> HIDE DEF file
<1>4. files'[f] = file /\ asked' = asked /\ raced' = raced /\ Orderly(f) /\ Alone(f)
  BY <1>0, <1>1, <1>3 DEF FilesInv, Types
<1>5. CASE t = Main
  <2>1. job.step \in RawStep \cup {"idle"}
    BY <1>0, <1>5 DEF NextSteps
  <2>2. io' = [io EXCEPT ![Main] = job]
    BY <1>0, <1>5
  <2>3. /\ io' \in [Files \cup {Main} -> Job]
        /\ io'[Main] = job /\ \A g \in Files : io'[g] = io[g]
    BY <1>0, <2>2, MainDoes DEF Does
  <2>4. Types'
    <3>1. files' \in [Files -> File]
      BY <1>0, <1>2, <1>3 DEF FilesInv, Types
    <3>2. io'[Main].step \in MainSteps
      BY <1>0, <2>1, <2>3 DEF MainSteps
    <3> QED
      BY <1>0, <2>3, <3>1, <3>2 DEF FilesInv, Types
  <2>5. OthersStay(f)
    BY <1>0, <1>3, <1>5, <2>3 DEF OthersStay, OnlyOn, FilesInv, Types
  <2>6. io[Main].step \in RawStep /\ InCall(io[Main], f, RawStep)
    BY <1>0, <1>5 DEF InCall
  <2>7. \A S \in {{"join"}, {"close"}, {"release"}, {"join", "release"}} :
          ~InCall(io[Main], f, S) /\ ~InCall(job, f, S)
    BY <1>0, <2>1, <2>6 DEF InCall, RawStep
  <2>8. Orderly(f)'
    BY <1>0, <1>1, <1>2, <1>4, <2>3, <2>7 DEF Orderly, Matched, Tidy, Explained, Latest
  <2>9. Alone(f)'
    <3>1. SUFFICES ASSUME f \notin raced PROVE Alone(f)'
      BY <1>0, <1>4 DEF Alone
    <3>2. ~files[f].isAsync /\ InFile(files[f], io[Main])
      BY <1>0, <1>4, <2>6, <3>1 DEF Alone
    <3>3. ~Working(io[f])
      BY <1>0, <1>4, <3>2 DEF Orderly, Matched
    <3>4. InFile(file, io[f])
      BY <1>0, <3>3 DEF InFile, Working
    <3>5. InFile(file, job) /\ (file.fd = "raw" => file.pos <= RawLength)
      BY <1>0, <1>3, <1>4, <1>5, <3>1, <3>2, <3>3 DEF Alone, Working
    <3> QED
      BY <1>0, <1>1, <1>2, <1>4, <2>3, <3>2, <3>4, <3>5 DEF Alone
  <2> QED
    BY <1>0, <1>1, <2>4, <2>5, <2>8, <2>9, StepAt
<1>6. CASE t \in Files /\ t # Main
  <2>1. Orderly(t) /\ t = f /\ job.step \in RawStep \cup {"report"}
    BY <1>0, <1>6 DEF FilesInv, Orderly, Matched, NextSteps, RawStep
  <2>2. /\ io' \in [Files \cup {Main} -> Job]
        /\ io'[Main] = io[Main] /\ io'[f] = job
        /\ \A g \in Files \ {f} : io'[g] = io[g]
    BY <1>0, <1>1, <2>1, WorkerDoes
  <2>3. Types'
    <3>1. files' \in [Files -> File]
      BY <1>0, <1>2, <1>3 DEF FilesInv, Types
    <3>2. io'[Main].step \in MainSteps
      BY <1>0, <2>2 DEF FilesInv, Types
    <3> QED
      BY <1>0, <2>2, <3>1, <3>2 DEF FilesInv, Types
  <2>4. OthersStay(f)
    BY <1>0, <1>3, <2>2 DEF OthersStay, FilesInv, Types
  <2>5. job.file = f /\ job.of = io[f].of /\ io[f].step \in RawStep
    BY <1>0, <1>6, <2>1 DEF RawStep
  <2>6. Working(job) /\ Working(io[f]) /\ files[f].isAsync
    BY <1>0, <1>4, <2>1, <2>5 DEF Working, RawStep, Orderly, Matched
  <2>7. Orderly(f)'
    <3>1. Matched(f, file, job, io[Main])
      BY <1>1, <1>2, <1>4, <2>1, <2>5, <2>6 DEF Orderly, Matched, RawStep, WorkerSteps
    <3>2. Tidy(f, file, io[Main])
      BY <1>2, <1>4 DEF Orderly, Tidy
    <3>3. Explained(f, file, job, io[Main])
      BY <1>2, <1>4, <2>1, <2>5 DEF Orderly, Explained, RawStep
    <3>4. Latest(file, job, asked[f])
      BY <1>2, <1>4, <2>5, <2>6 DEF Orderly, Latest
    <3> QED
      BY <1>4, <2>2, <3>1, <3>2, <3>3, <3>4 DEF Orderly
  <2>8. Alone(f)'
    <3>1. SUFFICES ASSUME f \notin raced PROVE Alone(f)'
      BY <1>0, <1>4 DEF Alone
    <3>2. ~InCall(io[Main], f, RawStep)
      BY <1>0, <1>4, <2>6, <3>1 DEF Alone
    <3>3. InFile(file, job) /\ (file.fd = "raw" => file.pos <= RawLength)
      BY <1>0, <1>3, <1>4, <2>1, <2>5, <3>1 DEF Alone, RawStep
    <3> QED
      BY <1>0, <1>4, <2>2, <3>2, <3>3 DEF Alone
  <2> QED
    BY <1>0, <1>1, <2>3, <2>4, <2>7, <2>8, StepAt
<1> QED
  BY <1>0, <1>5, <1>6

LEMMA ClippedIs ==
  ASSUME NEW size \in Nat, NEW pos \in Nat
  PROVE  /\ Clipped(size, pos) \in Nat
         /\ pos <= RawLength => pos + Clipped(size, pos) <= RawLength
BY ImageAssumption DEF Clipped

(* The slot when its position stays. *)
LEMMA SamePosition ==
  ASSUME FilesInv, NEW f \in Files
  PROVE  /\ files[f].pos \in Nat
         /\ [files[f] EXCEPT !.pos = files[f].pos] = files[f]
         /\ [files EXCEPT ![f] = files[f]] = files
BY DEF FilesInv, Types, File

LEMMA RawRequestKeeps ==
  ASSUME FilesInv, NEW t \in Files \cup {Main}, RawRequest(t)
  PROVE  FilesInv'
<1> DEFINE f == io[t].file
           job == [io[t] EXCEPT !.step = "read", !.size = Clipped(io[t].size, files[f].pos)]
<1>1. /\ io[t].step = "request" /\ files[f].fd = "raw" /\ io' = [io EXCEPT ![t] = job]
      /\ UNCHANGED <<files, asked, got, raced>>
  BY DEF RawRequest, At, FilesInv, Types
<1>2. f \in Files /\ io[t] \in Job /\ io[t].size \in Nat
  BY DEF FilesInv, Types, Job
<1>3. files[f].pos \in Nat /\ files' = [files EXCEPT ![f] = [files[f] EXCEPT !.pos = files[f].pos]]
      /\ [files[f] EXCEPT !.pos = files[f].pos] = files[f]
  BY <1>1, <1>2, SamePosition
<1>4. /\ Clipped(io[t].size, files[f].pos) \in Nat
      /\ files[f].pos <= RawLength =>
           files[f].pos + Clipped(io[t].size, files[f].pos) <= RawLength
  BY <1>2, <1>3, ClippedIs
<1>5. /\ job \in Job /\ job.step = "read" /\ job.file = f /\ job.of = io[t].of
      /\ job.size = Clipped(io[t].size, files[f].pos)
  BY <1>2, <1>4 DEF Job, Steps
<1> HIDE DEF job
<1>6. (files[f].fd = "raw" => files[f].pos <= RawLength) => InFile(files[f], job)
  BY <1>1, <1>4, <1>5 DEF InFile
<1>7. job.step \in NextSteps(t) /\ io[t].step \in RawStep
  BY <1>1, <1>5 DEF NextSteps, RawStep
<1> HIDE DEF f
<1>8. f = io[t].file
  BY DEF f
<1>9. Reads(t, f, job, files[f].pos)
  BY <1>1, <1>3, <1>5, <1>6, <1>7, <1>8 DEF Reads
<1> QED
  BY <1>3, <1>5, <1>9, ReadsKeep

(* The job of a thread whose read is over. *)
LEMMA ReadOver ==
  ASSUME FilesInv, NEW t \in Files \cup {Main}, NEW ok \in BOOLEAN, ReadDone(t, ok)
  PROVE  \E job \in Job :
           /\ io' = [io EXCEPT ![t] = job]
           /\ job.step = IF t = Main THEN "idle" ELSE "report"
           /\ t # Main => job.file = io[t].file /\ job.of = io[t].of
<1> DEFINE over == [io[t] EXCEPT !.step = "report", !.ok = ok, !.size = 0, !.at = 0]
<1>1. io[t] \in Job /\ io' = [io EXCEPT ![t] = IF t = Main THEN Idle ELSE over]
  BY DEF FilesInv, Types, ReadDone
<1>2. over \in Job /\ over.step = "report" /\ over.file = io[t].file /\ over.of = io[t].of
  BY <1>1 DEF Job, Steps
<1>3. Idle \in Job /\ Idle.step = "idle"
  BY FilesApart DEF Idle, Job, Steps
<1> HIDE DEF over
<1> QED
  BY <1>1, <1>2, <1>3

(* A step that moves no position. *)
LEMMA ReadsInPlace ==
  ASSUME FilesInv, NEW t \in Files \cup {Main}, NEW job \in Job,
         io[t].step \in RawStep, job.step \in NextSteps(t),
         job.step # "idle" => job.file = io[t].file,
         job.of = io[t].of \/ t = Main,
         io' = [io EXCEPT ![t] = job],
         UNCHANGED <<files, asked, got, raced>>,
         InFile(files[io[t].file], io[t]) => InFile(files[io[t].file], job)
  PROVE  FilesInv'
<1>1. PICK f \in Files : f = io[t].file
  BY DEF FilesInv, Types, Job
<1>2. /\ files[f].pos \in Nat
      /\ [files[f] EXCEPT !.pos = files[f].pos] = files[f]
      /\ [files EXCEPT ![f] = files[f]] = files
  BY SamePosition
<1>3. Reads(t, f, job, files[f].pos)
  BY <1>1, <1>2 DEF Reads
<1> QED
  BY <1>2, <1>3, ReadsKeep

LEMMA RawReadKeeps ==
  ASSUME FilesInv, NEW t \in Files \cup {Main}, RawRead(t)
  PROVE  FilesInv'
<1>1. PICK f \in Files : f = io[t].file
  BY DEF FilesInv, Types, Job
<1>2. io[t].step = "read" /\ UNCHANGED <<files, asked, got, raced>>
  BY DEF RawRead, At
<1>3. io[t] \in Job /\ files[f].pos \in Nat /\ io[t].step \in RawStep
  BY <1>2, SamePosition DEF FilesInv, Types, RawStep
<1>4. CASE io' = [io EXCEPT ![t].step = "load", ![t].at = files[f].pos]
  <2> DEFINE job == [io[t] EXCEPT !.step = "load", !.at = files[f].pos]
  <2>1. /\ job \in Job /\ job.step = "load" /\ job.at = files[f].pos /\ job.file = io[t].file
        /\ job.of = io[t].of /\ job.size = io[t].size
    BY <1>3 DEF Job, Steps
  <2>2. io' = [io EXCEPT ![t] = job]
    BY <1>4 DEF FilesInv, Types
  <2> HIDE DEF job
  <2>3. InFile(files[f], io[t]) => InFile(files[f], job)
    BY <1>2, <2>1 DEF InFile
  <2>4. job.step \in NextSteps(t)
    BY <2>1 DEF NextSteps, RawStep
  <2> QED
    BY <1>1, <1>2, <1>3, <2>1, <2>2, <2>3, <2>4, ReadsInPlace
<1>5. CASE ReadDone(t, FALSE)
  <2>1. PICK job \in Job :
           /\ io' = [io EXCEPT ![t] = job]
           /\ job.step = IF t = Main THEN "idle" ELSE "report"
           /\ t # Main => job.file = io[t].file /\ job.of = io[t].of
    BY <1>5, ReadOver
  <2>2. InFile(files[f], job) /\ job.step \in NextSteps(t)
    BY <2>1 DEF InFile, NextSteps
  <2> QED
    BY <1>1, <1>2, <1>3, <2>1, <2>2, ReadsInPlace
<1> QED
  BY <1>1, <1>4, <1>5 DEF RawRead

LEMMA RawLoadKeeps ==
  ASSUME FilesInv, NEW t \in Files \cup {Main}, RawLoad(t)
  PROVE  FilesInv'
<1>1. PICK f \in Files : f = io[t].file
  BY DEF FilesInv, Types, Job
<1> DEFINE job == [io[t] EXCEPT !.step = "store", !.at = files[f].pos]
<1>2. /\ io[t].step = "load" /\ io' = [io EXCEPT ![t] = job]
      /\ UNCHANGED <<files, asked, got, raced>>
  BY <1>1 DEF RawLoad, At, FilesInv, Types
<1>3. io[t] \in Job /\ files[f].pos \in Nat /\ io[t].step \in RawStep
  BY <1>2, SamePosition DEF FilesInv, Types, RawStep
<1>4. /\ job \in Job /\ job.step = "store" /\ job.at = files[f].pos /\ job.file = io[t].file
      /\ job.of = io[t].of /\ job.size = io[t].size
  BY <1>3 DEF Job, Steps
<1> HIDE DEF job
<1>5. InFile(files[f], io[t]) => InFile(files[f], job)
  BY <1>2, <1>4 DEF InFile
<1>6. job.step \in NextSteps(t)
  BY <1>4 DEF NextSteps, RawStep
<1> QED
  BY <1>1, <1>2, <1>3, <1>4, <1>5, <1>6, ReadsInPlace

LEMMA RawStoreKeeps ==
  ASSUME FilesInv, NEW t \in Files \cup {Main}, RawStore(t)
  PROVE  FilesInv'
<1>1. PICK f \in Files : f = io[t].file
  BY DEF FilesInv, Types, Job
<1>2. PICK pos : pos = io[t].at + io[t].size
  OBVIOUS
<1>3. /\ io[t].step = "store" /\ files' = [files EXCEPT ![f] = [files[f] EXCEPT !.pos = pos]]
      /\ ReadDone(t, TRUE) /\ UNCHANGED <<asked, got, raced>>
  BY <1>1, <1>2 DEF RawStore, At, Set
<1>4. io[t] \in Job /\ files[f] \in File /\ io[t].step \in RawStep
  BY <1>3 DEF FilesInv, Types, RawStep
<1>5. pos \in Nat
  BY <1>2, <1>4 DEF Job
<1>6. PICK job \in Job :
         /\ io' = [io EXCEPT ![t] = job]
         /\ job.step = IF t = Main THEN "idle" ELSE "report"
         /\ t # Main => job.file = io[t].file /\ job.of = io[t].of
  BY <1>3, ReadOver
<1>7. InFile([files[f] EXCEPT !.pos = pos], job) /\ job.step \in NextSteps(t)
  BY <1>6 DEF InFile, NextSteps
<1>8. InFile(files[f], io[t]) => pos <= RawLength
  BY <1>2, <1>3 DEF InFile
<1>9. Reads(t, f, job, pos)
  BY <1>1, <1>3, <1>4, <1>6, <1>7, <1>8 DEF Reads
<1> QED
  BY <1>5, <1>9, ReadsKeep

-----------------------------------------------------------------------------
(* main at the end of a call *)

LEMMA WokenKeeps ==
  ASSUME FilesInv, Woken
  PROVE  FilesInv'
<1>1. PICK f \in Files : f = io[Main].file
  BY DEF FilesInv, Types, Job
<1>2. io[Main].step = "wait" /\ ~files[f].isAsync
  BY <1>1 DEF Woken, At
<1>3. CASE files[f].done
  BY <1>1, <1>2, <1>3, CollectKeeps DEF Woken
<1>4. CASE ~files[f].done
  <2>1. Does(Main, Idle) /\ UNCHANGED <<files, asked, got, raced>>
    BY <1>1, <1>4 DEF Woken
  <2>2. Idle \in Job /\ Idle.step = "idle"
    BY FilesApart DEF Idle, Job, Steps
  <2>3. /\ io' \in [Files \cup {Main} -> Job]
        /\ io'[Main] = Idle /\ \A g \in Files : io'[g] = io[g]
    BY <2>1, <2>2, MainDoes
  <2>4. Types'
    BY <2>1, <2>2, <2>3 DEF FilesInv, Types, MainSteps
  <2>5. OthersStay(f)
    BY <1>1, <2>1, <2>2, <2>3 DEF OthersStay, OnlyOn
  <2>6. Orderly(f) /\ Alone(f)
    BY DEF FilesInv
  <2>7. Orderly(f)'
    BY <1>2, <2>1, <2>2, <2>3, <2>6 DEF Orderly, Matched, Tidy, Explained, Latest, InCall
  <2>8. Alone(f)'
    BY <2>1, <2>2, <2>3, <2>6 DEF Alone, InCall, RawStep
  <2> QED
    BY <2>4, <2>5, <2>7, <2>8, StepAt
<1> QED
  BY <1>3, <1>4

(* main and the worker of the descriptor both move on. *)
LEMMA BothDo ==
  ASSUME FilesInv, NEW f \in Files, NEW job \in Job, NEW worker \in Job,
         io' = [io EXCEPT ![f] = worker, ![Main] = job]
  PROVE  /\ io' \in [Files \cup {Main} -> Job]
         /\ io'[Main] = job /\ io'[f] = worker
         /\ \A g \in Files \ {f} : io'[g] = io[g]
BY FilesApart DEF FilesInv, Types

LEMMA JoinedKeeps ==
  ASSUME FilesInv, Joined
  PROVE  FilesInv'
<1>1. PICK f \in Files : f = io[Main].file
  BY DEF FilesInv, Types, Job
<1>2. PICK ok : ok = io[Main].ok
  OBVIOUS
<1>3. io[Main] \in Job /\ ok \in BOOLEAN
  BY <1>2 DEF FilesInv, Types, Job
<1> DEFINE next == NextStep(FALSE, ~ok)
           job == Doing(next, f, ok)
<1>4. /\ io[Main].step = "join" /\ io[f].step = "over"
      /\ io' = [io EXCEPT ![f] = Idle, ![Main] = job]
      /\ UNCHANGED <<files, asked, got, raced>>
  <2>1. Main \in DOMAIN io /\ f # Main
    BY FilesApart DEF FilesInv, Types
  <2> QED
    BY <1>1, <1>2, <2>1 DEF Joined, At, FilesInv, Types
<1>5. next = IF ok THEN "idle" ELSE "release"
  BY <1>3 DEF NextStep
<1> HIDE DEF next
<1>6. /\ job \in Job /\ job.step = next
      /\ next # "idle" => job.file = f
  <2>1. next \in Steps
    BY <1>5 DEF Steps
  <2> QED
    BY <1>3, <2>1, DoingType, Zenon
<1> HIDE DEF job
<1>7. Idle \in Job /\ Idle.step = "idle"
  BY FilesApart DEF Idle, Job, Steps
<1>8. /\ io' \in [Files \cup {Main} -> Job]
      /\ io'[Main] = job /\ io'[f] = Idle
      /\ \A g \in Files \ {f} : io'[g] = io[g]
  BY <1>4, <1>6, <1>7, BothDo
<1>9. Types'
  BY <1>4, <1>5, <1>6, <1>8 DEF FilesInv, Types, MainSteps
<1>10. OthersStay(f)
  BY <1>1, <1>4, <1>5, <1>6, <1>8 DEF OthersStay, OnlyOn
<1>11. Orderly(f) /\ Alone(f)
  BY DEF FilesInv
<1>12. files[f].active /\ ~files[f].isAsync /\ ~files[f].valid /\ ~files[f].done
  BY <1>1, <1>4, <1>11 DEF Orderly, Tidy, InCall
<1>13. Matched(f, files[f], Idle, job)
  BY <1>5, <1>6, <1>7, <1>12 DEF Matched, Working, WorkerSteps, InCall
<1>14. Tidy(f, files[f], job)
  BY <1>5, <1>6, <1>11, <1>12 DEF Orderly, Tidy, InCall
<1>15. Explained(f, files[f], Idle, job)
  BY <1>1, <1>2, <1>4, <1>5, <1>6, <1>7, <1>11, <1>12 DEF Orderly, Explained, InCall
<1>16. Latest(files[f], Idle, asked[f])
  BY <1>7, <1>12 DEF Latest, Working
<1>17. Orderly(f)'
  BY <1>4, <1>8, <1>13, <1>14, <1>15, <1>16 DEF Orderly
<1>18. Alone(f)'
  BY <1>4, <1>5, <1>6, <1>7, <1>8, <1>11 DEF Alone, InCall, InFile, RawStep
<1> QED
  BY <1>9, <1>10, <1>17, <1>18, StepAt

LEMMA ReleaseKeeps ==
  ASSUME FilesInv, Release
  PROVE  FilesInv'
<1>1. PICK f \in Files : f = io[Main].file
  BY DEF FilesInv, Types, Job
<1> DEFINE file == [files[f] EXCEPT !.fd = "closed", !.active = FALSE]
<1>2. /\ io[Main].step = "release" /\ files' = [files EXCEPT ![f] = file]
      /\ Does(Main, Idle) /\ UNCHANGED <<asked, got, raced>>
  BY <1>1 DEF Release, At, Set
<1>3. files[f] \in File /\ Orderly(f) /\ Alone(f)
  BY DEF FilesInv, Types
<1>4. /\ file \in File /\ ~file.active /\ file.isAsync = files[f].isAsync
      /\ file.done = files[f].done /\ file.valid = files[f].valid
      /\ file.opening = files[f].opening /\ file.fd = "closed"
  BY <1>3 DEF File, Kinds
<1> HIDE DEF file
<1>5. Idle \in Job /\ Idle.step = "idle"
  BY FilesApart DEF Idle, Job, Steps
<1>6. /\ io' \in [Files \cup {Main} -> Job]
      /\ io'[Main] = Idle /\ \A g \in Files : io'[g] = io[g]
  BY <1>2, <1>5, MainDoes
<1>7. Types'
  BY <1>2, <1>4, <1>5, <1>6 DEF FilesInv, Types, MainSteps
<1>8. OthersStay(f)
  BY <1>1, <1>2, <1>5, <1>6 DEF OthersStay, OnlyOn, FilesInv, Types
<1>9. ~files[f].isAsync /\ ~files[f].valid /\ ~files[f].done
  BY <1>1, <1>2, <1>3 DEF Orderly, Tidy, InCall
<1>10. io[f].step = "idle"
  BY <1>2, <1>3, <1>9 DEF Orderly, Matched, InCall
<1>11. files'[f] = file /\ asked' = asked /\ raced' = raced
  BY <1>2 DEF FilesInv, Types
<1>12. Orderly(f)'
  BY <1>3, <1>4, <1>5, <1>6, <1>9, <1>10, <1>11
  DEF Orderly, Matched, Tidy, Explained, Latest, InCall, Working
<1>13. Alone(f)'
  BY <1>4, <1>5, <1>6, <1>10, <1>11 DEF Alone, InCall, InFile, RawStep
<1> QED
  BY <1>7, <1>8, <1>12, <1>13, StepAt

LEMMA ClosedKeeps ==
  ASSUME FilesInv, Closed
  PROVE  FilesInv'
<1>1. PICK f \in Files : f = io[Main].file
  BY DEF FilesInv, Types, Job
<1> DEFINE file == [files[f] EXCEPT !.active = FALSE, !.fd = "closed", !.valid = FALSE,
                      !.done = FALSE, !.isAsync = FALSE, !.opening = FALSE]
<1>2. PICK worker : worker = IF files[f].valid THEN Idle ELSE io[f]
  OBVIOUS
<1>3. /\ io[Main].step = "close" /\ (files[f].valid => io[f].step = "over")
      /\ files' = [files EXCEPT ![f] = file]
      /\ io' = [io EXCEPT ![f] = worker, ![Main] = Idle]
      /\ raced' = raced \ {f} /\ UNCHANGED <<asked, got>>
  BY <1>1, <1>2 DEF Closed, At, Set
<1>4. files[f] \in File /\ io[f] \in Job /\ Orderly(f) /\ Alone(f)
  BY DEF FilesInv, Types
<1>5. /\ file \in File /\ ~file.active /\ ~file.isAsync /\ ~file.done /\ ~file.valid
      /\ ~file.opening /\ file.fd = "closed"
  BY <1>4 DEF File, Kinds
<1> HIDE DEF file
<1>6. Idle \in Job /\ Idle.step = "idle"
  BY FilesApart DEF Idle, Job, Steps
<1>7. worker \in Job /\ worker.step = "idle"
  BY <1>2, <1>3, <1>4, <1>6 DEF Orderly, Matched, InCall
<1>8. /\ io' \in [Files \cup {Main} -> Job]
      /\ io'[Main] = Idle /\ io'[f] = worker
      /\ \A g \in Files \ {f} : io'[g] = io[g]
  BY <1>3, <1>6, <1>7, BothDo
<1>9. Types'
  BY <1>3, <1>5, <1>6, <1>8 DEF FilesInv, Types, MainSteps
<1>10. OthersStay(f)
  BY <1>1, <1>3, <1>6, <1>8 DEF OthersStay, OnlyOn, FilesInv, Types
<1>11. files'[f] = file
  BY <1>3 DEF FilesInv, Types
<1>12. Orderly(f)'
  BY <1>5, <1>6, <1>7, <1>8, <1>11
  DEF Orderly, Matched, Tidy, Explained, Latest, InCall, Working, WorkerSteps
<1>13. Alone(f)'
  BY <1>5, <1>6, <1>7, <1>8, <1>11 DEF Alone, InCall, InFile, RawStep
<1> QED
  BY <1>9, <1>10, <1>12, <1>13, StepAt

-----------------------------------------------------------------------------
(* Every step *)

LEMMA CallsKeep ==
  ASSUME FilesInv, Calls
  PROVE  FilesInv'
<1>1. CASE \E fd \in {"host", "raw"} : OpenFile(fd)
  BY <1>1, OpenFileKeeps
<1>2. CASE OpenAsync
  BY <1>2, OpenAsyncKeeps
<1>3. CASE \E f \in Files : WaitAsync(f)
  BY <1>3, BeginsKeeps DEF WaitAsync
<1>4. CASE \E f \in Files : CollectReady(f)
  BY <1>4, CollectKeeps DEF CollectReady, Free, At
<1>5. CASE \E f \in Files : Close(f)
  BY <1>5, BeginsKeeps DEF Close
<1>6. CASE \E f \in Files, size \in Sizes : ReadAsync(f, size)
  BY <1>6, ReadAsyncKeeps
<1>7. CASE \E f \in Files, size \in Sizes : Read(f, size)
  BY <1>7, ReadKeeps
<1>8. CASE \E f \in Files, pos \in 0 .. RawLength : LseekAsync(f, pos)
  BY <1>8, LseekAsyncKeeps
<1>9. CASE \E f \in Files, pos \in 0 .. RawLength : Lseek(f, pos)
  BY <1>9, LseekKeeps
<1> QED
  BY <1>1, <1>2, <1>3, <1>4, <1>5, <1>6, <1>7, <1>8, <1>9 DEF Calls

LEMMA RawStepsKeep ==
  ASSUME FilesInv, NEW t \in Files \cup {Main}, RawSteps(t)
  PROVE  FilesInv'
BY RawRequestKeeps, RawReadKeeps, RawLoadKeeps, RawStoreKeeps DEF RawSteps

LEMMA StepKeeps ==
  ASSUME FilesInv, [ANext]_avars
  PROVE  FilesInv'
<1>1. CASE Calls
  BY <1>1, CallsKeep
<1>2. CASE Returning
  BY <1>2, WokenKeeps, JoinedKeeps, ReleaseKeeps, ClosedKeeps, RawStepsKeep DEF Returning
<1>3. ASSUME NEW w \in Files, Worker(w) PROVE FilesInv'
  BY <1>3, OpenWorkKeeps, PlacedKeeps, ReadElsewhereKeeps, RawStepsKeep, ReportKeeps DEF Worker
<1>4. CASE UNCHANGED avars
  BY <1>4 DEF avars, FilesInv, Types, Orderly, Alone
<1> QED
  BY <1>1, <1>2, <1>3, <1>4 DEF ANext

LEMMA SpecFiles == ASpec => []FilesInv
<1>1. FilesInv /\ [ANext]_avars => FilesInv'
  BY StepKeeps
<1>2. AInit => FilesInv
  BY InitFiles
<1> QED
  BY <1>1, <1>2, PTL DEF ASpec

(* Descriptors and worker threads match, whatever the order of the steps:  *)
(* a descriptor is busy exactly while its worker works, every worker is    *)
(* joined once and before its slot is used again, and a descriptor that is *)
(* open to the program refers to a file.                                   *)
THEOREM DescriptorsMatchWorkers == ASpec => []ATypeOK
<1>1. FilesInv => ATypeOK
  BY InvTypes
<1> QED
  BY <1>1, SpecFiles, PTL

(* A read of a raw-sector file stays within the file, although its steps   *)
(* take no lock, unless main read from the file or moved in it while a     *)
(* worker was at work on it, and has not made a seek in peace since.       *)
THEOREM ReadsStayInFile == ASpec => []RawReadsInFile
<1>1. FilesInv => RawReadsInFile
  BY InvReads
<1> QED
  BY <1>1, SpecFiles, PTL

-----------------------------------------------------------------------------
(* The refinement: what a step does to the descriptors as AsyncHandle sees *)
(* them.                                                                   *)

Handled == [f \in Files |-> Status(files[f])]

LEMMA StatusIs ==
  ASSUME NEW file \in File
  PROVE  /\ Status(file) \in {"closed", "busy", "ready", "idle"}
         /\ Status(file) = "closed" <=> ~file.active
         /\ Status(file) = "busy" <=> file.active /\ file.isAsync
         /\ Status(file) = "ready" <=> file.active /\ ~file.isAsync /\ file.done
BY DEF Status, File

(* One slot is written. *)
LEMMA StatusMoves ==
  ASSUME FilesInv, NEW f \in Files, NEW file, files' = [files EXCEPT ![f] = file],
         NEW from, NEW to, Status(files[f]) \in from, Status(file) \in to
  PROVE  Handle!Moves(f, from, to)
<1>1. Handled' = [Handled EXCEPT ![f] = Status(file)] /\ Handled[f] = Status(files[f])
  BY DEF FilesInv, Types, Handled
<1> QED
  BY <1>1 DEF Handle!Moves, Handled

LEMMA StatusStays ==
  ASSUME FilesInv, NEW f \in Files, NEW file, files' = [files EXCEPT ![f] = file],
         Status(file) = Status(files[f])
  PROVE  UNCHANGED Handled
BY DEF FilesInv, Types, Handled

LEMMA HandleVars == UNCHANGED <<Handled, asked, got>> => UNCHANGED Handle!hvars
BY DEF Handle!hvars, Handled

LEMMA OpenFileIs ==
  ASSUME FilesInv, NEW fd \in {"host", "raw"}, OpenFile(fd)
  PROVE  \E f \in Files : Handle!Open(f)
<1>1. PICK f \in Files : f = FirstFile /\ ~files[f].active /\ files[f] \in File
  BY FirstFileIs DEF OpenFile
<1> DEFINE file == [Opened(files[f], fd) EXCEPT
                      !.active = (fd # "closed"), !.isAsync = FALSE, !.opening = FALSE]
<1>2. files' = [files EXCEPT ![f] = file] /\ UNCHANGED <<asked, got>>
  BY <1>1 DEF OpenFile, Set
<1>3. file.active /\ ~file.isAsync /\ file.done = files[f].done
  BY <1>1 DEF Opened, File
<1> HIDE DEF file
<1>4. ~files[f].done
  BY <1>1 DEF FilesInv, Orderly, Tidy
<1>5. Handle!Moves(f, {"closed"}, {"idle"})
  <2>1. PICK from, to : from = {"closed"} /\ to = {"idle"}
    OBVIOUS
  <2>2. Status(files[f]) \in from /\ Status(file) \in to
    BY <1>1, <1>2, <1>3, <1>4, <2>1 DEF Status
  <2>3. Handle!Moves(f, from, to)
    BY <1>1, <1>2, <1>3, <1>4, <2>2, StatusMoves
  <2> QED
    BY <2>1, <2>3
<1> QED
  BY <1>2, <1>5 DEF Handle!Open

LEMMA StartWorkerAsks ==
  ASSUME FilesInv, NEW f \in Files, NEW step, NEW size, StartWorker(f, step, size)
  PROVE  asked' = [asked EXCEPT ![f] = @ + 1]
BY DEF StartWorker

LEMMA OpenAsyncIs ==
  ASSUME FilesInv, OpenAsync
  PROVE  \E f \in Files : Handle!Submit(f)
<1>1. PICK f \in Files : f = FirstFile /\ ~files[f].active /\ files[f] \in File
  BY FirstFileIs DEF OpenAsync
<1> DEFINE old == [files[f] EXCEPT !.fd = "closed"]
           file == Started(old, TRUE)
<1>2. /\ files' = [files EXCEPT ![f] = file] /\ got' = got
      /\ asked' = [asked EXCEPT ![f] = @ + 1]
  BY <1>1, StartWorkerAsks DEF OpenAsync, Set
<1>3. old \in File
  BY <1>1 DEF File, Kinds
<1> HIDE DEF old
<1>4. file.active /\ file.isAsync
  BY <1>3, StartedType
<1> HIDE DEF file
<1>5. Handle!Moves(f, {"closed", "idle"}, {"busy", "ready"})
  <2>1. PICK from, to : from = {"closed", "idle"} /\ to = {"busy", "ready"}
    OBVIOUS
  <2>2. Status(files[f]) \in from /\ Status(file) \in to
    BY <1>1, <1>2, <1>4, <2>1 DEF Status
  <2>3. Handle!Moves(f, from, to)
    BY <1>1, <1>2, <1>4, <2>2, StatusMoves
  <2> QED
    BY <2>1, <2>3
<1> QED
  BY <1>2, <1>5 DEF Handle!Submit

LEMMA ReadAsyncIs ==
  ASSUME FilesInv, NEW f \in Files, NEW size, ReadAsync(f, size)
  PROVE  Handle!Submit(f)
<1> DEFINE file == Started(files[f], files[f].opening)
<1>1. /\ files[f].active /\ ~files[f].isAsync /\ ~files[f].done
      /\ files' = [files EXCEPT ![f] = file] /\ got' = got
      /\ asked' = [asked EXCEPT ![f] = @ + 1]
  BY StartWorkerAsks DEF ReadAsync, Accepts, Set
<1>2. files[f] \in File /\ files[f].opening \in BOOLEAN
  BY DEF FilesInv, Types, File
<1>3. file.active /\ file.isAsync
  BY <1>2, StartedType
<1> HIDE DEF file
<1>4. Handle!Moves(f, {"closed", "idle"}, {"busy", "ready"})
  <2>1. PICK from, to : from = {"closed", "idle"} /\ to = {"busy", "ready"}
    OBVIOUS
  <2>2. Status(files[f]) \in from /\ Status(file) \in to
    BY <1>1, <1>3, <2>1 DEF Status
  <2>3. Handle!Moves(f, from, to)
    BY <1>1, <1>3, <2>2, StatusMoves
  <2> QED
    BY <2>1, <2>3
<1> QED
  BY <1>1, <1>4 DEF Handle!Submit

LEMMA LseekAsyncIs ==
  ASSUME FilesInv, NEW f \in Files, NEW pos, LseekAsync(f, pos)
  PROVE  Handle!Submit(f)
<1>1. PICK at, done : /\ at = IF files[f].fd = "raw" THEN pos ELSE files[f].pos
                      /\ done = [of |-> asked[f] + 1, ok |-> TRUE]
  OBVIOUS
<1> DEFINE file == [files[f] EXCEPT !.done = TRUE, !.result = done, !.pos = at]
<1>2. /\ files[f].active /\ ~files[f].isAsync /\ ~files[f].done
      /\ files' = [files EXCEPT ![f] = file] /\ got' = got
      /\ asked' = [asked EXCEPT ![f] = @ + 1]
  BY <1>1 DEF LseekAsync, Accepts, Set
<1>3. files[f] \in File
  BY DEF FilesInv, Types
<1>4. file.active /\ ~file.isAsync /\ file.done
  BY <1>2, <1>3 DEF File
<1> HIDE DEF file
<1>5. Handle!Moves(f, {"closed", "idle"}, {"busy", "ready"})
  <2>1. PICK from, to : from = {"closed", "idle"} /\ to = {"busy", "ready"}
    OBVIOUS
  <2>2. Status(files[f]) \in from /\ Status(file) \in to
    BY <1>2, <1>4, <2>1 DEF Status
  <2>3. Handle!Moves(f, from, to)
    BY <1>2, <1>4, <2>2, StatusMoves
  <2> QED
    BY <2>1, <2>3
<1> QED
  BY <1>2, <1>5 DEF Handle!Submit

LEMMA CollectIs ==
  ASSUME FilesInv, NEW f \in Files, Collect(f), ~files[f].isAsync, files[f].done
  PROVE  Handle!Collect(f)
<1> DEFINE file == [files[f] EXCEPT !.done = FALSE, !.opening = FALSE, !.valid = FALSE]
<1>1. /\ files' = [files EXCEPT ![f] = file]
      /\ got' = [got EXCEPT ![f] = files[f].result.of] /\ asked' = asked
  BY DEF Collect, Set
<1>2. files[f] \in File /\ Orderly(f)
  BY DEF FilesInv, Types
<1>3. files[f].active /\ files[f].result.of = asked[f]
  BY <1>2 DEF Orderly, Tidy, Latest
<1>4. file.active /\ ~file.isAsync /\ ~file.done
  BY <1>2, <1>3 DEF File
<1> HIDE DEF file
<1>5. Handle!Moves(f, {"ready"}, {"idle"})
  <2>1. PICK from, to : from = {"ready"} /\ to = {"idle"}
    OBVIOUS
  <2>2. Status(files[f]) \in from /\ Status(file) \in to
    BY <1>1, <1>3, <1>4, <2>1 DEF Status
  <2>3. Handle!Moves(f, from, to)
    BY <1>1, <1>3, <1>4, <2>2, StatusMoves
  <2> QED
    BY <2>1, <2>3
<1> QED
  BY <1>1, <1>3, <1>5 DEF Handle!Collect

LEMMA ReportIs ==
  ASSUME FilesInv, NEW w \in Files, Report(w)
  PROVE  Handle!Complete(w)
<1>1. PICK result : result = [of |-> io[w].of, ok |-> io[w].ok]
  OBVIOUS
<1> DEFINE file == [files[w] EXCEPT !.isAsync = FALSE, !.done = TRUE, !.result = result]
<1>2. /\ io[w].step = "report" /\ files' = [files EXCEPT ![w] = file]
      /\ UNCHANGED <<asked, got>>
  BY <1>1 DEF Report, Set, At
<1>3. files[w] \in File /\ Orderly(w)
  BY DEF FilesInv, Types
<1>4. files[w].active /\ files[w].isAsync
  BY <1>2, <1>3 DEF Orderly, Matched, Tidy, Working
<1>5. file.active /\ ~file.isAsync /\ file.done
  BY <1>3, <1>4 DEF File
<1> HIDE DEF file
<1>6. Handle!Moves(w, {"busy"}, {"ready"})
  <2>1. PICK from, to : from = {"busy"} /\ to = {"ready"}
    OBVIOUS
  <2>2. Status(files[w]) \in from /\ Status(file) \in to
    BY <1>2, <1>4, <1>5, <2>1 DEF Status
  <2>3. Handle!Moves(w, from, to)
    BY <1>2, <1>4, <1>5, <2>2, StatusMoves
  <2> QED
    BY <2>1, <2>3
<1> QED
  BY <1>2, <1>6 DEF Handle!Complete

LEMMA CloseIs ==
  ASSUME FilesInv, Closed \/ Release
  PROVE  \E f \in Files : Handle!Close(f)
<1>1. PICK f \in Files : f = io[Main].file
  BY DEF FilesInv, Types, Job
<1>2. files[f] \in File /\ Orderly(f)
  BY DEF FilesInv, Types
<1>3. PICK file : files' = [files EXCEPT ![f] = file] /\ ~file.active
  <2>1. CASE Closed
    <3> DEFINE x == [files[f] EXCEPT !.active = FALSE, !.fd = "closed", !.valid = FALSE,
                       !.done = FALSE, !.isAsync = FALSE, !.opening = FALSE]
    <3>1. files' = [files EXCEPT ![f] = x]
      BY <1>1, <2>1 DEF Closed, Set
    <3>2. ~x.active
      BY <1>2 DEF File
    <3> QED
      BY <3>1, <3>2
  <2>2. CASE Release
    <3> DEFINE x == [files[f] EXCEPT !.fd = "closed", !.active = FALSE]
    <3>1. files' = [files EXCEPT ![f] = x]
      BY <1>1, <2>2 DEF Release, Set
    <3>2. ~x.active
      BY <1>2 DEF File
    <3> QED
      BY <3>1, <3>2
  <2> QED
    BY <2>1, <2>2
<1>4. files[f].active /\ UNCHANGED <<asked, got>>
  BY <1>1, <1>2 DEF Closed, Release, At, Orderly, Tidy, InCall
<1>5. Handle!Moves(f, {"idle", "busy", "ready"}, {"closed"})
  <2>1. PICK from, to : from = {"idle", "busy", "ready"} /\ to = {"closed"}
    OBVIOUS
  <2>2. Status(files[f]) \in from /\ Status(file) \in to
    BY <1>3, <1>4, <2>1 DEF Status
  <2>3. Handle!Moves(f, from, to)
    BY <1>3, <1>4, <2>2, StatusMoves
  <2> QED
    BY <2>1, <2>3
<1> QED
  BY <1>4, <1>5 DEF Handle!Close

(* Positions and the steps of a worker before its report do not show. *)
LEMMA WorkStays ==
  ASSUME FilesInv, NEW t \in Files \cup {Main}, RawSteps(t) \/ (t \in Files /\ (OpenWork(t) \/ Placed(t)))
  PROVE  UNCHANGED Handle!hvars
<1>1. PICK f \in Files : f = io[t].file /\ files[f] \in File
  BY DEF FilesInv, Types, Job
<1>2. CASE RawRequest(t) \/ RawRead(t) \/ RawLoad(t)
  BY <1>2, HandleVars DEF RawRequest, RawRead, RawLoad, Handled
<1>3. CASE RawStore(t)
  <2>1. PICK pos : pos = io[t].at + io[t].size
    OBVIOUS
  <2> DEFINE file == [files[f] EXCEPT !.pos = pos]
  <2>2. files' = [files EXCEPT ![f] = file] /\ UNCHANGED <<asked, got>>
    BY <1>1, <1>3, <2>1 DEF RawStore, Set
  <2>3. Status(file) = Status(files[f])
    BY <1>1 DEF Status, File
  <2> QED
    BY <2>2, <2>3, StatusStays, HandleVars
<1>4. CASE t \in Files /\ (OpenWork(t) \/ Placed(t))
  <2>1. PICK fd, pos : /\ files' = [files EXCEPT ![t] = [files[t] EXCEPT !.fd = fd, !.pos = pos]]
                       /\ UNCHANGED <<asked, got>>
    <3>1. files[t] \in File
      BY <1>4 DEF FilesInv, Types
    <3>2. CASE OpenWork(t)
      BY <3>2 DEF OpenWork, Set
    <3>3. CASE Placed(t)
      <4>1. [files[t] EXCEPT !.pos = 0] = [files[t] EXCEPT !.fd = files[t].fd, !.pos = 0]
        BY <3>1 DEF File
      <4> QED
        BY <3>3, <4>1 DEF Placed, Set
    <3> QED
      BY <1>4, <3>2, <3>3
  <2> DEFINE file == [files[t] EXCEPT !.fd = fd, !.pos = pos]
  <2>2. Status(file) = Status(files[t])
    BY <1>4 DEF Status, File, FilesInv, Types
  <2> QED
    BY <1>4, <2>1, <2>2, StatusStays, HandleVars
<1> QED
  BY <1>2, <1>3, <1>4 DEF RawSteps

LEMMA LseekStays ==
  ASSUME FilesInv, NEW f \in Files, NEW pos, Lseek(f, pos)
  PROVE  UNCHANGED Handle!hvars
<1> DEFINE file == [files[f] EXCEPT !.pos = pos]
<1>1. files' = [files EXCEPT ![f] = file] /\ UNCHANGED <<asked, got>>
  BY DEF Lseek, Set
<1>2. Status(file) = Status(files[f])
  BY DEF Status, File, FilesInv, Types
<1> QED
  BY <1>1, <1>2, StatusStays, HandleVars

LEMMA FilesStay ==
  ASSUME UNCHANGED <<files, asked, got>>
  PROVE  UNCHANGED Handle!hvars
BY HandleVars DEF Handled

LEMMA CallsAre ==
  ASSUME FilesInv, Calls
  PROVE  Handle!HNext \/ UNCHANGED Handle!hvars
<1>1. CASE \E fd \in {"host", "raw"} : OpenFile(fd)
  BY <1>1, OpenFileIs DEF Handle!HNext
<1>2. CASE OpenAsync
  BY <1>2, OpenAsyncIs DEF Handle!HNext
<1>3. CASE \E f \in Files : WaitAsync(f) \/ Close(f)
  BY <1>3, FilesStay DEF WaitAsync, Close
<1>4. CASE \E f \in Files : CollectReady(f)
  BY <1>4, CollectIs DEF CollectReady, Handle!HNext
<1>5. CASE \E f \in Files, size \in Sizes : ReadAsync(f, size)
  BY <1>5, ReadAsyncIs DEF Handle!HNext
<1>6. CASE \E f \in Files, size \in Sizes : Read(f, size)
  BY <1>6, FilesStay DEF Read
<1>7. CASE \E f \in Files, pos \in 0 .. RawLength : LseekAsync(f, pos)
  BY <1>7, LseekAsyncIs DEF Handle!HNext
<1>8. CASE \E f \in Files, pos \in 0 .. RawLength : Lseek(f, pos)
  BY <1>8, LseekStays
<1> QED
  BY <1>1, <1>2, <1>3, <1>4, <1>5, <1>6, <1>7, <1>8 DEF Calls

LEMMA ReturningIs ==
  ASSUME FilesInv, Returning
  PROVE  Handle!HNext \/ UNCHANGED Handle!hvars
<1>1. CASE Woken
  <2>1. PICK f \in Files : f = io[Main].file
    BY DEF FilesInv, Types, Job
  <2>2. CASE files[f].done
    BY <1>1, <2>1, <2>2, CollectIs DEF Woken, Handle!HNext
  <2>3. CASE ~files[f].done
    BY <1>1, <2>1, <2>3, FilesStay DEF Woken
  <2> QED
    BY <2>2, <2>3
<1>2. CASE Joined
  BY <1>2, FilesStay DEF Joined
<1>3. CASE Closed \/ Release
  BY <1>3, CloseIs DEF Handle!HNext
<1>4. CASE RawSteps(Main)
  BY <1>4, WorkStays
<1> QED
  BY <1>1, <1>2, <1>3, <1>4 DEF Returning

LEMMA StepIs ==
  ASSUME FilesInv, [ANext]_avars
  PROVE  Handle!HNext \/ UNCHANGED Handle!hvars
<1>1. ASSUME NEW w \in Files, Worker(w)
      PROVE  Handle!HNext \/ UNCHANGED Handle!hvars
  <2>1. CASE OpenWork(w) \/ Placed(w) \/ RawSteps(w)
    BY <2>1, WorkStays
  <2>2. CASE ReadElsewhere(w)
    BY <2>2, FilesStay DEF ReadElsewhere
  <2>3. CASE Report(w)
    BY <2>3, ReportIs DEF Handle!HNext
  <2> QED
    BY <1>1, <2>1, <2>2, <2>3 DEF Worker
<1>2. CASE UNCHANGED avars
  BY <1>2, FilesStay DEF avars
<1> QED
  BY <1>1, <1>2, CallsAre, ReturningIs DEF ANext

(* The descriptors, with their worker threads, mutex and joins, do what    *)
(* AsyncHandle promises of them: one request at a time, its own result     *)
(* collected once, and no call reaches a descriptor that it does not name. *)
THEOREM DescriptorsKeepThePromise == ASpec => ImplementsHandle
<1>1. AInit => Handle!HInit
  BY DEF AInit, Handle!HInit, NoFile, Status
<1>2. FilesInv /\ [ANext]_avars => [Handle!HNext]_(Handle!hvars)
  BY StepIs
<1> QED
  BY <1>1, <1>2, SpecFiles, PTL DEF ASpec, ImplementsHandle, Handle!HSpec

=============================================================================
