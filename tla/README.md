# Verification of the PSP recompilation runtime

TLA+ models of the runtime that runs a recompiled PSP program on a Linux host:
an ahead-of-time recompiler (`aot_recompiler_v5.py`), a dispatcher that mixes
its blocks with an interpreter, and a high-level emulation (HLE) of the PSP
kernel in C. Source paths below are relative to `src/`.

    tlc -workers 2 -config MCDispatcher.cfg MCDispatcher   one run
    tlapm Scheduler_proofs.tla                             the proofs about a module

`PROJECT.json` names the runs, the mutants of each property, the source lines
of each definition, the hazards and the theorems.


## 1. The system

One host thread, the *emulator thread*, runs everything the guest program does:
`mips_dispatcher_execute` looks for a translated block at `cpu->pc`, runs it, or
interprets one instruction. A guest system call is a jump to an *import stub*,
two words that the linker patched to a `syscall` instruction; the interpreter
hands it to `hle_syscall_impl` (`main_v35.c`), which answers it or passes it on
to `mips_hle_syscall` (`mips_hle.c`). Guest threads are coroutines of the
emulator thread: a handler that blocks saves the registers in a thread control
block (TCB), loads another thread's and returns, so that the dispatcher goes on
with another guest thread. True concurrency exists in two places only: the
worker threads of asynchronous file requests and the audio callback of SDL.

| Component | State | Operations | Interacts with |
|---|---|---|---|
| Thread scheduler, `sceKernelThread.c` | `threads[]`, `current_thread_id`, id and wait-sequence counters, `g_timed_wait_count`, `g_dispatch_enabled`, the monotonic clock | create, start, exit, terminate, delete, sleep, delay, wait for an end, suspend and resume dispatch, `run_scheduler`, quantum preemption from `mips_dispatcher.c` | every blocking call |
| Semaphores, `mips_hle.c` | `kernel->semas[]`, the waits in the TCBs | create, delete, wait, poll, signal, refer | scheduler (waits, expiry) |
| Event flags, `mips_hle.c` and `sceKernelThread.c` | `kernel->events[]`, the waits and the copy of the pattern in the TCBs | create, delete, set, clear, wait, refer | scheduler |
| System call return, `main_v35.c`, `mips_hle.c` | `cpu->pc`, `cpu->next_pc` of the running thread, saved ones in the TCBs | the return of each call, the fallback of `hle_syscall_impl` | scheduler, dispatcher |
| Asynchronous file I/O, `mips_hle.c` | `kernel->files[]`: host descriptor or position in the disc image, busy flag, result, worker handle; `async_mutex`, `async_cond` | open, close, read, lseek, and their asynchronous forms, wait and poll | POSIX worker threads |
| Audio output, `mips_audio.c` | per channel a ring with read, write and fill counters; a mutex | reserve, release, set length, output (blocking or not), the mixing callback | SDL audio thread |
| Display list engine, `mips_ge.c` | pc, stall address, running and finished, call stack, origin, bounding box result | enqueue, update stall, the command loop | the guest writes lists while they run |
| User memory, `sceSysMem.c`, `sceKernelThread.c` | one bump address and one id counter, tables of partition blocks, media engine areas, fixed pools | allocate and free of each kind | none |
| Recompiler and dispatcher, `aot_recompiler_v5.py`, `mips_dispatcher.c` | the block table; `pc`, `next_pc` | cut into blocks, translate, dispatch | interpreter, linker (patched stubs) |
| Interpreter, `mips_interpreter.c` | registers, `pc`, `next_pc`, branch target and delay slot state | one instruction | HLE |
| CPU state and memory, `mips_cpu.c` | RAM, VRAM, scratchpad | address translation, reads, writes, traces | all |
| Linker and relocation, `mips_linker.c`, `mips_reloc.c`, `mips_prx.c`, `mips_prx_runtime.cpp` | the hull of all segments, the next load address, the fallback stubs, the exports found last, `relocated_gp` | place segments, relocate, find exports, patch imports | user memory, system calls (a stub's code) |
| Module manager, `main_v35.c` | `loaded_modules[]`, `next_module_id` | load, start, stop, unload | linker; scheduler (module threads) |
| Display, `main_v35.c`, `mips_video.c` | current and latched framebuffer, vblank counter and deadline, frame flags | set mode, set framebuffer, wait for vblank, begin, draw, present | dispatcher (every 1024 dispatches), display lists |
| SAS, callbacks, UMD, controller | parameters | conversions and constant answers | - |

What is hard in it:

* **Switches inside calls.** A handler that blocks returns to the dispatcher as
  another guest thread. Anything it reads or writes after the switch belongs to
  that thread.
* **Deadlines that nobody watches.** There is no timer: an expired wait is
  noticed only by code that calls `hle_scheduler_wake_expired`, and that looks
  only while a counter kept by hand is not zero.
* **Reused slots.** TCBs, descriptors, semaphores, flags and pools are slots of
  fixed tables; ids, waits and worker threads refer to them by number.
* **Worker threads** that work on a descriptor without a lock while the emulator
  thread may close it or seek on it.
* **Polling loops** inside the emulator thread, during which no guest thread
  runs, that depend on the audio thread.
* **Two executors of one program.** Blocks and interpreter must agree at every
  boundary, delay slots and pending branches included.
* **Loads that fail half-way.** A load writes memory, widens the hull, fills the
  fallback table and the exports step by step, and nothing is taken back.
* **A clock looked at late.** Vertical blanks are counted, framebuffers latched
  and frames shown whenever the dispatcher comes round to it.

What makes each component correct: one guest thread runs and all that wait are
found by what they wait for (scheduler); no unit is lost and nobody is overtaken
(semaphores); nobody waits for bits that are there and no bit is given twice
(event flags); a call returns to its caller (system calls); each request is
answered once, to whom made it (file I/O); what is queued is played in order,
once (audio); how a list is portioned does not change what it draws (display
lists); areas do not overlap and lie in RAM (memory); what is linked has its
own addresses, imports and exports and is never overwritten (linker); starts and
stops come back when their thread is over, and a thread asks for one after the
other (module manager); no framebuffer request is overtaken by an older one, the counter keeps
the time, what is drawn is shown (display); the mix of executors is the processor
(recompiler).


## 2. The modules

| Module | Models | Abstract specification |
|---|---|---|
| `Scheduler` | thread table, `run_scheduler`, thread calls, preemption, clock | |
| `Dispatcher` (extends `Scheduler`) | the loop that runs blocks, counts them, and preempts after a quantum | |
| `Semaphores` (extends `Scheduler`) | semaphore calls on the thread table | `FifoSemaphore` |
| `EventFlags` (extends `Scheduler`) | event flag calls on the thread table | |
| `SyscallReturn` (extends `Scheduler`) | the pc of every thread across calls, switches, preemptions | |
| `Modules` (extends `SyscallReturn`) | `loaded_modules[]` and the threads that start and stop modules | |
| `Loader` | user memory while programs and modules are loaded, relocated, linked, unloaded | |
| `Display` | the vertical blank clock, framebuffer requests, frames | |
| `AsyncIo` | descriptors, workers, the emulator thread | `AsyncHandle` |
| `AudioMixer` | channels, rings, callback, polling calls | `SampleQueues` |
| `GeLists` | display lists and the program that writes them | the list run in one piece (`Unstalled`) |
| `UserMemory` | the allocators | |
| `Hybrid` | blocks, interpreter, dispatcher | `Allegrex`, the processor |
| `Scheduler_proofs`, `AsyncIo_proofs`, `AudioMixer_proofs`, `UserMemory_proofs`, `Loader_proofs` | proofs about the module of that name | |
| `WaitObjects_proofs` | proofs about `Semaphores` and `EventFlags` | |
| `Graphics_proofs` | proofs about `Display` and `GeLists` | |
| `Programs_proofs` | proofs about `SyscallReturn`, `Modules` and `Hybrid` | |

`MC*` modules give the constants of the instances. Definitions called
"mutant" are faulty variants of the definition they stand before; no
specification uses them. Each property of a passing run has one that breaks it.

### Scheduler

A TCB is a record with the fields that the scheduler reads: id, state, wait
kind, object, need, deadline, wait sequence, and the result that a wait leaves
in `v0`. An action is one HLE call executed to its end, the switch it ends in
included: the call computes the table that results (`Kernel` is the pair of
table and `g_timed_wait_count`) and passes it to `RunScheduler` with the state
that the caller takes. `RunScheduler` saves the caller (`Save`; a caller that
exits wakes those who wait for its end), wakes the expired waits, picks the
nearest READY slot behind the caller's, round robin, or sleeps until the earliest
deadline, or stops the machine (`current = -1`, `exit_requested`). Calls that
fail without a change are stuttering steps. The clock is read once per call and
moves between calls (`Tick`) and during the sleep.

Priorities, attributes, exit status and register contents are left out: the
scheduler of the source does not look at them.

In `Scheduler` a thread may be preempted at any moment, which is all that safety
needs. `Dispatcher` says when it is: the loop of `mips_dispatcher_execute` counts
the blocks of the running thread, asks after the block that fills the quantum
whether dispatch is on and some thread is READY (`PreemptionDue`), and starts over
when it then finds another thread than the last (`CountBlock`,
`mips_dispatcher.c:225-228` and 345-355). Its safety is that of `Scheduler`: each of
its steps is, to the threads, one of `Next` or none. A block computes or is a call, so calls are steps of the loop.
Instructions that the interpreter runs between 0x08800000 and 0x08800034 and the
trampolines are not counted; the model has them only as the trap that ends a thread
(`ReturnTrap`).

### Semaphores, EventFlags, SyscallReturn

Each extends `Scheduler`, so that every thread call, expiry, termination,
deletion and preemption interleaves with the calls on the object. `SignalSema`
is the whole handler: expiry first, then the limit (which counts the waiters
from before the expiry), then the waiters by wait sequence while the count lasts.
`SetFlag` serves the waiters in the order of the handler, each from what the
ones before left. `SyscallReturn` adds the pc of each thread at the granularity
that matters: at the import stub, which all threads share, or in the code of
thread i behind the jump to it. `AfterHleSyscall` is the comparison of pcs at
the end of `hle_syscall_impl`.

### Modules, Loader

The module manager is modelled twice, each time with the half of it that the
other leaves out. `Modules` composes it with the scheduler: the calls are made at
the import stub like any other (`ModuleCallReturns`), `module_start` and
`module_stop` run on threads of their own (`OnThread`: the new thread, the
caller's wait and the flag are one step, as in the handler; `running` remembers
who waits for which part), and every thread
call, preemption and expiry goes on around them; where a file lies in memory does
not matter there. The three outcomes of `hle_create_and_start_thread` are a
thread, a full table and a slot without a stack window.

`Loader` has the memory. A file is a record: its segments, relocation sections
and module info, with flags for what the code validates by parsing. A load is a
pipeline over a record of all that it changes (`Loading`): `PutSegments`,
`CheckEntry`, `Relocate`, `LinkModule`, each skipped once an earlier one has
failed (`Then`), and `Take` keeps what was changed up to the failure, as the code
does. An address counts words, a word's low half is its immediate, and `Half`
and `Word` are 2^16 and 2^32 in the code, so the carry between the halves of an
address and the wrap of a word are the code's. `Moved` has every relocation type;
a section is read as a whole before it is written (`op`). Left out: parsing of
headers and names, debug output, allocation failures, several module infos in one
file, a library whose name cannot be read (the walk goes on four bytes further),
and the addresses that section headers may supply. `placed` is history, for the
properties. `Meant` and `Movers` are the properties' view of a file: what a pointer
of it means, told from the file alone, without the passes of the load.

### Display

`Service` is `hle_display_service_vblank` called by the dispatcher or by the loop
of a wait; the program's steps are the display calls and what display lists do to
the frame. `due` is the time left to the next vertical blank and may become
negative (`MaxLate`). The contents of the framebuffer and of the host's render
target (`canvas`) are values, `snapshot` what was uploaded last, and a primitive
is a clear, a picture, or either skipped because its vertices are not in memory.
Display sizes, formats and a failing host clock are left out.

### AsyncIo

Main and each worker are processes with a program counter (`io[t].step`). What
main does under `async_mutex` is one step; a worker's work on the descriptor,
which takes no lock, is one step per access to what others use in between: the
check of a read, the sectors read, `RawLoad` and `RawStore` of the position,
`Report` under the mutex. An open by a worker is two steps: that the slot holds a
raw-sector file, with its offset and length, and then its position (`OpenWork`,
`Placed`; all raw-sector files are alike in offset and length). The data that is read
and the names of files are left out; a failure of the host is one outcome.
`asked` and `got` number the requests for the refinement, `raced` remembers
where main read, or moved the position, under a working worker, until a seek
while none is at work.

### AudioMixer

The ring is modelled sample by sample, each sample being the side it belongs to
and the block it came from. The callback is one step (it holds the mutex); a
blocking output and a release are a call and a poll that repeats, with the mutex
free in between. Volumes and panning are left out. `SampleQueues` has the length
of a block as a variable, so that a push adds a whole block or nothing.

### GeLists

`Write` and the choice of stall addresses are the guest program's side
(external), from how `sceGeListEnqueue` and `sceGeListUpdateStallAddr` are used.
The commands that steer a list are modelled one by one, those that render are
one command. The loop of `mips_ge_run_list` takes one step per command. Whether a
bounding box is visible is part of the command. Left out are BASE (a list and what
it calls lie in the same 16 MB) and SIGNAL, which only sets a flag.

### UserMemory

One address that only moves up, three tables that draw on it with alignments of
their own. The 32-bit sum of `sceKernelAllocPartitionMemory` is taken modulo
`WordSize`.

### Hybrid

The program (`image`) is a sequence of instructions by their effect on control
flow. `Leaders` and `EndOf` are `partition_blocks`; the `Run*` actions are what
`translate_block` emits for each kind of instruction, `Interpret` is the
interpreter, `EnterBlock` and the guards are `mips_dispatcher_execute`. A block
runs several instructions, so the model enters a block in one step and runs each
instruction in one. Conditions read one flag, which one kind of instruction
toggles; a return address and one function pointer stand for the registers. An
import stub is compiled as the `jr $ra` that was in the file and interpreted as
the patched `syscall`. `Disciplined` is what a program must keep to (`WellFormed`,
`TargetsOutsideSlots`, `NothingAtZero`, no calls of data patterns): it is the
hypothesis of the proof, and TLC evaluates it for the programs of the instance.


## 3. The runs

Checked by TLC with 2 workers; each takes between a second and four minutes.

| Run | Instance | Shows |
|---|---|---|
| `dispatcher` | 3 threads, ids 0-2, a quantum of 2 blocks, two numbered waits of one tick, time 0-2; 40,992 states | one thread runs and timed waits are counted; no READY thread starves, whether the others yield before their quantum is over or not; timed waits end once their deadlines have passed, two at once included |
| `semaphores` | 3 threads, one semaphore of at most 2 units, two waits with or without timeout | a FIFO semaphore that loses no unit; `count` passes `max_count`, or a waiter that could go is left, only in the ways the properties name |
| `event_flags` | 3 threads, one flag of two bits, three kinds of need, timeouts | nobody waits for bits that are there, a taken bit is taken once, equal needs in order, copies fresh |
| `modules` | 4 slots, 3 of them with a stack window, ids 0-3; one module slot, one module id; a file with start and stop, one with neither; 958,657 states | thread ids stay unique, nobody waits for a thread that is over; who waits is past its call; only a thread preempted at a stub is moved by another's call; a thread has one part of a module in progress at a time; starts, stops and waits for an end come back when the thread is over |
| `syscall_return_caller` | 3 threads | *violated*: a thread is sent to another's return address |
| `loader` | 96 words of user memory, immediates of 4 bits, 8 programs (relocatable, fixed, flat, too long, failing) and 10 module files (3 good, 7 that fail each at another step), 2 module slots, 3 ids, 2 fallback entries; 69,852 states | addresses are moved with their carries, imports and exports are a module's own, nothing linked is overwritten, after any sequence of loads, failures and unloads |
| `display` | 2 ticks to a vertical blank, looked at up to 3 late, a counter that wraps at 3, one framebuffer with changing contents and one address without memory; 489,000 states | no older request wins; the counter keeps the time; waits end and what is drawn is shown |
| `async_io` | 2 descriptors, 3 requests, a raw file of one unit in an image of two, reads of two; 680,790 states | requests, workers and results match; reads stay in their file, and do so again once a seek has followed a race; main is never blocked for ever |
| `audio` | one channel, ring of 3 stereo or 6 mono frames, blocks of 1 or 2 frames | order, no loss, whole frames, whole blocks; polling calls return |
| `ge_lists` | every list of 3 commands (drawing, origin and offset, both outcomes of a bounding box, jumps back to the start, calls, end) with subroutines of 2 (jumps, bounding box jumps, calls, returns), call stack of 2, every portioning; 509,348 states | portions leave no trace; without jumps the call returns |
| `user_memory` | RAM of 24 cells, alignments 8, 4, 2; two slots per table | no overlap, all in RAM, one owner per id, pools know their holders |
| `hybrid` | every program of 5 words (3 plain and 7 turning instructions, 3 targets), one forced cell; 874,314 states | the mix runs as the processor does |

Why the bounds are enough. *Threads:* the interesting situations have a caller,
one thread it acts on and a bystander, hence three; the table's size matters only
for reuse and for the order round robin, both of which occur with three. A
slot more than there are stack windows, in `modules`, makes the case without a stack
window happen. *Quantum:* two blocks separate a thread that gives up the CPU before
its quantum is over, in its last block, and not at all.
*Semaphore and flag:* no handler touches two objects. One unit and two units are
what separates "first in the queue" from "can be served". *Clock:* one tick
separates set, not yet expired, expired and noticed late. *File I/O:* a
descriptor's slot and worker are disturbed by its own next request and by another
descriptor that reuses the slot. *Ring:* three frames allow full, empty and a
block that wraps in the middle. *Lists:* three cells let a call stand before the
stall, a stall inside and a resume behind it; two levels fill the stack. *RAM:*
it fills up in a few steps whatever is asked. *Modules:* the program's thread, a part it asked for
and one thread more, which is a second part or another caller that stops or unloads
the module while its `module_start` has yet to run; a thread that has ended gives its
slot back. *Loads:* room for a program and up to three modules of two or three
alignment units, so that one that fails lies between two that do not, and memory
runs out; two fallback entries fill up with the first two files. *Vertical
blanks:* three ticks late is more than one period, so that two blanks pass at once,
and a counter of three values wraps. *Programs:* five words hold a
branch with its slot, a target on either side, and the entry of a block between.

Counters that the code lets grow are bounded in guards: `MaxId`, `MaxSeq`,
`MaxTime` (scheduler), `MaxAsked` (requests), `MaxSteps` (recorded list
commands), `MaxId` (memory ids), `MaxModule` (module ids), `MaxLate` (lateness
of a look at the vertical blank).

Deadlock is checked in `async_io`, `audio` and `ge_lists`. The others may stop:
the scheduler when no thread is left (or a bound is reached), the memory when it
is full, a program when its thread ends, the loader when the ids are used up or the
boot fails, the display when the window is closed.

### Fairness

* `Dispatcher`: weak fairness of `Preempted`, because the check follows every block
  at once (`mips_dispatcher.c:347-352`; no other block runs while it is due), and
  of the blocks themselves, because the loop goes on. `Compute` is always a block,
  so no guest call is ever forced, nor is the clock. The count does *not* survive a
  switch (`mips_dispatcher.c:225-228`): threads that yield to each other within
  their quanta are never preempted, and it is the round robin that then reaches
  everybody. `ReadyThreadsRun` assumes that dispatch is not left suspended;
  `ExpiredWaitsEnd` that some thread is READY again and again while dispatch is
  enabled, because deadlines are looked at only by a scheduler that runs. A quantum
  of 0 (`MIPS_THREAD_QUANTUM=0`, a setting for debugging) turns preemption off; then
  neither holds, and the model has no such quantum. `Scheduler`, and the modules
  that extend it for objects, have no liveness properties and no fairness.
* `AsyncIo`: weak fairness of each worker and of main inside a call (the host
  schedules both).
* `AudioMixer`: weak fairness of the callback and of the polling loop. With no
  device the system is `silent` and polls nothing.
* `GeLists`: weak fairness of the command loop.
* `Display`: weak fairness of `Service`, because the dispatcher calls it every
  1024 dispatches (`mips_dispatcher.c:209`) and the loop of a wait in each turn
  (`main_v35.c:667`), and of `Tick`, the host's clock. Nothing is assumed of the
  program.

### Restrictions of the instances

`hybrid` leaves out programs in which some word reads as a branch to a delay
slot (`SlotsApart`), that branch to link address zero (`ZeroApart`), or that
call a data pattern (`DataApart`); `audio` leaves out blocks longer than the
ring; `user_memory` sizes near 2^32; `ge_lists` jumps of a list to a part of it
that the program has not released yet (all jumps of the list go back to its start).
These are where the code departs from what
is promised; see the next section.


## 4. Disagreements found

Shown by a run:

`syscall_return_caller`: the fallback at `main_v35.c:1558` compares `cpu->pc`
   with its value before the call, after a blocking handler has switched
   threads. A thread that was preempted at the same stub has that very pc and is
   sent to the return address of the thread that blocked, its own call undone.

Seen while modelling; the instances leave these cases out, or no property is
about them:

* `sceSysMem.c:117` checks a 32-bit sum that wraps for sizes near 2^32, so the
  check announced at line 116 lets a block through that leaves RAM.
* `partition_blocks` starts a block at any word that any word, code or data, aims
  at when read as a branch. If that is a delay slot, `translate_block` emits the
  branch without it (`aot_recompiler_v5.py:578`).
* The machine stops while threads wait (`sceKernelThread.c:816`), where
  `main_v35.c:1636` expects the next waiting thread to be woken.
* A terminated thread wakes its waiters as DORMANT, not FREE
  (`sceKernelThread.c:1110` against 1201).
* The ring is one second of stereo, not the two of `mips_audio.c:116`; a longer
  block polls for ever in `mips_hle.c:2359`.
* `sceGeDrawSync` reports success for a list held up at its stall address
  (`mips_hle.c:2291`).
* A jump past the stall address is not held up: the loop of `mips_ge_run_list`
  stops only at the stall address itself (`mips_ge.c:844`), so the engine reads
  cells that the program has not released.
* The allocators reach into the stack windows of started threads
  (`sceKernelThread.c:1015`).
* A branch to the first word of the program keeps link address zero and leaves
  the program (`aot_recompiler_v5.py:61`).
* A translated call of a data pattern goes on behind the call
  (`aot_recompiler_v5.py:631`), an interpreted one ends the thread.
* `relocated_gp` is one variable for all modules: a thread that the program
  creates after a load starts with the `$gp` of the module loaded last
  (`sceKernelThread.c:1043`); only module threads get their own.
* `sceKernelUnloadModule` does not ask whether the module is started
  (`main_v35.c:1133`). Its code stays in memory, so a thread in it goes on.
* Import tables are checked against the hull of everything loaded, not against
  the module's own segments (`mips_linker.c:30`); a malformed table of one module
  could name stubs in another. The files of `loader` have their stubs in
  themselves.
* With the fallback table full an import stays unpatched although the load
  succeeds (`mips_linker.c:999`).
* A module loaded far enough up lies where the memory allocators hand out blocks;
  neither looks at the other.
* The check for a preemption compares a count that the block may have filled for
  another thread: a thread that yields in the last block of its quantum has the next
  one preempted before that runs a block (`mips_dispatcher.c:348`). The round robin
  comes back to it.
* `is_started` is set before `module_start` has run (`main_v35.c:1036`), and
  `sceKernelStopModule` asks for nothing else: called by another thread meanwhile,
  `module_stop` runs before or beside `module_start`. Only the thread that asked for a
  part is kept from asking for the next (`PartsFollowOneAnother`).
* A read or seek of a raw-sector file while its worker is at work may leave its
  position behind the end, where `raw_length - raw_position` underflows
  (`mips_hle.c:747`): this read, and those after it, go on beyond the file, until the
  next seek while no worker is at work (`RawReadsInFile`).
* `sceIoWriteAsync` (`main_v35.c:795`) writes at once and puts the result in a table
  that nothing of the asynchronous calls in `mips_hle.c` looks at.
* What the program writes into a framebuffer that stays selected is not shown:
  only a new `sceDisplaySetFrameBuf` marks it (`mips_video.c:597`). A clear after a
  picture in the same frame is presented as it is.


## 5. What is proved

All theorems hold for every value of the constants that satisfies the assumptions
of the module: any table sizes, any number of threads, any delays, counts, bits,
sizes and rings, any bounds. Where a theorem needs more than that, it says so
(`NoWrap`, `JumpsReleased`, `Disciplined` and `SoundFiles`, below). The assumptions
are named in the modules and TLC evaluates them in every run.

| Theorem | Property | Statement |
|---|---|---|
| `Scheduler_proofs` | | |
| `TypeCorrect` | `TypeOK` | every variable keeps its type |
| `OneThreadRuns` | `OneRunningThread` | exactly one TCB is RUNNING and `current_thread_id` names it, or the machine has stopped |
| `IdsStayUnique` | `ThreadIdsUnique` | thread ids are unique and never reused |
| `NoStaleWaits` | | a thread that does not wait carries no wait data (a lemma of the others; no run checks it on its own) |
| `EndWaitersAreWoken` | `EndWaitersHaveTarget` | whoever waits for a thread's end waits for one that has not ended |
| `TimedWaitsStayCounted` | `TimedWaitsCounted` | `g_timed_wait_count` is the number of TCBs with a deadline |
| `WaitObjects_proofs`, semaphores | | |
| `NoWaitsOnDeletedSemas` | `STypeOK` | the table's type; who waits, waits for a semaphore that exists and could serve it |
| `CountsStayBounded` | `CountExceedsOnlyByExpiry` | the count passes `max_count` only in a signal that counted an expired waiter |
| `SignalsServeAllTheyCan` | `LeftBehindOnlyByDesertion` | a waiter becomes servable, and unserved, only when one before it gave up |
| `SemaphoresAreFifo` | `ImplementsFifo` | **refinement**: every step is, for any one semaphore, a step of `FifoSemaphore` or none |
| `WaitObjects_proofs`, event flags | | |
| `FlagsTyped` | `ETypeOK` | types; nobody waits on a flag that is not there |
| `NobodyIsLeftBehind` | `NobodyLeftBehind` | nobody waits for bits that are there |
| `CopiesStayFresh` | `CopiesFresh` | a waiter's copy of the pattern is the flag's |
| `ServedInTurn` | `SameNeedsInOrder` | equal needs are served in the order of the waits |
| `NoBitServesTwice` | `BitsTakenOnce` | one set gives no bit to two who take it |
| `Programs_proofs` | | |
| `WaitersLeftTheStub` | `WaitersAreBack` | a thread that waits is past its system call |
| `OthersStayUnlessAtStub` | `OthersMovedOnlyAtStub` | a call moves another thread only if that was preempted at a stub |
| `PartsInSequence` | `PartsFollowOneAnother` | a thread has one `module_start` or `module_stop` in progress at a time |
| `CallersWaitForTheEnd` | `CallsReturnWhenOver` | a start, a stop and a wait for an end come back only when the thread is over, or their caller was terminated |
| `BlocksRunAsTheProcessor` | `ImplementsAllegrex` | **refinement**: every step of blocks, interpreter and dispatcher is a step of `Allegrex` or none, for `Disciplined` programs |
| `AsyncIo_proofs` | | |
| `DescriptorsMatchWorkers` | `ATypeOK` | descriptors, worker threads and their handles match at every step of both |
| `ReadsStayInFile` | `RawReadsInFile` | no read of a file in the disc image leaves the file, unless main read or moved in it under its worker and no seek in peace has followed |
| `DescriptorsKeepThePromise` | `ImplementsHandle` | **refinement**: every step is a step of `AsyncHandle` or none |
| `AudioMixer_proofs` | | |
| `FramesStayWhole` | `MTypeOK` | the counters of a ring agree and stereo rings hold whole frames |
| `RingsAreQueues` | `ImplementsQueues` | **refinement**: every step is a step of `SampleQueues` or none |
| `UserMemory_proofs` | | |
| `TablesTyped` | `UTypeOK` | types; an id names one block or pool |
| `AreasStayDisjoint` | `AreasDisjoint` | areas never overlap and lie in RAM, under `NoWrap` |
| `HoldersStayKnown` | `PoolsKnowHolders` | a pool's books say who holds which block |
| `Loader_proofs` | | all for `SoundFiles` |
| `LoaderInvariant` | | what was linked lies below the next load and stays as its load left it |
| `CodeStaysKept` | `CodeKept` | no load, complete or failing, writes to a word of what was linked before |
| `AddressesStayMoved` | `AddressesMoved` | data words and HI16/LO16 pairs hold the file's addresses, moved by the base of their segment |
| `ModulesStayLinked` | `ModulesLinked` | each import has its own system call, each module exports of its own |
| `Graphics_proofs` | | |
| `RequestsKeepOrder` | `NothingOlderShown` | no framebuffer request is overtaken by an older one |
| `CounterTellsTime` | `CounterKeepsTime` | the counter, with the vertical blanks still to be counted, is the number of periods that have passed |
| `StacksStayInBounds` | `GTypeOK` | types; the call stack of a list stays in its array, and a return goes behind a call |
| `StallsMakeNoDifference` | `StallsLeaveNoTrace` | however a list is portioned, its commands run as if it had been complete from the start, under `JumpsReleased` |

### Scheduler

Assumptions: at least one slot, positive delays, natural bounds.

**The invariant.** `Inv` is the conjunction of the type, the count of timed
waits, and `Sound(threads, current, nextId)`, which joins "one thread runs",
unique ids, tidy TCBs and "every waiter for an end has a live target". None is
inductive alone: a context switch saves the thread that `current_thread_id`
names, so it needs that one thread runs and that ids are unique; the wake-up at
an exit compares ids, so it needs that no other thread has the id; the counter
goes down by the deadlines in a set of slots, so it needs that nobody else's
deadline is erased (tidy TCBs); and `hle_scheduler_wake_expired` does nothing
when the counter is zero, which is right only if the counter is.

**The argument.** The proof follows the shape of the code: calls transform a copy
of the tables and hand it to `RunScheduler`. Lemmas say what `ClearWaits` and
`Wake` return; that waking threads (`Wakes`) keeps a table consistent, whoever is
woken; that a table which is consistent but for the running thread is sound after
`RunScheduler` (`RunSchedulerSound`), by the cases of its search; then one lemma
per call shows that the table it hands over is of that kind. `NextInv` collects
them, one step per disjunct of `Next`.

**What others may rely on.** The components that extend the scheduler need to know
what its calls do to threads that do *not* make them. `Passes(s)` says it for slot
s: who waits after the step waited before with the same TCB, or is the caller and
has just begun; who waited for an end and goes on had a deadline or its target is
over; who waited for a semaphore or a flag and waits no more timed out, was
terminated or is gone. `NextPasses` proves it of every call. In the other
direction, `Awoken` tables (the table after some waiters were woken) cover what
their calls do: `AwokenKeepsInv` and `BlockInOrderKeepsInv` give back `Inv`, and
who waits, after a call that wakes and after one that blocks.

### Semaphores

`SemaInv` adds to `Inv` that each waiter waits for a semaphore that is active and
whose maximum is not below what it asks for, that no two waiters have the same wait
sequence, and that all sequences are below `nextSeq`. The order is needed because a
signal serves waiters by what they ask for *together* with those before them. That
sum is a recursive function over sets; `Totals` shows that it exists, and is
one, by taking a smallest set for which it would not, and `TotalPlus`,
`TotalGrows` and `TotalCounts` are what the proofs use of it. Two lemmas carry the
theorems. `GrantedLeaves`: after a signal less is left than the first of the
unserved asks for, so nobody is left who could go. `ServedWithinMax`: if no
expired waiter was counted, the units above the maximum are at most one per
waiter, so either all are served and take at least one each, or what is left is
less than somebody's need and so less than the maximum. All other calls only
shorten the queue, lower the count or put somebody last (`ModestKeeps`,
`WaitSemaBlocksKeeps`).

**The refinement.** `FifoSemaphore` knows of a waiter what it needs and who waits
before it; the mapping (`Queue`) reads both from the thread table, where the
handler finds the order in `wait_sequence`. The theorem is about the semaphore
`Observed`, a constant of which nothing is assumed but that it is one of the
table, so it holds of each. Three lemmas do the work. `QueueAfterLeave`: whoever
leaves, by whatever call, the others keep their places; every call of the
scheduler and of other semaphores is such a step (`LeaveStep`). `JoinStep`: who
blocks comes behind all those that expiry left, even if it then expires itself
while nothing else runs. `ReleaseStep`: who is served by a signal is a front of
the queue (`GrantedFront`) that the units pay for (`GrantedPays`, by the latest of
them), and the next asks for more than is left (`GrantedLeaves`). It needs that
counts are never negative, which each step shows along the way (`FifoStep`).

### Event flags

`EInv` adds to `Inv` that each waiter waits for a flag that exists, for what the
flag does *not* have, with a fresh copy of the pattern, and that a flag which takes
one waiter has at most one. The loop that serves waiters (`Serving`) is a recursive
function of the rounds; `ServingIs` shows that it exists and `RoundKeeps` that a
round keeps what was served in order, nobody sharing a bit; after as many rounds as
there are waiters nobody is left whom the pattern satisfies (`ServingServes`),
because clearing bits never makes another waiter match (`LessMatchesLess`). Nobody
is left behind because the three places that change a pattern or begin a wait
each look at the other half: a set serves, a clear only takes away, a wait that
could be answered does not block.

### System calls and modules

`ReturnInv`: only the caller begins to wait, and its pc was set to its own code
before it gave up the CPU. The theorem about others, `OthersStayUnlessAtStub`, is
the half of "a call returns to its caller" that the code does keep; the run
`syscall_return_caller` shows the other half violated. `ModuleInv` adds to `Inv`
that waits for an end have no deadline, so that only the end of the thread or a
termination of the caller ends them (`CallersWaitForTheEnd` is this and what
`Passes` says of a wait for an end), and that the caller of each part in progress
waits for its thread (`Awaited`). Since a thread waits for one thread at a time,
and asks for a part only while it runs, its parts follow one another.

### Asynchronous file I/O

`FilesInv` has, for each descriptor, what `async_mutex` and the joins keep true at
every point of every interleaving: the busy flag is up exactly while the worker
works (`Matched`), what is set belongs to the file that has the slot now (`Tidy`),
an open descriptor without a file has an open that is under way or has failed
(`Explained`), the result to be collected is that of the latest request (`Latest`),
and the position of a raw file that main and a worker did not both touch is as its
reader left it (`Alone`). Each step of main or of a worker disturbs one descriptor
(`OthersStay`), which is why the invariant of all the others is one lemma. The
refinement maps a descriptor to the state of its request (`Status`) and takes the
steps that change no status for stutters.

### Audio

`MixInv`: in every ring `write` is where `read` and `avail` put it (`Agrees`), a
stereo ring holds whole frames (`Framed`), and the call that polls a channel finds
it reserved. The ring is a queue through `QueueOf`: the i-th sample queued is at
`read + i - 1`, wrapped. `PushedExtends` and `TakenShifts` say that pushing writes
behind all of them, wherever the end of the buffer lies, and that taking shifts
them; the refinement of `SampleQueues` is these two, step by step. Assumptions: a
ring of at least one frame, at least one length to ask for, at least one channel.

### User memory

`TInv` has the types, one counter for the ids of blocks and pools, and pools within
RAM; `AreaInv` that all areas are apart and below the address from which the next
one is cut; `HolderInv` that a block is in the books of its pool exactly while
somebody holds it. `AreasStayDisjoint` assumes `NoWrap`: no size asked for is so
near to 2^32 that the sum of `sceKernelAllocPartitionMemory` wraps. Without it the
theorem is false, see section 4; all sizes up to some 3.8 GB satisfy it, and
`TablesTyped` and `HoldersStayKnown` do without.

### Loader

Assumptions (`LayoutAssumption`): user memory does not begin at address zero and has
no more words than an address can count, both load addresses lie in it, an immediate
has at least two values, and the table of known NIDs is finite. Nothing bounds the
number or the size of files, segments, sections, libraries, loads and unloads.

**The hypothesis.** `SoundFiles` says of the files what a linker makes of a module,
and nothing of what the loader does with them. The segments of a file do not
overlap; a word has at most one relocation, and both halves of a pair name one
base; a pointer that linking follows is relocated as a word, or is not relocated
and then below user memory (so that `relocate_addr` can tell that it must still be
moved); exports and stubs lie in the file, and stubs are nobody's else: no
relocation moves them, no two libraries share them, no pointer lies among them.
The last part is asked only of libraries that are linked at all, so malformed
tables, bad entry points, bad sizes and bad relocation sections are all covered, and
so is a program linked for a fixed address, whose pointers may lie anywhere. All
files of the instance, the failing ones included, satisfy it:
`InstanceAssumption` of `MCLoader` has TLC evaluate it. Without it the properties
are false: two relocations of one word cannot both hold, and a table that names the stubs of
another module (section 4) overwrites its imports.

**Folds.** Every pass of a load is a loop over a sequence: the segments, the sections
and the entries of each, the exports, the libraries and the stubs of each. A fold is
a recursive function over sets of positions; `FoldExists` and `FoldChain` show once,
by a first number of positions where it would fail, that it is the end of a chain of states, each one step after the one before. A pass is then
described by a predicate of a chain (`PutTo`, `LibrarySteps`, ...) and what holds of
the n-th state is proved of all by `CountUp`, induction for one set of numbers.

**Arithmetic.** With `Half` and `Word` any numbers, quotients and remainders come from
the library's facts on division only (`DivMod`, `Splits`). The one fact that matters
is `HighOf` against `Signed`: a high half corrected by the borrow of the low one
composes, with that low half, the sum that was to be stored, modulo `Word`.

**A load.** `LoadElfEffect` collects the stages. Placing puts each segment's words in
place, writes nothing outside the segments and leaves the hull around them
(`PutEffect`). Relocating moves each word by what its one entry says, from the words
as they were before the section (the new words of a section depend on `op` only),
and leaves all others (`FileMoved`). So a pointer is worth what it *means* (`Meant`)
when linking follows it, and the stubs of a library are its own words: patching them
changes no address (`Settled`) and no stub of another library. The fallback table only
grows, and the code in a stub is taken before the table grows, so its entry names it.

**The invariant.** `LInv`: types; before the boot nothing is linked; what was linked
lies in user memory, below both the hull's end and `nextLoad`, and is `Settled`; and each module
in the table has an export of its own or none. "Below `nextLoad`" is what makes it
inductive: a load at `nextLoad`, wherever it fails, writes from there upwards only,
and `nextLoad` is above the end of the hull, which never shrinks, not even when a
load fails. The mutant that takes the end of the last segment instead breaks just this.
`OldStays` carries the old files over a step, `LoadElfEffect` gives the new one.

### Display

Assumptions: the period is positive, the counter is wider than one late look can
count, "nothing" is neither a number nor an address.

**Requests.** The framebuffer that is selected is the newest request, or the
newest request is latched. The invariant `RequestInv` adds only that the record of
`MIPS_VideoSystem` has an address. The lemmas follow the calls of `mips_video.c`:
beginning a frame, drawing and presenting keep the address, a request sets it; so
only `ShowFrame` and the requests can disturb the order.

**The clock.** `CounterKeepsTime` says nothing about when the next vertical blank
comes, so it is not inductive. `ClockInv` adds the phase, `OnTime`: the next
vertical blank comes at a multiple of the period, and the counter is one less than
that multiple, up to its width. A tick keeps it (`TickKeepsTime`, with the wrap of
the time), a late look keeps it however late (`CountKeepsTime`, `Late`), and it
gives the property (`CountedTells`). These are lemmas on integers; the lemmas on
the actions cite them.

### Display lists

Assumptions: a list of at least one cell, programs of commands, natural bounds.

`StacksStayInBounds` needs nothing but the type itself with the program's
(`TypeInv`); `ExecutedIs` says once what a command does to the fields of the
engine, so that no proof opens its nine cases again.

`StallsMakeNoDifference` compares the engine with one that was given the whole list
at once (`Unstalled`, a function of the number of commands). `Whole` names that
function outside of the operator; `UnfoldingExists` and `WholeIs` show, by a first
number for which it would fail, that it exists and that its value at `n + 1` is one
command after its value at `n`. The invariant `ListInv` has two parts. `TraceInv` is
the property at every number of commands, with the engine's other registers
(`Same`). `StallInv` is why a step keeps it: a list that is held up is written at
least up to its stall address, and the cell the engine is at, and every cell it
will return to, is released. So what it fetches is what the whole list has there.

The hypothesis `[]JumpsReleased` says that no command jumps to a cell of the list
behind the stall address. Without it the theorem is false, see section 4: the loop
compares pc with the stall address for equality only. Calls, returns, the origin
and jumps into subroutines or back into what is released are all covered; the lists
of the run satisfy it.

### Recompiler, interpreter and dispatcher

Assumptions: one segment of at least one word from link address zero, the load
address above all link addresses (with the two words behind the last), the traps
beyond the program. `Disciplined` programs: a delay slot behind each jump holds no
jump; no word that reads as a jump aims at a delay slot; nothing branches to link
address zero or needs the interpreter there; a program that calls through a
pointer is never given the data pattern. Each is a case of section 4 where the two
executors do differ; which instructions a program has, where it jumps to, which of
its cells are forced into the interpreter and where its thread starts are free.

`Seen` is the state of the processor that the hybrid state stands for, and `After`
what the instruction at its pc makes of it; `AfterIsAStep` says that this is a step
of `Allegrex`. The invariant `HybridInv` joins three facts. `Aligned`, of the
processor alone: only in a delay slot is `next_pc` anything but the word behind pc,
and pending targets, the return address and the pointer lie in no delay slot; the
processor keeps it by itself (`AfterAligned`). `Loadable`, of the program. And
`BlockInv`, of the block that runs: it ends at a leader or with the program and has
no leader inside, so it has no stub inside either (`LeadersAre`: partition_blocks
starts a block at each stub) and never ends between a jump and its slot; a jump is
pending only at a slot. From that each `Run*` action is shown to do `After`
(`JumpIs` and `JumpStep` for the five that jump, `LeaveAtIs` for those that leave
the block), the interpreter to do it whether its addresses are link addresses or
not (`InterpretedIs`), and `EnterBlock` and `FallThrough` to leave `Seen` alone.
`FallBack` and `RunDelaySlot` are where it would go wrong: an untranslated
instruction runs in the interpreter at link addresses, which stand for themselves
unless they are zero.

### Only model-checked

* Liveness, everywhere: it needs fairness and `ENABLED`, which the prover does not
  handle. These are `ReadyThreadsRun` and `ExpiredWaitsEnd` of `Dispatcher`,
  `MainReturns` of `AsyncIo`, `CallsReturn` of `AudioMixer` and of `GeLists`, and
  `WaitsAndFramesEnd` of `Display`.
* The violation of `ReturnsToCaller`, which is a trace.

Every other property of a run is the subject of a theorem.


## 6. What is not modelled, and why

* Instruction arithmetic (integer, FPU, VFPU), vertex, texture and pixel
  conversion, decryption, decompression and the parsing of file formats:
  functions on data without state; tests reach them better.
* `sceIoWrite` and `sceIoWriteAsync` (`main_v35.c:777-813`), which write to the host's
  descriptor at once and touch no state of `AsyncIo`; closing, reading and seeking
  with them in between are as without.
* The instructions of the interpreter that the dispatcher does not count, a quantum of
  0, and the display list commands BASE and SIGNAL, see section 2.
* SAS: voices only keep parameters. Callbacks: nothing ever notifies one, so
  `sceKernelCheckCallback` is a yield, which `Scheduler` has. UMD, controller,
  power and utility calls: constants.
* `main_v35OLD.c` is not built; `python_scripts/` analyse logs offline.


## 7. Plan

Done: all modules of section 2, and the proofs of section 5.

Next, in this order:

1. Runs for the disagreements of section 4 that have none.
2. `Loader` with the memory allocators and the stacks, to say which loads and
   allocations exclude each other.
