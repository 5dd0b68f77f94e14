------------------------------- MODULE Loader -------------------------------
(***************************************************************************)
(* Where programs and modules are put in user memory and how they are      *)
(* linked: load_eboot, load_prx_elf_buffer and load_elf_buffer of          *)
(* mips_linker.c, mips_apply_relocations of mips_reloc.c, and the calls of *)
(* main_v35.c that load and unload modules.  An address counts words; an   *)
(* instruction is a word whose low half is its immediate, so the halves of *)
(* an address in an instruction pair carry as they do in the code.  The    *)
(* threads that run modules are in Modules.                                *)
(***************************************************************************)
EXTENDS Integers, Sequences, SequencesExt, FiniteSets

CONSTANTS
  Half,          \* the size of an immediate, and the alignment of modules (2^16)
  UserStart,     \* the first word of user memory
  UserEnd,       \* behind its last one
  LoadBase,      \* PSP_USER_LOAD_BASE
  FirstModule,   \* the lowest address for modules (0x08900000)
  Programs,      \* the files to boot
  Files,         \* the module files
  Known,         \* system call code of each NID that has its own
  MaxFallbacks,  \* MAX_PATCHED_FALLBACKS
  ModuleSlots,   \* MAX_LOADED_MODULES
  MaxModule      \* bound: module ids handed out

ASSUME LayoutAssumption ==
  /\ Half \in Nat \ {0, 1} /\ UserStart \in Nat \ {0}
  /\ {LoadBase, FirstModule} \subseteq UserStart .. UserEnd
  /\ UserEnd \in Nat /\ UserEnd <= Half * Half
  /\ MaxFallbacks \in Nat /\ IsFiniteSet(DOMAIN Known)
  /\ \A nid \in DOMAIN Known : Known[nid] \in 1 .. Cardinality(DOMAIN Known)

VARIABLES
  mem,        \* user memory
  hull,       \* g_binary_segment_start, g_binary_segment_end
  nextLoad,   \* g_next_module_load_addr
  fallbacks,  \* fallback_stubs[]: the NIDs, fallback_stubs_count is the length
  exported,   \* last_module_start, last_module_stop and last_module_gp
  gp,         \* relocated_gp
  modules,    \* loaded_modules[]
  nextModule, \* next_module_id, counted from zero
  phase,      \* "start", "running", "exited"
  placed      \* history: every file that was linked, and its load bias

lvars == <<mem, hull, nextLoad, fallbacks, exported, gp, modules, nextModule, phase, placed>>

Ram == UserStart .. UserEnd - 1
Word == Half * Half

(* (code << 6) | 0xC: not a word of any file. *)
Syscall(code) == Word + code
FallbackCode(n) == Cardinality(DOMAIN Known) + n

(* A file has a form: "elf", "sce" (an ELF behind a ~SCE header), "packed" *)
(* (one compressed in a ~PSP container), "flat" or another; segments [at,  *)
(* words, zeros, exec] (zeros: p_memsz less p_filesz); relocation sections *)
(* [good, entries] with entries [seg, off, rel, type]; and a module info   *)
(* with the places of the pointers that linking follows: exports [name,    *)
(* at] and libraries [good, at, nids].                                     *)
NoModule == [id |-> -1]
NoExports == [start |-> 0, stop |-> 0, gp |-> 0]

-----------------------------------------------------------------------------
(* What a load changes, and its status: 0, or the first error.             *)
Loading == [mem |-> mem, hull |-> hull, fallbacks |-> fallbacks,
            exported |-> exported, gp |-> gp, status |-> 0]

Failed(k, status) == [k EXCEPT !.status = status]

(* A step of the load is taken unless an earlier one failed. *)
Then(k, Step(_)) == IF k.status = 0 THEN Step(k) ELSE k

InHull(k, a) == k.hull[1] <= a /\ a < k.hull[2]

Lesser(a, b)  == IF a < b THEN a ELSE b
Greater(a, b) == IF a < b THEN b ELSE a

(* memcpy and memset of one segment; the hull only grows. *)
Put(k, to, words, zeros) ==
  [k EXCEPT
    !.mem = [a \in Ram |->
               IF a < to \/ a >= to + Len(words) + zeros THEN @[a]
               ELSE IF a < to + Len(words) THEN words[a - to + 1] ELSE 0],
    !.hull = <<IF @[2] = 0 THEN to ELSE Lesser(@[1], to),
               Greater(@[2], to + Len(words) + zeros)>>]

PutSegment(k, seg, bias) ==
  LET to == seg.at + bias
  IN  IF seg.zeros < 0 THEN Failed(k, -8)
      ELSE IF to < UserStart \/ to + Len(seg.words) + seg.zeros > UserEnd THEN Failed(k, -9)
      ELSE Put(k, to, seg.words, seg.zeros)

PutSegments(k, f, bias) ==
  FoldLeft(LAMBDA x, seg : Then(x, LAMBDA y : PutSegment(y, seg, bias)), k, f.segs)

(* The entry point must lie in an executable segment. *)
CheckEntry(k, f, bias, mayMiss) ==
  IF /\ f.segs # <<>>
     /\ \/ mayMiss /\ f.entry = 0
        \/ \E i \in DOMAIN f.segs :
             f.segs[i].exec /\ f.entry \in f.segs[i].at ..
                                 f.segs[i].at + Len(f.segs[i].words) + f.segs[i].zeros - 1
  THEN k ELSE Failed(k, -10)

-----------------------------------------------------------------------------
(* mips_apply_relocations *)

SegmentAt(f, bias, i) == IF i \in DOMAIN f.segs THEN f.segs[i].at + bias ELSE 0
Target(f, bias, e)    == e.off + SegmentAt(f, bias, e.seg)

Low(w)     == w % Half
Signed(w)  == IF Low(w) < Half \div 2 THEN Low(w) ELSE Low(w) - Half
WithLow(w, low) == (w - Low(w)) + (low % Half)
Jump == Word \div 2

(* Mutant of HighOf: the low half is taken for unsigned. *)
HighUnsigned(full) == (full \div Half) % Half

(* The half that gives full together with a sign-extended low half. *)
HighOf(full) == ((full - Signed(full)) \div Half) % Half

(* The entry r of a section with the words op as they were before it.      *)
(* A HI16 takes the low half from the next LO16 or 16; without one, and    *)
(* for the types 0 and 7, the word stays.                                  *)
Moved(es, op, valid, r, to) ==
  LET w   == op[r]
      los == {t \in r + 1 .. Len(es) : es[t].type \in {1, 6} /\ t \in valid}
  IN  CASE es[r].type \in {1, 6} -> WithLow(w, w + to)
        [] es[r].type \in {2, 3} -> (w + to) % Word
        [] es[r].type = 4 -> (w - (w % Jump)) + ((w + to) % Jump)
        [] es[r].type = 5 /\ los # {} ->
             LET lo == CHOOSE t \in los : \A u \in los : t <= u
             IN  WithLow(w, HighOf((Low(w) * Half + Signed(op[lo]) + to) % Word))
        [] OTHER -> w

(* All words of a section are read before the first one is written. *)
RelocateSection(k, f, bias, section) ==
  LET es    == section.entries
      valid == {r \in DOMAIN es : es[r].seg \in DOMAIN f.segs
                                  /\ InHull(k, Target(f, bias, es[r]))}
      op    == [r \in valid |-> k.mem[Target(f, bias, es[r])]]
      Apply(m, r) == IF r \notin valid THEN m
                     ELSE [m EXCEPT ![Target(f, bias, es[r])] =
                            Moved(es, op, valid, r, SegmentAt(f, bias, es[r].rel))]
  IN  IF ~section.good THEN Failed(k, -11)
      ELSE [k EXCEPT !.mem = FoldLeft(Apply, @, [r \in DOMAIN es |-> r])]

Relocate(k, f, bias) ==
  FoldLeft(LAMBDA x, section : Then(x, LAMBDA y : RelocateSection(y, f, bias, section)),
           k, f.relocs)

-----------------------------------------------------------------------------
(* Linking *)

(* relocate_addr: pointers are relative or were relocated before. *)
RelocateAddr(a, bias) ==
  IF a = 0 \/ a >= UserStart THEN a ELSE a + bias

PointerAt(k, at, bias) == RelocateAddr(k.mem[at + bias], bias)

(* find_module_start_export: of several exports of a name the last counts. *)
FindExports(k, info, bias) ==
  LET Export(x, e) == LET a == PointerAt(k, e.at, bias)
                      IN  IF InHull(k, a) THEN [x EXCEPT ![e.name] = a] ELSE x
      own == RelocateAddr(info.gp, bias)
  IN  [k EXCEPT !.gp = IF own # 0 THEN own ELSE @,
                !.exported = FoldLeft(Export, [@ EXCEPT !.gp = own], info.exports)]

Patched(k, at, code) == [k EXCEPT !.mem = [@ EXCEPT ![at] = Syscall(code), ![at + 1] = 0]]

(* Mutant of Fallback: the entry counts before its code is taken. *)
FallbackLate(k, at, nid) ==
  LET n == [k EXCEPT !.fallbacks = Append(@, nid)]
  IN  Patched(n, at, FallbackCode(Len(n.fallbacks) + 1))

Fallback(k, at, nid) ==
  [Patched(k, at, FallbackCode(Len(k.fallbacks) + 1)) EXCEPT !.fallbacks = Append(@, nid)]

(* A stub is two words; NIDs without a system call get one by their place  *)
(* in the fallback table, and none when it is full.                        *)
PatchStub(k, at, nid) ==
  IF nid \in DOMAIN Known THEN Patched(k, at, Known[nid])
  ELSE IF Len(k.fallbacks) < MaxFallbacks THEN Fallback(k, at, nid) ELSE k

(* A malformed library fails the load, and the walk over the libraries     *)
(* ends there; behind one whose name cannot be read the code looks for     *)
(* more libraries from the next word on, which is left out.                *)
LinkLibrary(k, lib, bias) ==
  LET stubs == PointerAt(k, lib.at, bias)
      Link(x, j) == PatchStub(x, stubs + 2 * (j - 1), lib.nids[j])
  IN  IF ~lib.good \/ lib.nids = <<>> \/ ~InHull(k, stubs) \/ ~InHull(k, stubs + 2 * Len(lib.nids) - 1)
      THEN Failed(k, -12)
      ELSE FoldLeft(Link, k, [j \in DOMAIN lib.nids |-> j])

(* is_valid_module_info: attributes and name, and a gp in user memory. *)
ValidInfo(info, bias) == info.good /\ RelocateAddr(info.gp, bias) \in Ram \cup {0}

LinkModule(k, f, bias) ==
  IF ~ValidInfo(f.info, bias) THEN k
  ELSE FoldLeft(LAMBDA x, lib : Then(x, LAMBDA y : LinkLibrary(y, lib, bias)),
                FindExports(k, f.info, bias), f.info.libs)

-----------------------------------------------------------------------------
(* load_elf_buffer.  Nothing of a load that fails is taken back. *)
LoadElf(k, f, bias, mayMiss) ==
  LET Segments(x) == PutSegments(x, f, bias)
      Entry(x)    == CheckEntry(x, f, bias, mayMiss)
      Relocs(x)   == Relocate(x, f, bias)
      Link(x)     == LinkModule(x, f, bias)
  IN  IF ~f.headers THEN Failed(k, -7)
      ELSE Then(Then(Then(Segments(k), Entry), Relocs), Link)

(* A ~PSP payload without an ELF is copied to the base as it is. *)
LoadFlat(k, f) ==
  LET words == f.segs[1].words
      put   == Put(k, LoadBase, words, 0)
  IN  IF LoadBase + Len(words) > UserEnd THEN Failed(k, -5)
      ELSE IF InHull(put, LoadBase + f.entry) THEN put ELSE Failed(put, -10)

RoundUp(a) == ((a + Half - 1) \div Half) * Half

Take(k) ==
  /\ mem' = k.mem /\ hull' = k.hull /\ fallbacks' = k.fallbacks
  /\ exported' = k.exported /\ gp' = k.gp

(* load_eboot in main: the emulator ends when it fails.  A program linked  *)
(* for a fixed address is not moved.                                       *)
Boot(f) ==
  LET bias == IF f.entry >= UserStart THEN 0 ELSE LoadBase
      k == CASE f.form = "flat" -> LoadFlat(Loading, f)
             [] f.form = "elf"  -> LoadElf(Loading, f, bias, FALSE)
             [] OTHER           -> Failed(Loading, -4)
  IN  /\ phase = "start"
      /\ Take(k)
      /\ IF k.status = 0
         THEN /\ phase' = "running"
              /\ nextLoad' = Greater(RoundUp(k.hull[2]), FirstModule)
              /\ placed' = {[file |-> f, bias |-> IF f.form = "flat" THEN LoadBase ELSE bias]}
         ELSE phase' = "exited" /\ UNCHANGED <<nextLoad, placed>>
      /\ UNCHANGED <<modules, nextModule>>

FreeModules == {m \in 1 .. ModuleSlots : modules[m] = NoModule}

(* What load_prx_elf_buffer resets before it loads. *)
Reset(k) == [k EXCEPT !.exported = NoExports]

(* Mutant of Advanced: behind the last segment of the file. *)
AdvancedBehindLast(k, f) ==
  LET seg == f.segs[Len(f.segs)]
  IN  RoundUp(nextLoad + seg.at + Len(seg.words) + seg.zeros)

(* load_elf_buffer rounds the end of everything loaded so far. *)
Advanced(k, f) == RoundUp(k.hull[2])

(* What mips_prx_read_file and mips_prx_prepare_elf take; a program to boot*)
(* is not decompressed.                                                    *)
Prepared(f) == f.form \in {"elf", "sce", "packed"}

(* sceKernelLoadModule.  A file that is not read, or holds no ELF, and a   *)
(* full table change nothing.                                              *)
LoadModule(f) ==
  LET k == LoadElf(Reset(Loading), f, nextLoad, TRUE)
  IN  /\ phase = "running"
      /\ nextModule < MaxModule
      /\ FreeModules # {} /\ Prepared(f)
      /\ Take(k)
      /\ IF k.status = 0
         THEN LET m == CHOOSE x \in FreeModules : \A y \in FreeModules : x <= y
              IN  /\ modules' = [modules EXCEPT ![m] =
                       [id |-> nextModule, file |-> f, bias |-> nextLoad,
                        entry |-> IF f.entry = 0 THEN 0 ELSE f.entry + nextLoad,
                        start |-> k.exported.start, stop |-> k.exported.stop,
                        gp |-> k.exported.gp]]
                  /\ nextModule' = nextModule + 1
                  /\ nextLoad' = Advanced(k, f)
                  /\ placed' = placed \cup {[file |-> f, bias |-> nextLoad]}
         ELSE UNCHANGED <<modules, nextModule, nextLoad, placed>>
      /\ UNCHANGED phase

(* sceKernelUnloadModule: the slot is free, the code stays. *)
UnloadModule(m) ==
  /\ phase = "running"
  /\ modules[m] # NoModule
  /\ modules' = [modules EXCEPT ![m] = NoModule]
  /\ UNCHANGED <<mem, hull, nextLoad, fallbacks, exported, gp, nextModule, phase, placed>>

LInit ==
  /\ mem = [a \in Ram |-> 0]
  /\ hull = <<0, 0>> /\ nextLoad = 0
  /\ fallbacks = <<>> /\ exported = NoExports /\ gp = 0
  /\ modules = [m \in 1 .. ModuleSlots |-> NoModule] /\ nextModule = 0
  /\ phase = "start" /\ placed = {}

LNext ==
  \/ \E f \in Programs : Boot(f)
  \/ \E f \in Files : LoadModule(f)
  \/ \E m \in 1 .. ModuleSlots : UnloadModule(m)

LSpec == LInit /\ [][LNext]_lvars

-----------------------------------------------------------------------------
(* Properties *)

Span(seg, bias) == bias + seg.at .. bias + seg.at + Len(seg.words) + seg.zeros - 1
Cells(p) == UNION {Span(p.file.segs[i], p.bias) : i \in DOMAIN p.file.segs}

(* No load, whether it fails half-way or not, writes to a word of the      *)
(* program or of a module that was linked before, unloaded ones included:  *)
(* their threads, callbacks and translated blocks may still run there.     *)
CodeKept == [][\A p \in placed : \A a \in Cells(p) : mem'[a] = mem[a]]_lvars

FileWord(f, e) == f.segs[e.seg].words[e.off + 1]
InFile(f, e) == e.seg \in DOMAIN f.segs /\ e.off < Len(f.segs[e.seg].words)
Composed(hi, lo) == (Low(hi) * Half + Signed(lo)) % Word

(* In everything linked, an address that an instruction pair composes, and *)
(* one in a data word, is the one of the file moved by the base of the     *)
(* segment it points into, whatever the halves carry.                      *)
AddressesMoved ==
  \A p \in placed : p.file.form # "flat" =>
    \A i \in DOMAIN p.file.relocs :
      LET es == p.file.relocs[i].entries
          Now(e)  == mem[Target(p.file, p.bias, e)]
          Base(e) == SegmentAt(p.file, p.bias, e.rel)
      IN  \A r \in DOMAIN es :
            /\ es[r].type = 2 /\ InFile(p.file, es[r]) => Now(es[r]) = (FileWord(p.file, es[r]) + Base(es[r])) % Word
            /\ es[r].type = 5 /\ r < Len(es) /\ es[r + 1].type = 6
                 /\ InFile(p.file, es[r]) /\ InFile(p.file, es[r + 1]) =>
                 Composed(Now(es[r]), Now(es[r + 1])) =
                   (Composed(FileWord(p.file, es[r]), FileWord(p.file, es[r + 1]))
                     + Base(es[r])) % Word

(* The relocation entries of a file that move the word at a place of it.   *)
Movers(f, at) ==
  {e \in UNION {Range(f.relocs[i].entries) : i \in DOMAIN f.relocs} :
     e.seg \in DOMAIN f.segs /\ Target(f, 0, e) = at}

(* What the pointer at a place of the file means: an address from the base *)
(* of the segment that its relocation names, or from the load bias.        *)
Meant(p, at) ==
  LET es   == {e \in Movers(p.file, at) : e.type = 2}
      seg  == CHOOSE i \in DOMAIN p.file.segs :
                at - p.file.segs[i].at \in 0 .. Len(p.file.segs[i].words) - 1
      word == p.file.segs[seg].words[at - p.file.segs[seg].at + 1]
  IN  IF es # {} THEN word + SegmentAt(p.file, p.bias, (CHOOSE e \in es : TRUE).rel)
      ELSE word + p.bias

ImportLinked(at, nid) ==
  LET w == mem[at]
  IN  IF nid \in DOMAIN Known THEN w = Syscall(Known[nid])
      ELSE \/ Len(fallbacks) = MaxFallbacks /\ w < Word
           \/ \E n \in DOMAIN fallbacks : w = Syscall(FallbackCode(n)) /\ fallbacks[n] = nid

ExportOwn(x, name) ==
  LET own == IF ~ValidInfo(x.file.info, x.bias) THEN {}
             ELSE {Meant(x, e.at) : e \in {d \in Range(x.file.info.exports) : d.name = name}}
  IN  IF own = {} THEN x[name] = 0 ELSE x[name] \in own

(* Each import of what was linked has its system call: the one of its NID, *)
(* or the fallback whose entry names it, unless that table is full.  A     *)
(* module is started and stopped at its own exports, or has none, whatever *)
(* was loaded, failed to load or was unloaded before it.                   *)
ModulesLinked ==
  /\ \A p \in placed : p.file.form # "flat" /\ ValidInfo(p.file.info, p.bias) =>
       \A i \in DOMAIN p.file.info.libs :
         LET lib == p.file.info.libs[i]
         IN  \A j \in DOMAIN lib.nids : ImportLinked(Meant(p, lib.at) + 2 * (j - 1), lib.nids[j])
  /\ \A m \in 1 .. ModuleSlots : modules[m] # NoModule =>
       ExportOwn(modules[m], "start") /\ ExportOwn(modules[m], "stop")

-----------------------------------------------------------------------------
(* What the theorems ask of the files: what a linker makes of a module.    *)

File ==
  [form : STRING, headers : BOOLEAN, entry : Nat,
   segs : Seq([at : Nat, words : Seq(0 .. Word - 1), zeros : Int, exec : BOOLEAN]),
   relocs : Seq([good : BOOLEAN,
                 entries : Seq([seg : Nat, off : Nat, rel : Nat, type : Nat])]),
   info : [good : BOOLEAN, gp : Nat,
           exports : Seq([name : {"start", "stop"}, at : Nat]),
           libs : Seq([good : BOOLEAN, at : Nat, nids : Seq(STRING)])]]

(* Segments do not overlap. *)
SegmentsApart(f) ==
  \A i, j \in DOMAIN f.segs :
    i # j => Span(f.segs[i], 0) \cap Span(f.segs[j], 0) = {}

(* A word has one relocation, and the halves of a pair one base. *)
RelocatedOnce(f) ==
  \A i, j \in DOMAIN f.relocs :
    \A r \in DOMAIN f.relocs[i].entries, t \in DOMAIN f.relocs[j].entries :
      LET d == f.relocs[i].entries[r]
          e == f.relocs[j].entries[t]
      IN  /\ {d.seg, e.seg} \subseteq DOMAIN f.segs /\ Target(f, 0, d) = Target(f, 0, e) =>
               i = j /\ r = t
          /\ i = j /\ t = r + 1 /\ d.type = 5 /\ e.type = 6 /\ InFile(f, d) /\ InFile(f, e) =>
               d.rel = e.rel

(* A pointer is a word of the file, moved as a word with the segment it    *)
(* points into, or not moved at all and small enough to be told from an    *)
(* address; in a program for a fixed address it may be one.                *)
IsPointer(f, at) ==
  \E i \in DOMAIN f.segs : \E n \in DOMAIN f.segs[i].words :
    /\ at = f.segs[i].at + n - 1
    /\ \/ \E e \in Movers(f, at) : e.type = 2 /\ e.rel \in DOMAIN f.segs
       \/ /\ \A e \in Movers(f, at) : e.type \notin 1 .. 6
          /\ f.segs[i].words[n] \in 1 .. UserStart - 1 \/ f.entry >= UserStart

Unmoved(f) == [file |-> f, bias |-> 0]

(* The libraries that are linked, and the stubs of one. *)
Linked(f) == {n \in DOMAIN f.info.libs : f.info.libs[n].good /\ f.info.libs[n].nids # <<>>}
Stubs(f, n) ==
  LET first == Meant(Unmoved(f), f.info.libs[n].at)
  IN  first .. first + 2 * Len(f.info.libs[n].nids) - 1

(* Exports and stubs lie in the file; the stubs hold nothing else.         *)
InfoFits(f) ==
  /\ \A n \in DOMAIN f.info.exports :
       LET at == f.info.exports[n].at
       IN  IsPointer(f, at) /\ Meant(Unmoved(f), at) \in Cells(Unmoved(f))
  /\ \A n \in Linked(f) :
       /\ IsPointer(f, f.info.libs[n].at)
       /\ Stubs(f, n) \subseteq Cells(Unmoved(f))
       /\ \A at \in Stubs(f, n) : Movers(f, at) = {}
       /\ \A m \in Linked(f) :
            f.info.libs[m].at \notin Stubs(f, n) /\ (m # n => Stubs(f, m) \cap Stubs(f, n) = {})

Sound(f) ==
  /\ f \in File
  /\ f.form = "flat" => Len(f.segs) = 1 /\ f.segs[1].at = 0 /\ f.segs[1].zeros = 0
  /\ SegmentsApart(f) /\ RelocatedOnce(f)
  /\ f.entry < UserStart \/ ValidInfo(f.info, 0) => InfoFits(f)

SoundFiles ==
  /\ \A f \in Programs \cup Files : Sound(f)
  /\ \A f \in Files : f.entry < UserStart

=============================================================================
