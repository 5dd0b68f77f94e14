------------------------------ MODULE MCLoader ------------------------------
(* Instance of Loader for TLC: programs and modules with every kind of     *)
(* relocation, segments out of order and off the alignment, imports with   *)
(* and without a system call, and files that fail at each step.            *)
EXTENDS Loader

MCKnown == [read |-> 1]

Seg(at, words, zeros) == [at |-> at, words |-> words, zeros |-> zeros, exec |-> TRUE]
Data(at, words, zeros) == [at |-> at, words |-> words, zeros |-> zeros, exec |-> FALSE]
Rel(off, rel, type) == [seg |-> 1, off |-> off, rel |-> rel, type |-> type]
Section(entries) == [good |-> TRUE, entries |-> entries]

(* Words 0 and 1 compose an address in the data segment, whose low half is *)
(* negative; word 2 points there, word 3 jumps to the first word; word 4   *)
(* is module_start, word 5 the stubs at 6; there is a word of each type.   *)
Text(low) == <<3 * 16, 4 * 16 + low, 1, 128 + 2, 1, 6, 0, 0, 0, 0>>
Relocs == <<Section(<<Rel(0, 2, 5), Rel(1, 2, 6), Rel(2, 2, 2), Rel(3, 1, 4)>>),
            Section(<<Rel(5, 1, 2), Rel(60, 1, 2), Rel(4, 1, 7)>>)>>
Whole == [form |-> "elf", headers |-> TRUE, entry |-> 1,
          segs |-> <<Seg(0, Text(9), 0), Data(11, <<0, 5>>, 1)>>, relocs |-> Relocs,
          info |-> [good |-> TRUE, gp |-> 12, exports |-> <<[name |-> "start", at |-> 4]>>,
                    libs |-> <<[good |-> TRUE, at |-> 5, nids |-> <<"read", "other">>]>>]]

(* The segment that ends last comes first; only module_stop, two libraries. *)
Upside == [form |-> "packed", headers |-> TRUE, entry |-> 0,
           segs |-> <<Seg(4, <<5 * 16 + 7, 6 * 16 + 15, 4, 12, 14, 0>>, 8), Data(0, <<2, 3>>, 0)>>,
           relocs |-> <<Section(<<Rel(0, 2, 5), Rel(1, 2, 6), Rel(2, 1, 2), Rel(5, 2, 5)>>)>>,
           info |-> [good |-> TRUE, gp |-> 0, exports |-> <<[name |-> "stop", at |-> 6]>>,
                     libs |-> <<[good |-> TRUE, at |-> 7, nids |-> <<"more">>],
                                [good |-> TRUE, at |-> 8, nids |-> <<"read">>]>>]]

(* Whose gp lies in user memory at some load addresses only. *)
Plain == [form |-> "sce", headers |-> TRUE, entry |-> 0,
          segs |-> <<Data(0, <<2>>, 2)>>, relocs |-> <<>>,
          info |-> [good |-> TRUE, gp |-> 60, exports |-> <<[name |-> "start", at |-> 0]>>,
                    libs |-> <<>>]]

(* Failures: the second library, the entry, the last segment, the second *)
(* relocation section, the headers, and a file without an ELF.             *)
BadLibrary == [Whole EXCEPT !.info.libs = <<@[1], [good |-> FALSE, at |-> 5, nids |-> <<>>]>>]
BadEntry   == [Whole EXCEPT !.entry = 12, !.segs = <<@[1], Data(11, <<1>>, 24)>>]
BadSegment == [Upside EXCEPT !.segs = Append(@, Data(20, <<2, 3>>, 100))]
BadSize    == [Upside EXCEPT !.segs[2].zeros = -1]
BadReloc   == [Whole EXCEPT !.relocs[2].good = FALSE]
BadHeaders == [Plain EXCEPT !.headers = FALSE]
NoElf      == [Plain EXCEPT !.form = "other"]

MCFiles == {Whole, Upside, Plain, BadLibrary, BadEntry, BadSegment, BadSize, BadReloc, BadHeaders, NoElf}

Fixed == [Plain EXCEPT !.form = "elf", !.entry = 100, !.segs = <<Seg(100, <<101, 0, 3>>, 10)>>]
Flat  == [Plain EXCEPT !.form = "flat", !.segs[1] = Data(0, <<1, 2, 3>>, 0)]
FlatPast == [Flat EXCEPT !.entry = 3]
FlatLong == [Flat EXCEPT !.segs[1].words = [i \in 1 .. 100 |-> i]]
BadProgram == [BadSegment EXCEPT !.form = "elf"]
Long  == [Whole EXCEPT !.segs[2].zeros = 40]
MCPrograms == {Whole, Long, Upside, Fixed, Flat, FlatPast, FlatLong, BadProgram}

ASSUME InstanceAssumption == SoundFiles
=============================================================================
