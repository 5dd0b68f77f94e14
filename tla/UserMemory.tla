------------------------------ MODULE UserMemory ------------------------------
(***************************************************************************)
(* The memory that the emulated kernel hands out: partition blocks and     *)
(* media engine allocations of sceSysMem.c and the fixed-size pools of     *)
(* sceKernelThread.c, three tables that draw on one address that only      *)
(* moves up.                                                               *)
(***************************************************************************)
EXTENDS Integers, FiniteSets

CONSTANTS
  WordSize,    \* 2^32: the arithmetic of sceKernelAllocPartitionMemory wraps
  Mirror,      \* 2^28: mips_get_ptr_range ignores the bits above
  RamStart,    \* 0x08000000
  FirstFree,   \* 0x09000000
  RamEnd,      \* 0x0C000000
  BlockAlign,  \* 256
  MeAlign,     \* 64
  FplAlign,    \* 16
  NumBlocks,   \* MAX_MEM_BLOCKS, for each of its two tables
  NumPools,    \* MAX_FPLS
  Sizes,       \* sizes that a program asks for
  Pools,       \* pools that a program asks for: [size, align, count]
  MaxId        \* bound: ids handed out

ASSUME SizesAssumption == Sizes \subseteq 0 .. WordSize - 1
ASSUME AlignAssumption ==
  BlockAlign \in Nat \ {0} /\ MeAlign \in Nat \ {0} /\ FplAlign \in Nat \ {0}
ASSUME RamAssumption ==
  /\ RamStart \in Nat /\ FirstFree \in Nat /\ RamEnd \in Nat
  /\ Mirror \in Nat /\ WordSize \in Nat
  /\ RamStart <= FirstFree /\ FirstFree <= RamEnd
  /\ RamEnd + 2 * MeAlign <= Mirror /\ Mirror <= WordSize
ASSUME TablesAssumption == NumBlocks \in Nat /\ NumPools \in Nat /\ MaxId \in Nat
ASSUME PoolsAssumption ==
  Pools \subseteq [size : Nat \ {0}, align : Nat \ {0}, count : Nat \ {0}]

VARIABLES
  next,    \* g_next_partition_alloc_addr
  nextId,  \* g_next_block_id
  blocks,  \* g_mem_blocks[]
  me,      \* g_me_allocations[]
  fpls,    \* g_fpls[]
  held     \* the pool blocks that the program has been given: [id, addr]

mvars == <<next, nextId, blocks, me, fpls, held>>

BlockSlots == 0 .. NumBlocks - 1
PoolSlots  == 0 .. NumPools - 1

Block   == [active : BOOLEAN, id : Nat, addr : Nat, size : Nat]
NoBlock == [active |-> FALSE, id |-> 0, addr |-> 0, size |-> 0]
Pool    == [active : BOOLEAN, id : Nat, addr : Nat, size : Nat, count : Nat,
            used : SUBSET Nat]
NoPool  == [active |-> FALSE, id |-> 0, addr |-> 0, size |-> 0, count |-> 0, used |-> {}]

(* n rounded up to a multiple of align. *)
Up(n, align) == ((n + align - 1) \div align) * align

(* mips_get_ptr_range for addresses at or above RAM. *)
InMemory(addr, size) ==
  LET physical == addr % Mirror
  IN  RamStart <= physical /\ physical < RamEnd /\ physical + size <= RamEnd

Free(table) == {i \in DOMAIN table : ~table[i].active}
First(S)    == CHOOSE i \in S : \A j \in S : i <= j

-----------------------------------------------------------------------------
(* sceKernelAllocPartitionMemory computes in 32 bits. *)
AllocPartitionMemory(size) ==
  LET aligned == Up(size, BlockAlign) % WordSize
      taken   == IF aligned = 0 THEN BlockAlign ELSE aligned
  IN  /\ Free(blocks) # {} /\ nextId <= MaxId
      /\ (next + taken) % WordSize <= RamEnd
      /\ blocks' = [blocks EXCEPT ![First(Free(blocks))] =
                      [active |-> TRUE, id |-> nextId, addr |-> next, size |-> size]]
      /\ next' = (next + taken) % WordSize
      /\ nextId' = nextId + 1
      /\ UNCHANGED <<me, fpls, held>>

(* The address of a freed block is not used again; what a free slot still  *)
(* holds is left out.                                                      *)
FreePartitionMemory(i) ==
  /\ blocks[i].active
  /\ blocks' = [blocks EXCEPT ![i] = NoBlock]
  /\ UNCHANGED <<next, nextId, me, fpls, held>>

(* Mutant of MeMalloc: the gap before the aligned address is forgotten. *)
MeMallocNoGap(size) ==
  LET addr == Up(next, MeAlign)
  IN  /\ size # 0 /\ Free(me) # {}
      /\ InMemory(addr, size)
      /\ me' = [me EXCEPT ![First(Free(me))] =
                  [active |-> TRUE, id |-> 0, addr |-> addr, size |-> size]]
      /\ next' = next + Up(size, MeAlign)
      /\ UNCHANGED <<nextId, blocks, fpls, held>>

(* sceMeMalloc and sceMeCalloc compute in 64 bits. *)
MeMalloc(size) ==
  LET addr == Up(next, MeAlign)
  IN  /\ size # 0 /\ Free(me) # {}
      /\ addr + Up(size, MeAlign) <= WordSize - 1
      /\ InMemory(addr, size)
      /\ me' = [me EXCEPT ![First(Free(me))] =
                  [active |-> TRUE, id |-> 0, addr |-> addr, size |-> size]]
      /\ next' = addr + Up(size, MeAlign)
      /\ UNCHANGED <<nextId, blocks, fpls, held>>

MeFree(i) ==
  /\ me[i].active
  /\ me' = [me EXCEPT ![i] = NoBlock]
  /\ UNCHANGED <<next, nextId, blocks, fpls, held>>

(* Mutant of CreateFpl: the id is not used up. *)
CreateFplSameId(p) ==
  LET addr == Up(next, FplAlign)
      size == Up(p.size, p.align)
  IN  /\ nextId <= MaxId /\ Free(fpls) # {}
      /\ addr + size * p.count <= RamEnd
      /\ InMemory(addr, size * p.count)
      /\ fpls' = [fpls EXCEPT ![First(Free(fpls))] =
                    [active |-> TRUE, id |-> nextId, addr |-> addr, size |-> size,
                     count |-> p.count, used |-> {}]]
      /\ next' = addr + size * p.count
      /\ UNCHANGED <<nextId, blocks, me, held>>

CreateFpl(p) ==
  LET addr == Up(next, FplAlign)
      size == Up(p.size, p.align)
  IN  /\ nextId <= MaxId /\ Free(fpls) # {}
      /\ addr + size * p.count <= RamEnd
      /\ InMemory(addr, size * p.count)
      /\ fpls' = [fpls EXCEPT ![First(Free(fpls))] =
                    [active |-> TRUE, id |-> nextId, addr |-> addr, size |-> size,
                     count |-> p.count, used |-> {}]]
      /\ next' = addr + size * p.count
      /\ nextId' = nextId + 1
      /\ UNCHANGED <<blocks, me, held>>

(* The program loses the blocks of a pool that it deletes. *)
DeleteFpl(i) ==
  /\ fpls[i].active
  /\ fpls' = [fpls EXCEPT ![i] = NoPool]
  /\ held' = {h \in held : h.id # fpls[i].id}
  /\ UNCHANGED <<next, nextId, blocks, me>>

(* The first block of the pool that is free. *)
AllocateFpl(i) ==
  LET unused == 0 .. fpls[i].count - 1 \ fpls[i].used
      block  == First(unused)
  IN  /\ fpls[i].active
      /\ unused # {}
      /\ fpls' = [fpls EXCEPT ![i].used = @ \cup {block}]
      /\ held' = held \cup {[id |-> fpls[i].id, addr |-> fpls[i].addr + block * fpls[i].size]}
      /\ UNCHANGED <<next, nextId, blocks, me>>

(* Mutant of IsBlock: an address inside a block will do. *)
IsInBlock(pool, addr) ==
  /\ pool.addr <= addr /\ addr < pool.addr + pool.size * pool.count
  /\ (addr - pool.addr) \div pool.size \in pool.used

(* An address that sceKernelFreeFpl takes back. *)
IsBlock(pool, addr) ==
  /\ pool.addr <= addr /\ addr < pool.addr + pool.size * pool.count
  /\ (addr - pool.addr) % pool.size = 0
  /\ (addr - pool.addr) \div pool.size \in pool.used

FreeFpl(i, addr) ==
  /\ fpls[i].active
  /\ IsBlock(fpls[i], addr)
  /\ fpls' = [fpls EXCEPT ![i].used = @ \ {(addr - fpls[i].addr) \div fpls[i].size}]
  /\ held' = held \ {[id |-> fpls[i].id, addr |-> addr]}
  /\ UNCHANGED <<next, nextId, blocks, me>>

-----------------------------------------------------------------------------
UInit ==
  /\ next = FirstFree
  /\ nextId = 1
  /\ blocks = [i \in BlockSlots |-> NoBlock]
  /\ me = [i \in BlockSlots |-> NoBlock]
  /\ fpls = [i \in PoolSlots |-> NoPool]
  /\ held = {}

UNext ==
  \/ \E size \in Sizes : AllocPartitionMemory(size) \/ MeMalloc(size)
  \/ \E i \in BlockSlots : FreePartitionMemory(i) \/ MeFree(i)
  \/ \E p \in Pools : CreateFpl(p)
  \/ \E i \in PoolSlots :
       \/ DeleteFpl(i)
       \/ AllocateFpl(i)
       \/ \E addr \in FirstFree .. RamEnd - 1 : FreeFpl(i, addr)

USpec == UInit /\ [][UNext]_mvars

-----------------------------------------------------------------------------
(* Properties *)

(* The type of every variable; blocks and pools draw their ids from one    *)
(* counter: an id names one of them, and none that is still to be given.   *)
UTypeOK ==
  /\ next \in 0 .. WordSize - 1
  /\ nextId \in Nat
  /\ blocks \in [BlockSlots -> Block]
  /\ me \in [BlockSlots -> Block]
  /\ fpls \in [PoolSlots -> Pool]
  /\ \A i \in PoolSlots : fpls[i].used \subseteq 0 .. fpls[i].count - 1
  /\ LET blockIds == {blocks[i].id : i \in {j \in BlockSlots : blocks[j].active}}
         poolIds  == {fpls[i].id : i \in {j \in PoolSlots : fpls[j].active}}
     IN  /\ \A id \in blockIds \cup poolIds : id < nextId
         /\ blockIds \cap poolIds = {}
         /\ \A i, j \in BlockSlots :
              blocks[i].active /\ blocks[j].active /\ blocks[i].id = blocks[j].id => i = j
         /\ \A i, j \in PoolSlots :
              fpls[i].active /\ fpls[j].active /\ fpls[i].id = fpls[j].id => i = j

(* The areas that the program owns, by the table that remembers them.      *)
Areas ==
       {[table |-> "block", slot |-> i, from |-> blocks[i].addr,
         to |-> blocks[i].addr + blocks[i].size] : i \in {j \in BlockSlots : blocks[j].active}}
  \cup {[table |-> "me", slot |-> i, from |-> me[i].addr,
         to |-> me[i].addr + me[i].size] : i \in {j \in BlockSlots : me[j].active}}
  \cup {[table |-> "pool", slot |-> i, from |-> fpls[i].addr,
         to |-> fpls[i].addr + fpls[i].size * fpls[i].count] :
          i \in {j \in PoolSlots : fpls[j].active}}

Overlap(a, b) == a.from < b.to /\ b.from < a.to

(* No two of them overlap, whichever of the three tables they come from    *)
(* and in whatever order areas of different alignment were taken, and all  *)
(* fit in RAM, which the comment in sceKernelAllocPartitionMemory promises *)
(* when an address is handed out.                                          *)
AreasDisjoint ==
  /\ \A a, b \in Areas : a # b => ~Overlap(a, b)
  /\ \A a \in Areas : FirstFree <= a.from /\ a.to <= RamEnd

(* A pool knows which of its blocks the program holds, though the program  *)
(* may free any address in any pool: nobody is given a block that somebody *)
(* holds, and a block given back can be had again.                         *)
PoolsKnowHolders ==
  held = {[id |-> fpls[x[1]].id, addr |-> fpls[x[1]].addr + x[2] * fpls[x[1]].size] :
            x \in {y \in PoolSlots \X (0 .. RamEnd) :
                     fpls[y[1]].active /\ y[2] \in fpls[y[1]].used}}

=============================================================================
