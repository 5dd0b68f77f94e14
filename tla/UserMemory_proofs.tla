-------------------------- MODULE UserMemory_proofs --------------------------
(***************************************************************************)
(* Proofs about UserMemory, for any memory, alignments, tables and pools:  *)
(* the tables keep their types, the areas that the program owns never      *)
(* overlap, and every pool knows who holds its blocks.                     *)
(***************************************************************************)
EXTENDS UserMemory, TLAPS, WellFoundedInduction

-----------------------------------------------------------------------------
(* Operators *)

LEMMA FirstIn ==
  ASSUME NEW S \in SUBSET Nat, S # {}
  PROVE  First(S) \in S
<1>1. PICK x \in S : \A y \in S : ~ (<<y, x>> \in OpToRel(<, Nat))
  BY NatLessThanWellFounded, WFMin
<1>2. OpToRel(<, Nat) = {p \in Nat \X Nat : p[1] < p[2]}
  BY DEF OpToRel
<1>3. \A y \in S : ~ (y < x)
  BY <1>1, <1>2
<1>4. \A y \in S : x <= y
  BY <1>3
<1> QED
  BY <1>4 DEF First

LEMMA DivMod ==
  ASSUME NEW a \in Int, NEW b \in Nat \ {0}
  PROVE  \E q \in Int, r \in 0 .. b - 1 : a = b * q + r /\ q = a \div b /\ r = a % b
OBVIOUS

(* Rounding up reaches the number and stays within an alignment of it. *)
LEMMA UpBounds ==
  ASSUME NEW n \in Nat, NEW a \in Nat \ {0}
  PROVE  Up(n, a) \in Nat /\ n <= Up(n, a) /\ Up(n, a) < n + a
<1>1. PICK m \in Nat : m = n + a - 1
  OBVIOUS
<1>2. PICK q \in Int, r \in 0 .. a - 1 : m = a * q + r /\ q = m \div a
  BY DivMod
<1>3. Up(n, a) = a * q
  BY <1>1, <1>2 DEF Up
<1>4. a * q = n + a - 1 - r
  BY <1>1, <1>2
<1> QED
  BY <1>3, <1>4

-----------------------------------------------------------------------------
(* Types *)

(* A table of blocks, and the table of pools. *)
BlockTable == [BlockSlots -> Block]
PoolTable  == [PoolSlots -> Pool]

(* Ids of blocks and pools come from one counter. *)
IdsTold ==
  /\ \A i \in BlockSlots : blocks[i].active => blocks[i].id < nextId
  /\ \A i \in PoolSlots : fpls[i].active => fpls[i].id < nextId
  /\ \A i \in BlockSlots, j \in PoolSlots :
       blocks[i].active /\ fpls[j].active => blocks[i].id # fpls[j].id
  /\ \A i, j \in BlockSlots :
       blocks[i].active /\ blocks[j].active /\ blocks[i].id = blocks[j].id => i = j
  /\ \A i, j \in PoolSlots :
       fpls[i].active /\ fpls[j].active /\ fpls[i].id = fpls[j].id => i = j

(* A pool has blocks of some size, and all of it is in RAM. *)
PoolShape ==
  \A i \in PoolSlots :
    /\ fpls[i].used \subseteq 0 .. fpls[i].count - 1
    /\ fpls[i].active =>
         /\ fpls[i].size # 0 /\ fpls[i].count # 0
         /\ fpls[i].addr + fpls[i].size * fpls[i].count <= RamEnd

UTypes ==
  /\ next \in 0 .. WordSize - 1 /\ nextId \in Nat
  /\ blocks \in BlockTable /\ me \in BlockTable /\ fpls \in PoolTable

LEMMA TypeOKParts == UTypes /\ IdsTold /\ PoolShape => UTypeOK
BY DEF UTypes, IdsTold, PoolShape, UTypeOK, BlockTable, PoolTable

LEMMA NoBlockType == NoBlock \in Block /\ NoPool \in Pool
BY DEF NoBlock, Block, NoPool, Pool

LEMMA FreeBlock ==
  ASSUME NEW table \in BlockTable, Free(table) # {}
  PROVE  First(Free(table)) \in BlockSlots /\ ~table[First(Free(table))].active
<1>1. Free(table) \in SUBSET Nat /\ DOMAIN table = BlockSlots
  BY TablesAssumption DEF Free, BlockTable, BlockSlots
<1>2. First(Free(table)) \in Free(table)
  BY <1>1, FirstIn
<1> QED
  BY <1>1, <1>2 DEF Free

LEMMA FreePool ==
  ASSUME NEW table \in PoolTable, Free(table) # {}
  PROVE  First(Free(table)) \in PoolSlots /\ ~table[First(Free(table))].active
<1>1. Free(table) \in SUBSET Nat /\ DOMAIN table = PoolSlots
  BY TablesAssumption DEF Free, PoolTable, PoolSlots
<1>2. First(Free(table)) \in Free(table)
  BY <1>1, FirstIn
<1> QED
  BY <1>1, <1>2 DEF Free

TInv == UTypes /\ IdsTold /\ PoolShape

LEMMA TInit == UInit => TInv
BY NoBlockType, RamAssumption, AlignAssumption
DEF UInit, TInv, UTypes, IdsTold, PoolShape, BlockTable, PoolTable, NoBlock, NoPool

LEMMA AllocPartitionMemoryType ==
  ASSUME TInv, NEW size \in Sizes, AllocPartitionMemory(size)
  PROVE  TInv'
<1> DEFINE aligned == Up(size, BlockAlign) % WordSize
           taken == IF aligned = 0 THEN BlockAlign ELSE aligned
           i == First(Free(blocks))
           block == [active |-> TRUE, id |-> nextId, addr |-> next, size |-> size]
<1>1. size \in Nat /\ next \in Nat /\ nextId \in Nat /\ WordSize \in Nat \ {0}
  BY SizesAssumption, RamAssumption, AlignAssumption DEF TInv, UTypes
<1>2. Up(size, BlockAlign) \in Nat
  BY <1>1, AlignAssumption, UpBounds
<1>3. taken \in Nat
  BY <1>1, <1>2, AlignAssumption
<1>4. i \in BlockSlots /\ ~blocks[i].active
  BY FreeBlock DEF AllocPartitionMemory, TInv, UTypes
<1>5. block \in Block
  BY <1>1 DEF Block
<1>6. /\ blocks' = [blocks EXCEPT ![i] = block]
      /\ next' = (next + taken) % WordSize
      /\ nextId' = nextId + 1
      /\ UNCHANGED <<me, fpls>>
  BY DEF AllocPartitionMemory
<1> HIDE DEF i, taken
<1>7. next' \in 0 .. WordSize - 1
  BY <1>1, <1>3, <1>6
<1>8. UTypes'
  BY <1>1, <1>4, <1>5, <1>6, <1>7 DEF TInv, UTypes, BlockTable
<1>9. IdsTold'
  BY <1>1, <1>4, <1>6 DEF TInv, UTypes, IdsTold, BlockTable, PoolTable, Pool, Block
<1> QED
  BY <1>6, <1>8, <1>9 DEF TInv, PoolShape

LEMMA MeMallocType ==
  ASSUME TInv, NEW size \in Sizes, MeMalloc(size)
  PROVE  TInv'
<1> DEFINE addr == Up(next, MeAlign)
           i == First(Free(me))
           block == [active |-> TRUE, id |-> 0, addr |-> addr, size |-> size]
<1>1. size \in Nat /\ next \in Nat
  BY SizesAssumption DEF TInv, UTypes
<1>2. addr \in Nat /\ Up(size, MeAlign) \in Nat
  BY <1>1, AlignAssumption, UpBounds
<1>3. i \in BlockSlots
  BY FreeBlock DEF MeMalloc, TInv, UTypes
<1>4. block \in Block
  BY <1>1, <1>2 DEF Block
<1>5. /\ me' = [me EXCEPT ![i] = block]
      /\ next' = addr + Up(size, MeAlign) /\ next' <= WordSize - 1
      /\ UNCHANGED <<nextId, blocks, fpls>>
  BY DEF MeMalloc
<1> HIDE DEF i, addr, block
<1>6. UTypes'
  BY <1>2, <1>3, <1>4, <1>5, RamAssumption DEF TInv, UTypes, BlockTable
<1> QED
  BY <1>5, <1>6 DEF TInv, IdsTold, PoolShape

LEMMA FreePartitionMemoryType ==
  ASSUME TInv, NEW i \in BlockSlots, FreePartitionMemory(i)
  PROVE  TInv'
<1>1. blocks' = [blocks EXCEPT ![i] = NoBlock] /\ UNCHANGED <<next, nextId, me, fpls>>
  BY DEF FreePartitionMemory
<1>2. ~NoBlock.active
  BY DEF NoBlock
<1> QED
  BY <1>1, <1>2, NoBlockType DEF TInv, UTypes, IdsTold, PoolShape, BlockTable

LEMMA MeFreeType ==
  ASSUME TInv, NEW i \in BlockSlots, MeFree(i)
  PROVE  TInv'
BY NoBlockType DEF MeFree, TInv, UTypes, IdsTold, PoolShape, BlockTable

LEMMA CreateFplType ==
  ASSUME TInv, NEW p \in Pools, CreateFpl(p)
  PROVE  TInv'
<1> DEFINE addr == Up(next, FplAlign)
           size == Up(p.size, p.align)
           i == First(Free(fpls))
           pool == [active |-> TRUE, id |-> nextId, addr |-> addr, size |-> size,
                    count |-> p.count, used |-> {}]
<1>1. /\ p.size \in Nat \ {0} /\ p.align \in Nat \ {0} /\ p.count \in Nat \ {0}
      /\ next \in Nat /\ nextId \in Nat
  BY PoolsAssumption DEF TInv, UTypes
<1>2. addr \in Nat /\ size \in Nat \ {0}
  <2>1. addr \in Nat
    BY <1>1, AlignAssumption, UpBounds
  <2>2. Up(p.size, p.align) \in Nat /\ p.size <= Up(p.size, p.align)
    BY <1>1, UpBounds
  <2> QED
    BY <1>1, <2>1, <2>2
<1>3. i \in PoolSlots /\ ~fpls[i].active
  BY FreePool DEF CreateFpl, TInv, UTypes
<1>4. pool \in Pool
  BY <1>1, <1>2 DEF Pool
<1>5. /\ fpls' = [fpls EXCEPT ![i] = pool]
      /\ next' = addr + size * p.count /\ next' <= RamEnd
      /\ nextId' = nextId + 1
      /\ UNCHANGED <<blocks, me>>
  BY DEF CreateFpl
<1> HIDE DEF i, addr, size
<1>6. size * p.count \in Nat
  BY <1>1, <1>2
<1>7. UTypes'
  BY <1>1, <1>2, <1>3, <1>4, <1>5, <1>6, RamAssumption, AlignAssumption
  DEF TInv, UTypes, PoolTable
<1>8. IdsTold'
  BY <1>1, <1>3, <1>5 DEF TInv, UTypes, IdsTold, BlockTable, PoolTable, Pool, Block
<1>9. PoolShape'
  <2>1. \A j \in PoolSlots : fpls'[j] = IF j = i THEN pool ELSE fpls[j]
    BY <1>5 DEF TInv, UTypes, PoolTable
  <2>2. pool.used \subseteq 0 .. pool.count - 1 /\ pool.size # 0 /\ pool.count # 0
        /\ pool.addr + pool.size * pool.count <= RamEnd
    BY <1>1, <1>2, <1>5
  <2> HIDE DEF pool
  <2> QED
    BY <2>1, <2>2 DEF TInv, PoolShape
<1> QED
  BY <1>7, <1>8, <1>9 DEF TInv

LEMMA DeleteFplType ==
  ASSUME TInv, NEW i \in PoolSlots, DeleteFpl(i)
  PROVE  TInv'
<1>1. fpls' = [fpls EXCEPT ![i] = NoPool] /\ UNCHANGED <<next, nextId, blocks, me>>
  BY DEF DeleteFpl
<1>2. ~NoPool.active /\ NoPool.used = {}
  BY DEF NoPool
<1> QED
  BY <1>1, <1>2, NoBlockType DEF TInv, UTypes, IdsTold, PoolShape, PoolTable

(* Only the blocks in use of one pool change. *)
LEMMA UsedChange ==
  ASSUME TInv, NEW i \in PoolSlots, NEW U \in SUBSET (0 .. fpls[i].count - 1),
         fpls' = [fpls EXCEPT ![i].used = U],
         UNCHANGED <<next, nextId, blocks, me>>
  PROVE  TInv'
<1> DEFINE pool == [fpls[i] EXCEPT !.used = U]
<1>1. fpls[i] \in Pool
  BY DEF TInv, UTypes, PoolTable
<1>2. /\ pool \in Pool /\ pool.active = fpls[i].active /\ pool.id = fpls[i].id
      /\ pool.addr = fpls[i].addr /\ pool.size = fpls[i].size
      /\ pool.count = fpls[i].count /\ pool.used = U
  BY <1>1 DEF Pool
<1>3. \A j \in PoolSlots : fpls'[j] = IF j = i THEN pool ELSE fpls[j]
  BY DEF TInv, UTypes, PoolTable
<1>4. fpls' \in PoolTable
  BY <1>2 DEF TInv, UTypes, PoolTable
<1> HIDE DEF pool
<1>5. UTypes'
  BY <1>4 DEF TInv, UTypes
<1>6. IdsTold'
  BY <1>2, <1>3 DEF TInv, IdsTold
<1>7. PoolShape'
  BY <1>2, <1>3 DEF TInv, PoolShape
<1> QED
  BY <1>5, <1>6, <1>7 DEF TInv

LEMMA AllocateFplType ==
  ASSUME TInv, NEW i \in PoolSlots, AllocateFpl(i)
  PROVE  TInv'
<1> DEFINE unused == 0 .. fpls[i].count - 1 \ fpls[i].used
           U == fpls[i].used \cup {First(unused)}
<1>1. unused \in SUBSET Nat /\ unused # {}
  BY DEF AllocateFpl
<1>2. First(unused) \in unused
  BY <1>1, FirstIn
<1>3. U \in SUBSET (0 .. fpls[i].count - 1)
  BY <1>2 DEF TInv, PoolShape
<1>4. fpls' = [fpls EXCEPT ![i].used = U] /\ UNCHANGED <<next, nextId, blocks, me>>
  BY DEF AllocateFpl, TInv, UTypes, PoolTable
<1> QED
  BY <1>3, <1>4, UsedChange

LEMMA FreeFplType ==
  ASSUME TInv, NEW i \in PoolSlots, NEW addr, FreeFpl(i, addr)
  PROVE  TInv'
<1> DEFINE U == fpls[i].used \ {(addr - fpls[i].addr) \div fpls[i].size}
<1>1. U \in SUBSET (0 .. fpls[i].count - 1)
  BY DEF TInv, PoolShape
<1>2. fpls' = [fpls EXCEPT ![i].used = U] /\ UNCHANGED <<next, nextId, blocks, me>>
  BY DEF FreeFpl, TInv, UTypes, PoolTable
<1> QED
  BY <1>1, <1>2, UsedChange

LEMMA TNext == TInv /\ [UNext]_mvars => TInv'
<1> SUFFICES ASSUME TInv, [UNext]_mvars PROVE TInv'
  OBVIOUS
<1>1. CASE UNCHANGED mvars
  BY <1>1 DEF mvars, TInv, UTypes, IdsTold, PoolShape
<1>2. CASE UNext
  BY <1>2, AllocPartitionMemoryType, MeMallocType, FreePartitionMemoryType, MeFreeType,
     CreateFplType, DeleteFplType, AllocateFplType, FreeFplType
  DEF UNext
<1> QED
  BY <1>1, <1>2

LEMMA SpecTInv == USpec => []TInv
BY TInit, TNext, PTL DEF USpec

(* The tables keep their types, even where the 32-bit sum of               *)
(* sceKernelAllocPartitionMemory wraps; an id names one block or pool.     *)
THEOREM TablesTyped == USpec => []UTypeOK
<1>1. TInv => UTypeOK
  BY TypeOKParts DEF TInv
<1> QED
  BY <1>1, SpecTInv, PTL

-----------------------------------------------------------------------------
(* Areas *)

BlockAreas ==
  {[table |-> "block", slot |-> i, from |-> blocks[i].addr,
    to |-> blocks[i].addr + blocks[i].size] : i \in {j \in BlockSlots : blocks[j].active}}

MeAreas ==
  {[table |-> "me", slot |-> i, from |-> me[i].addr,
    to |-> me[i].addr + me[i].size] : i \in {j \in BlockSlots : me[j].active}}

PoolAreas ==
  {[table |-> "pool", slot |-> i, from |-> fpls[i].addr,
    to |-> fpls[i].addr + fpls[i].size * fpls[i].count] :
     i \in {j \in PoolSlots : fpls[j].active}}

LEMMA AreasParts ==
  /\ Areas = BlockAreas \cup MeAreas \cup PoolAreas
  /\ Areas' = BlockAreas' \cup MeAreas' \cup PoolAreas'
BY DEF Areas, BlockAreas, MeAreas, PoolAreas

(* The areas A lie apart, in RAM and below n. *)
Apart(A) == \A a, b \in A : a # b => ~Overlap(a, b)

Below(A, n) ==
  \A a \in A : /\ a.from \in Nat /\ a.to \in Nat
               /\ FirstFree <= a.from /\ a.from <= a.to
               /\ a.to <= n /\ a.to <= RamEnd

(* An area that starts at n or behind it lies apart from the others. *)
LEMMA OneMore ==
  ASSUME NEW A, NEW B, NEW c, B \subseteq A \cup {c},
         NEW n \in Nat, NEW m \in Nat, Apart(A), Below(A, n), n <= m,
         c.from \in Nat, c.to \in Nat, FirstFree <= n,
         n <= c.from, c.from <= c.to, c.to <= m, c.to <= RamEnd
  PROVE  Apart(B) /\ Below(B, m)
<1>1. Below(B, m)
  BY RamAssumption DEF Below
<1>2. \A a \in A : ~Overlap(a, c) /\ ~Overlap(c, a)
  BY DEF Below, Overlap
<1>3. Apart(B)
  BY <1>2 DEF Apart
<1> QED
  BY <1>1, <1>3

LEMMA NoneMore ==
  ASSUME NEW A, NEW B, B \subseteq A, NEW n, Apart(A), Below(A, n)
  PROVE  Apart(B) /\ Below(B, n)
BY DEF Apart, Below

(* The address only moves up, and stays within an alignment of RAM. *)
AreaInv ==
  /\ TInv
  /\ FirstFree <= next /\ next < RamEnd + MeAlign
  /\ Apart(Areas) /\ Below(Areas, next)

LEMMA AreaInit == UInit => AreaInv
<1> SUFFICES ASSUME UInit PROVE AreaInv
  OBVIOUS
<1>1. Areas = {}
  BY DEF UInit, Areas, NoBlock, NoPool
<1>2. next = FirstFree
  BY DEF UInit
<1> QED
  BY <1>1, <1>2, TInit, RamAssumption, AlignAssumption DEF AreaInv, Apart, Below

(* The sizes for which the sum of sceKernelAllocPartitionMemory stays below *)
(* 2^32.                                                                   *)
NoWrap == \A size \in Sizes : RamEnd + MeAlign + size + BlockAlign <= WordSize

LEMMA AllocPartitionMemoryApart ==
  ASSUME NoWrap, AreaInv, NEW size \in Sizes, AllocPartitionMemory(size)
  PROVE  AreaInv'
<1> DEFINE aligned == Up(size, BlockAlign) % WordSize
           taken == IF aligned = 0 THEN BlockAlign ELSE aligned
           i == First(Free(blocks))
           block == [active |-> TRUE, id |-> nextId, addr |-> next, size |-> size]
           c == [table |-> "block", slot |-> i, from |-> next, to |-> next + size]
<1>1. /\ size \in Nat /\ next \in Nat /\ FirstFree <= next /\ next < RamEnd + MeAlign
      /\ RamEnd \in Nat /\ WordSize \in Nat /\ FirstFree \in Nat
      /\ RamEnd + MeAlign + size + BlockAlign <= WordSize
  BY SizesAssumption, RamAssumption DEF AreaInv, TInv, UTypes, NoWrap
<1>2. /\ Up(size, BlockAlign) \in Nat /\ size <= Up(size, BlockAlign)
      /\ Up(size, BlockAlign) < size + BlockAlign
  BY <1>1, AlignAssumption, UpBounds
<1>3. aligned = Up(size, BlockAlign)
  BY <1>1, <1>2, AlignAssumption
<1>4. taken \in Nat /\ size <= taken /\ next + taken < WordSize
  BY <1>1, <1>2, <1>3, AlignAssumption
<1>5. i \in BlockSlots
  BY FreeBlock DEF AllocPartitionMemory, AreaInv, TInv, UTypes
<1>6. /\ blocks' = [blocks EXCEPT ![i] = block]
      /\ next' = (next + taken) % WordSize
      /\ (next + taken) % WordSize <= RamEnd
      /\ UNCHANGED <<me, fpls>>
  BY DEF AllocPartitionMemory
<1> HIDE DEF i, taken
<1>7. next' = next + taken /\ next' <= RamEnd
  BY <1>1, <1>4, <1>6
<1>8. BlockAreas' \subseteq BlockAreas \cup {c}
  <2>1. \A j \in BlockSlots : blocks'[j] = IF j = i THEN block ELSE blocks[j]
    BY <1>6 DEF AreaInv, TInv, UTypes, BlockTable
  <2>2. block.active /\ block.addr = next /\ block.size = size
    OBVIOUS
  <2> HIDE DEF block
  <2> QED
    BY <2>1, <2>2 DEF BlockAreas
<1>9. Areas' \subseteq Areas \cup {c}
  BY <1>6, <1>8, AreasParts DEF BlockAreas, MeAreas, PoolAreas
<1>10. /\ next \in Nat /\ next' \in Nat /\ next <= next' /\ FirstFree <= next
      /\ c.from \in Nat /\ c.to \in Nat
      /\ next <= c.from /\ c.from <= c.to /\ c.to <= next' /\ c.to <= RamEnd
  BY <1>1, <1>4, <1>7
<1> HIDE DEF c
<1>11. Apart(Areas') /\ Below(Areas', next')
  BY <1>9, <1>10, OneMore DEF AreaInv
<1>12. TInv'
  BY AllocPartitionMemoryType DEF AreaInv
<1> QED
  BY <1>1, <1>4, <1>7, <1>11, <1>12, AlignAssumption DEF AreaInv, Apart, Below

LEMMA MeMallocApart ==
  ASSUME AreaInv, NEW size \in Sizes, MeMalloc(size)
  PROVE  AreaInv'
<1> DEFINE addr == Up(next, MeAlign)
           i == First(Free(me))
           block == [active |-> TRUE, id |-> 0, addr |-> addr, size |-> size]
           c == [table |-> "me", slot |-> i, from |-> addr, to |-> addr + size]
<1>1. /\ size \in Nat /\ next \in Nat /\ FirstFree <= next /\ next < RamEnd + MeAlign
      /\ RamEnd \in Nat /\ Mirror \in Nat /\ FirstFree \in Nat /\ MeAlign \in Nat \ {0}
      /\ RamEnd + 2 * MeAlign <= Mirror
  BY SizesAssumption, RamAssumption, AlignAssumption DEF AreaInv, TInv, UTypes
<1>2. addr \in Nat /\ next <= addr /\ addr < next + MeAlign
  BY <1>1, UpBounds
<1>3. /\ Up(size, MeAlign) \in Nat /\ size <= Up(size, MeAlign)
      /\ Up(size, MeAlign) < size + MeAlign
  BY <1>1, UpBounds
<1>4. i \in BlockSlots
  BY FreeBlock DEF MeMalloc, AreaInv, TInv, UTypes
<1>5. /\ me' = [me EXCEPT ![i] = block]
      /\ next' = addr + Up(size, MeAlign)
      /\ InMemory(addr, size)
      /\ UNCHANGED <<blocks, fpls>>
  BY DEF MeMalloc
<1> HIDE DEF i, addr
<1>6. addr % Mirror = addr
  BY <1>1, <1>2
<1>7. addr + size <= RamEnd
  BY <1>5, <1>6 DEF InMemory
<1>8. MeAreas' \subseteq MeAreas \cup {c}
  <2>1. \A j \in BlockSlots : me'[j] = IF j = i THEN block ELSE me[j]
    BY <1>5 DEF AreaInv, TInv, UTypes, BlockTable
  <2>2. block.active /\ block.addr = addr /\ block.size = size
    OBVIOUS
  <2> HIDE DEF block
  <2> QED
    BY <2>1, <2>2 DEF MeAreas
<1>9. Areas' \subseteq Areas \cup {c}
  BY <1>5, <1>8, AreasParts DEF BlockAreas, MeAreas, PoolAreas
<1>10. /\ next \in Nat /\ next' \in Nat /\ next <= next' /\ FirstFree <= next
      /\ c.from \in Nat /\ c.to \in Nat
      /\ next <= c.from /\ c.from <= c.to /\ c.to <= next' /\ c.to <= RamEnd
  BY <1>1, <1>2, <1>3, <1>5, <1>7
<1> HIDE DEF c
<1>11. Apart(Areas') /\ Below(Areas', next')
  BY <1>9, <1>10, OneMore DEF AreaInv
<1>12. TInv'
  BY MeMallocType DEF AreaInv
<1> QED
  BY <1>1, <1>2, <1>3, <1>5, <1>7, <1>11, <1>12 DEF AreaInv, Apart, Below

LEMMA CreateFplApart ==
  ASSUME AreaInv, NEW p \in Pools, CreateFpl(p)
  PROVE  AreaInv'
<1> DEFINE addr == Up(next, FplAlign)
           size == Up(p.size, p.align)
           i == First(Free(fpls))
           pool == [active |-> TRUE, id |-> nextId, addr |-> addr, size |-> size,
                    count |-> p.count, used |-> {}]
           c == [table |-> "pool", slot |-> i, from |-> addr, to |-> addr + size * p.count]
<1>1. /\ next \in Nat /\ FirstFree <= next /\ FirstFree \in Nat /\ RamEnd \in Nat
      /\ p.size \in Nat /\ p.align \in Nat \ {0} /\ p.count \in Nat
      /\ FplAlign \in Nat \ {0} /\ MeAlign \in Nat \ {0}
  BY PoolsAssumption, RamAssumption, AlignAssumption DEF AreaInv, TInv, UTypes
<1>2. addr \in Nat /\ next <= addr
  BY <1>1, UpBounds
<1>3. size \in Nat
  BY <1>1, UpBounds
<1>4. i \in PoolSlots
  BY FreePool DEF CreateFpl, AreaInv, TInv, UTypes
<1>5. /\ fpls' = [fpls EXCEPT ![i] = pool]
      /\ next' = addr + size * p.count /\ next' <= RamEnd
      /\ UNCHANGED <<blocks, me>>
  BY DEF CreateFpl
<1> HIDE DEF i, addr, size
<1>6. size * p.count \in Nat
  BY <1>1, <1>3
<1>7. PoolAreas' \subseteq PoolAreas \cup {c}
  <2>1. \A j \in PoolSlots : fpls'[j] = IF j = i THEN pool ELSE fpls[j]
    BY <1>5 DEF AreaInv, TInv, UTypes, PoolTable
  <2>2. pool.active /\ pool.addr = addr /\ pool.size = size /\ pool.count = p.count
    OBVIOUS
  <2> HIDE DEF pool
  <2> QED
    BY <2>1, <2>2 DEF PoolAreas
<1>8. Areas' \subseteq Areas \cup {c}
  BY <1>5, <1>7, AreasParts DEF BlockAreas, MeAreas, PoolAreas
<1>9. /\ next \in Nat /\ next' \in Nat /\ next <= next' /\ FirstFree <= next
      /\ c.from \in Nat /\ c.to \in Nat
      /\ next <= c.from /\ c.from <= c.to /\ c.to <= next' /\ c.to <= RamEnd
  BY <1>1, <1>2, <1>5, <1>6
<1> HIDE DEF c
<1>10. Apart(Areas') /\ Below(Areas', next')
  BY <1>8, <1>9, OneMore DEF AreaInv
<1>11. TInv'
  BY CreateFplType DEF AreaInv
<1> QED
  BY <1>1, <1>2, <1>5, <1>6, <1>10, <1>11 DEF AreaInv, Apart, Below

(* The other calls take no address: areas go, or stay as they are. *)
LEMMA OthersApart ==
  ASSUME AreaInv, TInv', UNCHANGED next, Areas' \subseteq Areas
  PROVE  AreaInv'
<1>1. Apart(Areas') /\ Below(Areas', next)
  BY NoneMore DEF AreaInv
<1> QED
  BY <1>1 DEF AreaInv, Apart, Below

LEMMA FreePartitionMemoryApart ==
  ASSUME AreaInv, NEW i \in BlockSlots, FreePartitionMemory(i)
  PROVE  AreaInv'
<1>1. blocks' = [blocks EXCEPT ![i] = NoBlock] /\ UNCHANGED <<next, me, fpls>>
  BY DEF FreePartitionMemory
<1>2. BlockAreas' \subseteq BlockAreas
  <2>1. \A j \in BlockSlots : blocks'[j] = IF j = i THEN NoBlock ELSE blocks[j]
    BY <1>1 DEF AreaInv, TInv, UTypes, BlockTable
  <2> QED
    BY <2>1 DEF BlockAreas, NoBlock
<1>3. Areas' \subseteq Areas
  BY <1>1, <1>2, AreasParts DEF BlockAreas, MeAreas, PoolAreas
<1> QED
  BY <1>1, <1>3, OthersApart, FreePartitionMemoryType DEF AreaInv

LEMMA MeFreeApart ==
  ASSUME AreaInv, NEW i \in BlockSlots, MeFree(i)
  PROVE  AreaInv'
<1>1. me' = [me EXCEPT ![i] = NoBlock] /\ UNCHANGED <<next, blocks, fpls>>
  BY DEF MeFree
<1>2. MeAreas' \subseteq MeAreas
  <2>1. \A j \in BlockSlots : me'[j] = IF j = i THEN NoBlock ELSE me[j]
    BY <1>1 DEF AreaInv, TInv, UTypes, BlockTable
  <2> QED
    BY <2>1 DEF MeAreas, NoBlock
<1>3. Areas' \subseteq Areas
  BY <1>1, <1>2, AreasParts DEF BlockAreas, MeAreas, PoolAreas
<1> QED
  BY <1>1, <1>3, OthersApart, MeFreeType DEF AreaInv

(* A pool that is changed keeps its place. *)
LEMMA PoolChangeApart ==
  ASSUME AreaInv, TInv', NEW i \in PoolSlots, NEW pool, fpls' = [fpls EXCEPT ![i] = pool],
         pool.active => /\ fpls[i].active /\ pool.addr = fpls[i].addr
                        /\ pool.size = fpls[i].size /\ pool.count = fpls[i].count,
         UNCHANGED <<next, blocks, me>>
  PROVE  AreaInv'
<1>1. PoolAreas' \subseteq PoolAreas
  <2>1. \A j \in PoolSlots : fpls'[j] = IF j = i THEN pool ELSE fpls[j]
    BY DEF AreaInv, TInv, UTypes, PoolTable
  <2> QED
    BY <2>1 DEF PoolAreas
<1>2. Areas' \subseteq Areas
  BY <1>1, AreasParts DEF BlockAreas, MeAreas, PoolAreas
<1> QED
  BY <1>2, OthersApart

LEMMA PoolCallsApart ==
  ASSUME AreaInv, NEW i \in PoolSlots,
         DeleteFpl(i) \/ AllocateFpl(i) \/ \E addr \in FirstFree .. RamEnd - 1 : FreeFpl(i, addr)
  PROVE  AreaInv'
<1>1. TInv'
  BY DeleteFplType, AllocateFplType, FreeFplType DEF AreaInv
<1>2. CASE DeleteFpl(i)
  BY <1>1, <1>2, PoolChangeApart DEF DeleteFpl, NoPool
<1>3. ASSUME NEW U, fpls' = [fpls EXCEPT ![i].used = U], UNCHANGED <<next, blocks, me>>
      PROVE  AreaInv'
  <2> DEFINE pool == [fpls[i] EXCEPT !.used = U]
  <2>1. fpls' = [fpls EXCEPT ![i] = pool]
    BY <1>3
  <2>2. fpls[i] \in Pool
    BY DEF AreaInv, TInv, UTypes, PoolTable
  <2>3. /\ pool.active = fpls[i].active /\ pool.addr = fpls[i].addr
        /\ pool.size = fpls[i].size /\ pool.count = fpls[i].count
    BY <2>2 DEF Pool
  <2> HIDE DEF pool
  <2> QED
    BY <1>1, <1>3, <2>1, <2>3, PoolChangeApart
<1>4. CASE AllocateFpl(i)
  BY <1>3, <1>4 DEF AllocateFpl
<1>5. CASE \E addr \in FirstFree .. RamEnd - 1 : FreeFpl(i, addr)
  BY <1>3, <1>5 DEF FreeFpl
<1> QED
  BY <1>2, <1>4, <1>5

LEMMA AreaNext == ASSUME NoWrap PROVE AreaInv /\ [UNext]_mvars => AreaInv'
<1> SUFFICES ASSUME AreaInv, [UNext]_mvars PROVE AreaInv'
  OBVIOUS
<1>1. CASE UNCHANGED mvars
  <2>1. TInv'
    BY <1>1, TNext DEF AreaInv
  <2>2. Areas' \subseteq Areas
    BY <1>1 DEF mvars, Areas
  <2> QED
    BY <1>1, <2>1, <2>2, OthersApart DEF mvars
<1>2. CASE UNext
  BY <1>2, AllocPartitionMemoryApart, MeMallocApart, FreePartitionMemoryApart, MeFreeApart,
     CreateFplApart, PoolCallsApart
  DEF UNext
<1> QED
  BY <1>1, <1>2

(* No two areas that the program owns overlap, whichever table handed them *)
(* out and in whatever order: all three draw on one address that only      *)
(* moves up.  This needs sizes whose sum with the address stays below 2^32.*)
THEOREM AreasStayDisjoint == ASSUME NoWrap PROVE USpec => []AreasDisjoint
<1>1. AreaInv => AreasDisjoint
  BY DEF AreaInv, AreasDisjoint, Apart, Below
<1> QED
  BY <1>1, AreaInit, AreaNext, PTL DEF USpec

-----------------------------------------------------------------------------
(* Holders *)

(* What the program was given for block b of a pool. *)
Gift(pool, b) == [id |-> pool.id, addr |-> pool.addr + b * pool.size]

(* The program holds h by the books of the pools. *)
Booked(h) == \E i \in PoolSlots : fpls[i].active /\ \E b \in fpls[i].used : h = Gift(fpls[i], b)

BooksRight == \A h : h \in held <=> Booked(h)

(* A pool has no more blocks than RAM has addresses. *)
LEMMA FewBlocks ==
  ASSUME TInv, NEW i \in PoolSlots, fpls[i].active, NEW b \in fpls[i].used
  PROVE  b \in 0 .. RamEnd /\ b \in Nat
<1>1. /\ fpls[i] \in Pool
      /\ fpls[i].used \subseteq 0 .. fpls[i].count - 1
      /\ fpls[i].size # 0 /\ fpls[i].count # 0
      /\ fpls[i].addr + fpls[i].size * fpls[i].count <= RamEnd
  BY DEF TInv, UTypes, PoolTable, PoolShape
<1>2. PICK n \in Nat, m \in Nat, a \in Nat :
        n = fpls[i].count /\ m = fpls[i].size /\ a = fpls[i].addr
  BY <1>1 DEF Pool
<1>3. m >= 1 /\ b \in 0 .. n - 1 /\ a + m * n <= RamEnd
  BY <1>1, <1>2
<1>4. m * n >= n
  BY <1>3
<1> QED
  BY <1>2, <1>3, <1>4, RamAssumption

LEMMA PoolsKnowHoldersIs == ASSUME TInv PROVE PoolsKnowHolders <=> BooksRight
<1> DEFINE given == {[id |-> fpls[x[1]].id, addr |-> fpls[x[1]].addr + x[2] * fpls[x[1]].size] :
                       x \in {y \in PoolSlots \X (0 .. RamEnd) :
                                fpls[y[1]].active /\ y[2] \in fpls[y[1]].used}}
<1>1. ASSUME NEW h PROVE h \in given <=> Booked(h)
  <2>1. ASSUME h \in given PROVE Booked(h)
    <3>1. PICK y \in PoolSlots \X (0 .. RamEnd) :
            /\ fpls[y[1]].active /\ y[2] \in fpls[y[1]].used
            /\ h = [id |-> fpls[y[1]].id, addr |-> fpls[y[1]].addr + y[2] * fpls[y[1]].size]
      BY <2>1
    <3>2. y[1] \in PoolSlots /\ h = Gift(fpls[y[1]], y[2])
      BY <3>1 DEF Gift
    <3> QED
      BY <3>1, <3>2 DEF Booked
  <2>2. ASSUME Booked(h) PROVE h \in given
    <3>1. PICK i \in PoolSlots : fpls[i].active /\ \E b \in fpls[i].used : h = Gift(fpls[i], b)
      BY <2>2 DEF Booked
    <3>2. PICK b \in fpls[i].used : h = Gift(fpls[i], b)
      BY <3>1
    <3>3. b \in 0 .. RamEnd
      BY <3>1, FewBlocks
    <3> DEFINE y == <<i, b>>
    <3>4. /\ y \in PoolSlots \X (0 .. RamEnd) /\ y[1] = i /\ y[2] = b
      BY <3>3
    <3>5. /\ fpls[y[1]].active /\ y[2] \in fpls[y[1]].used
          /\ h = [id |-> fpls[y[1]].id, addr |-> fpls[y[1]].addr + y[2] * fpls[y[1]].size]
      BY <3>1, <3>2, <3>4 DEF Gift
    <3> HIDE DEF y
    <3> QED
      BY <3>4, <3>5
  <2> QED
    BY <2>1, <2>2
<1>2. PoolsKnowHolders <=> held = given
  BY DEF PoolsKnowHolders
<1> HIDE DEF given
<1> QED
  BY <1>1, <1>2 DEF BooksRight

(* No two blocks look alike to the program. *)
LEMMA GiftsDiffer ==
  ASSUME TInv, NEW i \in PoolSlots, NEW j \in PoolSlots, fpls[i].active, fpls[j].active,
         NEW b \in Nat, NEW c \in Nat, Gift(fpls[i], b) = Gift(fpls[j], c)
  PROVE  i = j /\ b = c
<1>1. fpls[i].id = fpls[j].id /\ fpls[i].addr + b * fpls[i].size = fpls[j].addr + c * fpls[j].size
  BY DEF Gift
<1>2. i = j
  BY <1>1 DEF TInv, IdsTold
<1>3. PICK a \in Nat, m \in Nat : a = fpls[i].addr /\ m = fpls[i].size /\ m # 0
  BY DEF TInv, UTypes, PoolTable, PoolShape, Pool
<1>4. a + b * m = a + c * m
  BY <1>1, <1>2, <1>3
<1>5. PICK d \in Int : d = b - c
  OBVIOUS
<1>6. d * m = 0
  <2>1. b * m = c * m
    BY <1>4
  <2>2. d * m = b * m - c * m
    BY <1>5
  <2> QED
    BY <2>1, <2>2
<1>7. d = 0
  BY <1>3, <1>6
<1> QED
  BY <1>2, <1>5, <1>7

HolderInv == TInv /\ BooksRight

LEMMA HolderInit == UInit => HolderInv
BY TInit DEF UInit, HolderInv, BooksRight, Booked, NoPool

(* A call that touches no pool. *)
LEMMA PoolsUntouched ==
  ASSUME HolderInv, TInv', UNCHANGED <<fpls, held>>
  PROVE  HolderInv'
BY DEF HolderInv, BooksRight, Booked, Gift

LEMMA CreateFplBooks ==
  ASSUME HolderInv, NEW p \in Pools, CreateFpl(p)
  PROVE  HolderInv'
<1> DEFINE i == First(Free(fpls))
           pool == [active |-> TRUE, id |-> nextId, addr |-> Up(next, FplAlign),
                    size |-> Up(p.size, p.align), count |-> p.count, used |-> {}]
<1>1. i \in PoolSlots /\ ~fpls[i].active
  BY FreePool DEF CreateFpl, HolderInv, TInv, UTypes
<1>2. fpls' = [fpls EXCEPT ![i] = pool] /\ held' = held
  BY DEF CreateFpl
<1>3. pool.used = {}
  OBVIOUS
<1> HIDE DEF i, pool
<1>4. \A j \in PoolSlots : fpls'[j] = IF j = i THEN pool ELSE fpls[j]
  BY <1>2 DEF HolderInv, TInv, UTypes, PoolTable
<1>5. ASSUME NEW h PROVE Booked(h)' <=> Booked(h)
  BY <1>1, <1>3, <1>4 DEF Booked
<1>6. BooksRight'
  BY <1>2, <1>5 DEF HolderInv, BooksRight
<1> QED
  BY <1>6, CreateFplType DEF HolderInv

LEMMA DeleteFplBooks ==
  ASSUME HolderInv, NEW i \in PoolSlots, DeleteFpl(i)
  PROVE  HolderInv'
<1>1. /\ fpls[i].active
      /\ fpls' = [fpls EXCEPT ![i] = NoPool]
      /\ held' = {h \in held : h.id # fpls[i].id}
  BY DEF DeleteFpl
<1>2. \A j \in PoolSlots : fpls'[j] = IF j = i THEN NoPool ELSE fpls[j]
  BY <1>1 DEF HolderInv, TInv, UTypes, PoolTable
<1>3. \A j \in PoolSlots : fpls[j].active /\ j # i => fpls[j].id # fpls[i].id
  BY <1>1 DEF HolderInv, TInv, IdsTold
<1>4. \A j \in PoolSlots : \A b : Gift(fpls[j], b).id = fpls[j].id
  BY DEF Gift
<1>5. ASSUME NEW h PROVE Booked(h)' <=> Booked(h) /\ h.id # fpls[i].id
  <2>1. ASSUME Booked(h)' PROVE Booked(h) /\ h.id # fpls[i].id
    <3>1. PICK j \in PoolSlots : fpls'[j].active /\ \E b \in fpls'[j].used : h = Gift(fpls'[j], b)
      BY <2>1 DEF Booked
    <3>2. j # i /\ fpls'[j] = fpls[j]
      BY <1>2, <3>1 DEF NoPool
    <3>3. Booked(h)
      BY <3>1, <3>2 DEF Booked
    <3>4. h.id = fpls[j].id
      BY <1>4, <3>1, <3>2
    <3> QED
      BY <1>3, <3>1, <3>2, <3>3, <3>4
  <2>2. ASSUME Booked(h), h.id # fpls[i].id PROVE Booked(h)'
    <3>1. PICK j \in PoolSlots : fpls[j].active /\ \E b \in fpls[j].used : h = Gift(fpls[j], b)
      BY <2>2 DEF Booked
    <3>2. j # i
      BY <1>4, <2>2, <3>1
    <3>3. fpls'[j] = fpls[j]
      BY <1>2, <3>2
    <3> QED
      BY <3>1, <3>3 DEF Booked
  <2> QED
    BY <2>1, <2>2
<1>6. BooksRight'
  BY <1>1, <1>5 DEF HolderInv, BooksRight
<1> QED
  BY <1>6, DeleteFplType DEF HolderInv

(* A block of pool i is booked, or not any longer. *)
LEMMA BookChange ==
  ASSUME HolderInv, TInv', NEW i \in PoolSlots, fpls[i].active, NEW b \in Nat, NEW U \in SUBSET Nat,
         fpls' = [fpls EXCEPT ![i].used = U],
         \/ U = fpls[i].used \cup {b} /\ held' = held \cup {Gift(fpls[i], b)}
         \/ /\ U = fpls[i].used \ {b} /\ b \in fpls[i].used
            /\ held' = held \ {Gift(fpls[i], b)}
  PROVE  HolderInv'
<1>1. ASSUME NEW j \in PoolSlots
      PROVE  /\ fpls'[j].active = fpls[j].active
             /\ \A c : Gift(fpls'[j], c) = Gift(fpls[j], c)
             /\ fpls'[j].used = IF j = i THEN U ELSE fpls[j].used
             /\ fpls[j].used \subseteq Nat
  <2>1. fpls[j] \in Pool /\ fpls'[j] = IF j = i THEN [fpls[j] EXCEPT !.used = U] ELSE fpls[j]
    BY DEF HolderInv, TInv, UTypes, PoolTable
  <2> QED
    BY <2>1 DEF Pool, Gift
<1> DEFINE g == Gift(fpls[i], b)
<1>2. \A j \in PoolSlots : \A c \in Nat :
        fpls[j].active /\ Gift(fpls[j], c) = g => i = j /\ b = c
  BY GiftsDiffer DEF HolderInv
<1> HIDE DEF g
<1>3. CASE U = fpls[i].used \cup {b} /\ held' = held \cup {g}
  <2>1. ASSUME NEW h PROVE Booked(h)' <=> Booked(h) \/ h = g
    <3>1. ASSUME Booked(h)' PROVE Booked(h) \/ h = g
      <4>1. PICK j \in PoolSlots : fpls[j].active /\ \E c \in fpls'[j].used : h = Gift(fpls[j], c)
        BY <1>1, <3>1 DEF Booked
      <4>2. PICK c \in fpls'[j].used : h = Gift(fpls[j], c)
        BY <4>1
      <4>3. c \in fpls[j].used \/ (j = i /\ c = b)
        BY <1>1, <1>3
      <4> QED
        BY <4>1, <4>2, <4>3 DEF Booked, g
    <3>2. ASSUME Booked(h) PROVE Booked(h)'
      <4>1. PICK j \in PoolSlots : fpls[j].active /\ \E c \in fpls[j].used : h = Gift(fpls[j], c)
        BY <3>2 DEF Booked
      <4>2. PICK c \in fpls[j].used : h = Gift(fpls[j], c)
        BY <4>1
      <4>3. c \in fpls'[j].used
        BY <1>1, <1>3
      <4> QED
        BY <1>1, <4>1, <4>2, <4>3 DEF Booked
    <3>3. ASSUME h = g PROVE Booked(h)'
      <4>1. b \in fpls'[i].used /\ fpls'[i].active /\ h = Gift(fpls'[i], b)
        BY <1>1, <1>3, <3>3 DEF g
      <4> QED
        BY <4>1 DEF Booked
    <3> QED
      BY <3>1, <3>2, <3>3
  <2>2. BooksRight'
    BY <1>3, <2>1 DEF HolderInv, BooksRight
  <2> QED
    BY <2>2 DEF HolderInv
<1>4. CASE U = fpls[i].used \ {b} /\ b \in fpls[i].used /\ held' = held \ {g}
  <2>1. ASSUME NEW h PROVE Booked(h)' <=> Booked(h) /\ h # g
    <3>1. ASSUME Booked(h)' PROVE Booked(h) /\ h # g
      <4>1. PICK j \in PoolSlots : fpls[j].active /\ \E c \in fpls'[j].used : h = Gift(fpls[j], c)
        BY <1>1, <3>1 DEF Booked
      <4>2. PICK c \in fpls'[j].used : h = Gift(fpls[j], c)
        BY <4>1
      <4>3. c \in fpls[j].used /\ c \in Nat /\ ~(j = i /\ c = b)
        BY <1>1, <1>4
      <4> QED
        BY <1>2, <4>1, <4>2, <4>3 DEF Booked
    <3>2. ASSUME Booked(h), h # g PROVE Booked(h)'
      <4>1. PICK j \in PoolSlots : fpls[j].active /\ \E c \in fpls[j].used : h = Gift(fpls[j], c)
        BY <3>2 DEF Booked
      <4>2. PICK c \in fpls[j].used : h = Gift(fpls[j], c)
        BY <4>1
      <4>3. ~(j = i /\ c = b)
        BY <3>2, <4>2 DEF g
      <4>4. c \in fpls'[j].used
        BY <1>1, <1>4, <4>3
      <4> QED
        BY <1>1, <4>1, <4>2, <4>4 DEF Booked
    <3> QED
      BY <3>1, <3>2
  <2>2. BooksRight'
    BY <1>4, <2>1 DEF HolderInv, BooksRight
  <2> QED
    BY <2>2 DEF HolderInv
<1> QED
  BY <1>3, <1>4 DEF g

LEMMA AllocateFplBooks ==
  ASSUME HolderInv, NEW i \in PoolSlots, AllocateFpl(i)
  PROVE  HolderInv'
<1> DEFINE unused == 0 .. fpls[i].count - 1 \ fpls[i].used
           b == First(unused)
           U == fpls[i].used \cup {b}
<1>1. unused \in SUBSET Nat /\ unused # {}
  BY DEF AllocateFpl
<1>2. b \in Nat
  BY <1>1, FirstIn
<1>3. fpls[i].used \in SUBSET Nat
  BY DEF HolderInv, TInv, UTypes, PoolTable, Pool
<1>4. /\ fpls[i].active
      /\ fpls' = [fpls EXCEPT ![i].used = U]
      /\ held' = held \cup {Gift(fpls[i], b)}
  BY DEF AllocateFpl, Gift
<1>5. TInv'
  BY AllocateFplType DEF HolderInv
<1> HIDE DEF b, unused
<1>6. U \in SUBSET Nat
  BY <1>2, <1>3
<1> QED
  BY <1>2, <1>4, <1>5, <1>6, BookChange

LEMMA FreeFplBooks ==
  ASSUME HolderInv, NEW i \in PoolSlots, NEW addr \in FirstFree .. RamEnd - 1, FreeFpl(i, addr)
  PROVE  HolderInv'
<1>1. PICK a \in Nat, m \in Nat \ {0} : a = fpls[i].addr /\ m = fpls[i].size
  BY DEF FreeFpl, HolderInv, TInv, UTypes, PoolTable, PoolShape, Pool
<1>2. PICK d \in Nat : d = addr - a /\ addr \in Nat
  BY <1>1, RamAssumption DEF FreeFpl, IsBlock
<1>3. PICK b \in Int, r \in 0 .. m - 1 : d = m * b + r /\ b = d \div m /\ r = d % m
  BY DivMod
<1>4. r = 0 /\ b \in fpls[i].used
  BY <1>1, <1>2, <1>3 DEF FreeFpl, IsBlock
<1>5. addr = a + b * m
  BY <1>2, <1>3, <1>4
<1>6. Gift(fpls[i], b) = [id |-> fpls[i].id, addr |-> addr]
  BY <1>1, <1>5 DEF Gift
<1> DEFINE U == fpls[i].used \ {b}
<1>7. fpls[i].used \in SUBSET Nat
  BY DEF HolderInv, TInv, UTypes, PoolTable, Pool
<1>8. /\ fpls[i].active
      /\ fpls' = [fpls EXCEPT ![i].used = U]
      /\ held' = held \ {Gift(fpls[i], b)}
  BY <1>1, <1>2, <1>3, <1>6 DEF FreeFpl
<1>9. TInv'
  BY FreeFplType DEF HolderInv
<1> QED
  BY <1>4, <1>7, <1>8, <1>9, BookChange

LEMMA HolderNext == HolderInv /\ [UNext]_mvars => HolderInv'
<1> SUFFICES ASSUME HolderInv, [UNext]_mvars PROVE HolderInv'
  OBVIOUS
<1>1. TInv'
  BY TNext DEF HolderInv
<1>2. CASE UNCHANGED mvars
  BY <1>1, <1>2, PoolsUntouched DEF mvars
<1>3. ASSUME NEW size \in Sizes, AllocPartitionMemory(size) \/ MeMalloc(size)
      PROVE  HolderInv'
  BY <1>1, <1>3, PoolsUntouched DEF AllocPartitionMemory, MeMalloc
<1>4. ASSUME NEW i \in BlockSlots, FreePartitionMemory(i) \/ MeFree(i)
      PROVE  HolderInv'
  BY <1>1, <1>4, PoolsUntouched DEF FreePartitionMemory, MeFree
<1> QED
  BY <1>2, <1>3, <1>4, CreateFplBooks, DeleteFplBooks, AllocateFplBooks, FreeFplBooks
  DEF UNext

(* The books of the pools are right about who holds which block, though    *)
(* the program may hand any address in any pool to sceKernelFreeFpl.       *)
THEOREM HoldersStayKnown == USpec => []PoolsKnowHolders
<1>1. HolderInv => PoolsKnowHolders
  BY PoolsKnowHoldersIs DEF HolderInv
<1> QED
  BY <1>1, HolderInit, HolderNext, PTL DEF USpec

=============================================================================
