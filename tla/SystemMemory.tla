----------------------------- MODULE SystemMemory -----------------------------
(***************************************************************************)
(* How memory becomes usable.  In SEC, MemoryPeim validates the memory map *)
(* of the platform (a table compiled in), builds the HOBs and the page     *)
(* tables.  In DXE, RamManagerDxe compares the RAM partitions the boot     *)
(* loader reports with what DXE already knows and adds the gaps.           *)
(*                                                                         *)
(* A region or range is the set base..end-1 of addresses.  Between the two *)
(* stands the DXE core, from outside the repository: memory HOBs end up in *)
(* the EFI memory map and in the GCD, device HOBs only in the GCD, and a   *)
(* region without HOB is in neither.                                       *)
(***************************************************************************)
EXTENDS Naturals, Sequences

CONSTANTS
  MemoryMaps,       \* tables the platforms may have
  RamPartitions,    \* RAM partitions the boot loader may report
  SystemMemoryBase, \* PcdSystemMemoryBase; registers are below
  MAX_ARM_MEMORY_REGION_DESCRIPTOR_COUNT,
  CountLimit        \* 2^8: the number of ranges is passed as a UINT8

Option   == {"NoHob", "AddMem", "AddDev"}
RamRange == [base : Nat, end : Nat]
Region   == [base : Nat, end : Nat, hob : Option]

ASSUME MemoryAssumption ==
  /\ \A m \in MemoryMaps : m \in Seq(Region)
  /\ \A p \in RamPartitions : p \in Seq(RamRange)
  /\ SystemMemoryBase \in Nat /\ MAX_ARM_MEMORY_REGION_DESCRIPTOR_COUNT \in Nat
  /\ CountLimit \in Nat \ {0}

\* A region is a base and a length.
ASSUME RegionAssumption ==
  \A m \in MemoryMaps : \A i \in DOMAIN m : m[i].base <= m[i].end

VARIABLES
  pc,          \* where the boot is
  memoryMap,   \* the table, sorted once it is validated
  efiMap,      \* EfiMemoryMap, the copy RamManagerDxe took
  ranges,      \* MemoryRange and MemoryRangeCount
  r, d,        \* the range and the descriptor being looked at
  rangeBase,   \* CurrentRangeBase
  gcd,         \* addresses the GCD knows
  mapped,      \* addresses added as memory and mapped write-back
  handed,      \* history: addresses given to HandleRamRange
  again,       \* history: an address was given to it twice
  failed       \* history: it reported an error

memory == <<gcd, mapped, handed, again, failed>>
vars   == <<pc, memoryMap, efiMap, ranges, r, d, rangeBase, memory>>

Addresses(x) == x.base..x.end - 1
AllOf(s)     == UNION {Addresses(s[i]) : i \in DOMAIN s}
Sorted(s)    == \A i, j \in DOMAIN s : i < j => s[i].base <= s[j].base

\* PerformQuickSort by base; equal bases end up in any order.
PerformQuickSort(s) ==
  LET orders == {p \in [DOMAIN s -> DOMAIN s] : \A i, j \in DOMAIN s : p[i] = p[j] => i = j}
  IN  {t \in {[i \in DOMAIN s |-> s[p[i]]] : p \in orders} : Sorted(t)}

Init ==
  /\ pc = "validate" /\ memoryMap \in MemoryMaps
  /\ efiMap = <<>> /\ ranges = <<>> /\ r = 0 /\ d = 0 /\ rangeBase = 0
  /\ gcd = {} /\ mapped = {} /\ handed = {} /\ again = FALSE /\ failed = FALSE

-----------------------------------------------------------------------------
\* The last pair is not compared.
ValidButLast(m) ==
  \A i \in 1..Len(m) - 2 : m[i].base >= SystemMemoryBase => m[i].end <= m[i + 1].base

\* SEC.  Neighbours must not overlap; register regions are not looked at.
Valid(m) ==
  \A i \in 1..Len(m) - 1 : m[i].base >= SystemMemoryBase => m[i].end <= m[i + 1].base

\* Too many regions fail an assertion, or overrun MemoryTable in a RELEASE build.
ValidateMemoryMap ==
  /\ pc = "validate"
  /\ memoryMap' \in PerformQuickSort(memoryMap)
  /\ pc' \in IF Len(memoryMap) > MAX_ARM_MEMORY_REGION_DESCRIPTOR_COUNT THEN {"dead loop", "fault"}
             ELSE {IF Valid(memoryMap') THEN "hobs" ELSE "dead loop"}
  /\ UNCHANGED <<efiMap, ranges, r, d, rangeBase, memory>>

\* AddHob for every region, then ArmConfigureMmu, which may fail.  A table with
\* as many regions as MemoryTable holds leaves no room for the entry that ends
\* it, and what follows on the stack is taken for regions.
MemoryPeim ==
  /\ pc = "hobs"
  /\ pc' \in {"dxe", "dead loop"} \union
            IF Len(memoryMap) = MAX_ARM_MEMORY_REGION_DESCRIPTOR_COUNT THEN {"fault"} ELSE {}
  /\ gcd' = UNION {Addresses(memoryMap[i]) :
                     i \in {k \in DOMAIN memoryMap : memoryMap[k].hob # "NoHob"}}
  /\ UNCHANGED <<memoryMap, efiMap, ranges, r, d, rangeBase, mapped, handed, again, failed>>

-----------------------------------------------------------------------------
(***************************************************************************)
(* RamManagerDxe.  When the memory map or the ranges cannot be had,        *)
(* ManageRam frees MemoryRange, which was never set: that faults or does   *)
(* nothing, as the stack has it.                                           *)
(***************************************************************************)
EfiMemory == {x \in {memoryMap[i] : i \in DOMAIN memoryMap} : x.hob = "AddMem"}

\* What GetMemoryMap returns, sorted: every described region once.
SortedMaps ==
  {s \in UNION {[1..n -> EfiMemory] : n \in 0..Len(memoryMap)} :
     Sorted(s) /\ \A x \in EfiMemory : \E i \in DOMAIN s :
       s[i] = x /\ \A j \in DOMAIN s : s[j] = x => j = i}

GetEfiMemoryMap ==
  /\ pc = "dxe" /\ pc' = "usable" /\ efiMap' \in SortedMaps
  /\ UNCHANGED <<memoryMap, ranges, r, d, rangeBase, memory>>

GetUsableMemoryRanges ==
  /\ pc = "usable" /\ pc' = "range" /\ r' = 1
  /\ \E p \in RamPartitions : ranges' \in PerformQuickSort(SubSeq(p, 1, Len(p) % CountLimit))
  /\ UNCHANGED <<memoryMap, efiMap, d, rangeBase, memory>>

ManageRamFails ==
  /\ pc \in {"dxe", "usable"} /\ pc' \in {"unmanaged", "fault"}
  /\ UNCHANGED <<memoryMap, efiMap, ranges, r, d, rangeBase, memory>>

\* MapMemoryRegion.  AddMemorySpace refuses what the GCD knows in part, and any
\* of its three steps may fail and leaves what the steps before it have done.
HandleRamRange(base, end) ==
  LET gap == base..end - 1 IN
  /\ handed' = handed \union gap
  /\ again' = (again \/ gap \intersect handed # {})
  /\ \/ failed' = TRUE /\ UNCHANGED <<gcd, mapped>>
     \/ /\ gap \intersect gcd = {} /\ gcd' = gcd \union gap
        /\ \/ failed' = TRUE /\ UNCHANGED mapped
           \/ failed' = failed /\ mapped' = mapped \union gap

NextRange ==
  /\ pc = "range" /\ r <= Len(ranges) /\ pc' = "parse"
  /\ rangeBase' = ranges[r].base /\ d' = 1
  /\ UNCHANGED <<memoryMap, efiMap, ranges, r, memory>>

\* ParseMemoryRange, descriptor by descriptor.
InRange == d <= Len(efiMap) /\ efiMap[d].base < ranges[r].end

Below ==
  /\ pc = "parse" /\ InRange /\ efiMap[d].end <= rangeBase /\ d' = d + 1
  /\ UNCHANGED <<pc, memoryMap, efiMap, ranges, r, rangeBase, memory>>

\* The base stays in front of the region, or moves to its beginning.
StaysPut(x) == rangeBase
MovesTo(x)  == x.base

\* The range goes on behind the region.
Behind(x) == x.end

Gap ==
  /\ pc = "parse" /\ InRange /\ efiMap[d].end > rangeBase /\ d' = d + 1
  /\ IF efiMap[d].base > rangeBase THEN HandleRamRange(rangeBase, efiMap[d].base)
     ELSE UNCHANGED memory
  /\ rangeBase' = Behind(efiMap[d])
  /\ UNCHANGED <<pc, memoryMap, efiMap, ranges, r>>

\* Without the part behind the last region.
NoRemainder ==
  /\ pc = "parse" /\ ~InRange /\ pc' = "range" /\ r' = r + 1
  /\ UNCHANGED <<memoryMap, efiMap, ranges, d, rangeBase, memory>>

Remainder ==
  /\ pc = "parse" /\ ~InRange /\ pc' = "range" /\ r' = r + 1
  /\ IF rangeBase < ranges[r].end THEN HandleRamRange(rangeBase, ranges[r].end)
     ELSE UNCHANGED memory
  /\ UNCHANGED <<memoryMap, efiMap, ranges, d, rangeBase>>

Next ==
  \/ ValidateMemoryMap \/ MemoryPeim \/ GetEfiMemoryMap \/ GetUsableMemoryRanges \/ ManageRamFails
  \/ NextRange \/ Below \/ Gap \/ Remainder

Spec == Init /\ [][Next]_vars

-----------------------------------------------------------------------------
\* The type invariant, with which memory that is mapped was accepted by the GCD.
TypeOK ==
  /\ pc \in {"validate", "hobs", "dead loop", "dxe", "usable", "unmanaged", "fault",
             "range", "parse"}
  /\ memoryMap \in Seq(Region) /\ efiMap \in Seq(Region) /\ ranges \in Seq(RamRange)
  /\ r \in Nat /\ d \in Nat /\ rangeBase \in Nat
  /\ gcd \subseteq Nat /\ mapped \subseteq gcd /\ handed \subseteq Nat
  /\ again \in BOOLEAN /\ failed \in BOOLEAN

\* A boot that goes on has disjoint memory regions: comparing neighbours in
\* the sorted table is enough.
MemoryDisjoint ==
  pc \notin {"validate", "dead loop", "fault"} =>
    \A i, j \in DOMAIN memoryMap : i < j /\ memoryMap[i].base >= SystemMemoryBase =>
      Addresses(memoryMap[i]) \intersect Addresses(memoryMap[j]) = {}

\* Only RAM of a partition is handed out, and none that the platform's table
\* describes as memory.  A device in RAM may be handed out, but the GCD knows
\* it, and it is not mapped as memory.  A region that gets no HOB is out of
\* sight in DXE: its RAM is used like any other, whatever it is reserved for.
HandsOutFreeRam ==
  /\ handed \subseteq AllOf(ranges)
  /\ \A i \in DOMAIN memoryMap :
       /\ memoryMap[i].hob = "AddMem" => Addresses(memoryMap[i]) \intersect handed = {}
       /\ memoryMap[i].hob # "NoHob"  => Addresses(memoryMap[i]) \intersect mapped = {}

\* Once a range is parsed each of its addresses was described or handed out.
NothingForgotten ==
  pc \in {"range", "parse"} =>
    \A i \in DOMAIN ranges : i < r => Addresses(ranges[i]) \subseteq AllOf(efiMap) \union handed

RangesApart ==
  \A i, j \in DOMAIN ranges : i # j => Addresses(ranges[i]) \intersect Addresses(ranges[j]) = {}

\* Partitions that do not overlap are handed out once: none is refused because
\* of what another added.
HandedOutOnce == RangesApart => ~again
=============================================================================
