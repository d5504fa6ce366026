-------------------------- MODULE SystemMemoryProofs --------------------------
(***************************************************************************)
(* For every memory map and every set of RAM partitions: a validated map   *)
(* has disjoint regions, and ParseMemoryRange hands out exactly the        *)
(* addresses of a partition that the memory map does not describe.         *)
(*                                                                         *)
(* The argument is the loop invariant of ParseMemoryRange (Parsed): what   *)
(* lies in front of CurrentRangeBase is settled, what the descriptors      *)
(* behind index d describe begins at or behind them, as the map is sorted. *)
(* CurrentRangeBase only moves up, so that nothing is handed out twice.    *)
(***************************************************************************)
EXTENDS SystemMemory, SequenceTheorems, TLAPS

\* A sorted table has the entries of the table it was sorted from.
LEMMA SortTyped ==
  ASSUME NEW S, NEW s \in Seq(S), NEW t \in PerformQuickSort(s)
  PROVE  t \in Seq(S) /\ DOMAIN t = DOMAIN s /\ Sorted(t)
<1>1. PICK p \in [DOMAIN s -> DOMAIN s] : t = [i \in DOMAIN s |-> s[p[i]]] /\ Sorted(t)
  BY DEF PerformQuickSort
<1>2. Len(s) \in Nat /\ DOMAIN s = 1..Len(s) /\ s \in [1..Len(s) -> S]
  BY LenProperties
<1>3. t \in [1..Len(s) -> S]
  BY <1>1, <1>2
<1>4. t \in Seq(S)
  BY <1>2, <1>3, IsASeq
<1>5. QED  BY <1>1, <1>4

LEMMA AllOfHas ==
  ASSUME NEW s, NEW a
  PROVE  a \in AllOf(s) <=> \E i \in DOMAIN s : a \in Addresses(s[i])
BY DEF AllOf

-----------------------------------------------------------------------------
\* Neighbours that do not overlap, in a sorted table, leave no overlap at all.
LEMMA NeighboursSuffice ==
  ASSUME MemoryAssumption, NEW m \in Seq(Region), Sorted(m), Valid(m),
         NEW i \in DOMAIN m, NEW j \in DOMAIN m, i < j, m[i].base >= SystemMemoryBase
  PROVE  Addresses(m[i]) \intersect Addresses(m[j]) = {}
<1>1. Len(m) \in Nat /\ DOMAIN m = 1..Len(m)
  BY LenProperties
<1>2. i \in 1..Len(m) - 1 /\ i + 1 \in DOMAIN m /\ i + 1 <= j
  BY <1>1
<1>3. m[i].end <= m[i + 1].base
  BY <1>2 DEF Valid
<1>4. m[i + 1].base <= m[j].base
  <2>1. m[j] \in Region
    BY <1>1, ElementOfSeq
  <2>2. CASE i + 1 = j
    BY <2>1, <2>2 DEF Region
  <2>3. CASE i + 1 < j
    BY <1>2, <2>3 DEF Sorted
  <2>4. QED  BY <1>1, <1>2, <2>2, <2>3
<1>5. m[i] \in Region /\ m[i + 1] \in Region /\ m[j] \in Region
  BY <1>1, <1>2, ElementOfSeq
<1>6. m[i].end \in Nat /\ m[i + 1].base \in Nat /\ m[j].base \in Nat
  BY <1>5 DEF Region
<1>7. m[i].end <= m[j].base
  BY <1>3, <1>4, <1>6
<1>8. QED  BY <1>6, <1>7 DEF Addresses

MapInv == memoryMap \in Seq(Region) /\ MemoryDisjoint

LEMMA MapStep ==
  ASSUME MemoryAssumption, MapInv, [Next]_vars
  PROVE  MapInv'
<1>1. CASE ValidateMemoryMap
  <2>1. memoryMap' \in Seq(Region) /\ Sorted(memoryMap')
    BY <1>1, SortTyped DEF ValidateMemoryMap, MapInv
  <2>2. pc' \in {"dead loop", "fault"} \/ Valid(memoryMap')
    BY <1>1 DEF ValidateMemoryMap
  <2>3. MemoryDisjoint'
    BY <2>1, <2>2, NeighboursSuffice DEF MemoryDisjoint
  <2>4. QED  BY <2>1, <2>3 DEF MapInv
<1>2. CASE UNCHANGED memoryMap /\ pc \notin {"validate", "dead loop", "fault"}
  BY <1>2 DEF MapInv, MemoryDisjoint
<1>3. CASE UNCHANGED vars
  BY <1>3 DEF MapInv, MemoryDisjoint, vars
<1>4. QED
  BY <1>1, <1>2, <1>3 DEF Next, MemoryPeim, GetEfiMemoryMap, GetUsableMemoryRanges,
     ManageRamFails, NextRange, Below, Gap, Remainder

\* When SEC goes on after ValidateMemoryMap, no memory region of the platform
\* overlaps another, for every table: checking neighbours is enough.
THEOREM ValidMeansDisjoint == Spec => []MemoryDisjoint
<1>1. Init => MapInv
  BY MemoryAssumption DEF Init, MapInv, MemoryDisjoint, MemoryAssumption
<1>2. MapInv /\ [Next]_vars => MapInv'
  BY MapStep, MemoryAssumption
<1>3. MapInv => MemoryDisjoint
  BY DEF MapInv
<1>4. QED  BY <1>1, <1>2, <1>3, PTL DEF Spec

-----------------------------------------------------------------------------
Looping == pc \in {"range", "parse"}

Shapes ==
  /\ memoryMap \in Seq(Region) /\ efiMap \in Seq(Region) /\ ranges \in Seq(RamRange)
  /\ r \in Nat /\ d \in Nat /\ rangeBase \in Nat
  /\ pc \in {"usable", "range", "parse"} => Sorted(efiMap)
  /\ ~Looping => handed = {}
  /\ Looping => r >= 1

\* The loop invariant of ParseMemoryRange.
Parsed ==
  pc = "parse" =>
    /\ r <= Len(ranges) /\ d >= 1 /\ rangeBase >= ranges[r].base
    /\ \A k \in DOMAIN efiMap : k < d => efiMap[k].end <= rangeBase
    /\ \A a \in Addresses(ranges[r]) : a < rangeBase => a \in AllOf(efiMap) \union handed

\* What the EFI memory map lists is not handed out.
ListedStays == handed \subseteq AllOf(ranges) /\ handed \intersect AllOf(efiMap) = {}

RamInv == Shapes /\ Parsed /\ ListedStays /\ NothingForgotten

\* A gap in front of descriptor d, or behind them all, is RAM nobody describes.
LEMMA GapIsFree ==
  ASSUME MemoryAssumption, RamInv, pc = "parse", NEW top \in Nat,
         top <= ranges[r].end,
         d \in DOMAIN efiMap => top <= efiMap[d].base
  PROVE  /\ rangeBase..top - 1 \subseteq Addresses(ranges[r])
         /\ (rangeBase..top - 1) \intersect AllOf(efiMap) = {}
<1>1. /\ efiMap \in Seq(Region) /\ DOMAIN efiMap = 1..Len(efiMap) /\ Len(efiMap) \in Nat
      /\ Sorted(efiMap) /\ d \in Nat \ {0} /\ rangeBase \in Nat
      /\ r \in DOMAIN ranges /\ ranges[r] \in RamRange
  <2>1. Shapes /\ Parsed
    BY DEF RamInv
  <2>2. /\ efiMap \in Seq(Region) /\ ranges \in Seq(RamRange)
        /\ r \in Nat /\ d \in Nat /\ rangeBase \in Nat
    BY <2>1 DEF Shapes
  <2>3. Sorted(efiMap) /\ r >= 1 /\ r <= Len(ranges) /\ d >= 1
    BY <2>1 DEF Shapes, Parsed, Looping
  <2>4. DOMAIN efiMap = 1..Len(efiMap) /\ Len(efiMap) \in Nat
    BY <2>2, LenProperties
  <2>5. r \in DOMAIN ranges /\ ranges[r] \in RamRange
    BY <2>2, <2>3, LenProperties, ElementOfSeq
  <2>6. QED  BY <2>2, <2>3, <2>4, <2>5
<1>2. rangeBase >= ranges[r].base /\ \A k \in DOMAIN efiMap : k < d => efiMap[k].end <= rangeBase
  BY DEF RamInv, Parsed
<1>3. rangeBase..top - 1 \subseteq Addresses(ranges[r])
  <2>1. ranges[r].base \in Nat /\ ranges[r].end \in Nat
    BY <1>1 DEF RamRange
  <2>2. ASSUME NEW a \in rangeBase..top - 1
        PROVE  a \in ranges[r].base..ranges[r].end - 1
    BY <1>1, <1>2, <2>1, <2>2
  <2>3. QED  BY <2>2 DEF Addresses
<1>4. ASSUME NEW k \in DOMAIN efiMap
      PROVE  (rangeBase..top - 1) \intersect Addresses(efiMap[k]) = {}
  <2>1. efiMap[k] \in Region
    BY <1>1, ElementOfSeq
  <2>2. CASE k < d
    BY <1>1, <1>2, <2>1, <2>2 DEF Addresses, Region
  <2>3. CASE k >= d
    <3>1. d \in DOMAIN efiMap /\ k \in Nat
      BY <1>1, <2>3
    <3>2. efiMap[d] \in Region
      BY <1>1, <3>1, ElementOfSeq
    <3>3. efiMap[d].base <= efiMap[k].base
      <4>1. CASE k = d
        BY <3>2, <4>1 DEF Region
      <4>2. CASE k > d
        BY <1>1, <3>1, <4>2 DEF Sorted
      <4>3. QED  BY <1>1, <2>3, <3>1, <4>1, <4>2
    <3>4. QED  BY <1>1, <2>1, <3>1, <3>2, <3>3 DEF Addresses, Region
  <2>4. QED  BY <1>1, <2>2, <2>3
<1>5. QED  BY <1>3, <1>4, AllOfHas

-----------------------------------------------------------------------------
\* Before the first range: the two tables are read and nothing is handed out.
LEMMA TablesRead ==
  ASSUME MemoryAssumption, RamInv,
         \/ ValidateMemoryMap \/ MemoryPeim \/ GetEfiMemoryMap
         \/ GetUsableMemoryRanges \/ ManageRamFails
  PROVE  RamInv'
<1>1. ~Looping /\ handed = {} /\ handed' = {} /\ Shapes
  BY DEF RamInv, Shapes, Looping, ValidateMemoryMap, MemoryPeim, GetEfiMemoryMap,
     GetUsableMemoryRanges, ManageRamFails, memory
<1>2. /\ pc' # "parse" /\ (pc' = "range" => r' = 1) /\ d' = d /\ rangeBase' = rangeBase
      /\ r' \in Nat /\ d \in Nat /\ rangeBase \in Nat
  <2>1. r \in Nat /\ d \in Nat /\ rangeBase \in Nat
    BY <1>1 DEF Shapes
  <2>2. CASE ValidateMemoryMap
    BY <2>1, <2>2 DEF ValidateMemoryMap
  <2>3. CASE GetUsableMemoryRanges
    BY <2>1, <2>3 DEF GetUsableMemoryRanges
  <2>4. CASE MemoryPeim \/ GetEfiMemoryMap \/ ManageRamFails
    BY <2>1, <2>4 DEF MemoryPeim, GetEfiMemoryMap, ManageRamFails
  <2>5. QED  BY <2>2, <2>3, <2>4
<1>3. memoryMap' \in Seq(Region)
  <2>1. CASE ValidateMemoryMap
    BY <1>1, <2>1, SortTyped DEF ValidateMemoryMap, Shapes
  <2>2. CASE UNCHANGED memoryMap
    BY <1>1, <2>2 DEF Shapes
  <2>3. QED
    BY <2>1, <2>2 DEF MemoryPeim, GetEfiMemoryMap, GetUsableMemoryRanges, ManageRamFails
<1>4. efiMap' \in Seq(Region) /\ (pc' \in {"usable", "range", "parse"} => Sorted(efiMap'))
  <2>1. CASE GetEfiMemoryMap
    <3>1. PICK n \in 0..Len(memoryMap) : efiMap' \in [1..n -> EfiMemory] /\ Sorted(efiMap')
      BY <2>1 DEF GetEfiMemoryMap, SortedMaps
    <3>2. memoryMap \in Seq(Region) /\ Len(memoryMap) \in Nat
      BY <1>1, LenProperties DEF Shapes
    <3>3. EfiMemory \subseteq Region
      BY <3>2, ElementOfSeq, LenProperties DEF EfiMemory
    <3>4. n \in Nat /\ efiMap' \in [1..n -> Region]
      BY <3>1, <3>2, <3>3
    <3>5. QED  BY <3>1, <3>4, IsASeq
  <2>2. CASE GetUsableMemoryRanges
    BY <1>1, <2>2 DEF GetUsableMemoryRanges, Shapes
  <2>3. CASE UNCHANGED efiMap /\ pc' \notin {"usable", "range", "parse"}
    BY <1>1, <2>3 DEF Shapes
  <2>4. QED
    BY <2>1, <2>2, <2>3 DEF ValidateMemoryMap, MemoryPeim, ManageRamFails
<1>5. ranges' \in Seq(RamRange)
  <2>1. CASE GetUsableMemoryRanges
    <3>1. PICK p \in RamPartitions : ranges' \in PerformQuickSort(SubSeq(p, 1, Len(p) % CountLimit))
      BY <2>1 DEF GetUsableMemoryRanges
    <3>2. p \in Seq(RamRange) /\ Len(p) \in Nat /\ CountLimit \in Nat \ {0}
      BY LenProperties DEF MemoryAssumption
    <3>3. Len(p) % CountLimit \in 0..Len(p)
      BY <3>2
    <3>4. SubSeq(p, 1, Len(p) % CountLimit) \in Seq(RamRange)
      BY <3>2, <3>3, SubSeqProperties
    <3>5. QED  BY <3>1, <3>4, SortTyped
  <2>2. CASE UNCHANGED ranges
    BY <1>1, <2>2 DEF Shapes
  <2>3. QED
    BY <2>1, <2>2 DEF ValidateMemoryMap, MemoryPeim, GetEfiMemoryMap, ManageRamFails
<1>6. Shapes'
  BY <1>1, <1>2, <1>3, <1>4, <1>5 DEF Shapes, Looping
<1>7. ListedStays' /\ NothingForgotten' /\ Parsed'
  <2>1. DOMAIN ranges' \subseteq Nat \ {0}
    BY <1>5, LenProperties
  <2>2. QED  BY <1>1, <1>2, <2>1 DEF ListedStays, NothingForgotten, Parsed
<1>8. QED  BY <1>6, <1>7 DEF RamInv

-----------------------------------------------------------------------------
\* HandleRamRange, whether it succeeds or not, has been given the gap.
LEMMA GivenTheGap ==
  ASSUME NEW b, NEW e, HandleRamRange(b, e)
  PROVE  handed' = handed \union (b..e - 1)
BY DEF HandleRamRange

\* What the loop settles of its range when it passes descriptor d, or the last.
LEMMA GapStep ==
  ASSUME MemoryAssumption, RamInv, Gap
  PROVE  RamInv'
<1>1. Shapes /\ Parsed /\ ListedStays /\ NothingForgotten
  BY DEF RamInv
<1>2. /\ pc = "parse" /\ pc' = "parse" /\ InRange /\ d' = d + 1 /\ efiMap[d].end > rangeBase
      /\ rangeBase' = efiMap[d].end
      /\ UNCHANGED <<memoryMap, efiMap, ranges, r>>
  BY DEF Gap, Behind
<1>3. /\ d \in DOMAIN efiMap /\ efiMap[d].base \in Nat /\ efiMap[d].end \in Nat
      /\ efiMap[d].base < ranges[r].end /\ rangeBase \in Nat /\ d \in Nat /\ d >= 1
      /\ r \in DOMAIN ranges /\ DOMAIN ranges \subseteq Nat /\ r \in Nat
      /\ ranges[r].base \in Nat /\ ranges[r].end \in Nat
  <2>1. /\ efiMap \in Seq(Region) /\ ranges \in Seq(RamRange)
        /\ rangeBase \in Nat /\ d \in Nat /\ d >= 1
        /\ r \in Nat /\ r >= 1 /\ r <= Len(ranges)
    BY <1>1, <1>2 DEF Shapes, Parsed, Looping
  <2>2. d \in DOMAIN efiMap /\ efiMap[d] \in Region
    BY <1>2, <2>1, LenProperties, ElementOfSeq DEF InRange
  <2>3. r \in DOMAIN ranges /\ DOMAIN ranges \subseteq Nat /\ ranges[r] \in RamRange
    BY <2>1, LenProperties, ElementOfSeq
  <2>4. efiMap[d].base < ranges[r].end
    BY <1>2 DEF InRange
  <2>5. QED  BY <2>1, <2>2, <2>3, <2>4 DEF Region, RamRange
<1> DEFINE gap == rangeBase..efiMap[d].base - 1
<1>4. handed' = handed \union gap
  <2>1. CASE efiMap[d].base > rangeBase
    BY <2>1, GivenTheGap DEF Gap
  <2>2. CASE ~(efiMap[d].base > rangeBase)
    BY <1>3, <2>2 DEF Gap, memory
  <2>3. QED  BY <2>1, <2>2
<1>5. gap \subseteq Addresses(ranges[r]) /\ gap \intersect AllOf(efiMap) = {}
  <2>1. efiMap[d].base <= ranges[r].end /\ efiMap[d].base <= efiMap[d].base
    BY <1>3
  <2>2. QED  BY <1>2, <1>3, <2>1, GapIsFree
<1>6. gap \subseteq AllOf(ranges)
  BY <1>3, <1>5, AllOfHas
<1>7. ListedStays'
  BY <1>1, <1>2, <1>4, <1>5, <1>6 DEF ListedStays, AllOf
<1>8. NothingForgotten'
  BY <1>1, <1>2, <1>4 DEF NothingForgotten, AllOf
<1>9. Shapes'
  BY <1>1, <1>2, <1>3 DEF Shapes, Looping
<1>10. Parsed'
  <2>1. \A k \in DOMAIN efiMap : k < d + 1 => efiMap[k].end <= efiMap[d].end
    <3>1. TAKE k \in DOMAIN efiMap
    <3>2. k \in Nat /\ efiMap[k].end \in Nat
      <4>1. efiMap \in Seq(Region)
        BY <1>1 DEF Shapes
      <4>2. k \in Nat /\ efiMap[k] \in Region
        BY <4>1, LenProperties, ElementOfSeq
      <4>3. QED  BY <4>2 DEF Region
    <3>3. k < d => efiMap[k].end <= rangeBase
      BY <1>1, <1>2 DEF Parsed
    <3>4. QED  BY <1>2, <1>3, <3>2, <3>3
  <2>2. ASSUME NEW a \in Addresses(ranges[r]), a < efiMap[d].end
        PROVE  a \in AllOf(efiMap) \union handed'
    <3>1. a \in Int
      BY <1>3 DEF Addresses
    <3>2. CASE a < rangeBase
      BY <1>1, <1>2, <1>4, <3>2 DEF Parsed
    <3>3. CASE a >= rangeBase /\ a < efiMap[d].base
      BY <1>3, <1>4, <3>1, <3>3
    <3>4. CASE a >= efiMap[d].base
      <4>1. a \in Addresses(efiMap[d])
        BY <1>3, <2>2, <3>1, <3>4 DEF Addresses
      <4>2. QED  BY <1>3, <4>1, AllOfHas
    <3>5. QED  BY <1>3, <3>1, <3>2, <3>3, <3>4
  <2>3. r <= Len(ranges) /\ d + 1 >= 1 /\ efiMap[d].end >= ranges[r].base
    BY <1>1, <1>2, <1>3 DEF Parsed
  <2>4. QED
    BY <1>2, <2>1, <2>2, <2>3 DEF Parsed, AllOf
<1>11. QED  BY <1>7, <1>8, <1>9, <1>10 DEF RamInv

LEMMA RemainderStep ==
  ASSUME MemoryAssumption, RamInv, Remainder
  PROVE  RamInv'
<1>1. Shapes /\ Parsed /\ ListedStays /\ NothingForgotten
  BY DEF RamInv
<1>2. /\ pc = "parse" /\ pc' = "range" /\ ~InRange /\ r' = r + 1
      /\ UNCHANGED <<memoryMap, efiMap, ranges, d, rangeBase>>
  BY DEF Remainder
<1>3. /\ rangeBase \in Nat /\ d \in Nat /\ r \in Nat /\ r >= 1
      /\ r \in DOMAIN ranges /\ DOMAIN ranges \subseteq Nat
      /\ ranges[r].base \in Nat /\ ranges[r].end \in Nat
      /\ (d \in DOMAIN efiMap => ranges[r].end <= efiMap[d].base)
  <2>1. /\ efiMap \in Seq(Region) /\ ranges \in Seq(RamRange)
        /\ rangeBase \in Nat /\ d \in Nat
        /\ r \in Nat /\ r >= 1 /\ r <= Len(ranges)
    BY <1>1, <1>2 DEF Shapes, Parsed, Looping
  <2>2. r \in DOMAIN ranges /\ DOMAIN ranges \subseteq Nat /\ ranges[r] \in RamRange
    BY <2>1, LenProperties, ElementOfSeq
  <2>3. ranges[r].base \in Nat /\ ranges[r].end \in Nat
    BY <2>2 DEF RamRange
  <2>4. ASSUME d \in DOMAIN efiMap PROVE ranges[r].end <= efiMap[d].base
    <3>1. d <= Len(efiMap) /\ efiMap[d] \in Region
      BY <2>1, <2>4, LenProperties, ElementOfSeq
    <3>2. ~(efiMap[d].base < ranges[r].end)
      BY <1>2, <3>1 DEF InRange
    <3>3. efiMap[d].base \in Nat
      BY <3>1 DEF Region
    <3>4. QED  BY <2>3, <3>2, <3>3
  <2>5. QED  BY <2>1, <2>2, <2>3, <2>4
<1> DEFINE rest == rangeBase..ranges[r].end - 1
<1>4. handed' = handed \union rest
  <2>1. CASE rangeBase < ranges[r].end
    BY <2>1, GivenTheGap DEF Remainder
  <2>2. CASE ~(rangeBase < ranges[r].end)
    BY <1>3, <2>2 DEF Remainder, memory
  <2>3. QED  BY <2>1, <2>2
<1>5. rest \subseteq Addresses(ranges[r]) /\ rest \intersect AllOf(efiMap) = {}
  <2>1. ranges[r].end \in Nat /\ ranges[r].end <= ranges[r].end
    BY <1>3
  <2>2. pc = "parse" /\ (d \in DOMAIN efiMap => ranges[r].end <= efiMap[d].base)
    BY <1>2, <1>3
  <2>3. QED  BY <2>1, <2>2, GapIsFree
<1>6. ListedStays'
  <2>1. rest \subseteq AllOf(ranges)
    BY <1>3, <1>5, AllOfHas
  <2>2. QED  BY <1>1, <1>2, <1>4, <1>5, <2>1 DEF ListedStays, AllOf
<1>7. ASSUME NEW a \in Addresses(ranges[r])
      PROVE  a \in AllOf(efiMap) \union handed'
  <2>1. a \in Int /\ a <= ranges[r].end - 1
    BY <1>3 DEF Addresses
  <2>2. CASE a < rangeBase
    BY <1>1, <1>2, <1>4, <2>2 DEF Parsed
  <2>3. CASE a >= rangeBase
    BY <1>3, <1>4, <2>1, <2>3
  <2>4. QED  BY <1>3, <2>1, <2>2, <2>3
<1>8. NothingForgotten'
  <2>1. ASSUME NEW i \in DOMAIN ranges, i < r + 1
        PROVE  Addresses(ranges[i]) \subseteq AllOf(efiMap) \union handed'
    <3>1. CASE i < r
      BY <1>1, <1>2, <1>4, <3>1 DEF NothingForgotten
    <3>2. CASE i = r
      BY <1>7, <3>2
    <3>3. QED  BY <1>3, <2>1, <3>1, <3>2
  <2>2. QED  BY <1>2, <2>1 DEF NothingForgotten, AllOf
<1>9. Shapes' /\ Parsed'
  BY <1>1, <1>2, <1>3 DEF Shapes, Looping, Parsed
<1>10. QED  BY <1>6, <1>8, <1>9 DEF RamInv

LEMMA RamStep ==
  ASSUME MemoryAssumption, RamInv, [Next]_vars
  PROVE  RamInv'
<1>1. Shapes /\ Parsed /\ ListedStays /\ NothingForgotten
  BY DEF RamInv
<1>2. CASE NextRange
  <2>1. /\ pc = "range" /\ pc' = "parse" /\ r <= Len(ranges)
        /\ rangeBase' = ranges[r].base /\ d' = 1
        /\ UNCHANGED <<memoryMap, efiMap, ranges, r, handed>>
    BY <1>2 DEF NextRange, memory
  <2>2. efiMap \in Seq(Region) /\ ranges \in Seq(RamRange) /\ r \in Nat /\ r >= 1
    BY <1>1, <2>1 DEF Shapes, Looping
  <2>3. ranges[r] \in RamRange /\ DOMAIN efiMap \subseteq Nat \ {0}
    BY <2>1, <2>2, LenProperties, ElementOfSeq
  <2>4. ranges[r].base \in Nat /\ ranges[r].end \in Nat
    BY <2>3 DEF RamRange
  <2>5. \A a \in Addresses(ranges[r]) : ~(a < ranges[r].base)
    BY <2>4 DEF Addresses
  <2>6. Parsed'
    BY <2>1, <2>2, <2>3, <2>4, <2>5 DEF Parsed
  <2>7. Shapes' /\ ListedStays' /\ NothingForgotten'
    BY <1>1, <2>1, <2>2, <2>4 DEF Shapes, Looping, ListedStays, NothingForgotten, AllOf
  <2>8. QED  BY <2>6, <2>7 DEF RamInv
<1>3. CASE Below
  <2>1. /\ pc = "parse" /\ InRange /\ efiMap[d].end <= rangeBase /\ d' = d + 1
        /\ UNCHANGED <<pc, memoryMap, efiMap, ranges, r, rangeBase, handed>>
    BY <1>3 DEF Below, memory
  <2>2. d \in Nat /\ d >= 1 /\ DOMAIN efiMap \subseteq Nat
    <3>1. efiMap \in Seq(Region) /\ d \in Nat /\ d >= 1
      BY <1>1, <2>1 DEF Shapes, Parsed
    <3>2. QED  BY <3>1, LenProperties
  <2>3. \A k \in DOMAIN efiMap : k < d + 1 => k < d \/ k = d
    BY <2>2
  <2>4. Parsed'
    BY <1>1, <2>1, <2>2, <2>3 DEF Parsed, AllOf
  <2>5. Shapes' /\ ListedStays' /\ NothingForgotten'
    BY <1>1, <2>1, <2>2 DEF Shapes, Looping, ListedStays, NothingForgotten, AllOf
  <2>6. QED  BY <2>4, <2>5 DEF RamInv
<1>4. CASE UNCHANGED vars
  BY <1>1, <1>4 DEF RamInv, Shapes, Looping, Parsed, ListedStays, NothingForgotten, vars, memory
<1>5. QED
  BY <1>2, <1>3, <1>4, TablesRead, GapStep, RemainderStep DEF Next

LEMMA RamAlways == Spec => []RamInv
<1>1. Init => RamInv
  <2>1. SUFFICES ASSUME Init PROVE RamInv
    OBVIOUS
  <2>2. memoryMap \in Seq(Region) /\ efiMap = <<>> /\ ranges = <<>>
    BY <2>1, MemoryAssumption DEF Init, MemoryAssumption
  <2>3. QED
    BY <2>1, <2>2 DEF Init, RamInv, Shapes, Looping, Parsed, ListedStays, NothingForgotten
<1>2. RamInv /\ [Next]_vars => RamInv'
  BY RamStep, MemoryAssumption
<1>3. QED  BY <1>1, <1>2, PTL DEF Spec

\* One side of ParseMemoryRange is ListedStays.  The other side: of the partitions it is through with, ParseMemoryRange has
\* left no address out that the memory map does not name.
THEOREM RangesComplete == Spec => []NothingForgotten
<1>1. RamInv => NothingForgotten
  BY DEF RamInv
<1>2. QED  BY RamAlways, <1>1, PTL

-----------------------------------------------------------------------------
\* Only HandleRamRange maps, and only what AddMemorySpace took.
GcdInv ==
  /\ pc \in {"validate", "hobs", "dead loop", "dxe", "usable", "unmanaged", "fault",
             "range", "parse"}
  /\ gcd \subseteq Nat /\ mapped \subseteq gcd /\ handed \subseteq Nat
  /\ again \in BOOLEAN /\ failed \in BOOLEAN
  /\ ~Looping => mapped = {}

\* HandleRamRange, of addresses, keeps it.
LEMMA HandleRamRangeKeeps ==
  ASSUME GcdInv, NEW b \in Nat, NEW e \in Nat, HandleRamRange(b, e), Looping, Looping',
         pc' \in {"range", "parse"}
  PROVE  GcdInv'
<1> DEFINE gap == b..e - 1
<1>1. gap \subseteq Nat
  OBVIOUS
<1>2. handed' = handed \union gap
  BY DEF HandleRamRange
<1>3. again' \in BOOLEAN
  <2>1. CASE gap \intersect handed # {}
    BY <2>1 DEF HandleRamRange
  <2>2. CASE ~(gap \intersect handed # {})
    BY <2>2 DEF HandleRamRange, GcdInv
  <2>3. QED  BY <2>1, <2>2
<1>4. failed' \in BOOLEAN
  BY DEF HandleRamRange, GcdInv
<1>5. gcd' \in {gcd, gcd \union gap} /\ mapped' \subseteq gcd'
  BY DEF HandleRamRange, GcdInv
<1>6. gcd' \subseteq Nat /\ handed' \subseteq Nat
  BY <1>1, <1>2, <1>5 DEF GcdInv
<1>7. QED  BY <1>3, <1>4, <1>5, <1>6 DEF GcdInv

LEMMA GcdStep ==
  ASSUME MemoryAssumption, RamInv, GcdInv, [Next]_vars
  PROVE  GcdInv'
<1>1. Shapes
  BY DEF RamInv
<1>2. rangeBase \in Nat /\ d \in Nat /\ r \in Nat /\ efiMap \in Seq(Region) /\ ranges \in Seq(RamRange)
  BY <1>1 DEF Shapes
<1>3. CASE UNCHANGED memory /\ (Looping' \/ ~Looping) /\ pc' \in {"validate", "hobs", "dead loop",
             "dxe", "usable", "unmanaged", "fault", "range", "parse"}
  BY <1>3 DEF GcdInv, memory
<1>4. CASE MemoryPeim
  <2>1. memoryMap \in Seq(Region)
    BY <1>1 DEF Shapes
  <2>2. \A i \in DOMAIN memoryMap : Addresses(memoryMap[i]) \subseteq Nat
    <3>1. TAKE i \in DOMAIN memoryMap
    <3>2. memoryMap[i] \in Region
      BY <2>1, LenProperties, ElementOfSeq
    <3>3. memoryMap[i].base \in Nat /\ memoryMap[i].end \in Nat
      BY <3>2 DEF Region
    <3>4. QED  BY <3>3 DEF Addresses
  <2>3. gcd' \subseteq Nat
    BY <1>4, <2>2 DEF MemoryPeim
  <2>4. mapped = {} /\ UNCHANGED <<mapped, handed, again, failed>>
    BY <1>4 DEF MemoryPeim, GcdInv, Looping
  <2>5. QED  BY <1>4, <2>3, <2>4 DEF MemoryPeim, GcdInv
<1>5. CASE Gap
  <2>1. pc = "parse" /\ pc' = "parse" /\ Looping /\ Looping'
    BY <1>5 DEF Gap, Looping
  <2>2. d \in DOMAIN efiMap
    <3>1. d >= 1 /\ d <= Len(efiMap)
      BY <1>5, <2>1 DEF Gap, InRange, RamInv, Parsed
    <3>2. QED  BY <1>2, <3>1, LenProperties
  <2>3. efiMap[d] \in Region
    BY <1>2, <2>2, LenProperties, ElementOfSeq
  <2>4. efiMap[d].base \in Nat
    BY <2>3 DEF Region
  <2>5. CASE efiMap[d].base > rangeBase
    BY <1>2, <1>5, <2>1, <2>4, <2>5, HandleRamRangeKeeps DEF Gap
  <2>6. CASE ~(efiMap[d].base > rangeBase)
    BY <1>3, <1>5, <2>1, <2>6 DEF Gap
  <2>7. QED  BY <2>5, <2>6
<1>6. CASE Remainder
  <2>1. pc = "parse" /\ pc' = "range" /\ Looping /\ Looping'
    BY <1>6 DEF Remainder, Looping
  <2>2. r \in DOMAIN ranges
    <3>1. r >= 1 /\ r <= Len(ranges)
      BY <1>1, <2>1 DEF RamInv, Parsed, Shapes
    <3>2. QED  BY <1>2, <3>1, LenProperties
  <2>3. ranges[r] \in RamRange
    BY <1>2, <2>2, LenProperties, ElementOfSeq
  <2>4. ranges[r].end \in Nat
    BY <2>3 DEF RamRange
  <2>5. CASE rangeBase < ranges[r].end
    BY <1>2, <1>6, <2>1, <2>4, <2>5, HandleRamRangeKeeps DEF Remainder
  <2>6. CASE ~(rangeBase < ranges[r].end)
    BY <1>3, <1>6, <2>1, <2>6 DEF Remainder
  <2>7. QED  BY <2>5, <2>6
<1>7. CASE ValidateMemoryMap \/ GetEfiMemoryMap \/ GetUsableMemoryRanges \/ ManageRamFails
  BY <1>3, <1>7 DEF ValidateMemoryMap, GetEfiMemoryMap, GetUsableMemoryRanges, ManageRamFails,
     Looping
<1>8. CASE NextRange \/ Below
  BY <1>3, <1>8 DEF NextRange, Below, Looping
<1>9. CASE UNCHANGED vars
  BY <1>9 DEF vars, memory, GcdInv, Looping
<1>10. QED
  BY <1>4, <1>5, <1>6, <1>7, <1>8, <1>9 DEF Next

\* Type correctness, and that MapMemoryRegion leaves no memory mapped that the
\* GCD does not know, whichever of its steps fails.
THEOREM TypeCorrect == Spec => []TypeOK
<1>1. Init => GcdInv
  BY DEF Init, GcdInv
<1>2. RamInv /\ GcdInv /\ [Next]_vars => GcdInv'
  BY GcdStep, MemoryAssumption
<1>3. RamInv /\ GcdInv => TypeOK
  BY DEF RamInv, Shapes, GcdInv, TypeOK
<1>4. QED  BY RamAlways, <1>1, <1>2, <1>3, PTL DEF Spec

-----------------------------------------------------------------------------
(***************************************************************************)
(* What the platform's table describes as memory is listed, and the GCD    *)
(* knows every region with a HOB.                                          *)
(***************************************************************************)
Listed(m) == \A i \in DOMAIN m : m[i].hob = "AddMem" => Addresses(m[i]) \subseteq AllOf(efiMap)
Known(m)  == \A i \in DOMAIN m : m[i].hob # "NoHob"  => Addresses(m[i]) \subseteq gcd
Unused(m) == \A i \in DOMAIN m : m[i].hob # "NoHob"  => Addresses(m[i]) \intersect mapped = {}

TableInv ==
  /\ pc \in {"usable", "range", "parse"} => Listed(memoryMap)
  /\ pc \in {"dxe", "usable", "range", "parse"} => Known(memoryMap)
  /\ Unused(memoryMap)

\* AddMemorySpace takes nothing that the GCD knows.
LEMMA HandleRamRangeSpares ==
  ASSUME NEW b, NEW e, HandleRamRange(b, e), Known(memoryMap), Unused(memoryMap),
         UNCHANGED memoryMap
  PROVE  Known(memoryMap)' /\ Unused(memoryMap)'
<1>1. /\ gcd \subseteq gcd'
      /\ mapped' = mapped \/ (mapped' = mapped \union (b..e - 1) /\ (b..e - 1) \intersect gcd = {})
  BY DEF HandleRamRange
<1>2. QED  BY <1>1 DEF Known, Unused

LEMMA TableStep ==
  ASSUME RamInv, GcdInv, TableInv, [Next]_vars
  PROVE  TableInv'
<1>1. CASE ValidateMemoryMap
  <2>1. mapped' = {} /\ pc' \notin {"dxe", "usable", "range", "parse"}
    BY <1>1 DEF ValidateMemoryMap, GcdInv, Looping, memory
  <2>2. QED  BY <2>1 DEF TableInv, Unused
<1>2. CASE MemoryPeim
  <2>1. mapped' = {} /\ pc' \notin {"usable", "range", "parse"} /\ UNCHANGED memoryMap
    BY <1>2 DEF MemoryPeim, GcdInv, Looping
  <2>2. Known(memoryMap)'
    BY <1>2, <2>1 DEF MemoryPeim, Known
  <2>3. QED  BY <2>1, <2>2 DEF TableInv, Unused
<1>3. CASE GetEfiMemoryMap
  <2>1. pc = "dxe" /\ UNCHANGED <<memoryMap, gcd, mapped>>
    BY <1>3 DEF GetEfiMemoryMap, memory
  <2>2. \A x \in EfiMemory : \E i \in DOMAIN efiMap' : efiMap'[i] = x
    BY <1>3 DEF GetEfiMemoryMap, SortedMaps
  <2>3. ASSUME NEW i \in DOMAIN memoryMap, memoryMap[i].hob = "AddMem"
        PROVE  Addresses(memoryMap[i]) \subseteq AllOf(efiMap')
    <3>1. memoryMap[i] \in EfiMemory
      BY <2>3 DEF EfiMemory
    <3>2. PICK k \in DOMAIN efiMap' : efiMap'[k] = memoryMap[i]
      BY <2>2, <3>1
    <3>3. QED  BY <3>2 DEF AllOf
  <2>4. Listed(memoryMap)'
    BY <2>1, <2>3 DEF Listed, AllOf
  <2>5. QED  BY <2>1, <2>4 DEF TableInv, Known, Unused
<1>4. CASE GetUsableMemoryRanges \/ ManageRamFails \/ NextRange \/ Below \/ UNCHANGED vars
  BY <1>4 DEF GetUsableMemoryRanges, ManageRamFails, NextRange, Below, vars, memory, TableInv,
     Listed, Known, Unused, AllOf
<1>5. CASE Gap \/ Remainder
  <2>1. pc = "parse" /\ UNCHANGED <<memoryMap, efiMap>>
    BY <1>5 DEF Gap, Remainder
  <2>2. Listed(memoryMap) /\ Known(memoryMap) /\ Unused(memoryMap)
    BY <2>1 DEF TableInv
  <2>3. Known(memoryMap)' /\ Unused(memoryMap)'
    <3>1. CASE UNCHANGED memory
      BY <2>1, <2>2, <3>1 DEF Known, Unused, memory
    <3>2. CASE ~(UNCHANGED memory)
      BY <1>5, <2>1, <2>2, <3>2, HandleRamRangeSpares DEF Gap, Remainder
    <3>3. QED  BY <3>1, <3>2
  <2>4. QED  BY <2>1, <2>2, <2>3 DEF TableInv, Listed, AllOf
<1>6. QED
  BY <1>1, <1>2, <1>3, <1>4, <1>5 DEF Next

\* RamManagerDxe hands out nothing but RAM of a partition, none that the table
\* of the platform describes as memory, and maps nothing that has a HOB, for
\* every table and every partition.
THEOREM RangesFree == Spec => []HandsOutFreeRam
<1>1. Init => GcdInv /\ TableInv
  BY DEF Init, GcdInv, TableInv, Unused
<1>2. RamInv /\ GcdInv /\ TableInv /\ [Next]_vars => GcdInv' /\ TableInv'
  BY GcdStep, TableStep, MemoryAssumption
<1>3. RamInv /\ TableInv => HandsOutFreeRam
  <2> SUFFICES ASSUME RamInv, TableInv PROVE HandsOutFreeRam
    OBVIOUS
  <2>1. ListedStays /\ Unused(memoryMap) /\ (~Looping => handed = {})
    BY DEF RamInv, Shapes, TableInv
  <2>2. CASE Looping
    BY <2>1, <2>2 DEF Looping, TableInv, Listed, ListedStays, HandsOutFreeRam, Unused
  <2>3. CASE ~Looping
    BY <2>1, <2>3 DEF ListedStays, HandsOutFreeRam, Unused
  <2>4. QED  BY <2>2, <2>3
<1>4. QED  BY RamAlways, <1>1, <1>2, <1>3, PTL DEF Spec

-----------------------------------------------------------------------------
\* What has been handed out lies in a partition that was parsed, or in front of
\* CurrentRangeBase, which only moves up: regions have no negative length.
Forward ==
  /\ \A i \in DOMAIN memoryMap : memoryMap[i].base <= memoryMap[i].end
  /\ \A i \in DOMAIN efiMap : efiMap[i].base <= efiMap[i].end

Given(i, a) ==
  a \in Addresses(ranges[i]) /\ (i < r \/ (pc = "parse" /\ i = r /\ a < rangeBase))

OnceInv ==
  /\ Forward
  /\ \A a \in handed : \E i \in DOMAIN ranges : Given(i, a)
  /\ RangesApart => ~again
  /\ ~Looping => ~again

\* What HandleRamRange is given, from CurrentRangeBase on, was not given to it before.
LEMMA NotAgain ==
  ASSUME RamInv, OnceInv, pc = "parse", RangesApart, NEW e \in Nat,
         HandleRamRange(rangeBase, e), rangeBase..e - 1 \subseteq Addresses(ranges[r])
  PROVE  ~again'
<1>1. r \in DOMAIN ranges /\ rangeBase \in Nat /\ r \in Nat /\ DOMAIN ranges \subseteq Nat
  <2>1. ranges \in Seq(RamRange) /\ r \in Nat /\ r >= 1 /\ r <= Len(ranges) /\ rangeBase \in Nat
    BY DEF RamInv, Shapes, Parsed, Looping
  <2>2. QED  BY <2>1, LenProperties
<1>2. ASSUME NEW a \in rangeBase..e - 1, a \in handed
      PROVE  FALSE
  <2>1. PICK i \in DOMAIN ranges : Given(i, a)
    BY <1>2 DEF OnceInv
  <2>2. a >= rangeBase /\ a \in Addresses(ranges[r]) /\ a \in Int
    BY <1>1, <1>2
  <2>3. i < r
    BY <1>1, <2>1, <2>2 DEF Given
  <2>4. i # r
    BY <1>1, <2>3
  <2>5. Addresses(ranges[i]) \intersect Addresses(ranges[r]) = {}
    BY <1>1, <2>4 DEF RangesApart
  <2>6. QED  BY <2>1, <2>2, <2>5 DEF Given
<1>3. ~again
  BY DEF OnceInv
<1>4. QED  BY <1>2, <1>3 DEF HandleRamRange

\* The tables are sorted, and read, as they are.
LEMMA ForwardStep ==
  ASSUME MemoryAssumption, RamInv, Forward, [Next]_vars
  PROVE  Forward'
<1>1. CASE ValidateMemoryMap
  <2>1. PICK q \in [DOMAIN memoryMap -> DOMAIN memoryMap] :
          memoryMap' = [i \in DOMAIN memoryMap |-> memoryMap[q[i]]]
    BY <1>1 DEF ValidateMemoryMap, PerformQuickSort
  <2>2. QED  BY <1>1, <2>1 DEF ValidateMemoryMap, Forward
<1>2. CASE GetEfiMemoryMap
  <2>1. PICK n \in 0..Len(memoryMap) : efiMap' \in [1..n -> EfiMemory]
    BY <1>2 DEF GetEfiMemoryMap, SortedMaps
  <2>2. \A x \in EfiMemory : x.base <= x.end
    BY DEF EfiMemory, Forward
  <2>3. QED  BY <1>2, <2>1, <2>2 DEF GetEfiMemoryMap, Forward
<1>3. CASE UNCHANGED <<memoryMap, efiMap>>
  BY <1>3 DEF Forward
<1>4. QED
  BY <1>1, <1>2, <1>3 DEF Next, vars, MemoryPeim, GetUsableMemoryRanges, ManageRamFails,
     NextRange, Below, Gap, Remainder

LEMMA OnceStep ==
  ASSUME MemoryAssumption, RamInv, OnceInv, [Next]_vars
  PROVE  OnceInv'
<1>1. /\ Shapes /\ Parsed /\ efiMap \in Seq(Region) /\ ranges \in Seq(RamRange)
      /\ r \in Nat /\ d \in Nat /\ rangeBase \in Nat
  BY DEF RamInv, Shapes
<1>2. DOMAIN ranges \subseteq Nat /\ DOMAIN ranges = 1..Len(ranges) /\ Len(ranges) \in Nat
  BY <1>1, LenProperties
<1>3. Forward'
  BY ForwardStep DEF OnceInv
<1>4. CASE ValidateMemoryMap \/ MemoryPeim \/ GetEfiMemoryMap \/ GetUsableMemoryRanges \/ ManageRamFails
  <2>1. ~Looping /\ handed = {} /\ handed' = {} /\ again' = again
    BY <1>1, <1>4 DEF Shapes, Looping, ValidateMemoryMap, MemoryPeim, GetEfiMemoryMap,
       GetUsableMemoryRanges, ManageRamFails, memory
  <2>2. ~again'
    BY <2>1 DEF OnceInv
  <2>3. QED  BY <1>3, <2>1, <2>2 DEF OnceInv
<1>5. CASE NextRange
  <2>1. /\ pc = "range" /\ pc' = "parse" /\ UNCHANGED <<ranges, r, handed, again>>
    BY <1>5 DEF NextRange, memory
  <2>2. ASSUME NEW a \in handed' PROVE \E i \in DOMAIN ranges' : Given(i, a)'
    <3>1. PICK i \in DOMAIN ranges : Given(i, a)
      BY <2>1 DEF OnceInv
    <3>2. a \in Addresses(ranges[i]) /\ i < r
      BY <2>1, <3>1 DEF Given
    <3>3. QED  BY <2>1, <3>2 DEF Given
  <2>3. QED
    BY <1>3, <2>1, <2>2 DEF OnceInv, RangesApart, Looping
<1>6. CASE Below
  <2>1. pc = "parse" /\ UNCHANGED <<pc, ranges, r, rangeBase, handed, again>>
    BY <1>6 DEF Below, memory
  <2>2. QED  BY <1>3, <2>1 DEF OnceInv, Given, RangesApart, Looping
<1>7. CASE Gap
  <2>1. /\ pc = "parse" /\ pc' = "parse" /\ InRange /\ efiMap[d].end > rangeBase
        /\ rangeBase' = efiMap[d].end /\ UNCHANGED <<ranges, r>>
    BY <1>7 DEF Gap, Behind
  <2>2. r \in DOMAIN ranges /\ d \in DOMAIN efiMap
    BY <1>1, <1>2, <2>1, LenProperties DEF InRange, Shapes, Parsed, Looping
  <2>3. efiMap[d] \in Region /\ ranges[r] \in RamRange
    BY <1>1, <2>2, LenProperties, ElementOfSeq
  <2>4. /\ efiMap[d].base \in Nat /\ efiMap[d].end \in Nat /\ efiMap[d].base <= efiMap[d].end
        /\ ranges[r].end \in Nat /\ efiMap[d].base <= ranges[r].end
    <3>1. efiMap[d].base \in Nat /\ efiMap[d].end \in Nat /\ ranges[r].end \in Nat
      BY <2>3 DEF Region, RamRange
    <3>2. efiMap[d].base < ranges[r].end
      BY <2>1 DEF InRange
    <3>3. efiMap[d].base <= efiMap[d].end
      BY <2>2 DEF OnceInv, Forward
    <3>4. QED  BY <3>1, <3>2, <3>3
  <2>5. rangeBase..efiMap[d].base - 1 \subseteq Addresses(ranges[r])
    <3>1. efiMap[d].base <= efiMap[d].base
      BY <2>4
    <3>2. QED  BY <2>1, <2>4, <3>1, GapIsFree
  <2>6. handed' \subseteq handed \union (rangeBase..efiMap[d].base - 1)
    <3>1. CASE efiMap[d].base > rangeBase
      BY <1>7, <3>1, GivenTheGap DEF Gap
    <3>2. CASE ~(efiMap[d].base > rangeBase)
      BY <1>7, <3>2 DEF Gap, memory
    <3>3. QED  BY <3>1, <3>2
  <2>7. RangesApart => ~again'
    <3>1. SUFFICES ASSUME RangesApart PROVE ~again'
      OBVIOUS
    <3>2. CASE efiMap[d].base > rangeBase
      BY <1>7, <2>1, <2>4, <2>5, <3>1, <3>2, NotAgain DEF Gap
    <3>3. CASE ~(efiMap[d].base > rangeBase)
      BY <1>7, <3>1, <3>3 DEF Gap, memory, OnceInv
    <3>4. QED  BY <3>2, <3>3
  <2>8. ASSUME NEW a \in handed' PROVE \E i \in DOMAIN ranges' : Given(i, a)'
    <3>1. CASE a \in handed
      <4>1. PICK i \in DOMAIN ranges : Given(i, a)
        BY <3>1 DEF OnceInv
      <4>2. a < rangeBase => a < rangeBase'
        <5>1. a \in Int
          BY <4>1 DEF Given, Addresses
        <5>2. QED  BY <1>1, <2>1, <2>4, <5>1
      <4>3. QED  BY <2>1, <4>1, <4>2 DEF Given
    <3>2. CASE a \in rangeBase..efiMap[d].base - 1
      <4>1. a < rangeBase' /\ a \in Addresses(ranges[r])
        <5>1. a \in Addresses(ranges[r])
          BY <2>5, <3>2
        <5>2. a \in Int /\ a <= efiMap[d].base - 1 /\ rangeBase' = efiMap[d].end
          BY <1>1, <2>1, <2>4, <3>2
        <5>3. QED  BY <2>4, <5>1, <5>2
      <4>2. QED  BY <2>1, <2>2, <4>1 DEF Given
    <3>3. QED  BY <2>6, <2>8, <3>1, <3>2
  <2>9. QED  BY <1>3, <2>1, <2>7, <2>8 DEF OnceInv, RangesApart, Looping
<1>8. CASE Remainder
  <2>1. /\ pc = "parse" /\ pc' = "range" /\ ~InRange /\ r' = r + 1 /\ UNCHANGED ranges
    BY <1>8 DEF Remainder
  <2>2. r \in DOMAIN ranges
    BY <1>1, <1>2, <2>1 DEF Shapes, Parsed, Looping
  <2>3. ranges[r] \in RamRange
    BY <1>1, <2>2, LenProperties, ElementOfSeq
  <2>4. ranges[r].end \in Nat /\ ranges[r].end <= ranges[r].end
    BY <2>3 DEF RamRange
  <2>5. rangeBase..ranges[r].end - 1 \subseteq Addresses(ranges[r])
    <3>1. /\ rangeBase >= ranges[r].base /\ ranges[r].base \in Nat
      BY <2>1, <2>3, <1>1 DEF Parsed, RamRange
    <3>2. QED  BY <1>1, <2>4, <3>1 DEF Addresses
  <2>6. handed' \subseteq handed \union (rangeBase..ranges[r].end - 1)
    <3>1. CASE rangeBase < ranges[r].end
      BY <1>8, <3>1, GivenTheGap DEF Remainder
    <3>2. CASE ~(rangeBase < ranges[r].end)
      BY <1>8, <3>2 DEF Remainder, memory
    <3>3. QED  BY <3>1, <3>2
  <2>7. RangesApart => ~again'
    <3>1. SUFFICES ASSUME RangesApart PROVE ~again'
      OBVIOUS
    <3>2. CASE rangeBase < ranges[r].end
      BY <1>8, <2>1, <2>4, <2>5, <3>1, <3>2, NotAgain DEF Remainder
    <3>3. CASE ~(rangeBase < ranges[r].end)
      BY <1>8, <3>1, <3>3 DEF Remainder, memory, OnceInv
    <3>4. QED  BY <3>2, <3>3
  <2>8. ASSUME NEW a \in handed' PROVE \E i \in DOMAIN ranges' : Given(i, a)'
    <3>1. CASE a \in handed
      <4>1. PICK i \in DOMAIN ranges : Given(i, a)
        BY <3>1 DEF OnceInv
      <4>2. a \in Addresses(ranges[i]) /\ i < r'
        BY <1>1, <1>2, <2>1, <4>1 DEF Given
      <4>3. QED  BY <2>1, <4>2 DEF Given
    <3>2. CASE a \in rangeBase..ranges[r].end - 1
      <4>1. a \in Addresses(ranges[r]) /\ r < r'
        BY <1>1, <2>1, <2>5, <3>2
      <4>2. QED  BY <2>1, <2>2, <4>1 DEF Given
    <3>3. QED  BY <2>6, <2>8, <3>1, <3>2
  <2>9. QED  BY <1>3, <2>1, <2>7, <2>8 DEF OnceInv, RangesApart, Looping
<1>9. CASE UNCHANGED vars
  BY <1>3, <1>9 DEF OnceInv, Given, RangesApart, Looping, vars, memory
<1>10. QED
  BY <1>4, <1>5, <1>6, <1>7, <1>8, <1>9 DEF Next

\* Of partitions that do not overlap, MapMemoryRegion is asked for each address
\* at most once, so that AddMemorySpace refuses nothing it took itself.
THEOREM GivenOnce == Spec => []HandedOutOnce
<1>1. Init => OnceInv
  BY RegionAssumption DEF Init, OnceInv, Forward, Looping
<1>2. RamInv /\ OnceInv /\ [Next]_vars => OnceInv'
  BY OnceStep, MemoryAssumption
<1>3. OnceInv => HandedOutOnce
  BY DEF OnceInv, HandedOutOnce
<1>4. QED  BY RamAlways, <1>1, <1>2, <1>3, PTL DEF Spec

=============================================================================
