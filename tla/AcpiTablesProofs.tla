--------------------------- MODULE AcpiTablesProofs ---------------------------
(***************************************************************************)
(* For every set of bodies a compiler may have written and every length of *)
(* the chip's name: there is at most one DSDT, one is missing only if its  *)
(* installation failed, patching it changes data bytes only, the names of  *)
(* the package get their values, and none that was left to chance but the  *)
(* type of the platform where its query is not checked.                    *)
(***************************************************************************)
EXTENDS AcpiTables, SequenceTheorems, FiniteSetTheorems, NaturalsInduction, TLAPS

\* While the copy is patched, its handle is that of the one table there is.
OneTable ==
  /\ DsdtServed
  /\ pc \in {"locate", "ask", "update"} => \E t \in tables : t.id = DsdtHandle

LEMMA InitOneTable == Init => OneTable
  BY DEF Init, OneTable, DsdtServed

\* Every step keeps OneTable: the tables change only where the ACPI driver installs
\* the first one and in ReinstallTable.
LEMMA NextOneTable == OneTable /\ [Next]_vars => OneTable'
<1>. SUFFICES ASSUME OneTable, [Next]_vars PROVE OneTable'
  OBVIOUS
<1>. USE DEF OneTable, DsdtServed, acpi, work, locating
<1>1. CASE InstallProtocols
  BY <1>1 DEF InstallProtocols
<1>2. CASE InstallTables
  <2>1. tables' = {Installed(built)} /\ pc' = "dispatch"
    BY <1>2 DEF InstallTables
  <2>. QED
    BY <2>1
<1>3. CASE LocateAcpiProtocols
  BY <1>3 DEF LocateAcpiProtocols
<1>4. CASE AcpiCallback
  BY <1>4 DEF AcpiCallback
<1>5. CASE LocateTableBySignature
  <2>1. UNCHANGED <<tables, handles, lost>>
    BY <1>5 DEF LocateTableBySignature, Return
  <2>2. DsdtServed'
    BY <2>1
  <2>3. pc' \in {"locate", "ask", "update"} => \E t \in tables' : t.id = DsdtHandle'
    BY <1>5, <2>1 DEF LocateTableBySignature, Return
  <2>. QED
    BY <2>2, <2>3
<1>6. CASE LocateQcomProtocols \/ Ask
  BY <1>6 DEF LocateQcomProtocols, Ask, NextQuestion, Return
<1>7. CASE UpdateName
  BY <1>7 DEF UpdateName
<1>8. CASE ReinstallTable
  <2>. DEFINE others == {t \in tables : t.id # DsdtHandle}
  <2>1. pc = "update"
    BY <1>8 DEF ReinstallTable
  <2>2. others = {}
    BY <2>1
  <2>3. CASE Return
    BY <2>3 DEF Return
  <2>4. CASE tables' = others \union {Installed(table)} /\ pc' = "done"
    BY <2>2, <2>4
  <2>5. CASE tables' = others /\ pc' \in {"done", "dead"} /\ lost'
    BY <2>2, <2>5
  <2>. QED
    BY <1>8, <2>3, <2>4, <2>5 DEF ReinstallTable
<1>9. CASE UNCHANGED vars
  BY <1>9 DEF vars
<1>. QED
  BY <1>1, <1>2, <1>3, <1>4, <1>5, <1>6, <1>7, <1>8, <1>9 DEF Next

\* DsdtServed for every body: whatever query or call fails, the operating system
\* gets one DSDT unless InstallAcpiTable fails after UninstallAcpiTable.
THEOREM ServedAlways == Spec => []DsdtServed
<1>1. OneTable => DsdtServed
  BY DEF OneTable
<1>. QED
  BY <1>1, InitOneTable, NextOneTable, PTL DEF Spec

-----------------------------------------------------------------------------
(***************************************************************************)
(* The contents of the tables.  Done counts the names whose turn is over.  *)
(***************************************************************************)
Done == Len(soc.names) - Len(todo)

\* A cell that UpdateName may leave at place i of the table, when n is its turn.
Written(n, i, cell) ==
  /\ Places(built, n) # {} /\ i \in DataOf(n)
  /\ cell \in {New(n, o) : o \in Origins} \union {Nul}
  /\ built[i] = Nul => cell = Nul
  /\ Proper(n, cell)

\* The built body, but for data that the first d names wrote.
Patched(b, d) ==
  /\ DOMAIN b = 1..Len(built) /\ Len(b) = Len(built)
  /\ \A i \in 1..Len(built) : b[i] # built[i] =>
       \E k \in 1..d : Written(soc.names[k], i, b[i])

HasRoom(n) == Places(built, n) # {} /\ Length(n) <= GetAslNameDataSize(built, Object(n))
Told(b, d) ==
  \A k \in 1..d : HasRoom(soc.names[k]) =>
    \A j \in 1..Length(soc.names[k]) : b[Object(soc.names[k]) + 2 + j] # Old

\* Where the queries are checked nothing but a memory region is found missing.
FailuresChecked == soc.checked => failed \subseteq RegionNames

ContentInv ==
  /\ soc \in Packages /\ built \in Bodies
  /\ Len(todo) \in 0..Len(soc.names) /\ todo \in Seq(Names)
  /\ \A i \in 1..Len(todo) : todo[i] = soc.names[Done + i]
  /\ pc = "dispatch" => /\ table = <<>> /\ todo = soc.names /\ reinstalled = "no"
                        /\ \A t \in tables : t.body = built
  /\ FailuresChecked
  /\ pc \in {"locate", "ask", "update"} => Patched(table, Done) /\ Told(table, Done)
  /\ table # <<>> => Patched(table, Done)
  /\ \A t \in tables : Patched(t.body, Len(soc.names))
  /\ reinstalled = "yes" => \A t \in tables : Told(t.body, Len(soc.names))

-----------------------------------------------------------------------------
\* The names of a package are a sequence.
LEMMA NamesAre ==
  ASSUME NEW s \in Packages
  PROVE  /\ s.names \in Seq(Names) /\ Len(s.names) \in Nat /\ DOMAIN s.names = 1..Len(s.names)
         /\ \A k \in 1..Len(s.names) : s.names[k] \in Names
<1> DEFINE Strings ==
            {"SIDV", "SVMJ", "SVMI", "SDFE", "SIDM", "RMTB", "RMTX", "RFMB", "RFMS", "RFAB",
             "RFAS", "TPMA", "TDTV", "TCMA", "TCML", "SOID", "SOSN", "PLST", "SOSI", "SIDS",
             "STOR", "PUS3", "SIDT", "PRP0", "SJTG", "EMUL", "PRP1", "PRP2", "SUFS", "SUS3",
             "PUS4", "SUS4", "SKUV", "SDDR", "UAON"}
<1>1. s.names \in Seq(Strings)
  <2>1. Chip \in Seq(Strings) /\ Regions \in Seq(Strings) /\ Devices \in Seq(Strings)
    BY DEF Chip, Regions, Devices
  <2>2. \A a, b \in Seq(Strings) : a \o b \in Seq(Strings)
    BY ConcatProperties
  <2>3. CASE s \in {Waipio, Palima, Molokai}
    <3>1. Waipio.names \in Seq(Strings)
      BY DEF Waipio, Checked
    <3>2. Molokai.names \in Seq(Strings)
      BY DEF Molokai, Checked
    <3>3. Palima.names \in Seq(Strings)
      BY <3>1 DEF Palima
    <3>4. QED  BY <2>3, <3>1, <3>2, <3>3
  <2>4. CASE s = Napali
    BY <2>1, <2>2, <2>4 DEF Napali, Package
  <2>5. CASE s = Blackbolt
    BY <2>1, <2>2, <2>5 DEF Blackbolt, Package
  <2>6. CASE s = Moorea
    BY <2>1, <2>2, <2>6 DEF Moorea, Package
  <2>7. CASE s = Rennell
    BY <2>1, <2>2, <2>7 DEF Rennell, Package
  <2>8. CASE s = Kona
    BY <2>1, <2>2, <2>8 DEF Kona, Package
  <2>9. CASE s = Hana
    BY <2>1, <2>2, <2>9 DEF Hana, Package
  <2>10. CASE s = Kailua
    BY <2>1, <2>2, <2>10 DEF Kailua, Package
  <2>11. CASE s = Lahaina
    BY <2>1, <2>2, <2>11 DEF Lahaina, Package
  <2>12. CASE s = Cedros
    BY <2>1, <2>2, <2>12 DEF Cedros, Package
  <2>13. CASE s = Kodiak
    BY <2>1, <2>2, <2>13 DEF Kodiak, Package
  <2>14. QED  BY <2>3, <2>4, <2>5, <2>6, <2>7, <2>8, <2>9, <2>10, <2>11, <2>12, <2>13 DEF Packages
<1>2. Len(s.names) \in Nat /\ DOMAIN s.names = 1..Len(s.names)
  BY <1>1, LenProperties
<1>3. \A k \in 1..Len(s.names) : s.names[k] \in Names
  BY <1>2 DEF Names
<1>4. s.names \in Seq(Names)
  <2> DEFINE q == s.names
  <2>1. q \in Seq(Strings) /\ \A k \in 1..Len(q) : q[k] \in Names
    BY <1>1, <1>3
  <2> HIDE DEF q
  <2>2. q \in Seq(Names)
    BY <2>1
  <2>3. QED  BY <2>2 DEF q
<1>5. QED  BY <1>2, <1>3, <1>4

\* The least of a set of numbers.
LEMMA EarliestIs ==
  ASSUME NEW S \in SUBSET Nat, S # {}
  PROVE  Earliest(S) \in S /\ \A e \in S : Earliest(S) <= e
<1>1. \E c \in S : \A e \in S : c <= e
  <2>1. PICK c \in S : \A e \in S : ~(<<e, c>> \in OpToRel(<, Nat))
    BY NatLessThanWellFounded, WFMin
  <2>2. \A e \in S : ~(e < c)
    BY <2>1 DEF OpToRel
  <2>3. QED  BY <2>2
<1>2. QED  BY <1>1 DEF Earliest

\* What the cells of a table as built are not.
LEMMA CellsAre ==
  ASSUME NEW b \in Seq(Cells), NEW i \in 1..Len(b), NEW n, NEW from
  PROVE  b[i] # New(n, from)
<1>1. b[i] \in Cells
  BY ElementOfSeq
<1>2. \A x \in Cells : x[1] # "New"
  BY DEF Cells, NameOp, Code, Old, Nul, Named, Prefix
<1>3. New(n, from)[1] = "New"
  BY DEF New
<1>4. QED  BY <1>1, <1>2, <1>3

\* The size of an object's data, by its prefix; a string ends at its first Nul.
LEMMA SizeIs ==
  ASSUME NEW b, Len(b) \in Nat, NEW c \in 1..Len(b) - 2,
         b[c + 2] = Prefix("String") => \E k \in 1..Len(b) - c - 2 : b[c + 2 + k] = Nul
  PROVE  LET size == GetAslNameDataSize(b, c) IN
         /\ size \in Nat
         /\ b[c + 2] = Prefix("String") =>
              /\ size \in 1..Len(b) - c - 2 /\ b[c + 2 + size] = Nul
              /\ \A k \in 1..Len(b) - c - 2 : b[c + 2 + k] = Nul => size <= k
<1> DEFINE Nuls == {k \in 1..Len(b) - c - 2 : b[c + 2 + k] = Nul}
<1>1. CASE b[c + 2] = Prefix("String")
  <2>1. GetAslNameDataSize(b, c) = Earliest(Nuls)
    BY <1>1 DEF GetAslNameDataSize, AsciiStrSize, Prefix
  <2>2. Nuls \in SUBSET Nat /\ Nuls # {}
    <3>1. \A k \in Nuls : k \in Nat
      OBVIOUS
    <3>2. \E k \in 1..Len(b) - c - 2 : k \in Nuls
      BY <1>1
    <3> HIDE DEF Nuls
    <3>3. QED  BY <3>1, <3>2
  <2>3. Earliest(Nuls) \in Nuls /\ \A e \in Nuls : Earliest(Nuls) <= e
    <3> HIDE DEF Nuls
    <3>1. QED  BY <2>2, EarliestIs
  <2>4. QED  BY <2>1, <2>3
<1>2. CASE b[c + 2] # Prefix("String")
  BY <1>2 DEF GetAslNameDataSize
<1>3. QED  BY <1>1, <1>2

\* A data byte is none of what makes an object.
LEMMA DataIsData ==
  ASSUME NEW x, x \in {Old, Nul} \/ \E n, from : x = New(n, from)
  PROVE  x # NameOp /\ (\A n : x # Named(n)) /\ \A p : x # Prefix(p)
BY DEF Old, Nul, New, NameOp, Named, Prefix

\* The object of a name: its data are inside the table and nothing but data.
LEMMA ObjectIs ==
  ASSUME AcpiAssumption, built \in Bodies, NEW n \in Names, Places(built, n) # {}
  PROVE  LET c    == Object(n)
             size == GetAslNameDataSize(built, c)
         IN /\ c \in Places(built, n) /\ c \in 1..Len(built) - 2 /\ size \in Nat
            /\ built[c] = NameOp /\ built[c + 1] = Named(n)
            /\ built[c + 2] = Prefix("String") =>
                 /\ n = "SIDS" /\ size \in 1..Len(built) - c - 2 /\ built[c + 2 + size] = Nul
                 /\ \A k \in 1..Len(built) - c - 2 : built[c + 2 + k] = Nul => size <= k
            /\ \A k \in 1..size :
                 /\ c + 2 + k \in 1..Len(built) /\ built[c + 2 + k] \in {Old, Nul}
                 /\ built[c + 2 + k] = Nul => built[c + 2] = Prefix("String") /\ k = size
<1> DEFINE c    == Object(n)
           size == GetAslNameDataSize(built, c)
<1>1. WellFormed(built) /\ built \in Seq(Cells) /\ Len(built) \in Nat
  BY LenProperties DEF AcpiAssumption, WellFormed
<1>2. Places(built, n) \in SUBSET Nat
  BY <1>1 DEF Places
<1>3. c \in Places(built, n)
  BY <1>2, EarliestIs DEF Object
<1>4. c \in 1..Len(built) - 2 /\ built[c] = NameOp /\ built[c + 1] = Named(n)
  BY <1>3 DEF Places
<1>5. /\ built[c + 2] = Prefix("String") =>
           n = "SIDS" /\ \E k \in 1..Len(built) - c - 2 : built[c + 2 + k] = Nul
      /\ \A k \in 1..size :
           /\ c + 2 + k <= Len(built)
           /\ built[c + 2 + k] = IF built[c + 2] = Prefix("String") /\ k = size THEN Nul ELSE Old
  BY <1>1, <1>3 DEF WellFormed
<1> HIDE DEF c
<1>6. size \in Nat
      /\ (built[c + 2] = Prefix("String") =>
            /\ size \in 1..Len(built) - c - 2 /\ built[c + 2 + size] = Nul
            /\ \A k \in 1..Len(built) - c - 2 : built[c + 2 + k] = Nul => size <= k)
  BY <1>1, <1>4, <1>5, SizeIs
<1> HIDE DEF size
<1>7. ASSUME NEW k \in 1..size
      PROVE  /\ c + 2 + k \in 1..Len(built) /\ built[c + 2 + k] \in {Old, Nul}
             /\ built[c + 2 + k] = Nul => built[c + 2] = Prefix("String") /\ k = size
  <2>1. c + 2 + k \in 1..Len(built)
    <3>1. c \in Nat
      BY <1>1, <1>4
    <3>2. k \in Nat
      BY <1>6
    <3>3. c + 2 + k <= Len(built)
      BY <1>5
    <3>4. QED  BY <1>1, <3>1, <3>2, <3>3
  <2>2. Old # Nul
    BY DEF Old, Nul
  <2>3. QED  BY <1>5, <2>1, <2>2
<1>8. QED  BY <1>3, <1>4, <1>5, <1>6, <1>7 DEF c, size

\* Two names share no data.
LEMMA DataApart ==
  ASSUME AcpiAssumption, built \in Bodies, NEW n \in Names, NEW m \in Names,
         Places(built, n) # {}, Places(built, m) # {}, NEW i \in DataOf(n), i \in DataOf(m)
  PROVE  n = m
<1> DEFINE c == Object(n)
           e == Object(m)
<1>1. /\ c \in Nat /\ e \in Nat /\ Len(built) \in Nat
      /\ built[c] = NameOp /\ built[c + 1] = Named(n) /\ built[e] = NameOp /\ built[e + 1] = Named(m)
  BY ObjectIs, LenProperties DEF AcpiAssumption, WellFormed
<1>2. PICK k \in 1..GetAslNameDataSize(built, c) : i = c + 2 + k
  BY DEF DataOf
<1>3. PICK l \in 1..GetAslNameDataSize(built, e) : i = e + 2 + l
  BY DEF DataOf
<1>4. /\ GetAslNameDataSize(built, c) \in Nat /\ GetAslNameDataSize(built, e) \in Nat
      /\ \A j \in 1..GetAslNameDataSize(built, c) : built[c + 2 + j] \in {Old, Nul}
      /\ \A j \in 1..GetAslNameDataSize(built, e) : built[e + 2 + j] \in {Old, Nul}
  BY ObjectIs
<1>5. NameOp \notin {Old, Nul} /\ \A x : NameOp # Named(x) /\ \A p : NameOp # Prefix(p)
  BY DEF NameOp, Old, Nul, Named, Prefix
<1> DEFINE NoPrefix(at) == \A p : built[at + 2] # Prefix(p)
<1>6. /\ NoPrefix(c) => GetAslNameDataSize(built, c) = 0
      /\ NoPrefix(e) => GetAslNameDataSize(built, e) = 0
  BY DEF GetAslNameDataSize
<1>7. built[c + 2] # NameOp /\ built[e + 2] # NameOp
  BY <1>2, <1>3, <1>4, <1>5, <1>6
<1> HIDE DEF NoPrefix, c, e
<1>8. ~(c < e)
  <2>1. SUFFICES ASSUME c < e PROVE FALSE
    OBVIOUS
  <2>2. e # c + 1 /\ e # c + 2
    BY <1>1, <1>5, <1>7
  <2>3. e - c - 2 \in 1..GetAslNameDataSize(built, c) /\ c + 2 + (e - c - 2) = e
    BY <1>1, <1>2, <1>3, <1>4, <2>1, <2>2
  <2>4. QED  BY <1>1, <1>4, <1>5, <2>3
<1>9. ~(e < c)
  <2>1. SUFFICES ASSUME e < c PROVE FALSE
    OBVIOUS
  <2>2. c # e + 1 /\ c # e + 2
    BY <1>1, <1>5, <1>7
  <2>3. c - e - 2 \in 1..GetAslNameDataSize(built, e) /\ e + 2 + (c - e - 2) = c
    BY <1>1, <1>2, <1>3, <1>4, <2>1, <2>2
  <2>4. QED  BY <1>1, <1>4, <1>5, <2>3
<1>10. c = e
  BY <1>1, <1>8, <1>9
<1>11. Named(n) = Named(m)
  BY <1>1, <1>10
<1>12. QED  BY <1>11 DEF Named

\* Where a byte of a name is from: what was not answered has a default, but for the
\* type of the platform, and where the queries are checked only a region was not.
LEMMA OriginIs ==
  ASSUME FailuresChecked, NEW n, NEW i
  PROVE  Origin(n, i) \in Origins /\ Proper(n, New(n, Origin(n, i)))
<1>1. /\ QueryOf(n, i) = "none" => QueryOf(n, 1) = "none"
      /\ QueryOf(n, i) \in RegionNames => QueryOf(n, 1) = QueryOf(n, i)
      /\ QueryOf(n, i) = "platform" => QueryOf(n, 1) = "platform"
  BY DEF QueryOf, Source, RegionNames
<1>2. /\ Origin(n, i) \in Origins
      /\ Origin(n, i) = "Nothing" => QueryOf(n, i) \in failed /\ ~HasDefault(QueryOf(n, i))
      /\ Origin(n, i) = "Default" => QueryOf(n, i) \in failed \union {"none"}
  BY DEF Origin, Origins
<1>3. Origin(n, i) = "Nothing" => ~soc.checked /\ QueryOf(n, 1) = "platform"
  BY <1>1, <1>2 DEF HasDefault, FailuresChecked
<1>4. soc.checked /\ Origin(n, i) = "Default" => QueryOf(n, 1) \in RegionNames \union {"none"}
  BY <1>1, <1>2 DEF FailuresChecked
<1>5. \A o : New(n, Origin(n, i)) = New(n, o) => Origin(n, i) = o
  BY DEF New
<1>6. QED  BY <1>2, <1>3, <1>4, <1>5 DEF Proper

\* What may be written to a name; the value of SIDS ends in a Nul.
LEMMA ValuesAre ==
  ASSUME AcpiAssumption, FailuresChecked, NEW n, NEW v \in Values(n)
  PROVE  /\ Length(n) \in Nat /\ Len(v) = Length(n)
         /\ \A j \in 1..Length(n) : v[j] \in {New(n, o) : o \in Origins} \union {Nul}
         /\ n = "SIDS" => Length(n) > 0 /\ v[Length(n)] = Nul
         /\ \A j \in 1..Length(n) : Proper(n, v[j])
<1> DEFINE m == Length(n)
<1>1. m \in Nat /\ (n = "SIDS" => m > 0)
  BY DEF Length, AcpiAssumption
<1>2. \A i : Origin(n, i) \in Origins /\ Proper(n, New(n, Origin(n, i)))
  BY OriginIs
<1>3. /\ New(n, "Answer") \in {New(n, o) : o \in Origins}
      /\ Proper(n, New(n, "Answer")) /\ Proper(n, Nul)
  BY DEF Proper, New, Nul, Origins
<1>4. CASE n # "SIDS"
  <2>1. v = [i \in 1..m |-> New(n, Origin(n, i))]
    BY <1>4 DEF Values
  <2> HIDE DEF m
  <2>2. Len(v) = m /\ \A j \in 1..m : v[j] = New(n, Origin(n, j))
    BY <1>1, <2>1
  <2>3. QED  BY <1>1, <1>2, <1>4, <2>2 DEF m
<1>5. CASE n = "SIDS"
  <2> DEFINE Counts == IF "idString" \in failed THEN {0} ELSE 1..m - 1
  <2>1. \E k \in Counts : v = [i \in 1..m |-> IF i <= k THEN New(n, "Answer") ELSE Nul]
    BY <1>5 DEF Values
  <2>2. PICK k \in Counts : v = [i \in 1..m |-> IF i <= k THEN New(n, "Answer") ELSE Nul]
    BY <2>1
  <2>3. k \in Nat /\ k < m
    BY <1>1, <1>5
  <2> HIDE DEF m, Counts
  <2>4. /\ Len(v) = m /\ \A j \in 1..m : v[j] = IF j <= k THEN New(n, "Answer") ELSE Nul
    BY <1>1, <2>2
  <2>5. v[m] = Nul
    BY <1>1, <1>5, <2>3, <2>4
  <2>6. \A j \in 1..m : v[j] \in {New(n, "Answer"), Nul}
    BY <2>4
  <2>7. QED  BY <1>1, <1>3, <2>4, <2>5, <2>6 DEF m
<1>6. QED  BY <1>4, <1>5

\* Patching leaves every object and every reference where it was.
LEMMA PlacesKept ==
  ASSUME AcpiAssumption, soc \in Packages, built \in Bodies, NEW d \in 0..Len(soc.names), NEW b,
         Patched(b, d), NEW n \in Names
  PROVE  /\ Places(b, n) = Places(built, n)
         /\ \A i \in 1..Len(built) : \A p : b[i] = Prefix(p) <=> built[i] = Prefix(p)
         /\ \A i \in 1..Len(built) : built[i] = Nul => b[i] = Nul
<1>1. Len(b) = Len(built) /\ Len(built) \in Nat
  BY LenProperties DEF AcpiAssumption, WellFormed, Patched
<1>2. ASSUME NEW i \in 1..Len(built), b[i] # built[i]
      PROVE  /\ built[i] \in {Old, Nul} /\ (built[i] = Nul => b[i] = Nul)
             /\ b[i] # NameOp /\ (\A m : b[i] # Named(m)) /\ \A p : b[i] # Prefix(p)
             /\ built[i] # NameOp /\ (\A m : built[i] # Named(m)) /\ \A p : built[i] # Prefix(p)
  <2>1. PICK k \in 1..d : Written(soc.names[k], i, b[i])
    BY <1>2 DEF Patched
  <2> DEFINE m == soc.names[k]
  <2>2. m \in Names
    BY NamesAre
  <2>3. Places(built, m) # {} /\ i \in DataOf(m)
    BY <2>1 DEF Written
  <2>4. built[i] \in {Old, Nul}
    BY <2>2, <2>3, ObjectIs DEF DataOf
  <2>5. b[i] \in {New(m, o) : o \in Origins} \union {Nul} /\ (built[i] = Nul => b[i] = Nul)
    BY <2>1 DEF Written
  <2>6. b[i] \in {Old, Nul} \/ \E x, from : b[i] = New(x, from)
    BY <2>5
  <2> HIDE DEF m
  <2>7. b[i] # NameOp /\ (\A x : b[i] # Named(x)) /\ \A p : b[i] # Prefix(p)
    BY <2>6, DataIsData
  <2>8. built[i] # NameOp /\ (\A x : built[i] # Named(x)) /\ \A p : built[i] # Prefix(p)
    BY <2>4, DataIsData
  <2>9. QED  BY <2>4, <2>5, <2>7, <2>8
<1>3. \A i \in 1..Len(built) :
        /\ b[i] = NameOp <=> built[i] = NameOp
        /\ \A m : b[i] = Named(m) <=> built[i] = Named(m)
  BY <1>2
<1>4. \A c \in 1..Len(built) - 2 : c \in 1..Len(built) /\ c + 1 \in 1..Len(built)
  BY <1>1
<1>5. Places(b, n) = Places(built, n)
  BY <1>1, <1>3, <1>4 DEF Places
<1>6. QED  BY <1>2, <1>5

\* The object of a name is no larger than it was, and as large until its turn.
LEMMA SizeKept ==
  ASSUME AcpiAssumption, soc \in Packages, built \in Bodies, NEW d \in 0..Len(soc.names), NEW b,
         Patched(b, d), NEW n \in Names, Places(built, n) # {}
  PROVE  /\ GetAslNameDataSize(b, Object(n)) \in Nat
         /\ GetAslNameDataSize(b, Object(n)) <= GetAslNameDataSize(built, Object(n))
         /\ (\A k \in 1..d : soc.names[k] # n) =>
              GetAslNameDataSize(b, Object(n)) = GetAslNameDataSize(built, Object(n))
<1> DEFINE c    == Object(n)
           size == GetAslNameDataSize(built, c)
           now  == GetAslNameDataSize(b, c)
<1>1. /\ c \in 1..Len(built) - 2 /\ size \in Nat /\ c + 2 \in 1..Len(built)
      /\ Len(b) = Len(built) /\ Len(built) \in Nat /\ c \in Nat
  BY ObjectIs, LenProperties DEF AcpiAssumption, WellFormed, Patched
<1>2. \A p : b[c + 2] = Prefix(p) <=> built[c + 2] = Prefix(p)
  BY <1>1, PlacesKept
<1>3. CASE built[c + 2] # Prefix("String")
  <2>1. now = size
    BY <1>2, <1>3 DEF GetAslNameDataSize
  <2>2. QED  BY <1>1, <2>1
<1>4. CASE built[c + 2] = Prefix("String")
  <2>1. /\ size \in 1..Len(built) - c - 2 /\ built[c + 2 + size] = Nul
        /\ \A k \in 1..size : built[c + 2 + k] = Nul => k = size
    BY <1>4, ObjectIs
  <2> HIDE DEF c, size
  <2>2. c + 2 + size \in 1..Len(built)
    BY <1>1, <2>1
  <2>3. b[c + 2 + size] = Nul
    BY <2>1, <2>2, PlacesKept
  <2>4. /\ now \in Nat /\ now \in 1..Len(b) - c - 2 /\ b[c + 2 + now] = Nul
        /\ \A k \in 1..Len(b) - c - 2 : b[c + 2 + k] = Nul => now <= k
    <3>1. \E k \in 1..Len(b) - c - 2 : b[c + 2 + k] = Nul
      BY <1>1, <2>1, <2>3
    <3>2. c \in 1..Len(b) - 2 /\ Len(b) \in Nat /\ b[c + 2] = Prefix("String")
      BY <1>1, <1>2, <1>4
    <3>3. QED  BY <3>1, <3>2, SizeIs
  <2> HIDE DEF now
  <2>5. now <= size
    BY <1>1, <2>1, <2>3, <2>4
  <2>6. ASSUME \A k \in 1..d : soc.names[k] # n, now # size PROVE FALSE
    <3>1. now \in 1..size /\ built[c + 2 + now] # Nul
      BY <1>1, <2>1, <2>4, <2>5, <2>6
    <3>2. c + 2 + now \in 1..Len(built)
      BY <1>1, <2>4
    <3>3. PICK k \in 1..d : Written(soc.names[k], c + 2 + now, b[c + 2 + now])
      BY <2>4, <3>1, <3>2 DEF Patched
    <3>4. soc.names[k] \in Names /\ Places(built, soc.names[k]) # {}
          /\ c + 2 + now \in DataOf(soc.names[k])
      BY <3>3, NamesAre DEF Written
    <3>5. c + 2 + now \in DataOf(n)
      BY <3>1 DEF DataOf, c, size
    <3>6. soc.names[k] = n
      BY <3>4, <3>5, DataApart
    <3>7. QED  BY <2>6, <3>6
  <2>7. now = size \/ ~\A k \in 1..d : soc.names[k] # n
    BY <2>6
  <2>8. QED  BY <2>4, <2>5, <2>7 DEF c, size, now
<1>5. QED  BY <1>3, <1>4

\* The turn of a name: its data are written if they fit, and nothing else is.
LEMMA PatchStep ==
  ASSUME AcpiAssumption, soc \in Packages, built \in Bodies,
         NEW d \in Nat, d + 1 \in 1..Len(soc.names), NEW b, Patched(b, d), Told(b, d),
         NEW v \in Values(soc.names[d + 1]), FailuresChecked
  PROVE  LET new == AslUpdateName(b, soc.names[d + 1], v)
         IN  Patched(new, d + 1) /\ Told(new, d + 1)
<1> DEFINE n    == soc.names[d + 1]
           c    == Object(n)
           len  == Length(n)
           size == GetAslNameDataSize(built, c)
           now  == GetAslNameDataSize(b, c)
           new  == AslUpdateName(b, n, v)
<1>1. /\ n \in Names /\ d \in 0..Len(soc.names)
      /\ \A k \in 1..d + 1 : k \in 1..d \/ k = d + 1
      /\ \A k \in 1..d : k \in 1..d + 1 /\ k \in 1..Len(soc.names) /\ soc.names[k] \in Names
  BY NamesAre
<1>2. Len(b) = Len(built) /\ DOMAIN b = 1..Len(built) /\ Len(built) \in Nat
  BY LenProperties DEF AcpiAssumption, WellFormed, Patched
<1>3. Places(b, n) = Places(built, n) /\ Earliest(Places(b, n)) = c
  BY <1>1, PlacesKept DEF Object
<1>4. /\ len \in Nat /\ Len(v) = len
      /\ \A j \in 1..len : v[j] \in {New(n, o) : o \in Origins} \union {Nul}
      /\ n = "SIDS" => v[len] = Nul
      /\ \A j \in 1..len : Proper(n, v[j])
  BY ValuesAre
<1>5. \A j \in 1..len : v[j] # Old
  <2>1. \A from : New(n, from) # Old
    BY DEF New, Old
  <2>2. Nul # Old
    BY DEF Nul, Old
  <2>3. QED  BY <1>4, <2>1, <2>2
<1>6. CASE Places(b, n) # {} /\ Fits(b, c, v)
  <2>1. new = [i \in 1..Len(b) |-> IF i - c - 2 \in 1..Len(v) THEN v[i - c - 2] ELSE b[i]]
    BY <1>3, <1>6 DEF AslUpdateName
  <2>2. len <= now /\ now <= size /\ now \in Nat /\ size \in Nat /\ c \in Nat
    BY <1>1, <1>3, <1>4, <1>6, SizeKept, ObjectIs DEF Fits
  <2>3. /\ \A k \in 1..size :
             /\ c + 2 + k \in 1..Len(built)
             /\ built[c + 2 + k] = Nul => n = "SIDS" /\ k = size
        /\ DataOf(n) = {c + 2 + k : k \in 1..size}
    BY <1>1, <1>3, <1>6, ObjectIs DEF DataOf
  <2> HIDE DEF n, c, len, size, now, new
  <2>4. /\ DOMAIN new = 1..Len(built) /\ Len(new) = Len(built)
        /\ \A i \in 1..Len(built) :
             new[i] = IF i - c - 2 \in 1..len THEN v[i - c - 2] ELSE b[i]
    BY <1>2, <1>4, <2>1
  <2>5. ASSUME NEW i \in 1..Len(built), i - c - 2 \in 1..len
        PROVE  Written(n, i, new[i])
    <3> DEFINE j == i - c - 2
    <3>1. j \in 1..len /\ i = c + 2 + j /\ j \in 1..size /\ new[i] = v[j]
      <4>1. new[i] = v[j] /\ j \in 1..len
        BY <2>4, <2>5
      <4>2. i \in Int /\ i = c + 2 + j
        BY <1>2, <2>2
      <4> HIDE DEF j
      <4>3. j \in 1..size
        BY <1>4, <2>2, <4>1
      <4>4. QED  BY <4>1, <4>2, <4>3
    <3> HIDE DEF j
    <3>2. i \in DataOf(n)
      BY <2>3, <3>1
    <3>3. built[i] = Nul => new[i] = Nul
      <4>1. ASSUME built[i] = Nul PROVE n = "SIDS" /\ j = len
        BY <1>4, <2>2, <2>3, <3>1, <4>1
      <4>2. QED  BY <1>4, <3>1, <4>1
    <3>4. QED  BY <1>3, <1>4, <1>6, <3>1, <3>2, <3>3 DEF Written
  <2>6. Patched(new, d + 1)
    <3>1. ASSUME NEW i \in 1..Len(built), new[i] # built[i]
          PROVE  \E k \in 1..d + 1 : Written(soc.names[k], i, new[i])
      <4>1. CASE i - c - 2 \in 1..len
        <5>1. Written(soc.names[d + 1], i, new[i])
          BY <2>5, <4>1 DEF n
        <5>2. d + 1 \in 1..d + 1
          OBVIOUS
        <5>3. QED  BY <5>1, <5>2
      <4>2. CASE i - c - 2 \notin 1..len
        <5>1. new[i] = b[i]
          BY <2>4, <4>2
        <5>2. PICK k \in 1..d : Written(soc.names[k], i, b[i])
          BY <3>1, <5>1 DEF Patched
        <5>3. QED  BY <1>1, <5>1, <5>2
      <4>3. QED  BY <4>1, <4>2
    <3>2. QED  BY <2>4, <3>1 DEF Patched
  <2>7. \A i \in 1..Len(built) : b[i] # Old \/ i - c - 2 \in 1..len => new[i] # Old
    BY <1>5, <2>4
  <2>8. Told(new, d + 1)
    <3> SUFFICES ASSUME NEW k \in 1..d + 1, HasRoom(soc.names[k]),
                        NEW j \in 1..Length(soc.names[k])
                 PROVE  new[Object(soc.names[k]) + 2 + j] # Old
      BY DEF Told
    <3> DEFINE i == Object(soc.names[k]) + 2 + j
    <3>1. CASE k \in 1..d
      <4>1. b[i] # Old
        BY <3>1 DEF Told
      <4>2. j \in 1..GetAslNameDataSize(built, Object(soc.names[k]))
        <5>1. /\ Length(soc.names[k]) <= GetAslNameDataSize(built, Object(soc.names[k]))
              /\ GetAslNameDataSize(built, Object(soc.names[k])) \in Nat
              /\ Length(soc.names[k]) \in Nat
          BY <1>1, <3>1, ObjectIs DEF HasRoom, Length, AcpiAssumption
        <5>2. QED  BY <5>1
      <4>3. i \in 1..Len(built)
        BY <1>1, <3>1, <4>2, ObjectIs DEF HasRoom
      <4>4. QED  BY <2>7, <4>1, <4>3
    <3>2. CASE k = d + 1
      <4>1. i = c + 2 + j /\ j \in 1..len
        BY <3>2 DEF n, c, len
      <4>2. j \in 1..size /\ i - c - 2 = j
        BY <1>4, <2>2, <4>1
      <4>3. i \in 1..Len(built)
        BY <2>3, <4>1, <4>2
      <4> HIDE DEF i
      <4>4. new[i] # Old
        BY <2>7, <4>1, <4>2, <4>3
      <4>5. QED  BY <4>4 DEF i
    <3>3. QED  BY <1>1, <3>1, <3>2
  <2>9. QED  BY <2>6, <2>8 DEF new, n
<1>7. CASE ~(Places(b, n) # {} /\ Fits(b, c, v))
  <2>1. new = b
    BY <1>3, <1>7 DEF AslUpdateName
  <2>2. Patched(b, d + 1)
    BY <1>1 DEF Patched
  <2>3. ASSUME HasRoom(n), NEW j \in 1..len PROVE b[c + 2 + j] # Old
    <3>1. \E k \in 1..d : soc.names[k] = n
      <4>1. SUFFICES ASSUME \A k \in 1..d : soc.names[k] # n PROVE FALSE
        OBVIOUS
      <4>2. now = size
        BY <1>1, <2>3, <4>1, SizeKept DEF HasRoom
      <4>3. QED  BY <1>3, <1>4, <1>7, <2>3, <4>2 DEF HasRoom, Fits
    <3>2. PICK k \in 1..d : soc.names[k] = n
      BY <3>1
    <3>3. HasRoom(soc.names[k]) /\ j \in 1..Length(soc.names[k])
      BY <2>3, <3>2
    <3>4. b[Object(soc.names[k]) + 2 + j] # Old
      BY <3>3 DEF Told
    <3>5. QED  BY <3>2, <3>4
  <2>4. Told(b, d + 1)
    <3> SUFFICES ASSUME NEW k \in 1..d + 1, HasRoom(soc.names[k]),
                        NEW j \in 1..Length(soc.names[k])
                 PROVE  b[Object(soc.names[k]) + 2 + j] # Old
      BY DEF Told
    <3>1. CASE k \in 1..d
      BY <3>1 DEF Told
    <3>2. CASE k = d + 1
      BY <2>3, <3>2
    <3>3. QED  BY <1>1, <3>1, <3>2
  <2>5. QED  BY <2>1, <2>2, <2>4
<1>8. QED  BY <1>6, <1>7

-----------------------------------------------------------------------------
LEMMA ContentInit == AcpiAssumption /\ Init => ContentInv
<1> SUFFICES ASSUME AcpiAssumption, Init PROVE ContentInv
  OBVIOUS
<1>1. /\ soc \in Packages /\ built \in Bodies /\ todo = soc.names /\ pc = "dispatch"
      /\ table = <<>> /\ tables = {} /\ reinstalled = "no" /\ FailuresChecked
  BY DEF Init, FailuresChecked
<1>2. Len(soc.names) \in Nat /\ todo \in Seq(Names)
  BY <1>1, NamesAre
<1>3. Done = 0
  BY <1>1, <1>2 DEF Done
<1>4. \A i \in 1..Len(todo) : todo[i] = soc.names[Done + i]
  BY <1>1, <1>2, <1>3
<1>5. QED  BY <1>1, <1>2, <1>4 DEF ContentInv

\* A table nothing has been written to.
LEMMA FreshTable ==
  ASSUME AcpiAssumption, built \in Bodies, NEW d \in Nat
  PROVE  Patched(built, d)
BY LenProperties DEF AcpiAssumption, WellFormed, Patched

LEMMA ContentStep ==
  ASSUME AcpiAssumption, OneTable, ContentInv, [Next]_vars
  PROVE  ContentInv'
<1>1. /\ soc \in Packages /\ built \in Bodies /\ Len(todo) \in 0..Len(soc.names)
      /\ todo \in Seq(Names) /\ Len(soc.names) \in Nat /\ Done \in Nat
      /\ \A i \in 1..Len(todo) : todo[i] = soc.names[Done + i]
  BY NamesAre DEF ContentInv, Done
<1>2. UNCHANGED <<soc, built>>
  BY DEF Next, vars, InstallProtocols, InstallTables, LocateAcpiProtocols, AcpiCallback,
         LocateTableBySignature, LocateQcomProtocols, Ask, NextQuestion, UpdateName, ReinstallTable, Return
<1>3. /\ \A b, d : Patched(b, d)' <=> Patched(b, d)
      /\ \A b, d : Told(b, d)' <=> Told(b, d)
  BY <1>2 DEF Patched, Told, Written, Proper, QueryOf, HasRoom, DataOf, Object, Length
<1>4. CASE UNCHANGED <<todo, table, tables, reinstalled, failed, pc>>
  <2>1. Done' = Done
    BY <1>2, <1>4 DEF Done
  <2>2. Patched(table, Done)' <=> Patched(table, Done)
    BY <1>3, <1>4, <2>1
  <2>3. Told(table, Done)' <=> Told(table, Done)
    BY <1>3, <1>4, <2>1
  <2>4. QED  BY <1>2, <1>3, <1>4, <2>1, <2>2, <2>3 DEF ContentInv, FailuresChecked
<1>5. FailuresChecked
  BY DEF ContentInv
<1>6. CASE Return /\ UNCHANGED <<todo, failed>> /\ table' \in {table, <<>>} /\ pc # "dispatch"
  <2>1. Done' = Done /\ pc' = "done" /\ tables' = tables /\ reinstalled' = reinstalled
    BY <1>2, <1>6 DEF Done, Return, acpi
  <2>2. table' # <<>> => Patched(table, Done)'
    BY <1>3, <1>6, <2>1 DEF ContentInv
  <2>3. QED  BY <1>2, <1>3, <1>6, <2>1, <2>2 DEF ContentInv, FailuresChecked
<1>7. CASE InstallTables
  <2>1. /\ pc = "dispatch" /\ tables' = {Installed(built)}
        /\ UNCHANGED <<pc, table, todo, failed, reinstalled>>
    BY <1>7 DEF InstallTables, work
  <2>2. /\ table = <<>> /\ todo = soc.names /\ reinstalled = "no" /\ Done' = Done
    BY <1>2, <2>1 DEF ContentInv, Done
  <2>3. Installed(built).body = built
    BY DEF Installed
  <2>4. \A t \in tables' : Patched(t.body, Len(soc.names))
    BY <1>1, <2>1, <2>3, FreshTable
  <2>5. QED  BY <1>1, <1>2, <1>3, <2>1, <2>2, <2>3, <2>4 DEF ContentInv, FailuresChecked
<1>8. CASE LocateTableBySignature
  <2>1. /\ pc = "dispatch" /\ table = <<>> /\ todo = soc.names /\ Done = 0 /\ reinstalled = "no"
        /\ \A t \in tables : t.body = built
    BY <1>1, <1>8 DEF LocateTableBySignature, ContentInv, Done
  <2>2. /\ UNCHANGED <<tables, todo, failed, reinstalled>> /\ Done' = Done
    BY <1>2, <1>8 DEF LocateTableBySignature, Return, acpi, work, Done
  <2>3. CASE pc' \in {"done", "hang"} /\ UNCHANGED table
    BY <1>1, <1>2, <1>3, <2>1, <2>2, <2>3 DEF ContentInv, FailuresChecked
  <2>4. CASE table' = built /\ pc' \in {"locate", "update"}
    <3>1. Patched(table, Done)' /\ Told(table, Done)'
      <4>1. Patched(built, 0) /\ Told(built, 0)
        BY <1>1, FreshTable DEF Told
      <4>2. QED  BY <1>3, <2>1, <2>2, <2>4, <4>1
    <3>2. FailuresChecked'
      BY <1>2, <1>5, <2>2 DEF FailuresChecked
    <3>3. pc' # "dispatch"
      BY <2>4
    <3>4. QED  BY <1>1, <1>2, <1>3, <2>1, <2>2, <3>1, <3>2, <3>3 DEF ContentInv
  <2>5. QED  BY <1>8, <2>1, <2>3, <2>4 DEF LocateTableBySignature, Return, work
<1>9. CASE Ask
  <2>1. CASE Return /\ UNCHANGED work
    BY <1>6, <1>9, <2>1 DEF work, Ask
  <2>0. \/ Return /\ UNCHANGED work
        \/ NextQuestion /\ failed' = failed
        \/ NextQuestion /\ ~EndsUpdate(Head(questions)) /\ failed' = failed \union {Head(questions)}
    BY <1>9 DEF Ask
  <2>2. CASE \/ NextQuestion /\ failed' = failed
             \/ NextQuestion /\ ~EndsUpdate(Head(questions)) /\ failed' = failed \union {Head(questions)}
    <3>0. pc' \in {"ask", "update"} /\ UNCHANGED <<tables, table, todo, reinstalled>>
      BY <2>2 DEF NextQuestion, acpi
    <3>1. pc = "ask" /\ Done' = Done
      BY <1>2, <1>9, <3>0 DEF Ask, Done
    <3>2. Patched(table, Done)' /\ Told(table, Done)'
      BY <1>3, <3>0, <3>1 DEF ContentInv
    <3>3. FailuresChecked'
      BY <1>2, <1>5, <2>2 DEF FailuresChecked, EndsUpdate
    <3>4. QED  BY <1>1, <1>2, <1>3, <3>0, <3>1, <3>2, <3>3 DEF ContentInv
  <2>3. QED  BY <2>0, <2>1, <2>2
<1>10. CASE UpdateName
  <2> DEFINE n == Head(todo)
  <2>1. /\ pc = "update" /\ todo # <<>> /\ todo' = Tail(todo)
        /\ UNCHANGED <<pc, tables, failed, reinstalled>>
    BY <1>10 DEF UpdateName, acpi
  <2>2. PICK v \in Values(n) : table' = AslUpdateName(table, n, v)
    BY <1>10 DEF UpdateName
  <2>3. /\ Len(todo) > 0 /\ n = todo[1] /\ todo' \in Seq(Names) /\ Len(todo') = Len(todo) - 1
        /\ \A i \in 1..Len(todo') : todo'[i] = todo[i + 1]
    BY <1>1, <2>1, HeadTailProperties, EmptySeq
  <2>4. /\ Done' = Done + 1 /\ Done + 1 \in 1..Len(soc.names) /\ n = soc.names[Done + 1]
        /\ Len(todo') \in 0..Len(soc.names)
    BY <1>1, <1>2, <2>3 DEF Done
  <2>5. \A i \in 1..Len(todo') : todo'[i] = soc.names[Done' + i]
    <3>1. \A i \in 1..Len(todo') : i + 1 \in 1..Len(todo) /\ Done + (i + 1) = Done' + i
      BY <1>1, <2>3, <2>4
    <3>2. QED  BY <1>1, <2>3, <3>1
  <2>6. Patched(table, Done) /\ Told(table, Done)
    BY <2>1 DEF ContentInv
  <2>8. Patched(table', Done + 1) /\ Told(table', Done + 1)
    BY <1>1, <1>5, <2>2, <2>4, <2>6, PatchStep, AcpiAssumption
  <2>9. Patched(table, Done)' /\ Told(table, Done)'
    BY <1>3, <2>4, <2>8
  <2>10. pc' = "update" /\ FailuresChecked'
    BY <1>2, <1>5, <2>1 DEF FailuresChecked
  <2>11. QED  BY <1>1, <1>2, <1>3, <2>1, <2>3, <2>4, <2>5, <2>9, <2>10 DEF ContentInv
<1>11. CASE ReinstallTable
  <2> DEFINE others == {t \in tables : t.id # DsdtHandle}
  <2>1. pc = "update" /\ todo = <<>> /\ others = {}
    BY <1>11 DEF ReinstallTable, OneTable, DsdtServed
  <2>2. Done = Len(soc.names)
    BY <1>1, <2>1, EmptySeq DEF Done
  <2>3. Patched(table, Len(soc.names)) /\ Told(table, Len(soc.names))
    BY <2>1, <2>2 DEF ContentInv
  <2>4. CASE Return /\ UNCHANGED <<todo, failed>> /\ table' \in {table, <<>>}
    BY <1>6, <2>1, <2>4
  <2>5. CASE /\ tables' = others \union {Installed(table)} /\ pc' = "done" /\ table' = <<>>
             /\ UNCHANGED <<todo, failed>>
    <3>1. Installed(table).body = table /\ tables' = {Installed(table)} /\ Done' = Done
      BY <1>2, <2>1, <2>5 DEF Installed, Done
    <3>2. \A t \in tables' : Patched(t.body, Len(soc.names)) /\ Told(t.body, Len(soc.names))
      BY <2>3, <3>1
    <3>3. QED  BY <1>1, <1>2, <1>3, <2>5, <3>1, <3>2 DEF ContentInv, FailuresChecked
  <2>6. CASE /\ tables' = others /\ pc' \in {"done", "dead"} /\ table' \in {table, <<>>}
             /\ UNCHANGED <<todo, failed>>
    <3>1. tables' = {} /\ Done' = Done
      BY <1>2, <2>1, <2>6 DEF Done
    <3>2. table' # <<>> => Patched(table, Done)'
      BY <1>3, <2>2, <2>3, <2>6, <3>1
    <3>3. QED  BY <1>1, <1>2, <1>3, <2>6, <3>1, <3>2 DEF ContentInv, FailuresChecked
  <2>7. QED  BY <1>11, <2>4, <2>5, <2>6 DEF ReinstallTable, work
<1>12. CASE InstallProtocols \/ LocateAcpiProtocols \/ AcpiCallback \/ UNCHANGED vars
  BY <1>4, <1>12 DEF InstallProtocols, LocateAcpiProtocols, AcpiCallback, vars, work, acpi
<1>14. CASE LocateQcomProtocols
  <2>1. CASE Return /\ UNCHANGED work
    BY <1>6, <1>14, <2>1 DEF work, LocateQcomProtocols
  <2>2. CASE pc' = "ask" /\ UNCHANGED <<tables, table, todo, failed, reinstalled>>
    <3>1. pc = "locate" /\ Done' = Done
      BY <1>2, <1>14, <2>2 DEF LocateQcomProtocols, Done
    <3>2. Patched(table, Done)' /\ Told(table, Done)'
      BY <1>3, <2>2, <3>1 DEF ContentInv
    <3>3. FailuresChecked'
      BY <1>2, <1>5, <2>2 DEF FailuresChecked
    <3>4. QED  BY <1>1, <1>2, <1>3, <2>2, <3>1, <3>2, <3>3 DEF ContentInv
  <2>3. QED  BY <1>14, <2>1, <2>2 DEF LocateQcomProtocols, work, acpi
<1>13. QED  BY <1>7, <1>8, <1>9, <1>14, <1>10, <1>11, <1>12 DEF Next

LEMMA ContentAlways == Spec => []ContentInv
<1>1. Init => OneTable /\ ContentInv
  BY InitOneTable, ContentInit, AcpiAssumption
<1>2. OneTable /\ ContentInv /\ [Next]_vars => OneTable' /\ ContentInv'
  BY NextOneTable, ContentStep, AcpiAssumption
<1>3. QED  BY <1>1, <1>2, PTL DEF Spec

\* LayoutKept for every DSDT the compiler may have written: UpdateAcpiTables
\* changes nothing but data of its own names, never past the end of an object,
\* and the Nul of a string stays.
THEOREM LayoutAlways == Spec => []LayoutKept
<1>1. ContentInv => LayoutKept
  <2> SUFFICES ASSUME ContentInv, NEW b, b \in {t.body : t \in tables} \union ({table} \ {<<>>})
               PROVE  /\ Len(b) = Len(built)
                      /\ \A i \in 1..Len(b) : b[i] # built[i] =>
                           \E k \in DOMAIN soc.names :
                             LET n == soc.names[k] IN
                             /\ Places(built, n) # {} /\ i \in DataOf(n)
                             /\ b[i] \in {New(n, o) : o \in Origins} \union {Nul}
                             /\ built[i] = Nul => b[i] = Nul
    BY DEF LayoutKept
  <2>1. /\ DOMAIN soc.names = 1..Len(soc.names) /\ Len(soc.names) \in Nat
        /\ Len(todo) \in Nat /\ Len(todo) <= Len(soc.names)
    BY NamesAre DEF ContentInv
  <2>2. \E d \in Nat : d <= Len(soc.names) /\ Patched(b, d)
    <3>1. CASE b \in {t.body : t \in tables}
      BY <2>1, <3>1 DEF ContentInv
    <3>2. CASE b = table /\ table # <<>>
      <4>1. Patched(table, Done) /\ Done \in Nat /\ Done <= Len(soc.names)
        BY <2>1, <3>2 DEF ContentInv, Done
      <4>2. QED  BY <3>2, <4>1
    <3>3. QED  BY <3>1, <3>2
  <2>3. PICK d \in Nat : d <= Len(soc.names) /\ Patched(b, d)
    BY <2>2
  <2>4. ASSUME NEW i \in 1..Len(built), b[i] # built[i]
        PROVE  \E k \in DOMAIN soc.names : Written(soc.names[k], i, b[i])
    <3>1. PICK k \in 1..d : Written(soc.names[k], i, b[i])
      BY <2>3, <2>4 DEF Patched
    <3>2. k \in DOMAIN soc.names
      BY <2>1, <2>3
    <3>3. QED  BY <3>1, <3>2
  <2>5. Len(b) = Len(built)
    BY <2>3 DEF Patched
  <2>6. QED  BY <2>4, <2>5 DEF Written
<1>2. QED  BY <1>1, ContentAlways, PTL

\* For every DSDT and whichever queries fail, in any number: a byte that reaches the
\* operating system was answered or has a default, but for the type of the platform
\* where its query is not checked, and where the queries are checked a default stands
\* for a memory region only.
THEOREM OriginsAlways == Spec => []OriginsRight
<1>1. AcpiAssumption /\ ContentInv => OriginsRight
  <2> SUFFICES ASSUME AcpiAssumption, ContentInv, NEW t \in tables,
                      NEW i \in 1..Len(t.body), NEW k \in DOMAIN soc.names
               PROVE  Proper(soc.names[k], t.body[i])
    BY DEF OriginsRight
  <2>1. Patched(t.body, Len(soc.names)) /\ i \in 1..Len(built) /\ built \in Seq(Cells)
    BY DEF ContentInv, Patched, AcpiAssumption, WellFormed
  <2>2. CASE t.body[i] = built[i]
    BY <2>1, <2>2, CellsAre DEF Proper
  <2>3. CASE t.body[i] # built[i]
    <3>1. PICK j \in 1..Len(soc.names) : Written(soc.names[j], i, t.body[i])
      BY <2>1, <2>3 DEF Patched
    <3>2. \A o : t.body[i] = New(soc.names[k], o) => soc.names[k] = soc.names[j]
      BY <3>1 DEF Written, New, Nul
    <3>3. QED  BY <3>1, <3>2 DEF Written, Proper
  <2>4. QED  BY <2>2, <2>3
<1>2. QED  BY <1>1, ContentAlways, AcpiAssumption, PTL

\* EveryNameTold for every DSDT: an update that went through wrote every name
\* whose object has room, up to the last one of the table.
THEOREM EveryNameWritten == Spec => []EveryNameTold
<1>1. ContentInv => EveryNameTold
  <2> SUFFICES ASSUME ContentInv, reinstalled = "yes", NEW t \in tables,
                      NEW k \in DOMAIN soc.names, HasRoom(soc.names[k])
               PROVE  \A j \in 1..Length(soc.names[k]) :
                        t.body[Object(soc.names[k]) + 2 + j] # Old
    BY DEF EveryNameTold, HasRoom
  <2>1. k \in 1..Len(soc.names)
    BY NamesAre DEF ContentInv
  <2>2. QED  BY <2>1 DEF ContentInv, Told
<1>2. QED  BY <1>1, ContentAlways, PTL

=============================================================================
