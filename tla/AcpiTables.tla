------------------------------ MODULE AcpiTables ------------------------------
(***************************************************************************)
(* What the phone tells the operating system about itself: BDS patches     *)
(* the names of the DSDT with what the chip, the platform and the shared   *)
(* memory report (UpdateAcpiTables, one per SoC), working on a copy that   *)
(* replaces the installed table (AslUpdateLib).                            *)
(*                                                                         *)
(* A table body is a sequence of cells: the NameOp, the name (four bytes   *)
(* in one cell), the prefix of the data, and the data byte by byte; the    *)
(* rest is code, which may refer to a name.                                *)
(***************************************************************************)
EXTENDS Integers, Sequences, FiniteSets

CONSTANTS
  Bodies,                    \* bodies a DSDT may have
  EFICHIPINFO_MAX_ID_LENGTH,
  MaxFailures                \* bound on the queries that fail in an update

\* A cell begins with what it is.
NameOp        == <<"NameOp">>
Named(n)      == <<"Name", n>>
Prefix(p)     == <<"Prefix", p>>
Code          == <<"Code">>
Old           == <<"Old">>     \* a data byte of the table as built
Nul           == <<"Nul">>     \* the end of a string
New(n, from)  == <<"New", n, from>>   \* a data byte of n: an "Answer", a "Default" or "Nothing" set

VARIABLES
  pc,           \* where the boot is: drivers are dispatched, BDS, done or dead
  soc,          \* the SoC package built in
  built,        \* body of the DSDT as built
  services,     \* ACPI protocols the ACPI driver installed
  constructed,  \* the constructor of AslUpdateLib ran
  waiting,      \* RegisterAcpiProtocolNotify waits for the SDT protocol
  known,        \* which of mAcpiSdtProtocol and mAcpiTableProtocol are set
  tables,       \* installed tables
  handles,      \* number of handles given out
  table,        \* DsdtTable, the copy being patched
  DsdtHandle,
  todo,         \* names to update, in the order of the calls
  questions,    \* queries to make, in the order of the calls
  failed,       \* queries that failed
  reinstalled,  \* history: outcome of ReinstallTable, "no" before
  lost          \* history: InstallAcpiTable failed after the uninstallation

locating == <<services, constructed, waiting, known>>
acpi     == <<tables, handles>>
work     == <<table, DsdtHandle, todo, questions, failed>>
vars     == <<pc, soc, built, locating, acpi, work, reinstalled, lost>>

-----------------------------------------------------------------------------
(***************************************************************************)
(* The packages.  A package that is checked returns on a failed query, and *)
(* not on a memory region that is missing; the others do not look at the   *)
(* status.  Names in fixed get a constant whatever was asked.              *)
(***************************************************************************)
RegionNames == {"MPSS_EFS", "ADSP_EFS", "TGCM"}
Package(lookups, fixed, names) ==
  [checked |-> FALSE, fixed |-> fixed, names |-> names,
   queries |-> <<"id", "version", "family", "modem", "serial", "qfprom", "idString", "smem",
                 "platform">> \o lookups]
Checked(queries, names) == [checked |-> TRUE, fixed |-> {}, names |-> names, queries |-> queries]

Efs      == <<"MPSS_EFS", "ADSP_EFS">>
EfsTgcm  == Efs \o <<"TGCM">>
Chip     == <<"SIDV", "SVMJ", "SVMI", "SDFE", "SIDM">>
Regions  == <<"RMTB", "RMTX", "RFMB", "RFMS", "RFAB", "RFAS">>
Devices  == <<"TPMA", "TDTV", "TCMA", "TCML">>
NoTgcm   == {"TCMA", "TCML"}

Napali   == Package(Efs, {}, <<"SOID">> \o Chip \o <<"SOSN", "PLST">> \o Regions \o <<"SOSI", "SIDS">>)
Blackbolt == Package(Efs, NoTgcm, <<"SOID", "STOR">> \o Chip \o <<"SOSN", "PLST">> \o Regions \o Devices
                              \o <<"SOSI", "SIDS">>)
Moorea   == Package(EfsTgcm, {}, <<"SOID", "STOR">> \o Chip \o <<"PUS3", "SIDT", "SOSN", "PLST">>
                             \o Regions \o Devices \o <<"PRP0", "SOSI", "SIDS">>)
Rennell  == Package(EfsTgcm, {}, <<"SOID", "STOR">> \o Chip \o <<"PUS3", "SIDT", "SOSN", "PLST">>
                             \o Regions \o Devices \o <<"SOSI", "SIDS">>)
Kona     == Package(<<>>, {}, <<"SOID", "STOR">> \o Chip \o <<"PUS3", "SIDT", "SJTG", "EMUL", "SOSN",
                             "PLST", "SOSI", "PRP0", "PRP1", "PRP2", "SIDS">>)
Hana     == Package(Efs, NoTgcm, <<"SOID", "STOR">> \o Chip \o <<"SUFS", "PUS3", "SUS3", "SIDT", "SOSN",
                             "PLST">> \o Regions \o Devices \o <<"SOSI", "PRP0", "PRP1", "SIDS">>)
Kailua   == Package(EfsTgcm, {}, <<"SOID", "STOR">> \o Chip \o <<"SUFS", "PUS4", "SUS4", "SOSN", "PLST">>
                             \o Regions \o Devices \o <<"SOSI", "PRP0", "PRP1", "SIDS">>)
Lahaina  == Package(EfsTgcm, {}, <<"SOID", "STOR">> \o Chip \o <<"SUFS", "PUS3", "SUS3", "SIDT", "SJTG",
                             "EMUL", "SOSN", "PLST">> \o Regions \o Devices
                             \o <<"SOSI", "PRP0", "PRP1", "SIDS">>)
Cedros   == Package(EfsTgcm, {"SOID"}, <<"SOID", "SKUV", "SDDR", "STOR">> \o Chip \o <<"SUFS", "PUS3", "SUS3", "SIDT",
                             "SJTG", "EMUL", "SOSN", "PLST">> \o Regions \o Devices
                             \o <<"SOSI", "PRP0", "SIDS", "UAON">>)
Kodiak   == Package(EfsTgcm, {"SOID"}, <<"SOID", "SKUV", "SDDR", "STOR">> \o Chip \o <<"SUFS", "PUS3", "SUS3", "SIDT",
                             "SJTG", "EMUL", "SOSN", "PLST">> \o Regions \o Devices
                             \o <<"SOSI", "PRP0", "PRP1", "SIDS", "UAON">>)
Waipio   == Checked(<<"version", "id", "idString", "family", "modem", "serial", "qfprom", "platform",
                      "smem">> \o EfsTgcm,
                    <<"EMUL", "PLST", "PUS3", "RFAB", "RFAS", "RFMB", "RFMS", "RMTB", "RMTX",
                            "PRP0", "PRP1", "SDFE", "SIDM", "SIDS", "SIDT", "SIDV", "SJTG", "SOID",
                            "SOSN", "SOSI", "STOR", "SUFS", "SUS3", "SVMI", "SVMJ", "TCMA", "TCML">>)
Palima   == Waipio
Molokai  == Checked(<<>>, <<"EMUL", "STOR">>)
Packages == {Napali, Blackbolt, Moorea, Rennell, Kona, Hana, Kailua, Lahaina, Cedros, Kodiak,
             Waipio, Palima, Molokai}

\* The query byte i of a name is from, if it is not a constant or a register.
Source(n) ==
  CASE n = "SOID" -> "id" [] n \in {"SIDV", "SVMJ", "SVMI"} -> "version" [] n = "SIDS" -> "idString"
    [] n = "SDFE" -> "family" [] n = "SIDM" -> "modem" [] n = "SOSN" -> "serial"
    [] n \in {"PLST", "PRP2"} -> "platform" [] n = "SOSI" -> "smem"
    [] n \in {"RMTB", "RMTX"} -> "MPSS_EFS" [] n \in {"RFMB", "RFMS", "RFAB", "RFAS"} -> "ADSP_EFS"
    [] n \in {"TCMA", "TCML"} -> "TGCM" [] OTHER -> "none"
QueryOf(n, i) ==
  IF n \in soc.fixed THEN "none" ELSE IF n = "SOSN" /\ i > 4 THEN "qfprom" ELSE Source(n)
Length(n) ==
  CASE n \in {"SVMJ", "SVMI", "SDFE", "SIDM"} -> 2
    [] n \in {"SOSN", "SOSI"} -> 8
    [] n = "SIDS" -> EFICHIPINFO_MAX_ID_LENGTH
    [] OTHER -> 4

\* The places of n: Current + 5 is inside the table.
Places(b, n) == {c \in 1..Len(b) - 2 : b[c] = NameOp /\ b[c + 1] = Named(n)}
Earliest(S)  == CHOOSE c \in S : \A e \in S : c <= e

\* Data byte k after a string prefix that is the first Nul.
AsciiStrSize(b, c) == Earliest({k \in 1..Len(b) - c - 2 : b[c + 2 + k] = Nul})
GetAslNameDataSize(b, c) ==
  CASE b[c + 2] = Prefix("String") -> AsciiStrSize(b, c)
    [] b[c + 2] = Prefix("Byte")   -> 1
    [] b[c + 2] = Prefix("Word")   -> 2
    [] b[c + 2] = Prefix("DWord")  -> 4
    [] b[c + 2] = Prefix("QWord")  -> 8
    [] OTHER                       -> 0    \* unsupported: nothing fits

(***************************************************************************)
(* A table as the compiler wrote it: the data of an object lie inside the  *)
(* table and are nothing but data, and SIDS alone is declared as a string. *)
(***************************************************************************)
Names    == UNION {{s.names[i] : i \in DOMAIN s.names} : s \in Packages}
Prefixes == {"Byte", "Word", "DWord", "QWord", "String", "Other"}
Cells    == {NameOp, Code, Old, Nul} \union {Named(n) : n \in Names}
            \union {Prefix(p) : p \in Prefixes}

WellFormed(b) ==
  /\ b \in Seq(Cells)
  /\ \A n \in Names : \A c \in Places(b, n) :
       LET size   == GetAslNameDataSize(b, c)
           string == b[c + 2] = Prefix("String")
       IN /\ string => n = "SIDS" /\ \E k \in 1..Len(b) - c - 2 : b[c + 2 + k] = Nul
          /\ \A k \in 1..size : /\ c + 2 + k <= Len(b)
                                /\ b[c + 2 + k] = IF string /\ k = size THEN Nul ELSE Old

ASSUME AcpiAssumption ==
  /\ EFICHIPINFO_MAX_ID_LENGTH \in Nat \ {0} /\ MaxFailures \in Nat
  /\ \A b \in Bodies : WellFormed(b)

\* The local a query is to fill in has a value before: only the structure of the
\* platform has none where the queries are not checked, and only the regions and
\* SIDS have one where they are.
HasDefault(q) == IF soc.checked THEN q \in RegionNames \union {"idString"} ELSE q # "platform"

\* What Buffer may hold for a name, each byte with where it is from.
Origin(n, i) ==
  LET q == QueryOf(n, i)
  IN  IF q # "none" /\ q \notin failed THEN "Answer"
      ELSE IF q = "none" \/ HasDefault(q) THEN "Default" ELSE "Nothing"
Values(n) ==
  \* GetChipIdString fills in k characters; SIDS is zeroed before.
  LET Id(k) == [i \in 1..Length(n) |-> IF i <= k THEN New(n, "Answer") ELSE Nul]
  IN  IF n # "SIDS" THEN {[i \in 1..Length(n) |-> New(n, Origin(n, i))]}
      ELSE {Id(k) : k \in IF "idString" \in failed THEN {0} ELSE 1..Length(n) - 1}

Init ==
  /\ pc = "dispatch" /\ soc \in Packages /\ built \in Bodies
  /\ services = {} /\ constructed = FALSE /\ waiting = FALSE /\ known = {}
  /\ tables = {} /\ handles = 0
  /\ table = <<>> /\ DsdtHandle = 0 /\ todo = soc.names
  /\ questions = soc.queries /\ failed = {}
  /\ reinstalled = "no" /\ lost = FALSE

-----------------------------------------------------------------------------
\* Outside the repository: the ACPI driver installs its protocols, in the order it
\* likes and perhaps not all, and then the tables of the firmware volume.
InstallProtocols ==
  /\ pc = "dispatch" /\ ~(waiting /\ "Sdt" \in services)
  /\ \E p \in {"Sdt", "Table"} \ services : services' = services \union {p}
  /\ UNCHANGED <<pc, soc, built, constructed, waiting, known, acpi, work, reinstalled, lost>>

Installed(b) == [id |-> handles + 1, sig |-> "DSDT", body |-> b]
InstallTables ==
  /\ pc = "dispatch" /\ services = {"Sdt", "Table"} /\ tables = {}
  /\ tables' = {Installed(built)} /\ handles' = handles + 1
  /\ UNCHANGED <<pc, soc, built, locating, work, reinstalled, lost>>

\* The constructor.  Creating or registering the event may fail; it returns success.
LocateAcpiProtocols ==
  /\ pc = "dispatch" /\ ~constructed
  /\ constructed' = TRUE
  /\ IF "Sdt" \in services
     THEN known' = services /\ UNCHANGED waiting
     ELSE waiting' \in BOOLEAN /\ UNCHANGED known
  /\ UNCHANGED <<pc, soc, built, services, acpi, work, reinstalled, lost>>

\* The notification, once; locating the handle or the interface may fail.
AcpiCallback ==
  /\ waiting /\ "Sdt" \in services
  /\ waiting' = FALSE /\ known' \in {known, known \union services}
  /\ UNCHANGED <<pc, soc, built, services, constructed, acpi, work, reinstalled, lost>>

-----------------------------------------------------------------------------
\* UpdateAcpiTables, from BDS, which a pending notification comes before.
Return == pc' = "done" /\ UNCHANGED <<soc, built, locating, acpi, reinstalled, lost>>

\* The table may not be copied; one that GetAcpiTable fails on is passed over, and
\* the loop over all indices has no end if that fails on each.
LocateTableBySignature ==
  /\ pc = "dispatch" /\ constructed /\ ~(waiting /\ "Sdt" \in services)
  /\ \/ ("Sdt" \notin known \/ tables = {}) /\ Return /\ UNCHANGED work
     \/ "Sdt" \in known /\ Return /\ UNCHANGED work
     \/ "Sdt" \in known /\ pc' = "hang"
        /\ UNCHANGED <<soc, built, locating, acpi, work, reinstalled, lost>>
     \/ /\ "Sdt" \in known
        /\ \E t \in tables : table' = t.body /\ DsdtHandle' = t.id
        /\ pc' = IF soc.queries # <<>> THEN "locate" ELSE "update"
        /\ UNCHANGED <<soc, built, locating, acpi, todo, questions, failed, reinstalled, lost>>

\* The protocols are located; a missing one ends the update, and the copy is not freed.
LocateQcomProtocols ==
  /\ pc = "locate"
  /\ \/ Return /\ UNCHANGED work
     \/ pc' = "ask" /\ UNCHANGED <<soc, built, locating, acpi, work, reinstalled, lost>>

\* The queries whose failure ends the update: GetChipInfos, GetPlatformInfos and
\* GetSmemInfos return it.  And without looking at what GetPlatformInfos returns.
EndsUnlessPlatform(q) == soc.checked /\ q \notin RegionNames \union {"platform"}
EndsUpdate(q)         == soc.checked /\ q \notin RegionNames

NextQuestion ==
  /\ questions' = Tail(questions) /\ pc' = IF questions' = <<>> THEN "update" ELSE "ask"
  /\ UNCHANGED <<soc, built, locating, acpi, table, DsdtHandle, todo, reinstalled, lost>>

Ask ==
  /\ pc = "ask"
  /\ \/ NextQuestion /\ UNCHANGED failed
     \/ /\ Cardinality(failed) < MaxFailures
        /\ IF EndsUpdate(Head(questions)) THEN Return /\ UNCHANGED work
           ELSE NextQuestion /\ failed' = failed \union {Head(questions)}

FitsLoosely(b, c, v) == Len(v) <= GetAslNameDataSize(b, c) + 1
FitsTightly(b, c, v) == Len(v) < GetAslNameDataSize(b, c)
Fits(b, c, v) == Len(v) <= GetAslNameDataSize(b, c)

\* Only the first place is looked at, and written if the value fits.
AslUpdateName(b, n, v) ==
  LET c == Earliest(Places(b, n))
  IN  IF Places(b, n) # {} /\ Fits(b, c, v)
      THEN [i \in 1..Len(b) |-> IF i - c - 2 \in 1..Len(v) THEN v[i - c - 2] ELSE b[i]]
      ELSE b

UpdateName ==
  /\ pc = "update" /\ todo # <<>>
  /\ \E v \in Values(Head(todo)) : table' = AslUpdateName(table, Head(todo), v)
  /\ todo' = Tail(todo)
  /\ UNCHANGED <<pc, soc, built, locating, acpi, DsdtHandle, questions, failed, reinstalled, lost>>

\* Without the uninstallation.
ReinstallTableBeside ==
  /\ pc = "update" /\ todo = <<>> /\ "Table" \in known
  /\ tables' = tables \union {Installed(table)}
  /\ DsdtHandle' = handles + 1 /\ handles' = handles + 1 /\ pc' = "done" /\ reinstalled' = "yes"
  /\ UNCHANGED <<soc, built, locating, table, todo, questions, failed, lost>>

\* Checksum, uninstall, install, and the copy is freed.  An uninstallation that
\* fails leaves the old table; an installation that fails after it leaves none
\* (and trips an assertion, a dead loop in a DEBUG build).
ReinstallTable ==
  LET others == {t \in tables : t.id # DsdtHandle}
  IN
  /\ pc = "update" /\ todo = <<>>
  /\ \/ "Table" \notin known /\ Return /\ UNCHANGED work
     \/ "Table" \in known /\ Return /\ table' = <<>> /\ UNCHANGED <<DsdtHandle, todo, questions, failed>>
     \/ /\ "Table" \in known
        /\ tables' = others \union {Installed(table)}
        /\ DsdtHandle' = handles + 1 /\ handles' = handles + 1
        /\ pc' = "done" /\ reinstalled' = "yes" /\ table' = <<>>
        /\ UNCHANGED <<soc, built, locating, todo, questions, failed, lost>>
     \/ /\ "Table" \in known
        /\ tables' = others /\ DsdtHandle' = 0
        /\ pc' \in {"done", "dead"} /\ table' = IF pc' = "dead" THEN table ELSE <<>>
        /\ reinstalled' = "failed" /\ lost' = TRUE
        /\ UNCHANGED <<soc, built, locating, handles, todo, questions, failed>>

Next ==
  \/ InstallProtocols \/ InstallTables
  \/ LocateAcpiProtocols \/ AcpiCallback
  \/ LocateTableBySignature \/ LocateQcomProtocols \/ Ask \/ UpdateName \/ ReinstallTable

Spec == Init /\ [][Next]_vars

-----------------------------------------------------------------------------
\* The operating system gets exactly one DSDT whatever fails (AslUpdateLib patches
\* a copy and keeps the old table until the copy is ready), unless the installation
\* fails when the old one is gone.
DsdtServed ==
  /\ \A t, u \in tables : t = u
  /\ tables = {} => handles = 0 \/ lost

\* Patching keeps the AML: a table differs from the built one only in data bytes of
\* the first Name object of a name of this SoC, written with that name's value and
\* never beyond the object, so that opcodes, names, code and the Nul that ends a
\* string stay (the size check and the scan of AslUpdateName).
Origins      == {"Answer", "Default", "Nothing"}
Object(n)    == Earliest(Places(built, n))
DataOf(n)    == {Object(n) + 2 + k : k \in 1..GetAslNameDataSize(built, Object(n))}
LayoutKept ==
  \A b \in {t.body : t \in tables} \union ({table} \ {<<>>}) :
    /\ Len(b) = Len(built)
    /\ \A i \in 1..Len(b) : b[i] # built[i] =>
         \E k \in DOMAIN soc.names :
           LET n == soc.names[k] IN
           /\ Places(built, n) # {} /\ i \in DataOf(n)
           /\ b[i] \in {New(n, o) : o \in Origins} \union {Nul}
           /\ built[i] = Nul => b[i] = Nul

\* Whichever query fails, and wherever in the order of the calls, no byte of the table
\* is what a local held by chance, but for the type of the platform where its query is
\* not checked; and where the queries are checked a default stands for a missing memory
\* region only, never for what the chip, the platform or the shared memory did not answer.
Proper(n, cell) ==
  /\ cell = New(n, "Nothing") => ~soc.checked /\ QueryOf(n, 1) = "platform"
  /\ soc.checked /\ cell = New(n, "Default") => QueryOf(n, 1) \in RegionNames \union {"none"}
OriginsRight ==
  \A t \in tables : \A i \in 1..Len(t.body) : \A k \in DOMAIN soc.names :
    Proper(soc.names[k], t.body[i])

\* When the update went through, the table installed carries the value of every
\* name of the SoC whose object has room for it, the last object included.
EveryNameTold ==
  reinstalled = "yes" =>
    \A t \in tables : \A k \in DOMAIN soc.names :
      LET n == soc.names[k] IN
      Places(built, n) # {} /\ Length(n) <= GetAslNameDataSize(built, Object(n)) =>
        \A j \in 1..Length(n) : t.body[Object(n) + 2 + j] # Old
=============================================================================
