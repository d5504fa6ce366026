----------------------------- MODULE SmBiosTables -----------------------------
(***************************************************************************)
(* SmBiosTableDxe: it fills the SMBIOS tables in, with what the platform   *)
(* knows (SmBiosTableLib), registers one after the other and frees the     *)
(* texts it had made.  A table refers to others by the handles that their  *)
(* registration returned.                                                  *)
(*                                                                         *)
(* A table is its name, which stands for its handle too.  Of its fields    *)
(* the model has the handles, and the speed of the memory.                 *)
(***************************************************************************)
EXTENDS Naturals, Sequences

CONSTANTS
  SmBiosPhones   \* what the driver may find

TableOrder ==
  <<"Type0", "Type1", "Type2", "Type3", "L1I", "L1D", "L2", "L3",
    "Type4", "Type16", "Type17", "Type19">>
Tables == {TableOrder[i] : i \in DOMAIN TableOrder}
Caches == {"L1I", "L1D", "L2", "L3"}

SmBiosPhone ==
  [protocol : BOOLEAN,       \* there is an SMBIOS protocol
   caches   : SUBSET Caches, \* caches of a size other than zero
   lastFreq : BOOLEAN,       \* the last frequency of the memory is enabled
   refused  : SUBSET Tables] \* no memory for the record, or it cannot be added

ASSUME SmBiosAssumption == SmBiosPhones \subseteq SmBiosPhone

VARIABLES
  smbios,     \* the phone
  smb,        \* where the driver is
  texts,      \* strings made at run time: "Not Specified", or a pool buffer
  speed,      \* of the memory: 0 as compiled in, "read", or "Nothing"
  smbIndex,   \* the next table
  handles,    \* L1dHandle, L2Handle, L3Handle and MemoryArrayHandle
  records     \* what the SMBIOS protocol holds: the fields of each table

smbVars == <<smbios, smb, texts, speed, smbIndex, handles, records>>

\* Strings that are in the driver, and those that it allocates.
NotSpecified == [s \in {"Vendor", "Version", "BuildDate", "Family"} |-> "Not Specified"]
NoRecords    == [t \in {} |-> <<>>]

\* The locals of RegisterSmBiosTables as the stack has them.
HandlesUnset == [h \in {"L1D", "L2", "L3", "Type16"} |-> "Nothing"]

\* RegisterCacheTables first sets those of the caches to 0xFFFF.
HandlesSet == [HandlesUnset EXCEPT !["L1D"] = "0xFFFF", !["L2"] = "0xFFFF", !["L3"] = "0xFFFF"]

SmBiosStarts ==
  /\ smbios \in SmBiosPhones
  /\ smb = "entry" /\ texts = NotSpecified /\ speed = "0" /\ smbIndex = 1
  /\ handles = HandlesUnset /\ records = NoRecords

SmBiosResets ==
  /\ smb' = "entry" /\ texts' = NotSpecified /\ speed' = "0" /\ smbIndex' = 1
  /\ handles' = HandlesUnset /\ records' = NoRecords /\ UNCHANGED smbios

-----------------------------------------------------------------------------
SmBiosTableDriverEntry ==
  /\ smb = "entry" /\ smb' = IF smbios.protocol THEN "update" ELSE "loaded"
  /\ UNCHANGED <<smbios, texts, speed, smbIndex, handles, records>>

\* ConvertFirmwareString makes the strings of TYPE0, unless memory lacks.
UpdateSmBiosTables ==
  /\ smb = "update" /\ smb' = "platform"
  /\ texts' \in [DOMAIN NotSpecified -> {"Not Specified", "pool"}] /\ texts'["Family"] = "Not Specified"
  /\ UNCHANGED <<smbios, speed, smbIndex, handles, records>>

\* The string of the chip is kept when it was read.  GetDdrSpeeds may fail; it
\* takes the last frequency for the highest, and sets none that is not enabled.
PlatformUpdateSmBiosTables ==
  /\ smb = "platform" /\ smb' = "register"
  /\ \/ texts' = [texts EXCEPT !["Family"] = "pool"]
     \/ UNCHANGED texts
  /\ speed' \in {speed, IF smbios.lastFreq THEN "read" ELSE "Nothing"}
  /\ UNCHANGED <<smbios, smbIndex, handles, records>>

Table == TableOrder[smbIndex]

\* The fields of the table that are set from the locals when its turn comes.
Fields(t) ==
  CASE t = "Type4"  -> [f \in {"L1D", "L2", "L3"} |-> handles[f]]
    [] t = "Type17" -> [f \in {"Type16", "speed"} |-> IF f = "speed" THEN speed ELSE handles[f]]
    [] t = "Type19" -> [f \in {"Type16"} |-> handles[f]]
    [] OTHER        -> [f \in {} |-> ""]

\* A cache without a size has no table.
Skipped(t) == t \in Caches \ smbios.caches

\* The handle is returned although the record was not added.
PassedAlways(t) == TRUE

\* It is returned with a record that was added, to a caller that wants it.
Passed(t) == t \notin smbios.refused

RegisterTable ==
  /\ smb = "register" /\ smbIndex \in DOMAIN TableOrder /\ smbIndex' = smbIndex + 1
  /\ LET set == IF Table = "L1I" THEN HandlesSet ELSE handles IN
     IF Skipped(Table) THEN handles' = set /\ UNCHANGED records
     ELSE /\ handles' = [h \in DOMAIN handles |-> IF h = Table /\ Passed(Table) THEN h ELSE set[h]]
          /\ records' = IF Table \in smbios.refused THEN records
                        ELSE [t \in DOMAIN records \union {Table} |->
                                IF t = Table THEN Fields(t) ELSE records[t]]
  /\ UNCHANGED <<smbios, smb, texts, speed>>

RegisterEnds ==
  /\ smb = "register" /\ smbIndex \notin DOMAIN TableOrder /\ smb' = "clean"
  /\ UNCHANGED <<smbios, texts, speed, smbIndex, handles, records>>

\* Whatever the string is.
FreedAlways(s) == TRUE

\* A string that is not that of the driver.
Freed(s) == texts[s] # "Not Specified"

SmBiosCleanUp ==
  /\ smb = "clean"
  /\ smb' = IF \E s \in DOMAIN texts : Freed(s) /\ texts[s] # "pool" THEN "fault" ELSE "loaded"
  /\ texts' = [s \in DOMAIN texts |-> IF Freed(s) THEN "freed" ELSE texts[s]]
  /\ UNCHANGED <<smbios, speed, smbIndex, handles, records>>

SmBiosSteps ==
  \/ SmBiosTableDriverEntry \/ UpdateSmBiosTables \/ PlatformUpdateSmBiosTables
  \/ RegisterTable \/ RegisterEnds \/ SmBiosCleanUp

-----------------------------------------------------------------------------
\* A table that was registered refers to tables that were registered, of the
\* kind it should refer to, or says that there are none, whichever the phone
\* lacks and whichever are refused; what the stack held is only told where the
\* memory array itself was refused, or of the speed of a memory whose last
\* frequency is not enabled.
TablesRefer ==
  \A t \in DOMAIN records : \A f \in DOMAIN records[t] :
    LET v == records[t][f] IN
    CASE f = "speed"  -> v # "Nothing" \/ ~smbios.lastFreq
      [] f = "Type16" -> v = f \/ f \notin DOMAIN records
      [] OTHER        -> v = IF f \in DOMAIN records THEN f ELSE "0xFFFF"

\* When the driver is done, every string it allocated is freed, and none else.
TextsReturned == smb # "fault" /\ (smb = "loaded" => \A s \in DOMAIN texts : texts[s] # "pool")
=============================================================================
