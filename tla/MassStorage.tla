----------------------------- MODULE MassStorage -----------------------------
(***************************************************************************)
(* The Mass Storage application: it assigns the storages of the phone to   *)
(* logical units of the USB device, serves a host until Volume Up is       *)
(* pressed, and takes the units back.                                      *)
(***************************************************************************)
EXTENDS Naturals

CONSTANTS
  Storages,    \* number of StorageGuid
  MsdDevices   \* [units, storages]: units of the device, storages that exist

ASSUME MassStorageAssumption ==
  Storages \in Nat /\ MsdDevices \subseteq [units : Nat, storages : SUBSET (1..Storages)]

VARIABLES
  device,      \* the USB device and the storages
  msd,         \* where the application is
  assignable,  \* AssignableMsdLuns
  assigned,    \* AssignedMsdLuns
  msdIndex,    \* i
  luns,        \* the storage of each unit that is assigned
  kept         \* history: taking back a unit that was assigned failed

msdVars == <<device, msd, assignable, assigned, msdIndex, luns, kept>>

NoLuns == [u \in {} |-> 0]

MsdStarts ==
  /\ device \in MsdDevices /\ msd = "off" /\ assignable = 0 /\ assigned = 0 /\ msdIndex = 1
  /\ luns = NoLuns /\ kept = FALSE

\* MassStorageEntry without display or USB protocol returns an error.
MassStorageEntry ==
  /\ msd = "off" /\ msd' \in {"query", "error"}
  /\ UNCHANGED <<device, assignable, assigned, msdIndex, luns, kept>>

QueryMaxLun ==
  /\ msd = "query" /\ msd' = "assign" /\ assignable' \in {device.units, 2}
  /\ UNCHANGED <<device, assigned, msdIndex, luns, kept>>

\* The last unit stays free.
Full == assigned + 1 = assignable

\* A unit the device refused is not counted.
RefusedUnit(n) == n

StorageMissing ==
  /\ msd = "assign" /\ msdIndex \in 1..Storages \ device.storages /\ ~Full
  /\ msdIndex' = msdIndex + 1
  /\ UNCHANGED <<device, msd, assignable, assigned, luns, kept>>

\* The device accepts the units it has, and may refuse any.
AssignStorage ==
  /\ msd = "assign" /\ msdIndex \in device.storages /\ ~Full /\ msdIndex' = msdIndex + 1
  /\ \/ /\ assigned < device.units /\ assigned' = assigned + 1
        /\ luns' = [u \in DOMAIN luns \union {assigned} |->
                      IF u = assigned THEN msdIndex ELSE luns[u]]
     \/ assigned' = RefusedUnit(assigned) /\ UNCHANGED luns
  /\ UNCHANGED <<device, msd, assignable, kept>>

\* A storage without block protocol ends it with what is assigned so far.
AssignStorageFails ==
  /\ msd = "assign" /\ msdIndex \in device.storages /\ ~Full /\ msd' = "error"
  /\ UNCHANGED <<device, assignable, assigned, msdIndex, luns, kept>>

AssignEnds ==
  /\ msd = "assign" /\ (msdIndex > Storages \/ Full)
  /\ msd' = IF assigned = 0 THEN "error" ELSE "start"
  /\ UNCHANGED <<device, assignable, assigned, msdIndex, luns, kept>>

\* Done when the device does not start.
NotStarted == "served"

\* MassStorageStart returns nothing, so units are taken back either way.
GoesOn == "unassign"

MassStorageStart ==
  /\ msd = "start" /\ msdIndex' = 0
  /\ msd' \in {"serve", GoesOn}
  /\ UNCHANGED <<device, assignable, assigned, luns, kept>>

\* Volume Up ends the loop; a StopDevice that fails is only reported.
StopDevice ==
  /\ msd = "serve" /\ msd' = "unassign"
  /\ UNCHANGED <<device, assignable, assigned, msdIndex, luns, kept>>

\* Units are taken back from 0 until the device refuses one.
Unassign ==
  /\ msd = "unassign"
  /\ \/ /\ msdIndex < device.units /\ msdIndex' = msdIndex + 1
        /\ luns' = [u \in DOMAIN luns \ {msdIndex} |-> luns[u]] /\ UNCHANGED <<msd, kept>>
     \/ /\ msd' = "served" /\ kept' = (msdIndex \in DOMAIN luns)
        /\ UNCHANGED <<msdIndex, luns>>
  /\ UNCHANGED <<device, assignable, assigned>>

MsdSteps ==
  \/ MassStorageEntry \/ QueryMaxLun \/ StorageMissing \/ AssignStorage \/ AssignStorageFails
  \/ AssignEnds \/ MassStorageStart \/ StopDevice \/ Unassign

-----------------------------------------------------------------------------
\* After it has served, or could not start the device, no storage is left with
\* the USB device, unless the device refused to give one back.
LunsFreed == msd = "served" /\ ~kept => luns = NoLuns

\* A unit has a storage that exists, each storage one unit, and units are
\* assigned without holes, which the loop that takes them back relies on.
LunsDense ==
  msd \in {"assign", "start", "serve"} =>
    /\ DOMAIN luns = 0..assigned - 1 /\ assigned <= device.units
    /\ \A u \in DOMAIN luns : luns[u] \in device.storages
    /\ \A u, v \in DOMAIN luns : luns[u] = luns[v] => u = v
=============================================================================
