----------------------------- MODULE BootFlowProofs -----------------------------
(***************************************************************************)
(* What holds in every boot of every phone, for any number of file         *)
(* systems, loaders, regions and storages, with any number of resets.      *)
(*                                                                         *)
(* The libraries that a boot composes share no variable, so that each has  *)
(* an invariant of its own, and a step of the boot is one of its own steps *)
(* or leaves it alone.                                                     *)
(***************************************************************************)
EXTENDS BootFlow, TLAPS

-----------------------------------------------------------------------------
(* The display snapshot.                                                   *)

DpuInv ==
  /\ machine \in Phone /\ window \in {"none", "io", "mapped"}
  /\ dpu \in {"guard", "arm"} \/ dpuEvent = "open" => window = "mapped" \/ darkened
  /\ dpu = "read" => (window = "mapped" /\ mdss = "live") \/ darkened
  /\ dpu = "fault" => darkened

DpuResets == dpu' = "entry" /\ dpuEvent' = "none" /\ window' = machine.window

\* A step of the boot is a step of the driver, or leaves it alone.
LEMMA DpuStep ==
  ASSUME [BootNext]_bootVars
  PROVE  DpuSteps \/ GoesDark \/ OnReadyToBoot \/ DpuResets \/ UNCHANGED dpuVars
BY DEF BootNext, bootVars, Callback, NewFileSystem, DisplayGoesDark, SmBiosRuns, DpuRuns,
       BdsEntry,
       BeforeConsole, PriorityBoot, SignalReadyToBoot, NotifyErrata, NotifyDisplay, StartImage,
       LoaderRuns, LoaderReturns, MassStorageRuns, UnableToBoot, Reset, DpuResets

LEMMA SamePhone ==
  ASSUME [BootNext]_bootVars
  PROVE  machine' = machine
BY DEF BootNext, bootVars, flow, Callback, NewFileSystem, DisplayGoesDark, SmBiosRuns, DpuRuns,
       BdsEntry,
       BeforeConsole, PriorityBoot, SignalReadyToBoot, NotifyErrata, NotifyDisplay, StartImage,
       LoaderRuns, LoaderReturns, MassStorageRuns, UnableToBoot, Reset

LEMMA DpuHolds == ASSUME DpuInv, [BootNext]_bootVars PROVE DpuInv'
<1>0. machine' = machine
  BY SamePhone
<1>1. CASE MapMdssWindow
  BY <1>0, <1>1 DEF DpuInv, MapMdssWindow, GiveUp
<1>2. CASE Guard
  BY <1>0, <1>2 DEF DpuInv, Guard, AfterPass
<1>3. CASE DumpRegion
  BY <1>0, <1>3 DEF DpuInv, DumpRegion
<1>4. CASE DumpEnds
  BY <1>0, <1>4 DEF DpuInv, DumpEnds, AfterPass
<1>5. CASE ArmReadyToBoot
  BY <1>0, <1>5 DEF DpuInv, ArmReadyToBoot
<1>6. CASE GoesDark
  BY <1>0, <1>6 DEF DpuInv, GoesDark
<1>7. CASE OnReadyToBoot
  BY <1>0, <1>7 DEF DpuInv, OnReadyToBoot
<1>8. CASE DpuResets
  BY <1>0, <1>8 DEF DpuInv, DpuResets, Phone
<1>9. CASE UNCHANGED dpuVars
  BY <1>0, <1>9 DEF DpuInv, dpuVars
<1> QED
  BY DpuStep, <1>1, <1>2, <1>3, <1>4, <1>5, <1>6, <1>7, <1>8, <1>9 DEF DpuSteps

\* On every phone, with any table of regions: a pass of DumpAllRegions faults only if
\* the block went dark after its guard had seen it live, or if another driver had
\* recorded the window as I/O without mapping it.
THEOREM SnapshotGuarded == BootSpec => []ReadsGuarded
<1>1. BootInit => DpuInv
  BY BootAssumption DEF Phone, BootInit, DpuStarts, DpuInv
<1>2. DpuInv /\ [BootNext]_bootVars => DpuInv'
  BY DpuHolds
<1>3. DpuInv => ReadsGuarded
  BY DEF DpuInv, ReadsGuarded
<1> QED
  BY <1>1, <1>2, <1>3, PTL DEF BootSpec

-----------------------------------------------------------------------------
(* The hook in ExitBootServices.                                           *)

Patching == {"unprotect", "patch", "shell code", "jump", "reprotect", "pass on"}

\* The hook is in the table only with the original saved and the event closed,
\* and it runs only when it is out of the table, with one call on its way.
TableInv ==
  /\ \/ ebs = "original" /\ mOriginal \in {"none", "original"}
     \/ ebs = "hook" /\ mOriginal = "original" /\ readyEvent = "closed"
  /\ hook \in Patching \union {"idle", "exited"}
  /\ hook # "idle" => bds \in {"loader", "os"}
  /\ calls \in Nat /\ reached \in Nat
  /\ hook \in {"idle", "exited"} => reached = calls
  /\ hook \in Patching => ebs = "original" /\ calls = reached + 1

\* Pages are read-only only with the protocol that can change them, and never
\* where the hook writes.
ImageInv ==
  /\ loader \in LoaderSet /\ (loader.readOnly => loader.attributes)
  /\ readOnly \in BOOLEAN /\ shellCode \in BOOLEAN /\ jump \in BOOLEAN
  /\ reprotected \in BOOLEAN
  /\ readOnly => loader.attributes
  /\ hook \in {"patch", "shell code", "jump"} => ~readOnly
  /\ hook = "jump" \/ jump => shellCode
  /\ hook \in {"idle", "exited", "pass on"} /\ reprotected /\ loader.readOnly => readOnly

HookInv == machine \in Phone /\ TableInv /\ ImageInv

NoLoader == [winload |-> FALSE, readOnly |-> FALSE, attributes |-> FALSE]

HookResets ==
  /\ readyEvent' = machine.readyEvent /\ ebs' = "original" /\ mOriginal' = "none"
  /\ bds' = "dxe" /\ hook' = "idle" /\ loader' = NoLoader
  /\ readOnly' = FALSE /\ shellCode' = FALSE /\ jump' = FALSE
  /\ calls' = 0 /\ reached' = 0 /\ reprotected' = TRUE

\* A loader runs until its call has succeeded.
Loading == bds = "loader" /\ bds' = (IF hook' = "exited" THEN "os" ELSE "loader")

\* A step of the boot is a step of the hook with a loader running, a step that
\* hooks the table or starts a loader with none running, or leaves it alone and
\* in place.
LEMMA HookStep ==
  ASSUME machine \in Phone, [BootNext]_bootVars
  PROVE  \/ Loading /\ (CallOriginal \/ CallHook \/ HookSteps)
         \/ bds = "ready" /\ ReadyToBootHandler
         \/ bds' = "loader" /\ \E l \in Loaders : NextLoader(l)
         \/ HookResets
         \/ UNCHANGED hookVars /\ (hook # "idle" => bds \notin {"loader", "os"} \/ bds' = bds)
<1>1. CASE LoaderRuns
  BY <1>1 DEF LoaderRuns, Loading
<1>2. CASE NotifyErrata
  BY <1>2 DEF NotifyErrata
<1>3. CASE StartImage
  BY <1>3 DEF StartImage, Phone
<1>4. CASE Reset
  BY <1>4 DEF Reset, HookResets, NoLoader
<1>5. CASE UNCHANGED bootVars
  BY <1>5 DEF bootVars, flow
<1>6. CASE LoaderReturns
  BY <1>6 DEF LoaderReturns
<1>7. CASE Callback \/ NewFileSystem \/ DisplayGoesDark \/ SmBiosRuns \/ DpuRuns \/ NotifyDisplay
  BY <1>7 DEF flow, Callback, NewFileSystem, DisplayGoesDark, SmBiosRuns, DpuRuns, NotifyDisplay
<1>8. CASE BdsEntry \/ BeforeConsole \/ PriorityBoot \/ SignalReadyToBoot
  BY <1>8 DEF BdsEntry, BeforeConsole, PriorityBoot, SignalReadyToBoot
<1>9. CASE MassStorageRuns \/ UnableToBoot
  BY <1>9 DEF MassStorageRuns, UnableToBoot
<1> QED
  BY <1>1, <1>2, <1>3, <1>4, <1>5, <1>6, <1>7, <1>8, <1>9 DEF BootNext

LEMMA HookHolds == ASSUME HookInv, [BootNext]_bootVars PROVE HookInv'
<1>0. machine' = machine /\ machine \in Phone /\ TableInv /\ ImageInv
  BY SamePhone DEF HookInv
<1>1. CASE Loading /\ CallOriginal
  <2>1. TableInv'
    <3>1. hook = "idle" /\ ebs = "original" /\ hook' \in {"idle", "exited"}
      BY <1>1 DEF CallOriginal
    <3>2. calls' = calls + 1 /\ reached' = reached + 1 /\ calls = reached
      BY <1>0, <1>1 DEF TableInv, CallOriginal
    <3>3. bds' \in {"loader", "os"}
      BY <1>1 DEF Loading
    <3>4. UNCHANGED hookTable
      BY <1>1 DEF CallOriginal
    <3>5. calls' \in Nat /\ reached' \in Nat /\ reached' = calls'
      BY <1>0, <3>2 DEF TableInv
    <3> QED
      BY <1>0, <3>1, <3>3, <3>4, <3>5 DEF TableInv, Patching, hookTable
  <2>2. ImageInv'
    BY <1>0, <1>1
       DEF TableInv, ImageInv, Patching, LoaderSet, CallOriginal, hookTable, hookSeen, image
  <2> QED
    BY <1>0, <2>1, <2>2 DEF HookInv
<1>2. CASE Loading /\ CallHook
  <2>1. TableInv'
    <3>1. mOriginal = "original" /\ ebs' = "original" /\ mOriginal' = "original"
      BY <1>0, <1>2 DEF TableInv, CallHook
    <3>2. calls' = calls + 1 /\ reached' = reached /\ calls = reached
      BY <1>0, <1>2 DEF TableInv, CallHook
    <3>3. hook' \in {"unprotect", "pass on"}
      BY <1>2 DEF CallHook
    <3>4. bds' = "loader"
      BY <1>2, <3>3 DEF Loading
    <3>5. calls' \in Nat /\ reached' \in Nat /\ calls' = reached' + 1
      BY <1>0, <3>2 DEF TableInv
    <3> QED
      BY <3>1, <3>3, <3>4, <3>5 DEF TableInv, Patching
  <2>2. ImageInv'
    BY <1>0, <1>2 DEF TableInv, ImageInv, Patching, LoaderSet, CallHook, hookTable, hookSeen, image
  <2> QED
    BY <1>0, <2>1, <2>2 DEF HookInv
<1>3. CASE Loading /\ Unprotect
  <2>1. TableInv'
    BY <1>0, <1>3 DEF TableInv, ImageInv, Patching, Loading, Unprotect, hookTable, hookSeen, image
  <2>2. ImageInv'
    BY <1>0, <1>3 DEF TableInv, ImageInv, Patching, LoaderSet, Unprotect, hookTable, hookSeen, image
  <2> QED
    BY <1>0, <2>1, <2>2 DEF HookInv
<1>4. CASE Loading /\ ApplyErrataPatches
  <2>1. TableInv'
    BY <1>0, <1>4
       DEF TableInv, ImageInv, Patching, Loading, ApplyErrataPatches, Write, hookTable, hookSeen,
           image
  <2>2. ImageInv'
    BY <1>0, <1>4
       DEF TableInv, ImageInv, Patching, LoaderSet, ApplyErrataPatches, Write, hookTable, hookSeen,
           image
  <2> QED
    BY <1>0, <2>1, <2>2 DEF HookInv
<1>5. CASE Loading /\ CopyShellCode
  <2>1. TableInv'
    BY <1>0, <1>5
       DEF TableInv, ImageInv, Patching, Loading, CopyShellCode, Write, hookTable, hookSeen, image
  <2>2. ImageInv'
    <3>1. ~readOnly /\ hook' \in {"jump", "reprotect"}
      BY <1>0, <1>5 DEF ImageInv, CopyShellCode, Write
    <3>2. UNCHANGED <<loader, readOnly, jump, reprotected>>
      BY <1>5 DEF CopyShellCode, hookSeen
    <3>3. CASE shellCode' = (~readOnly)
      <4>1. readOnly = FALSE
        BY <1>0, <3>1 DEF ImageInv
      <4>2. shellCode' = TRUE
        BY <3>3, <4>1
      <4> QED
        BY <1>0, <3>1, <3>2, <4>2 DEF ImageInv
    <3>4. CASE hook' = "reprotect" /\ shellCode' = shellCode
      BY <1>0, <3>1, <3>2, <3>4 DEF ImageInv
    <3>5. (shellCode' = (~readOnly)) \/ (hook' = "reprotect" /\ shellCode' = shellCode)
      BY <1>5 DEF CopyShellCode
    <3> QED
      BY <3>3, <3>4, <3>5
  <2> QED
    BY <1>0, <2>1, <2>2 DEF HookInv
<1>6. CASE Loading /\ InjectJump
  <2>1. TableInv'
    BY <1>0, <1>6
       DEF TableInv, ImageInv, Patching, Loading, InjectJump, Write, hookTable, hookSeen, image
  <2>2. ImageInv'
    BY <1>0, <1>6
       DEF TableInv, ImageInv, Patching, LoaderSet, InjectJump, Write, hookTable, hookSeen, image
  <2> QED
    BY <1>0, <2>1, <2>2 DEF HookInv
<1>7. CASE Loading /\ Reprotect
  <2>1. TableInv'
    BY <1>0, <1>7
       DEF TableInv, ImageInv, Patching, Loading, Reprotect, ProtectAlways, hookTable, hookSeen,
           image
  <2>2. ImageInv'
    BY <1>0, <1>7
       DEF TableInv, ImageInv, Patching, LoaderSet, Reprotect, ProtectAlways, hookTable, hookSeen,
           image
  <2> QED
    BY <1>0, <2>1, <2>2 DEF HookInv
<1>8. CASE Loading /\ PassOn
  <2>1. TableInv'
    BY <1>0, <1>8 DEF TableInv, ImageInv, Patching, Loading, PassOn, hookTable, hookSeen, image
  <2>2. ImageInv'
    BY <1>0, <1>8 DEF TableInv, ImageInv, Patching, LoaderSet, PassOn, hookTable, hookSeen, image
  <2> QED
    BY <1>0, <2>1, <2>2 DEF HookInv
<1>9. CASE bds = "ready" /\ ReadyToBootHandler
  <2>1. TableInv'
    BY <1>0, <1>9 DEF TableInv, Patching, ReadyToBootHandler, ReadyEventClosed, hookSeen, image
  <2>2. ImageInv'
    BY <1>0, <1>9 DEF ImageInv, ReadyToBootHandler, hookSeen, image
  <2> QED
    BY <1>0, <2>1, <2>2 DEF HookInv
<1>10. CASE bds' = "loader" /\ \E l \in Loaders : NextLoader(l)
  <2>0. PICK l \in Loaders : NextLoader(l)
    BY <1>10
  <2>1. TableInv'
    BY <1>0, <2>0 DEF TableInv, Patching, NextLoader, hookTable, hookSeen
  <2>2. ImageInv'
    BY <1>0, <2>0, ErrataAssumption DEF ImageInv, LoaderSet, NextLoader, hookTable, hookSeen
  <2> QED
    BY <1>0, <2>1, <2>2 DEF HookInv
<1>11. CASE HookResets
  BY <1>0, <1>11 DEF HookInv, TableInv, ImageInv, HookResets, NoLoader, LoaderSet, Patching
<1>12. CASE UNCHANGED hookVars /\ (hook # "idle" => bds \notin {"loader", "os"} \/ bds' = bds)
  BY <1>0, <1>12 DEF HookInv, TableInv, ImageInv, hookVars, hookTable, hookSeen, image
<1> QED
  BY HookStep, <1>0, <1>1, <1>2, <1>3, <1>4, <1>5, <1>6, <1>7, <1>8, <1>9, <1>10, <1>11, <1>12
     DEF HookSteps

LEMMA HookStartsRight == BootInit => HookInv
<1> SUFFICES ASSUME BootInit PROVE HookInv
  OBVIOUS
<1>1. machine \in Phone
  BY BootAssumption DEF BootInit
<1>2. TableInv
  BY DEF BootInit, HookStarts, TableInv, Patching
<1>3. ImageInv
  BY DEF BootInit, HookStarts, ImageInv, LoaderSet
<1> QED
  BY <1>1, <1>2, <1>3 DEF HookInv

\* On every phone each call of ExitBootServices reaches the original service
\* once, however many options are tried and whatever the hook found to patch.
THEOREM LoadersUnaware == BootSpec => []HookTransparent
<1>1. HookInv => HookTransparent
  BY DEF HookInv, TableInv, HookTransparent, Patching
<1> QED
  BY HookStartsRight, HookHolds, <1>1, PTL DEF BootSpec

\* On every phone, whatever fails in the hook: where winload.efi was read-only and
\* protecting it did not fail, it is read-only again when control leaves the hook, and
\* its branch is changed only after the shell code was copied.
THEOREM WinloadStaysSealed == BootSpec => []WinloadSealed
<1>1. HookInv => WinloadSealed
  BY DEF HookInv, ImageInv, WinloadSealed
<1> QED
  BY HookStartsRight, HookHolds, <1>1, PTL DEF BootSpec

-----------------------------------------------------------------------------
(* Mass Storage.                                                           *)

\* Before it begins, and while it assigns, serves and takes back.
Unused    == luns = NoLuns /\ assigned = 0 /\ msdIndex = 1
Assigned  ==
  /\ DOMAIN luns = 0..assigned - 1 /\ assigned <= device.units
  /\ \A u \in DOMAIN luns : luns[u] \in device.storages
  /\ \A u, v \in DOMAIN luns : luns[u] = luns[v] => u = v
TakenBack == DOMAIN luns = msdIndex..assigned - 1

MsdInv ==
  /\ machine \in Phone /\ device = machine.device
  /\ device.units \in Nat /\ device.storages \subseteq 1..Storages
  /\ assigned \in Nat /\ msdIndex \in Nat
  /\ luns = [u \in DOMAIN luns |-> luns[u]]
  /\ msd \in {"off", "query"} => Unused
  /\ msd \in {"assign", "start", "serve"} => Assigned
  /\ msd = "assign" => \A u \in DOMAIN luns : luns[u] < msdIndex
  /\ msd = "serve" => msdIndex = 0
  /\ msd = "unassign" => TakenBack
  /\ msd = "served" /\ ~kept => luns = NoLuns

MsdResets == msd' = "off" /\ assigned' = 0 /\ msdIndex' = 1 /\ luns' = NoLuns /\ device' = device

LEMMA MsdStep ==
  ASSUME [BootNext]_bootVars
  PROVE  MsdSteps \/ MsdResets \/ UNCHANGED msdVars
BY DEF BootNext, bootVars, Callback, NewFileSystem, DisplayGoesDark, SmBiosRuns, DpuRuns,
       BdsEntry,
       BeforeConsole, PriorityBoot, SignalReadyToBoot, NotifyErrata, NotifyDisplay, StartImage,
       LoaderRuns, LoaderReturns, MassStorageRuns, UnableToBoot, Reset, MsdResets

LEMMA MsdHolds == ASSUME MsdInv, [BootNext]_bootVars PROVE MsdInv'
<1>0. machine' = machine
  BY SamePhone
<1>1. CASE MassStorageEntry
  BY <1>0, <1>1 DEF MsdInv, MassStorageEntry, Unused
<1>2. CASE QueryMaxLun
  BY <1>0, <1>2 DEF MsdInv, QueryMaxLun, Unused, Assigned, NoLuns
<1>3. CASE StorageMissing
  BY <1>0, <1>3 DEF MsdInv, StorageMissing, Assigned
<1>4. CASE AssignStorage
  <2>0. /\ Assigned /\ msd = "assign" /\ msd' = "assign" /\ device' = device
        /\ msdIndex' = msdIndex + 1 /\ msdIndex \in device.storages
        /\ assigned \in Nat /\ msdIndex \in Nat /\ device.units \in Nat
        /\ \A u \in DOMAIN luns : luns[u] < msdIndex
    BY <1>4 DEF MsdInv, AssignStorage
  <2>1. CASE assigned' = RefusedUnit(assigned) /\ UNCHANGED luns
    <3>1. assigned' = assigned /\ luns' = luns
      BY <2>1 DEF RefusedUnit
    <3>2. msdIndex' \in Nat /\ \A u \in DOMAIN luns : luns[u] < msdIndex'
      <4>1. \A u \in DOMAIN luns : luns[u] \in Nat
        BY <2>0 DEF Assigned, MsdInv
      <4> QED
        BY <2>0, <4>1
    <3> QED
      BY <1>0, <2>0, <3>1, <3>2 DEF MsdInv, Assigned
  <2>2. CASE /\ assigned < device.units /\ assigned' = assigned + 1
             /\ luns' = [u \in DOMAIN luns \union {assigned} |->
                           IF u = assigned THEN msdIndex ELSE luns[u]]
    <3>1. assigned' \in Nat /\ assigned' <= device.units /\ msdIndex' \in Nat
      BY <2>0, <2>2
    <3>2. DOMAIN luns' = 0..assigned
      BY <2>0, <2>2 DEF Assigned
    <3>3. 0..assigned = 0..assigned' - 1
      BY <2>0, <2>2
    <3>4. \A u \in DOMAIN luns : luns[u] \in Nat /\ u # assigned /\ luns'[u] = luns[u]
      BY <2>0, <2>2 DEF Assigned, MsdInv
    <3>5. luns'[assigned] = msdIndex /\ DOMAIN luns' = DOMAIN luns \union {assigned}
      BY <2>2
    <3>6. \A u \in DOMAIN luns' : luns'[u] \in device.storages
      BY <2>0, <3>4, <3>5 DEF Assigned
    <3>7. \A u, v \in DOMAIN luns' : luns'[u] = luns'[v] => u = v
      BY <2>0, <3>4, <3>5 DEF Assigned
    <3>8. \A u \in DOMAIN luns' : luns'[u] < msdIndex'
      BY <2>0, <3>4, <3>5
    <3>9. luns' = [u \in DOMAIN luns' |-> luns'[u]]
      BY <2>2
    <3>10. Assigned'
      BY <2>0, <3>1, <3>2, <3>3, <3>6, <3>7 DEF Assigned
    <3> QED
      BY <1>0, <2>0, <3>1, <3>8, <3>9, <3>10 DEF MsdInv
  <2> QED
    BY <1>4, <2>1, <2>2 DEF AssignStorage
<1>5. CASE AssignStorageFails
  BY <1>0, <1>5 DEF MsdInv, AssignStorageFails
<1>6. CASE AssignEnds
  BY <1>0, <1>6 DEF MsdInv, AssignEnds, Assigned
<1>7. CASE MassStorageStart
  BY <1>0, <1>7 DEF MsdInv, MassStorageStart, GoesOn, Assigned, TakenBack
<1>8. CASE StopDevice
  BY <1>0, <1>8 DEF MsdInv, StopDevice, Assigned, TakenBack
<1>9. CASE Unassign
  <2>0. /\ TakenBack /\ msd = "unassign" /\ device' = device /\ assigned' = assigned
        /\ assigned \in Nat /\ msdIndex \in Nat
    BY <1>9 DEF MsdInv, Unassign
  <2>1. CASE /\ msdIndex' = msdIndex + 1 /\ msd' = msd
             /\ luns' = [u \in DOMAIN luns \ {msdIndex} |-> luns[u]]
    <3>1. DOMAIN luns' = (msdIndex..assigned - 1) \ {msdIndex}
      BY <2>0, <2>1 DEF TakenBack
    <3>2. (msdIndex..assigned - 1) \ {msdIndex} = msdIndex + 1..assigned - 1
      BY <2>0
    <3>3. TakenBack' /\ msdIndex' \in Nat
      BY <2>0, <2>1, <3>1, <3>2 DEF TakenBack
    <3>4. luns' = [u \in DOMAIN luns' |-> luns'[u]]
      BY <2>1
    <3> QED
      BY <1>0, <2>0, <2>1, <3>3, <3>4 DEF MsdInv
  <2>2. CASE msd' = "served" /\ kept' = (msdIndex \in DOMAIN luns) /\ UNCHANGED <<msdIndex, luns>>
    <3>1. ASSUME ~kept' PROVE luns = NoLuns
      <4>1. msdIndex \notin msdIndex..assigned - 1
        BY <2>0, <2>2, <3>1 DEF TakenBack
      <4>2. DOMAIN luns = {}
        BY <2>0, <4>1 DEF TakenBack
      <4> QED
        BY <4>2 DEF MsdInv, NoLuns
    <3> QED
      BY <1>0, <2>0, <2>2, <3>1 DEF MsdInv
  <2> QED
    BY <1>9, <2>0, <2>1, <2>2 DEF Unassign
<1>10. CASE MsdResets
  BY <1>0, <1>10 DEF MsdInv, MsdResets, Unused, NoLuns
<1>11. CASE UNCHANGED msdVars
  BY <1>0, <1>11 DEF MsdInv, msdVars, Unused, Assigned, TakenBack
<1> QED
  BY MsdStep, <1>1, <1>2, <1>3, <1>4, <1>5, <1>6, <1>7, <1>8, <1>9, <1>10, <1>11 DEF MsdSteps

LEMMA MsdStartsRight == BootInit => MsdInv
BY BootAssumption, MassStorageAssumption
   DEF BootInit, MsdStarts, MsdInv, Phone, Unused, NoLuns

\* On every phone the units are assigned without holes, one storage each.
THEOREM UnitsDense == BootSpec => []LunsDense
<1>1. MsdInv => LunsDense
  BY DEF MsdInv, LunsDense, Assigned
<1> QED
  BY MsdStartsRight, MsdHolds, <1>1, PTL DEF BootSpec

\* On every phone, however many units and storages it has and whichever assignments the
\* device refused: an application that got as far as starting the device leaves no
\* storage with it, started or not, unless the device refused to give a unit back.
THEOREM UnitsTakenBack == BootSpec => []LunsFreed
<1>1. MsdInv => LunsFreed
  BY DEF MsdInv, LunsFreed
<1> QED
  BY MsdStartsRight, MsdHolds, <1>1, PTL DEF BootSpec

-----------------------------------------------------------------------------
(* The secure boot handler.                                                *)

\* What a file system with Windows should hold once it is processed.
Right(f) ==
  IF enabled THEN atBoot[f] \in {NoFile, <<>>, Custom} => policy[f] = Custom
  ELSE policy[f] = NoFile

\* The file as OpenSiPolicy hands it on.
Opened(f) == policy[f] = (IF atBoot[f] = NoFile THEN <<>> ELSE atBoot[f])

\* File systems the callback has come to.
Taken == {installed[i] : i \in 1..located}

\* The callback is with a file system; before that it has finished the last one.
Busy == sfs \notin {"idle", "locate", "again"}

NotifyInv ==
  /\ installed \in Seq(FileSystems) /\ located \in 0..Len(installed)
  /\ \A i \in 1..Len(installed) : \A j \in 1..Len(installed) :
       installed[i] = installed[j] => i = j
  /\ enabled \in BOOLEAN /\ registered \in BOOLEAN /\ signalled \in BOOLEAN
  /\ replace \in BOOLEAN
  /\ ~registered => located = 0 /\ sfs = "idle" /\ ~signalled
  /\ Served => located = Len(installed)
  /\ sfs \in {"idle", "locate", "again", "volume", "open", "read", "write", "delete"}
  /\ Busy => located # 0

FilesInv ==
  /\ policy = [f \in FileSystems |-> policy[f]]
  /\ \A f \in FileSystems : f \notin Taken \/ f \notin windows => policy[f] = atBoot[f]
  /\ \A i \in 1..located :
       installed[i] \in windows \ erred /\ (i = located => ~Busy) => Right(installed[i])

\* Where the callback is with the current file system.
StageInv ==
  /\ sfs \in {"open", "read", "write", "delete"} => Current \in windows
  /\ sfs \in {"volume", "open"} => policy[Current] = atBoot[Current]
  /\ sfs = "read" => enabled /\ Opened(Current) /\ filePos = 0
  /\ sfs = "write" => enabled /\ Opened(Current)
  /\ sfs = "delete" => ~enabled
  /\ sfs = "write" /\ Current \notin erred =>
       \/ replace /\ filePos = 0
       \/ replace = (policy[Current] # Custom) /\ filePos = Len(policy[Current])

SbInv == NotifyInv /\ FilesInv /\ StageInv

LEMMA SbStep ==
  ASSUME [BootNext]_bootVars
  PROVE  \/ CallbackSteps \/ (\E f \in FileSystems : InstallFileSystem(f)) \/ SetupSecureBoot
         \/ SecureBootResets \/ UNCHANGED sbVars
BY DEF BootNext, bootVars, Callback, NewFileSystem, DisplayGoesDark, SmBiosRuns, DpuRuns,
       BdsEntry,
       BeforeConsole, PriorityBoot, SignalReadyToBoot, NotifyErrata, NotifyDisplay, StartImage,
       LoaderRuns, LoaderReturns, MassStorageRuns, UnableToBoot, Reset

\* Written as a whole over nothing or over itself, the custom policy is there.
LEMMA WrittenWhole ==
  ASSUME NEW c \in {<<>>, Custom}
  PROVE  Written(c, 0, Len(Custom)) = Custom
<1>1. Custom \in Seq(Block)
  BY SecureBootAssumption
<1>2. Len(Custom) \in Nat /\ Custom = [i \in 1..Len(Custom) |-> Custom[i]]
  BY <1>1
<1>3. Len(c) \in Nat /\ Len(c) <= Len(Custom)
  BY <1>1, <1>2
<1>4. (IF 0 + Len(Custom) > Len(c) THEN 0 + Len(Custom) ELSE Len(c)) = Len(Custom)
  BY <1>2, <1>3
<1>5. \A i \in 1..Len(Custom) : i > 0 /\ i <= 0 + Len(Custom) /\ i - 0 = i
  BY <1>2
<1> QED
  BY <1>2, <1>4, <1>5 DEF Written

\* A step that leaves the callback with the same file systems and comes to the
\* end of the current one, or goes on with it: only its own file may change.
LEMMA OneFile ==
  ASSUME NotifyInv, FilesInv, Busy, Current \in windows,
         UNCHANGED <<installed, located, windows, enabled, atBoot>>,
         erred \subseteq erred',
         policy' = [f \in FileSystems |-> policy'[f]],
         \A f \in FileSystems : f # Current => policy'[f] = policy[f],
         ~Busy' /\ Current \notin erred' => Right(Current)'
  PROVE  FilesInv'
<1>1. located \in 1..Len(installed) /\ \A i \in 1..located : installed[i] \in FileSystems
  BY DEF NotifyInv
<1>2. Current \in Taken /\ Taken' = Taken
  BY <1>1 DEF Current, Taken
<1>3. \A f \in FileSystems : f \notin Taken \/ f \notin windows => policy'[f] = atBoot'[f]
  BY <1>2 DEF FilesInv
<1>4. ASSUME NEW i \in 1..located, installed[i] \in windows \ erred', i = located => ~Busy'
      PROVE  Right(installed[i])'
  <2>1. CASE i = located
    BY <1>4, <2>1 DEF Current
  <2>2. CASE i # located
    <3>1. installed[i] # Current /\ installed[i] \in FileSystems
      BY <1>1, <2>2 DEF NotifyInv, Current
    <3>2. Right(installed[i])
      BY <1>4, <2>2 DEF FilesInv
    <3> QED
      BY <3>1, <3>2 DEF Right
  <2> QED
    BY <2>1, <2>2
<1> QED
  BY <1>2, <1>3, <1>4 DEF FilesInv

LEMMA NotifyHolds ==
  ASSUME NotifyInv, [BootNext]_bootVars
  PROVE  NotifyInv'
<1>0. enabled' = enabled
  BY SbStep DEF CallbackSteps, FileSystemCallback, LocateHandleBuffer, LocateFails, LocateAgain,
    OpenVolume, OpenSiPolicy, ReadSiPolicy, WriteSiPolicy, KeepSiPolicy, DeleteSiPolicy, InstallFileSystem, SetupSecureBoot,
    SecureBootResets, Unchanged, files, sbVars
<1>1. ASSUME NEW f \in FileSystems, InstallFileSystem(f) PROVE NotifyInv'
  <2>1. installed' = Append(installed, f) /\ located \in 0..Len(installed)
    BY <1>1 DEF InstallFileSystem, NotifyInv
  <2>2. Len(installed') = Len(installed) + 1 /\ installed' \in Seq(FileSystems)
    BY <2>1 DEF NotifyInv
  <2>3. \A i \in 1..Len(installed) : installed'[i] = installed[i] /\ installed[i] # f
    BY <1>1, <2>1 DEF InstallFileSystem, NotifyInv
  <2>4. installed'[Len(installed) + 1] = f
    BY <2>1 DEF NotifyInv
  <2>5. \A i \in 1..Len(installed') : \A j \in 1..Len(installed') :
          installed'[i] = installed'[j] => i = j
    BY <2>2, <2>3, <2>4 DEF NotifyInv
  <2>6. located' = located /\ located' \in 0..Len(installed')
    BY <1>1, <2>1, <2>2 DEF InstallFileSystem, NotifyInv
  <2>7. signalled' = registered /\ registered' = registered /\ sfs' = sfs /\ replace' = replace
    BY <1>1 DEF InstallFileSystem
  <2> QED
    BY <1>0, <2>2, <2>5, <2>6, <2>7 DEF NotifyInv, Served, Busy
<1>2. CASE SetupSecureBoot
  BY <1>0, <1>2 DEF NotifyInv, SetupSecureBoot, Served, Busy
<1>3. CASE FileSystemCallback
  BY <1>0, <1>3 DEF NotifyInv, FileSystemCallback, Served, Busy
<1>4. CASE LocateHandleBuffer
  <2>0. /\ sfs = "locate" /\ registered /\ registered' = registered /\ signalled' = signalled
        /\ installed' = installed /\ replace' = FALSE
        /\ located \in 0..Len(installed) /\ Len(installed) \in Nat
    BY <1>4 DEF LocateHandleBuffer, NotifyInv
  <2>1. CASE located + 1 <= Len(installed) /\ sfs' = "volume" /\ located' = located + 1
    <3>1. located' \in 0..Len(installed') /\ located' # 0 /\ ~Served'
      BY <2>0, <2>1 DEF Served
    <3> QED
      BY <1>0, <2>0, <2>1, <3>1 DEF NotifyInv
  <2>2. CASE ~(located + 1 <= Len(installed)) /\ sfs' = "idle" /\ located' = located
    <3>1. located' = Len(installed') /\ ~Busy'
      BY <2>0, <2>2 DEF Busy
    <3> QED
      BY <1>0, <2>0, <2>2, <3>1 DEF NotifyInv
  <2> QED
    BY <1>4, <2>1, <2>2 DEF LocateHandleBuffer, NextHandle
<1>5. ASSUME Busy, Unchanged \/ UNCHANGED <<installed, registered, signalled, located>>,
             sfs' \in {"locate", "open", "read", "write", "delete"}, replace' \in BOOLEAN
      PROVE  NotifyInv'
  BY <1>0, <1>5 DEF NotifyInv, Unchanged, Served, Busy
<1>6. CASE OpenVolume
  BY <1>5, <1>6 DEF OpenVolume, Fails, OnError, NotifyInv, Busy
<1>7. CASE OpenSiPolicy
  BY <1>5, <1>7 DEF OpenSiPolicy, Fails, OnError, NotifyInv, Busy
<1>8. CASE ReadSiPolicy
  BY <1>5, <1>8 DEF ReadSiPolicy, Fails, OnError, NotifyInv, Busy
<1>9. CASE WriteSiPolicy
  BY <1>5, <1>9 DEF WriteSiPolicy, Fails, OnError, NotifyInv, Busy
<1>10. CASE KeepSiPolicy
  BY <1>5, <1>10 DEF KeepSiPolicy, NotifyInv, Busy
<1>11. CASE DeleteSiPolicy
  BY <1>5, <1>11 DEF DeleteSiPolicy, Fails, OnError, NotifyInv, Busy
<1>12. CASE SecureBootResets
  <2>1. installed' = <<>> /\ located' = 0 /\ ~registered' /\ ~signalled' /\ ~replace'
        /\ sfs' = "idle"
    BY <1>12 DEF SecureBootResets
  <2>2. installed' \in Seq(FileSystems) /\ Len(installed') = 0 /\ 1..Len(installed') = {}
    BY <2>1
  <2>3. located' \in 0..Len(installed') /\ ~Busy' /\ ~Served'
    BY <2>1, <2>2 DEF Busy, Served
  <2>4. registered' \in BOOLEAN /\ signalled' \in BOOLEAN /\ replace' \in BOOLEAN
    BY <1>12 DEF SecureBootResets
  <2>5. enabled' \in BOOLEAN
    BY <1>0 DEF NotifyInv
  <2> QED
    BY <2>1, <2>2, <2>3, <2>4, <2>5 DEF NotifyInv
<1>13. CASE UNCHANGED sbVars
  BY <1>13 DEF NotifyInv, sbVars, sbState, files, Served, Busy
<1>14. CASE LocateFails \/ LocateAgain
  BY <1>0, <1>14 DEF NotifyInv, LocateFails, LocateAgain, Served, Busy
<1> QED
  BY SbStep, <1>1, <1>2, <1>3, <1>4, <1>6, <1>7, <1>8, <1>9, <1>10, <1>11, <1>12, <1>13, <1>14
     DEF CallbackSteps

\* The handle the callback has come to is that of a file system.
LEMMA CurrentOne ==
  ASSUME NotifyInv, Busy
  PROVE  /\ located \in 1..Len(installed) /\ Current \in FileSystems /\ Current \in Taken
         /\ Current = installed[located]
         /\ \A i \in 1..located : installed[i] \in FileSystems
BY DEF NotifyInv, Current, Taken

\* Steps of the callback between two file systems, and of the drivers and the
\* selection, change no file.
LEMMA OtherSteps ==
  ASSUME SbInv, NotifyInv'
  PROVE  /\ (\E f \in FileSystems : InstallFileSystem(f)) => FilesInv' /\ StageInv'
         /\ SetupSecureBoot => FilesInv' /\ StageInv'
         /\ FileSystemCallback \/ LocateFails \/ LocateAgain => FilesInv' /\ StageInv'
         /\ UNCHANGED sbVars => FilesInv' /\ StageInv'
<1>1. ASSUME NEW f \in FileSystems, InstallFileSystem(f) PROVE FilesInv' /\ StageInv'
  <2>1. /\ UNCHANGED <<enabled, windows, policy, atBoot, located, sfs, erred>>
        /\ sfs = "idle" /\ installed' = Append(installed, f)
        /\ located \in 0..Len(installed) /\ installed \in Seq(FileSystems)
    BY <1>1 DEF InstallFileSystem, files, SbInv, NotifyInv
  <2>2. \A i \in 1..located : installed'[i] = installed[i]
    BY <2>1
  <2>3. Taken' = Taken
    BY <2>1, <2>2 DEF Taken
  <2>4. \A g \in FileSystems : Right(g)' <=> Right(g)
    BY <2>1 DEF Right
  <2>5. \A i \in 1..located : installed[i] \in FileSystems
    BY <2>1
  <2>6. FilesInv'
    BY <2>1, <2>2, <2>3, <2>4, <2>5 DEF SbInv, FilesInv, Busy
  <2> QED
    BY <2>1, <2>6 DEF StageInv
<1>2. ASSUME SetupSecureBoot PROVE FilesInv' /\ StageInv'
  BY <1>2 DEF SetupSecureBoot, files, SbInv, NotifyInv, FilesInv, StageInv, Busy, Taken, Right
<1>3. ASSUME FileSystemCallback \/ LocateFails \/ LocateAgain PROVE FilesInv' /\ StageInv'
  BY <1>3 DEF FileSystemCallback, LocateFails, LocateAgain, files, SbInv, FilesInv, StageInv, Busy, Taken, Right
<1>4. ASSUME UNCHANGED sbVars PROVE FilesInv' /\ StageInv'
  BY <1>4 DEF sbVars, sbState, files, SbInv, FilesInv, StageInv, Busy, Taken, Right, Opened,
              Current
<1> QED
  BY <1>1, <1>2, <1>3, <1>4

\* The next handle is one the callback has not had: its file is still the one
\* of the start of the boot.
LEMMA LocateStep ==
  ASSUME SbInv, LocateHandleBuffer, NotifyInv'
  PROVE  FilesInv' /\ StageInv'
<1>0. /\ UNCHANGED <<enabled, windows, policy, atBoot, installed, erred>> /\ sfs = "locate"
      /\ located \in 0..Len(installed) /\ Len(installed) \in Nat
      /\ \A i \in 1..located : installed[i] \in windows \ erred => Right(installed[i])
      /\ \A f \in FileSystems : f \notin Taken \/ f \notin windows => policy[f] = atBoot[f]
  BY DEF LocateHandleBuffer, files, SbInv, NotifyInv, FilesInv, Busy
<1>1. \A f \in FileSystems : Right(f)' <=> Right(f)
  BY <1>0 DEF Right
<1>2. \A i \in 1..located : installed[i] \in FileSystems
  BY <1>0 DEF SbInv, NotifyInv
<1>3. policy' = [f \in FileSystems |-> policy'[f]]
  BY <1>0 DEF SbInv, FilesInv
<1>4. CASE located + 1 <= Len(installed) /\ sfs' = "volume" /\ located' = located + 1
  <2>1. Taken' = Taken \union {installed[located + 1]}
    BY <1>0, <1>4 DEF Taken
  <2>2. \A i \in 1..located' : i # located' => i \in 1..located
    BY <1>0, <1>4
  <2>3. installed[located + 1] \in FileSystems /\ installed[located + 1] \notin Taken
    BY <1>0, <1>4 DEF SbInv, NotifyInv, Taken
  <2>4. Current' = installed[located + 1]
    BY <1>0, <1>4 DEF Current
  <2>5. FilesInv'
    BY <1>0, <1>1, <1>2, <1>3, <1>4, <2>1, <2>2 DEF FilesInv, Busy
  <2>6. policy'[Current'] = atBoot'[Current']
    BY <1>0, <2>3, <2>4
  <2> QED
    BY <1>4, <2>5, <2>6 DEF StageInv
<1>5. CASE ~(located + 1 <= Len(installed)) /\ sfs' = "idle" /\ located' = located
  <2>1. Taken' = Taken
    BY <1>0, <1>5 DEF Taken
  <2> QED
    BY <1>0, <1>1, <1>2, <1>3, <1>5, <2>1 DEF FilesInv, StageInv, Busy
<1> QED
  BY <1>4, <1>5 DEF LocateHandleBuffer, NextHandle

\* The file systems without Windows are passed over, and no file changes yet.
LEMMA VolumeStep ==
  ASSUME SbInv, OpenVolume
  PROVE  FilesInv' /\ StageInv'
<1>0. /\ UNCHANGED <<enabled, windows, policy, atBoot, installed, located>>
      /\ sfs = "volume" /\ Busy /\ NotifyInv /\ policy[Current] = atBoot[Current]
  BY DEF OpenVolume, Unchanged, files, SbInv, StageInv, Busy
<1>1. Current' = Current /\ Taken' = Taken /\ \A f \in FileSystems : Right(f)' <=> Right(f)
  BY <1>0 DEF Current, Taken, Right
<1>2. \A i \in 1..located : installed[i] \in FileSystems
  BY <1>0, CurrentOne
<1>3. CASE sfs' = "locate" /\ erred' = erred \union {Current}
  BY <1>0, <1>1, <1>2, <1>3 DEF SbInv, FilesInv, StageInv, Busy, Current
<1>4. CASE Current \in windows /\ sfs' = "open" /\ erred' = erred
  BY <1>0, <1>1, <1>2, <1>4 DEF SbInv, FilesInv, StageInv, Busy
<1>5. CASE Current \notin windows /\ sfs' = "locate" /\ erred' = erred
  BY <1>0, <1>1, <1>2, <1>5 DEF SbInv, FilesInv, StageInv, Busy, Current
<1> QED
  BY <1>3, <1>4, <1>5 DEF OpenVolume, Fails, OnError

\* The steps with SiPolicy.p7b of the current file system touch no other file,
\* and when the callback is done with it, without an error, it is right.
LEMMA FileStep ==
  ASSUME SbInv,
         OpenSiPolicy \/ ReadSiPolicy \/ WriteSiPolicy \/ KeepSiPolicy \/ DeleteSiPolicy
  PROVE  FilesInv' /\ StageInv'
<1>0. /\ UNCHANGED <<enabled, windows, atBoot, installed, located>>
      /\ sfs \in {"open", "read", "write", "delete"} /\ enabled \in BOOLEAN
  BY DEF OpenSiPolicy, ReadSiPolicy, WriteSiPolicy, KeepSiPolicy, DeleteSiPolicy, Unchanged,
         files, SbInv, NotifyInv
<1>1. /\ Busy /\ NotifyInv /\ FilesInv /\ Current \in windows /\ Current' = Current
      /\ policy = [f \in FileSystems |-> policy[f]]
  BY <1>0 DEF SbInv, FilesInv, StageInv, Busy, Current
<1>2. Current \in FileSystems
  BY <1>1, CurrentOne
<1>3. Custom # NoFile /\ Custom # <<>> /\ <<>> # NoFile /\ Len(<<>>) = 0
  <2>1. <<>> \in Seq(Block)
    OBVIOUS
  <2> QED
    BY <2>1, SecureBootAssumption
<1>4. Right(Current)' <=> IF enabled THEN atBoot[Current] \in {NoFile, <<>>, Custom}
                                            => policy'[Current] = Custom
                          ELSE policy'[Current] = NoFile
  BY <1>0, <1>1 DEF Right
<1>5. ASSUME erred' = erred \union {Current}, sfs' = "locate",
             policy' = [f \in FileSystems |-> policy'[f]],
             \A f \in FileSystems : f # Current => policy'[f] = policy[f]
      PROVE  FilesInv' /\ StageInv'
  BY <1>0, <1>1, <1>5, OneFile DEF StageInv
<1>6. ASSUME erred' = erred, sfs' = "locate", Right(Current)',
             policy' = [f \in FileSystems |-> policy'[f]],
             \A f \in FileSystems : f # Current => policy'[f] = policy[f]
      PROVE  FilesInv' /\ StageInv'
  BY <1>0, <1>1, <1>6, OneFile DEF StageInv
<1>7. ASSUME erred \subseteq erred', Busy', StageInv',
             policy' = [f \in FileSystems |-> policy'[f]],
             \A f \in FileSystems : f # Current => policy'[f] = policy[f]
      PROVE  FilesInv' /\ StageInv'
  BY <1>0, <1>1, <1>7, OneFile
<1>8. ASSUME policy' = policy
      PROVE  /\ policy' = [f \in FileSystems |-> policy'[f]]
             /\ \A f \in FileSystems : f # Current => policy'[f] = policy[f]
  BY <1>1, <1>8
<1>9. ASSUME NEW c, policy' = [policy EXCEPT ![Current] = c]
      PROVE  /\ policy' = [f \in FileSystems |-> policy'[f]] /\ policy'[Current] = c
             /\ \A f \in FileSystems : f # Current => policy'[f] = policy[f]
  <2>1. policy' = [f \in FileSystems |-> IF f = Current THEN c ELSE policy[f]]
    BY <1>1, <1>9
  <2> QED
    BY <1>2, <2>1
<1>10. CASE OpenSiPolicy
  <2>0. sfs = "open" /\ policy[Current] = atBoot[Current]
    BY <1>10 DEF OpenSiPolicy, SbInv, StageInv
  <2>1. CASE Fails /\ UNCHANGED policy
    BY <1>5, <1>8, <2>1 DEF Fails, OnError
  <2>2. CASE /\ policy[Current] # NoFile \/ enabled
             /\ sfs' = IF enabled THEN "read" ELSE "delete"
             /\ filePos' = 0 /\ UNCHANGED <<replace, erred>>
             /\ policy' = IF policy[Current] = NoFile THEN [policy EXCEPT ![Current] = <<>>]
                          ELSE policy
    <3>1. /\ policy' = [f \in FileSystems |-> policy'[f]]
          /\ \A f \in FileSystems : f # Current => policy'[f] = policy[f]
          /\ policy'[Current] = IF policy[Current] = NoFile THEN <<>> ELSE policy[Current]
      <4>1. CASE policy[Current] = NoFile
        BY <1>9, <2>2, <4>1
      <4>2. CASE policy[Current] # NoFile
        BY <1>8, <2>2, <4>2
      <4> QED
        BY <4>1, <4>2
    <3>2. Opened(Current)'
      BY <1>0, <1>1, <2>0, <3>1 DEF Opened
    <3>3. Busy' /\ StageInv'
      BY <1>0, <1>1, <2>2, <3>2 DEF StageInv, Busy
    <3> QED
      BY <1>7, <2>2, <3>1, <3>3
  <2>3. CASE /\ policy[Current] = NoFile /\ ~enabled /\ sfs' = "locate"
             /\ UNCHANGED <<policy, filePos, replace, erred>>
    <3>1. Right(Current)'
      BY <1>4, <2>3
    <3> QED
      BY <1>6, <1>8, <2>3, <3>1
  <2> QED
    BY <1>10, <2>1, <2>2, <2>3 DEF OpenSiPolicy
<1>11. CASE ReadSiPolicy
  <2>0. /\ enabled /\ Opened(Current) /\ filePos = 0 /\ policy' = policy
        /\ Opened(Current)'
    BY <1>0, <1>1, <1>11 DEF ReadSiPolicy, Unchanged, files, SbInv, StageInv, Opened
  <2>1. CASE Fails
    BY <1>5, <1>8, <2>0, <2>1 DEF Fails, OnError
  <2>2. CASE sfs' = "write" /\ replace' = TRUE /\ UNCHANGED <<filePos, erred>>
    <3>1. Busy' /\ StageInv'
      BY <1>0, <1>1, <2>0, <2>2 DEF StageInv, Busy
    <3> QED
      BY <1>7, <1>8, <2>0, <2>2, <3>1
  <2>3. CASE sfs' = "write" /\ erred' = erred \union {Current}
    <3>1. Busy' /\ StageInv'
      BY <1>0, <1>1, <2>0, <2>3 DEF StageInv, Busy
    <3> QED
      BY <1>7, <1>8, <2>0, <2>3, <3>1
  <2>4. CASE /\ sfs' = "write" /\ replace' = (policy[Current] # Custom)
             /\ filePos' = ReadUpTo(policy[Current]) /\ UNCHANGED erred
    <3>1. replace' = (policy'[Current'] # Custom) /\ filePos' = Len(policy'[Current'])
      BY <1>1, <2>0, <2>4 DEF ReadUpTo
    <3>2. Busy' /\ StageInv'
      BY <1>0, <1>1, <2>0, <2>4, <3>1 DEF StageInv, Busy
    <3> QED
      BY <1>7, <1>8, <2>0, <2>4, <3>2
  <2> QED
    BY <1>11, <2>1, <2>2, <2>3, <2>4 DEF ReadSiPolicy
<1>12. CASE WriteSiPolicy
  <2>0. /\ enabled /\ Opened(Current) /\ replace
        /\ Current \notin erred =>
             \/ filePos = 0
             \/ policy[Current] # Custom /\ filePos = Len(policy[Current])
    BY <1>12 DEF WriteSiPolicy, SbInv, StageInv
  <2>1. PICK n \in 0..Len(Custom) :
          /\ policy' = [policy EXCEPT ![Current] = Written(@, filePos, n)]
          /\ IF n = Len(Custom) THEN sfs' = "locate" /\ UNCHANGED <<filePos, replace, erred>>
             ELSE Fails
    BY <1>12 DEF WriteSiPolicy
  <2>2. policy' = [policy EXCEPT ![Current] = Written(policy[Current], filePos, n)]
    BY <1>1, <2>1
  <2>3. CASE n = Len(Custom)
    <3>1. CASE Current \notin erred
      <4>1. ASSUME atBoot[Current] \in {NoFile, <<>>, Custom}
            PROVE  policy'[Current] = Custom
        <5>1. policy[Current] \in {<<>>, Custom}
          BY <2>0, <4>1 DEF Opened
        <5>2. filePos = 0
          BY <1>3, <2>0, <3>1, <5>1
        <5>3. Written(policy[Current], filePos, n) = Custom
          BY <2>3, <5>1, <5>2, WrittenWhole
        <5> QED
          BY <1>9, <2>2, <5>3
      <4>2. Right(Current)'
        BY <1>4, <2>0, <4>1
      <4> QED
        BY <1>6, <1>9, <2>1, <2>2, <2>3, <4>2
    <3>2. CASE Current \in erred
      <4>1. erred' = erred \union {Current} /\ sfs' = "locate"
        BY <2>1, <2>3, <3>2
      <4> QED
        BY <1>5, <1>9, <2>2, <4>1
    <3> QED
      BY <3>1, <3>2
  <2>4. CASE n # Len(Custom)
    <3>1. erred' = erred \union {Current} /\ sfs' = "locate"
      BY <2>1, <2>4 DEF Fails, OnError
    <3> QED
      BY <1>5, <1>9, <2>2, <3>1
  <2> QED
    BY <2>3, <2>4
<1>13. CASE KeepSiPolicy
  <2>0. /\ enabled /\ ~replace /\ policy' = policy /\ sfs' = "locate" /\ erred' = erred
        /\ Current \notin erred => replace = (policy[Current] # Custom)
    BY <1>13 DEF KeepSiPolicy, Unchanged, files, SbInv, StageInv
  <2>1. CASE Current \notin erred
    <3>1. Right(Current)'
      BY <1>4, <2>0, <2>1
    <3> QED
      BY <1>6, <1>8, <2>0, <3>1
  <2>2. CASE Current \in erred
    <3>1. erred' = erred \union {Current}
      BY <2>0, <2>2
    <3> QED
      BY <1>5, <1>8, <2>0, <3>1
  <2> QED
    BY <2>1, <2>2
<1>14. CASE DeleteSiPolicy
  <2>0. ~enabled
    BY <1>14 DEF DeleteSiPolicy, SbInv, StageInv
  <2>1. CASE Fails /\ UNCHANGED policy
    BY <1>5, <1>8, <2>1 DEF Fails, OnError
  <2>2. CASE /\ policy' = [policy EXCEPT ![Current] = NoFile] /\ sfs' = "locate"
             /\ UNCHANGED <<filePos, replace, erred>>
    <3>1. Right(Current)'
      BY <1>4, <1>9, <2>0, <2>2
    <3> QED
      BY <1>6, <1>9, <2>2, <3>1
  <2> QED
    BY <1>14, <2>1, <2>2 DEF DeleteSiPolicy
<1> QED
  BY <1>10, <1>11, <1>12, <1>13, <1>14

\* Every step of the boot keeps the invariant; a reset starts with the files as
\* they are.
LEMMA SbHolds ==
  ASSUME SbInv, [BootNext]_bootVars
  PROVE  SbInv'
<1>1. NotifyInv'
  BY NotifyHolds DEF SbInv
<1>2. CASE CallbackSteps
  BY <1>1, <1>2, OtherSteps, LocateStep, VolumeStep, FileStep DEF CallbackSteps, SbInv
<1>3. CASE SecureBootResets
  <2>1. /\ policy' = policy /\ atBoot' = policy /\ located' = 0 /\ sfs' = "idle"
        /\ 1..0 = {}
    BY <1>3 DEF SecureBootResets
  <2> QED
    BY <1>1, <2>1 DEF SbInv, FilesInv, StageInv
<1> QED
  BY <1>1, <1>2, <1>3, SbStep, OtherSteps DEF SbInv

LEMMA SbStartsRight == BootInit => SbInv
<1> SUFFICES ASSUME BootInit PROVE SbInv
  OBVIOUS
<1>1. machine \in Phone /\ enabled \in BOOLEAN /\ policy \in [FileSystems -> Contents]
  BY BootAssumption DEF BootInit, Phone
<1>2. /\ installed = <<>> /\ located = 0 /\ sfs = "idle" /\ registered = FALSE
      /\ signalled = FALSE /\ replace = FALSE /\ atBoot = policy
  BY DEF BootInit, SecureBootStarts
<1>3. installed \in Seq(FileSystems) /\ Len(installed) = 0 /\ 1..Len(installed) = {}
  BY <1>2
<1>4. NotifyInv
  <2>1. ~registered /\ ~signalled /\ ~replace /\ ~Busy /\ ~Served
    BY <1>2 DEF Busy, Served
  <2>2. registered \in BOOLEAN /\ signalled \in BOOLEAN /\ replace \in BOOLEAN
    BY <1>2
  <2>3. located \in 0..Len(installed)
    BY <1>2, <1>3
  <2> QED
    BY <1>1, <1>2, <1>3, <2>1, <2>2, <2>3 DEF NotifyInv
<1>5. 1..0 = {} /\ policy = [f \in FileSystems |-> policy[f]]
  BY <1>1
<1> QED
  BY <1>2, <1>4, <1>5 DEF SbInv, FilesInv, StageInv

\* On every phone, with any file systems and any policy of the firmware: once the
\* callback has run, each Windows that it met without an error, and that had no policy,
\* an empty one or the one of the firmware when the boot began, has that of the firmware;
\* without secure boot none is left; and no other file system was touched.
THEOREM PolicyIsServed == BootSpec => []PolicyServed
<1>1. SbInv => PolicyServed
  <2> SUFFICES ASSUME SbInv PROVE PolicyServed
    OBVIOUS
  <2>1. \A f \in FileSystems \ windows : policy[f] = atBoot[f]
    BY DEF SbInv, FilesInv
  <2>2. ASSUME Served, NEW f \in Windows \ erred PROVE Right(f)
    <3>1. PICK i \in DOMAIN installed : installed[i] = f
      BY DEF Windows
    <3>2. i \in 1..located /\ ~Busy
      BY <2>2 DEF SbInv, NotifyInv, Served, Busy
    <3> QED
      BY <3>1, <3>2 DEF SbInv, FilesInv, Windows
  <2> QED
    BY <2>1, <2>2 DEF PolicyServed, Right
<1> QED
  BY SbStartsRight, SbHolds, <1>1, PTL DEF BootSpec

(***************************************************************************)
(* Termination.  What is left of a notification: the file systems that     *)
(* have not been located yet, the calls for the one at hand, and a signal. *)
(***************************************************************************)
CallsFor ==
  CASE sfs = "idle"   -> 0
    [] sfs \in {"locate", "again"} -> 1
    [] sfs = "read"   -> 3
    [] sfs = "open"   -> 4
    [] sfs = "volume" -> 5
    [] OTHER          -> 2

CallbackLeft ==
  5 * (Len(installed) - located) + CallsFor + (IF signalled THEN 2 ELSE 0)

\* A step of the callback goes ahead, or is one of its loop on the spot.
NotRaised ==
  IF LocateFails \/ LocateAgain THEN CallbackLeft' = CallbackLeft ELSE CallbackLeft' < CallbackLeft

LEMMA CallbackFalls ==
  ASSUME NotifyInv, NotifyInv', CallbackSteps
  PROVE  NotRaised
<1>1. /\ Len(installed) \in Nat /\ located \in Nat /\ located <= Len(installed)
      /\ signalled \in BOOLEAN
  BY DEF NotifyInv
<1>2. installed' = installed /\ Len(installed') = Len(installed)
  BY DEF CallbackSteps, FileSystemCallback, LocateHandleBuffer, LocateFails, LocateAgain,
         OpenVolume, OpenSiPolicy, ReadSiPolicy, WriteSiPolicy, KeepSiPolicy, DeleteSiPolicy,
         Unchanged
<1>3. ASSUME FileSystemCallback PROVE CallbackLeft' < CallbackLeft
  BY <1>1, <1>2, <1>3 DEF FileSystemCallback, CallbackLeft, CallsFor
<1>4. ASSUME LocateHandleBuffer /\ NextHandle(located) <= Len(installed) PROVE CallbackLeft' < CallbackLeft
  BY <1>1, <1>2, <1>4 DEF LocateHandleBuffer, NextHandle, CallbackLeft, CallsFor
<1>5. ASSUME LocateHandleBuffer /\ ~(NextHandle(located) <= Len(installed)) PROVE CallbackLeft' < CallbackLeft
  <2>1. sfs = "locate" /\ sfs' = "idle" /\ UNCHANGED <<located, signalled>>
    BY <1>5 DEF LocateHandleBuffer
  <2>2. QED  BY <1>1, <1>2, <2>1 DEF CallbackLeft, CallsFor
<1>6. ASSUME OpenVolume PROVE CallbackLeft' < CallbackLeft
  <2>1. sfs = "volume" /\ sfs' \in {"locate", "open"} /\ UNCHANGED <<located, signalled>>
    BY <1>6 DEF OpenVolume, Fails, OnError, Unchanged
  <2>2. QED  BY <1>1, <1>2, <2>1 DEF CallbackLeft, CallsFor
<1>7. ASSUME OpenSiPolicy PROVE CallbackLeft' < CallbackLeft
  <2>1. sfs = "open" /\ sfs' \in {"locate", "read", "delete"} /\ UNCHANGED <<located, signalled>>
    BY <1>7 DEF OpenSiPolicy, Fails, OnError
  <2>2. QED  BY <1>1, <1>2, <2>1 DEF CallbackLeft, CallsFor
<1>8. ASSUME ReadSiPolicy PROVE CallbackLeft' < CallbackLeft
  <2>1. sfs = "read" /\ sfs' \in {"locate", "write"} /\ UNCHANGED <<located, signalled>>
    BY <1>8 DEF ReadSiPolicy, Fails, OnError, Unchanged
  <2>2. QED  BY <1>1, <1>2, <2>1 DEF CallbackLeft, CallsFor
<1>9. ASSUME WriteSiPolicy \/ KeepSiPolicy \/ DeleteSiPolicy PROVE CallbackLeft' < CallbackLeft
  <2>1. sfs \in {"write", "delete"} /\ sfs' = "locate" /\ UNCHANGED <<located, signalled>>
    BY <1>9 DEF WriteSiPolicy, KeepSiPolicy, DeleteSiPolicy, Fails, OnError, Unchanged
  <2>2. QED  BY <1>1, <1>2, <2>1 DEF CallbackLeft, CallsFor
<1>10. ASSUME LocateFails \/ LocateAgain PROVE CallbackLeft' = CallbackLeft /\ CallbackLeft \in Nat
  <2>1. /\ sfs \in {"locate", "again"} /\ sfs' \in {"locate", "again"}
        /\ UNCHANGED <<located, signalled>>
    BY <1>10 DEF LocateFails, LocateAgain
  <2>2. QED  BY <1>1, <1>2, <2>1 DEF CallbackLeft, CallsFor
<1>11. CASE LocateFails \/ LocateAgain
  BY <1>10, <1>11 DEF NotRaised
<1>12. CASE ~(LocateFails \/ LocateAgain)
  BY <1>3, <1>4, <1>5, <1>6, <1>7, <1>8, <1>9, <1>12 DEF CallbackSteps, NotRaised
<1>13. QED  BY <1>11, <1>12

\* For any number of file systems, and whatever fails on them, each step of
\* FileSystemCallback lowers a natural number, and at 0 it has come to its end, except
\* those of its loop "while (TRUE)" that LocateHandleBuffer fails in, which leave the
\* number as it is: nothing else can keep the callback from its end.
THEOREM CallbackIsFinite ==
  BootSpec => /\ [](CallbackLeft \in Nat)
              /\ [](CallbackLeft = 0 => sfs = "idle" /\ ~signalled)
              /\ [][CallbackSteps => NotRaised]_sbVars
<1>1. BootInit => NotifyInv
  BY SbStartsRight DEF SbInv
<1>2. SbInv => NotifyInv
  BY DEF SbInv
<1>3. SbInv => CallbackLeft \in Nat /\ (CallbackLeft = 0 => sfs = "idle" /\ ~signalled)
  <2> SUFFICES ASSUME SbInv PROVE CallbackLeft \in Nat /\ (CallbackLeft = 0 => sfs = "idle" /\ ~signalled)
    OBVIOUS
  <2>1. Len(installed) \in Nat /\ located \in Nat /\ located <= Len(installed)
    BY DEF SbInv, NotifyInv
  <2>2. CallsFor \in 0..5 /\ (CallsFor = 0 => sfs = "idle")
    BY DEF SbInv, NotifyInv, CallsFor
  <2>3. QED  BY <2>1, <2>2 DEF CallbackLeft
<1>4. SbInv /\ SbInv' /\ [BootNext]_bootVars => [CallbackSteps => NotRaised]_sbVars
  BY CallbackFalls DEF SbInv
<1>5. SbInv /\ [BootNext]_bootVars => SbInv'
  BY SbHolds
<1>6. QED  BY SbStartsRight, <1>3, <1>4, <1>5, PTL DEF BootSpec

-----------------------------------------------------------------------------
(* The SMBIOS tables.                                                      *)

\* Tables with a field for another, and those fields.
FieldsOf(t) ==
  CASE t = "Type4"  -> {"L1D", "L2", "L3"}
    [] t = "Type17" -> {"Type16", "speed"}
    [] t = "Type19" -> {"Type16"}
    [] OTHER        -> {}

\* A table that others refer to is not registered before its turn, nor are
\* those that refer to it.
InTurn ==
  /\ smbIndex \in 1..13
  /\ smbIndex <= 6  => "L1D" \notin DOMAIN records
  /\ smbIndex <= 7  => "L2" \notin DOMAIN records
  /\ smbIndex <= 8  => "L3" \notin DOMAIN records
  /\ smbIndex <= 9  => "Type4" \notin DOMAIN records
  /\ smbIndex <= 10 => "Type16" \notin DOMAIN records
  /\ smbIndex <= 11 => "Type17" \notin DOMAIN records
  /\ smbIndex <= 12 => "Type19" \notin DOMAIN records

\* Behind the first cache every local is set, but that of the memory array.
LocalsSet ==
  /\ handles = [h \in {"L1D", "L2", "L3", "Type16"} |-> handles[h]]
  /\ smbIndex > 5 => \A h \in {"L1D", "L2", "L3"} :
                       handles[h] = IF h \in DOMAIN records THEN h ELSE "0xFFFF"
  /\ "Type16" \in DOMAIN records => handles["Type16"] = "Type16"

RecordsInv ==
  /\ InTurn /\ LocalsSet /\ TablesRefer
  /\ smb \in {"entry", "update", "platform"} => smbIndex = 1
  /\ speed = "Nothing" => ~smbios.lastFreq
  /\ \A t \in DOMAIN records : DOMAIN records[t] = FieldsOf(t)

TextsInv ==
  /\ smb \in {"entry", "update", "platform", "register", "clean", "loaded"}
  /\ texts = [s \in DOMAIN NotSpecified |-> texts[s]]
  /\ smb = "entry" => texts = NotSpecified
  /\ smb # "loaded" => \A s \in DOMAIN texts : texts[s] \in {"Not Specified", "pool"}
  /\ smb = "loaded" => \A s \in DOMAIN texts : texts[s] # "pool"

LEMMA SmbStep ==
  ASSUME [BootNext]_bootVars
  PROVE  SmBiosSteps \/ SmBiosResets \/ UNCHANGED smbVars
BY DEF BootNext, bootVars, Callback, NewFileSystem, DisplayGoesDark, SmBiosRuns, DpuRuns,
       BdsEntry, BeforeConsole, PriorityBoot, SignalReadyToBoot, NotifyErrata, NotifyDisplay,
       StartImage, LoaderRuns, LoaderReturns, MassStorageRuns, UnableToBoot, Reset

LEMMA TextsHold == ASSUME TextsInv, [BootNext]_bootVars PROVE TextsInv'
<1>1. CASE SmBiosTableDriverEntry
  BY <1>1 DEF TextsInv, SmBiosTableDriverEntry, NotSpecified
<1>2. CASE UpdateSmBiosTables
  BY <1>2 DEF TextsInv, UpdateSmBiosTables
<1>3. CASE PlatformUpdateSmBiosTables
  BY <1>3 DEF TextsInv, PlatformUpdateSmBiosTables
<1>4. CASE RegisterTable
  BY <1>4 DEF TextsInv, RegisterTable
<1>5. CASE RegisterEnds
  BY <1>5 DEF TextsInv, RegisterEnds
<1>6. CASE SmBiosCleanUp
  BY <1>6 DEF TextsInv, SmBiosCleanUp, Freed
<1>7. CASE SmBiosResets
  BY <1>7 DEF TextsInv, SmBiosResets, NotSpecified
<1>8. CASE UNCHANGED smbVars
  BY <1>8 DEF TextsInv, smbVars
<1> QED
  BY SmbStep, <1>1, <1>2, <1>3, <1>4, <1>5, <1>6, <1>7, <1>8 DEF SmBiosSteps

\* On every phone the driver of the SMBIOS tables frees what it allocated, and
\* no string of its own.
THEOREM TextsAllReturned == BootSpec => []TextsReturned
<1>1. BootInit => TextsInv
  BY DEF BootInit, SmBiosStarts, TextsInv, NotSpecified
<1>2. TextsInv /\ [BootNext]_bootVars => TextsInv'
  BY TextsHold
<1>3. TextsInv => TextsReturned
  BY DEF TextsInv, TextsReturned
<1> QED
  BY <1>1, <1>2, <1>3, PTL DEF BootSpec

\* Which turn is whose.
LEMMA Turns ==
  ASSUME smbIndex \in DOMAIN TableOrder
  PROVE  /\ smbIndex \in 1..12
         /\ Table = "L1I" <=> smbIndex = 5
         /\ Table = "L1D" <=> smbIndex = 6
         /\ Table = "L2" <=> smbIndex = 7
         /\ Table = "L3" <=> smbIndex = 8
         /\ Table = "Type4" <=> smbIndex = 9
         /\ Table = "Type16" <=> smbIndex = 10
         /\ Table = "Type17" <=> smbIndex = 11
         /\ Table = "Type19" <=> smbIndex = 12
BY DEF Table, TableOrder

\* A turn adds the table whose turn it is, with the fields it has then, or none.
LEMMA TurnAdds ==
  ASSUME RegisterTable
  PROVE  /\ DOMAIN records \subseteq DOMAIN records'
         /\ DOMAIN records' \subseteq DOMAIN records \union {Table}
         /\ \A t \in DOMAIN records' :
              \/ t = Table /\ records'[t] = Fields(t)
              \/ t \in DOMAIN records /\ records'[t] = records[t]
BY DEF RegisterTable

\* The fields of a table are those it should have, each with what the locals say.
LEMMA FieldsSay ==
  ASSUME NEW t
  PROVE  /\ DOMAIN Fields(t) = FieldsOf(t)
         /\ t = "Type4" => \A h \in {"L1D", "L2", "L3"} : Fields(t)[h] = handles[h]
         /\ t = "Type17" => Fields(t)["Type16"] = handles["Type16"] /\ Fields(t)["speed"] = speed
         /\ t = "Type19" => Fields(t)["Type16"] = handles["Type16"]
<1>1. CASE t = "Type4"
  BY <1>1 DEF Fields, FieldsOf
<1>2. CASE t = "Type17"
  BY <1>2 DEF Fields, FieldsOf
<1>3. CASE t = "Type19"
  BY <1>3 DEF Fields, FieldsOf
<1>4. CASE t \notin {"Type4", "Type17", "Type19"}
  BY <1>4 DEF Fields, FieldsOf
<1> QED
  BY <1>1, <1>2, <1>3, <1>4

LEMMA RegisterKeeps == ASSUME RecordsInv, RegisterTable PROVE RecordsInv'
<1>1. smbIndex \in DOMAIN TableOrder /\ smb = "register" /\ UNCHANGED <<smbios, smb, speed>>
  BY DEF RegisterTable
<1>2. smbIndex' = smbIndex + 1
  BY DEF RegisterTable
<1>3. InTurn'
  BY <1>1, <1>2, Turns, TurnAdds DEF RecordsInv, InTurn
<1>4. LocalsSet'
  <2>1. CASE Table = "L1I"
    <3>1. handles' = [h \in DOMAIN handles |-> HandlesSet[h]]
      <4>1. DOMAIN handles = {"L1D", "L2", "L3", "Type16"}
        BY DEF RecordsInv, LocalsSet
      <4>2. HandlesSet = [h \in DOMAIN handles |-> HandlesSet[h]]
        BY <4>1 DEF HandlesSet, HandlesUnset
      <4>3. CASE Skipped(Table)
        BY <2>1, <4>2, <4>3 DEF RegisterTable
      <4>4. CASE ~Skipped(Table)
        BY <2>1, <4>1, <4>4 DEF RegisterTable
      <4> QED
        BY <4>3, <4>4
    <3> QED
      BY <1>1, <1>2, <2>1, <3>1, Turns, TurnAdds DEF RecordsInv, LocalsSet, InTurn, HandlesSet,
         HandlesUnset
  <2>2. CASE Table # "L1I"
    <3>1. handles' = [h \in DOMAIN handles |->
                       IF h = Table /\ Table \in DOMAIN records' THEN h ELSE handles[h]]
      BY <1>1, <2>2, Turns DEF RegisterTable, Passed, RecordsInv, LocalsSet, InTurn
    <3> QED
      BY <1>1, <1>2, <2>2, <3>1, Turns, TurnAdds DEF RecordsInv, LocalsSet, InTurn
  <2> QED
    BY <2>1, <2>2
<1>5. \A t \in DOMAIN records' : DOMAIN records'[t] = FieldsOf(t)
  BY TurnAdds, FieldsSay DEF RecordsInv
<1>6. ASSUME NEW t \in DOMAIN records', NEW f \in DOMAIN records'[t]
      PROVE  LET v == records'[t][f] IN
             CASE f = "speed"  -> v # "Nothing" \/ ~smbios.lastFreq
               [] f = "Type16" -> v = f \/ f \notin DOMAIN records'
               [] OTHER        -> v = IF f \in DOMAIN records' THEN f ELSE "0xFFFF"
  <2>1. f \in FieldsOf(t)
    BY <1>5, <1>6
  <2>2. t \in {"Type4", "Type17", "Type19"}
    BY <2>1 DEF FieldsOf
  <2>3. f \in DOMAIN records' => f \in DOMAIN records
    BY <1>1, <2>1, <2>2, Turns, TurnAdds DEF RecordsInv, InTurn, FieldsOf
  <2>4. CASE t = Table /\ records'[t] = Fields(t)
    <3>1. CASE t = "Type4"
      <4>1. f \in {"L1D", "L2", "L3"} /\ smbIndex = 9
        BY <1>1, <2>1, <2>4, <3>1, Turns DEF FieldsOf
      <4> QED
        BY <2>3, <2>4, <3>1, <4>1, FieldsSay, TurnAdds DEF RecordsInv, LocalsSet
    <3>2. CASE t = "Type17"
      <4>1. f \in {"Type16", "speed"}
        BY <2>1, <3>2 DEF FieldsOf
      <4> QED
        BY <1>1, <2>3, <2>4, <3>2, <4>1, FieldsSay DEF RecordsInv, LocalsSet
    <3>3. CASE t = "Type19"
      <4>1. f = "Type16"
        BY <2>1, <3>3 DEF FieldsOf
      <4> QED
        BY <2>3, <2>4, <3>3, <4>1, FieldsSay DEF RecordsInv, LocalsSet
    <3> QED
      BY <2>2, <3>1, <3>2, <3>3
  <2>5. CASE t \in DOMAIN records /\ records'[t] = records[t]
    BY <1>6, <2>3, <2>5, TurnAdds DEF RecordsInv, TablesRefer
  <2> QED
    BY <2>4, <2>5, TurnAdds
<1>7. TablesRefer'
  BY <1>1, <1>6 DEF TablesRefer
<1> QED
  BY <1>1, <1>3, <1>4, <1>5, <1>7 DEF RecordsInv

LEMMA RecordsHold == ASSUME RecordsInv, [BootNext]_bootVars PROVE RecordsInv'
<1> USE DEF RecordsInv, InTurn, LocalsSet, TablesRefer
<1>1. CASE SmBiosTableDriverEntry
  BY <1>1 DEF SmBiosTableDriverEntry
<1>2. CASE UpdateSmBiosTables
  <2>1. /\ smb = "update" /\ smb' = "platform"
        /\ UNCHANGED <<smbios, speed, smbIndex, handles, records>>
    BY <1>2 DEF UpdateSmBiosTables
  <2>2. QED  BY <2>1
<1>3. CASE PlatformUpdateSmBiosTables
  BY <1>3 DEF PlatformUpdateSmBiosTables
<1>4. CASE RegisterTable
  BY <1>4, RegisterKeeps
<1>5. CASE RegisterEnds
  BY <1>5 DEF RegisterEnds
<1>6. CASE SmBiosCleanUp
  BY <1>6 DEF SmBiosCleanUp
<1>7. CASE SmBiosResets
  BY <1>7 DEF SmBiosResets, NoRecords, HandlesUnset
<1>8. CASE UNCHANGED smbVars
  BY <1>8 DEF smbVars
<1> QED
  BY SmbStep, <1>1, <1>2, <1>3, <1>4, <1>5, <1>6, <1>7, <1>8 DEF SmBiosSteps

\* On every phone, whichever caches it lacks and whichever records are refused: a
\* processor refers to the caches that were registered and to no other, and a memory
\* device to the memory array if that was registered.
THEOREM TablesReferred == BootSpec => []TablesRefer
<1>1. BootInit => RecordsInv
  BY DEF BootInit, SmBiosStarts, RecordsInv, InTurn, LocalsSet, TablesRefer, NoRecords,
     HandlesUnset
<1>2. RecordsInv /\ [BootNext]_bootVars => RecordsInv'
  BY RecordsHold
<1>3. RecordsInv => TablesRefer
  BY DEF RecordsInv
<1> QED
  BY <1>1, <1>2, <1>3, PTL DEF BootSpec

=============================================================================
