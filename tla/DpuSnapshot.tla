----------------------------- MODULE DpuSnapshot -----------------------------
(***************************************************************************)
(* DpuSnapshotDxe prints the registers of the display controller twice:    *)
(* when it is loaded, and at ReadyToBoot, when something may have powered  *)
(* the display down.  Reading a register that is not mapped faults, and    *)
(* one of a dark block resets the phone.                                   *)
(***************************************************************************)
EXTENDS Naturals, Sequences

CONSTANTS
  DpuRegions   \* lengths in mDpuRegions, in bytes

ASSUME DpuAssumption == DpuRegions \in Seq(Nat)

VARIABLES
  mdss,        \* the block is "live" or "dark"
  window,      \* its registers in the GCD: "none", "io" when added, "mapped"
  dpu,         \* where the driver is
  dpuEvent,    \* the event of OnReadyToBoot: "none", "open", "closed"
  region,      \* Index
  darkened     \* history: the block went dark in this pass or the window was
               \* taken for mapped

dpuVars == <<mdss, window, dpu, dpuEvent, region, darkened>>

DpuStarts ==
  /\ mdss \in {"live", "dark"} /\ window \in {"none", "io", "mapped"}
  /\ dpu = "entry" /\ dpuEvent = "none" /\ region = 0 /\ darkened = FALSE

\* From outside: nobody knows what powers the block down, or when.
GoesDark ==
  /\ mdss = "live" /\ mdss' = "dark" /\ darkened' = (darkened \/ dpu = "read")
  /\ UNCHANGED <<window, dpu, dpuEvent, region>>

\* A window that could not be mapped is used.
UseAnyway == "guard"
GiveUp    == "loaded"

\* A window that is I/O in the GCD is taken for mapped.  Adding it only records
\* the range, setting its attributes maps it, and either may fail.
MapMdssWindow ==
  /\ dpu = "entry"
  /\ \/ window # "none" /\ dpu' = "guard" /\ UNCHANGED window
     \/ window = "none" /\ dpu' = "guard" /\ window' = "mapped"
     \/ window = "none" /\ dpu' = GiveUp /\ window' \in {"none", "io"}
  /\ darkened' = (darkened \/ window = "io")
  /\ UNCHANGED <<mdss, dpuEvent, region>>

AfterPass == IF dpuEvent = "none" THEN "arm" ELSE "loaded"

\* The version register tells whether the block is live.
Guard ==
  /\ dpu = "guard"
  /\ dpu' = CASE window # "mapped" -> "fault" [] mdss = "live" -> "read" [] OTHER -> AfterPass
  /\ region' = 1
  /\ UNCHANGED <<mdss, window, dpuEvent, darkened>>

\* A region with an odd length is skipped.
Readable(n) == n # 0 /\ n % 16 = 0

DumpRegion ==
  /\ dpu = "read" /\ region \in DOMAIN DpuRegions
  /\ IF Readable(DpuRegions[region]) /\ mdss = "dark" THEN dpu' = "fault" /\ UNCHANGED region
     ELSE region' = region + 1 /\ UNCHANGED dpu
  /\ UNCHANGED <<mdss, window, dpuEvent, darkened>>

DumpEnds ==
  /\ dpu = "read" /\ region \notin DOMAIN DpuRegions /\ dpu' = AfterPass
  /\ UNCHANGED <<mdss, window, dpuEvent, region, darkened>>

ArmReadyToBoot ==
  /\ dpu = "arm" /\ dpu' = "loaded" /\ dpuEvent' \in {"open", "closed"}
  /\ UNCHANGED <<mdss, window, region, darkened>>

OnReadyToBoot ==
  /\ dpu = "loaded" /\ dpuEvent = "open" /\ dpuEvent' = "closed" /\ dpu' = "guard"
  /\ UNCHANGED <<mdss, window, region, darkened>>

DpuSteps == MapMdssWindow \/ Guard \/ DumpRegion \/ DumpEnds \/ ArmReadyToBoot

-----------------------------------------------------------------------------
\* No register is read that is unmapped or dark, in either pass, unless the
\* block goes dark between the guard and the end of a pass or another driver
\* had recorded the window without mapping it.
ReadsGuarded == dpu = "fault" => darkened
=============================================================================
