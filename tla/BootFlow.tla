------------------------------- MODULE BootFlow -------------------------------
(***************************************************************************)
(* A boot from the DXE drivers to the operating system.  The boot device   *)
(* selection sets secure boot up, registers the boot options, connects the *)
(* drivers and tries one option after the other, or starts an application  *)
(* from its menu.  Before each it signals ReadyToBoot, for which the       *)
(* kernel errata patcher and the display snapshot wait.  SiPolicy.p7b      *)
(* outlives a reset, which may come at any time.                           *)
(*                                                                         *)
(* FileSystemCallback preempts the selection, the drivers and applications *)
(* whenever its event is signalled.                                        *)
(***************************************************************************)
EXTENDS SecureBoot, ErrataPatcher, DpuSnapshot, MassStorage, SmBiosTables

CONSTANTS
  Machines,    \* phones: files, display, USB device, loaders of the options
  MaxResets

Phone ==
  [enabled : BOOLEAN, windows : SUBSET FileSystems, policy : [FileSystems -> Contents],
   mdss : {"live", "dark"}, window : {"none", "io", "mapped"}, device : MsdDevices,
   loaders : SUBSET Loaders, readyEvent : {"open", "closed"}, smbios : SmBiosPhones]

ASSUME BootAssumption == Machines \subseteq Phone /\ MaxResets \in Nat

VARIABLES
  machine,     \* the phone
  bds,         \* where the boot device selection is
  options,     \* boot options that are still to be tried
  ready,       \* notifications of ReadyToBoot that are pending
  resets

flow     == <<machine, bds, options, ready, resets>>
bootVars == <<flow, sbVars, hookVars, dpuVars, msdVars, smbVars>>

BootInit ==
  /\ machine \in Machines
  /\ enabled = machine.enabled /\ windows = machine.windows
  /\ policy = machine.policy /\ atBoot = machine.policy
  /\ mdss = machine.mdss /\ window = machine.window /\ device = machine.device
  /\ loader = [winload |-> FALSE, readOnly |-> FALSE, attributes |-> FALSE]
  /\ readyEvent = machine.readyEvent
  /\ smbios = machine.smbios /\ SmBiosStarts
  /\ SecureBootStarts /\ HookStarts /\ DpuStarts /\ MsdStarts
  /\ bds = "dxe" /\ options = <<>> /\ ready = {} /\ resets = 0

Quiet == sfs = "idle" /\ ~signalled

-----------------------------------------------------------------------------
Callback == CallbackSteps /\ UNCHANGED <<flow, hookVars, dpuVars, msdVars, smbVars>>

NewFileSystem ==
  /\ bds \in {"dxe", "connect"} /\ Quiet
  /\ \E f \in FileSystems : InstallFileSystem(f)
  /\ UNCHANGED <<flow, hookVars, dpuVars, msdVars, smbVars>>

DisplayGoesDark == GoesDark /\ UNCHANGED <<flow, sbVars, hookVars, msdVars, smbVars>>

\* The two drivers share nothing, and one is loaded after the other.
SmBiosRuns ==
  /\ bds = "dxe" /\ Quiet /\ SmBiosSteps
  /\ UNCHANGED <<flow, sbVars, hookVars, dpuVars, msdVars>>

\* The driver of the display snapshot, when it is loaded and when it is notified.
DpuRuns ==
  /\ DpuSteps /\ bds \in {"dxe", "ready"} /\ Quiet /\ smb = "loaded"
  /\ UNCHANGED <<flow, sbVars, hookVars, msdVars, smbVars>>

\* PlatformBootManagerBdsEntry.  An error of SetupSecureBoot fails an assertion,
\* or is ignored in a RELEASE build.
BdsEntry ==
  /\ bds = "dxe" /\ dpu = "loaded" /\ Quiet
  /\ \/ SetupSecureBoot /\ bds' = "before console"
     \/ bds' \in {"before console", "dead loop"} /\ UNCHANGED sbVars
  /\ UNCHANGED <<machine, options, ready, resets, hookVars, dpuVars, msdVars, smbVars>>

\* MsBootOptionsLibRegisterDefaultBootOptions.  A failure costs one option;
\* those without LOAD_OPTION_ACTIVE are only started from the menu.
BeforeConsole ==
  /\ bds = "before console" /\ Quiet /\ bds' = "connect"
  /\ \E active \in SUBSET {"Internal Storage", "USB Storage"} :
       options' = SelectSeq(<<"Internal Storage", "USB Storage">>, LAMBDA o : o \in active)
  /\ UNCHANGED <<machine, ready, resets, sbVars, hookVars, dpuVars, msdVars, smbVars>>

\* The countdown is over.  From the menu Mass Storage may be started.
PriorityBoot ==
  /\ bds = "connect" /\ Quiet
  /\ \/ bds' = "options" /\ UNCHANGED options
     \/ bds' = "options" /\ options' = <<"Mass Storage">> \o options
  /\ UNCHANGED <<machine, ready, resets, sbVars, hookVars, dpuVars, msdVars, smbVars>>

\* EfiBootManagerBoot signals ReadyToBoot to all who wait for it.
SignalReadyToBoot ==
  /\ bds = "options" /\ Quiet /\ options # <<>> /\ bds' = "ready"
  /\ ready' = {n \in {"errata", "display"} :
                 CASE n = "errata" -> readyEvent = "open" [] n = "display" -> dpuEvent = "open"}
  /\ UNCHANGED <<machine, options, resets, sbVars, hookVars, dpuVars, msdVars, smbVars>>

NotifyErrata ==
  /\ bds = "ready" /\ dpu = "loaded" /\ "errata" \in ready /\ ready' = ready \ {"errata"}
  /\ ReadyToBootHandler
  /\ UNCHANGED <<machine, bds, options, resets, sbVars, dpuVars, msdVars, smbVars>>

NotifyDisplay ==
  /\ bds = "ready" /\ "display" \in ready /\ ready' = ready \ {"display"}
  /\ OnReadyToBoot
  /\ UNCHANGED <<machine, bds, options, resets, sbVars, hookVars, msdVars, smbVars>>

\* The image of the option is started, or there is none.
StartImage ==
  /\ bds = "ready" /\ ready = {} /\ dpu = "loaded" /\ options' = Tail(options)
  /\ IF Head(options) = "Mass Storage" THEN bds' = "application" /\ UNCHANGED hookVars
     ELSE \/ bds' = "loader" /\ \E l \in machine.loaders : NextLoader(l)
          \/ bds' = "options" /\ UNCHANGED hookVars
  /\ UNCHANGED <<machine, ready, resets, sbVars, dpuVars, msdVars, smbVars>>

LoaderRuns ==
  /\ bds = "loader" /\ (CallOriginal \/ CallHook \/ HookSteps)
  /\ bds' = IF hook' = "exited" THEN "os" ELSE "loader"
  /\ UNCHANGED <<machine, options, ready, resets, sbVars, dpuVars, msdVars, smbVars>>

LoaderReturns ==
  /\ bds = "loader" /\ hook = "idle" /\ bds' = "options"
  /\ UNCHANGED <<machine, options, ready, resets, sbVars, hookVars, dpuVars, msdVars, smbVars>>

MassStorageRuns ==
  /\ bds = "application" /\ MsdSteps
  /\ bds' = IF msd' \in {"served", "error"} THEN "options" ELSE bds
  /\ UNCHANGED <<machine, options, ready, resets, sbVars, hookVars, dpuVars, smbVars>>

UnableToBoot ==
  /\ bds = "options" /\ Quiet /\ options = <<>> /\ bds' = "shutdown"
  /\ UNCHANGED <<machine, options, ready, resets, sbVars, hookVars, dpuVars, msdVars, smbVars>>

Reset ==
  /\ resets < MaxResets /\ resets' = resets + 1
  /\ bds' = "dxe" /\ options' = <<>> /\ ready' = {} /\ SecureBootResets
  /\ readyEvent' = machine.readyEvent /\ ebs' = "original" /\ mOriginal' = "none"
  /\ hook' = "idle" /\ loader' = [winload |-> FALSE, readOnly |-> FALSE, attributes |-> FALSE]
  /\ readOnly' = FALSE /\ shellCode' = FALSE /\ jump' = FALSE
  /\ calls' = 0 /\ reached' = 0 /\ reprotected' = TRUE
  /\ mdss' = machine.mdss /\ window' = machine.window /\ dpu' = "entry" /\ dpuEvent' = "none"
  /\ region' = 0 /\ darkened' = FALSE
  /\ msd' = "off" /\ assignable' = 0 /\ assigned' = 0 /\ msdIndex' = 1 /\ luns' = NoLuns
  /\ kept' = FALSE /\ SmBiosResets /\ UNCHANGED <<machine, device>>

BootNext ==
  \/ Callback \/ NewFileSystem \/ DisplayGoesDark \/ SmBiosRuns \/ DpuRuns \/ BdsEntry \/ BeforeConsole
  \/ PriorityBoot \/ SignalReadyToBoot \/ NotifyErrata \/ NotifyDisplay \/ StartImage
  \/ LoaderRuns \/ LoaderReturns \/ MassStorageRuns \/ UnableToBoot \/ Reset

\* A signalled event is dispatched at once, and its function runs to its end
\* before anything else of the selection does.
BootSpec == BootInit /\ [][BootNext]_bootVars /\ WF_bootVars(Callback)
=============================================================================
