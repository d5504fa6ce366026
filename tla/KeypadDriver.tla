----------------------------- MODULE KeypadDriver -----------------------------
(***************************************************************************)
(* The driver binding of the keypad driver (KeypadDxe.c): Start builds a   *)
(* console instance with four events and installs the text input           *)
(* protocols, Stop takes it down again, and both have error paths.  The    *)
(* timer event fires between any two steps: Start and Stop run at          *)
(* TPL_APPLICATION.                                                        *)
(***************************************************************************)
EXTENDS Naturals

CONSTANTS MaxStarts   \* bound: calls of Start that allocate an instance

ASSUME DriverAssumption == MaxStarts \in Nat \ {0}

VARIABLES
  pc,         \* the step of Start or Stop that comes next
  opened,     \* KEYPAD_DEVICE_PROTOCOL is open BY_DRIVER on the controller
  count,      \* instances allocated so far; the last one is ConsoleIn
  fields,     \* event pointers of ConsoleIn that are not NULL
  names,      \* ControllerNameTable of ConsoleIn is not NULL
  events,     \* events that exist, with the instance that is their context
  armed,      \* instances whose timer is set
  freed,      \* instances returned to the pool
  installed,  \* the text input protocols are on the controller
  failed,     \* history: instances whose Start returned an error
  usedFreed   \* history: the timer handler ran on an instance that was freed

driverVars == <<pc, opened, count, fields, names, events, armed, freed, installed, failed, usedFreed>>

EventNames == {"WaitForKey", "WaitForKeyEx", "TimerEvent", "KeyNotifyProcessEvent"}
Consoles   == 1..MaxStarts

DriverInit ==
  /\ pc = "idle" /\ opened = FALSE /\ count = 0 /\ fields = {} /\ names = FALSE
  /\ events = {} /\ armed = {} /\ freed = {} /\ installed = FALSE
  /\ failed = {} /\ usedFreed = FALSE

-----------------------------------------------------------------------------
\* KeypadControllerDriverStart.  OpenProtocol BY_DRIVER fails when it is open.
StartOpen ==
  /\ pc = "idle" /\ ~opened /\ count < MaxStarts
  /\ opened' = TRUE /\ pc' = "allocate"
  /\ UNCHANGED <<count, fields, names, events, armed, freed, installed, failed, usedFreed>>

Allocate ==
  /\ pc = "allocate" /\ pc' = "WaitForKey"
  /\ count' = count + 1 /\ fields' = {} /\ names' = FALSE
  /\ UNCHANGED <<opened, events, armed, freed, installed, failed, usedFreed>>

\* No memory: CleanUp walks the notify list of an instance at address NULL,
\* which faults or finds nothing to free.
AllocateFails ==
  /\ pc = "allocate"
  /\ \/ pc' = "fault" /\ UNCHANGED opened
     \/ pc' = "idle" /\ opened' = FALSE
  /\ UNCHANGED <<count, fields, names, events, armed, freed, installed, failed, usedFreed>>

AfterCreate ==
  [WaitForKey |-> "WaitForKeyEx", WaitForKeyEx |-> "TimerEvent",
   TimerEvent |-> "SetTimer", KeyNotifyProcessEvent |-> "Reset"]

CreateEvent(e) ==
  /\ pc = e /\ pc' = AfterCreate[e]
  /\ fields' = fields \union {e} /\ events' = events \union {<<e, count>>}
  /\ UNCHANGED <<opened, count, names, armed, freed, installed, failed, usedFreed>>

SetTimer ==
  /\ pc = "SetTimer" /\ pc' = "KeyNotifyProcessEvent"
  /\ armed' = armed \union {count}
  /\ UNCHANGED <<opened, count, fields, names, events, freed, installed, failed, usedFreed>>

\* The device is reset and the name table filled.
Reset ==
  /\ pc = "Reset" /\ pc' = "install" /\ names' = TRUE
  /\ UNCHANGED <<opened, count, fields, events, armed, freed, installed, failed, usedFreed>>

Install ==
  /\ pc = "install" /\ pc' = "idle" /\ installed' = TRUE
  /\ UNCHANGED <<opened, count, fields, names, events, armed, freed, failed, usedFreed>>

\* The tests are chained with else: one event is closed, the others stay.
Closed ==
  IF "WaitForKey" \in fields THEN {"WaitForKey"}
  ELSE IF "TimerEvent" \in fields THEN {"TimerEvent"}
  ELSE IF "WaitForKeyEx" \in fields THEN {"WaitForKeyEx"}
  ELSE fields

Close(es) ==
  /\ events' = events \ (es \X {count})
  /\ armed' = IF "TimerEvent" \in es THEN armed \ {count} ELSE armed

\* CleanUp does not close the protocol again.
CleanUpKeepingProtocol ==
  /\ pc \in EventNames \union {"SetTimer", "install"} /\ pc' = "idle"
  /\ Close(Closed)
  /\ freed' = IF names THEN freed ELSE freed \union {count}
  /\ failed' = failed \union {count}
  /\ UNCHANGED <<opened, count, fields, names, installed, usedFreed>>

\* A step after the allocation fails.  An instance with a name table is not
\* freed.
CleanUp ==
  /\ pc \in EventNames \union {"SetTimer", "install"} /\ pc' = "idle"
  /\ Close(Closed)
  /\ freed' = IF names THEN freed ELSE freed \union {count}
  /\ opened' = FALSE /\ failed' = failed \union {count}
  /\ UNCHANGED <<count, fields, names, installed, usedFreed>>

-----------------------------------------------------------------------------
\* The timer is left for last, behind the chain.
StopTimerKept ==
  /\ pc = "idle" /\ installed /\ pc' = "uninstall"
  /\ UNCHANGED <<opened, count, fields, names, events, armed, freed, installed, failed, usedFreed>>

\* KeypadControllerDriverStop: the timer goes first, then the protocols.
StopTimer ==
  /\ pc = "idle" /\ installed /\ pc' = "uninstall"
  /\ fields' = fields \ {"TimerEvent"}
  /\ Close({"TimerEvent"})
  /\ UNCHANGED <<opened, count, names, freed, installed, failed, usedFreed>>

\* A client still has one of the protocols open and does not let go.
UninstallFails ==
  /\ pc = "uninstall" /\ pc' = "idle"
  /\ UNCHANGED <<opened, count, fields, names, events, armed, freed, installed, failed, usedFreed>>

StopClosed ==
  IF "WaitForKey" \in fields THEN {"WaitForKey"}
  ELSE IF "WaitForKeyEx" \in fields THEN {"WaitForKeyEx"}
  ELSE fields

Uninstall ==
  /\ pc = "uninstall" /\ pc' = "idle"
  /\ installed' = FALSE /\ opened' = FALSE
  /\ Close(StopClosed) /\ fields' = fields \ StopClosed
  /\ freed' = freed \union {count}
  /\ UNCHANGED <<count, names, failed, usedFreed>>

\* KeypadTimerHandler, with the instance it was created for.
TimerFires(c) ==
  /\ c \in armed
  /\ usedFreed' = (usedFreed \/ c \in freed)
  /\ UNCHANGED <<pc, opened, count, fields, names, events, armed, freed, installed, failed>>

DriverNext ==
  \/ StartOpen \/ Allocate \/ AllocateFails \/ SetTimer \/ Reset \/ Install \/ CleanUp
  \/ \E e \in EventNames : CreateEvent(e)
  \/ StopTimer \/ UninstallFails \/ Uninstall
  \/ \E c \in Consoles : TimerFires(c)

DriverSpec == DriverInit /\ [][DriverNext]_driverVars

-----------------------------------------------------------------------------
\* The types; a timer that is set belongs to an event that exists.
DriverTypeOK ==
  /\ pc \in EventNames \union
       {"idle", "fault", "allocate", "SetTimer", "Reset", "install", "uninstall"}
  /\ opened \in BOOLEAN /\ installed \in BOOLEAN /\ names \in BOOLEAN /\ usedFreed \in BOOLEAN
  /\ count \in 0..MaxStarts /\ fields \subseteq EventNames
  /\ events \subseteq EventNames \X Consoles
  /\ \A c \in armed : <<"TimerEvent", c>> \in events
  /\ armed \subseteq Consoles /\ freed \subseteq Consoles /\ failed \subseteq Consoles

\* Between calls the keypad protocol is open BY_DRIVER exactly when the text
\* input protocols are installed, whichever step failed: a controller that was
\* not started can be started again.
OpenWhileInstalled == pc = "idle" => (opened <=> installed)

\* The installed instance is not in the pool, and only a failed Start leaves a
\* timer behind: after Stop the handler never runs on the instance again.
TimerOnlyOnLive ==
  /\ installed => count \notin freed
  /\ armed \intersect freed \subseteq failed
  /\ usedFreed => failed # {}

=============================================================================
