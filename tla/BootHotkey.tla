------------------------------ MODULE BootHotkey ------------------------------
(***************************************************************************)
(* The boot manager (BootManagerLib) on top of the keypad driver.  After   *)
(* the consoles are up it registers KeyNotify for Volume Up; while the     *)
(* boot dispatcher counts down, a press sets mEnterBootManager; before the *)
(* first boot option is tried the function is unregistered and the flag    *)
(* decides whether the boot manager menu is started.                       *)
(*                                                                         *)
(* The boot manager runs at TPL_APPLICATION.  Other drivers use the keypad *)
(* beside it; their functions do not reset it (that would drop keys whose  *)
(* notification is due) and keep the registration they are called through  *)
(* (Keypad says what becomes of the walk otherwise), and their handles are *)
(* their own.                                                              *)
(***************************************************************************)
EXTENDS Keypad

CONSTANTS
  SCAN_UP,       \* Volume Up
  KeyNotify,     \* the function of the boot manager
  NoHandle       \* NULL

ASSUME HotkeyAssumption == SCAN_UP \in Codes /\ KeyNotify \in Functions /\ NoHandle \notin Handles

VARIABLES
  bm,                \* where the boot manager is
  mNotifyHandle,     \* handle of its registration, kept after unregistering
  mEnterBootManager, \* set by KeyNotify
  heard              \* history: Volume Up was polled while it was registered

hvars == <<vars, bm, mNotifyHandle, mEnterBootManager, heard>>
boot  == <<bm, mNotifyHandle, mEnterBootManager, heard>>

HInit ==
  /\ Init
  /\ bm = "console" /\ mNotifyHandle = NoHandle
  /\ mEnterBootManager = FALSE /\ heard = FALSE

AppRuns == handler.pc = "idle" /\ ~pending

\* SetupKeypad fails before the device is reset, and nothing is registered.
NoKeypad ==
  /\ AppRuns /\ bm = "console" /\ bm' = "countdown"
  /\ UNCHANGED <<vars, mNotifyHandle, mEnterBootManager, heard>>

\* SetupKeypad resets the device.
SetupKeypad ==
  /\ AppRuns /\ bm = "console" /\ bm' = "register"
  /\ KeypadEfiReset
  /\ UNCHANGED <<mNotifyHandle, mEnterBootManager, heard>>

VolumeUp == [code |-> SCAN_UP, shift |-> AnyShift]

RegisterKeyNotify ==
  /\ AppRuns /\ bm = "register" /\ bm' = "countdown"
  /\ KeypadRegisterKeyNotify(VolumeUp, KeyNotify)
  /\ mNotifyHandle' = HandleFor(VolumeUp, KeyNotify)
  /\ UNCHANGED <<mEnterBootManager, heard>>

RegisterOutOfResources ==
  /\ AppRuns /\ bm = "register" /\ bm' = "countdown"
  /\ UNCHANGED <<vars, mNotifyHandle, mEnterBootManager, heard>>

\* PlatformBootManagerPriorityBoot, first the registration goes ...
UnregisterKeyCallback ==
  /\ AppRuns /\ bm = "countdown" /\ bm' = "decide"
  /\ IF mNotifyHandle = NoHandle THEN UNCHANGED vars
     ELSE KeypadUnregisterKeyNotify(mNotifyHandle)
  /\ UNCHANGED <<mNotifyHandle, mEnterBootManager, heard>>

\* What the flag leads to: the menu is asked for, and may not be found.
Decision == IF mEnterBootManager THEN {"menu", "menu_not_found"} ELSE {"boot"}

\* The flag is read while presses may still come.
EnterBootManagerEarly ==
  /\ AppRuns /\ bm = "countdown" /\ bm' \in Decision
  /\ UNCHANGED <<vars, mNotifyHandle, mEnterBootManager, heard>>

\* ... then the flag is read.
EnterBootManager ==
  /\ AppRuns /\ bm = "decide" /\ bm' \in Decision
  /\ UNCHANGED <<vars, mNotifyHandle, mEnterBootManager, heard>>

BootManager ==
  \/ NoKeypad \/ SetupKeypad \/ RegisterKeyNotify \/ RegisterOutOfResources
  \/ UnregisterKeyCallback \/ EnterBootManager

Registered == mNotifyHandle \in DOMAIN reg /\ reg[mNotifyHandle].fn = KeyNotify

\* A poll queued Volume Up for its notification.
HearsVolumeUp ==
  heard' = (heard \/ (Registered /\ \E i \in DOMAIN notifyQueue' :
              notifyQueue'[i].n > pressed /\ notifyQueue'[i].key.code = SCAN_UP))

\* Other clients: readers, and drivers with functions of their own.
OtherFunction == handler.pc = "call" => reg[handler.link].fn # KeyNotify
OtherClient ==
  /\ OtherFunction
  /\ \/ \E extended \in BOOLEAN : ReadKeyStroke(extended)
     \/ KeypadWaitForKey
     \/ handler.pc = "idle" /\ KeypadEfiReset
     \/ \E k \in KeyData, fn \in Functions \ {KeyNotify} : KeypadRegisterKeyNotify(k, fn)
     \/ \E h \in DOMAIN reg \ {handler.link} :
          reg[h].fn # KeyNotify /\ KeypadUnregisterKeyNotify(h)

\* KeyNotify runs when the handler reaches its registration.
Notify ==
  /\ KeyNotifyProcessHandler
  /\ mEnterBootManager' =
       (mEnterBootManager \/ (handler'.pc = "call" /\ reg[handler'.link].fn = KeyNotify))
  /\ UNCHANGED <<bm, mNotifyHandle, heard>>

HNext ==
  \/ BootManager
  \/ (TimerEvent \/ OtherClient) /\ HearsVolumeUp /\ UNCHANGED <<bm, mNotifyHandle, mEnterBootManager>>
  \/ Dispatch /\ UNCHANGED boot
  \/ Notify

HSpec == HInit /\ [][HNext]_hvars

-----------------------------------------------------------------------------
\* The notify queue has room for every press and every registration.
CopiesFit == IsFiniteSet(Handles) /\ Cardinality(Handles) * MaxPresses <= Limit

\* The menu is asked for exactly when Volume Up was polled while KeyNotify was
\* registered: a press still waiting in the notify queue when the countdown
\* ends counts, and one after the decision does not change it.  A menu that is
\* not found leaves the boot options to be tried all the same.
MenuWhenPressed ==
  /\ bm \in {"menu", "menu_not_found"} => heard
  /\ bm = "boot" => ~heard

\* The handle kept in mNotifyHandle names the boot manager's own registration
\* until it is unregistered, whatever other clients register and unregister.
HandleIsOurs == bm = "countdown" /\ mNotifyHandle # NoHandle => Registered
=============================================================================
