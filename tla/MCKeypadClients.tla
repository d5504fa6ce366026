---------------------------- MODULE MCKeypadClients ----------------------------
(***************************************************************************)
(* A queue that holds two keys is full, empty and in between within three  *)
(* presses.  The keys are a full and a partial one.  Two functions and two *)
(* handles: each press is pushed for up to two registrations, a function   *)
(* can take away its own registration or the other's, and the two can make *)
(* each other anew again and again during a walk.  MCBootHotkey has the    *)
(* shift states.                                                           *)
(***************************************************************************)
EXTENDS KeypadClients

CONSTANTS up, KeyNotify, OtherNotify, h1, h2

MCExposed   == {"Exposed"}
MCCodes     == {up, Null}
MCShifts    == {AnyShift}
MCHandles   == {h1, h2}
MCFunctions == {KeyNotify, OtherNotify}
=============================================================================
