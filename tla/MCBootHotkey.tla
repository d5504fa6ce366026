----------------------------- MODULE MCBootHotkey -----------------------------
\* Two keys, with and without a shift state, and a second driver with a function
\* of its own.  The notify queue has room for every copy of every press, as the
\* 255 keys of the code have.
EXTENDS BootHotkey

CONSTANTS down, ctrl, OtherNotify, h1, h2

MCCodes     == {SCAN_UP, down, Null}
MCShifts    == {AnyShift, ctrl}
MCHandles   == {h1, h2}
MCFunctions == {KeyNotify, OtherNotify}
MCNoBits    == {}

ASSUME MCRoom == CopiesFit
=============================================================================
