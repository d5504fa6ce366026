---------------------------- MODULE KeypadClients ----------------------------
(***************************************************************************)
(* Keypad, watched from the side of the clients that registered key        *)
(* notification functions: which key each was last called for, and whether *)
(* the walk has followed a freed link.                                     *)
(***************************************************************************)
EXTENDS Keypad

VARIABLES
  lastCall,  \* per handle, the number of the last key passed to its function
  astray     \* this walk goes on from a registration that was freed

calls == <<lastCall, astray>>
cvars == <<vars, calls>>
Never == 0

CInit == Init /\ lastCall = [h \in Handles |-> Never] /\ astray = FALSE

Registers(k, fn) ==
  /\ KeypadRegisterKeyNotify(k, fn)
  /\ lastCall' = IF Covering(k, fn) # {} THEN lastCall
                 ELSE [lastCall EXCEPT ![HandleFor(k, fn)] = Never]
  /\ UNCHANGED astray

Others ==
  \/ TimerEvent \/ KeypadWaitForKey \/ Dispatch \/ KeypadEfiReset
  \/ \E extended \in BOOLEAN : ReadKeyStroke(extended)
  \/ \E h \in Handles : KeypadUnregisterKeyNotify(h)
  \/ \E bits \in SUBSET Bits : KeypadSetState(bits)

Handled ==
  /\ KeyNotifyProcessHandler
  /\ lastCall' = IF handler'.pc # "call" THEN lastCall
                 ELSE [lastCall EXCEPT ![handler'.link] = handler'.press.n]
  /\ astray' = (handler'.pc = "call" /\ (handler.pc = "freed" \/ (handler.pc = "call" /\ astray)))

CNext ==
  \/ \E k \in KeyData, fn \in Functions : Registers(k, fn)
  \/ Handled
  \/ Others /\ UNCHANGED calls

CSpec == CInit /\ [][CNext]_cvars /\ WF_cvars(Dispatch /\ UNCHANGED calls) /\ WF_cvars(Handled)

-----------------------------------------------------------------------------
\* A registration is called for keys in the order they were pressed, over
\* polls from timer, readers and notification functions.
NotifiedInOrder ==
  [][\A h \in Handles : lastCall'[h] # Never => lastCall'[h] >= lastCall[h]]_cvars

\* A walk leaves no registration out: when it ends, each one for the key it was
\* made for has been called, those included that its functions registered
\* meanwhile; only a function that took its own registration away excuses it.
AllNotified ==
  [][handler.pc = "call" /\ ~astray /\ handler'.pc = "pop" =>
       \A h \in DOMAIN reg : IsKeyRegistered(reg[h].key, handler.press.key)
                             => lastCall[h] = handler.press.n]_cvars

\* A notification function registers a function.
FunctionRegisters == InFunction /\ ~(DOMAIN reg' \subseteq DOMAIN reg)

\* Keys do not wait for their notification for ever, provided that the walk
\* never follows a freed link into nowhere and that from some time on the
\* notification functions register no more functions: two that take each
\* other's registrations away and make them anew, at the end of the list,
\* would keep the walk going.
NotifyDrains ==
  [](handler.pc # "lost") /\ <>[][~FunctionRegisters]_cvars
    => []<>(notifyQueue = <<>> /\ handler.pc = "idle")
=============================================================================
