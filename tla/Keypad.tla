-------------------------------- MODULE Keypad --------------------------------
(***************************************************************************)
(* The keypad driver at work (KeypadTextIn.c, KeypadController.c and the   *)
(* push callback of KeypadDxe.c): polls of the device fill two queues, one *)
(* that clients read and one for the functions registered for a key.       *)
(*                                                                         *)
(* UEFI runs one thread at a task priority level.  Queues and list change  *)
(* at TPL_NOTIFY, so every such section is one step.  The timer event and  *)
(* KeyNotifyProcessHandler run at TPL_CALLBACK: they preempt a client at   *)
(* TPL_APPLICATION, and neither preempts the other.  A client therefore    *)
(* runs only when no event waits, except from within a key notification    *)
(* function, where it is part of the handler.                              *)
(*                                                                         *)
(* A function may take away the registration it is called through.  The    *)
(* walk of NotifyList then reads the link of a freed entry: what follows   *)
(* is left open.                                                           *)
(*                                                                         *)
(* Nothing calls KeypadError, so KeypadErr stays FALSE and the branches    *)
(* that test it are left out.  The queues are those of KeyFifo, which      *)
(* KeyQueue shows the rings to implement.                                  *)
(***************************************************************************)
EXTENDS Naturals, Sequences, FiniteSets, SequencesExt

CONSTANTS
  KEYPAD_EFI_KEY_MAX_COUNT, \* slots of a ring
  Codes,       \* scan codes and characters of the keys
  Null,        \* SCAN_NULL with CHAR_NULL, the code of a partial key
  Shifts,      \* shift and toggle states, compared alike
  AnyShift,    \* the state 0, which a registration matches with any other
  Functions,   \* key notification functions
  Handles,     \* addresses the pool may hand out for a registration
  End,         \* the list head, where a walk of NotifyList ends
  Bits,        \* the KeyToggleState bits that clients set
  MaxPresses,  \* bound: keys that reach the queues
  MaxPerPoll   \* bound: keys one GetKeys call pushes

KeyData == [code : Codes, shift : Shifts]

ASSUME KeypadAssumption ==
  /\ KEYPAD_EFI_KEY_MAX_COUNT \in Nat \ {0, 1}
  /\ Null \in Codes /\ AnyShift \in Shifts /\ End \notin Handles
  /\ Bits \subseteq {"ScrollLock", "NumLock", "CapsLock", "Exposed"}
  /\ MaxPresses \in Nat /\ MaxPerPoll \in Nat

VARIABLES
  queue,        \* EfiKeyQueue
  notifyQueue,  \* EfiKeyQueueForNotify
  notifyList,   \* NotifyList, as a sequence of handles
  reg,          \* the allocated registrations: handle -> key and function
  state,        \* the lock states and IsSupportPartialKey that are set
  pending,      \* KeyNotifyProcessEvent is signalled
  handler,      \* where KeyNotifyProcessHandler is
  pressed,      \* history: number of keys pushed so far
  lastRead      \* history: number of the key last handed to a reader

console == <<queue, notifyQueue, notifyList, reg, state, pending>>
history == <<pressed, lastRead>>
vars    == <<console, handler, history>>

Press   == [key : KeyData, n : 0..MaxPresses]
NoPress == [key |-> [code |-> Null, shift |-> AnyShift], n |-> 0]
Idle    == [pc |-> "idle", press |-> NoPress, link |-> End]
Limit   == KEYPAD_EFI_KEY_MAX_COUNT - 1

\* A notification function is at work, and with "freed" it has taken away the
\* registration it was called through.
InFunction == handler.pc \in {"call", "freed"}

\* A full queue turns new keys away.
KeptOldest(q) == IF Len(q) <= Limit THEN q ELSE SubSeq(q, 1, Limit)

\* What pushing keys one after the other leaves of a queue: each push into a
\* full ring drops the key at its head.
Kept(q) == IF Len(q) <= Limit THEN q ELSE SubSeq(q, Len(q) - Limit + 1, Len(q))

PartialKey(k) == k.code = Null

IsKeyRegistered(registered, k) ==
  registered.code = k.code /\ registered.shift \in {AnyShift, k.shift}

Init ==
  /\ queue = <<>> /\ notifyQueue = <<>> /\ notifyList = <<>> /\ reg = <<>>
  /\ state = {} /\ pending = FALSE /\ handler = Idle
  /\ pressed = 0 /\ lastRead = 0

-----------------------------------------------------------------------------
(***************************************************************************)
(* Polling.  GetKeys hands each key to KeypadReturnApiPushEfikeyBufTail:   *)
(* a partial key counts only when exposed; a key goes to the notify queue  *)
(* once for every registration it matches, then to the readers' queue.     *)
(***************************************************************************)
Presses(keys)  == [i \in 1..Len(keys) |-> [key |-> keys[i], n |-> pressed + i]]
Matching(k)    == {i \in 1..Len(notifyList) : IsKeyRegistered(reg[notifyList[i]].key, k)}

\* The copies of the first presses: a place in the list for each that matches.
Copies(presses, count) ==
  {c \in (1..count) \X (1..Len(notifyList)) : c[2] \in Matching(presses[c[1]].key)}
CopyCount(presses, count) == Cardinality(Copies(presses, count))

\* The press whose copy is the c-th.
Copied(presses, c) ==
  CHOOSE i \in 1..Len(presses) : CopyCount(presses, i - 1) < c /\ c <= CopyCount(presses, i)

\* A press goes to the head of the queue.
ToNotifyNewestFirst(presses) ==
  LET all == CopyCount(presses, Len(presses))
  IN [c \in 1..all |-> presses[Copied(presses, all + 1 - c)]]

ToNotify(presses) ==
  [c \in 1..CopyCount(presses, Len(presses)) |-> presses[Copied(presses, c)]]
Polled(presses)   == Kept(queue \o presses)

KeypadTimerHandler(presses) ==
  /\ pressed' = pressed + Len(presses)
  /\ notifyQueue' = Kept(notifyQueue \o ToNotify(presses))
  /\ pending' = (pending \/ ToNotify(presses) # <<>>)

\* The keys the device hands over, and those of a poll that are not turned away.
GetKeys  == {keys \in BoundedSeq(KeyData, MaxPerPoll) : pressed + Len(keys) <= MaxPresses}
Accepted == {keys \in GetKeys :
               \A i \in DOMAIN keys : ~PartialKey(keys[i]) \/ "Exposed" \in state}

\* The timer event fires.
TimerEvent ==
  /\ handler.pc = "idle"
  /\ \E keys \in Accepted :
       LET presses == Presses(keys) IN
       KeypadTimerHandler(presses) /\ queue' = Polled(presses)
  /\ UNCHANGED <<notifyList, reg, state, handler, lastRead>>

-----------------------------------------------------------------------------
(***************************************************************************)
(* The services of the two text input protocols.                           *)
(***************************************************************************)
ClientRuns == InFunction \/ (handler.pc = "idle" /\ ~pending)

\* KeypadReadKeyStrokeWorker: poll, then pop.  ReadKeyStroke throws a partial
\* key away and goes round again, keeping nothing between two rounds.
ReadKeyStroke(extended) ==
  /\ ClientRuns
  /\ \E keys \in Accepted :
       LET presses == Presses(keys)
           filled  == Polled(presses)
       IN /\ KeypadTimerHandler(presses)
          /\ queue' = IF filled = <<>> THEN filled ELSE Tail(filled)
          /\ lastRead' = IF filled = <<>> \/ (~extended /\ PartialKey(Head(filled).key))
                         THEN lastRead ELSE Head(filled).n
  /\ UNCHANGED <<notifyList, reg, state, handler>>

\* The keys from the first full one on.
FromFullKey(q) ==
  LET partials == {i \in 1..Len(q) : \A j \in 1..i : PartialKey(q[j].key)}
  IN SubSeq(q, Cardinality(partials) + 1, Len(q))

\* Either wait event is checked: poll, then drop the partial keys in front.
KeypadWaitForKey ==
  /\ ClientRuns
  /\ \E keys \in Accepted :
       LET presses == Presses(keys) IN
       KeypadTimerHandler(presses) /\ queue' = FromFullKey(Polled(presses))
  /\ UNCHANGED <<notifyList, reg, state, handler, lastRead>>

KeypadEfiReset ==
  /\ ClientRuns
  /\ queue' = <<>> /\ notifyQueue' = <<>> /\ state' = {}
  /\ UNCHANGED <<notifyList, reg, pending, handler, history>>

\* At most one state is set: the tests are chained with else.
StateOf(bits) ==
  IF "ScrollLock" \in bits THEN {"ScrollLock"}
  ELSE IF "NumLock" \in bits THEN {"NumLock"}
  ELSE IF "CapsLock" \in bits THEN {"CapsLock"}
  ELSE bits

KeypadSetState(bits) ==
  /\ ClientRuns
  /\ state' = StateOf(bits)
  /\ UNCHANGED <<queue, notifyQueue, notifyList, reg, pending, handler, history>>

\* The function is not compared.
CoveringKey(k, fn) == Matching(k)

\* The registrations that already cover this key and function.
Covering(k, fn) == {i \in Matching(k) : reg[notifyList[i]].fn = fn}

KeypadRegisterKeyNotify(k, fn) ==
  /\ ClientRuns
  /\ IF Covering(k, fn) # {}
     THEN UNCHANGED <<notifyList, reg>>
     ELSE \E h \in Handles \ DOMAIN reg :
          /\ notifyList' = Append(notifyList, h)
          /\ reg' = [i \in DOMAIN reg \union {h} |->
                       IF i = h THEN [key |-> k, fn |-> fn] ELSE reg[i]]
  /\ UNCHANGED <<queue, notifyQueue, state, pending, handler, history>>

\* The handle a registration hands out: a covering one, or the new entry's.
HandleFor(k, fn) ==
  IF Covering(k, fn) # {} THEN notifyList[Min(Covering(k, fn))] ELSE Last(notifyList')

\* RemoveEntryList is forgotten before the registration is freed.
StillListed(h) == notifyList

Place(h)    == CHOOSE i \in 1..Len(notifyList) : notifyList[i] = h
Unlisted(h) == RemoveAt(notifyList, Place(h))

\* Any address may be passed in; one that is not in the list is refused.
KeypadUnregisterKeyNotify(h) ==
  /\ ClientRuns
  /\ h \in Range(notifyList)
  /\ notifyList' = Unlisted(h)
  /\ reg' = [i \in DOMAIN reg \ {h} |-> reg[i]]
  /\ handler' = IF InFunction /\ h = handler.link THEN [handler EXCEPT !.pc = "freed"] ELSE handler
  /\ UNCHANGED <<queue, notifyQueue, state, pending, history>>

-----------------------------------------------------------------------------
(***************************************************************************)
(* KeyNotifyProcessHandler.  It pops a key and walks the list.  Only the   *)
(* functions it calls can change the list meanwhile, so the entries that   *)
(* do not match are passed in the same step.                               *)
(***************************************************************************)
\* The handler ends after one key: events signalled twice run once.
OneKeyPerEvent == Idle

NextKey == [Idle EXCEPT !.pc = "pop"]

Dispatch ==
  /\ pending /\ handler.pc = "idle"
  /\ pending' = FALSE /\ handler' = NextKey
  /\ UNCHANGED <<queue, notifyQueue, notifyList, reg, state, history>>

\* Each round starts one entry too far: GetNextNode once before the comparison.
CallNext(press, from) ==
  LET links == {i \in Matching(press.key) : from < i}
  IN handler' = IF links = {} THEN NextKey
                ELSE [pc |-> "call", press |-> press, link |-> notifyList[Min(links)]]

\* Call the first registration for the key from a place of the list on, or go
\* back for the next key.
CallFirst(press, from) ==
  LET links == {i \in Matching(press.key) : from <= i}
  IN handler' = IF links = {} THEN NextKey
                ELSE [pc |-> "call", press |-> press, link |-> notifyList[Min(links)]]

PopForNotify ==
  /\ handler.pc = "pop" /\ notifyQueue # <<>>
  /\ notifyQueue' = Tail(notifyQueue)
  /\ CallFirst(Head(notifyQueue), 1)
  /\ UNCHANGED <<queue, notifyList, reg, state, pending, history>>

NotifyQueueEmpty ==
  /\ handler.pc = "pop" /\ notifyQueue = <<>> /\ handler' = Idle
  /\ UNCHANGED <<console, history>>

\* The function returns; GetNextNode reads the link of its registration.
FunctionReturns ==
  /\ handler.pc = "call"
  /\ CallFirst(handler.press, Place(handler.link) + 1)
  /\ UNCHANGED <<console, history>>

\* It returns, and its registration was freed: GetNextNode follows what the
\* pool left in the link, to some entry of the list, to the list head, or to
\* where the walk does not come back from.
FreedFunctionReturns ==
  /\ handler.pc = "freed"
  /\ \/ \E from \in 1..Len(notifyList) + 1 : CallFirst(handler.press, from)
     \/ handler' = [Idle EXCEPT !.pc = "lost"]
  /\ UNCHANGED <<console, history>>

Client ==
  \/ \E extended \in BOOLEAN : ReadKeyStroke(extended)
  \/ KeypadWaitForKey
  \/ KeypadEfiReset
  \/ \E bits \in SUBSET Bits : KeypadSetState(bits)
  \/ \E k \in KeyData, fn \in Functions : KeypadRegisterKeyNotify(k, fn)
  \/ \E h \in Handles : KeypadUnregisterKeyNotify(h)

KeyNotifyProcessHandler ==
  PopForNotify \/ NotifyQueueEmpty \/ FunctionReturns \/ FreedFunctionReturns

Next == TimerEvent \/ Client \/ Dispatch \/ KeyNotifyProcessHandler

(***************************************************************************)
(* The dispatcher runs a signalled event and a notification function       *)
(* returns; neither clients nor presses are promised.                      *)
(***************************************************************************)
Spec == Init /\ [][Next]_vars /\ WF_vars(Dispatch) /\ WF_vars(KeyNotifyProcessHandler)

-----------------------------------------------------------------------------
\* Readers miss no key but the oldest: what is queued is always the newest run
\* of keys pushed, with no gap, and all of it newer than the last key read,
\* whatever full queues, wait events that drop partial keys and resets did.
NoKeySkipped ==
  /\ \A i \in 1..Len(queue) : queue[i].n = pressed - Len(queue) + i
  /\ queue # <<>> => Head(queue).n > lastRead

\* A key that waits for its notification has a signalled event or a running
\* handler: keys pushed while the handler runs, when several signals of the
\* event run it once, are not left behind.
NotifyServed == notifyQueue # <<>> => pending \/ handler.pc # "idle"

\* The walk of NotifyList stands on an allocated registration unless the
\* function called has itself taken that registration away: register and
\* unregister of any other, in the middle of the walk, leave its entry in
\* place.  An address is in the list exactly as long as it is allocated, after
\* a walk that went astray too.
WalkOnLive ==
  /\ handler.pc = "call" => handler.link \in DOMAIN reg
  /\ Range(notifyList) = DOMAIN reg /\ IsInjective(notifyList)

=============================================================================
