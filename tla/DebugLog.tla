------------------------------- MODULE DebugLog -------------------------------
(***************************************************************************)
(* The debug output of the firmware (FrameBufferSerialPort.c): every byte  *)
(* goes to a ring in reserved memory that outlives the boot, and to the    *)
(* frame buffer as text.  The regions are looked up by name on every call. *)
(*                                                                         *)
(* The log memory is uncached, so each store is a step, and the phone may  *)
(* reset between two of them.  A reset keeps the ring and clears the       *)
(* frame buffer (ClearFrameBuffer in Sec.c).  Interrupts are off while     *)
(* bytes are written, and one core runs.                                   *)
(***************************************************************************)
EXTENDS Naturals, Sequences

CONSTANTS
  Declared,     \* memory map regions: "Display", "Silicium_Log", "UEFI_Log"
  Small,        \* those no longer than the header of the log
  Size,         \* bytes of text behind the header of the log region
  Printable,    \* characters that are drawn
  LF, CR, Space, Skipped, \* newline, return, space, and what is not drawn
  Old,          \* a byte of memory nobody has written
  MaxX, MaxY    \* glyphs in a line, lines on the screen

Chars == Printable \union {LF, CR, Space, Skipped}

ASSUME DebugLogAssumption ==
  /\ Declared \subseteq {"Display", "Silicium_Log", "UEFI_Log"}
  /\ Small \subseteq Declared
  /\ Size \in Nat \ {0} /\ MaxX \in Nat \ {0} /\ MaxY \in Nat \ {0}
  /\ Old \notin Chars

VARIABLES
  pc,       \* the next store of SerialPortWrite, or "idle"
  char,     \* the byte being written
  target,   \* the region the log copy goes to: declared, "none" or "wild"
  haveFb,   \* likewise for the frame buffer
  magic, cursor, wrapped, text,   \* LOG_BUFFER_HEADER and the ring
  textFirst, \* how the build orders the stores of Text[Header->Cursor++] = Char
  x, y,     \* EFI_FRAME_BUFFER_POSITION, at the end of the display region
  said,     \* history: the bytes a reader should find, newest last
  lost      \* history: a reset between the two stores of a wrap

ring   == <<magic, cursor, wrapped, text>>
screen == <<x, y>>
past   == <<said, lost>>
vars   == <<pc, char, target, haveFb, ring, textFirst, screen, past>>

Slots == 0..Size - 1

-----------------------------------------------------------------------------
\* What the header says the ring holds: the part behind the cursor, once the
\* ring has been around, and the part before it.
SlotsAsSeq(a, b) == [i \in 1..b - a |-> text[a + i - 1]]
Recovered ==
  IF cursor > Size THEN SlotsAsSeq(0, Size)
  ELSE (IF wrapped THEN SlotsAsSeq(cursor, Size) ELSE <<>>) \o SlotsAsSeq(0, cursor)

\* Old stands for any byte.
Newest(s)   == IF Len(s) <= Size THEN s ELSE Tail(s)
Unknown(n)  == [i \in 1..n |-> Old]

\* Power on: the memory holds anything, also a log of a larger region.
Init ==
  /\ pc = "idle" /\ char = Old /\ target = "none" /\ haveFb = FALSE
  /\ magic \in BOOLEAN /\ cursor \in 0..Size + 1 /\ wrapped \in BOOLEAN
  /\ text = [i \in Slots |-> Old] /\ textFirst \in BOOLEAN
  /\ x = 0 /\ y = 0
  /\ said = Unknown(Len(Recovered)) /\ lost = FALSE

-----------------------------------------------------------------------------
(***************************************************************************)
(* LocateMemoryRegionByName leaves its result alone when the name is not   *)
(* in the map, and the caller's FbRegion and LogRegion are uninitialized:  *)
(* they may read as zero or as anything.                                   *)
(***************************************************************************)
Located(name) == IF name \in Declared THEN {name} ELSE {"none", "wild"}

\* A region that is found but too small is refused, without trying the other one.
GetLogBufferMemory ==
  LET found == UNION {IF first = "none" THEN Located("UEFI_Log") ELSE {first} :
                        first \in Located("Silicium_Log")}
  IN  {IF region \in Small THEN "none" ELSE region : region \in found}

\* The locals are taken to be zero.
GetLogBufferMemoryZeroed ==
  IF "Silicium_Log" \in Declared THEN {"Silicium_Log"}
  ELSE {IF "UEFI_Log" \in Declared THEN "UEFI_Log" ELSE "none"}

\* SerialPortWrite is called with one byte or more; each byte is a call here.
SerialPortWrite ==
  /\ pc = "idle"
  /\ target' \in GetLogBufferMemory
  /\ haveFb' \in {fb # "none" : fb \in Located("Display")}
  /\ char' \in Chars
  /\ pc' = IF target' \notin {"none", "wild"} THEN "magic" ELSE IF haveFb' THEN "draw" ELSE "idle"
  /\ UNCHANGED <<ring, textFirst, screen, past>>

\* Every byte starts a ring.
FreshAlways == TRUE

\* A fresh ring, unless a log is there already.
Fresh == ~magic

CopyMagic ==
  /\ pc = "magic" /\ Fresh /\ magic' = TRUE /\ pc' = "cursor"
  /\ said' = IF magic THEN said ELSE <<>>
  /\ lost' = (lost /\ magic)
  /\ UNCHANGED <<char, target, haveFb, cursor, wrapped, text, textFirst, screen>>

ClearCursor ==
  /\ pc = "cursor" /\ cursor' = 0 /\ pc' = "wrapped"
  /\ UNCHANGED <<char, target, haveFb, magic, wrapped, text, textFirst, screen, past>>

ClearWrapped ==
  /\ pc = "wrapped" /\ wrapped' = FALSE /\ pc' = "room"
  /\ UNCHANGED <<char, target, haveFb, magic, cursor, text, textFirst, screen, past>>

KeepLog ==
  /\ pc = "magic" /\ ~Fresh /\ pc' = "room"
  /\ UNCHANGED <<char, target, haveFb, ring, textFirst, screen, past>>

\* Off by one.
FullOneLate == cursor > Size

Full == cursor >= Size

Wrap ==
  /\ pc = "room" /\ Full /\ cursor' = 0 /\ pc' = "wrap"
  /\ UNCHANGED <<char, target, haveFb, magic, wrapped, text, textFirst, screen, past>>

SetWrapped ==
  /\ pc = "wrap" /\ wrapped' = TRUE /\ lost' = FALSE /\ pc' = "store"
  /\ UNCHANGED <<char, target, haveFb, magic, cursor, text, textFirst, screen, said>>

Room ==
  /\ pc = "room" /\ ~Full /\ pc' = "store"
  /\ UNCHANGED <<char, target, haveFb, ring, textFirst, screen, past>>

AfterLog == IF haveFb THEN "draw" ELSE "idle"

\* Text[Header->Cursor++] = Char, one store after the other.
StoreText ==
  /\ \/ pc = "store" /\ textFirst /\ pc' = "advance" /\ text' = [text EXCEPT ![cursor] = char]
     \/ pc = "late" /\ pc' = AfterLog /\ text' = [text EXCEPT ![cursor - 1] = char]
  /\ said' = IF pc = "late" THEN Newest(Append(said, char)) ELSE said
  /\ UNCHANGED <<char, target, haveFb, magic, cursor, wrapped, textFirst, screen, lost>>

Advance ==
  /\ \/ pc = "store" /\ ~textFirst /\ pc' = "late" /\ UNCHANGED said
     \/ pc = "advance" /\ pc' = AfterLog /\ said' = Newest(Append(said, char))
  /\ cursor' = cursor + 1
  /\ UNCHANGED <<char, target, haveFb, magic, wrapped, text, textFirst, screen, lost>>

-----------------------------------------------------------------------------
\* Without a test for the last line.
NewLineUncleared == x' = 0 /\ y' = y + 1

\* Behind the last line the screen is cleared.
AdvanceNewLine == x' = 0 /\ y' = IF y + 1 >= MaxY THEN 0 ELSE y + 1

Drawn == char \in Printable \/ (char = Space /\ x # 0)

WriteFrameBuffer ==
  /\ pc = "draw" /\ pc' = "idle"
  /\ CASE char = LF -> AdvanceNewLine
       [] char = CR -> x' = 0 /\ y' = y
       [] Drawn     -> IF x + 1 >= MaxX THEN AdvanceNewLine ELSE x' = x + 1 /\ y' = y
       [] OTHER     -> UNCHANGED screen
  /\ UNCHANGED <<char, target, haveFb, ring, textFirst, past>>

\* A reset.  What the stores under way leave behind is what a reader will find.
Reset ==
  /\ pc' = "idle" /\ x' = 0 /\ y' = 0
  /\ said' = CASE pc \in {"cursor", "wrapped"} -> Unknown(Len(Recovered))
               [] pc = "late"    -> Newest(Append(said, Old))
               [] pc = "advance" /\ Len(said) = Size -> <<Old>> \o Tail(said)
               [] OTHER          -> said
  /\ lost' = (lost \/ (pc = "wrap" /\ ~wrapped))
  /\ UNCHANGED <<char, target, haveFb, ring, textFirst>>

Next ==
  \/ SerialPortWrite \/ CopyMagic \/ ClearCursor \/ ClearWrapped \/ KeepLog
  \/ Wrap \/ SetWrapped \/ Room \/ StoreText \/ Advance \/ WriteFrameBuffer \/ Reset

Spec == Init /\ [][Next]_vars

-----------------------------------------------------------------------------
\* Glyphs are drawn on the screen, never past its last line or column: the
\* cursor of the frame buffer stays in its bounds.
CursorOnScreen == x \in 0..MaxX - 1 /\ y \in 0..MaxY - 1

\* No byte is stored outside the region, whatever header the memory held at
\* power on and wherever a reset cut the stores.
StoresInRing ==
  /\ pc \in {"store", "advance"} => cursor \in Slots
  /\ pc = "late" => cursor - 1 \in Slots

\* "The Tail is always the most recent thing that happened": between bytes and
\* after any reset the ring reads back as the last bytes written, over warm
\* reboots, and as all that fit unless a reset came inside a wrap.
TailIsRecent ==
  pc = "idle" /\ magic =>
    LET seen == Recovered  behind == Len(said) - Len(seen) IN
    /\ behind >= 0 /\ (behind > 0 => lost)
    /\ \A i \in 1..Len(seen) : said[behind + i] \in {Old, seen[i]}

-----------------------------------------------------------------------------
\* What a comment says and the code does not do: platforms get a copy of every
\* byte in "Silicium_Log" or, "failing that", in "UEFI_Log".
LogIsWritten == pc # "idle" /\ "UEFI_Log" \in Declared \ Small => target \in Declared
=============================================================================
