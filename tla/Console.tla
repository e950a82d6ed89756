------------------------------- MODULE Console -------------------------------
(***************************************************************************)
(* Text on the screen: the renderer's text cursor (BasicRenderer.c:26-91), *)
(* used by the keyboard interrupt (keyboard.c), by the main thread, which  *)
(* prints its last line with interrupts already enabled                    *)
(* (kernel.c:120-125), and by the panic handler (panic.c).                 *)
(*                                                                         *)
(* An interrupt runs to its end; the main thread can be interrupted        *)
(* between any two accesses to the cursor.  Print keeps the cursor in      *)
(* registers and writes it back after each character, as the compiler's    *)
(* -O3 has it.  X counts pixels, Y rows of text (16 scan lines).  A        *)
(* character is drawn over what is there; nothing scrolls, and behind the  *)
(* last row nothing is mapped: drawing there is a page fault.              *)
(***************************************************************************)
EXTENDS Integers

CONSTANTS
  CharWidth,          \* pixels of a character: 8 in the source
  Width,              \* of the screen, in pixels; no multiple of CharWidth is asked for
  PixelsPerScanLine,
  Height,             \* of the screen, in rows of text
  Message,            \* characters of the line the main thread prints
  Title, PanicText,   \* of "Kernel Panic:", and of what PageFault_Handler adds
  Scancodes,          \* that the keyboard may send
  MaxKeys             \* bound: keys pressed and released

\* The two lines of a panic fit: at most 33 characters, 264 pixels.
ASSUME ConsoleAssumption ==
  /\ CharWidth \in Nat \ {0} /\ Width \in Nat /\ Width >= 2 * CharWidth
  /\ PixelsPerScanLine \in Nat /\ PixelsPerScanLine >= Width
  /\ Height \in Nat \ {0, 1, 2}
  /\ {Message, Title, PanicText} \subseteq Nat \ {0}
  /\ (Title + 1) * CharWidth <= Width /\ PanicText * CharWidth <= Width
  /\ Scancodes \subseteq 0 .. 255
  /\ MaxKeys \in Nat

VARIABLES
  X, Y,         \* CursorPosition
  printing,     \* the text Print is called with
  pc,           \* where the processor is
  rx, ry,       \* its registers
  left,         \* characters left to print
  isLeftShiftPressed, isRighttShiftPressed,
  drawn,        \* pixel columns of the rows with a character, or what is left of one
  overprinted,  \* history: a character was drawn on these since Clear
  fault,        \* a page fault was raised
  panics,       \* calls of Panic, up to 2
  keys,         \* keyboard interrupts
  interleaved,  \* history: a key was handled while the main thread was printing
  stranded      \* history: Backspace had less than a character to erase

cursor   == <<X, Y>>
thread   == <<printing, pc, rx, ry, left>>
keyboard == <<isLeftShiftPressed, isRighttShiftPressed>>
screen   == <<drawn, overprinted, fault>>
history  == <<interleaved, stranded>>
vars     == <<cursor, thread, keyboard, screen, panics, keys, history>>

Cells == (0 .. PixelsPerScanLine - 1) \X (0 .. Height - 1)

\* The texts Print is called with, and their lengths.
Texts      == {"line", "title", "message"}
Characters == [line |-> Message, title |-> Title, message |-> PanicText]

LeftShift  == 42
RightShift == 54
Enter      == 28
BackSpace  == 14
Spacebar   == 57
Released   == 128

\* The rows above are full of what was printed before.
Init == /\ X = 0 /\ Y \in 0 .. Height - 1
        /\ printing = "line" /\ pc = "load" /\ rx = 0 /\ ry = 0 /\ left = Message
        /\ isLeftShiftPressed = FALSE /\ isRighttShiftPressed = FALSE
        /\ drawn = {cell \in Cells : cell[2] < Y /\ cell[1] < Width - (Width % CharWidth)}
        /\ overprinted = FALSE /\ fault = FALSE
        /\ panics = 0 /\ keys = 0
        /\ interleaved = FALSE /\ stranded = FALSE

-----------------------------------------------------------------------------
(* Mutants: what the definitions of the same names, less the part behind   *)
(* the underscore, would be with a bug in the renderer or in Panic.        *)

\* A row is taken to have one more character.
RowIsFull_Late(x) == x > Width

\* Backspace moves above the first row.
RowAbove_Unchecked(y) == y - 1

\* Backspace clears what is behind the cursor.
Erased_Behind(x) == x

\* Panic does not set the cursor back.
PanicRow_Left == Y

-----------------------------------------------------------------------------
(* The renderer.                                                           *)

\* No character fits in the row from x on.
RowIsFull(x) == x + CharWidth > Width

\* The pixel columns of a character at x.  What is right of the scan line's end
\* is at the beginning of the next one: of the same row, but for the
\* character's last line.
Columns(x, y) ==
  {cell \in Cells :
     \/ cell[2] = y /\ cell[1] \in x .. x + CharWidth - 1
     \/ cell[2] \in {y, y + 1} /\ cell[1] + PixelsPerScanLine \in x .. x + CharWidth - 1}

\* PutChar: one more character on these columns, or a page fault.
Draw(x, y) ==
  IF y < Height
  THEN /\ drawn' = drawn \cup Columns(x, y)
       /\ overprinted' = (overprinted \/ drawn \cap Columns(x, y) # {})
       /\ UNCHANGED fault
  ELSE fault' = TRUE /\ UNCHANGED <<drawn, overprinted>>

\* The cursor behind the character, or in the next row.
Advance == IF RowIsFull(X + CharWidth) THEN X' = 0 /\ Y' = Y + 1
                                       ELSE X' = X + CharWidth /\ UNCHANGED Y

\* The cursor does not move when PutChar faults.
PutCharS == /\ Draw(X, Y)
            /\ IF Y < Height THEN Advance ELSE UNCHANGED cursor
            /\ UNCHANGED stranded

\* A space has no pixel to draw: it moves the cursor only, and never faults.
PutSpace == Advance /\ UNCHANGED <<screen, stranded>>

RowAbove(y) == IF y - 1 < 0 THEN 0 ELSE y - 1

Erased(x) == x - CharWidth

\* The second half of ClearChar, from the position on that the cursor has then.
\* With less than a character in front of it, xOff - 8 is a huge number, the
\* loop over x has no round, nothing is erased, and the cursor goes to the very
\* end of the row above.
EraseBefore(x, y) ==
  CASE x < CharWidth -> /\ X' = Width /\ Y' = RowAbove(y)
                        /\ stranded' = TRUE
                        /\ UNCHANGED screen
    [] x >= CharWidth /\ y < Height ->
         /\ X' = x - CharWidth /\ Y' = y
         /\ drawn' = drawn \ Columns(Erased(x), y)
         /\ UNCHANGED <<overprinted, fault, stranded>>
    [] OTHER -> /\ X' = x /\ Y' = y
                /\ fault' = TRUE
                /\ UNCHANGED <<drawn, overprinted, stranded>>

\* The character in front of the cursor, or at the end of the row above.  In the
\* first row that is the end of the same row.
ClearChar == IF X = 0 THEN EraseBefore(Width, RowAbove(Y)) ELSE EraseBefore(X, Y)

\* The procedure Next.
NextLine == X' = 0 /\ Y' = Y + 1 /\ UNCHANGED <<screen, stranded>>

-----------------------------------------------------------------------------
(* The keyboard.                                                           *)

TableSize == 58

\* The entries of ASCIITable that are not 0.
Printable(code) ==
  \/ code \in 2 .. 13 \/ code \in 16 .. 27 \/ code \in 30 .. 41
  \/ code \in {43, 55, 57} \/ code \in 44 .. 53

\* The last of them, 58, is one behind the table.
Implemented(code) == code <= 58

\* Whether Translate returns a character.  With uppercase it subtracts 32 from
\* whatever it finds, the 0 of an unused entry too; behind the table it finds
\* anything.
Translate(code, uppercase) ==
  IF ~Implemented(code) THEN {FALSE}
  ELSE IF uppercase THEN {TRUE}
  ELSE IF code < TableSize THEN {Printable(code)}
  ELSE BOOLEAN

Key(code) ==
  /\ \E character \in Translate(code, isLeftShiftPressed \/ isRighttShiftPressed) :
       IF character THEN PutCharS ELSE UNCHANGED <<cursor, screen, stranded>>
  /\ UNCHANGED <<isLeftShiftPressed, isRighttShiftPressed>>

Shift(code) ==
  /\ isLeftShiftPressed' = IF code % Released = LeftShift THEN code < Released
                                                         ELSE isLeftShiftPressed
  /\ isRighttShiftPressed' = IF code % Released = RightShift THEN code < Released
                                                            ELSE isRighttShiftPressed
  /\ UNCHANGED <<cursor, screen, stranded>>

HandleKeyboard(code) ==
  CASE code % Released \in {LeftShift, RightShift} -> Shift(code)
    [] code = Enter     -> NextLine /\ UNCHANGED keyboard
    [] code = Spacebar  -> PutSpace /\ UNCHANGED keyboard
    [] code = BackSpace -> ClearChar /\ UNCHANGED keyboard
    [] OTHER            -> Key(code)

\* Panic never turns interrupts on again: the gate of the page fault turned them
\* off.
KeyboardInterrupt ==
  /\ ~fault /\ panics = 0
  /\ keys < MaxKeys /\ keys' = keys + 1
  /\ \E code \in Scancodes : HandleKeyboard(code)
  /\ interleaved' = (interleaved \/ pc # "loop")
  /\ UNCHANGED <<thread, panics>>

-----------------------------------------------------------------------------
(* Print, called by the main thread for its last line and by Panic twice.  *)

At(step) == ~fault /\ pc = step

Load == /\ At("load")
        /\ rx' = X /\ ry' = Y
        /\ pc' = "draw"
        /\ UNCHANGED <<cursor, printing, left, keyboard, screen, panics, keys, history>>

\* PutChar of the next character.
PrintChar == /\ At("draw")
             /\ Draw(rx, ry)
             /\ left' = left - 1
             /\ pc' = "store"
             /\ UNCHANGED <<cursor, printing, rx, ry, keyboard, panics, keys, history>>

\* What comes after the text.
Printed == CASE printing = "line"    -> "next"
             [] printing = "title"   -> "lines"
             [] printing = "message" -> "halt"

Continue == IF left = 0 THEN Printed ELSE "draw"

Store == /\ At("store")
         /\ X' = rx + CharWidth /\ rx' = rx + CharWidth
         /\ pc' = IF RowIsFull(rx + CharWidth) THEN "wrapX" ELSE Continue
         /\ UNCHANGED <<Y, printing, ry, left, keyboard, screen, panics, keys, history>>

WrapX == /\ At("wrapX")
         /\ X' = 0 /\ rx' = 0
         /\ pc' = "wrapY"
         /\ UNCHANGED <<Y, printing, ry, left, keyboard, screen, panics, keys, history>>

WrapY == /\ At("wrapY")
         /\ Y' = ry + 1 /\ ry' = ry + 1
         /\ pc' = Continue
         /\ UNCHANGED <<X, printing, rx, left, keyboard, screen, panics, keys, history>>

\* The main thread starts a new line.  Next sets X and Y; the source has X first,
\* the build Y.
NextX == /\ At("next") \/ At("nextX")
         /\ X' = 0
         /\ pc' = IF pc = "next" THEN "nextY" ELSE "loop"
         /\ UNCHANGED <<Y, printing, rx, ry, left, keyboard, screen, panics, keys, history>>

NextY == /\ At("next") \/ At("nextY")
         /\ Y' = Y + 1
         /\ pc' = IF pc = "next" THEN "nextX" ELSE "loop"
         /\ UNCHANGED <<X, printing, rx, ry, left, keyboard, screen, panics, keys, history>>

-----------------------------------------------------------------------------
(* PageFault_Handler and Panic, with interrupts off.  Panic prints like    *)
(* the main thread, and a page fault in it calls it again.                 *)

PanicRow == 0

\* Print from a position on, in a thread nobody interrupts.
Call(text, y) ==
  /\ X' = 0 /\ Y' = y /\ rx' = 0 /\ ry' = y
  /\ printing' = text /\ left' = Characters[text]
  /\ pc' = "draw"

\* The screen is cleared, the cursor set back, and the title comes first.
Panic == /\ fault
         /\ fault' = FALSE
         /\ panics' = IF panics < 2 THEN panics + 1 ELSE 2
         /\ drawn' = {} /\ overprinted' = FALSE
         /\ Call("title", PanicRow)
         /\ UNCHANGED <<keyboard, keys, history>>

\* Next, Next, and the message.
PanicLines == /\ At("lines")
              /\ Call("message", Y + 2)
              /\ UNCHANGED <<keyboard, screen, panics, keys, history>>

Next == \/ KeyboardInterrupt
        \/ Load \/ PrintChar \/ Store \/ WrapX \/ WrapY \/ NextX \/ NextY
        \/ Panic \/ PanicLines

Spec == Init /\ [][Next]_vars

-----------------------------------------------------------------------------
\* The types of the state.
TypeOK ==
  /\ X \in 0 .. Width + CharWidth /\ Y \in Nat
  /\ printing \in Texts
  /\ pc \in {"load", "draw", "store", "wrapX", "wrapY", "next", "nextX", "nextY", "loop",
            "lines", "halt"}
  /\ rx \in 0 .. Width + CharWidth /\ ry \in Nat
  /\ left \in 0 .. Characters[printing]
  /\ {isLeftShiftPressed, isRighttShiftPressed, fault, overprinted, interleaved, stranded}
       \subseteq BOOLEAN
  /\ drawn \subseteq Cells
  /\ panics \in 0 .. 2 /\ keys \in 0 .. MaxKeys

\* However the keyboard interrupts the main thread, a character fits in the row
\* at the cursor, except while Print has stored a full row's end and not yet
\* wrapped it (BasicRenderer.c:39-43), after a fault in ClearChar, and where
\* Backspace had less than a character to erase: it leaves the cursor at the
\* very end of a row (80-84).
CursorIsInRow == \/ X + CharWidth <= Width
                 \/ pc = "wrapX" \/ fault
                 \/ stranded /\ X = Width

\* No character is drawn on top of another, although nothing is erased before
\* it is drawn on and Enter and Backspace move the cursor about, unless a key
\* was handled while the main thread was printing or Backspace had less than a
\* character to erase, which stays where the next row begins.
NothingIsOverprinted ==
  overprinted => interleaved \/ stranded

\* A text of so many characters at the beginning of a row.
TextIn(row, characters) == {cell \in Cells : cell[2] = row /\ cell[1] < characters * CharWidth}

\* Wherever the cursor was at the fault, Panic, which prints with the renderer
\* that faulted, does not fault again (panic.c:6-12), and when it is done the
\* screen has its two lines and nothing else.
PanicIsShown ==
  /\ panics <= 1 /\ (panics = 1 => ~fault)
  /\ pc = "halt" => ~overprinted /\ drawn = TextIn(0, Title) \cup TextIn(2, PanicText)
=============================================================================
