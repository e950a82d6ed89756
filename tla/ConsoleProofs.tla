----------------------------- MODULE ConsoleProofs -----------------------------
(***************************************************************************)
(* The text cursor, for every size of the screen, every line the main      *)
(* thread prints and every keyboard.                                       *)
(*                                                                         *)
(* TypeOK is not inductive: Print keeps the cursor in registers, which are *)
(* in a row when the cursor is.  That nothing is overprinted rests on all  *)
(* columns behind the cursor being blank, wherever Enter and Backspace     *)
(* take it; that the panic is shown, on where its text has come to.        *)
(***************************************************************************)
EXTENDS Console, TLAPS

Rows == 0 .. Height - 1

Typed ==
  /\ TypeOK
  /\ CursorIsInRow
  /\ pc # "wrapX" => rx <= Width
  /\ pc \in {"load", "draw"} => left > 0

\* What Panic has done: its text is the whole screen, and the cursor is behind it.
PanicGoesOn ==
  /\ panics <= 1 /\ (panics = 0 <=> printing = "line")
  /\ pc \in {"lines", "halt"} => panics = 1
  /\ panics = 1 => ~fault /\ ~overprinted /\ rx = X /\ ry = Y

PanicTitle ==
  printing = "title" =>
    /\ pc \in {"draw", "store", "lines"} /\ Y = 0
    /\ pc \in {"draw", "lines"} => X = (Title - left) * CharWidth
    /\ pc = "store" => left < Title /\ X + CharWidth = (Title - left) * CharWidth
    /\ pc = "lines" => left = 0
    /\ drawn = TextIn(0, Title - left)

PanicMessage ==
  printing = "message" =>
    /\ pc \in {"draw", "store", "wrapX", "wrapY", "halt"}
    /\ pc \in {"draw", "store"} => Y = 2
    /\ pc = "draw" => X = (PanicText - left) * CharWidth
    /\ pc = "store" => left < PanicText /\ X + CharWidth = (PanicText - left) * CharWidth
    /\ pc \in {"wrapX", "wrapY", "halt"} => left = 0
    /\ drawn = TextIn(0, Title) \cup TextIn(2, PanicText - left)

Panicking == PanicGoesOn /\ PanicTitle /\ PanicMessage

\* All columns from a position on are blank.
BlankFrom(x, y) ==
  \A cell \in drawn : cell[1] < Width /\ (cell[2] < y \/ (cell[2] = y /\ cell[1] < x))

\* If no key came in between and Backspace always had a character to erase, the
\* registers and the cursor agree, and what is behind them is blank.
Ahead ==
  panics = 0 /\ ~interleaved /\ ~stranded =>
    /\ ~overprinted
    /\ pc \in {"draw", "store", "wrapX", "wrapY", "next"} /\ ~fault => rx = X /\ ry = Y
    /\ ~fault =>
         CASE pc = "store"                       -> BlankFrom(X + CharWidth, Y)
           [] pc \in {"wrapX", "wrapY", "nextY"} -> BlankFrom(0, Y + 1)
           [] pc = "nextX"                       -> BlankFrom(0, Y)
           [] OTHER                              -> BlankFrom(X, Y)

-----------------------------------------------------------------------------
(* The renderer.                                                           *)

\* The screen and the texts.
LEMMA Sizes ==
  /\ CharWidth \in Nat /\ CharWidth >= 1 /\ Width \in Nat /\ Width >= CharWidth + CharWidth
  /\ PixelsPerScanLine \in Nat /\ PixelsPerScanLine >= Width
  /\ Height \in Nat /\ Height >= 3 /\ MaxKeys \in Nat
  /\ Message \in Nat /\ Message >= 1 /\ Title \in Nat /\ Title >= 1
  /\ PanicText \in Nat /\ PanicText >= 1
  /\ Cells = (0 .. PixelsPerScanLine - 1) \X Rows
<1>1. 2 * CharWidth = CharWidth + CharWidth
  BY ConsoleAssumption
<1>2. QED
  BY <1>1, ConsoleAssumption DEF Cells, Rows

\* The lengths of the texts.
LEMMA Lengths ==
  /\ Characters["line"] = Message /\ Characters["title"] = Title
  /\ Characters["message"] = PanicText
  /\ \A text \in Texts : Characters[text] \in Nat /\ Characters[text] >= 1
BY Sizes DEF Characters, Texts

\* A cell of the screen.
LEMMA Cell ==
  ASSUME NEW cell \in Cells
  PROVE  /\ cell[1] \in Nat /\ cell[2] \in Nat
         /\ cell[1] < PixelsPerScanLine /\ cell[2] < Height
BY Sizes DEF Rows

\* One character more.
LEMMA OneMore ==
  ASSUME NEW k \in Nat
  PROVE  /\ k * CharWidth \in Nat /\ (k + 1) * CharWidth = k * CharWidth + CharWidth
         /\ 0 * CharWidth = 0
BY Sizes

\* A longer text is wider.
LEMMA Wider ==
  ASSUME NEW k \in Nat, NEW n \in Nat, k <= n
  PROVE  k * CharWidth <= n * CharWidth
BY Sizes

\* A character that fits in the row is on its own columns only.
LEMMA InItsRow ==
  ASSUME NEW x \in Nat, NEW y \in Nat, x + CharWidth <= Width
  PROVE  Columns(x, y) = {cell \in Cells : cell[2] = y /\ cell[1] >= x /\ cell[1] < x + CharWidth}
<1>1. ASSUME NEW cell \in Cells
      PROVE  /\ cell[1] + PixelsPerScanLine \notin x .. x + CharWidth - 1
             /\ cell[1] \in x .. x + CharWidth - 1 <=> cell[1] >= x /\ cell[1] < x + CharWidth
  BY Sizes, Cell
<1>2. QED
  BY <1>1 DEF Columns

\* What a key does.
LEMMA KeyEffect ==
  ASSUME KeyboardInterrupt
  PROVE  /\ ~fault /\ panics = 0 /\ UNCHANGED <<thread, panics>>
         /\ keys < MaxKeys /\ keys' = keys + 1
         /\ interleaved' = (interleaved \/ pc # "loop")
         /\ \/ UNCHANGED <<cursor, screen, stranded>>
            \/ PutCharS
            \/ PutSpace
            \/ NextLine
            \/ ClearChar
BY DEF KeyboardInterrupt, HandleKeyboard, Shift, Key

\* Where ClearChar starts.
LEMMA ClearStarts ==
  ASSUME TypeOK, ClearChar
  PROVE  \E x \in 1 .. Width + CharWidth, y \in Nat :
           /\ EraseBefore(x, y)
           /\ (X # 0 /\ x = X /\ y = Y) \/ (X = 0 /\ x = Width /\ y = RowAbove(Y))
<1>1. X \in 0 .. Width + CharWidth /\ Y \in Nat
  BY DEF TypeOK
<1>2. RowAbove(Y) \in Nat
  BY <1>1 DEF RowAbove
<1>3. CASE X = 0
  <2>1. EraseBefore(Width, RowAbove(Y)) /\ Width \in 1 .. Width + CharWidth
    BY <1>3, Sizes DEF ClearChar
  <2>2. QED
    BY <1>2, <1>3, <2>1
<1>4. CASE X # 0
  <2>1. EraseBefore(X, Y) /\ X \in 1 .. Width + CharWidth
    BY <1>1, <1>4, Sizes DEF ClearChar
  <2>2. QED
    BY <1>1, <1>4, <2>1
<1>5. QED
  BY <1>3, <1>4

\* Its three outcomes.
LEMMA EraseEffect ==
  ASSUME NEW x \in 1 .. Width + CharWidth, NEW y \in Nat, EraseBefore(x, y)
  PROVE  \/ /\ x < CharWidth /\ X' = Width /\ Y' = RowAbove(y)
            /\ stranded' = TRUE /\ UNCHANGED screen
         \/ /\ x >= CharWidth /\ y < Height /\ X' = x - CharWidth /\ Y' = y
            /\ drawn' = drawn \ Columns(x - CharWidth, y)
            /\ UNCHANGED <<overprinted, fault, stranded>>
         \/ /\ x >= CharWidth /\ X' = x /\ Y' = y
            /\ fault' = TRUE /\ UNCHANGED <<drawn, overprinted, stranded>>
<1>1. CASE x < CharWidth
  <2>1. ~(x >= CharWidth)
    BY <1>1, Sizes
  <2>2. QED
    BY <1>1, <2>1 DEF EraseBefore, screen
<1>2. CASE ~(x < CharWidth)
  <2>1. x >= CharWidth
    BY <1>2, Sizes
  <2>2. CASE y < Height
    BY <1>2, <2>1, <2>2 DEF EraseBefore, Erased
  <2>3. CASE ~(y < Height)
    BY <1>2, <2>1, <2>3 DEF EraseBefore
  <2>4. QED
    BY <2>2, <2>3
<1>3. QED
  BY <1>1, <1>2

\* Shift keys are on or off.
LEMMA ShiftTypes ==
  ASSUME TypeOK, KeyboardInterrupt
  PROVE  {isLeftShiftPressed, isRighttShiftPressed}' \subseteq BOOLEAN
<1>1. PICK code \in Scancodes : HandleKeyboard(code)
  BY DEF KeyboardInterrupt
<1>2. CASE UNCHANGED keyboard
  BY <1>2 DEF keyboard, TypeOK
<1>3. CASE Shift(code)
  <2>1. isLeftShiftPressed' = isLeftShiftPressed \/ isLeftShiftPressed' = (code < Released)
    BY <1>3 DEF Shift
  <2>2. isRighttShiftPressed' = isRighttShiftPressed \/ isRighttShiftPressed' = (code < Released)
    BY <1>3 DEF Shift
  <2>3. (code < Released) \in BOOLEAN
    OBVIOUS
  <2>4. QED
    BY <2>1, <2>2, <2>3 DEF TypeOK
<1>4. QED
  BY <1>1, <1>2, <1>3 DEF HandleKeyboard, Key, keyboard
-----------------------------------------------------------------------------
(* Types, and how far the cursor gets.                                     *)

Thread == Load \/ PrintChar \/ Store \/ WrapX \/ WrapY \/ NextX \/ NextY

\* At first,
LEMMA TypedInit == Init => Typed
<1>1. SUFFICES ASSUME Init PROVE Typed
  OBVIOUS
<1>2. left \in 0 .. Characters[printing] /\ left > 0
  BY <1>1, Lengths, Sizes DEF Init
<1>3. X \in 0 .. Width + CharWidth /\ X + CharWidth <= Width /\ Y \in Nat
      /\ rx \in 0 .. Width + CharWidth /\ rx <= Width /\ ry \in Nat
      /\ panics \in 0 .. 2 /\ keys \in 0 .. MaxKeys
  BY <1>1, Sizes DEF Init
<1>4. {isLeftShiftPressed, isRighttShiftPressed, fault, overprinted, interleaved, stranded}
        \subseteq BOOLEAN
  BY <1>1 DEF Init
<1>5. drawn \subseteq Cells /\ printing \in Texts /\ pc = "load"
  BY <1>1 DEF Init, Texts
<1>6. QED
  BY <1>2, <1>3, <1>4, <1>5 DEF Typed, TypeOK, CursorIsInRow

\* The numbers of Typed.
LEMMA TypedNumbers ==
  ASSUME Typed
  PROVE  /\ X \in 0 .. Width + CharWidth /\ Y \in Nat /\ rx \in 0 .. Width + CharWidth /\ ry \in Nat
         /\ left \in 0 .. Characters[printing] /\ left \in Nat /\ printing \in Texts
         /\ Characters[printing] \in Nat
         /\ ~fault /\ pc # "wrapX" => X <= Width /\ (X + CharWidth <= Width \/ stranded)
BY Lengths, Sizes DEF Typed, TypeOK, CursorIsInRow

\* The flags.
LEMMA TypedFlags ==
  ASSUME Typed
  PROVE  /\ isLeftShiftPressed \in BOOLEAN /\ isRighttShiftPressed \in BOOLEAN
         /\ fault \in BOOLEAN /\ overprinted \in BOOLEAN
         /\ interleaved \in BOOLEAN /\ stranded \in BOOLEAN
BY DEF Typed, TypeOK

\* Where Advance takes the cursor.
LEMMA AdvanceEffect ==
  ASSUME X \in Nat, Y \in Nat, Advance
  PROVE  \/ X + CharWidth + CharWidth > Width /\ X' = 0 /\ Y' = Y + 1
         \/ X' = X + CharWidth /\ X' + CharWidth <= Width /\ Y' = Y
<1>1. CASE RowIsFull(X + CharWidth)
  BY <1>1 DEF Advance, RowIsFull
<1>2. CASE ~RowIsFull(X + CharWidth)
  BY <1>2, Sizes DEF Advance, RowIsFull
<1>3. QED
  BY <1>1, <1>2

\* What the screen can become, and what a fault is.
LEMMA DrawTypes ==
  ASSUME drawn \subseteq Cells, overprinted \in BOOLEAN, ~fault, fault \in BOOLEAN,
         NEW x \in Nat, NEW y \in Nat, Draw(x, y)
  PROVE  /\ drawn' \subseteq Cells /\ overprinted' \in BOOLEAN /\ fault' \in BOOLEAN
         /\ fault' <=> y >= Height
<1>1. CASE y < Height
  BY <1>1, Sizes DEF Draw, Columns
<1>2. CASE ~(y < Height)
  BY <1>2, Sizes DEF Draw
<1>3. QED
  BY <1>1, <1>2

\* after a key,
LEMMA KeyKeepsTyped ==
  ASSUME Typed, KeyboardInterrupt
  PROVE  Typed'
<1>1. /\ ~fault /\ UNCHANGED <<printing, pc, rx, ry, left, panics>>
      /\ interleaved' = (interleaved \/ pc # "loop") /\ keys' = keys + 1 /\ keys < MaxKeys
  BY KeyEffect DEF thread
<1>2. {isLeftShiftPressed, isRighttShiftPressed}' \subseteq BOOLEAN
  BY ShiftTypes DEF Typed
<1>3. interleaved' \in BOOLEAN
  <2>1. (pc # "loop") \in BOOLEAN
    OBVIOUS
  <2>2. QED
    BY <1>1, <2>1, TypedFlags, Zenon
<1>4. keys' \in 0 .. MaxKeys
  BY <1>1, Sizes DEF Typed, TypeOK
<1>5. SUFFICES /\ X' \in 0 .. Width + CharWidth /\ Y' \in Nat /\ drawn' \subseteq Cells
               /\ overprinted' \in BOOLEAN /\ fault' \in BOOLEAN /\ stranded' \in BOOLEAN
               /\ CursorIsInRow'
  BY <1>1, <1>2, <1>3, <1>4 DEF Typed, TypeOK
<1>6. X \in 0 .. Width + CharWidth /\ X \in Nat /\ Y \in Nat /\ drawn \subseteq Cells
  BY TypedNumbers DEF Typed, TypeOK
<1>7. overprinted \in BOOLEAN /\ fault \in BOOLEAN /\ stranded \in BOOLEAN
  BY TypedFlags
<1>8. CASE UNCHANGED <<cursor, screen, stranded>>
  BY <1>1, <1>6, <1>7, <1>8 DEF cursor, screen, Typed, CursorIsInRow
<1>9. ASSUME Advance
      PROVE  X' \in 0 .. Width + CharWidth /\ Y' \in Nat /\ CursorIsInRow'
  BY <1>6, <1>9, AdvanceEffect, Sizes DEF CursorIsInRow
<1>10. CASE PutCharS
  <2>1. Draw(X, Y) /\ (IF Y < Height THEN Advance ELSE UNCHANGED cursor) /\ UNCHANGED stranded
    BY <1>10 DEF PutCharS
  <2>2. /\ drawn' \subseteq Cells /\ overprinted' \in BOOLEAN /\ fault' \in BOOLEAN
        /\ fault' <=> Y >= Height
    BY <1>1, <1>6, <1>7, <2>1, DrawTypes
  <2>3. CASE Y < Height
    BY <1>7, <1>9, <2>1, <2>2, <2>3
  <2>4. CASE ~(Y < Height)
    <3>1. UNCHANGED <<X, Y>> /\ fault'
      BY <1>6, <2>1, <2>2, <2>4, Sizes DEF cursor
    <3>2. QED
      BY <1>6, <1>7, <2>1, <2>2, <3>1 DEF CursorIsInRow
  <2>5. QED
    BY <2>3, <2>4
<1>11. CASE PutSpace
  BY <1>6, <1>7, <1>9, <1>11 DEF PutSpace, screen
<1>12. CASE NextLine
  BY <1>6, <1>7, <1>12, Sizes DEF NextLine, screen, CursorIsInRow
<1>13. CASE ClearChar
  <2>1. PICK x \in 1 .. Width + CharWidth, y \in Nat :
          /\ EraseBefore(x, y)
          /\ (X # 0 /\ x = X /\ y = Y) \/ (X = 0 /\ x = Width /\ y = RowAbove(Y))
    BY <1>13, ClearStarts DEF Typed
  <2>2. RowAbove(y) \in Nat
    BY DEF RowAbove
  <2>3. x <= Width \/ pc = "wrapX"
    BY <1>1, <2>1, TypedNumbers, Sizes
  <2>4. CASE x < CharWidth /\ X' = Width /\ Y' = RowAbove(y) /\ stranded' = TRUE /\ UNCHANGED screen
    BY <1>6, <1>7, <2>2, <2>4, Sizes DEF screen, CursorIsInRow
  <2>5. CASE /\ x >= CharWidth /\ X' = x - CharWidth /\ Y' = y
             /\ drawn' \subseteq drawn /\ UNCHANGED <<overprinted, fault, stranded>>
    BY <1>1, <1>6, <1>7, <2>3, <2>5, Sizes DEF CursorIsInRow
  <2>6. CASE /\ X' = x /\ Y' = y
             /\ fault' = TRUE /\ UNCHANGED <<drawn, overprinted, stranded>>
    BY <1>6, <1>7, <2>6, Sizes DEF CursorIsInRow
  <2>7. QED
    BY <2>1, <2>4, <2>5, <2>6, EraseEffect
<1>14. QED
  BY <1>8, <1>10, <1>11, <1>12, <1>13, KeyEffect

\* after a step of Print or Next,
LEMMA ThreadKeepsTyped ==
  ASSUME Typed, Thread
  PROVE  Typed'
<1>1. /\ ~fault /\ UNCHANGED <<printing, keyboard, panics, keys, interleaved, stranded>>
  BY DEF Thread, Load, PrintChar, Store, WrapX, WrapY, NextX, NextY, At, history
<1>2. SUFFICES /\ X' \in 0 .. Width + CharWidth /\ Y' \in Nat
               /\ rx' \in 0 .. Width + CharWidth /\ ry' \in Nat
               /\ left' \in 0 .. Characters[printing]
               /\ pc' \in {"load", "draw", "store", "wrapX", "wrapY", "next", "nextX", "nextY",
                           "loop", "lines", "halt"}
               /\ drawn' \subseteq Cells /\ overprinted' \in BOOLEAN /\ fault' \in BOOLEAN
               /\ X' + CharWidth <= Width \/ pc' = "wrapX" \/ (stranded' /\ X' = Width)
               /\ pc' # "wrapX" => rx' <= Width
               /\ pc' \in {"load", "draw"} => left' > 0
  <2>1. printing \in Texts /\ panics \in 0 .. 2 /\ keys \in 0 .. MaxKeys
    BY DEF Typed, TypeOK
  <2>2. /\ isLeftShiftPressed' \in BOOLEAN /\ isRighttShiftPressed' \in BOOLEAN
        /\ interleaved' \in BOOLEAN /\ stranded' \in BOOLEAN
    BY <1>1, TypedFlags DEF keyboard
  <2>3. QED
    BY <1>1, <1>2, <2>1, <2>2 DEF Typed, TypeOK, CursorIsInRow
<1>3. /\ X \in Nat /\ X \in 0 .. Width + CharWidth /\ Y \in Nat /\ ry \in Nat
      /\ rx \in Nat /\ rx \in 0 .. Width + CharWidth
      /\ left \in 0 .. Characters[printing] /\ left \in Nat
      /\ X + CharWidth <= Width \/ pc = "wrapX" \/ (stranded /\ X = Width)
      /\ pc # "wrapX" => rx <= Width
  BY <1>1, TypedNumbers DEF Typed, CursorIsInRow
<1>4. drawn \subseteq Cells /\ overprinted \in BOOLEAN /\ fault \in BOOLEAN
  BY TypedFlags DEF Typed, TypeOK
\* Only PrintChar draws.
<1>5. ASSUME UNCHANGED screen
      PROVE  drawn' \subseteq Cells /\ overprinted' \in BOOLEAN /\ fault' \in BOOLEAN
  BY <1>4, <1>5 DEF screen
<1>6. /\ Continue \in {"next", "lines", "halt", "draw"}
      /\ Continue = "draw" => left > 0
  <2>1. Printed \in {"next", "lines", "halt"}
    BY TypedNumbers DEF Printed, Texts
  <2>2. QED
    BY <1>3, <2>1 DEF Continue
<1>7. CASE Load
  <2>1. /\ pc = "load" /\ pc' = "draw" /\ rx' = X /\ ry' = Y /\ UNCHANGED <<X, Y, left, screen>>
    BY <1>7 DEF Load, At, cursor
  <2>2. left > 0 /\ X <= Width
    BY <1>3, <2>1, Sizes DEF Typed
  <2>3. QED
    BY <1>1, <1>3, <1>5, <2>1, <2>2
<1>8. CASE PrintChar
  <2>1. /\ pc = "draw" /\ pc' = "store" /\ left' = left - 1 /\ Draw(rx, ry)
        /\ UNCHANGED <<X, Y, rx, ry>>
    BY <1>8 DEF PrintChar, At, cursor
  <2>2. left > 0
    BY <2>1 DEF Typed
  <2>3. drawn' \subseteq Cells /\ overprinted' \in BOOLEAN /\ fault' \in BOOLEAN
    BY <1>1, <1>3, <1>4, <2>1, DrawTypes
  <2>4. left' \in 0 .. Characters[printing]
    BY <1>3, <2>1, <2>2, TypedNumbers
  <2>5. QED
    BY <1>1, <1>3, <2>1, <2>3, <2>4
<1>9. CASE Store
  <2>1. /\ pc = "store" /\ X' = rx + CharWidth /\ rx' = rx + CharWidth
        /\ UNCHANGED <<Y, ry, left, screen>>
        /\ pc' = IF rx + CharWidth + CharWidth > Width THEN "wrapX" ELSE Continue
    BY <1>9 DEF Store, At, RowIsFull
  <2>2. rx <= Width
    BY <1>3, <2>1
  <2>3. X' \in 0 .. Width + CharWidth /\ rx' \in 0 .. Width + CharWidth
    BY <1>3, <2>1, <2>2, Sizes
  <2>4. pc' = "wrapX" \/ (pc' = Continue /\ X' + CharWidth <= Width /\ rx' <= Width)
    BY <1>3, <2>1, Sizes
  <2>5. QED
    BY <1>3, <1>5, <1>6, <2>1, <2>3, <2>4
<1>10. CASE WrapX
  BY <1>3, <1>5, <1>10, Sizes DEF WrapX, At
<1>11. CASE WrapY
  <2>1. /\ pc = "wrapY" /\ Y' = ry + 1 /\ ry' = ry + 1 /\ pc' = Continue
        /\ UNCHANGED <<X, rx, left, screen>>
    BY <1>11 DEF WrapY, At
  <2>2. QED
    BY <1>1, <1>3, <1>5, <1>6, <2>1
<1>12. CASE NextX
  <2>1. /\ pc \in {"next", "nextX"} /\ X' = 0 /\ pc' \in {"nextY", "loop"}
        /\ UNCHANGED <<Y, rx, ry, left, screen>>
    BY <1>12 DEF NextX, At
  <2>2. QED
    BY <1>3, <1>5, <2>1, Sizes
<1>13. CASE NextY
  <2>1. /\ pc \in {"next", "nextY"} /\ Y' = Y + 1 /\ pc' \in {"nextX", "loop"}
        /\ UNCHANGED <<X, rx, ry, left, screen>>
    BY <1>13 DEF NextY, At
  <2>2. QED
    BY <1>1, <1>3, <1>5, <2>1
<1>14. QED
  BY <1>7, <1>8, <1>9, <1>10, <1>11, <1>12, <1>13 DEF Thread

\* What Panic calls.
LEMMA CallTypes ==
  ASSUME NEW text \in Texts, NEW y \in Nat, Call(text, y)
  PROVE  /\ X' = 0 /\ Y' \in Nat /\ rx' = 0 /\ ry' \in Nat
         /\ printing' \in Texts /\ left' \in 0 .. Characters[printing'] /\ left' > 0
         /\ pc' = "draw"
<1>1. Characters[text] \in Nat /\ Characters[text] >= 1
  BY Lengths
<1>2. QED
  BY <1>1 DEF Call

\* after a step of Panic,
LEMMA PanicKeepsTyped ==
  ASSUME Typed, Panic \/ PanicLines
  PROVE  Typed'
<1>1. /\ \E text \in Texts, y \in Nat : Call(text, y)
      /\ UNCHANGED <<keyboard, keys, history>>
      /\ drawn' \subseteq Cells /\ overprinted' \in BOOLEAN /\ fault' \in BOOLEAN
      /\ panics' \in 0 .. 2
  <2>1. CASE Panic
    <3>1. Call("title", 0) /\ UNCHANGED <<keyboard, keys, history>>
          /\ drawn' = {} /\ overprinted' = FALSE /\ fault' = FALSE
      BY <2>1 DEF Panic, PanicRow
    <3>2. panics' \in 0 .. 2
      BY <2>1 DEF Panic, Typed, TypeOK
    <3>3. QED
      BY <3>1, <3>2 DEF Texts
  <2>2. CASE PanicLines
    <3>1. Call("message", Y + 2) /\ UNCHANGED <<keyboard, keys, history, screen, panics>>
      BY <2>2 DEF PanicLines
    <3>2. Y + 2 \in Nat
      BY TypedNumbers
    <3>3. drawn' \subseteq Cells /\ overprinted' \in BOOLEAN /\ fault' \in BOOLEAN /\ panics' \in 0 .. 2
      BY <3>1, TypedFlags DEF screen, Typed, TypeOK
    <3>4. \E text \in Texts, y \in Nat : Call(text, y)
      BY <3>1, <3>2 DEF Texts
    <3>5. QED
      BY <3>1, <3>3, <3>4
  <2>3. QED
    BY <2>1, <2>2
<1>2. /\ X' = 0 /\ Y' \in Nat /\ rx' = 0 /\ ry' \in Nat
      /\ printing' \in Texts /\ left' \in 0 .. Characters[printing'] /\ left' > 0
      /\ pc' = "draw"
  BY <1>1, CallTypes
<1>3. {isLeftShiftPressed, isRighttShiftPressed, interleaved, stranded}' \subseteq BOOLEAN
      /\ keys' \in 0 .. MaxKeys
  BY <1>1 DEF Typed, TypeOK, keyboard, history
<1>4. X' \in 0 .. Width + CharWidth /\ rx' \in 0 .. Width + CharWidth
      /\ X' + CharWidth <= Width /\ rx' <= Width
  BY <1>2, Sizes
<1>5. QED
  BY <1>1, <1>2, <1>3, <1>4 DEF Typed, TypeOK, CursorIsInRow

\* and after every step.
LEMMA TypedNext == Typed /\ [Next]_vars => Typed'
<1>1. SUFFICES ASSUME Typed, [Next]_vars PROVE Typed'
  OBVIOUS
<1>2. CASE UNCHANGED vars
  BY <1>1, <1>2 DEF vars, cursor, thread, keyboard, screen, history, Typed, TypeOK, CursorIsInRow
<1>3. QED
  BY <1>1, <1>2, KeyKeepsTyped, ThreadKeepsTyped, PanicKeepsTyped DEF Next, Thread

\* The types of the state, and how far the cursor gets.
THEOREM TypeCorrect == Spec => []TypeOK
<1>1. Typed => TypeOK
  BY DEF Typed
<1>2. QED
  BY <1>1, TypedInit, TypedNext, PTL DEF Spec

\* However the keyboard interrupts the main thread, a character fits at the
\* cursor but between Print's two stores at the end of a row
\* (BasicRenderer.c:39-43), after a fault, and where Backspace had less than a
\* character to erase (80-84).
THEOREM StaysInRow == Spec => []CursorIsInRow
<1>1. Typed => CursorIsInRow
  BY DEF Typed
<1>2. QED
  BY <1>1, TypedInit, TypedNext, PTL DEF Spec

-----------------------------------------------------------------------------
(* On widths that are multiples of a character's.                          *)

Multiple(x) == \E k \in Nat : x = k * CharWidth

\* Counting in whole characters.
LEMMA Multiples ==
  /\ Multiple(0)
  /\ \A x \in Nat : Multiple(x) => Multiple(x + CharWidth)
  /\ \A x \in Nat : Multiple(x) /\ x >= CharWidth => Multiple(x - CharWidth)
  /\ \A x \in Nat : Multiple(x) /\ x > 0 => x >= CharWidth
<1>1. Multiple(0)
  BY OneMore DEF Multiple
<1>2. ASSUME NEW x \in Nat, Multiple(x)
      PROVE  Multiple(x + CharWidth)
  <2>1. PICK k \in Nat : x = k * CharWidth
    BY <1>2 DEF Multiple
  <2>2. PICK m \in Nat : m = k + 1
    OBVIOUS
  <2>3. x + CharWidth = m * CharWidth
    BY <2>1, <2>2, OneMore
  <2>4. QED
    BY <2>3 DEF Multiple
<1>3. ASSUME NEW x \in Nat, Multiple(x), x > 0
      PROVE  x >= CharWidth /\ Multiple(x - CharWidth)
  <2>1. PICK k \in Nat : x = k * CharWidth
    BY <1>3 DEF Multiple
  <2>2. k # 0
    BY <1>3, <2>1, Sizes
  <2>3. PICK m \in Nat : k = m + 1
    <3>1. k - 1 \in Nat /\ k = (k - 1) + 1
      BY <2>2
    <3>2. QED
      BY <3>1
  <2>4. x = m * CharWidth + CharWidth /\ m * CharWidth \in Nat
    BY <2>1, <2>3, OneMore
  <2>5. x - CharWidth = m * CharWidth /\ x >= CharWidth
    BY <2>4, Sizes
  <2>6. QED
    BY <2>5 DEF Multiple
<1>4. \A x \in Nat : x >= CharWidth => x > 0
  BY Sizes
<1>5. QED
  BY <1>1, <1>2, <1>3, <1>4

Aligned == Multiple(X) /\ Multiple(rx) /\ ~stranded

\* A key keeps the cursor at a multiple.
LEMMA KeyKeepsAligned ==
  ASSUME Multiple(Width), Typed, Aligned, KeyboardInterrupt
  PROVE  Aligned'
<1>1. X \in Nat /\ Y \in Nat /\ Multiple(X) /\ Multiple(rx) /\ ~stranded /\ UNCHANGED rx
  BY TypedNumbers, KeyEffect DEF Aligned, thread
<1>2. SUFFICES ~stranded' /\ Multiple(X')
  BY <1>1 DEF Aligned, Multiple
<1>3. ASSUME Advance PROVE Multiple(X')
  BY <1>1, <1>3, AdvanceEffect, Multiples
<1>4. CASE UNCHANGED <<cursor, screen, stranded>>
  BY <1>1, <1>4 DEF cursor
<1>5. CASE PutCharS
  BY <1>1, <1>3, <1>5 DEF PutCharS, cursor
<1>6. CASE PutSpace \/ NextLine
  BY <1>1, <1>3, <1>6, Multiples DEF PutSpace, NextLine
<1>7. CASE ClearChar
  <2>1. PICK x \in 1 .. Width + CharWidth, y \in Nat :
          EraseBefore(x, y) /\ (x = X \/ x = Width)
    BY <1>7, ClearStarts DEF Typed
  <2>2. Multiple(x) /\ x \in Nat /\ x > 0
    BY <1>1, <2>1
  <2>3. x >= CharWidth /\ ~(x < CharWidth) /\ Multiple(x - CharWidth)
    BY <2>2, Multiples, Sizes
  <2>4. X' \in {x - CharWidth, x} /\ UNCHANGED stranded
    BY <2>1, <2>3, EraseEffect
  <2>5. QED
    BY <1>1, <2>2, <2>3, <2>4
<1>8. QED
  BY <1>4, <1>5, <1>6, <1>7, KeyEffect

\* So does every other step.
LEMMA StepKeepsAligned ==
  ASSUME Typed, Aligned, Thread \/ Panic \/ PanicLines
  PROVE  Aligned'
<1>1. X \in Nat /\ rx \in Nat /\ Multiple(X) /\ Multiple(rx) /\ ~stranded
  BY TypedNumbers DEF Aligned
<1>2. ~stranded'
  BY <1>1 DEF Thread, Load, PrintChar, Store, WrapX, WrapY, NextX, NextY, Panic, PanicLines, history
<1>3. X' \in {0, X, rx + CharWidth} /\ rx' \in {0, X, rx, rx + CharWidth}
  <2>1. CASE Thread
    BY <2>1 DEF Thread, Load, PrintChar, Store, WrapX, WrapY, NextX, NextY, cursor
  <2>2. CASE Panic \/ PanicLines
    BY <2>2 DEF Panic, PanicLines, Call
  <2>3. QED
    BY <2>1, <2>2
<1>4. Multiple(X') /\ Multiple(rx')
  BY <1>1, <1>3, Multiples
<1>5. QED
  BY <1>2, <1>4 DEF Aligned, Multiple

\* On a screen whose width is a multiple of a character's, Backspace always has
\* a whole character to erase: lines 80-84 of ClearChar are never reached.
THEOREM NeverStranded == Multiple(Width) => (Spec => []~stranded)
<1>1. SUFFICES ASSUME Multiple(Width) PROVE Spec => []~stranded
  OBVIOUS
<1>2. Init => Aligned
  BY Multiples DEF Init, Aligned
<1>3. Typed /\ Aligned /\ [Next]_vars => Aligned'
  <2>1. SUFFICES ASSUME Typed, Aligned, [Next]_vars PROVE Aligned'
    OBVIOUS
  <2>2. CASE UNCHANGED vars
    BY <2>1, <2>2 DEF vars, cursor, thread, history, Aligned, Multiple
  <2>3. QED
    BY <1>1, <2>1, <2>2, KeyKeepsAligned, StepKeepsAligned DEF Next, Thread
<1>4. Aligned => ~stranded
  BY DEF Aligned
<1>5. QED
  BY <1>2, <1>3, <1>4, TypedInit, TypedNext, PTL DEF Spec

-----------------------------------------------------------------------------
(* The panic.                                                              *)

\* A character at the end of a text makes it one longer, on blank columns.
LEMMA TextGrows ==
  ASSUME NEW k \in Nat, NEW m \in Nat, m = k + 1, NEW y \in Nat, m * CharWidth <= Width
  PROVE  /\ k * CharWidth \in Nat /\ k * CharWidth + CharWidth = m * CharWidth
         /\ TextIn(y, k) \cap Columns(k * CharWidth, y) = {}
         /\ TextIn(y, k) \cup Columns(k * CharWidth, y) = TextIn(y, m)
         /\ \A z, j \in Nat : z # y => TextIn(z, j) \cap Columns(k * CharWidth, y) = {}
<1> DEFINE x == k * CharWidth
<1>1. x \in Nat /\ m * CharWidth = x + CharWidth
  BY OneMore
<1>2. \A cell \in Cells : cell \in TextIn(y, k) <=> cell[2] = y /\ cell[1] < x
  BY DEF TextIn
<1>3. \A cell \in Cells : cell \in TextIn(y, m) <=> cell[2] = y /\ cell[1] < x + CharWidth
  BY <1>1 DEF TextIn
<1>4. \A z, j \in Nat : \A cell \in TextIn(z, j) : cell \in Cells /\ cell[2] = z
  BY DEF TextIn
<1>5. TextIn(y, k) \subseteq Cells /\ TextIn(y, m) \subseteq Cells
  BY DEF TextIn
<1> HIDE DEF x
<1>6. Columns(x, y) = {cell \in Cells : cell[2] = y /\ cell[1] >= x /\ cell[1] < x + CharWidth}
  BY <1>1, InItsRow
<1>7. \A cell \in Cells : cell[1] \in Nat
  BY Cell
<1>8. TextIn(y, k) \cap Columns(x, y) = {}
  BY <1>1, <1>2, <1>5, <1>6, <1>7
<1>9. TextIn(y, k) \cup Columns(x, y) = TextIn(y, m)
  BY <1>1, <1>2, <1>3, <1>5, <1>6, <1>7, Sizes
<1>10. \A z, j \in Nat : z # y => TextIn(z, j) \cap Columns(x, y) = {}
  BY <1>4, <1>6
<1>11. QED
  BY <1>1, <1>8, <1>9, <1>10 DEF x

\* No characters, no columns.
LEMMA NoText == \A y \in Nat : TextIn(y, 0) = {}
BY OneMore, Cell, Sizes DEF TextIn

\* Both lines fit.
LEMMA TextsFit ==
  /\ \A m \in Nat : m <= Title => m * CharWidth + CharWidth <= Width
  /\ \A m \in Nat : m <= PanicText => m * CharWidth <= Width
<1>1. ASSUME NEW m \in Nat, m <= Title
      PROVE  m * CharWidth + CharWidth <= Width
  <2>1. (Title + 1) * CharWidth <= Width /\ (Title + 1) * CharWidth = Title * CharWidth + CharWidth
    BY Sizes, OneMore, ConsoleAssumption
  <2>2. m * CharWidth <= Title * CharWidth /\ m * CharWidth \in Nat /\ Title * CharWidth \in Nat
    BY <1>1, Sizes, Wider, OneMore
  <2>3. QED
    BY <2>1, <2>2, Sizes
<1>2. ASSUME NEW m \in Nat, m <= PanicText
      PROVE  m * CharWidth <= Width
  <2>1. PanicText * CharWidth <= Width
    BY ConsoleAssumption
  <2>2. m * CharWidth <= PanicText * CharWidth /\ m * CharWidth \in Nat /\ PanicText * CharWidth \in Nat
    BY <1>2, Sizes, Wider, OneMore
  <2>3. QED
    BY <2>1, <2>2, Sizes
<1>3. QED
  BY <1>1, <1>2

\* At the fault.
LEMMA PanicBegins ==
  ASSUME Typed, Panicking, Panic
  PROVE  Panicking'
<1>1. panics = 0
  BY DEF Typed, TypeOK, Panic, Panicking, PanicGoesOn
<1>2. /\ panics' = 1 /\ fault' = FALSE /\ overprinted' = FALSE /\ drawn' = {}
      /\ X' = 0 /\ Y' = 0 /\ rx' = 0 /\ ry' = 0 /\ printing' = "title" /\ pc' = "draw"
      /\ left' = Title
  BY <1>1, Lengths DEF Panic, PanicRow, Call
<1>3. Title - left' = 0 /\ 0 * CharWidth = 0 /\ TextIn(0, 0) = {}
  BY <1>2, NoText, OneMore, Sizes
<1>4. PanicTitle'
  BY <1>2, <1>3 DEF PanicTitle, TextIn
<1>5. PanicGoesOn' /\ PanicMessage'
  BY <1>2 DEF PanicGoesOn, PanicMessage
<1>6. QED
  BY <1>4, <1>5 DEF Panicking

\* Between the lines.
LEMMA PanicGoesToMessage ==
  ASSUME Typed, Panicking, PanicLines
  PROVE  Panicking'
<1>1. panics = 1 /\ pc = "lines" /\ printing = "title"
  BY DEF PanicLines, At, Panicking, PanicGoesOn, PanicMessage, Typed, TypeOK, Texts
<1>2. Y = 0 /\ left = 0 /\ drawn = TextIn(0, Title - left) /\ ~fault /\ ~overprinted
  BY <1>1 DEF Panicking, PanicGoesOn, PanicTitle
<1>3. /\ panics' = 1 /\ fault' = fault /\ overprinted' = overprinted /\ drawn' = drawn
      /\ X' = 0 /\ Y' = Y + 2 /\ rx' = 0 /\ ry' = Y + 2 /\ printing' = "message" /\ pc' = "draw"
      /\ left' = PanicText
  BY <1>1, Lengths DEF PanicLines, Call, screen
<1>4. Title - left = Title /\ PanicText - left' = 0 /\ 0 * CharWidth = 0 /\ TextIn(2, 0) = {}
  BY <1>2, <1>3, NoText, OneMore, Sizes
<1>5. drawn' = TextIn(0, Title) \cup TextIn(2, 0)
  BY <1>2, <1>3, <1>4
<1>6. PanicMessage'
  BY <1>2, <1>3, <1>4, <1>5 DEF PanicMessage, TextIn
<1>7. PanicGoesOn' /\ PanicTitle'
  BY <1>2, <1>3 DEF PanicGoesOn, PanicTitle
<1>8. QED
  BY <1>6, <1>7 DEF Panicking

\* Before the fault.
LEMMA NotYetPanicking ==
  ASSUME Typed, Panicking, panics = 0, KeyboardInterrupt \/ Thread
  PROVE  Panicking'
<1>1. printing = "line" /\ pc \notin {"lines", "halt"}
  BY DEF Panicking, PanicGoesOn
<1>2. UNCHANGED <<printing, panics>>
  BY KeyEffect DEF thread, Thread, Load, PrintChar, Store, WrapX, WrapY, NextX, NextY
<1>3. pc' \notin {"lines", "halt"}
  <2>1. CASE KeyboardInterrupt
    BY <1>1, <2>1, KeyEffect DEF thread
  <2>2. CASE Thread
    <3>1. Continue \in {"next", "draw"}
      BY <1>1 DEF Continue, Printed
    <3>2. QED
      BY <1>1, <2>2, <3>1 DEF Thread, Load, PrintChar, Store, WrapX, WrapY, NextX, NextY
  <2>3. QED
    BY <2>1, <2>2
<1>4. QED
  BY <1>1, <1>2, <1>3 DEF Panicking, PanicGoesOn, PanicTitle, PanicMessage

\* The step that draws, whichever line it belongs to: the first k characters of
\* that line are there, and the rest of the screen is other.
LEMMA PanicDraws ==
  ASSUME NEW k \in Nat, NEW m \in Nat, m = k + 1, m * CharWidth <= Width,
         NEW y \in Nat, y < Height, NEW other, other \cap Columns(k * CharWidth, y) = {},
         drawn = other \cup TextIn(y, k), ~fault, ~overprinted,
         Draw(k * CharWidth, y)
  PROVE  drawn' = other \cup TextIn(y, m) /\ ~fault' /\ ~overprinted'
<1>1. /\ TextIn(y, k) \cap Columns(k * CharWidth, y) = {}
      /\ TextIn(y, k) \cup Columns(k * CharWidth, y) = TextIn(y, m)
  BY TextGrows
<1>2. /\ drawn' = drawn \cup Columns(k * CharWidth, y)
      /\ overprinted' = (overprinted \/ drawn \cap Columns(k * CharWidth, y) # {})
      /\ UNCHANGED fault
  BY DEF Draw
<1>3. drawn \cap Columns(k * CharWidth, y) = {}
  BY <1>1
<1>4. QED
  BY <1>1, <1>2, <1>3

\* In the first line.
LEMMA TitleGoesOn ==
  ASSUME Typed, Panicking, panics = 1, printing = "title", Thread
  PROVE  Panicking'
<1>1. /\ ~fault /\ ~overprinted /\ rx = X /\ ry = Y /\ Y = 0 /\ pc \in {"draw", "store", "lines"}
      /\ drawn = TextIn(0, Title - left)
  BY DEF Panicking, PanicGoesOn, PanicTitle
<1>2. UNCHANGED <<printing, panics>>
  BY DEF Thread, Load, PrintChar, Store, WrapX, WrapY, NextX, NextY
<1>3. left \in Nat /\ left <= Title
  BY TypedNumbers, Lengths
<1>4. CASE PrintChar
  <2>1. /\ pc = "draw" /\ pc' = "store" /\ left' = left - 1 /\ Draw(rx, ry)
        /\ UNCHANGED <<X, Y, rx, ry>>
    BY <1>4 DEF PrintChar, At, cursor
  <2>2. left > 0 /\ X = (Title - left) * CharWidth
    BY <1>1, <2>1 DEF Typed, Panicking, PanicTitle
  <2>3. PICK k \in Nat : k = Title - left
    BY <1>3, Sizes
  <2>4. PICK m \in Nat : m = k + 1
    OBVIOUS
  <2>5. m = Title - left' /\ m <= Title /\ left' < Title
    BY <1>3, <2>1, <2>2, <2>3, <2>4, Sizes
  <2>6. m * CharWidth <= Width /\ k * CharWidth + CharWidth = m * CharWidth
    <3>1. m * CharWidth + CharWidth <= Width
      BY <2>5, TextsFit
    <3>2. m * CharWidth \in Nat /\ k * CharWidth + CharWidth = m * CharWidth
      BY <2>4, OneMore
    <3>3. QED
      BY <3>1, <3>2, Sizes
  <2>7. drawn' = TextIn(0, m) /\ ~fault' /\ ~overprinted'
    <3>1. Draw(k * CharWidth, 0) /\ drawn = {} \cup TextIn(0, k) /\ 0 < Height
      BY <1>1, <2>1, <2>2, <2>3, Sizes
    <3>2. drawn' = {} \cup TextIn(0, m) /\ ~fault' /\ ~overprinted'
      BY <1>1, <2>4, <2>6, <3>1, PanicDraws
    <3>3. QED
      BY <3>2
  <2>8. /\ X' + CharWidth = (Title - left') * CharWidth
        /\ drawn' = TextIn(0, Title - left')
    BY <2>1, <2>2, <2>3, <2>5, <2>6, <2>7
  <2>9. PanicTitle'
    BY <1>1, <2>1, <2>5, <2>8 DEF PanicTitle, TextIn
  <2>10. PanicGoesOn' /\ PanicMessage'
    BY <1>1, <1>2, <2>1, <2>7 DEF PanicGoesOn, PanicMessage
  <2>11. QED
    BY <2>9, <2>10 DEF Panicking
<1>5. CASE Store
  <2>1. /\ pc = "store" /\ X' = rx + CharWidth /\ rx' = rx + CharWidth
        /\ UNCHANGED <<Y, ry, left, screen>>
        /\ pc' = IF RowIsFull(rx + CharWidth) THEN "wrapX" ELSE Continue
    BY <1>5 DEF Store, At
  <2>2. X' = (Title - left) * CharWidth
    BY <1>1, <2>1 DEF Panicking, PanicTitle
  <2>3. PICK m \in Nat : m = Title - left
    BY <1>3, Sizes
  <2>4. ~RowIsFull(rx + CharWidth)
    <3>1. m * CharWidth + CharWidth <= Width /\ m * CharWidth \in Nat
      BY <1>3, <2>3, TextsFit, OneMore, Sizes
    <3>2. QED
      BY <2>1, <2>2, <2>3, <3>1, Sizes DEF RowIsFull
  <2>5. pc' = IF left = 0 THEN "lines" ELSE "draw"
    BY <2>1, <2>4 DEF Continue, Printed
  <2>6. PanicTitle'
    <3>1. drawn' = TextIn(0, Title - left') /\ X' = (Title - left') * CharWidth /\ Y' = 0
      BY <1>1, <2>1, <2>2 DEF screen
    <3>2. QED
      BY <2>1, <2>5, <3>1 DEF PanicTitle, TextIn
  <2>7. PanicGoesOn' /\ PanicMessage'
    BY <1>1, <1>2, <2>1 DEF PanicGoesOn, PanicMessage, screen
  <2>8. QED
    BY <2>6, <2>7 DEF Panicking
<1>6. QED
  BY <1>1, <1>4, <1>5 DEF Thread, Load, WrapX, WrapY, NextX, NextY, At

\* In the second.
LEMMA MessageGoesOn ==
  ASSUME Typed, Panicking, panics = 1, printing = "message", Thread
  PROVE  Panicking'
<1>1. /\ ~fault /\ ~overprinted /\ rx = X /\ ry = Y
      /\ pc \in {"draw", "store", "wrapX", "wrapY", "halt"}
      /\ drawn = TextIn(0, Title) \cup TextIn(2, PanicText - left)
  BY DEF Panicking, PanicGoesOn, PanicMessage
<1>2. UNCHANGED <<printing, panics>>
  BY DEF Thread, Load, PrintChar, Store, WrapX, WrapY, NextX, NextY
<1>3. left \in Nat /\ left <= PanicText
  BY TypedNumbers, Lengths
<1>4. CASE PrintChar
  <2>1. /\ pc = "draw" /\ pc' = "store" /\ left' = left - 1 /\ Draw(rx, ry)
        /\ UNCHANGED <<X, Y, rx, ry>>
    BY <1>4 DEF PrintChar, At, cursor
  <2>2. left > 0 /\ X = (PanicText - left) * CharWidth /\ Y = 2
    BY <1>1, <2>1 DEF Typed, Panicking, PanicMessage
  <2>3. PICK k \in Nat : k = PanicText - left
    BY <1>3, Sizes
  <2>4. PICK m \in Nat : m = k + 1
    OBVIOUS
  <2>5. m = PanicText - left' /\ m <= PanicText /\ left' < PanicText
    BY <1>3, <2>1, <2>2, <2>3, <2>4, Sizes
  <2>6. m * CharWidth <= Width /\ k * CharWidth + CharWidth = m * CharWidth
    BY <2>4, <2>5, TextsFit, OneMore
  <2>7. drawn' = TextIn(0, Title) \cup TextIn(2, m) /\ ~fault' /\ ~overprinted'
    <3>1. /\ Draw(k * CharWidth, 2) /\ drawn = TextIn(0, Title) \cup TextIn(2, k) /\ 2 < Height
      BY <1>1, <2>1, <2>2, <2>3, Sizes
    <3>2. TextIn(0, Title) \cap Columns(k * CharWidth, 2) = {}
      <4>1. \A z, j \in Nat : z # 2 => TextIn(z, j) \cap Columns(k * CharWidth, 2) = {}
        BY <2>4, <2>6, TextGrows
      <4>2. Title \in Nat
        BY Sizes
      <4>3. QED
        BY <4>1, <4>2
    <3>3. QED
      BY <1>1, <2>4, <2>6, <3>1, <3>2, PanicDraws
  <2>8. /\ X' + CharWidth = (PanicText - left') * CharWidth
        /\ drawn' = TextIn(0, Title) \cup TextIn(2, PanicText - left')
    BY <2>1, <2>2, <2>3, <2>5, <2>6, <2>7
  <2>9. PanicMessage'
    BY <1>1, <2>1, <2>2, <2>5, <2>8 DEF PanicMessage, TextIn
  <2>10. PanicGoesOn' /\ PanicTitle'
    BY <1>1, <1>2, <2>1, <2>7 DEF PanicGoesOn, PanicTitle
  <2>11. QED
    BY <2>9, <2>10 DEF Panicking
\* Behind the last character the row may be full.
<1>5. CASE Store
  <2>1. /\ pc = "store" /\ X' = rx + CharWidth /\ rx' = rx + CharWidth
        /\ UNCHANGED <<Y, ry, left, screen>>
        /\ pc' = IF RowIsFull(rx + CharWidth) THEN "wrapX" ELSE Continue
    BY <1>5 DEF Store, At
  <2>2. X' = (PanicText - left) * CharWidth /\ Y = 2
    BY <1>1, <2>1 DEF Panicking, PanicMessage
  <2>3. PICK m \in Nat : m = PanicText - left
    BY <1>3, Sizes
  <2>4. RowIsFull(rx + CharWidth) => left = 0
    <3>1. SUFFICES ASSUME left > 0 PROVE ~RowIsFull(rx + CharWidth)
      BY <1>3
    <3>2. PICK n \in Nat : n = m + 1
      OBVIOUS
    <3>3. n <= PanicText
      BY <1>3, <2>3, <3>1, <3>2, Sizes
    <3>4. n * CharWidth <= Width /\ n * CharWidth = m * CharWidth + CharWidth /\ m * CharWidth \in Nat
      BY <3>2, <3>3, TextsFit, OneMore
    <3>5. QED
      BY <2>1, <2>2, <2>3, <3>4, Sizes DEF RowIsFull
  <2>5. (pc' = "wrapX" /\ left = 0) \/ pc' = IF left = 0 THEN "halt" ELSE "draw"
    BY <2>1, <2>4 DEF Continue, Printed
  <2>6. PanicMessage'
    <3>1. /\ drawn' = TextIn(0, Title) \cup TextIn(2, PanicText - left')
          /\ X' = (PanicText - left') * CharWidth /\ Y' = 2
      BY <1>1, <2>1, <2>2 DEF screen
    <3>2. QED
      BY <2>1, <2>5, <3>1 DEF PanicMessage, TextIn
  <2>7. PanicGoesOn' /\ PanicTitle'
    BY <1>1, <1>2, <2>1 DEF PanicGoesOn, PanicTitle, screen
  <2>8. QED
    BY <2>6, <2>7 DEF Panicking
<1>6. CASE WrapX \/ WrapY
  <2>1. /\ pc \in {"wrapX", "wrapY"} /\ UNCHANGED <<left, screen>> /\ left = 0
        /\ rx' = X' /\ ry' = Y'
    BY <1>1, <1>6 DEF WrapX, WrapY, At, Panicking, PanicMessage
  <2>2. pc' \in {"wrapY", "halt"}
    BY <1>6, <2>1 DEF WrapX, WrapY, Continue, Printed
  <2>3. drawn' = TextIn(0, Title) \cup TextIn(2, PanicText - left')
    BY <1>1, <2>1 DEF screen
  <2>4. PanicMessage'
    BY <2>1, <2>2, <2>3 DEF PanicMessage, TextIn
  <2>5. PanicGoesOn' /\ PanicTitle'
    BY <1>1, <1>2, <2>1, <2>2 DEF PanicGoesOn, PanicTitle, screen
  <2>6. QED
    BY <2>4, <2>5 DEF Panicking
<1>7. QED
  BY <1>1, <1>4, <1>5, <1>6 DEF Thread, Load, NextX, NextY, At

\* The panic goes on after every step.
LEMMA PanicNext == Typed /\ Panicking /\ [Next]_vars => Panicking'
<1>1. SUFFICES ASSUME Typed, Panicking, [Next]_vars PROVE Panicking'
  OBVIOUS
<1>2. CASE UNCHANGED vars
  BY <1>1, <1>2 DEF vars, cursor, thread, screen, Panicking, PanicGoesOn, PanicTitle, PanicMessage, TextIn
<1>3. panics \in {0, 1} /\ (panics = 1 => printing \in {"title", "message"})
  BY <1>1 DEF Typed, TypeOK, Panicking, PanicGoesOn, Texts
<1>4. CASE KeyboardInterrupt
  BY <1>1, <1>4, KeyEffect, NotYetPanicking
<1>5. CASE Thread
  BY <1>1, <1>3, <1>5, NotYetPanicking, TitleGoesOn, MessageGoesOn
<1>6. QED
  BY <1>1, <1>2, <1>4, <1>5, PanicBegins, PanicGoesToMessage DEF Next, Thread

\* And at first there is none.
LEMMA PanicInit == Init => Panicking
BY DEF Init, Panicking, PanicGoesOn, PanicTitle, PanicMessage

\* Wherever the cursor was at the fault, and whatever was half printed, Panic does
\* not fault again (panic.c:6-12), and in the end its two lines are the whole
\* screen.
THEOREM ShowsPanic == Spec => []PanicIsShown
<1>1. Typed /\ Panicking => PanicIsShown
  <2>1. SUFFICES ASSUME Typed, Panicking PROVE PanicIsShown
    OBVIOUS
  <2>2. panics <= 1 /\ (panics = 1 => ~fault)
    BY <2>1 DEF Panicking, PanicGoesOn
  <2>3. ASSUME pc = "halt"
        PROVE  ~overprinted /\ drawn = TextIn(0, Title) \cup TextIn(2, PanicText)
    <3>1. panics = 1 /\ ~overprinted
      BY <2>1, <2>3 DEF Panicking, PanicGoesOn
    <3>2. printing = "message"
      BY <2>1, <2>3, <3>1 DEF Typed, TypeOK, Texts, Panicking, PanicGoesOn, PanicTitle
    <3>3. left = 0 /\ drawn = TextIn(0, Title) \cup TextIn(2, PanicText - left)
      BY <2>1, <2>3, <3>2 DEF Panicking, PanicMessage
    <3>4. PanicText - left = PanicText
      BY <3>3, Sizes
    <3>5. QED
      BY <3>1, <3>3, <3>4
  <2>4. QED
    BY <2>2, <2>3 DEF PanicIsShown
<1>2. QED
  BY <1>1, TypedInit, TypedNext, PanicInit, PanicNext, PTL DEF Spec

-----------------------------------------------------------------------------
(* What is behind the cursor.                                              *)

\* Further on there is less.
LEMMA BlankOn ==
  ASSUME drawn \subseteq Cells, NEW x \in Nat, NEW y \in Nat, NEW u \in Nat, NEW v \in Nat,
         BlankFrom(x, y), v > y \/ (v = y /\ u >= x) \/ (v + 1 = y /\ x = 0 /\ u >= Width)
  PROVE  BlankFrom(u, v)
<1>1. ASSUME NEW cell \in drawn
      PROVE  cell[1] < Width /\ (cell[2] < v \/ (cell[2] = v /\ cell[1] < u))
  <2>1. cell[1] \in Nat /\ cell[2] \in Nat
    BY Cell
  <2>2. cell[1] < Width /\ (cell[2] < y \/ (cell[2] = y /\ cell[1] < x))
    BY DEF BlankFrom
  <2>3. QED
    BY <2>1, <2>2, Sizes
<1>2. QED
  BY <1>1 DEF BlankFrom

\* A character drawn at the cursor is alone on its columns.
LEMMA DrawsAlone ==
  ASSUME drawn \subseteq Cells, ~overprinted, ~fault, NEW x \in Nat, x + CharWidth <= Width,
         NEW y \in Nat, Draw(x, y), BlankFrom(x, y)
  PROVE  /\ ~overprinted'
         /\ ~fault' => /\ y < Height
                       /\ \A cell \in drawn' : /\ cell[1] < Width
                                               /\ \/ cell[2] < y
                                                  \/ cell[2] = y /\ cell[1] < x + CharWidth
<1>1. CASE ~(y < Height)
  BY <1>1 DEF Draw
<1>2. CASE y < Height
  <2>1. Columns(x, y) = {cell \in Cells : cell[2] = y /\ cell[1] >= x /\ cell[1] < x + CharWidth}
    BY InItsRow
  <2>2. \A cell \in drawn : cell[1] \in Nat /\ cell[2] \in Nat
    BY Cell
  <2>3. drawn \cap Columns(x, y) = {}
    BY <2>1, <2>2, Sizes DEF BlankFrom
  <2>4. drawn' = drawn \cup Columns(x, y) /\ ~overprinted'
    BY <1>2, <2>3 DEF Draw
  <2>5. ASSUME NEW cell \in drawn'
        PROVE  cell[1] < Width /\ (cell[2] < y \/ (cell[2] = y /\ cell[1] < x + CharWidth))
    <3>1. CASE cell \in drawn
      BY <2>2, <3>1, Sizes DEF BlankFrom
    <3>2. CASE cell \in Columns(x, y)
      <4>1. cell \in Cells /\ cell[2] = y /\ cell[1] < x + CharWidth
        BY <2>1, <3>2
      <4>2. cell[1] \in Nat
        BY <4>1, Cell
      <4>3. QED
        BY <4>1, <4>2, Sizes
    <3>3. QED
      BY <2>4, <3>1, <3>2
  <2>6. QED
    BY <1>2, <2>4, <2>5
<1>3. QED
  BY <1>1, <1>2

\* A key moves the cursor where what is behind it is blank.
LEMMA KeyKeepsAhead ==
  ASSUME Typed, Ahead, KeyboardInterrupt
  PROVE  Ahead'
<1>1. SUFFICES ASSUME ~interleaved', ~stranded' PROVE Ahead'
  BY DEF Ahead
<1>2. pc = "loop" /\ ~interleaved /\ ~fault /\ panics = 0 /\ pc' = "loop"
  BY <1>1, KeyEffect DEF thread
<1>3. ~stranded
  <2>1. CASE UNCHANGED stranded
    BY <1>1, <2>1
  <2>2. CASE ClearChar
    <3>1. PICK x \in 1 .. Width + CharWidth, y \in Nat : EraseBefore(x, y)
      BY <2>2, ClearStarts DEF Typed
    <3>2. QED
      BY <1>1, <3>1, EraseEffect
  <2>3. QED
    BY <2>1, <2>2, KeyEffect DEF PutCharS, PutSpace, NextLine
<1>4. ~overprinted /\ BlankFrom(X, Y) /\ drawn \subseteq Cells
  BY <1>2, <1>3 DEF Ahead, Typed, TypeOK
<1>5. X \in Nat /\ Y \in Nat /\ X + CharWidth <= Width /\ X <= Width
  BY <1>2, <1>3, TypedNumbers
<1>6. SUFFICES ~overprinted' /\ (~fault' => BlankFrom(X, Y)')
  BY <1>2 DEF Ahead
<1>7. ASSUME UNCHANGED <<drawn, overprinted>>, X' \in Nat, Y' \in Nat,
             Y' > Y \/ (Y' = Y /\ X' >= X)
      PROVE  ~overprinted' /\ BlankFrom(X, Y)'
  <2>1. BlankFrom(X', Y')
    BY <1>4, <1>5, <1>7, BlankOn
  <2>2. QED
    BY <1>4, <1>7, <2>1 DEF BlankFrom
<1>8. CASE UNCHANGED <<cursor, screen, stranded>>
  BY <1>5, <1>7, <1>8 DEF cursor, screen
<1>9. CASE PutSpace \/ NextLine
  <2>1. UNCHANGED <<drawn, overprinted>>
    BY <1>9 DEF PutSpace, NextLine, screen
  <2>2. X' \in Nat /\ Y' \in Nat /\ (Y' > Y \/ (Y' = Y /\ X' >= X))
    BY <1>5, <1>9, AdvanceEffect, Sizes DEF PutSpace, NextLine
  <2>3. QED
    BY <1>7, <2>1, <2>2
<1>10. CASE PutCharS
  <2>1. Draw(X, Y) /\ (IF Y < Height THEN Advance ELSE UNCHANGED cursor)
    BY <1>10 DEF PutCharS
  <2>2. /\ ~overprinted'
        /\ ~fault' => /\ Y < Height
                      /\ \A cell \in drawn' : /\ cell[1] < Width
                                              /\ \/ cell[2] < Y
                                                 \/ cell[2] = Y /\ cell[1] < X + CharWidth
    BY <1>2, <1>4, <1>5, <2>1, DrawsAlone
  <2>3. ASSUME ~fault' PROVE BlankFrom(X, Y)'
    <3>1. \/ X' = 0 /\ Y' = Y + 1
          \/ X' = X + CharWidth /\ Y' = Y
      BY <1>5, <2>1, <2>2, <2>3, AdvanceEffect
    <3>2. \A cell \in drawn' : cell[1] \in Nat /\ cell[2] \in Nat
      <4>1. drawn' \subseteq Cells
        BY KeyKeepsTyped DEF Typed, TypeOK
      <4>2. QED
        BY <4>1, Cell
    <3>3. ASSUME NEW cell \in drawn'
          PROVE  cell[1] < Width /\ (cell[2] < Y' \/ (cell[2] = Y' /\ cell[1] < X'))
      <4>1. cell[1] < Width /\ (cell[2] < Y \/ (cell[2] = Y /\ cell[1] < X + CharWidth))
        BY <2>2, <2>3
      <4>2. QED
        BY <1>5, <3>1, <3>2, <4>1, Sizes
    <3>4. QED
      BY <3>3 DEF BlankFrom
  <2>4. QED
    BY <2>2, <2>3
<1>11. CASE ClearChar
  <2>1. PICK x \in 1 .. Width + CharWidth, y \in Nat :
          /\ EraseBefore(x, y)
          /\ (X # 0 /\ x = X /\ y = Y) \/ (X = 0 /\ x = Width /\ y = RowAbove(Y))
    BY <1>11, ClearStarts DEF Typed
  <2>2. x <= Width /\ x \in Nat
    BY <1>5, <2>1, Sizes
  <2>3. BlankFrom(x, y)
    <3>1. CASE X # 0
      BY <1>4, <2>1, <3>1
    <3>2. CASE X = 0
      <4>1. x = Width /\ (y + 1 = Y \/ (y = Y /\ x >= X))
        BY <1>5, <2>1, <3>2, Sizes DEF RowAbove
      <4>2. QED
        BY <1>4, <1>5, <2>2, <3>2, <4>1, BlankOn
    <3>3. QED
      BY <3>1, <3>2
  <2>4. CASE stranded' = TRUE
    BY <1>1, <2>4
  <2>5. CASE /\ x >= CharWidth /\ y < Height /\ X' = x - CharWidth /\ Y' = y
             /\ drawn' = drawn \ Columns(x - CharWidth, y)
             /\ UNCHANGED <<overprinted, fault, stranded>>
    <3>1. PICK z \in Nat : z = x - CharWidth
      BY <2>2, <2>5, Sizes
    <3>2. z + CharWidth = x /\ X' = z /\ drawn' = drawn \ Columns(z, y)
      BY <2>2, <2>5, <3>1, Sizes
    <3>3. Columns(z, y) = {cell \in Cells : cell[2] = y /\ cell[1] >= z /\ cell[1] < z + CharWidth}
      BY <2>2, <3>2, InItsRow
    <3>4. ASSUME NEW cell \in drawn'
          PROVE  cell[1] < Width /\ (cell[2] < Y' \/ (cell[2] = Y' /\ cell[1] < X'))
      <4>1. cell \in Cells /\ cell \in drawn /\ cell \notin Columns(z, y)
        BY <1>4, <3>2
      <4>2. cell[1] \in Nat /\ cell[2] \in Nat
        BY <4>1, Cell
      <4>3. cell[1] < Width /\ (cell[2] < y \/ (cell[2] = y /\ cell[1] < x))
        BY <2>3, <4>1 DEF BlankFrom
      <4>4. ~(cell[2] = y /\ cell[1] >= z /\ cell[1] < z + CharWidth)
        BY <3>3, <4>1
      <4>5. QED
        BY <2>2, <2>5, <3>2, <4>2, <4>3, <4>4, Sizes
    <3>5. BlankFrom(X, Y)'
      BY <3>4 DEF BlankFrom
    <3>6. QED
      BY <1>4, <2>5, <3>5
  <2>6. CASE fault' = TRUE /\ UNCHANGED <<drawn, overprinted, stranded>>
    BY <1>4, <2>6
  <2>7. QED
    BY <2>1, <2>4, <2>5, <2>6, EraseEffect
<1>12. QED
  BY <1>8, <1>9, <1>10, <1>11, KeyEffect

\* The main thread draws on the first of the blank columns.
LEMMA ThreadKeepsAhead ==
  ASSUME Typed, Panicking, Ahead, Thread
  PROVE  Ahead'
<1>1. /\ ~fault /\ UNCHANGED <<printing, panics, interleaved, stranded>>
  BY DEF Thread, Load, PrintChar, Store, WrapX, WrapY, NextX, NextY, At, history
<1>2. SUFFICES ASSUME panics = 0, ~interleaved, ~stranded PROVE Ahead'
  BY <1>1 DEF Ahead
<1>3. printing = "line" /\ pc \notin {"lines", "halt"} /\ ~overprinted /\ drawn \subseteq Cells
  BY <1>2 DEF Panicking, PanicGoesOn, Ahead, Typed, TypeOK
<1>4. X \in Nat /\ Y \in Nat /\ rx \in Nat /\ ry \in Nat
  BY TypedNumbers
<1>5. X + CharWidth <= Width \/ pc = "wrapX"
  BY <1>1, <1>2, TypedNumbers
<1>6. Continue = IF left = 0 THEN "next" ELSE "draw"
  BY <1>3 DEF Continue, Printed
<1>7. CASE PrintChar
  <2>1. pc = "draw" /\ pc' = "store" /\ Draw(rx, ry) /\ UNCHANGED <<X, Y, rx, ry>>
    BY <1>7 DEF PrintChar, At, cursor
  <2>2. rx = X /\ ry = Y /\ BlankFrom(X, Y) /\ X + CharWidth <= Width
    BY <1>1, <1>2, <1>5, <2>1 DEF Ahead
  <2>3. /\ ~overprinted'
        /\ ~fault' => /\ Y < Height
                      /\ \A cell \in drawn' : /\ cell[1] < Width
                                              /\ \/ cell[2] < Y
                                                 \/ cell[2] = Y /\ cell[1] < X + CharWidth
    BY <1>1, <1>3, <1>4, <2>1, <2>2, DrawsAlone
  <2>4. ~fault' => BlankFrom(X + CharWidth, Y)'
    BY <2>1, <2>3 DEF BlankFrom
  <2>5. QED
    BY <2>1, <2>2, <2>3, <2>4 DEF Ahead
\* The other steps draw nothing.
<1>8. ASSUME UNCHANGED screen,
             pc' \in {"draw", "wrapX", "wrapY", "next"} => rx' = X' /\ ry' = Y',
             pc' # "store", NEW x \in Nat, NEW y \in Nat, BlankFrom(x, y),
             CASE pc' \in {"wrapX", "wrapY", "nextY"} -> x = 0 /\ y = Y' + 1
               [] pc' = "nextX"                    -> x = 0 /\ y = Y'
               [] OTHER                            -> x = X' /\ y = Y'
      PROVE  Ahead'
  <2>1. BlankFrom(x, y)' /\ ~overprinted' /\ ~fault'
    BY <1>1, <1>3, <1>8 DEF BlankFrom, screen
  <2>2. CASE pc' \in {"wrapX", "wrapY", "nextY"}
    <3>1. BlankFrom(0, Y + 1)'
      BY <1>8, <2>1, <2>2 DEF BlankFrom
    <3>2. QED
      BY <1>8, <2>1, <2>2, <3>1 DEF Ahead
  <2>3. CASE pc' = "nextX"
    <3>1. BlankFrom(0, Y)'
      BY <1>8, <2>1, <2>3 DEF BlankFrom
    <3>2. QED
      BY <1>8, <2>1, <2>3, <3>1 DEF Ahead
  <2>4. CASE pc' \notin {"wrapX", "wrapY", "nextY", "nextX"}
    <3>1. BlankFrom(X, Y)'
      BY <1>8, <2>1, <2>4 DEF BlankFrom
    <3>2. QED
      BY <1>8, <2>1, <2>4, <3>1 DEF Ahead
  <2>5. QED
    BY <2>2, <2>3, <2>4
<1>9. CASE Load
  <2>1. pc = "load" /\ pc' = "draw" /\ rx' = X /\ ry' = Y /\ UNCHANGED <<X, Y, screen>>
    BY <1>9 DEF Load, At, cursor
  <2>2. BlankFrom(X, Y)
    BY <1>1, <1>2, <2>1 DEF Ahead
  <2>3. QED
    BY <1>4, <1>8, <2>1, <2>2
<1>10. CASE Store
  <2>1. /\ X' = rx + CharWidth /\ rx' = rx + CharWidth /\ pc = "store" /\ UNCHANGED <<Y, ry, screen>>
        /\ pc' = IF rx + CharWidth + CharWidth > Width THEN "wrapX"
                 ELSE IF left = 0 THEN "next" ELSE "draw"
    BY <1>6, <1>10 DEF Store, At, RowIsFull
  <2>2. rx = X /\ ry = Y /\ BlankFrom(X + CharWidth, Y) /\ X + CharWidth \in Nat
    BY <1>1, <1>2, <1>4, <2>1, Sizes DEF Ahead
  <2>3. CASE pc' = "wrapX"
    <3>1. Y + 1 \in Nat /\ BlankFrom(0, Y + 1)
      BY <1>3, <1>4, <2>2, BlankOn
    <3>2. QED
      BY <1>8, <2>1, <2>2, <2>3, <3>1
  <2>4. CASE pc' # "wrapX"
    BY <1>4, <1>8, <2>1, <2>2, <2>4
  <2>5. QED
    BY <2>3, <2>4
<1>11. CASE WrapX
  <2>1. /\ X' = 0 /\ rx' = 0 /\ pc = "wrapX" /\ pc' = "wrapY" /\ UNCHANGED <<Y, ry, screen>>
    BY <1>11 DEF WrapX, At
  <2>2. ry = Y /\ BlankFrom(0, Y + 1) /\ Y + 1 \in Nat
    BY <1>1, <1>2, <1>4, <2>1 DEF Ahead
  <2>3. QED
    BY <1>8, <2>1, <2>2
<1>12. CASE WrapY
  <2>1. /\ Y' = ry + 1 /\ ry' = ry + 1 /\ pc = "wrapY" /\ UNCHANGED <<X, rx, screen>>
        /\ pc' = IF left = 0 THEN "next" ELSE "draw"
    BY <1>6, <1>12 DEF WrapY, At
  <2>2. rx = X /\ ry = Y /\ BlankFrom(0, Y + 1) /\ Y + 1 \in Nat
    BY <1>1, <1>2, <1>4, <2>1 DEF Ahead
  <2>3. BlankFrom(X, Y + 1)
    BY <1>3, <1>4, <2>2, BlankOn
  <2>4. QED
    BY <1>4, <1>8, <2>1, <2>2, <2>3
<1>13. CASE NextX
  <2>1. /\ X' = 0 /\ Y' = Y /\ pc' = (IF pc = "next" THEN "nextY" ELSE "loop")
        /\ pc \in {"next", "nextX"} /\ UNCHANGED screen
    BY <1>13 DEF NextX, At
  <2>2. CASE pc = "next"
    <3>1. BlankFrom(X, Y) /\ Y + 1 \in Nat
      BY <1>1, <1>2, <1>4, <2>2 DEF Ahead
    <3>2. BlankFrom(0, Y + 1)
      BY <1>3, <1>4, <3>1, BlankOn
    <3>3. QED
      BY <1>8, <2>1, <2>2, <3>1, <3>2
  <2>3. CASE pc = "nextX"
    <3>1. BlankFrom(0, Y)
      BY <1>1, <1>2, <2>3 DEF Ahead
    <3>2. QED
      BY <1>4, <1>8, <2>1, <2>3, <3>1
  <2>4. QED
    BY <2>1, <2>2, <2>3
<1>14. CASE NextY
  <2>1. /\ X' = X /\ Y' = Y + 1 /\ pc' = (IF pc = "next" THEN "nextX" ELSE "loop")
        /\ pc \in {"next", "nextY"} /\ UNCHANGED screen
    BY <1>14 DEF NextY, At
  <2>2. CASE pc = "next"
    <3>1. BlankFrom(X, Y) /\ Y + 1 \in Nat
      BY <1>1, <1>2, <1>4, <2>2 DEF Ahead
    <3>2. BlankFrom(0, Y + 1)
      BY <1>3, <1>4, <3>1, BlankOn
    <3>3. QED
      BY <1>8, <2>1, <2>2, <3>1, <3>2
  <2>3. CASE pc = "nextY"
    <3>1. BlankFrom(0, Y + 1) /\ Y + 1 \in Nat
      BY <1>1, <1>2, <1>4, <2>3 DEF Ahead
    <3>2. BlankFrom(X, Y + 1)
      BY <1>3, <1>4, <3>1, BlankOn
    <3>3. QED
      BY <1>4, <1>8, <2>1, <2>3, <3>1, <3>2
  <2>4. QED
    BY <2>1, <2>2, <2>3
<1>15. QED
  BY <1>7, <1>9, <1>10, <1>11, <1>12, <1>13, <1>14 DEF Thread

\* Nothing is drawn over anything else unless a key came in the way of Print or
\* Backspace had less than a character to erase: Enter and Backspace
\* (BasicRenderer.c:62-91) leave what is behind the cursor blank.
THEOREM OverprintsNothing == Spec => []NothingIsOverprinted
<1>1. Init => Ahead
  <2>1. SUFFICES ASSUME Init PROVE Ahead
    OBVIOUS
  <2>2. \A cell \in drawn : cell[1] < Width /\ cell[2] < Y
    <3>1. Width % CharWidth \in Nat
      BY Sizes
    <3>2. ASSUME NEW cell \in drawn PROVE cell[1] < Width /\ cell[2] < Y
      <4>1. cell \in Cells /\ cell[2] < Y /\ cell[1] < Width - (Width % CharWidth)
        BY <2>1 DEF Init
      <4>2. QED
        BY <3>1, <4>1, Cell, Sizes
    <3>3. QED
      BY <3>2
  <2>3. pc = "load" /\ ~overprinted
    BY <2>1 DEF Init
  <2>4. QED
    BY <2>2, <2>3 DEF Ahead, BlankFrom
<1>2. Typed /\ Panicking /\ Ahead /\ [Next]_vars => Ahead'
  <2>1. SUFFICES ASSUME Typed, Panicking, Ahead, [Next]_vars PROVE Ahead'
    OBVIOUS
  <2>2. CASE Panic \/ PanicLines
    <3>1. panics' # 0
      BY <2>1, <2>2 DEF Panic, PanicLines, At, Panicking, PanicGoesOn, Typed, TypeOK
    <3>2. QED
      BY <3>1 DEF Ahead
  <2>3. CASE UNCHANGED vars
    BY <2>1, <2>3 DEF vars, cursor, thread, screen, history, Ahead, BlankFrom
  <2>4. QED
    BY <2>1, <2>2, <2>3, KeyKeepsAhead, ThreadKeepsAhead DEF Next, Thread
<1>3. Typed /\ Panicking /\ Ahead => NothingIsOverprinted
  BY DEF Typed, TypeOK, Panicking, PanicGoesOn, Ahead, NothingIsOverprinted
<1>4. QED
  BY <1>1, <1>2, <1>3, TypedInit, TypedNext, PanicInit, PanicNext, PTL DEF Spec
=============================================================================
