------------------------------ MODULE MouseCursor ------------------------------
(***************************************************************************)
(* The mouse pointer on the screen: ProcessMousePacket (mouse.c:107-150)   *)
(* moves it, and ClearMouseCursor and DrawOverlayMouseCursor               *)
(* (BasicRenderer.c:93-147) take it away from its old place and put it at  *)
(* its new one.  What is under the pointer is saved pixel by pixel, and so *)
(* is what the pixel looked like with the pointer on it: a pixel that has  *)
(* changed since was drawn by someone else and is left alone.              *)
(*                                                                         *)
(* That someone is the keyboard interrupt, which writes and erases text    *)
(* (PutCharS, ClearChar) between any two accesses of the main loop to the  *)
(* screen.  Text and pointer have the same colour, white.  The renderer is *)
(* a local of _start (kernel.c:52) whose constructor leaves MouseDrawn,    *)
(* ClearColor and the saved pixels as they happen to be.                   *)
(***************************************************************************)
EXTENDS Integers

CONSTANTS
  Width, Height,  \* of the screen, in pixels; a scan line has no padding
  Size,           \* of the pointer: 16 in the code
  MousePointer,   \* its pixels <<x, y>>
  PacketBytes,    \* values of a packet's bytes for x and y
  Colours, White, Black

ASSUME MouseCursorAssumption ==
  /\ Width \in Nat \ {0} /\ Height \in Nat \ {0} /\ Size \in Nat \ {0}
  /\ MousePointer \subseteq (0 .. Size - 1) \X (0 .. Size - 1)
  /\ PacketBytes \subseteq 0 .. 255
  /\ {White, Black} \subseteq Colours

Points == (0 .. Width - 1) \X (0 .. Height - 1)
Pixels == 0 .. Width * Height - 1

VARIABLES
  screen,      \* colour of every pixel, numbered along the scan lines
  ClearColor,
  MousePosition, MousePositionOLD, MouseDrawn,
  MouseCursorBuffer, MouseCursorBufferAfter,
  doing,       \* where the main loop is
  todo,        \* pixels of the pointer the current loop still has to visit
  text         \* what each pixel would be without a pointer, or Unknown if
               \* the pointer may cost it its text

renderer   == <<ClearColor, MouseDrawn, MouseCursorBuffer, MouseCursorBufferAfter>>
mouse      == <<MousePosition, MousePositionOLD>>
cursorVars == <<screen, renderer, mouse, doing, todo, text>>

Unknown == "unknown"

\* The pixel at x, y: PutPix and GetPix.
Pix(position, p) ==
  (position[1] + p[1]) + (position[2] + p[2]) * Width

Least(a, b) == IF a < b THEN a ELSE b

-----------------------------------------------------------------------------
(* Mutants: what the definitions of the same names, less the part behind   *)
(* the underscore, would be with a bug in the driver.                      *)

\* The pointer is not clipped at the right and lower edges.
Covered_Unclipped(position) == MousePointer

\* The position is clamped to the width and height, not to one less.
Clamped_TooFar(v, limit) == IF v < 0 THEN 0 ELSE IF v > limit THEN limit ELSE v

\* The pixel is saved when the pointer is on it already.
Shown_Pointer(p) == White

-----------------------------------------------------------------------------
\* The loops of both functions: the pointer's pixels on the screen.
Covered(position) ==
  LET xMax == Least(Size, Width - position[1])
      yMax == Least(Size, Height - position[2])
  IN  {p \in MousePointer : p[1] < xMax /\ p[2] < yMax}

\* The next of them, line by line.
First == CHOOSE p \in todo :
           \A q \in todo : p[2] < q[2] \/ (p[2] = q[2] /\ p[1] <= q[1])

Under(position) == {Pix(position, p) : p \in Covered(position)}

Clamped(v, limit) == IF v < 0 THEN 0 ELSE IF v > limit - 1 THEN limit - 1 ELSE v

\* The screen is black (kernel.c:95); interrupts will write text.  Mouse
\* positions are zeroed.  If MouseDrawn is not FALSE by chance, the first
\* packet restores what was never saved.
CursorInit ==
  /\ screen = [i \in Pixels |-> Black]
  /\ ClearColor \in Colours
  /\ MousePosition = <<0, 0>> /\ MousePositionOLD = <<0, 0>>
  /\ MouseDrawn \in BOOLEAN
  /\ IF MouseDrawn
     THEN /\ MouseCursorBuffer \in [MousePointer -> Colours]
          /\ MouseCursorBufferAfter \in [MousePointer -> Colours]
          /\ text = [i \in Pixels |-> IF i \in Under(<<0, 0>>) THEN Unknown ELSE screen[i]]
     ELSE /\ MouseCursorBuffer = [p \in MousePointer |-> White]
          /\ MouseCursorBufferAfter = MouseCursorBuffer
          /\ text = screen
  /\ doing = "idle" /\ todo = {}

-----------------------------------------------------------------------------
(* The keyboard interrupt.                                                 *)

\* Text under the pointer is lost if it looks like the pointer did, and text
\* that is drawn where the main loop is at work may be.
Endangered(i, c) ==
  IF doing = "idle"
  THEN /\ MouseDrawn
       /\ \E p \in Covered(MousePositionOLD) :
            Pix(MousePositionOLD, p) = i /\ MouseCursorBufferAfter[p] = c
  ELSE i \in Under(MousePositionOLD) \cup Under(MousePosition)

\* A pixel of a character is drawn or erased.
KeyboardInterrupt ==
  \E i \in Pixels, c \in {White, ClearColor} :
    /\ screen' = [screen EXCEPT ![i] = c]
    /\ text' = [text EXCEPT ![i] = IF Endangered(i, c) THEN Unknown ELSE c]
    /\ UNCHANGED <<renderer, mouse, doing, todo>>

-----------------------------------------------------------------------------
(* The main loop.                                                          *)

\* A byte of the packet with its sign and overflow bits.  A negative one is
\* subtracted from 256, in 8 bits.
Movement(byte, minus, overflow) ==
  LET distance == (IF minus THEN (256 - byte) % 256 ELSE byte)
                  + (IF overflow THEN 255 ELSE 0)
  IN  IF minus THEN -distance ELSE distance

Movements == {Movement(byte, minus, overflow) :
                byte \in PacketBytes, minus \in BOOLEAN, overflow \in BOOLEAN}

\* A packet moves the pointer, as far as the screen goes; y points upwards in
\* the packet.
ProcessMousePacket ==
  /\ doing = "idle"
  /\ \E dx, dy \in Movements :
       MousePosition' = << Clamped(MousePosition[1] + dx, Width),
                           Clamped(MousePosition[2] - dy, Height) >>
  /\ IF MouseDrawn THEN doing' = "clear" /\ todo' = Covered(MousePositionOLD)
                   ELSE doing' = "draw"  /\ todo' = Covered(MousePosition')
  /\ UNCHANGED <<screen, renderer, MousePositionOLD, text>>

Shown(p) == screen[Pix(MousePosition, p)]

Unchanged(p) == screen[Pix(MousePositionOLD, p)] = MouseCursorBufferAfter[p]

\* ClearMouseCursor looks at a pixel of the pointer at its old position
ClearLook == /\ doing = "clear" /\ todo # {}
             /\ IF Unchanged(First) THEN doing' = "restore" /\ UNCHANGED todo
                                    ELSE todo' = todo \ {First} /\ UNCHANGED doing
             /\ UNCHANGED <<screen, renderer, mouse, text>>

\* and restores it.
ClearRestore ==
  /\ doing = "restore"
  /\ screen' = [screen EXCEPT ![Pix(MousePositionOLD, First)] = MouseCursorBuffer[First]]
  /\ doing' = "clear" /\ todo' = todo \ {First}
  /\ UNCHANGED <<renderer, mouse, text>>

Cleared == /\ doing = "clear" /\ todo = {}
           /\ doing' = "draw" /\ todo' = Covered(MousePosition)
           /\ UNCHANGED <<screen, renderer, mouse, text>>

\* DrawOverlayMouseCursor saves a pixel,
DrawSave ==
  /\ doing = "draw" /\ todo # {}
  /\ MouseCursorBuffer' = [MouseCursorBuffer EXCEPT ![First] = Shown(First)]
  /\ doing' = "put"
  /\ UNCHANGED <<screen, ClearColor, MouseDrawn, MouseCursorBufferAfter, mouse, todo, text>>

\* draws the pointer's
DrawPut ==
  /\ doing = "put"
  /\ screen' = [screen EXCEPT ![Pix(MousePosition, First)] = White]
  /\ doing' = "after"
  /\ UNCHANGED <<renderer, mouse, todo, text>>

\* and notes what it looks like now.
DrawAfter ==
  /\ doing = "after"
  /\ MouseCursorBufferAfter' =
       [MouseCursorBufferAfter EXCEPT ![First] = screen[Pix(MousePosition, First)]]
  /\ doing' = "draw" /\ todo' = todo \ {First}
  /\ UNCHANGED <<screen, ClearColor, MouseDrawn, MouseCursorBuffer, mouse, text>>

Drawn == /\ doing = "draw" /\ todo = {}
         /\ MouseDrawn' = TRUE
         /\ MousePositionOLD' = MousePosition
         /\ doing' = "idle"
         /\ UNCHANGED <<screen, ClearColor, MouseCursorBuffer, MouseCursorBufferAfter,
                        MousePosition, todo, text>>

CursorNext ==
  \/ KeyboardInterrupt
  \/ ProcessMousePacket
  \/ ClearLook \/ ClearRestore \/ Cleared
  \/ DrawSave \/ DrawPut \/ DrawAfter \/ Drawn

CursorSpec == CursorInit /\ [][CursorNext]_cursorVars

-----------------------------------------------------------------------------
\* The types of the renderer's state.
CursorTypeOK ==
  /\ screen \in [Pixels -> Colours] /\ ClearColor \in Colours
  /\ MousePosition \in Points /\ MousePositionOLD \in Points
  /\ MouseDrawn \in BOOLEAN
  /\ MouseCursorBuffer \in [MousePointer -> Colours]
  /\ MouseCursorBufferAfter \in [MousePointer -> Colours]
  /\ doing \in {"idle", "clear", "restore", "draw", "put", "after"}
  /\ todo \subseteq MousePointer
  /\ text \in [Pixels -> Colours \cup {Unknown}]

\* The pointer is drawn and taken away on its own scan lines: no access leaves
\* the framebuffer or runs into the next line (BasicRenderer.c:104-110,
\* 126-132, with the position mouse.c:134-137 left behind).
StaysOnItsLines ==
  LET position == IF doing \in {"clear", "restore"} THEN MousePositionOLD ELSE MousePosition
  IN  \A p \in todo : <<position[1] + p[1], position[2] + p[2]>> \in Points

\* The pointer leaves no trace: where it is not, the screen shows the text,
\* unless the text was drawn under the pointer and looks like it, or where the
\* main loop was moving the pointer at the time.
PointerLeavesNoTrace ==
  doing = "idle" =>
    \A i \in Pixels :
      text[i] # Unknown /\ ~(MouseDrawn /\ i \in Under(MousePositionOLD)) => screen[i] = text[i]
=============================================================================
