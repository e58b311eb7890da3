------------------------------ MODULE Widgets -------------------------------
(***************************************************************************)
(* The widget tree of src/src/gui: where a mouse event goes, what it       *)
(* changes, and what is painted in which order.  A state of the tree is a  *)
(* record, and each handler a function from such records to such records,  *)
(* because an interrupt calls several of them in a row.                    *)
(*                                                                         *)
(* One coordinate stands for both.  The tree has two levels below the      *)
(* desktop: windows and toolbars (Children), and their widgets (Parts).    *)
(***************************************************************************)
EXTENDS Integers, Sequences

CONSTANTS
  DesktopHeight, \* rows of the screen
  PointerHeight, \* rows of the mouse pointer's bitmap
  Children,      \* what addChild gave the desktop, in that order
  Parts,         \* the same for each child
  Windows,       \* the children that can be dragged; the others are toolbars
  Buttons,       \* the widgets that are buttons
  Height,        \* rows of each widget
  Start,         \* its first row, counted from its parent's
  None           \* a null pointer

Top == {Children[i] : i \in DOMAIN Children}
PartsOf(c) == {Parts[c][i] : i \in DOMAIN Parts[c]}
Widgets == Top \union UNION {PartsOf(c) : c \in Top}

ASSUME HeightsAssumption ==
  /\ DesktopHeight \in Nat \ {0}
  /\ PointerHeight \in Nat \ {0}
  /\ Height \in [Widgets -> Nat \ {0}]
  /\ Start \in [Widgets -> Int]
ASSUME TreeAssumption ==
  /\ Windows \subseteq Top
  /\ None \notin Widgets
  /\ "desktop" \notin Widgets
  /\ Children \in Seq(Top)
  /\ \A c \in Top : Parts[c] \in Seq(PartsOf(c)) /\ PartsOf(c) \intersect Top = {}
\* kernelMain's toolbar holds the time button and nothing else.
ASSUME ToolbarAssumption ==
  \A c \in Top \ Windows : PartsOf(c) \subseteq Buttons

(***************************************************************************)
(* The part of the tree that changes.  focus["desktop"] is the desktop's   *)
(* focussedChild, focus[c] that of child c.                                *)
(***************************************************************************)
Gui == [y        : [Widgets -> Int],
        dragging : [Windows -> BOOLEAN],
        focus    : [Top \union {"desktop"} -> Widgets \union {None}],
        mouseY   : 0 .. DesktopHeight - 1]

InitialGui ==
  [y        |-> Start,
   dragging |-> [w \in Windows |-> FALSE],
   focus    |-> [c \in Top \union {"desktop"} |-> None],
   mouseY   |-> DesktopHeight \div 2]

-----------------------------------------------------------------------------
(* Routing. *)

ContainsCoordinate(g, w, y) == g.y[w] <= y /\ y < g.y[w] + Height[w]

\* The loops over children stop at the first that contains the point.
FirstAt(g, list, y) ==
  LET hits == {i \in DOMAIN list : ContainsCoordinate(g, list[i], y)} IN
  IF hits = {} THEN None
  ELSE list[CHOOSE i \in hits : \A j \in hits : i <= j]

ChildAt(g, y) == FirstAt(g, Children, y)

\* Each level takes its own place off the coordinate it hands down.
PartAt(g, c, y) == FirstAt(g, Parts[c], y - g.y[c])

\* A composite that keeps the focus to itself, for a mutant.
FocusKept(g, c, w) == [g EXCEPT !.focus[c] = w]

\* getFocus climbs: each composite remembers the child it was called from.
GetFocus(g, c, w) == [g EXCEPT !.focus = [@ EXCEPT ![c] = w, !["desktop"] = c]]

\* Only a plain widget asks for the focus.
PressPart(g, c) ==
  LET w == PartAt(g, c, g.mouseY) IN
  IF w = None \/ w \in Buttons THEN g ELSE GetFocus(g, c, w)

PressWindow(g, w, button) == [g EXCEPT !.dragging[w] = (button = 1)]

OnMouseDown(g, button) ==
  LET c == ChildAt(g, g.mouseY) IN
  CASE c = None         -> g
    [] c \in Windows    -> PressPart(PressWindow(g, c, button), c)
    [] OTHER            -> PressPart(g, c)

OnMouseUp(g, button) ==
  LET c == ChildAt(g, g.mouseY) IN
  IF c \in Windows THEN [g EXCEPT !.dragging[c] = FALSE] ELSE g

\* A window takes the whole of its move; the widgets in it ignore theirs.
MoveWindow(g, c, distance) ==
  IF c \in Windows /\ g.dragging[c]
  THEN [g EXCEPT !.y[c] = @ + distance]
  ELSE g

\* Both children hear of the move even if they are one, for a mutant.
TwiceRouted(g, new) ==
  LET moved == MoveWindow(g, ChildAt(g, g.mouseY), new - g.mouseY)
  IN  MoveWindow(moved, ChildAt(moved, new), new - g.mouseY)

\* The child under the old point hears of the move, and then the child under
\* the new point, unless it is the same one.
RouteMove(g, new) ==
  LET first  == ChildAt(g, g.mouseY)
      moved  == MoveWindow(g, first, new - g.mouseY)
      second == ChildAt(moved, new)
  IN  IF second = first THEN moved ELSE MoveWindow(moved, second, new - g.mouseY)

\* C++ divides towards zero.
Quarter(n) == IF n >= 0 THEN n \div 4 ELSE -((-n) \div 4)

Clamped(y) ==
  CASE y < 0              -> 0
    [] y >= DesktopHeight -> DesktopHeight - 1
    [] OTHER              -> y

OnMouseMove(g, distance) ==
  LET new == Clamped(g.mouseY + Quarter(distance)) IN
  [RouteMove(g, new) EXCEPT !.mouseY = new]

\* Where a key goes: down the chain of focussed children.  Toolbars override
\* onKeyDown with nothing.
KeyTarget(g) ==
  LET c == g.focus["desktop"] IN
  IF c \in Windows THEN g.focus[c] ELSE None

-----------------------------------------------------------------------------
(***************************************************************************)
(* Drawing.  The screen gives each row a colour: <<name>> of the widget    *)
(* painted there last, or <<"label", hour, minute>> for the row with the   *)
(* time, in which Blank is a part that is not written.                     *)
(***************************************************************************)
Blank == -1

Rows == 0 .. DesktopHeight - 1

\* fillRectangle compares its counter, which is signed, with y + h, which is
\* not: a rectangle that starts above the screen is not painted at all.
FillRectangle(s, y, h, colour) ==
  [r \in Rows |-> IF 0 <= y /\ y <= r /\ r < y + h THEN colour ELSE s[r]]

\* putPixel is clipped pixel by pixel.
DrawBMP(s, y) ==
  [r \in Rows |-> IF y <= r /\ r < y + PointerHeight THEN <<"pointer">> ELSE s[r]]

DrawLine(s, y) == [r \in Rows |-> IF r = y THEN <<"line">> ELSE s[r]]

ModelToScreen(g, c, w) == g.y[c] + g.y[w]

\* A button, unlike other widgets, does not add its parent's place.
ScreenY(g, c, w) == IF w \in Buttons THEN g.y[w] ELSE ModelToScreen(g, c, w)

LabelRow(g, w) == g.y[w] + Height[w] \div 2

DrawChild(s, g, c) ==
  LET ground == IF c \in Windows THEN s ELSE DrawLine(s, g.y[c] - 1) IN
  FillRectangle(ground, g.y[c], Height[c], <<c>>)

\* putStr reads the label while it draws it: the hour first.
PutHour(s, g, w, label) ==
  IF label = <<>> \/ LabelRow(g, w) \notin Rows THEN s
  ELSE [s EXCEPT ![LabelRow(g, w)] = <<"label", label[1], Blank>>]
PutMinute(s, g, w, label) ==
  IF LabelRow(g, w) \notin Rows THEN s
  ELSE IF s[LabelRow(g, w)][1] # "label" THEN s
  ELSE [s EXCEPT ![LabelRow(g, w)] = [@ EXCEPT ![3] = label[2]]]

(***************************************************************************)
(* Desktop::draw as a sequence of strokes: the ground, the children from   *)
(* the last to the first, each with its own from the last to the first,    *)
(* and the pointer.                                                        *)
(***************************************************************************)
Reversed(list) == [i \in DOMAIN list |-> list[Len(list) + 1 - i]]

ButtonStrokes(c, w) == << <<"part", c, w>>, <<"hour", c, w>>, <<"minute", c, w>> >>

PartStrokes(c) ==
  LET list == Reversed(Parts[c])
      from[i \in 0 .. Len(list)] ==
        IF i = 0 THEN <<>>
        ELSE from[i-1] \o (IF list[i] \in Buttons THEN ButtonStrokes(c, list[i])
                           ELSE << <<"part", c, list[i]>> >>)
  IN  from[Len(list)]

ChildStrokes(list) ==
  LET from[i \in 0 .. Len(list)] ==
        IF i = 0 THEN <<>>
        ELSE from[i-1] \o << <<"child", list[i]>> >> \o PartStrokes(list[i])
  IN  from[Len(list)]

\* The children drawn in the order in which they are searched, for a mutant.
UnreversedStrokes ==
  << <<"desktop">> >> \o ChildStrokes(Children) \o << <<"pointer">> >>

DesktopStrokes ==
  << <<"desktop">> >> \o ChildStrokes(Reversed(Children)) \o << <<"pointer">> >>

Stroke(s, g, label, stroke) ==
  CASE stroke[1] = "desktop" -> FillRectangle(s, 0, DesktopHeight, <<"desktop">>)
    [] stroke[1] = "child"   -> DrawChild(s, g, stroke[2])
    [] stroke[1] = "part"    -> FillRectangle(s, ScreenY(g, stroke[2], stroke[3]),
                                              Height[stroke[3]], <<stroke[3]>>)
    [] stroke[1] = "hour"    -> PutHour(s, g, stroke[3], label)
    [] stroke[1] = "minute"  -> PutMinute(s, g, stroke[3], label)
    [] stroke[1] = "pointer" -> DrawBMP(s, g.mouseY)
=============================================================================
