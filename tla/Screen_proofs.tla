--------------------------- MODULE Screen_proofs ---------------------------
(***************************************************************************)
(* The user's side of the kernel, for every tree of windows and toolbars,  *)
(* every size of the screen and every interleaving of the interrupts with  *)
(* the strokes of the main loop: first the mouse (MouseInv), then the order*)
(* of the strokes, what each of them leaves in a row, and the screen as a  *)
(* whole (ScreenInv).                                                      *)
(***************************************************************************)
EXTENDS Screen, NumberFacts, TLAPS

-----------------------------------------------------------------------------
(* The widget tree. *)

(* The loop over the children stops at the first that holds the point, and *)
(* finds none only if none does.                                           *)
LEMMA FirstHit ==
  ASSUME NEW g, NEW S, NEW list \in Seq(S), NEW y
  PROVE  \/ /\ FirstAt(g, list, y) = None
            /\ \A i \in DOMAIN list : ~ ContainsCoordinate(g, list[i], y)
         \/ \E i \in DOMAIN list :
              /\ FirstAt(g, list, y) = list[i]
              /\ ContainsCoordinate(g, list[i], y)
              /\ \A j \in DOMAIN list : j < i => ~ ContainsCoordinate(g, list[j], y)
<1> DEFINE hits == {i \in DOMAIN list : ContainsCoordinate(g, list[i], y)}
           first == CHOOSE i \in hits : \A j \in hits : i <= j
<1>1. FirstAt(g, list, y) = IF hits = {} THEN None ELSE list[first]
  BY DEF FirstAt
<1>2. CASE hits = {}
  BY <1>1, <1>2
<1>3. CASE hits # {}
  <2>1. hits \in SUBSET Nat
    OBVIOUS
  <2>2. \E i \in hits : \A j \in hits : i <= j
    BY <1>3, <2>1, FirstExists
  <2>3. first \in hits /\ \A j \in hits : first <= j
    BY <2>2
  <2> HIDE DEF first
  <2>4. ASSUME NEW j \in DOMAIN list, j < first
        PROVE  ~ ContainsCoordinate(g, list[j], y)
    <3>1. first \in Nat /\ j \in Nat
      BY <2>1, <2>3
    <3>2. j \notin hits
      BY <2>3, <2>4, <3>1
    <3> QED  BY <3>2
  <2> QED  BY <1>1, <1>3, <2>3, <2>4
<1> QED  BY <1>2, <1>3

LEMMA ChildAtType ==
  ASSUME NEW g, NEW y
  PROVE  ChildAt(g, y) \in Top \union {None}
<1>1. Children \in Seq(Top)
  BY TreeAssumption
<1>2. \A i \in DOMAIN Children : Children[i] \in Top
  BY <1>1
<1> QED  BY <1>1, <1>2, FirstHit DEF ChildAt

LEMMA PartAtType ==
  ASSUME NEW g, NEW c \in Top, NEW y
  PROVE  PartAt(g, c, y) \in PartsOf(c) \union {None}
<1>1. Parts[c] \in Seq(PartsOf(c))
  BY TreeAssumption
<1>2. \A i \in DOMAIN Parts[c] : Parts[c][i] \in PartsOf(c)
  BY <1>1
<1> DEFINE z == y - g.y[c]
           list == Parts[c]
           S == PartsOf(c)
<1>3. PartAt(g, c, y) = FirstAt(g, Parts[c], z)
  BY DEF PartAt
<1> HIDE DEF z, list, S
<1>4. list \in Seq(S)
  BY <1>1 DEF list, S
<1>5. \A i \in DOMAIN list : list[i] \in S
  BY <1>2 DEF list, S
<1>6. FirstAt(g, list, z) \in S \union {None}
  BY <1>4, <1>5, FirstHit
<1> QED  BY <1>3, <1>6 DEF list, S

LEMMA ClampedType ==
  ASSUME NEW n \in Int
  PROVE  Clamped(n) \in 0 .. DesktopHeight - 1
BY HeightsAssumption DEF Clamped

LEMMA QuarterType ==
  ASSUME NEW n \in Int
  PROVE  Quarter(n) \in Int
BY DEF Quarter

(* What each handler of the tree leaves alone. *)
LEMMA MoveWindowFields ==
  ASSUME NEW g \in Gui, NEW c, NEW d \in Int
  PROVE  /\ MoveWindow(g, c, d) \in Gui
         /\ MoveWindow(g, c, d).focus = g.focus
         /\ MoveWindow(g, c, d).dragging = g.dragging
         /\ MoveWindow(g, c, d).mouseY = g.mouseY
         /\ \A w \in Windows :
              MoveWindow(g, c, d).y[w] =
                IF w = c /\ g.dragging[w] THEN g.y[w] + d ELSE g.y[w]
         /\ \A w \in Widgets \ Windows : MoveWindow(g, c, d).y[w] = g.y[w]
<1>1. Windows \subseteq Widgets
  BY TreeAssumption DEF Widgets
<1>2. CASE c \in Windows /\ g.dragging[c]
  <2>1. MoveWindow(g, c, d) = [y |-> [g.y EXCEPT ![c] = @ + d], dragging |-> g.dragging,
                               focus |-> g.focus, mouseY |-> g.mouseY]
    BY <1>2 DEF MoveWindow, Gui
  <2>2. [g.y EXCEPT ![c] = @ + d] \in [Widgets -> Int]
    BY <1>1, <1>2 DEF Gui
  <2> QED  BY <1>1, <1>2, <2>1, <2>2 DEF Gui
<1>3. CASE ~ (c \in Windows /\ g.dragging[c])
  <2>1. MoveWindow(g, c, d) = g
    BY <1>3 DEF MoveWindow
  <2> QED  BY <1>3, <2>1
<1> QED  BY <1>2, <1>3

(* A window under the pointer that is held moves with the pointer, whether *)
(* the pointer leaves it or not.                                           *)
LEMMA MouseMoveFields ==
  ASSUME NEW g \in Gui, NEW distance \in Int
  PROVE  /\ OnMouseMove(g, distance) \in Gui
         /\ OnMouseMove(g, distance).focus = g.focus
         /\ OnMouseMove(g, distance).dragging = g.dragging
         /\ \A w \in Windows :
              g.dragging[w] /\ w = ChildAt(g, g.mouseY) =>
                OnMouseMove(g, distance).mouseY - OnMouseMove(g, distance).y[w] =
                  g.mouseY - g.y[w]
         /\ \A w \in Widgets \ Windows : OnMouseMove(g, distance).y[w] = g.y[w]
<1> DEFINE new    == Clamped(g.mouseY + Quarter(distance))
           first  == ChildAt(g, g.mouseY)
           moved  == MoveWindow(g, first, new - g.mouseY)
           second == ChildAt(moved, new)
           route  == RouteMove(g, new)
<1>1. g.mouseY \in Int /\ new \in 0 .. DesktopHeight - 1 /\ new \in Int
  BY QuarterType, ClampedType, HeightsAssumption DEF Gui
<1>2. OnMouseMove(g, distance) = [route EXCEPT !.mouseY = new]
  BY DEF OnMouseMove
<1>3. route = IF second = first THEN moved ELSE MoveWindow(moved, second, new - g.mouseY)
  BY DEF RouteMove
<1> HIDE DEF new
<1>4. new - g.mouseY \in Int
  BY <1>1
<1>5. /\ moved \in Gui
      /\ moved.focus = g.focus /\ moved.dragging = g.dragging
      /\ \A w \in Windows :
           moved.y[w] = IF w = first /\ g.dragging[w] THEN g.y[w] + (new - g.mouseY) ELSE g.y[w]
      /\ \A w \in Widgets \ Windows : moved.y[w] = g.y[w]
  BY <1>4, MoveWindowFields
<1> HIDE DEF moved, first
<1>6. /\ route \in Gui
      /\ route.focus = g.focus /\ route.dragging = g.dragging
      /\ \A w \in Windows : w = first => route.y[w] = moved.y[w]
      /\ \A w \in Widgets \ Windows : route.y[w] = g.y[w]
  <2>1. CASE second = first
    BY <1>3, <1>5, <2>1
  <2>2. CASE second # first
    BY <1>3, <1>4, <1>5, <2>2, MoveWindowFields
  <2> QED  BY <2>1, <2>2
<1> HIDE DEF route
<1>7. OnMouseMove(g, distance) = [y |-> route.y, dragging |-> route.dragging,
                                  focus |-> route.focus, mouseY |-> new]
  BY <1>2, <1>6 DEF Gui
<1>8. OnMouseMove(g, distance) \in Gui
  BY <1>1, <1>6, <1>7 DEF Gui
<1>9. ASSUME NEW w \in Windows, g.dragging[w], w = first
      PROVE  new - route.y[w] = g.mouseY - g.y[w]
  <2>1. route.y[w] = g.y[w] + (new - g.mouseY)
    BY <1>5, <1>6, <1>9
  <2>2. w \in Widgets
    BY TreeAssumption DEF Widgets
  <2>3. g.y[w] \in Int
    BY <2>2 DEF Gui
  <2> QED  BY <1>1, <2>1, <2>3
<1> QED  BY <1>6, <1>7, <1>8, <1>9 DEF first

(* A press gives the focus to the plain widget under the pointer and takes *)
(* the window in the hand; a release lets go of the window.                *)
LEMMA PressPartFields ==
  ASSUME NEW g \in Gui, NEW c \in Top
  PROVE  LET w == PartAt(g, c, g.mouseY) IN
         /\ PressPart(g, c) \in Gui
         /\ PressPart(g, c).y = g.y
         /\ PressPart(g, c).dragging = g.dragging
         /\ PressPart(g, c).mouseY = g.mouseY
         /\ w = None \/ w \in Buttons => PressPart(g, c).focus = g.focus
         /\ w # None /\ w \notin Buttons =>
              PressPart(g, c).focus["desktop"] = c /\ PressPart(g, c).focus[c] = w
<1> DEFINE w == PartAt(g, c, g.mouseY)
<1>1. w \in PartsOf(c) \union {None}
  BY PartAtType
<1>2. CASE w = None \/ w \in Buttons
  <2>1. PressPart(g, c) = g
    BY <1>2 DEF PressPart
  <2> QED  BY <1>2, <2>1
<1>3. CASE w # None /\ w \notin Buttons
  <2>1. PressPart(g, c) = GetFocus(g, c, w)
    BY <1>3 DEF PressPart
  <2> HIDE DEF w
  <2>2. w \in Widgets /\ c \in Widgets /\ c # "desktop"
    BY <1>1, <1>3, TreeAssumption DEF Widgets
  <2> DEFINE focus == [g.focus EXCEPT ![c] = w, !["desktop"] = c]
  <2>3. GetFocus(g, c, w) =
          [y |-> g.y, dragging |-> g.dragging, focus |-> focus, mouseY |-> g.mouseY]
    BY DEF Gui, GetFocus
  <2>4. focus \in [Top \union {"desktop"} -> Widgets \union {None}]
        /\ focus["desktop"] = c /\ focus[c] = w
    BY <2>2 DEF Gui
  <2> HIDE DEF focus
  <2>5. GetFocus(g, c, w) \in Gui
    BY <2>3, <2>4 DEF Gui
  <2> QED  BY <1>3, <2>1, <2>3, <2>4, <2>5 DEF w
<1> QED  BY <1>2, <1>3

LEMMA PressWindowFields ==
  ASSUME NEW g \in Gui, NEW c \in Windows, NEW button
  PROVE  /\ PressWindow(g, c, button) \in Gui
         /\ PressWindow(g, c, button).y = g.y
         /\ PressWindow(g, c, button).focus = g.focus
         /\ PressWindow(g, c, button).mouseY = g.mouseY
         /\ PressWindow(g, c, button).dragging = [g.dragging EXCEPT ![c] = (button = 1)]
<1>1. PressWindow(g, c, button) =
        [y |-> g.y, dragging |-> [g.dragging EXCEPT ![c] = (button = 1)],
         focus |-> g.focus, mouseY |-> g.mouseY]
  BY DEF Gui, PressWindow
<1> DEFINE dragging == [g.dragging EXCEPT ![c] = (button = 1)]
<1>2. dragging \in [Windows -> BOOLEAN]
  BY Zenon DEF Gui
<1> HIDE DEF dragging
<1>3. PressWindow(g, c, button) \in Gui
  BY <1>1, <1>2 DEF Gui, dragging
<1> QED  BY <1>1, <1>3

\* The part of a child under the pointer depends on the places only.
LEMMA SamePart ==
  ASSUME NEW g, NEW h, NEW c, NEW y, g.y = h.y
  PROVE  PartAt(g, c, y) = PartAt(h, c, y)
BY DEF PartAt, FirstAt, ContainsCoordinate

LEMMA MouseDownFields ==
  ASSUME NEW g \in Gui, NEW button
  PROVE  LET c == ChildAt(g, g.mouseY)
             w == IF c = None THEN None ELSE PartAt(g, c, g.mouseY) IN
         /\ OnMouseDown(g, button) \in Gui
         /\ OnMouseDown(g, button).y = g.y
         /\ OnMouseDown(g, button).mouseY = g.mouseY
         /\ OnMouseDown(g, button).dragging =
              IF c \in Windows THEN [g.dragging EXCEPT ![c] = (button = 1)] ELSE g.dragging
         /\ w = None \/ w \in Buttons => OnMouseDown(g, button).focus = g.focus
         /\ w # None /\ w \notin Buttons =>
              /\ c \in Windows
              /\ OnMouseDown(g, button).focus["desktop"] = c
              /\ OnMouseDown(g, button).focus[c] = w
<1> DEFINE c == ChildAt(g, g.mouseY)
<1>1. c \in Top \union {None}
  BY ChildAtType
<1>2. None \notin Top
  BY TreeAssumption DEF Widgets
<1>3. OnMouseDown(g, button) =
        CASE c = None -> g
          [] c \in Windows -> PressPart(PressWindow(g, c, button), c)
          [] OTHER -> PressPart(g, c)
  BY DEF OnMouseDown
<1> HIDE DEF c
<1>a. Windows \subseteq Top
  BY TreeAssumption
<1>4. CASE c = None
  <2>1. OnMouseDown(g, button) = g /\ c \notin Windows
    BY <1>2, <1>3, <1>4, <1>a
  <2> QED  BY <1>4, <2>1 DEF c
<1>5. CASE c \in Windows
  <2> DEFINE h == PressWindow(g, c, button)
  <2>1. OnMouseDown(g, button) = PressPart(h, c) /\ c \in Top /\ c # None
    BY <1>2, <1>3, <1>5, <1>a
  <2>2. /\ h \in Gui /\ h.y = g.y /\ h.mouseY = g.mouseY /\ h.focus = g.focus
        /\ h.dragging = [g.dragging EXCEPT ![c] = (button = 1)]
    BY <1>5, PressWindowFields
  <2> HIDE DEF h
  <2>3. PartAt(h, c, h.mouseY) = PartAt(g, c, g.mouseY)
    BY <2>2, SamePart
  <2> DEFINE w == PartAt(g, c, g.mouseY)
             k == PressPart(h, c)
  <2>4. /\ k \in Gui /\ k.y = h.y /\ k.dragging = h.dragging /\ k.mouseY = h.mouseY
        /\ w = None \/ w \in Buttons => k.focus = h.focus
        /\ w # None /\ w \notin Buttons => k.focus["desktop"] = c /\ k.focus[c] = w
    BY <2>1, <2>2, <2>3, PressPartFields
  <2> HIDE DEF k, w
  <2>5. k = OnMouseDown(g, button)
    BY <2>1 DEF k
  <2> QED  BY <1>5, <2>1, <2>2, <2>4, <2>5 DEF c, w
<1>6. CASE c \in Top \ Windows
  <2> DEFINE w == PartAt(g, c, g.mouseY)
             k == PressPart(g, c)
  <2>1. OnMouseDown(g, button) = k /\ c # None
    BY <1>2, <1>3, <1>6
  <2>2. /\ k \in Gui /\ k.y = g.y /\ k.dragging = g.dragging /\ k.mouseY = g.mouseY
        /\ w = None \/ w \in Buttons => k.focus = g.focus
    BY <1>6, PressPartFields
  <2>3. w \in PartsOf(c) \union {None}
    BY <1>6, PartAtType
  <2>4. w = None \/ w \in Buttons
    BY <1>6, <2>3, ToolbarAssumption
  <2> HIDE DEF k, w
  <2> QED  BY <1>6, <2>1, <2>2, <2>4 DEF c, w
<1> QED  BY <1>1, <1>4, <1>5, <1>6

LEMMA MouseUpFields ==
  ASSUME NEW g \in Gui, NEW button
  PROVE  LET c == ChildAt(g, g.mouseY) IN
         /\ OnMouseUp(g, button) \in Gui
         /\ OnMouseUp(g, button).y = g.y
         /\ OnMouseUp(g, button).mouseY = g.mouseY
         /\ OnMouseUp(g, button).focus = g.focus
         /\ OnMouseUp(g, button).dragging =
              IF c \in Windows THEN [g.dragging EXCEPT ![c] = FALSE] ELSE g.dragging
<1> DEFINE c == ChildAt(g, g.mouseY)
<1>1. OnMouseUp(g, button) = IF c \in Windows THEN [g EXCEPT !.dragging[c] = FALSE] ELSE g
  BY DEF OnMouseUp
<1> HIDE DEF c
<1>2. CASE c \in Windows
  <2> DEFINE dragging == [g.dragging EXCEPT ![c] = FALSE]
  <2>1. dragging \in [Windows -> BOOLEAN]
    BY Zenon DEF Gui
  <2>2. OnMouseUp(g, button) =
          [y |-> g.y, dragging |-> dragging, focus |-> g.focus, mouseY |-> g.mouseY]
    BY <1>1, <1>2 DEF Gui
  <2> HIDE DEF dragging
  <2>3. OnMouseUp(g, button) \in Gui
    BY <2>1, <2>2 DEF Gui
  <2> QED  BY <1>2, <2>2, <2>3 DEF c, dragging
<1>3. CASE c \notin Windows
  BY <1>1, <1>3 DEF c
<1> QED  BY <1>2, <1>3
-----------------------------------------------------------------------------
(* What the user makes of a mouse event. *)

Scenes ==
  [gui : Gui, grab : [Windows -> Int], astray : SUBSET Windows,
   clicked : Widgets \union {None}, typed : Widgets \union {None, "nothing"}]

\* The keys go to the widget clicked last.
KeysFollow(s) ==
  KeyTarget(s.gui) = s.clicked /\ s.typed \in {"nothing", s.clicked}

\* A window in the hand is where the hand is, and the button is down.
HandFollows(s, down) ==
  \A w \in Windows :
    s.gui.dragging[w] /\ w \notin s.astray =>
      s.gui.mouseY - s.gui.y[w] = s.grab[w] /\ down

\* Only windows move.
Still(s) == \A w \in Widgets \ Windows : s.gui.y[w] = Start[w]

LEMMA MovedScene ==
  ASSUME NEW s \in Scenes, NEW distance \in Int, NEW down \in BOOLEAN,
         KeysFollow(s), HandFollows(s, down), Still(s)
  PROVE  /\ Moved(s, distance) \in Scenes
         /\ Still(Moved(s, distance))
         /\ KeysFollow(Moved(s, distance))
         /\ HandFollows(Moved(s, distance), down)
<1> DEFINE g == OnMouseMove(s.gui, distance)
           over == PassedOver(s)
           t == Moved(s, distance)
<1>1. s.gui \in Gui
  BY DEF Scenes
<1>2. /\ g \in Gui /\ g.focus = s.gui.focus /\ g.dragging = s.gui.dragging
      /\ \A w \in Windows :
           s.gui.dragging[w] /\ w = ChildAt(s.gui, s.gui.mouseY) =>
             g.mouseY - g.y[w] = s.gui.mouseY - s.gui.y[w]
      /\ \A w \in Widgets \ Windows : g.y[w] = s.gui.y[w]
  BY <1>1, MouseMoveFields
<1>3. over \subseteq Windows
  BY DEF PassedOver
<1>4. t = [s EXCEPT !.gui = g, !.astray = s.astray \union over]
  BY DEF Moved
<1>5. \A w \in Windows :
        s.gui.dragging[w] /\ w \notin over => w = ChildAt(s.gui, s.gui.mouseY)
  BY DEF PassedOver
<1> HIDE DEF g, over, t
<1>6. /\ t.gui = g /\ t.grab = s.grab /\ t.astray = s.astray \union over
      /\ t.clicked = s.clicked /\ t.typed = s.typed /\ t \in Scenes
  BY <1>2, <1>3, <1>4 DEF Scenes
<1>7. KeysFollow(t)
  BY <1>2, <1>6 DEF KeysFollow, KeyTarget
<1>8. HandFollows(t, down)
  <2> SUFFICES ASSUME NEW w \in Windows, g.dragging[w], w \notin s.astray, w \notin over
               PROVE  g.mouseY - g.y[w] = s.grab[w] /\ down
    BY <1>6 DEF HandFollows
  <2>1. s.gui.dragging[w]
    BY <1>2
  <2>2. s.gui.mouseY - s.gui.y[w] = s.grab[w] /\ down
    BY <2>1 DEF HandFollows
  <2> QED  BY <1>2, <1>5, <2>1, <2>2
<1>9. Still(t)
  BY <1>2, <1>6 DEF Still
<1> QED  BY <1>6, <1>7, <1>8, <1>9 DEF t

LEMMA PressedScene ==
  ASSUME NEW s \in Scenes, NEW button, KeysFollow(s), Still(s)
  PROVE  /\ Pressed(s, button) \in Scenes
         /\ Still(Pressed(s, button))
         /\ KeysFollow(Pressed(s, button))
         /\ HandFollows(Pressed(s, button), button = 1)
<1> DEFINE c == ChildAt(s.gui, s.gui.mouseY)
           w == IF c = None THEN None ELSE PartAt(s.gui, c, s.gui.mouseY)
           g == OnMouseDown(s.gui, button)
           over == PassedOver(s)
           t == Pressed(s, button)
           hold == IF c \in Windows
                   THEN [s.grab EXCEPT ![c] = s.gui.mouseY - s.gui.y[c]] ELSE s.grab
           last == IF w = None \/ w \in Buttons THEN s.clicked ELSE w
<1>1. s.gui \in Gui
  BY DEF Scenes
<1>2. /\ g \in Gui /\ g.y = s.gui.y /\ g.mouseY = s.gui.mouseY
      /\ g.dragging = IF c \in Windows THEN [s.gui.dragging EXCEPT ![c] = (button = 1)]
                      ELSE s.gui.dragging
      /\ w = None \/ w \in Buttons => g.focus = s.gui.focus
      /\ w # None /\ w \notin Buttons =>
           c \in Windows /\ g.focus["desktop"] = c /\ g.focus[c] = w
  BY <1>1, MouseDownFields
<1>3. c \in Top \union {None} /\ w \in Widgets \union {None}
  <2>1. c \in Top \union {None}
    BY ChildAtType
  <2>2. c # None => w \in PartsOf(c) \union {None}
    BY <2>1, PartAtType
  <2> HIDE DEF c
  <2> QED  BY <2>1, <2>2 DEF Widgets
<1>4. over \subseteq Windows
  BY DEF PassedOver
<1>5. \A v \in Windows : s.gui.dragging[v] /\ v \notin over => v = c
  BY DEF PassedOver
<1>6. t = [s EXCEPT !.gui = g, !.grab = hold, !.astray = (s.astray \ {c}) \union over,
                    !.clicked = last, !.typed = "nothing"]
  BY DEF Pressed
<1>7. Windows \subseteq Widgets
  BY TreeAssumption DEF Widgets
<1> HIDE DEF c, w, g, over, t
<1>8. last \in Widgets \union {None}
  BY <1>3 DEF Scenes
<1>9. hold \in [Windows -> Int]
  <2>1. ASSUME c \in Windows PROVE s.gui.mouseY - s.gui.y[c] \in Int
    BY <1>1, <1>7, <2>1, HeightsAssumption DEF Gui
  <2> QED  BY <2>1 DEF Scenes
<1>10. c \in Windows => hold[c] = s.gui.mouseY - s.gui.y[c]
  BY DEF Scenes
<1> HIDE DEF hold, last
<1>11. /\ t.gui = g /\ t.grab = hold /\ t.astray = (s.astray \ {c}) \union over
       /\ t.clicked = last /\ t.typed = "nothing" /\ t \in Scenes
  BY <1>2, <1>4, <1>6, <1>8, <1>9 DEF Scenes
<1>12. KeysFollow(t)
  <2>1. CASE w = None \/ w \in Buttons
    BY <1>2, <1>11, <2>1 DEF KeysFollow, KeyTarget, last
  <2>2. CASE w # None /\ w \notin Buttons
    BY <1>2, <1>11, <2>2 DEF KeysFollow, KeyTarget, last
  <2> QED  BY <2>1, <2>2
<1>13. HandFollows(t, button = 1)
  <2> SUFFICES ASSUME NEW v \in Windows, g.dragging[v], v \notin over
               PROVE  g.mouseY - g.y[v] = hold[v] /\ button = 1
    BY <1>11 DEF HandFollows
  <2>1. v = c
    <3>1. CASE v # c
      <4>1. g.dragging[v] = s.gui.dragging[v]
        BY <1>1, <1>2, <3>1, Zenon DEF Gui
      <4> QED  BY <1>5, <4>1
    <3> QED  BY <3>1
  <2>2. g.dragging[c] = (button = 1)
    BY <1>1, <1>2, <2>1, Zenon DEF Gui
  <2> QED  BY <1>2, <1>10, <2>1, <2>2
<1>14. Still(t)
  BY <1>2, <1>11 DEF Still
<1> QED  BY <1>11, <1>12, <1>13, <1>14 DEF t

LEMMA ReleasedScene ==
  ASSUME NEW s \in Scenes, NEW button, KeysFollow(s), Still(s)
  PROVE  /\ Released(s, button) \in Scenes
         /\ Still(Released(s, button))
         /\ KeysFollow(Released(s, button))
         /\ HandFollows(Released(s, button), FALSE)
<1> DEFINE c == ChildAt(s.gui, s.gui.mouseY)
           g == OnMouseUp(s.gui, button)
           over == PassedOver(s)
           t == Released(s, button)
<1>1. s.gui \in Gui
  BY DEF Scenes
<1>2. /\ g \in Gui /\ g.y = s.gui.y /\ g.focus = s.gui.focus
      /\ g.dragging = IF c \in Windows THEN [s.gui.dragging EXCEPT ![c] = FALSE]
                      ELSE s.gui.dragging
  BY <1>1, MouseUpFields
<1>3. over \subseteq Windows
  BY DEF PassedOver
<1>4. \A v \in Windows : s.gui.dragging[v] /\ v \notin over => v = c
  BY DEF PassedOver
<1>5. t = [s EXCEPT !.gui = g, !.astray = s.astray \union over]
  BY DEF Released
<1> HIDE DEF c, g, over, t
<1>6. /\ t.gui = g /\ t.grab = s.grab /\ t.astray = s.astray \union over
      /\ t.clicked = s.clicked /\ t.typed = s.typed /\ t \in Scenes
  BY <1>2, <1>3, <1>5 DEF Scenes
<1>7. KeysFollow(t)
  BY <1>2, <1>6 DEF KeysFollow, KeyTarget
<1>8. HandFollows(t, FALSE)
  <2> SUFFICES ASSUME NEW v \in Windows, g.dragging[v], v \notin over
               PROVE  FALSE
    BY <1>6 DEF HandFollows
  <2>1. CASE v # c
    <3>1. CASE c \in Windows
      <4>1. g.dragging = [s.gui.dragging EXCEPT ![c] = FALSE]
        BY <1>2, <3>1
      <4>2. g.dragging[v] = s.gui.dragging[v]
        BY <1>1, <2>1, <4>1, Zenon DEF Gui
      <4> QED  BY <1>4, <2>1, <4>2
    <3>2. CASE c \notin Windows
      BY <1>2, <1>4, <3>2
    <3> QED  BY <3>1, <3>2
  <2>2. CASE v = c
    <3>1. g.dragging[v] = FALSE
      BY <1>1, <1>2, <2>2, Zenon DEF Gui
    <3> QED  BY <3>1
  <2> QED  BY <2>1, <2>2
<1>9. Still(t)
  BY <1>2, <1>6 DEF Still
<1> QED  BY <1>6, <1>7, <1>8, <1>9 DEF t

LEMMA BitType ==
  ASSUME NEW b \in Int, NEW i \in 0 .. 2
  PROVE  Bit(b, i) \in {0, 1}
<1> DEFINE m == <<1, 2, 4>>[i + 1]
<1>1. m \in {1, 2, 4}
  OBVIOUS
<1> HIDE DEF m
<1>2. b \div m \in Int
  BY <1>1
<1>3. Bit(b, i) = (b \div m) % 2
  BY DEF Bit, m
<1> QED  BY <1>2, <1>3

(* The driver's comparison of one button.  The first one may take a window *)
(* in the hand; the others only let go of it.                              *)
LEMMA ComparedFirst ==
  ASSUME NEW s \in Scenes, NEW old \in Int, NEW new \in Int,
         KeysFollow(s), HandFollows(s, Bit(old, 0) = 1), Still(s)
  PROVE  /\ Compared(s, old, new, 0) \in Scenes
         /\ Still(Compared(s, old, new, 0))
         /\ KeysFollow(Compared(s, old, new, 0))
         /\ HandFollows(Compared(s, old, new, 0), Bit(new, 0) = 1)
<1> DEFINE a == Bit(old, 0)
           b == Bit(new, 0)
<1>1. a \in {0, 1} /\ b \in {0, 1}
  BY BitType
<1>2. /\ b = a => Compared(s, old, new, 0) = s
      /\ b < a => Compared(s, old, new, 0) = Released(s, 1)
      /\ b > a => Compared(s, old, new, 0) = Pressed(s, 1)
  BY <1>1 DEF Compared
<1> HIDE DEF a, b
<1>3. CASE b = a
  <2>1. HandFollows(s, a = 1)
    BY DEF a
  <2>2. HandFollows(s, b = 1)
    BY <1>3, <2>1 DEF HandFollows
  <2>3. Compared(s, old, new, 0) = s
    BY <1>2, <1>3
  <2> QED  BY <2>2, <2>3 DEF b
<1>4. CASE b < a
  <2>1. Released(s, 1) \in Scenes /\ Still(Released(s, 1)) /\ KeysFollow(Released(s, 1))
        /\ HandFollows(Released(s, 1), FALSE)
    BY ReleasedScene
  <2>2. HandFollows(Released(s, 1), b = 1)
    BY <2>1 DEF HandFollows
  <2> QED  BY <1>2, <1>4, <2>1, <2>2 DEF b
<1>5. CASE b > a
  <2>1. Pressed(s, 1) \in Scenes /\ Still(Pressed(s, 1)) /\ KeysFollow(Pressed(s, 1))
        /\ HandFollows(Pressed(s, 1), 1 = 1)
    BY PressedScene
  <2>2. b = 1
    BY <1>1, <1>5
  <2>3. HandFollows(Pressed(s, 1), b = 1)
    BY <2>1, <2>2 DEF HandFollows
  <2> QED  BY <1>2, <1>5, <2>1, <2>3 DEF b
<1> QED  BY <1>1, <1>3, <1>4, <1>5

LEMMA ComparedOther ==
  ASSUME NEW s \in Scenes, NEW old \in Int, NEW new \in Int, NEW i \in {1, 2}, NEW down \in BOOLEAN,
         KeysFollow(s), HandFollows(s, down), Still(s)
  PROVE  /\ Compared(s, old, new, i) \in Scenes
         /\ Still(Compared(s, old, new, i))
         /\ KeysFollow(Compared(s, old, new, i))
         /\ HandFollows(Compared(s, old, new, i), down)
<1>1. Compared(s, old, new, i) \in {s, Released(s, i + 1), Pressed(s, i + 1)}
  <2>1. Bit(old, i) \in {0, 1} /\ Bit(new, i) \in {0, 1}
    BY BitType
  <2> QED  BY <2>1 DEF Compared
<1>2. /\ Released(s, i + 1) \in Scenes /\ KeysFollow(Released(s, i + 1))
      /\ Still(Released(s, i + 1)) /\ HandFollows(Released(s, i + 1), FALSE)
  BY ReleasedScene
<1>3. /\ Pressed(s, i + 1) \in Scenes /\ KeysFollow(Pressed(s, i + 1))
      /\ Still(Pressed(s, i + 1)) /\ HandFollows(Pressed(s, i + 1), i + 1 = 1)
  BY PressedScene
<1>4. ~ (i + 1 = 1)
  OBVIOUS
<1>5. HandFollows(Released(s, i + 1), down) /\ HandFollows(Pressed(s, i + 1), down)
  BY <1>2, <1>3, <1>4 DEF HandFollows
<1> QED  BY <1>1, <1>2, <1>3, <1>5

(* A packet as a whole. *)
LEMMA ComparedScene ==
  ASSUME NEW s \in Scenes, NEW old \in Int, NEW new \in Int,
         KeysFollow(s), HandFollows(s, Bit(old, 0) = 1), Still(s)
  PROVE  /\ Compare(s, old, new) \in Scenes
         /\ Still(Compare(s, old, new))
         /\ KeysFollow(Compare(s, old, new))
         /\ HandFollows(Compare(s, old, new), Bit(new, 0) = 1)
<1> DEFINE down == Bit(new, 0) = 1
           one == Compared(s, old, new, 0)
           two == Compared(one, old, new, 1)
           three == Compared(two, old, new, 2)
<1>1. down \in BOOLEAN /\ one \in Scenes /\ KeysFollow(one) /\ HandFollows(one, down) /\ Still(one)
  BY ComparedFirst
<1>2. Compare(s, old, new) = three
  BY DEF Compare
<1> HIDE DEF one, down
<1>3. two \in Scenes /\ KeysFollow(two) /\ HandFollows(two, down) /\ Still(two)
  BY <1>1, ComparedOther
<1> HIDE DEF two
<1>4. three \in Scenes /\ KeysFollow(three) /\ HandFollows(three, down) /\ Still(three)
  BY <1>1, <1>3, ComparedOther
<1> QED  BY <1>2, <1>4 DEF down

-----------------------------------------------------------------------------
(* The bytes of the mouse and the user's hand. *)

\* Where the three bytes of a packet are while it is read.
Underway(p, a, d) ==
  \/ buffer = <<>>     /\ wire = <<p, a, d>>
  \/ buffer = <<p>>    /\ wire = <<a, d>>
  \/ buffer = <<p, a>> /\ wire = <<d>>

(***************************************************************************)
(* The invariant of the mouse: the bytes in the driver and on the wire are *)
(* those of one packet, unless one was lost, and its first byte tells what *)
(* the user holds; keys and windows follow what the user did, and nothing  *)
(* but windows has moved; and what the driver takes to be down is down.    *)
(***************************************************************************)
MouseInv ==
  /\ buffer \in Seq(Byte) /\ wire \in Seq(Byte)
  /\ buttons \in Byte /\ held \in 0 .. 7
  /\ Scene \in Scenes
  /\ Still(Scene)
  /\ KeysFollow(Scene)
  /\ HandFollows(Scene, Bit(buttons, 0) = 1)
  /\ ~ slipped =>
       \/ buffer = <<>> /\ wire = <<>> /\ Bit(buttons, 0) = Bit(held, 0)
       \/ \E p, a, d \in Byte : Bit(p, 0) = Bit(held, 0) /\ Underway(p, a, d)

LEMMA InitialGuiType == InitialGui \in Gui
<1>1. DesktopHeight \div 2 \in 0 .. DesktopHeight - 1
  BY HeightsAssumption
<1> QED  BY <1>1, HeightsAssumption DEF InitialGui, Gui

LEMMA MouseInvInit == ScreenInit => MouseInv
<1> SUFFICES ASSUME ScreenInit PROVE MouseInv
  OBVIOUS
<1> USE DEF ScreenInit
<1>1. buffer \in Seq(Byte) /\ wire \in Seq(Byte) /\ buttons \in Byte /\ held \in 0 .. 7
  <2>1. 250 \in Byte /\ 0 \in Byte
    BY DEF Byte
  <2>2. <<250>> \in Seq(Byte) /\ <<>> \in Seq(Byte)
    BY <2>1
  <2>3. wire \in Seq(Byte)
    BY <2>2
  <2> QED  BY <2>1, <2>2, <2>3
<1>2. Scene \in Scenes
  BY InitialGuiType DEF Scene, Scenes
<1>3. KeysFollow(Scene)
  <2>1. None \notin Windows
    BY TreeAssumption DEF Widgets
  <2> QED  BY <2>1 DEF KeysFollow, KeyTarget, Scene, InitialGui
<1>4. HandFollows(Scene, Bit(buttons, 0) = 1)
  BY DEF HandFollows, Scene, InitialGui
<1>5. ~ slipped => buffer = <<>> /\ wire = <<>> /\ Bit(buttons, 0) = Bit(held, 0)
  OBVIOUS
<1>6. Still(Scene)
  BY DEF Still, Scene, InitialGui
<1> QED  BY <1>1, <1>2, <1>3, <1>4, <1>5, <1>6 DEF MouseInv

LEMMA Int8Type ==
  ASSUME NEW b \in Byte
  PROVE  - Int8(b) \in Int
BY DEF Byte, Int8

(* The packet the mouse sends tells which buttons are held. *)
LEMMA PacketBytes ==
  ASSUME NEW d \in Movements, NEW b \in ButtonStates
  PROVE  LET p == 8 + b + (IF d < 0 THEN 32 ELSE 0) IN
         p \in Byte /\ 0 \in Byte /\ d % 256 \in Byte /\ b \in 0 .. 7 /\ Bit(p, 0) = Bit(b, 0)
<1>1. d \in Int /\ b \in 0 .. 7
  BY InputsAssumption
<1>2. \A n \in Int : Bit(n, 0) = n % 2
  BY DEF Bit
<1>3. (8 + b) % 2 = b % 2 /\ (8 + b + 32) % 2 = b % 2
  BY <1>1
<1>4. d % 256 \in Byte
  BY <1>1 DEF Byte
<1>5. CASE d < 0
  BY <1>1, <1>2, <1>3, <1>4, <1>5 DEF Byte
<1>6. CASE ~ (d < 0)
  BY <1>1, <1>2, <1>3, <1>4, <1>6 DEF Byte
<1> QED  BY <1>5, <1>6

LEMMA SceneKept ==
  ASSUME UNCHANGED <<gui, userVars>>
  PROVE  Scene' = Scene
BY DEF Scene, userVars

LEMMA AppendPair ==
  ASSUME NEW S, NEW p \in S, NEW a \in S
  PROVE  Append(<<p>>, a) = <<p, a>>
<1> DEFINE one == <<p>>
<1>1. one \in Seq(S) /\ Len(one) = 1 /\ one[1] = p
  OBVIOUS
<1> HIDE DEF one
<1> DEFINE two == Append(one, a)
<1>2. two \in Seq(S) /\ Len(two) = 2 /\ two[1] = p /\ two[2] = a
  BY <1>1 DEF one
<1> HIDE DEF two
<1>3. two = <<p, a>>
  BY <1>2
<1> QED  BY <1>3 DEF one, two

LEMMA MouseInvNext ==
  ASSUME MouseInv, [ScreenNext]_screenVars
  PROVE  MouseInv'
<1>1. CASE MouseInterrupt
  <2> DEFINE bytes == Append(buffer, Head(wire))
  <2>1. /\ wire # <<>> /\ wire' = Tail(wire)
        /\ IF Len(bytes) = 3 THEN buffer' = <<>> /\ Packet(bytes)
           ELSE buffer' = bytes /\ UNCHANGED <<gui, userVars, buttons, desktopRedraw, missed>>
        /\ UNCHANGED <<held, slipped>>
    BY <1>1 DEF MouseInterrupt
  <2>2. bytes \in Seq(Byte) /\ wire' \in Seq(Byte)
    BY <2>1 DEF MouseInv
  <2>3. CASE Len(bytes) = 3
    <3>1. buffer' = <<>> /\ Packet(bytes)
      BY <2>1, <2>3
    <3>2. bytes[1] \in Byte /\ bytes[3] \in Byte
      BY <2>2, <2>3
    <3> DEFINE moved == Moved(Scene, -Int8(bytes[3]))
               s == Compare(moved, buttons, bytes[1])
    <3>3. /\ gui' = s.gui /\ grab' = s.grab /\ astray' = s.astray
          /\ clicked' = s.clicked /\ typed' = s.typed /\ buttons' = bytes[1]
      BY <3>1 DEF Packet
    <3>4. moved \in Scenes /\ KeysFollow(moved) /\ HandFollows(moved, Bit(buttons, 0) = 1)
          /\ Still(moved)
      BY <3>2, Int8Type, MovedScene DEF MouseInv
    <3>5. buttons \in Int /\ bytes[1] \in Int
      <4>1. \A b \in Byte : b \in Int
        BY DEF Byte
      <4> QED  BY <3>2, <4>1 DEF MouseInv
    <3> HIDE DEF moved
    <3>6. s \in Scenes /\ KeysFollow(s) /\ HandFollows(s, Bit(bytes[1], 0) = 1)
          /\ Still(s)
      BY <3>4, <3>5, ComparedScene
    <3> HIDE DEF s
    <3>7. Scene' = s
      BY <3>3, <3>6 DEF Scene, Scenes
    <3>8. HandFollows(Scene', Bit(buttons', 0) = 1)
      BY <3>3, <3>6, <3>7
    <3>9. ~ slipped' => buffer' = <<>> /\ wire' = <<>> /\ Bit(buttons', 0) = Bit(held', 0)
      <4> SUFFICES ASSUME ~ slipped PROVE wire' = <<>> /\ Bit(buttons', 0) = Bit(held', 0)
        BY <2>1, <3>1
      <4>1. \E p, a, d \in Byte : Bit(p, 0) = Bit(held, 0) /\ Underway(p, a, d)
        BY <2>1 DEF MouseInv
      <4>2. PICK p \in Byte, a \in Byte, d \in Byte : Bit(p, 0) = Bit(held, 0) /\ Underway(p, a, d)
        BY <4>1
      <4>3. buffer = <<p, a>> /\ wire = <<d>>
        BY <2>1, <2>3, <4>2 DEF Underway
      <4>4. bytes[1] = p /\ wire' = <<>>
        BY <2>1, <4>3
      <4> QED  BY <2>1, <3>3, <4>2, <4>4
    <3> QED  BY <2>1, <2>2, <3>1, <3>2, <3>3, <3>6, <3>7, <3>8, <3>9 DEF MouseInv
  <2>4. CASE Len(bytes) # 3
    <3>1. buffer' = bytes /\ UNCHANGED <<gui, userVars, buttons>>
      BY <2>1, <2>4
    <3>2. Scene' = Scene
      BY <3>1, SceneKept
    <3>3. ~ slipped' => \E p, a, d \in Byte : Bit(p, 0) = Bit(held', 0) /\ Underway(p, a, d)'
      <4> SUFFICES ASSUME ~ slipped
                   PROVE  \E p, a, d \in Byte : Bit(p, 0) = Bit(held', 0) /\ Underway(p, a, d)'
        BY <2>1
      <4>1. \E p, a, d \in Byte : Bit(p, 0) = Bit(held, 0) /\ Underway(p, a, d)
        BY <2>1 DEF MouseInv
      <4>2. PICK p \in Byte, a \in Byte, d \in Byte : Bit(p, 0) = Bit(held, 0) /\ Underway(p, a, d)
        BY <4>1
      <4>3. Underway(p, a, d)'
        <5>1. CASE buffer = <<>> /\ wire = <<p, a, d>>
          BY <2>1, <3>1, <5>1 DEF Underway
        <5>2. CASE buffer = <<p>> /\ wire = <<a, d>>
          <6>1. bytes = <<p, a>> /\ wire' = <<d>>
            <7>1. Head(wire) = a /\ Tail(wire) = <<d>>
              BY <5>2
            <7>2. Append(<<p>>, a) = <<p, a>>
              BY AppendPair
            <7>3. bytes = Append(<<p>>, a)
              BY <5>2, <7>1
            <7> QED  BY <2>1, <7>1, <7>2, <7>3
          <6> QED  BY <3>1, <6>1 DEF Underway
        <5>3. CASE buffer = <<p, a>> /\ wire = <<d>>
          BY <2>4, <5>3
        <5> QED  BY <4>2, <5>1, <5>2, <5>3 DEF Underway
      <4> QED  BY <2>1, <4>2, <4>3
    <3> QED  BY <2>1, <2>2, <3>1, <3>2, <3>3 DEF MouseInv
  <2> QED  BY <2>3, <2>4
<1>2. CASE KeyInterrupt
  <2>1. /\ typed' = KeyTarget(gui)
        /\ UNCHANGED <<gui, buttons, buffer, wire, held, slipped, grab, astray, clicked>>
    BY <1>2 DEF KeyInterrupt, mouseVars, deviceVars
  <2>2. KeysFollow(Scene)
    BY DEF MouseInv
  <2>3. typed' = clicked
    BY <2>1, <2>2 DEF KeysFollow, Scene
  <2>4. Scene' \in Scenes
    BY <2>1, <2>3 DEF MouseInv, Scene, Scenes
  <2>5. KeysFollow(Scene')
    BY <2>1, <2>2, <2>3 DEF KeysFollow, Scene
  <2>6. HandFollows(Scene', Bit(buttons', 0) = 1)
    BY <2>1 DEF MouseInv, HandFollows, Scene
  <2>7. Still(Scene')
    BY <2>1 DEF MouseInv, Still, Scene
  <2> QED  BY <2>1, <2>4, <2>5, <2>6, <2>7 DEF MouseInv, Underway
<1>3. CASE MouseSends
  <2>1. PICK d \in Movements, b \in ButtonStates :
          /\ wire' = << 8 + b + (IF d < 0 THEN 32 ELSE 0), 0, d % 256 >>
          /\ held' = b
    BY <1>3 DEF MouseSends
  <2>2. wire = <<>> /\ UNCHANGED <<gui, userVars, buttons, buffer, slipped>>
    BY <1>3 DEF MouseSends, mouseVars
  <2>3. Scene' = Scene
    BY <2>2, SceneKept
  <2> DEFINE p == 8 + b + (IF d < 0 THEN 32 ELSE 0)
             e == d % 256
  <2>4. p \in Byte /\ 0 \in Byte /\ e \in Byte /\ b \in 0 .. 7 /\ Bit(p, 0) = Bit(b, 0)
    BY PacketBytes
  <2>5. wire' = <<p, 0, e>>
    BY <2>1
  <2> HIDE DEF p, e
  <2>6. ~ slipped' => Bit(p, 0) = Bit(held', 0) /\ Underway(p, 0, e)'
    BY <2>1, <2>2, <2>4, <2>5 DEF MouseInv, Underway
  <2>7. wire' \in Seq(Byte) /\ held' \in 0 .. 7
    BY <2>1, <2>4, <2>5
  <2>8. ~ slipped' => \E q, a, f \in Byte : Bit(q, 0) = Bit(held', 0) /\ Underway(q, a, f)'
    BY <2>4, <2>6
  <2> QED  BY <2>2, <2>3, <2>7, <2>8 DEF MouseInv
<1>4. CASE ByteLost
  <2>1. /\ wire # <<>> /\ wire' = Tail(wire) /\ slipped' = TRUE
        /\ UNCHANGED <<gui, userVars, buttons, buffer, held>>
    BY <1>4 DEF ByteLost, mouseVars
  <2>2. Scene' = Scene
    BY <2>1, SceneKept
  <2>3. wire' \in Seq(Byte)
    BY <2>1 DEF MouseInv
  <2> QED  BY <2>1, <2>2, <2>3 DEF MouseInv
<1>5. CASE \/ ClockInterrupt \/ MainLoop \/ ClockTicks \/ UNCHANGED screenVars
  <2>1. UNCHANGED <<gui, userVars, buttons, buffer, wire, held, slipped>>
    BY <1>5 DEF ClockInterrupt, MainLoop, ClockTicks, screenVars, mouseVars, deviceVars
  <2>2. Scene' = Scene
    BY <2>1, SceneKept
  <2> QED  BY <2>1, <2>2 DEF MouseInv, Underway
<1> QED  BY <1>1, <1>2, <1>3, <1>4, <1>5 DEF ScreenNext

THEOREM MouseInvariant == ScreenSpec => []MouseInv
<1>1. MouseInv /\ [ScreenNext]_screenVars => MouseInv'
  BY MouseInvNext
<1> QED  BY MouseInvInit, <1>1, PTL DEF ScreenSpec

(***************************************************************************)
(* What is typed goes to the widget clicked last, for every tree of        *)
(* windows and toolbars and whatever mouse and keyboard send.              *)
(***************************************************************************)
THEOREM KeysGoToLastClickedAlways == ScreenSpec => []KeysGoToLastClicked
<1>1. MouseInv => KeysGoToLastClicked
  BY DEF MouseInv, KeysFollow, Scene, KeysGoToLastClicked
<1> QED  BY <1>1, MouseInvariant, PTL

(***************************************************************************)
(* A window the user drags stays under the hand and is let go with the     *)
(* button, for every tree of windows, as long as the window is on top and  *)
(* no byte of the mouse is lost.                                           *)
(***************************************************************************)
THEOREM DragFollowsHandAlways == ScreenSpec => []DragFollowsHand
<1>1. ASSUME MouseInv PROVE DragFollowsHand
  <2> SUFFICES ASSUME NEW w \in Windows, gui.dragging[w], w \notin astray
               PROVE  /\ gui.mouseY - gui.y[w] = grab[w]
                      /\ wire = <<>> /\ ~slipped => Bit(held, 0) = 1
    BY DEF DragFollowsHand
  <2>1. gui.mouseY - gui.y[w] = grab[w] /\ Bit(buttons, 0) = 1
    BY <1>1 DEF MouseInv, HandFollows, Scene
  <2>2. wire = <<>> /\ ~slipped => Bit(buttons, 0) = Bit(held, 0)
    BY <1>1 DEF MouseInv, Underway
  <2> QED  BY <2>1, <2>2
<1> QED  BY <1>1, MouseInvariant, PTL
-----------------------------------------------------------------------------
(* The order of the strokes. *)

Kinds == {"desktop", "child", "part", "hour", "minute", "pointer"}

\* The strokes of the widgets of a child, and with it of the child itself.
PartSet(c) ==
  {st \in {"part", "hour", "minute"} \X {c} \X PartsOf(c) :
     st[1] \in {"hour", "minute"} => st[3] \in Buttons}
ChildSet(c) == {<<"child", c>>} \union PartSet(c)
Inner == UNION {ChildSet(c) : c \in Top}

\* What lies over the widget at a place in a child, and over a child.
PartsOver(c, m) ==
  {st \in PartSet(c) : st[1] = "part" =>
     \E k \in DOMAIN Parts[c] : k < m /\ st[3] = Parts[c][k]}
ChildrenOver(a) ==
  UNION {ChildSet(Children[b]) : b \in {b \in DOMAIN Children : b < a}}

\* x is drawn, and after it only what is in V.
On(s, x, V) ==
  \E p \in DOMAIN s : s[p] = x /\ \A q \in DOMAIN s : q > p => s[q] \in V

\* The hour is always followed by the minute.
HourBeforeMinute(s) ==
  \A q \in DOMAIN s : s[q][1] = "hour" => q + 1 \in DOMAIN s /\ s[q + 1][1] = "minute"

LEMMA OnBefore ==
  ASSUME NEW S, NEW s \in Seq(S), NEW t \in Seq(S), NEW x, NEW V, NEW W,
         On(s, x, V), V \subseteq W, \A q \in DOMAIN t : t[q] \in W
  PROVE  On(s \o t, x, W)
<1>1. PICK p \in DOMAIN s : s[p] = x /\ \A q \in DOMAIN s : q > p => s[q] \in V
  BY DEF On
<1> DEFINE u == s \o t
<1>2. p \in DOMAIN u /\ u[p] = x
  BY <1>1
<1>3. ASSUME NEW q \in DOMAIN u, q > p PROVE u[q] \in W
  <2>1. CASE q \in DOMAIN s
    BY <1>1, <1>3, <2>1
  <2>2. CASE q \notin DOMAIN s
    <3>1. q - Len(s) \in DOMAIN t /\ u[q] = t[q - Len(s)]
      BY <2>2
    <3> QED  BY <3>1
  <2> QED  BY <2>1, <2>2
<1> HIDE DEF u
<1>4. On(u, x, W)
  BY <1>2, <1>3 DEF On
<1> QED  BY <1>4 DEF u

LEMMA OnAfter ==
  ASSUME NEW S, NEW s \in Seq(S), NEW t \in Seq(S), NEW x, NEW V, NEW W,
         On(t, x, V), V \subseteq W
  PROVE  On(s \o t, x, W)
<1>1. PICK p \in DOMAIN t : t[p] = x /\ \A q \in DOMAIN t : q > p => t[q] \in V
  BY DEF On
<1> DEFINE u == s \o t
           r == Len(s) + p
<1>2. r \in DOMAIN u /\ u[r] = x
  BY <1>1
<1>3. ASSUME NEW q \in DOMAIN u, q > r PROVE u[q] \in W
  <2>1. q - Len(s) \in DOMAIN t /\ q - Len(s) > p /\ u[q] = t[q - Len(s)]
    BY <1>3
  <2> QED  BY <1>1, <2>1
<1> HIDE DEF u, r
<1>4. On(u, x, W)
  BY <1>2, <1>3 DEF On
<1> QED  BY <1>4 DEF u

LEMMA HourConcat ==
  ASSUME NEW S, NEW s \in Seq(S), NEW t \in Seq(S),
         HourBeforeMinute(s), HourBeforeMinute(t)
  PROVE  HourBeforeMinute(s \o t)
<1> DEFINE u == s \o t
<1>1. ASSUME NEW q \in DOMAIN u, u[q][1] = "hour"
      PROVE  q + 1 \in DOMAIN u /\ u[q + 1][1] = "minute"
  <2>1. CASE q \in DOMAIN s
    <3>1. u[q] = s[q]
      BY <2>1
    <3>2. q + 1 \in DOMAIN s /\ s[q + 1][1] = "minute"
      BY <1>1, <2>1, <3>1 DEF HourBeforeMinute
    <3>3. q + 1 \in DOMAIN u /\ u[q + 1] = s[q + 1]
      BY <3>2
    <3> QED  BY <3>2, <3>3
  <2>2. CASE q \notin DOMAIN s
    <3> DEFINE k == q - Len(s)
    <3>1. k \in DOMAIN t /\ u[q] = t[k]
      BY <2>2
    <3>2. k + 1 \in DOMAIN t /\ t[k + 1][1] = "minute"
      BY <1>1, <3>1 DEF HourBeforeMinute
    <3>3. q + 1 \in DOMAIN u /\ u[q + 1] = t[k + 1]
      BY <2>2, <3>2
    <3> QED  BY <3>2, <3>3
  <2> QED  BY <2>1, <2>2
<1> HIDE DEF u
<1>2. HourBeforeMinute(u)
  BY <1>1 DEF HourBeforeMinute
<1> QED  BY <1>2 DEF u

LEMMA ReversedList ==
  ASSUME NEW S, NEW list \in Seq(S)
  PROVE  /\ Reversed(list) \in Seq(S)
         /\ Len(Reversed(list)) = Len(list)
         /\ \A i \in 1 .. Len(list) :
              Len(list) + 1 - i \in DOMAIN list
              /\ Reversed(list)[i] = list[Len(list) + 1 - i]
<1>1. \A i \in 1 .. Len(list) : Len(list) + 1 - i \in DOMAIN list
  OBVIOUS
<1>2. Reversed(list) = [i \in 1 .. Len(list) |-> list[Len(list) + 1 - i]]
  BY DEF Reversed
<1>3. Reversed(list) \in [1 .. Len(list) -> S]
  BY <1>1, <1>2
<1> QED  BY <1>1, <1>2, <1>3

LEMMA Counting ==
  ASSUME NEW n \in Nat, NEW T, 0 \in T, \A i \in 1 .. n : i - 1 \in T => i \in T
  PROVE  n \in T
<1> DEFINE H == {i \in 0 .. n : i \notin T}
<1>1. ASSUME H # {} PROVE FALSE
  <2>1. H \in SUBSET Nat
    OBVIOUS
  <2> HIDE DEF H
  <2>2. PICK i \in H : \A j \in H : i <= j
    BY <1>1, <2>1, FirstExists
  <2> USE DEF H
  <2>3. i \in 0 .. n /\ i \notin T
    OBVIOUS
  <2>4. i # 0
    BY <2>3
  <2>5. i \in 1 .. n /\ i - 1 \in 0 .. n /\ ~ (i <= i - 1)
    BY <2>3, <2>4
  <2>6. i - 1 \notin H
    BY <2>2, <2>5
  <2>7. i - 1 \in T
    BY <2>5, <2>6
  <2> QED  BY <2>3, <2>5, <2>7
<1> QED  BY <1>1

(* The strokes of one widget of a child. *)
Piece(c, w) == IF w \in Buttons THEN ButtonStrokes(c, w) ELSE << <<"part", c, w>> >>

LEMMA PieceStrokes ==
  ASSUME NEW c \in Top, NEW m \in DOMAIN Parts[c]
  PROVE  LET w == Parts[c][m] IN
         /\ Piece(c, w) \in Seq(PartSet(c))
         /\ HourBeforeMinute(Piece(c, w))
         /\ On(Piece(c, w), <<"part", c, w>>, PartsOver(c, m))
         /\ \A k \in DOMAIN Parts[c] : m < k =>
              \A q \in DOMAIN Piece(c, w) : Piece(c, w)[q] \in PartsOver(c, k)
<1> DEFINE w == Parts[c][m]
           a == <<"part", c, w>>
           b == <<"hour", c, w>>
           d == <<"minute", c, w>>
<1>1. Parts[c] \in Seq(PartsOf(c))
  BY TreeAssumption
<1>2. w \in PartsOf(c)
  BY <1>1
<1>3. a \in PartSet(c) /\ (w \in Buttons => b \in PartSet(c) /\ d \in PartSet(c))
  BY <1>2 DEF PartSet
<1>4. \A k \in DOMAIN Parts[c] : m < k => a \in PartsOver(c, k)
  BY <1>3 DEF PartsOver
<1>5. w \in Buttons =>
        \A k \in DOMAIN Parts[c] : b \in PartsOver(c, k) /\ d \in PartsOver(c, k)
  BY <1>3 DEF PartsOver
<1>6. a[1] = "part" /\ b[1] = "hour" /\ d[1] = "minute"
  OBVIOUS
<1> HIDE DEF a, b, d
<1>7. CASE w \in Buttons
  <2> DEFINE s == <<a, b, d>>
  <2>1. Piece(c, w) = s
    BY <1>7 DEF Piece, ButtonStrokes, a, b, d
  <2>2. s \in Seq(PartSet(c)) /\ DOMAIN s = {1, 2, 3} /\ s[1] = a /\ s[2] = b /\ s[3] = d
    BY <1>3, <1>7
  <2> HIDE DEF s, w
  <2>3. HourBeforeMinute(s)
    <3>1. \A q \in DOMAIN s : s[q][1] = "hour" => q = 2
      BY <1>6, <2>2
    <3> QED  BY <1>6, <2>2, <3>1 DEF HourBeforeMinute
  <2>4. On(s, a, PartsOver(c, m))
    <3>1. \A q \in DOMAIN s : q > 1 => q \in {2, 3}
      BY <2>2
    <3>2. \A q \in DOMAIN s : q > 1 => s[q] \in PartsOver(c, m)
      BY <1>5, <1>7, <2>2, <3>1
    <3> QED  BY <2>2, <3>2 DEF On
  <2>5. \A k \in DOMAIN Parts[c] : m < k => \A q \in DOMAIN s : s[q] \in PartsOver(c, k)
    BY <1>4, <1>5, <1>7, <2>2
  <2> QED  BY <2>1, <2>2, <2>3, <2>4, <2>5 DEF w, a
<1>8. CASE w \notin Buttons
  <2> DEFINE s == <<a>>
  <2>1. Piece(c, w) = s
    BY <1>8 DEF Piece, a
  <2>2. s \in Seq(PartSet(c)) /\ DOMAIN s = {1} /\ s[1] = a
    BY <1>3
  <2> HIDE DEF s, w
  <2>3. HourBeforeMinute(s)
    BY <1>6, <2>2 DEF HourBeforeMinute
  <2>4. On(s, a, PartsOver(c, m))
    BY <2>2 DEF On
  <2>5. \A k \in DOMAIN Parts[c] : m < k => \A q \in DOMAIN s : s[q] \in PartsOver(c, k)
    BY <1>4, <2>2
  <2> QED  BY <2>1, <2>2, <2>3, <2>4, <2>5 DEF w, a
<1> QED  BY <1>7, <1>8

(* What is known of the first strokes of a child. *)
PartsDrawn(c, s, i) ==
  /\ s \in Seq(PartSet(c))
  /\ HourBeforeMinute(s)
  /\ \A m \in DOMAIN Parts[c] :
       Len(Parts[c]) + 1 - m <= i => On(s, <<"part", c, Parts[c][m]>>, PartsOver(c, m))

LEMMA PieceDrawn ==
  ASSUME NEW c \in Top, NEW i \in 1 .. Len(Parts[c]), NEW s, PartsDrawn(c, s, i - 1)
  PROVE  PartsDrawn(c, s \o Piece(c, Reversed(Parts[c])[i]), i)
<1> DEFINE n == Len(Parts[c])
           m == n + 1 - i
           w == Parts[c][m]
           t == Piece(c, w)
<1>1. Parts[c] \in Seq(PartsOf(c))
  BY TreeAssumption
<1>2. m \in DOMAIN Parts[c] /\ Reversed(Parts[c])[i] = w /\ n \in Nat
  BY <1>1, ReversedList
<1>3. /\ t \in Seq(PartSet(c))
      /\ HourBeforeMinute(t)
      /\ On(t, <<"part", c, w>>, PartsOver(c, m))
      /\ \A k \in DOMAIN Parts[c] : m < k => \A q \in DOMAIN t : t[q] \in PartsOver(c, k)
  BY <1>2, PieceStrokes
<1> HIDE DEF t
<1>4. s \in Seq(PartSet(c)) /\ HourBeforeMinute(s)
  BY DEF PartsDrawn
<1>5. s \o t \in Seq(PartSet(c))
  BY <1>3, <1>4
<1>6. HourBeforeMinute(s \o t)
  BY <1>3, <1>4, HourConcat
<1>7. ASSUME NEW k \in DOMAIN Parts[c], n + 1 - k <= i
      PROVE  On(s \o t, <<"part", c, Parts[c][k]>>, PartsOver(c, k))
  <2>0. k \in Nat /\ i \in Nat
    BY <1>1
  <2>1. CASE k = m
    BY <1>3, <1>4, <2>1, OnAfter
  <2>2. CASE k # m
    <3>1. n + 1 - k <= i - 1 /\ m < k
      BY <1>2, <1>7, <2>0, <2>2
    <3>2. On(s, <<"part", c, Parts[c][k]>>, PartsOver(c, k))
      BY <3>1 DEF PartsDrawn
    <3>3. \A q \in DOMAIN t : t[q] \in PartsOver(c, k)
      BY <1>3, <3>1
    <3> QED  BY <1>3, <1>4, <3>2, <3>3, OnBefore
  <2> QED  BY <2>1, <2>2
<1>8. PartsDrawn(c, s \o t, i)
  BY <1>5, <1>6, <1>7 DEF PartsDrawn
<1> QED  BY <1>2, <1>8 DEF t

LEMMA PartsInOrder ==
  ASSUME NEW c \in Top
  PROVE  PartsDrawn(c, PartStrokes(c), Len(Parts[c]))
<1> DEFINE list == Reversed(Parts[c])
           n == Len(list)
           F(f) == [i \in 0 .. n |->
                      IF i = 0 THEN <<>>
                      ELSE f[i-1] \o (IF list[i] \in Buttons THEN ButtonStrokes(c, list[i])
                                      ELSE << <<"part", c, list[i]>> >>)]
           from == CHOOSE f : f = F(f)
           S == Seq(PartSet(c))
           start == <<>>
           turn == [i \in 1 .. n |-> [s \in S |-> s \o Piece(c, list[i])]]
<1>1. PartStrokes(c) = from[n]
  BY DEF PartStrokes
<1>2. Parts[c] \in Seq(PartsOf(c))
  BY TreeAssumption
<1>3. n = Len(Parts[c]) /\ n \in Nat
  BY <1>2, ReversedList
<1>4. ASSUME NEW i \in 1 .. n PROVE Piece(c, list[i]) \in S
  <2>1. i \in 1 .. Len(Parts[c])
    BY <1>3
  <2>2. Len(Parts[c]) + 1 - i \in DOMAIN Parts[c] /\ list[i] = Parts[c][Len(Parts[c]) + 1 - i]
    BY <1>2, <2>1, ReversedList
  <2> QED  BY <2>2, PieceStrokes
<1> HIDE DEF list, n
<1>5. turn \in [1 .. n -> [S -> S]] /\ start \in S
  <2>1. \A i \in 1 .. n : [s \in S |-> s \o Piece(c, list[i])] \in [S -> S]
    <3> SUFFICES ASSUME NEW i \in 1 .. n, NEW s \in S PROVE s \o Piece(c, list[i]) \in S
      OBVIOUS
    <3>1. Piece(c, list[i]) \in S
      BY <1>4
    <3> QED  BY <3>1
  <2> QED  BY <2>1
<1> HIDE DEF turn
<1>6. PICK f : Follows(f, n, S, start, turn)
  <2> HIDE DEF S, start
  <2> QED  BY <1>3, <1>5, RecursionExists
<1>7. /\ f \in [0 .. n -> S] /\ f[0] = <<>>
      /\ \A i \in 1 .. n : f[i] = f[i-1] \o Piece(c, list[i])
  <2>1. f \in [0 .. n -> S] /\ f[0] = <<>> /\ \A i \in 1 .. n : f[i] = turn[i][f[i-1]]
    BY <1>6 DEF Follows
  <2>2. \A i \in 1 .. n : i - 1 \in 0 .. n
    BY <1>3
  <2>3. \A i \in 1 .. n : f[i-1] \in S
    BY <2>1, <2>2
  <2> HIDE DEF S
  <2>4. \A i \in 1 .. n : f[i] = f[i-1] \o Piece(c, list[i])
    BY <2>1, <2>3 DEF turn
  <2> QED  BY <2>1, <2>4
<1>8. f = F(f)
  <2>1. \A i \in 0 .. n : f[i] = IF i = 0 THEN <<>>
                      ELSE f[i-1] \o (IF list[i] \in Buttons THEN ButtonStrokes(c, list[i])
                                      ELSE << <<"part", c, list[i]>> >>)
    <3> SUFFICES ASSUME NEW i \in 0 .. n, i # 0
                 PROVE f[i] = f[i-1] \o (IF list[i] \in Buttons THEN ButtonStrokes(c, list[i])
                                      ELSE << <<"part", c, list[i]>> >>)
      BY <1>7
    <3>1. i \in 1 .. n
      BY <1>3
    <3> QED  BY <1>7, <3>1 DEF Piece
  <2> QED  BY <1>7, <2>1
<1> HIDE DEF F
<1>9. from = F(from)
  BY <1>8
<1>10. /\ from[0] = <<>>
       /\ \A i \in 1 .. n : from[i] = from[i-1] \o Piece(c, list[i])
  <2> HIDE DEF from
  <2>1. \A i \in 0 .. n : from[i] = IF i = 0 THEN <<>>
                      ELSE from[i-1] \o (IF list[i] \in Buttons THEN ButtonStrokes(c, list[i])
                                      ELSE << <<"part", c, list[i]>> >>)
    BY <1>9 DEF F
  <2>2. 0 \in 0 .. n /\ \A i \in 1 .. n : i \in 0 .. n /\ i # 0
    BY <1>3
  <2> QED  BY <2>1, <2>2 DEF Piece
<1> HIDE DEF from
<1> DEFINE T == {i \in 0 .. n : PartsDrawn(c, from[i], i)}
<1>11. 0 \in T
  <2>1. \A m \in DOMAIN Parts[c] : ~ (Len(Parts[c]) + 1 - m <= 0)
    BY <1>2
  <2>2. from[0] \in Seq(PartSet(c)) /\ HourBeforeMinute(from[0])
    BY <1>10 DEF HourBeforeMinute
  <2> QED  BY <1>3, <2>1, <2>2 DEF PartsDrawn
<1>12. \A i \in 1 .. n : i - 1 \in T => i \in T
  <2> SUFFICES ASSUME NEW i \in 1 .. n, PartsDrawn(c, from[i-1], i - 1)
               PROVE  PartsDrawn(c, from[i], i)
    BY <1>3
  <2>1. from[i] = from[i-1] \o Piece(c, Reversed(Parts[c])[i])
    BY <1>10 DEF list
  <2>2. i \in 1 .. Len(Parts[c])
    BY <1>3
  <2> QED  BY <2>1, <2>2, PieceDrawn
<1> HIDE DEF T
<1>13. n \in T
  BY <1>3, <1>11, <1>12, Counting
<1> QED  BY <1>1, <1>3, <1>13 DEF T

LEMMA Associative ==
  ASSUME NEW S, NEW s \in Seq(S), NEW t \in Seq(S), NEW u \in Seq(S)
  PROVE  (s \o t) \o u = s \o (t \o u)
OBVIOUS

LEMMA Concatenated ==
  ASSUME NEW S, NEW s \in Seq(S), NEW t \in Seq(S)
  PROVE  /\ s \o t \in Seq(S)
         /\ Len(s \o t) = Len(s) + Len(t)
         /\ \A i \in DOMAIN s : (s \o t)[i] = s[i]
         /\ \A i \in DOMAIN t : (s \o t)[Len(s) + i] = t[i]
OBVIOUS

(* The strokes of one child, and what is known of those of the first few. *)
ChildPiece(c) == << <<"child", c>> >> \o PartStrokes(c)

ChildrenDrawn(s, i) ==
  /\ s \in Seq(Inner)
  /\ HourBeforeMinute(s)
  /\ \A a \in DOMAIN Children :
       Len(Children) + 1 - a <= i =>
         LET c == Children[a] IN
         /\ On(s, <<"child", c>>, PartSet(c) \union ChildrenOver(a))
         /\ \A m \in DOMAIN Parts[c] :
              On(s, <<"part", c, Parts[c][m]>>, PartsOver(c, m) \union ChildrenOver(a))

LEMMA ChildPieceStrokes ==
  ASSUME NEW c \in Top
  PROVE  /\ ChildPiece(c) \in Seq(ChildSet(c))
         /\ HourBeforeMinute(ChildPiece(c))
         /\ On(ChildPiece(c), <<"child", c>>, PartSet(c))
         /\ \A m \in DOMAIN Parts[c] :
              On(ChildPiece(c), <<"part", c, Parts[c][m]>>, PartsOver(c, m))
<1> DEFINE x == <<"child", c>>
           h == <<x>>
           P == PartStrokes(c)
           S == ChildSet(c)
<1>1. PartsDrawn(c, P, Len(Parts[c]))
  BY PartsInOrder
<1>2. P \in Seq(PartSet(c)) /\ HourBeforeMinute(P)
  BY <1>1 DEF PartsDrawn
<1>3. PartSet(c) \subseteq S /\ x \in S /\ x[1] = "child"
  BY DEF ChildSet
<1>4. P \in Seq(S)
  <2> HIDE DEF P, S
  <2> QED  BY <1>2, <1>3
<1>5. ChildPiece(c) = h \o P
  BY DEF ChildPiece
<1> HIDE DEF x, P, S
<1>6. h \in Seq(S) /\ DOMAIN h = {1} /\ h[1] = x
  BY <1>3
<1> HIDE DEF h
<1>7. h \o P \in Seq(S)
  BY <1>4, <1>6
<1>8. HourBeforeMinute(h \o P)
  <2>1. HourBeforeMinute(h)
    BY <1>3, <1>6 DEF HourBeforeMinute
  <2> QED  BY <1>2, <1>4, <1>6, <2>1, HourConcat
<1>9. On(h \o P, x, PartSet(c))
  <2>1. On(h, x, {})
    BY <1>6 DEF On
  <2>2. \A q \in DOMAIN P : P[q] \in PartSet(c)
    BY <1>2
  <2> QED  BY <1>4, <1>6, <2>1, <2>2, OnBefore
<1>10. ASSUME NEW m \in DOMAIN Parts[c]
       PROVE  On(h \o P, <<"part", c, Parts[c][m]>>, PartsOver(c, m))
  <2>1. Parts[c] \in Seq(PartsOf(c))
    BY TreeAssumption
  <2>2. Len(Parts[c]) + 1 - m <= Len(Parts[c])
    BY <2>1
  <2>3. On(P, <<"part", c, Parts[c][m]>>, PartsOver(c, m))
    BY <1>1, <2>2 DEF PartsDrawn
  <2> QED  BY <1>4, <1>6, <2>3, OnAfter
<1> QED  BY <1>5, <1>7, <1>8, <1>9, <1>10 DEF x, S

LEMMA ChildDrawn ==
  ASSUME NEW i \in 1 .. Len(Children), NEW s, ChildrenDrawn(s, i - 1)
  PROVE  ChildrenDrawn(s \o ChildPiece(Reversed(Children)[i]), i)
<1> DEFINE n == Len(Children)
           b == n + 1 - i
           t == ChildPiece(Children[b])
<1>1. Children \in Seq(Top)
  BY TreeAssumption
<1>2. b \in DOMAIN Children /\ Reversed(Children)[i] = Children[b] /\ n \in Nat
  BY <1>1, ReversedList
<1>3. Children[b] \in Top
  BY <1>1, <1>2
<1>4. /\ t \in Seq(ChildSet(Children[b]))
      /\ HourBeforeMinute(t)
      /\ On(t, <<"child", Children[b]>>, PartSet(Children[b]))
      /\ \A m \in DOMAIN Parts[Children[b]] :
           On(t, <<"part", Children[b], Parts[Children[b]][m]>>, PartsOver(Children[b], m))
  BY <1>3, ChildPieceStrokes
<1>5. s \in Seq(Inner) /\ HourBeforeMinute(s)
  BY DEF ChildrenDrawn
<1>6. ChildSet(Children[b]) \subseteq Inner
  BY <1>3 DEF Inner
<1> HIDE DEF t
<1>7. t \in Seq(Inner) /\ \A q \in DOMAIN t : t[q] \in ChildSet(Children[b])
  BY <1>4, <1>6
<1>8. s \o t \in Seq(Inner)
  BY <1>5, <1>7
<1>9. HourBeforeMinute(s \o t)
  BY <1>4, <1>5, <1>7, HourConcat
<1>10. ASSUME NEW a \in DOMAIN Children, n + 1 - a <= i
       PROVE  LET c == Children[a] IN
              /\ On(s \o t, <<"child", c>>, PartSet(c) \union ChildrenOver(a))
              /\ \A m \in DOMAIN Parts[c] :
                   On(s \o t, <<"part", c, Parts[c][m]>>, PartsOver(c, m) \union ChildrenOver(a))
  <2>0. a \in Nat /\ i \in Nat
    BY <1>1
  <2>1. CASE a = b
    <3>1. /\ On(t, <<"child", Children[a]>>, PartSet(Children[a]))
          /\ \A m \in DOMAIN Parts[Children[a]] :
               On(t, <<"part", Children[a], Parts[Children[a]][m]>>, PartsOver(Children[a], m))
      BY <1>4, <2>1
    <3>2. On(s \o t, <<"child", Children[a]>>, PartSet(Children[a]) \union ChildrenOver(a))
      BY <1>5, <1>7, <3>1, OnAfter
    <3>3. ASSUME NEW m \in DOMAIN Parts[Children[a]]
          PROVE  On(s \o t, <<"part", Children[a], Parts[Children[a]][m]>>,
                    PartsOver(Children[a], m) \union ChildrenOver(a))
      <4>1. On(t, <<"part", Children[a], Parts[Children[a]][m]>>, PartsOver(Children[a], m))
        BY <3>1
      <4> QED  BY <1>5, <1>7, <4>1, OnAfter
    <3> QED  BY <3>2, <3>3
  <2>2. CASE a # b
    <3>1. n + 1 - a <= i - 1 /\ b < a
      BY <1>2, <1>10, <2>0, <2>2
    <3>2. /\ On(s, <<"child", Children[a]>>, PartSet(Children[a]) \union ChildrenOver(a))
          /\ \A m \in DOMAIN Parts[Children[a]] :
               On(s, <<"part", Children[a], Parts[Children[a]][m]>>,
                  PartsOver(Children[a], m) \union ChildrenOver(a))
      BY <3>1 DEF ChildrenDrawn
    <3>3. \A q \in DOMAIN t : t[q] \in ChildrenOver(a)
      BY <1>2, <1>7, <3>1 DEF ChildrenOver
    <3>4. \A V : \A q \in DOMAIN t : t[q] \in V \union ChildrenOver(a)
      BY <3>3
    <3>5. On(s \o t, <<"child", Children[a]>>, PartSet(Children[a]) \union ChildrenOver(a))
      BY <1>5, <1>7, <3>2, <3>4, OnBefore
    <3>6. ASSUME NEW m \in DOMAIN Parts[Children[a]]
          PROVE  On(s \o t, <<"part", Children[a], Parts[Children[a]][m]>>,
                    PartsOver(Children[a], m) \union ChildrenOver(a))
      <4>1. On(s, <<"part", Children[a], Parts[Children[a]][m]>>,
               PartsOver(Children[a], m) \union ChildrenOver(a))
        BY <3>2
      <4> QED  BY <1>5, <1>7, <3>4, <4>1, OnBefore
    <3> QED  BY <3>5, <3>6
  <2> QED  BY <2>1, <2>2
<1>11. ChildrenDrawn(s \o t, i)
  BY <1>8, <1>9, <1>10 DEF ChildrenDrawn
<1> QED  BY <1>2, <1>11 DEF t

LEMMA ChildrenInOrder ==
  ChildrenDrawn(ChildStrokes(Reversed(Children)), Len(Children))
<1> DEFINE list == Reversed(Children)
           n == Len(list)
           F(f) == [i \in 0 .. n |->
                      IF i = 0 THEN <<>>
                      ELSE f[i-1] \o << <<"child", list[i]>> >> \o PartStrokes(list[i])]
           from == CHOOSE f : f = F(f)
           S == Seq(Inner)
           start == <<>>
           turn == [i \in 1 .. n |-> [s \in S |-> s \o ChildPiece(list[i])]]
<1>1. ChildStrokes(list) = from[n]
  BY DEF ChildStrokes
<1>2. Children \in Seq(Top)
  BY TreeAssumption
<1>3. n = Len(Children) /\ n \in Nat
  BY <1>2, ReversedList
<1>4. ASSUME NEW i \in 1 .. n
      PROVE  /\ ChildPiece(list[i]) \in S
             /\ << <<"child", list[i]>> >> \in S
             /\ PartStrokes(list[i]) \in S
  <2>1. i \in 1 .. Len(Children)
    BY <1>3
  <2>2. Len(Children) + 1 - i \in DOMAIN Children
        /\ list[i] = Children[Len(Children) + 1 - i]
    BY <1>2, <2>1, ReversedList
  <2>3. list[i] \in Top
    BY <1>2, <2>2
  <2> DEFINE c == list[i]
             x == <<"child", c>>
             C == ChildSet(c)
  <2>4. ChildPiece(c) \in Seq(C)
    BY <2>3, ChildPieceStrokes
  <2>5. PartStrokes(c) \in Seq(PartSet(c))
    <3> HIDE DEF c
    <3>1. PartsDrawn(c, PartStrokes(c), Len(Parts[c]))
      BY <2>3, PartsInOrder DEF c
    <3> QED  BY <3>1 DEF PartsDrawn
  <2>6. x \in Inner /\ C \subseteq Inner /\ PartSet(c) \subseteq Inner
    BY <2>3 DEF Inner, ChildSet
  <2> HIDE DEF list, x, c, C
  <2>7. <<x>> \in S /\ ChildPiece(c) \in S /\ PartStrokes(c) \in S
    BY <2>4, <2>5, <2>6
  <2> QED  BY <2>7 DEF c, x
<1> HIDE DEF list, n
<1>5. turn \in [1 .. n -> [S -> S]] /\ start \in S
  <2>1. \A i \in 1 .. n : [s \in S |-> s \o ChildPiece(list[i])] \in [S -> S]
    <3> SUFFICES ASSUME NEW i \in 1 .. n, NEW s \in S PROVE s \o ChildPiece(list[i]) \in S
      OBVIOUS
    <3>1. ChildPiece(list[i]) \in S
      BY <1>4
    <3> QED  BY <3>1
  <2> QED  BY <2>1
<1> HIDE DEF turn
<1>6. PICK f : Follows(f, n, S, start, turn)
  <2> HIDE DEF S, start
  <2> QED  BY <1>3, <1>5, RecursionExists
<1>7. /\ f \in [0 .. n -> S] /\ f[0] = <<>>
      /\ \A i \in 1 .. n : f[i] = f[i-1] \o ChildPiece(list[i])
  <2>1. f \in [0 .. n -> S] /\ f[0] = <<>> /\ \A i \in 1 .. n : f[i] = turn[i][f[i-1]]
    BY <1>6 DEF Follows
  <2>2. \A i \in 1 .. n : i - 1 \in 0 .. n
    BY <1>3
  <2>3. \A i \in 1 .. n : f[i-1] \in S
    BY <2>1, <2>2
  <2> HIDE DEF S
  <2>4. \A i \in 1 .. n : f[i] = f[i-1] \o ChildPiece(list[i])
    BY <2>1, <2>3 DEF turn
  <2> QED  BY <2>1, <2>4
<1>8. \A s \in S : \A i \in 1 .. n :
        s \o << <<"child", list[i]>> >> \o PartStrokes(list[i]) = s \o ChildPiece(list[i])
  <2> SUFFICES ASSUME NEW s \in S, NEW i \in 1 .. n
               PROVE s \o << <<"child", list[i]>> >> \o PartStrokes(list[i])
                     = s \o ChildPiece(list[i])
    OBVIOUS
  <2> DEFINE h == << <<"child", list[i]>> >>
             P == PartStrokes(list[i])
  <2>1. h \in S /\ P \in S
    BY <1>4
  <2>2. ChildPiece(list[i]) = h \o P
    BY DEF ChildPiece
  <2> HIDE DEF h, P
  <2>3. (s \o h) \o P = s \o (h \o P)
    BY <2>1, Associative
  <2> QED  BY <2>2, <2>3 DEF h, P
<1>9. f = F(f)
  <2>1. \A i \in 0 .. n : f[i] = IF i = 0 THEN <<>>
                      ELSE f[i-1] \o << <<"child", list[i]>> >> \o PartStrokes(list[i])
    <3> SUFFICES ASSUME NEW i \in 0 .. n, i # 0
                 PROVE f[i] = f[i-1] \o << <<"child", list[i]>> >> \o PartStrokes(list[i])
      BY <1>7
    <3>1. i \in 1 .. n /\ i - 1 \in 0 .. n
      BY <1>3
    <3>2. f[i-1] \in S
      BY <1>7, <3>1
    <3>3. f[i-1] \o << <<"child", list[i]>> >> \o PartStrokes(list[i])
            = f[i-1] \o ChildPiece(list[i])
      BY <1>8, <3>1, <3>2
    <3>4. f[i] = f[i-1] \o ChildPiece(list[i])
      BY <1>7, <3>1
    <3> QED  BY <3>3, <3>4
  <2> QED  BY <1>7, <2>1
<1> HIDE DEF F
<1>10. from = F(from)
  BY <1>9
<1>11. /\ from[0] = <<>>
       /\ \A i \in 1 .. n :
            from[i] = from[i-1] \o << <<"child", list[i]>> >> \o PartStrokes(list[i])
  <2> HIDE DEF from
  <2>1. \A i \in 0 .. n : from[i] = IF i = 0 THEN <<>>
                      ELSE from[i-1] \o << <<"child", list[i]>> >> \o PartStrokes(list[i])
    BY <1>10 DEF F
  <2>2. 0 \in 0 .. n /\ \A i \in 1 .. n : i \in 0 .. n /\ i # 0
    BY <1>3
  <2> QED  BY <2>1, <2>2
<1> HIDE DEF from
<1> DEFINE T == {i \in 0 .. n : ChildrenDrawn(from[i], i)}
<1>12. 0 \in T
  <2>1. \A a \in DOMAIN Children : ~ (Len(Children) + 1 - a <= 0)
    BY <1>2
  <2>2. from[0] \in Seq(Inner) /\ HourBeforeMinute(from[0])
    BY <1>11 DEF HourBeforeMinute
  <2> QED  BY <1>3, <2>1, <2>2 DEF ChildrenDrawn
<1>13. \A i \in 1 .. n : i - 1 \in T => i \in T
  <2> SUFFICES ASSUME NEW i \in 1 .. n, ChildrenDrawn(from[i-1], i - 1)
               PROVE  ChildrenDrawn(from[i], i)
    BY <1>3
  <2>1. from[i-1] \in S
    BY DEF ChildrenDrawn
  <2>2. from[i] = from[i-1] \o ChildPiece(list[i])
    <3> HIDE DEF S
    <3> QED  BY <1>8, <1>11, <2>1
  <2>3. from[i] = from[i-1] \o ChildPiece(Reversed(Children)[i])
    BY <2>2 DEF list
  <2>4. i \in 1 .. Len(Children)
    BY <1>3
  <2> QED  BY <2>3, <2>4, ChildDrawn
<1> HIDE DEF T
<1>14. n \in T
  BY <1>3, <1>12, <1>13, Counting
<1> QED  BY <1>1, <1>3, <1>14 DEF T, list

\* The pointer may lie over everything.
Over(V) == V \union { <<"pointer">> }

Strokes == { <<"desktop">>, <<"pointer">> } \union Inner

(* Desktop::draw: the ground first, the pointer last, and over a child or  *)
(* one of its widgets only what is searched before it.                     *)
LEMMA DesktopInOrder ==
  /\ DesktopStrokes \in Seq(Strokes)
  /\ Len(DesktopStrokes) >= 2
  /\ DesktopStrokes[1] = <<"desktop">>
  /\ DesktopStrokes[Len(DesktopStrokes)] = <<"pointer">>
  /\ HourBeforeMinute(DesktopStrokes)
  /\ \A a \in DOMAIN Children :
       LET c == Children[a] IN
       /\ On(DesktopStrokes, <<"child", c>>, Over(PartSet(c) \union ChildrenOver(a)))
       /\ \A m \in DOMAIN Parts[c] :
            On(DesktopStrokes, <<"part", c, Parts[c][m]>>,
               Over(PartsOver(c, m) \union ChildrenOver(a)))
  /\ \A q \in DOMAIN DesktopStrokes :
       q > 1 /\ q < Len(DesktopStrokes) => DesktopStrokes[q] \in Inner
<1> DEFINE C == ChildStrokes(Reversed(Children))
           d == <<"desktop">>
           p == <<"pointer">>
           hd == <<d>>
           hp == <<p>>
           D == DesktopStrokes
<1>1. ChildrenDrawn(C, Len(Children))
  BY ChildrenInOrder
<1>2. C \in Seq(Inner) /\ HourBeforeMinute(C)
  BY <1>1 DEF ChildrenDrawn
<1>3. D = hd \o C \o hp
  BY DEF DesktopStrokes
<1>4. d \in Strokes /\ p \in Strokes /\ Inner \subseteq Strokes
      /\ d[1] = "desktop" /\ p[1] = "pointer"
  BY DEF Strokes
<1> HIDE DEF C, d, p, D
<1>5. C \in Seq(Strokes)
  BY <1>2, <1>4
<1>6. hd \in Seq(Strokes) /\ Len(hd) = 1 /\ hd[1] = d
      /\ hp \in Seq(Strokes) /\ Len(hp) = 1 /\ hp[1] = p
  BY <1>4
<1> HIDE DEF hd, hp
<1>7. hd \o C \in Seq(Strokes) /\ D \in Seq(Strokes)
  BY <1>3, <1>5, <1>6
<1> DEFINE E == hd \o C
<1>e. \A s, t \in Seq(Strokes) :
        /\ Len(s \o t) = Len(s) + Len(t)
        /\ \A i \in DOMAIN s : (s \o t)[i] = s[i]
        /\ \A i \in DOMAIN t : (s \o t)[Len(s) + i] = t[i]
  BY Concatenated
<1>a. E \in Seq(Strokes) /\ Len(E) = 1 + Len(C) /\ E[1] = d
      /\ \A q \in DOMAIN C : E[1 + q] = C[q]
  <2>1. /\ E \in Seq(Strokes) /\ Len(E) = Len(hd) + Len(C)
        /\ \A i \in DOMAIN hd : E[i] = hd[i]
        /\ \A i \in DOMAIN C : E[Len(hd) + i] = C[i]
    BY <1>5, <1>6, <1>7, <1>e, ZenonT(30)
  <2>2. 1 \in DOMAIN hd
    BY <1>6
  <2> HIDE DEF E
  <2> QED  BY <1>6, <2>1, <2>2
<1>b. D = E \o hp
  BY <1>3
<1> HIDE DEF E
<1>c. Len(D) = Len(E) + 1 /\ D[Len(D)] = hp[1] /\ \A q \in DOMAIN E : D[q] = E[q]
  <2>1. /\ Len(D) = Len(E) + Len(hp)
        /\ \A i \in DOMAIN E : D[i] = E[i]
        /\ \A i \in DOMAIN hp : D[Len(E) + i] = hp[i]
    BY <1>6, <1>a, <1>b, <1>e, ZenonT(30)
  <2>2. 1 \in DOMAIN hp
    BY <1>6
  <2> QED  BY <1>6, <1>a, <2>1, <2>2
<1>d. Len(C) \in Nat /\ DOMAIN C = 1 .. Len(C) /\ DOMAIN E = 1 .. Len(E)
      /\ DOMAIN D = 1 .. Len(D)
  BY <1>5, <1>7, <1>a
<1>8. Len(D) >= 2 /\ D[1] = d /\ D[Len(D)] = p
  <2>1. 1 \in DOMAIN E
    BY <1>a, <1>d
  <2> QED  BY <1>6, <1>a, <1>c, <1>d, <2>1
<1>9. HourBeforeMinute(D)
  <2>1. HourBeforeMinute(hd) /\ HourBeforeMinute(hp)
    BY <1>4, <1>6 DEF HourBeforeMinute
  <2>2. HourBeforeMinute(hd \o C)
    BY <1>2, <1>5, <1>6, <2>1, HourConcat
  <2> QED  BY <1>3, <1>6, <1>7, <2>1, <2>2, HourConcat
<1>10. ASSUME NEW x, NEW V, On(C, x, V)
       PROVE  On(D, x, Over(V))
  <2>1. On(hd \o C, x, V)
    BY <1>5, <1>6, <1>10, OnAfter
  <2>2. V \subseteq Over(V) /\ \A q \in DOMAIN hp : hp[q] \in Over(V)
    BY <1>6 DEF Over, p
  <2> HIDE DEF p
  <2>3. On((hd \o C) \o hp, x, Over(V))
    BY <1>6, <1>7, <2>1, <2>2, OnBefore
  <2> QED  BY <1>3, <2>3
<1>11. ASSUME NEW a \in DOMAIN Children
       PROVE  LET c == Children[a] IN
              /\ On(D, <<"child", c>>, Over(PartSet(c) \union ChildrenOver(a)))
              /\ \A m \in DOMAIN Parts[c] :
                   On(D, <<"part", c, Parts[c][m]>>,
                      Over(PartsOver(c, m) \union ChildrenOver(a)))
  <2>0. Len(Children) + 1 - a <= Len(Children)
    BY TreeAssumption
  <2>1. LET c == Children[a] IN
        /\ On(C, <<"child", c>>, PartSet(c) \union ChildrenOver(a))
        /\ \A m \in DOMAIN Parts[c] :
             On(C, <<"part", c, Parts[c][m]>>, PartsOver(c, m) \union ChildrenOver(a))
    BY <1>1, <2>0 DEF ChildrenDrawn
  <2> QED  BY <1>10, <2>1
<1>12. \A q \in DOMAIN D : q > 1 /\ q < Len(D) => D[q] \in Inner
  <2> SUFFICES ASSUME NEW q \in DOMAIN D, q > 1, q < Len(D) PROVE D[q] \in Inner
    OBVIOUS
  <2>1. q - 1 \in DOMAIN C /\ q \in DOMAIN E /\ 1 + (q - 1) = q
    BY <1>a, <1>c, <1>d
  <2>2. D[q] = C[q - 1]
    BY <1>a, <1>c, <2>1
  <2> QED  BY <1>2, <2>1, <2>2
<1> QED  BY <1>7, <1>8, <1>9, <1>11, <1>12 DEF D, d, p
-----------------------------------------------------------------------------
(* The time. *)

Times == (0 .. 23) \X (0 .. 59)

LEMMA DecimalDigits ==
  ASSUME NEW n \in 0 .. 59
  PROVE  GetBCDValue(Registers(n)) = n
<1>1. n \div 10 \in 0 .. 5 /\ n % 10 \in 0 .. 9 /\ n = 10 * (n \div 10) + (n % 10)
  OBVIOUS
<1> DEFINE a == n \div 10
           b == n % 10
<1>2. Registers(n) = a * 16 + b
  BY DEF Registers
<1>3. a \in 0 .. 5 /\ b \in 0 .. 9 /\ n = 10 * a + b
  BY <1>1
<1> HIDE DEF a, b
<1>4. (a * 16 + b) \div 16 = a /\ (a * 16 + b) % 16 = b
  BY <1>3
<1> QED  BY <1>2, <1>3, <1>4 DEF GetBCDValue

LEMMA Ticks ==
  ASSUME NEW t \in Times
  PROVE  Tick(t) \in Times /\ Tick(t)[2] # t[2]
<1>1. PICK h \in 0 .. 23, m \in 0 .. 59 : t = <<h, m>>
  BY DEF Times
<1>2. CASE m < 59
  <2>1. Tick(t) = <<h, m + 1>>
    BY <1>1, <1>2 DEF Tick
  <2> QED  BY <1>1, <1>2, <2>1 DEF Times
<1>3. CASE ~ (m < 59)
  <2>1. Tick(t) = <<(h + 1) % 24, 0>>
    BY <1>1, <1>3 DEF Tick
  <2> QED  BY <1>1, <1>3, <2>1 DEF Times
<1> QED  BY <1>2, <1>3

LEMMA TimeRead ==
  ASSUME NEW before \in Times, NEW after \in Times
  PROVE  ReadCurrentTime(before, after) = <<after[1], before[2]>>
         /\ <<after[1], before[2]>> \in Times
<1>1. after[1] \in 0 .. 23 /\ after[1] \in 0 .. 59 /\ before[2] \in 0 .. 59
  BY DEF Times
<1> QED  BY <1>1, DecimalDigits DEF ReadCurrentTime, Times

(***************************************************************************)
(* The label has the minute of the last change, and the hour of the clock  *)
(* as long as the clock has not left that minute.                          *)
(***************************************************************************)
ClockInv ==
  /\ clock \in Times
  /\ label \in Times \union {<<>>}
  /\ label # <<>> =>
       label[2] = lastMinute /\ (lastMinute = clock[2] => label[1] = clock[1])
  /\ sampled => lastMinute = clock[2]

LEMMA ClockInvNext ==
  ASSUME ClockInv, [ScreenNext]_screenVars
  PROVE  ClockInv'
<1>1. CASE ClockInterrupt
  <2>1. PICK later \in {clock, Tick(clock)} :
          LET time == ReadCurrentTime(clock, later) IN
          /\ clock' = later
          /\ sampled' = (later = clock)
          /\ lastMinute' = time[2]
          /\ IF time[2] # lastMinute THEN OnTimeChange(time)
             ELSE UNCHANGED <<label, timeRedraw, missed>>
    BY <1>1 DEF ClockInterrupt
  <2>2. clock \in Times /\ later \in Times /\ (later # clock => later[2] # clock[2])
    BY Ticks DEF ClockInv
  <2> DEFINE time == ReadCurrentTime(clock, later)
  <2>3. time = <<later[1], clock[2]>> /\ time \in Times
    BY <2>2, TimeRead
  <2> HIDE DEF time
  <2>4. time[1] = later[1] /\ time[2] = clock[2]
    BY <2>3
  <2>5. /\ clock' = later /\ sampled' = (later = clock) /\ lastMinute' = clock[2]
        /\ IF clock[2] # lastMinute THEN label' = time ELSE label' = label
    BY <2>1, <2>4 DEF OnTimeChange, time
  <2>6. <<>> \notin Times
    BY DEF Times
  <2>7. CASE clock[2] # lastMinute
    <3>1. label' = time
      BY <2>5, <2>7
    <3>2. label'[2] = lastMinute' /\ (lastMinute' = clock'[2] => label'[1] = clock'[1])
      BY <2>2, <2>4, <2>5, <3>1
    <3> QED  BY <2>2, <2>3, <2>5, <3>1, <3>2 DEF ClockInv
  <2>8. CASE clock[2] = lastMinute
    <3>1. label' = label
      BY <2>5, <2>8
    <3>2. label # <<>> =>
            label[2] = lastMinute' /\ (lastMinute' = clock'[2] => label[1] = clock'[1])
      BY <2>2, <2>5, <2>8 DEF ClockInv
    <3>3. label' # <<>> =>
            label'[2] = lastMinute' /\ (lastMinute' = clock'[2] => label'[1] = clock'[1])
      BY <3>1, <3>2
    <3>4. clock' \in Times /\ label' \in Times \union {<<>>}
      BY <2>2, <2>5, <3>1 DEF ClockInv
    <3> QED  BY <2>5, <3>3, <3>4 DEF ClockInv
  <2> QED  BY <2>7, <2>8
<1>2. CASE ClockTicks
  <2>1. /\ sampled /\ clock' = Tick(clock) /\ sampled' = FALSE
        /\ UNCHANGED <<lastMinute, label>>
    BY <1>2 DEF ClockTicks
  <2>2. Tick(clock) \in Times /\ Tick(clock)[2] # clock[2]
    BY Ticks DEF ClockInv
  <2> QED  BY <2>1, <2>2 DEF ClockInv
<1>3. CASE \/ MouseInterrupt \/ KeyInterrupt \/ MainLoop \/ MouseSends \/ ByteLost
           \/ UNCHANGED screenVars
  <2>1. UNCHANGED <<clock, label, lastMinute, sampled>>
    BY <1>3 DEF MouseInterrupt, KeyInterrupt, MainLoop, MouseSends, ByteLost, screenVars,
       clockVars
  <2> QED  BY <2>1 DEF ClockInv
<1> QED  BY <1>1, <1>2, <1>3 DEF ScreenNext

LEMMA ClockInvInit == ScreenInit => ClockInv
BY InputsAssumption DEF ScreenInit, ClockInv, Times
-----------------------------------------------------------------------------
(* What one stroke does to a row. *)

Plain == {<<n>> : n \in Widgets \union {"desktop", "line", "pointer"}}
Written == {"label"} \X (0 .. 23) \X ((0 .. 59) \union {Blank})
Cells == Plain \union Written

LEMMA StrokeKinds ==
  ASSUME NEW st \in Strokes
  PROVE  \/ st = <<"desktop">>
         \/ st = <<"pointer">>
         \/ \E c \in Top : st = <<"child", c>>
         \/ \E c \in Top : \E w \in PartsOf(c) : st = <<"part", c, w>>
         \/ \E c \in Top : \E w \in Buttons : st = <<"hour", c, w>>
         \/ \E c \in Top : \E w \in Buttons : st = <<"minute", c, w>>
<1>1. CASE st \in Inner
  <2>1. PICK c \in Top : st \in ChildSet(c)
    BY <1>1 DEF Inner
  <2>2. CASE st = <<"child", c>>
    BY <2>2
  <2>3. CASE st \in PartSet(c)
    <3>1. PICK kind \in {"part", "hour", "minute"}, w \in PartsOf(c) : st = <<kind, c, w>>
      BY <2>3 DEF PartSet
    <3>2. kind \in {"hour", "minute"} => w \in Buttons
      BY <2>3, <3>1 DEF PartSet
    <3> QED  BY <3>1, <3>2
  <2> QED  BY <2>1, <2>2, <2>3 DEF ChildSet
<1> QED  BY <1>1 DEF Strokes

LEMMA PlainCells ==
  /\ \A n \in Widgets \union {"desktop", "line", "pointer"} :
       <<n>> \in Plain /\ <<n>> \in Cells
  /\ \A cell \in Plain : cell[1] # "label"
  /\ \A cell \in Cells : cell[1] = "label" => cell \in Written
  /\ \A cell \in Written : cell[1] = "label"
BY LayoutAssumption DEF Plain, Written, Cells

LEMMA ButtonRow ==
  ASSUME NEW g \in Gui, g.y[TimeButton[2]] = Start[TimeButton[2]]
  PROVE  /\ LabelRow(g, TimeButton[2]) \in Rows
         /\ ContainsCoordinate(g, TimeButton[2], LabelRow(g, TimeButton[2]))
<1> DEFINE w == TimeButton[2]
<1>1. w \in Widgets
  BY LayoutAssumption DEF Widgets
<1>2. Height[w] \in Nat \ {0} /\ Start[w] \in Int
  BY <1>1, HeightsAssumption
<1>3. Height[w] \div 2 >= 0 /\ Height[w] \div 2 < Height[w]
  BY <1>2
<1>4. Start[w] + Height[w] \div 2 \in Rows
  BY LayoutAssumption
<1> HIDE DEF w
<1>5. g.y[w] = Start[w]
  BY DEF w
<1> QED  BY <1>2, <1>3, <1>4, <1>5 DEF LabelRow, ContainsCoordinate, w

(* What the two strokes that write the time make of the row they write.    *)
HourWritten(s, row, t) ==
  IF t = <<>> THEN s ELSE [s EXCEPT ![row] = <<"label", t[1], Blank>>]
MinuteWritten(s, row, t) ==
  IF s[row][1] # "label" THEN s ELSE [s EXCEPT ![row] = <<"label", s[row][2], t[2]>>]

LEMMA HourCell ==
  ASSUME NEW g \in Gui, g.y[TimeButton[2]] = Start[TimeButton[2]],
         NEW s \in [Rows -> Cells], NEW t \in Times \union {<<>>},
         NEW c, NEW w \in Buttons
  PROVE  Stroke(s, g, t, <<"hour", c, w>>) =
           HourWritten(s, LabelRow(g, TimeButton[2]), t)
<1>1. w = TimeButton[2]
  BY LayoutAssumption
<1>2. Stroke(s, g, t, <<"hour", c, w>>) = PutHour(s, g, w, t)
  BY DEF Stroke
<1>3. LabelRow(g, w) \in Rows
  BY <1>1, ButtonRow
<1> QED  BY <1>1, <1>2, <1>3 DEF PutHour, HourWritten

LEMMA ThirdChanged ==
  ASSUME NEW cell \in Written, NEW m
  PROVE  [cell EXCEPT ![3] = m] = <<cell[1], cell[2], m>>
<1>1. PICK h \in 0 .. 23, n \in (0 .. 59) \union {Blank} : cell = <<"label", h, n>>
  BY DEF Written
<1>2. [<<"label", h, n>> EXCEPT ![3] = m] = <<"label", h, m>>
  OBVIOUS
<1> QED  BY <1>1, <1>2

LEMMA MinuteCell ==
  ASSUME NEW g \in Gui, g.y[TimeButton[2]] = Start[TimeButton[2]],
         NEW s \in [Rows -> Cells], NEW t \in Times \union {<<>>},
         NEW c, NEW w \in Buttons
  PROVE  Stroke(s, g, t, <<"minute", c, w>>) =
           MinuteWritten(s, LabelRow(g, TimeButton[2]), t)
<1>1. w = TimeButton[2]
  BY LayoutAssumption
<1> DEFINE row == LabelRow(g, w)
<1>2. Stroke(s, g, t, <<"minute", c, w>>) = PutMinute(s, g, w, t)
  BY DEF Stroke
<1>3. row \in Rows
  BY <1>1, ButtonRow
<1>4. PutMinute(s, g, w, t) = IF s[row][1] # "label" THEN s
                              ELSE [s EXCEPT ![row] = [s[row] EXCEPT ![3] = t[2]]]
  BY <1>3 DEF PutMinute
<1> HIDE DEF row
<1>5. s[row][1] = "label" => [s[row] EXCEPT ![3] = t[2]] = <<"label", s[row][2], t[2]>>
  <2>1. s[row] \in Cells
    BY <1>3
  <2>2. s[row][1] = "label" => s[row] \in Written /\ s[row][1] = "label"
    BY <2>1, PlainCells
  <2> DEFINE cell == s[row]
             m == t[2]
  <2> HIDE DEF cell, m
  <2>3. cell \in Written => [cell EXCEPT ![3] = m] = <<cell[1], cell[2], m>>
    BY ThirdChanged
  <2> QED  BY <2>2, <2>3 DEF cell, m
<1>6. PutMinute(s, g, w, t) = MinuteWritten(s, row, t)
  BY <1>4, <1>5 DEF MinuteWritten
<1> QED  BY <1>1, <1>2, <1>6 DEF row

Filled(y, h, r) == 0 <= y /\ y <= r /\ r < y + h

\* The rows a stroke paints, and what they then show.
Paints(g, st, r) ==
  \/ st[1] = "desktop"
  \/ st[1] = "pointer" /\ g.mouseY <= r /\ r < g.mouseY + PointerHeight
  \/ st[1] = "child" /\ \/ Filled(g.y[st[2]], Height[st[2]], r)
                        \/ st[2] \notin Windows /\ r = g.y[st[2]] - 1
  \/ st[1] = "part" /\ Filled(ScreenY(g, st[2], st[3]), Height[st[3]], r)

Colour(g, st, r) ==
  IF st[1] = "child"
  THEN IF Filled(g.y[st[2]], Height[st[2]], r) THEN <<st[2]>> ELSE <<"line">>
  ELSE IF st[1] = "part" THEN <<st[3]>> ELSE <<st[1]>>

Repainted(s, g, st) ==
  [r \in Rows |-> IF Paints(g, st, r) THEN Colour(g, st, r) ELSE s[r]]

LEMMA Painting ==
  ASSUME NEW g \in Gui, NEW s \in [Rows -> Cells], NEW t, NEW st \in Strokes,
         st[1] \notin {"hour", "minute"}
  PROVE  /\ Stroke(s, g, t, st) = Repainted(s, g, st)
         /\ \A r \in Rows : Colour(g, st, r) \in Plain
<1> DEFINE u == Stroke(s, g, t, st)
           Equal == \A r \in Rows : u[r] = IF Paints(g, st, r) THEN Colour(g, st, r) ELSE s[r]
<1>1. CASE st = <<"desktop">>
  <2>1. u = [r \in Rows |-> IF 0 <= 0 /\ 0 <= r /\ r < 0 + DesktopHeight
                            THEN <<"desktop">> ELSE s[r]]
    BY <1>1 DEF Stroke, FillRectangle
  <2>2. \A r \in Rows : 0 <= r /\ r < 0 + DesktopHeight
    BY HeightsAssumption DEF Rows
  <2>3. \A r \in Rows : Paints(g, st, r) /\ Colour(g, st, r) = <<"desktop">>
    BY <1>1 DEF Paints, Colour
  <2>4. u = Repainted(s, g, st)
    BY <2>1, <2>2, <2>3 DEF Repainted
  <2> QED  BY <2>3, <2>4, PlainCells
<1>2. CASE st = <<"pointer">>
  <2>1. u = [r \in Rows |-> IF g.mouseY <= r /\ r < g.mouseY + PointerHeight
                            THEN <<"pointer">> ELSE s[r]]
    BY <1>2 DEF Stroke, DrawBMP
  <2>2. \A r \in Rows : /\ Paints(g, st, r) <=> g.mouseY <= r /\ r < g.mouseY + PointerHeight
                        /\ Colour(g, st, r) = <<"pointer">>
    BY <1>2 DEF Paints, Colour
  <2>3. u = Repainted(s, g, st)
    BY <2>1, <2>2 DEF Repainted
  <2> QED  BY <2>2, <2>3, PlainCells
<1>3. ASSUME NEW c \in Top, st = <<"child", c>>
      PROVE  u = Repainted(s, g, st) /\ \A r \in Rows : Colour(g, st, r) \in Plain
  <2> DEFINE y == g.y[c]
             h == Height[c]
             ground == IF c \in Windows THEN s ELSE DrawLine(s, y - 1)
  <2>1. u = FillRectangle(ground, y, h, <<c>>)
    BY <1>3 DEF Stroke, DrawChild
  <2>2. \A r \in Rows : ground[r] = IF c \notin Windows /\ r = y - 1 THEN <<"line">> ELSE s[r]
    BY DEF DrawLine
  <2>3. \A r \in Rows :
          /\ Paints(g, st, r) <=> Filled(y, h, r) \/ (c \notin Windows /\ r = y - 1)
          /\ Colour(g, st, r) = IF Filled(y, h, r) THEN <<c>> ELSE <<"line">>
    BY <1>3 DEF Paints, Colour
  <2> HIDE DEF ground, y, h
  <2>4. u = [r \in Rows |-> IF Filled(y, h, r) THEN <<c>> ELSE ground[r]]
    BY <2>1 DEF FillRectangle, Filled
  <2>5. u = Repainted(s, g, st)
    BY <2>2, <2>3, <2>4 DEF Repainted
  <2>6. \A r \in Rows : Colour(g, st, r) \in Plain
    BY <2>3, PlainCells DEF Widgets
  <2> QED  BY <2>5, <2>6
<1>4. ASSUME NEW c \in Top, NEW w \in PartsOf(c), st = <<"part", c, w>>
      PROVE  u = Repainted(s, g, st) /\ \A r \in Rows : Colour(g, st, r) \in Plain
  <2> DEFINE y == ScreenY(g, c, w)
             h == Height[w]
  <2>1. u = FillRectangle(s, y, h, <<w>>)
    BY <1>4 DEF Stroke
  <2>2. \A r \in Rows :
          /\ Paints(g, st, r) <=> Filled(y, h, r)
          /\ Colour(g, st, r) = <<w>>
    BY <1>4 DEF Paints, Colour
  <2> HIDE DEF y, h
  <2>3. u = [r \in Rows |-> IF Filled(y, h, r) THEN <<w>> ELSE s[r]]
    BY <2>1 DEF FillRectangle, Filled
  <2>4. u = Repainted(s, g, st)
    BY <2>2, <2>3 DEF Repainted
  <2>5. w \in Widgets
    BY DEF Widgets
  <2> QED  BY <2>2, <2>4, <2>5, PlainCells
<1>5. \A c \in Top : \A w \in Buttons :
        <<"hour", c, w>>[1] = "hour" /\ <<"minute", c, w>>[1] = "minute"
  OBVIOUS
<1> HIDE DEF u
<1> QED  BY <1>1, <1>2, <1>3, <1>4, <1>5, StrokeKinds DEF u

LEMMA RepaintedType ==
  ASSUME NEW g, NEW st, \A r \in Rows : Colour(g, st, r) \in Plain,
         NEW s \in [Rows -> Cells]
  PROVE  /\ Repainted(s, g, st) \in [Rows -> Cells]
         /\ s \in [Rows -> Plain] => Repainted(s, g, st) \in [Rows -> Plain]
<1>1. \A r \in Rows : Colour(g, st, r) \in Cells
  BY DEF Cells
<1> QED  BY <1>1 DEF Repainted

(* A stroke leaves cells, and none with a time before there is one.        *)
LEMMA StrokeType ==
  ASSUME NEW g \in Gui, g.y[TimeButton[2]] = Start[TimeButton[2]],
         NEW s \in [Rows -> Cells], NEW t \in Times \union {<<>>}, NEW st \in Strokes,
         t = <<>> => s \in [Rows -> Plain]
  PROVE  /\ Stroke(s, g, t, st) \in [Rows -> Cells]
         /\ t = <<>> => Stroke(s, g, t, st) \in [Rows -> Plain]
<1> DEFINE u == Stroke(s, g, t, st)
           row == LabelRow(g, TimeButton[2])
<1>1. row \in Rows
  BY ButtonRow
<1>2. CASE st[1] \notin {"hour", "minute"}
  BY <1>2, Painting, RepaintedType
<1>3. t # <<>> => t[1] \in 0 .. 23 /\ t[2] \in 0 .. 59
  BY DEF Times
<1>4. ASSUME NEW c \in Top, NEW w \in Buttons, st = <<"hour", c, w>>
      PROVE  u \in [Rows -> Cells] /\ (t = <<>> => u \in [Rows -> Plain])
  <2>1. u = IF t = <<>> THEN s ELSE [s EXCEPT ![row] = <<"label", t[1], Blank>>]
    <3>1. Stroke(s, g, t, <<"hour", c, w>>) = HourWritten(s, row, t)
      BY HourCell
    <3>2. u = HourWritten(s, row, t)
      BY <1>4, <3>1
    <3> QED  BY <3>2 DEF HourWritten
  <2> HIDE DEF u, row
  <2>2. t # <<>> => <<"label", t[1], Blank>> \in Cells
    BY <1>3 DEF Cells, Written
  <2> QED  BY <1>1, <2>1, <2>2
<1>5. ASSUME NEW c \in Top, NEW w \in Buttons, st = <<"minute", c, w>>
      PROVE  u \in [Rows -> Cells] /\ (t = <<>> => u \in [Rows -> Plain])
  <2>1. u = IF s[row][1] # "label" THEN s
            ELSE [s EXCEPT ![row] = <<"label", s[row][2], t[2]>>]
    <3>1. Stroke(s, g, t, <<"minute", c, w>>) = MinuteWritten(s, row, t)
      BY MinuteCell
    <3>2. u = MinuteWritten(s, row, t)
      BY <1>5, <3>1
    <3> QED  BY <3>2 DEF MinuteWritten
  <2> HIDE DEF u, row
  <2>2. CASE s[row][1] # "label"
    BY <2>1, <2>2
  <2>3. CASE s[row][1] = "label"
    <3>1. t # <<>>
      <4>1. t = <<>> => s[row] \in Plain
        BY <1>1
      <4> QED  BY <2>3, <4>1, PlainCells
    <3>2. s[row] \in Written
      BY <1>1, <2>3, PlainCells
    <3>3. s[row][2] \in 0 .. 23
      BY <3>2 DEF Written
    <3>4. <<"label", s[row][2], t[2]>> \in Cells
      BY <1>3, <3>1, <3>3 DEF Cells, Written
    <3> QED  BY <1>1, <2>1, <2>3, <3>1, <3>4
  <2> QED  BY <2>2, <2>3
<1>6. \A c \in Top : \A w \in PartsOf(c) : <<"part", c, w>>[1] = "part"
  OBVIOUS
<1>7. st = <<"desktop">> \/ st = <<"pointer">> \/ (\E c \in Top : st = <<"child", c>>)
        => st[1] \notin {"hour", "minute"}
  OBVIOUS
<1> HIDE DEF u
<1> QED  BY <1>2, <1>4, <1>5, <1>6, <1>7, StrokeKinds DEF u
-----------------------------------------------------------------------------
(* What the first n strokes of a drawing leave in a row. *)

LastPainter(g, n, r, j) ==
  /\ Paints(g, DesktopStrokes[j], r)
  /\ \A q \in 1 .. n : q > j => ~ Paints(g, DesktopStrokes[q], r)

Shown(g, s, n, r) ==
  n > 0 => \E j \in 1 .. n :
             LastPainter(g, n, r, j) /\ s[r] = Colour(g, DesktopStrokes[j], r)

\* The rows the strokes of the time never touch.
NoTime(g, r) == r \in Rows /\ ~ ContainsCoordinate(g, TimeButton[2], r)

\* A screen, a tree and a time as there are while the main loop draws.
Drawing(s, g, t) ==
  /\ g \in Gui /\ g.y[TimeButton[2]] = Start[TimeButton[2]]
  /\ s \in [Rows -> Cells] /\ t \in Times \union {<<>>}

(* The strokes of the time leave all other rows alone.                     *)
LEMMA TimeKept ==
  ASSUME NEW g, NEW s, NEW t, Drawing(s, g, t),
         NEW st \in Strokes, st[1] \in {"hour", "minute"}, NEW r, NoTime(g, r)
  PROVE  Stroke(s, g, t, st)[r] = s[r]
<1> DEFINE row == LabelRow(g, TimeButton[2])
<1>0. /\ g \in Gui /\ g.y[TimeButton[2]] = Start[TimeButton[2]]
      /\ s \in [Rows -> Cells] /\ t \in Times \union {<<>>}
  BY DEF Drawing
<1>1. row \in Rows /\ r # row /\ r \in Rows
  BY <1>0, ButtonRow DEF NoTime
<1>2. ASSUME NEW c \in Top, NEW w \in Buttons, st = <<"hour", c, w>>
      PROVE  Stroke(s, g, t, st)[r] = s[r]
  <2>1. Stroke(s, g, t, <<"hour", c, w>>) = HourWritten(s, row, t)
    BY <1>0, HourCell
  <2> HIDE DEF row
  <2>2. HourWritten(s, row, t)[r] = s[r]
    BY <1>0, <1>1 DEF HourWritten
  <2> QED  BY <1>2, <2>1, <2>2
<1>3. ASSUME NEW c \in Top, NEW w \in Buttons, st = <<"minute", c, w>>
      PROVE  Stroke(s, g, t, st)[r] = s[r]
  <2>1. Stroke(s, g, t, <<"minute", c, w>>) = MinuteWritten(s, row, t)
    BY <1>0, MinuteCell
  <2> HIDE DEF row
  <2>2. MinuteWritten(s, row, t)[r] = s[r]
    BY <1>0, <1>1 DEF MinuteWritten
  <2> QED  BY <1>3, <2>1, <2>2
<1>4. \A c \in Top : \A w \in PartsOf(c) : <<"part", c, w>>[1] = "part"
  OBVIOUS
<1>5. st = <<"desktop">> \/ st = <<"pointer">> \/ (\E c \in Top : st = <<"child", c>>)
        => st[1] \notin {"hour", "minute"}
  OBVIOUS
<1> QED  BY <1>2, <1>3, <1>4, <1>5, StrokeKinds

(* One stroke more. *)
LEMMA ShownNext ==
  ASSUME NEW g \in Gui, g.y[TimeButton[2]] = Start[TimeButton[2]],
         NEW s \in [Rows -> Cells], NEW t \in Times \union {<<>>},
         NEW k \in 1 .. Len(DesktopStrokes), NEW r, NoTime(g, r), Shown(g, s, k - 1, r)
  PROVE  Shown(g, Stroke(s, g, t, DesktopStrokes[k]), k, r)
<1> DEFINE st == DesktopStrokes[k]
           u == Stroke(s, g, t, st)
<1>1. DesktopStrokes \in Seq(Strokes) /\ DesktopStrokes[1] = <<"desktop">>
  BY DesktopInOrder
<1>2. st \in Strokes /\ k \in Nat /\ k >= 1
  BY <1>1
<1>3. r \in Rows
  BY DEF NoTime
<1>4. u[r] = IF Paints(g, st, r) THEN Colour(g, st, r) ELSE s[r]
  <2>1. CASE st[1] \in {"hour", "minute"}
    <3>1. ~ Paints(g, st, r)
      BY <2>1 DEF Paints
    <3>2. u[r] = s[r]
      <4> HIDE DEF st, u
      <4>0. Drawing(s, g, t)
        BY DEF Drawing
      <4>1. Stroke(s, g, t, st)[r] = s[r]
        BY <1>2, <2>1, <4>0, TimeKept
      <4> QED  BY <4>1 DEF u
    <3> QED  BY <3>1, <3>2
  <2>2. CASE st[1] \notin {"hour", "minute"}
    <3>1. u = Repainted(s, g, st)
      BY <1>2, <2>2, Painting
    <3> HIDE DEF u, st
    <3> QED  BY <1>3, <3>1 DEF Repainted
  <2> QED  BY <2>1, <2>2
<1> HIDE DEF u
<1>5. CASE Paints(g, st, r)
  <2>1. \A q \in 1 .. k : ~ (q > k)
    BY <1>2
  <2>2. LastPainter(g, k, r, k)
    BY <1>5, <2>1 DEF LastPainter
  <2>3. u[r] = Colour(g, DesktopStrokes[k], r) /\ k \in 1 .. k
    BY <1>2, <1>4, <1>5
  <2>4. Shown(g, u, k, r)
    BY <2>2, <2>3 DEF Shown
  <2> QED  BY <2>4 DEF u
<1>6. CASE ~ Paints(g, st, r)
  <2>1. k # 1
    <3>1. <<"desktop">>[1] = "desktop"
      OBVIOUS
    <3>2. k = 1 => st[1] = "desktop"
      BY <1>1, <3>1
    <3> QED  BY <1>6, <3>2 DEF Paints
  <2>2. PICK j \in 1 .. k - 1 :
          LastPainter(g, k - 1, r, j) /\ s[r] = Colour(g, DesktopStrokes[j], r)
    BY <1>2, <2>1 DEF Shown
  <2>3. \A q \in 1 .. k : q # k => q \in 1 .. k - 1
    BY <1>2
  <2>4. LastPainter(g, k, r, j)
    BY <1>6, <2>2, <2>3 DEF LastPainter
  <2>5. u[r] = Colour(g, DesktopStrokes[j], r) /\ j \in 1 .. k
    BY <1>2, <1>4, <1>6, <2>2
  <2>6. Shown(g, u, k, r)
    BY <2>4, <2>5 DEF Shown
  <2> QED  BY <2>6 DEF u
<1> QED  BY <1>5, <1>6

(* The drawing before interrupts are on. *)
LEMMA FirstDrawing ==
  ASSUME NEW g \in Gui, g.y[TimeButton[2]] = Start[TimeButton[2]],
         NEW s \in [Rows -> Plain]
  PROVE  /\ DrawAll(s, g, <<>>, DesktopStrokes) \in [Rows -> Plain]
         /\ \A r : NoTime(g, r) =>
              Shown(g, DrawAll(s, g, <<>>, DesktopStrokes), Len(DesktopStrokes), r)
<1> DEFINE D == DesktopStrokes
           n == Len(D)
           t == <<>>
           F(f) == [i \in 0 .. n |-> IF i = 0 THEN s ELSE Stroke(f[i-1], g, t, D[i])]
           after == CHOOSE f : f = F(f)
           S == [Rows -> Plain]
           turn == [i \in 1 .. n |-> [x \in S |-> Stroke(x, g, t, D[i])]]
<1>1. DrawAll(s, g, t, D) = after[n]
  BY DEF DrawAll
<1>2. D \in Seq(Strokes) /\ n \in Nat /\ n >= 2
  BY DesktopInOrder
<1>3. \A i \in 1 .. n : D[i] \in Strokes
  BY <1>2
<1> HIDE DEF D, n
<1>4. t \in Times \union {<<>>} /\ Plain \subseteq Cells
  BY DEF Cells
<1>5. ASSUME NEW x \in S, NEW i \in 1 .. n PROVE x \in [Rows -> Cells] /\ Stroke(x, g, t, D[i]) \in S
  <2>1. x \in [Rows -> Cells]
    BY <1>4
  <2> QED  BY <1>3, <1>4, <2>1, StrokeType
<1> HIDE DEF t
<1>6. turn \in [1 .. n -> [S -> S]]
  <2> HIDE DEF S
  <2> QED  BY <1>5
<1> HIDE DEF turn
<1>7. PICK f : Follows(f, n, S, s, turn)
  <2>1. s \in S
    OBVIOUS
  <2> HIDE DEF S
  <2> QED  BY <1>2, <1>6, <2>1, RecursionExists
<1>8. /\ f \in [0 .. n -> S] /\ f[0] = s
      /\ \A i \in 1 .. n : f[i] = Stroke(f[i-1], g, t, D[i])
  <2> HIDE DEF S
  <2>1. f \in [0 .. n -> S] /\ f[0] = s /\ \A i \in 1 .. n : f[i] = turn[i][f[i-1]]
    BY <1>7 DEF Follows
  <2>2. \A i \in 1 .. n : i - 1 \in 0 .. n
    BY <1>2
  <2>3. \A i \in 1 .. n : f[i-1] \in S
    BY <2>1, <2>2
  <2>4. \A i \in 1 .. n : f[i] = Stroke(f[i-1], g, t, D[i])
    BY <2>1, <2>3 DEF turn
  <2> QED  BY <2>1, <2>4
<1>9. f = F(f)
  <2>1. \A i \in 0 .. n : f[i] = IF i = 0 THEN s ELSE Stroke(f[i-1], g, t, D[i])
    <3> SUFFICES ASSUME NEW i \in 0 .. n, i # 0
                 PROVE  f[i] = Stroke(f[i-1], g, t, D[i])
      BY <1>8
    <3>1. i \in 1 .. n
      BY <1>2
    <3> QED  BY <1>8, <3>1
  <2> HIDE DEF S
  <2> QED  BY <1>8, <2>1
<1> HIDE DEF F
<1>10. after = F(after)
  BY <1>9
<1>11. /\ after[0] = s
       /\ \A i \in 1 .. n : after[i] = Stroke(after[i-1], g, t, D[i])
  <2> HIDE DEF after
  <2>1. \A i \in 0 .. n :
          after[i] = IF i = 0 THEN s ELSE Stroke(after[i-1], g, t, D[i])
    BY <1>10 DEF F
  <2>2. 0 \in 0 .. n /\ \A i \in 1 .. n : i \in 0 .. n /\ i # 0
    BY <1>2
  <2> QED  BY <2>1, <2>2
<1> HIDE DEF after
<1> DEFINE T == {i \in 0 .. n : /\ after[i] \in S
                               /\ \A r : NoTime(g, r) => Shown(g, after[i], i, r)}
<1>12. 0 \in T
  <2>1. \A r : Shown(g, after[0], 0, r)
    BY DEF Shown
  <2>2. after[0] \in S /\ 0 \in 0 .. n
    BY <1>2, <1>11
  <2> QED  BY <2>1, <2>2
<1>13. ASSUME NEW i \in 1 .. n, i - 1 \in T PROVE i \in T
  <2>1. after[i-1] \in S /\ \A r : NoTime(g, r) => Shown(g, after[i-1], i - 1, r)
    BY <1>13
  <2>2. after[i-1] \in [Rows -> Cells] /\ Stroke(after[i-1], g, t, D[i]) \in S
    BY <1>5, <2>1
  <2>3. ASSUME NEW r, NoTime(g, r) PROVE Shown(g, Stroke(after[i-1], g, t, D[i]), i, r)
    <3>1. i \in 1 .. Len(DesktopStrokes) /\ t \in Times \union {<<>>}
      BY <1>4 DEF n, D
    <3>2. Shown(g, after[i-1], i - 1, r)
      BY <2>1, <2>3
    <3> QED  BY <2>2, <2>3, <3>1, <3>2, ShownNext DEF D
  <2>4. after[i] = Stroke(after[i-1], g, t, D[i]) /\ i \in 0 .. n
    BY <1>11
  <2> HIDE DEF S
  <2> QED  BY <2>2, <2>3, <2>4
<1> HIDE DEF T
<1>14. n \in T
  BY <1>2, <1>12, <1>13, Counting
<1> QED  BY <1>1, <1>14 DEF T, t, n, D
-----------------------------------------------------------------------------
(* The row with the time. *)

Place == Start[TimeButton[2]] + Height[TimeButton[2]] \div 2

\* A row with a time shows this hour, and this minute.
HourIs(cell, t) == cell[1] = "label" => t # <<>> /\ cell[2] = t[1]
TimeIs(cell, t) == HourIs(cell, t) /\ (cell[1] = "label" => cell[3] = t[2])

LEMMA TimeStroke ==
  ASSUME NEW g \in Gui, g.y[TimeButton[2]] = Start[TimeButton[2]],
         NEW s \in [Rows -> Cells], NEW t \in Times \union {<<>>}, NEW st \in Strokes,
         t = <<>> => s \in [Rows -> Plain]
  PROVE  /\ st[1] = "hour" => HourIs(Stroke(s, g, t, st)[Place], t)
         /\ st[1] = "minute" /\ HourIs(s[Place], t) => TimeIs(Stroke(s, g, t, st)[Place], t)
         /\ st[1] \notin {"hour", "minute"} /\ TimeIs(s[Place], t)
              => TimeIs(Stroke(s, g, t, st)[Place], t)
         /\ st = <<"desktop">> => TimeIs(Stroke(s, g, t, st)[Place], t)
<1> DEFINE u == Stroke(s, g, t, st)
<1>1. LabelRow(g, TimeButton[2]) = Place /\ Place \in Rows
  BY LayoutAssumption DEF LabelRow, Place
<1>2. \A cell \in Plain : TimeIs(cell, t)
  BY PlainCells DEF TimeIs, HourIs
<1>3. CASE st[1] \notin {"hour", "minute"}
  <2>1. u = Repainted(s, g, st) /\ \A r \in Rows : Colour(g, st, r) \in Plain
    BY <1>3, Painting
  <2>2. u[Place] = IF Paints(g, st, Place) THEN Colour(g, st, Place) ELSE s[Place]
    <3> HIDE DEF u
    <3> QED  BY <1>1, <2>1 DEF Repainted
  <2>3. st = <<"desktop">> => Paints(g, st, Place)
    BY DEF Paints
  <2>4. Colour(g, st, Place) \in Plain
    BY <1>1, <2>1
  <2> HIDE DEF u
  <2>5. TimeIs(s[Place], t) => TimeIs(u[Place], t)
    BY <1>2, <2>2, <2>4
  <2>6. st = <<"desktop">> => TimeIs(u[Place], t)
    BY <1>2, <2>2, <2>3, <2>4
  <2> QED  BY <1>3, <2>5, <2>6 DEF u
<1>4. ASSUME NEW c \in Top, NEW w \in Buttons, st = <<"hour", c, w>>
      PROVE  st[1] = "hour" /\ HourIs(u[Place], t)
  <2>1. Stroke(s, g, t, <<"hour", c, w>>) = HourWritten(s, Place, t)
    BY <1>1, HourCell
  <2>2. u = HourWritten(s, Place, t)
    BY <1>4, <2>1
  <2> HIDE DEF u
  <2>3. CASE t = <<>>
    <3>1. u = s /\ s[Place] \in Plain
      BY <1>1, <2>2, <2>3 DEF HourWritten
    <3> QED  BY <1>2, <1>4, <3>1 DEF TimeIs
  <2>4. CASE t # <<>>
    <3>1. u[Place] = <<"label", t[1], Blank>>
      BY <1>1, <2>2, <2>4 DEF HourWritten
    <3> QED  BY <1>4, <2>4, <3>1 DEF HourIs
  <2> QED  BY <2>3, <2>4
<1>5. ASSUME NEW c \in Top, NEW w \in Buttons, st = <<"minute", c, w>>
      PROVE  st[1] = "minute" /\ (HourIs(s[Place], t) => TimeIs(u[Place], t))
  <2>1. Stroke(s, g, t, <<"minute", c, w>>) = MinuteWritten(s, Place, t)
    BY <1>1, MinuteCell
  <2>2. u = MinuteWritten(s, Place, t)
    BY <1>5, <2>1
  <2> HIDE DEF u
  <2>3. CASE s[Place][1] # "label"
    <3>1. u = s
      BY <2>2, <2>3 DEF MinuteWritten
    <3> QED  BY <1>5, <2>3, <3>1 DEF TimeIs, HourIs
  <2>4. CASE s[Place][1] = "label"
    <3>1. u[Place] = <<"label", s[Place][2], t[2]>>
      BY <1>1, <2>2, <2>4 DEF MinuteWritten
    <3> QED  BY <1>5, <2>4, <3>1 DEF TimeIs, HourIs
  <2> QED  BY <2>3, <2>4
<1>6. st[1] \in {"hour", "minute"} =>
        \/ \E c \in Top : \E w \in Buttons : st = <<"hour", c, w>>
        \/ \E c \in Top : \E w \in Buttons : st = <<"minute", c, w>>
  <2>1. \A c \in Top : \A w \in PartsOf(c) : <<"part", c, w>>[1] = "part"
    OBVIOUS
  <2>2. st = <<"desktop">> \/ st = <<"pointer">> \/ (\E c \in Top : st = <<"child", c>>)
          => st[1] \notin {"hour", "minute"}
    OBVIOUS
  <2> QED  BY <2>1, <2>2, StrokeKinds
<1>7. st = <<"desktop">> => st[1] \notin {"hour", "minute"}
  OBVIOUS
<1>8. ~ (st[1] = "hour" /\ st[1] = "minute")
  OBVIOUS
<1> HIDE DEF u
<1>9. CASE st[1] = "hour"
  BY <1>4, <1>5, <1>6, <1>7, <1>8, <1>9 DEF u
<1>10. CASE st[1] = "minute"
  BY <1>4, <1>5, <1>6, <1>7, <1>8, <1>10 DEF u
<1> QED  BY <1>3, <1>9, <1>10

-----------------------------------------------------------------------------
(* The screen. *)

Places == {"testDesktop", "drawDesktop", "clearDesktop", "testTime", "drawTime", "clearTime"}

ScreenTypes ==
  /\ screen \in [Rows -> Cells]
  /\ label = <<>> => screen \in [Rows -> Plain]
  /\ desktopRedraw \in BOOLEAN /\ timeRedraw \in BOOLEAN
  /\ main \in [at : Places, k : Nat]
  /\ main.at = "drawDesktop" => main.k \in 1 .. Len(DesktopStrokes)
  /\ main.at = "drawTime" => main.k \in 1 .. 3

(***************************************************************************)
(* The drawing in progress shows the tree as it is, or a request that came *)
(* during it is known to be missed; and so does the last complete drawing, *)
(* as long as no new one has been asked for.                               *)
(***************************************************************************)
DesktopShown ==
  "desktop" \notin missed =>
    \A r : NoTime(gui, r) =>
      /\ main.at = "drawDesktop" => Shown(gui, screen, main.k - 1, r)
      /\ main.at # "drawDesktop" /\ (~desktopRedraw \/ main.at = "clearDesktop") =>
           Shown(gui, screen, Len(DesktopStrokes), r)

(***************************************************************************)
(* The time on the screen is the label, except between its hour and its    *)
(* minute, where it has the hour already.                                  *)
(***************************************************************************)
TimeShown ==
  "time" \notin missed =>
    /\ main.at = "drawTime" /\ main.k = 3 => HourIs(screen[Place], label)
    /\ main.at = "clearTime" => TimeIs(screen[Place], label)
    /\ main.at = "drawDesktop" /\ main.k > 1 /\ ~timeRedraw =>
         /\ HourIs(screen[Place], label)
         /\ DesktopStrokes[main.k][1] # "minute" => TimeIs(screen[Place], label)
    /\ main.at \notin {"drawDesktop", "drawTime", "clearTime"} /\ ~timeRedraw =>
         TimeIs(screen[Place], label)

ScreenInv == MouseInv /\ ClockInv /\ ScreenTypes /\ DesktopShown /\ TimeShown

LEMMA TheTree ==
  ASSUME MouseInv
  PROVE  gui \in Gui /\ gui.y[TimeButton[2]] = Start[TimeButton[2]]
<1>1. TimeButton[2] \in Widgets \ Windows
  BY LayoutAssumption, TreeAssumption DEF Widgets
<1> QED  BY <1>1 DEF MouseInv, Scene, Scenes, Still

LEMMA ScreenInvInit == ScreenInit => ScreenInv
<1> SUFFICES ASSUME ScreenInit PROVE ScreenInv
  OBVIOUS
<1>1. MouseInv /\ ClockInv
  BY MouseInvInit, ClockInvInit
<1>2. gui \in Gui /\ gui.y[TimeButton[2]] = Start[TimeButton[2]]
  BY <1>1, TheTree
<1> DEFINE ground == [r \in Rows |-> <<"desktop">>]
<1>3. ground \in [Rows -> Plain]
  BY PlainCells
<1>4. /\ gui = InitialGui /\ label = <<>> /\ main = [at |-> "testDesktop", k |-> 1]
      /\ desktopRedraw \in BOOLEAN /\ timeRedraw \in BOOLEAN /\ missed = {}
      /\ screen = DrawAll(ground, gui, <<>>, DesktopStrokes)
  BY DEF ScreenInit
<1> HIDE DEF ground
<1>5. /\ screen \in [Rows -> Plain]
      /\ \A r : NoTime(gui, r) => Shown(gui, screen, Len(DesktopStrokes), r)
  BY <1>2, <1>3, <1>4, FirstDrawing
<1>6. main.at = "testDesktop" /\ main.k = 1 /\ main \in [at : Places, k : Nat]
  BY <1>4 DEF Places
<1>7. ScreenTypes
  BY <1>4, <1>5, <1>6 DEF ScreenTypes, Cells
<1>8. DesktopShown
  BY <1>5, <1>6 DEF DesktopShown
<1>9. TimeShown
  <2>1. Place \in Rows
    BY LayoutAssumption DEF Place
  <2>2. screen[Place][1] # "label"
    BY <1>5, <2>1, PlainCells
  <2> QED  BY <1>6, <2>2 DEF TimeShown, TimeIs, HourIs
<1> QED  BY <1>1, <1>7, <1>8, <1>9 DEF ScreenInv

LEMMA TimeInOrder ==
  /\ Len(TimeStrokes) = 3
  /\ TimeStrokes[1][1] = "part" /\ TimeStrokes[2][1] = "hour" /\ TimeStrokes[3][1] = "minute"
  /\ \A k \in 1 .. 3 : TimeStrokes[k] \in Strokes
  /\ \A g, r : NoTime(g, r) => ~ Paints(g, TimeStrokes[1], r)
<1> DEFINE c == TimeButton[1]
           w == TimeButton[2]
           p == <<"part", c, w>>
           h == <<"hour", c, w>>
           m == <<"minute", c, w>>
<1>1. c \in Top /\ w \in PartsOf(c) /\ w \in Buttons
  BY LayoutAssumption
<1>2. p \in Strokes /\ h \in Strokes /\ m \in Strokes
  BY <1>1 DEF Strokes, Inner, ChildSet, PartSet
<1>3. TimeStrokes = <<p, h, m>>
  BY DEF TimeStrokes, ButtonStrokes
<1>4. \A g, r : NoTime(g, r) => ~ Paints(g, p, r)
  BY <1>1 DEF NoTime, Paints, Filled, ScreenY, ContainsCoordinate
<1>5. p[1] = "part" /\ h[1] = "hour" /\ m[1] = "minute"
  OBVIOUS
<1> HIDE DEF p, h, m
<1> QED  BY <1>2, <1>3, <1>4, <1>5

LEMMA MouseOnScreen ==
  ASSUME ScreenInv, MouseInterrupt
  PROVE  ScreenTypes' /\ DesktopShown' /\ TimeShown'
<1>1. UNCHANGED <<label, timeRedraw, screen, main>>
  BY DEF MouseInterrupt, clockVars
<1>2. \/ UNCHANGED <<gui, desktopRedraw, missed>>
      \/ /\ desktopRedraw' = TRUE
         /\ missed' = Overtaken("desktop", {"drawDesktop", "clearDesktop"})
  BY DEF MouseInterrupt, Packet
<1>3. ScreenTypes'
  BY <1>1, <1>2 DEF ScreenInv, ScreenTypes
<1>4. ("time" \in missed') = ("time" \in missed)
  BY <1>2 DEF Overtaken
<1>5. TimeShown'
  BY <1>1, <1>4 DEF ScreenInv, TimeShown
<1>6. DesktopShown'
  <2>1. CASE UNCHANGED <<gui, desktopRedraw, missed>>
    BY <1>1, <2>1 DEF ScreenInv, DesktopShown
  <2>2. CASE /\ desktopRedraw' = TRUE
             /\ missed' = Overtaken("desktop", {"drawDesktop", "clearDesktop"})
    <3>1. "desktop" \notin missed' => main'.at \notin {"drawDesktop", "clearDesktop"}
      BY <1>1, <2>2 DEF Overtaken
    <3> QED  BY <2>2, <3>1 DEF DesktopShown
  <2> QED  BY <1>2, <2>1, <2>2
<1> QED  BY <1>3, <1>5, <1>6

LEMMA ClockOnScreen ==
  ASSUME ScreenInv, ClockInterrupt
  PROVE  ScreenTypes' /\ DesktopShown' /\ TimeShown'
<1>1. UNCHANGED <<gui, desktopRedraw, screen, main>>
  BY DEF ClockInterrupt
<1>2. PICK later \in {clock, Tick(clock)} :
        LET time == ReadCurrentTime(clock, later) IN
        IF time[2] # lastMinute THEN OnTimeChange(time)
        ELSE UNCHANGED <<label, timeRedraw, missed>>
  BY DEF ClockInterrupt
<1> DEFINE time == ReadCurrentTime(clock, later)
<1>3. time \in Times /\ time # <<>>
  <2>1. clock \in Times /\ later \in Times
    BY Ticks DEF ScreenInv, ClockInv
  <2>2. time = <<later[1], clock[2]>> /\ time \in Times
    BY <2>1, TimeRead
  <2>3. <<>> \notin Times
    BY DEF Times
  <2> HIDE DEF time
  <2> QED  BY <2>2, <2>3
<1> HIDE DEF time
<1>4. CASE UNCHANGED <<label, timeRedraw, missed>>
  BY <1>1, <1>4 DEF ScreenInv, ScreenTypes, DesktopShown, TimeShown
<1>5. CASE OnTimeChange(time)
  <2>1. label' = time /\ timeRedraw' = TRUE
        /\ missed' = Overtaken("time", {"drawTime", "clearTime"})
    BY <1>5 DEF OnTimeChange
  <2>2. ScreenTypes'
    BY <1>1, <1>3, <2>1 DEF ScreenInv, ScreenTypes
  <2>3. ("desktop" \in missed') = ("desktop" \in missed)
    BY <2>1 DEF Overtaken
  <2>4. DesktopShown'
    BY <1>1, <2>3 DEF ScreenInv, DesktopShown
  <2>5. "time" \notin missed' => main'.at \notin {"drawTime", "clearTime"}
    BY <1>1, <2>1 DEF Overtaken
  <2>6. TimeShown'
    BY <2>1, <2>5 DEF TimeShown
  <2> QED  BY <2>2, <2>4, <2>6
<1> QED  BY <1>2, <1>4, <1>5 DEF time

LEMMA TestsOnScreen ==
  ASSUME ScreenInv, gui' = gui, label' = label,
         TestDesktop \/ ClearDesktop \/ TestTime \/ ClearTime
  PROVE  ScreenTypes' /\ DesktopShown' /\ TimeShown'
<1>0. screen' = screen /\ (main' = [at |-> main'.at, k |-> 1])
  BY DEF TestDesktop, ClearDesktop, TestTime, ClearTime, Goto
<1>1. ASSUME NEW at \in Places, Goto(at)
      PROVE  main' \in [at : Places, k : Nat] /\ main'.at = at /\ main'.k = 1
  BY <1>1 DEF Goto
<1>2. Len(DesktopStrokes) >= 2 /\ Len(DesktopStrokes) \in Nat
  BY DesktopInOrder
<1>3. CASE TestDesktop
  <2>1. /\ main.at = "testDesktop"
        /\ Goto(IF desktopRedraw THEN "drawDesktop" ELSE "testTime")
        /\ missed' = IF desktopRedraw THEN {} ELSE missed
        /\ UNCHANGED <<desktopRedraw, timeRedraw>>
    BY <1>3 DEF TestDesktop
  <2>2. desktopRedraw \in BOOLEAN
    BY DEF ScreenInv, ScreenTypes
  <2>3. CASE desktopRedraw
    <3>1. Goto("drawDesktop") /\ missed' = {} /\ "drawDesktop" \in Places
      BY <2>1, <2>3 DEF Places
    <3>2. main' \in [at : Places, k : Nat] /\ main'.at = "drawDesktop" /\ main'.k = 1
      BY <1>1, <3>1
    <3>3. ScreenTypes'
      BY <1>0, <1>2, <2>1, <3>2 DEF ScreenInv, ScreenTypes
    <3>4. \A r : Shown(gui', screen', main'.k - 1, r)
      BY <3>2 DEF Shown
    <3>5. DesktopShown'
      BY <3>2, <3>4 DEF DesktopShown
    <3>6. TimeShown'
      BY <3>2 DEF TimeShown
    <3> QED  BY <3>3, <3>5, <3>6
  <2>4. CASE ~ desktopRedraw
    <3>1. Goto("testTime") /\ missed' = missed /\ "testTime" \in Places
      BY <2>1, <2>4 DEF Places
    <3>2. main' \in [at : Places, k : Nat] /\ main'.at = "testTime" /\ main'.k = 1
      BY <1>1, <3>1
    <3>3. ScreenTypes'
      BY <1>0, <2>1, <3>2 DEF ScreenInv, ScreenTypes
    <3>4. DesktopShown'
      BY <1>0, <2>1, <2>4, <3>1, <3>2 DEF ScreenInv, DesktopShown
    <3>5. TimeShown'
      BY <1>0, <2>1, <3>1, <3>2 DEF ScreenInv, TimeShown
    <3> QED  BY <3>3, <3>4, <3>5
  <2> QED  BY <2>3, <2>4
<1>4. CASE ClearDesktop
  <2>1. /\ main.at = "clearDesktop" /\ desktopRedraw' = FALSE /\ Goto("testTime")
        /\ UNCHANGED <<timeRedraw, missed>> /\ "testTime" \in Places
    BY <1>4 DEF ClearDesktop, Places
  <2>2. main' \in [at : Places, k : Nat] /\ main'.at = "testTime" /\ main'.k = 1
    BY <1>1, <2>1
  <2>3. ScreenTypes'
    BY <1>0, <2>1, <2>2 DEF ScreenInv, ScreenTypes
  <2>4. DesktopShown'
    BY <1>0, <2>1, <2>2 DEF ScreenInv, DesktopShown
  <2>5. TimeShown'
    BY <1>0, <2>1, <2>2 DEF ScreenInv, TimeShown
  <2> QED  BY <2>3, <2>4, <2>5
<1>5. CASE TestTime
  <2>1. /\ main.at = "testTime"
        /\ Goto(IF timeRedraw THEN "drawTime" ELSE "testDesktop")
        /\ missed' = IF timeRedraw THEN missed \ {"time"} ELSE missed
        /\ UNCHANGED <<desktopRedraw, timeRedraw>>
    BY <1>5 DEF TestTime
  <2>2. timeRedraw \in BOOLEAN
    BY DEF ScreenInv, ScreenTypes
  <2>3. CASE timeRedraw
    <3>1. Goto("drawTime") /\ missed' = missed \ {"time"} /\ "drawTime" \in Places
      BY <2>1, <2>3 DEF Places
    <3>2. main' \in [at : Places, k : Nat] /\ main'.at = "drawTime" /\ main'.k = 1
      BY <1>1, <3>1
    <3>3. ScreenTypes'
      BY <1>0, <2>1, <3>2 DEF ScreenInv, ScreenTypes
    <3>4. ("desktop" \in missed') = ("desktop" \in missed)
      BY <3>1
    <3>5. DesktopShown'
      BY <1>0, <2>1, <3>2, <3>4 DEF ScreenInv, DesktopShown
    <3>6. TimeShown'
      BY <3>2 DEF TimeShown
    <3> QED  BY <3>3, <3>5, <3>6
  <2>4. CASE ~ timeRedraw
    <3>1. Goto("testDesktop") /\ missed' = missed /\ "testDesktop" \in Places
      BY <2>1, <2>4 DEF Places
    <3>2. main' \in [at : Places, k : Nat] /\ main'.at = "testDesktop" /\ main'.k = 1
      BY <1>1, <3>1
    <3>3. ScreenTypes'
      BY <1>0, <2>1, <3>2 DEF ScreenInv, ScreenTypes
    <3>4. DesktopShown'
      BY <1>0, <2>1, <3>1, <3>2 DEF ScreenInv, DesktopShown
    <3>5. TimeShown'
      BY <1>0, <2>1, <2>4, <3>1, <3>2 DEF ScreenInv, TimeShown
    <3> QED  BY <3>3, <3>4, <3>5
  <2> QED  BY <2>3, <2>4
<1>6. CASE ClearTime
  <2>1. /\ main.at = "clearTime" /\ timeRedraw' = FALSE /\ Goto("testDesktop")
        /\ UNCHANGED <<desktopRedraw, missed>> /\ "testDesktop" \in Places
    BY <1>6 DEF ClearTime, Places
  <2>2. main' \in [at : Places, k : Nat] /\ main'.at = "testDesktop" /\ main'.k = 1
    BY <1>1, <2>1
  <2>3. ScreenTypes'
    BY <1>0, <2>1, <2>2 DEF ScreenInv, ScreenTypes
  <2>4. DesktopShown'
    BY <1>0, <2>1, <2>2 DEF ScreenInv, DesktopShown
  <2>5. TimeShown'
    BY <1>0, <2>1, <2>2 DEF ScreenInv, TimeShown
  <2> QED  BY <2>3, <2>4, <2>5
<1> QED  BY <1>3, <1>4, <1>5, <1>6

LEMMA DesktopOnScreen ==
  ASSUME ScreenInv, gui' = gui, label' = label, DrawDesktop
  PROVE  ScreenTypes' /\ DesktopShown' /\ TimeShown'
<1> DEFINE D == DesktopStrokes
           k == main.k
           st == D[k]
<1>1. /\ gui \in Gui /\ gui.y[TimeButton[2]] = Start[TimeButton[2]]
      /\ screen \in [Rows -> Cells] /\ label \in Times \union {<<>>}
      /\ label = <<>> => screen \in [Rows -> Plain]
  BY TheTree DEF ScreenInv, ScreenTypes, ClockInv
<1>2. /\ main.at = "drawDesktop"
      /\ screen' = Stroke(screen, gui, label, st)
      /\ IF k = Len(D) THEN Goto("clearDesktop") ELSE main' = [main EXCEPT !.k = @ + 1]
      /\ UNCHANGED <<desktopRedraw, timeRedraw, missed>>
  BY DEF DrawDesktop, Draw
<1>3. k \in 1 .. Len(D) /\ main \in [at : Places, k : Nat]
  BY <1>2 DEF ScreenInv, ScreenTypes
<1>4. /\ D \in Seq(Strokes) /\ D[1] = <<"desktop">> /\ D[Len(D)] = <<"pointer">>
      /\ HourBeforeMinute(D)
  BY DesktopInOrder
<1>5. st \in Strokes
  BY <1>3, <1>4
<1>6. screen' \in [Rows -> Cells] /\ (label' = <<>> => screen' \in [Rows -> Plain])
  BY <1>1, <1>2, <1>5, StrokeType
<1>7. \A r : NoTime(gui, r) /\ Shown(gui, screen, k - 1, r) => Shown(gui, screen', k, r)
  BY <1>1, <1>2, <1>3, ShownNext
<1>8. /\ st[1] = "hour" => HourIs(screen'[Place], label)
      /\ st[1] = "minute" /\ HourIs(screen[Place], label) => TimeIs(screen'[Place], label)
      /\ st[1] \notin {"hour", "minute"} /\ TimeIs(screen[Place], label)
           => TimeIs(screen'[Place], label)
      /\ st = <<"desktop">> => TimeIs(screen'[Place], label)
  BY <1>1, <1>2, <1>5, TimeStroke
<1>9. st[1] = "hour" => k + 1 \in DOMAIN D /\ D[k + 1][1] = "minute"
  <2>1. k \in DOMAIN D
    BY <1>3, <1>4
  <2> HIDE DEF D, k
  <2> QED  BY <1>4, <2>1 DEF HourBeforeMinute
<1>10. \A t : TimeIs(screen'[Place], t) => HourIs(screen'[Place], t)
  BY DEF TimeIs
<1>11. "time" \notin missed /\ ~timeRedraw =>
         /\ HourIs(screen'[Place], label)
         /\ st[1] # "hour" => TimeIs(screen'[Place], label)
  <2> SUFFICES ASSUME "time" \notin missed, ~timeRedraw
               PROVE  /\ HourIs(screen'[Place], label)
                      /\ st[1] # "hour" => TimeIs(screen'[Place], label)
    OBVIOUS
  <2>1. CASE k = 1
    BY <1>4, <1>8, <1>10, <2>1
  <2>2. CASE k > 1
    <3>1. /\ HourIs(screen[Place], label)
          /\ st[1] # "minute" => TimeIs(screen[Place], label)
      BY <1>2, <2>2 DEF ScreenInv, TimeShown
    <3> HIDE DEF st
    <3> QED  BY <1>8, <1>10, <3>1
  <2> QED  BY <1>3, <2>1, <2>2
<1>12. "desktop" \notin missed => \A r : NoTime(gui, r) => Shown(gui, screen', k, r)
  BY <1>2, <1>7 DEF ScreenInv, DesktopShown
<1>13. Len(D) \in Nat
  BY <1>4
<1>14. CASE k = Len(D)
  <2>1. main' = [at |-> "clearDesktop", k |-> 1]
    BY <1>2, <1>14 DEF Goto
  <2>2. main'.at = "clearDesktop" /\ main'.k = 1 /\ main' \in [at : Places, k : Nat]
    BY <2>1 DEF Places
  <2>3. ScreenTypes'
    BY <1>2, <1>6, <2>2 DEF ScreenInv, ScreenTypes
  <2>4. DesktopShown'
    BY <1>2, <1>12, <1>14, <2>2 DEF DesktopShown
  <2>5. st[1] # "hour"
    <3>1. ~ (k + 1 \in DOMAIN D)
      BY <1>4, <1>13, <1>14
    <3> QED  BY <1>9, <3>1
  <2>6. TimeShown'
    BY <1>2, <1>11, <2>2, <2>5 DEF TimeShown
  <2> QED  BY <2>3, <2>4, <2>6
<1>15. CASE k # Len(D)
  <2>1. main' = [main EXCEPT !.k = k + 1]
    BY <1>2, <1>15
  <2>2. main'.at = "drawDesktop" /\ main'.k = k + 1 /\ main' \in [at : Places, k : Nat]
    BY <1>2, <1>3, <2>1
  <2>3. main'.k \in 1 .. Len(DesktopStrokes) /\ main'.k - 1 = k
    BY <1>3, <1>13, <1>15, <2>2
  <2>4. ScreenTypes'
    BY <1>2, <1>6, <2>2, <2>3 DEF ScreenInv, ScreenTypes
  <2>5. DesktopShown'
    BY <1>2, <1>12, <2>2, <2>3 DEF DesktopShown
  <2>6. TimeShown'
    <3>1. D[main'.k] = D[k + 1]
      BY <2>2
    <3>2. "time" \notin missed' /\ ~timeRedraw' =>
            /\ HourIs(screen'[Place], label')
            /\ D[main'.k][1] # "minute" => TimeIs(screen'[Place], label')
      BY <1>2, <1>9, <1>11, <3>1
    <3> QED  BY <2>2, <3>2 DEF TimeShown
  <2> QED  BY <2>4, <2>5, <2>6
<1> QED  BY <1>14, <1>15

LEMMA TimeOnScreen ==
  ASSUME ScreenInv, gui' = gui, label' = label, DrawTime
  PROVE  ScreenTypes' /\ DesktopShown' /\ TimeShown'
<1> DEFINE k == main.k
           st == TimeStrokes[k]
<1>1. /\ gui \in Gui /\ gui.y[TimeButton[2]] = Start[TimeButton[2]]
      /\ screen \in [Rows -> Cells] /\ label \in Times \union {<<>>}
      /\ label = <<>> => screen \in [Rows -> Plain]
  BY TheTree DEF ScreenInv, ScreenTypes, ClockInv
<1>2. /\ main.at = "drawTime"
      /\ screen' = Stroke(screen, gui, label, st)
      /\ IF k = 3 THEN Goto("clearTime") ELSE main' = [main EXCEPT !.k = @ + 1]
      /\ UNCHANGED <<desktopRedraw, timeRedraw, missed>>
  BY TimeInOrder DEF DrawTime, Draw
<1>3. k \in 1 .. 3 /\ main \in [at : Places, k : Nat]
  BY <1>2 DEF ScreenInv, ScreenTypes
<1>4. st \in Strokes
  BY <1>3, TimeInOrder
<1>5. screen' \in [Rows -> Cells] /\ (label' = <<>> => screen' \in [Rows -> Plain])
  BY <1>1, <1>2, <1>4, StrokeType
<1>6. ASSUME NEW r, NoTime(gui, r) PROVE screen'[r] = screen[r]
  <2>1. CASE k = 1
    <3>1. st[1] \notin {"hour", "minute"} /\ ~ Paints(gui, st, r)
      BY <1>6, <2>1, TimeInOrder
    <3>2. Stroke(screen, gui, label, st) = Repainted(screen, gui, st)
      BY <1>1, <1>4, <3>1, Painting
    <3>3. r \in Rows
      BY <1>6 DEF NoTime
    <3> HIDE DEF st
    <3> QED  BY <1>2, <3>1, <3>2, <3>3 DEF Repainted
  <2>2. CASE k # 1
    <3>1. k \in {2, 3}
      BY <1>3, <2>2
    <3>2. st[1] \in {"hour", "minute"}
      BY <3>1, TimeInOrder
    <3> HIDE DEF st
    <3>3. Stroke(screen, gui, label, st)[r] = screen[r]
      <4>1. Drawing(screen, gui, label)
        BY <1>1 DEF Drawing
      <4> QED  BY <1>4, <1>6, <3>2, <4>1, TimeKept
    <3> QED  BY <1>2, <3>3
  <2> QED  BY <2>1, <2>2
<1>7. \A n : \A r : NoTime(gui, r) /\ Shown(gui, screen, n, r) => Shown(gui, screen', n, r)
  BY <1>6 DEF Shown
<1>8. /\ st[1] = "hour" => HourIs(screen'[Place], label)
      /\ st[1] = "minute" /\ HourIs(screen[Place], label) => TimeIs(screen'[Place], label)
  BY <1>1, <1>2, <1>4, TimeStroke
<1>9. "desktop" \notin missed /\ ~desktopRedraw =>
        \A r : NoTime(gui, r) => Shown(gui, screen', Len(DesktopStrokes), r)
  BY <1>2, <1>7 DEF ScreenInv, DesktopShown
<1>10. CASE k = 3
  <2>1. main' = [at |-> "clearTime", k |-> 1]
    BY <1>2, <1>10 DEF Goto
  <2>2. main'.at = "clearTime" /\ main'.k = 1 /\ main' \in [at : Places, k : Nat]
    BY <2>1 DEF Places
  <2>3. ScreenTypes'
    BY <1>2, <1>5, <2>2 DEF ScreenInv, ScreenTypes
  <2>4. DesktopShown'
    BY <1>2, <1>9, <2>2 DEF DesktopShown
  <2>5. "time" \notin missed => TimeIs(screen'[Place], label)
    <3>1. st[1] = "minute"
      BY <1>10, TimeInOrder
    <3>2. "time" \notin missed => HourIs(screen[Place], label)
      BY <1>2, <1>10 DEF ScreenInv, TimeShown
    <3> QED  BY <1>8, <3>1, <3>2
  <2>6. TimeShown'
    BY <1>2, <2>2, <2>5 DEF TimeShown
  <2> QED  BY <2>3, <2>4, <2>6
<1>11. CASE k # 3
  <2>1. main' = [main EXCEPT !.k = k + 1]
    BY <1>2, <1>11
  <2>2. main'.at = "drawTime" /\ main'.k = k + 1 /\ main' \in [at : Places, k : Nat]
    BY <1>2, <1>3, <2>1
  <2>3. main'.k \in 1 .. 3
    BY <1>3, <1>11, <2>2
  <2>4. ScreenTypes'
    BY <1>2, <1>5, <2>2, <2>3 DEF ScreenInv, ScreenTypes
  <2>5. DesktopShown'
    BY <1>2, <1>9, <2>2 DEF DesktopShown
  <2>6. main'.k = 3 => HourIs(screen'[Place], label)
    <3>1. main'.k = 3 => k = 2
      BY <1>3, <2>2
    <3>2. k = 2 => st[1] = "hour"
      BY TimeInOrder
    <3> QED  BY <1>8, <3>1, <3>2
  <2>7. TimeShown'
    BY <1>2, <2>2, <2>6 DEF TimeShown
  <2> QED  BY <2>4, <2>5, <2>7
<1> QED  BY <1>10, <1>11

LEMMA ScreenInvNext ==
  ASSUME ScreenInv, [ScreenNext]_screenVars
  PROVE  ScreenInv'
<1>1. MouseInv' /\ ClockInv'
  BY MouseInvNext, ClockInvNext DEF ScreenInv
<1>2. CASE MouseInterrupt
  BY <1>1, <1>2, MouseOnScreen DEF ScreenInv
<1>3. CASE ClockInterrupt
  BY <1>1, <1>3, ClockOnScreen DEF ScreenInv
<1>4. CASE MainLoop
  <2>1. gui' = gui /\ label' = label
    BY <1>4 DEF MainLoop
  <2>2. CASE TestDesktop \/ ClearDesktop \/ TestTime \/ ClearTime
    BY <1>1, <2>1, <2>2, TestsOnScreen DEF ScreenInv
  <2>3. CASE DrawDesktop
    BY <1>1, <2>1, <2>3, DesktopOnScreen DEF ScreenInv
  <2>4. CASE DrawTime
    BY <1>1, <2>1, <2>4, TimeOnScreen DEF ScreenInv
  <2> QED  BY <1>4, <2>2, <2>3, <2>4 DEF MainLoop
<1>5. CASE KeyInterrupt \/ MouseSends \/ ByteLost \/ ClockTicks \/ UNCHANGED screenVars
  <2>1. UNCHANGED <<gui, desktopRedraw, timeRedraw, label, screen, main, missed>>
    BY <1>5 DEF KeyInterrupt, MouseSends, ByteLost, ClockTicks, screenVars, clockVars
  <2>2. ScreenTypes' /\ DesktopShown' /\ TimeShown'
    BY <2>1 DEF ScreenInv, ScreenTypes, DesktopShown, TimeShown
  <2> QED  BY <1>1, <2>2 DEF ScreenInv
<1> QED  BY <1>2, <1>3, <1>4, <1>5 DEF ScreenNext

THEOREM ScreenInvariant == ScreenSpec => []ScreenInv
<1>1. ScreenInv /\ [ScreenNext]_screenVars => ScreenInv'
  BY ScreenInvNext
<1> QED  BY ScreenInvInit, <1>1, PTL DEF ScreenSpec

(***************************************************************************)
(* The time on the screen is the one of the last change, its hour and its  *)
(* minute, whenever nothing is left to draw; and it is the clock's as long *)
(* as the minute is.  For every tree, every size of the screen and every   *)
(* interleaving of clock and mouse with the strokes of the main loop.      *)
(***************************************************************************)
THEOREM ClockShowsTimeAlways == ScreenSpec => []ClockShowsTime
<1>1. ASSUME ScreenInv PROVE ClockShowsTime
  <2>1. label # <<>> /\ label[2] = clock[2] => label[1] = clock[1]
    BY <1>1 DEF ScreenInv, ClockInv
  <2>2. LabelRow(gui, TimeButton[2]) = Place /\ Place \in Rows
    BY <1>1, TheTree, LayoutAssumption DEF ScreenInv, LabelRow, Place
  <2>3. ASSUME Settled, screen[Place][1] = "label" PROVE Tail(screen[Place]) = label
    <3>1. TimeIs(screen[Place], label)
      BY <1>1, <2>3 DEF Settled, ScreenInv, TimeShown
    <3>2. screen[Place] \in Written
      BY <1>1, <2>2, <2>3, PlainCells DEF ScreenInv, ScreenTypes
    <3>3. PICK h \in 0 .. 23, m \in (0 .. 59) \union {Blank} : screen[Place] = <<"label", h, m>>
      <4> DEFINE cell == screen[Place]
      <4> HIDE DEF cell
      <4>1. cell \in Written => \E h \in 0 .. 23, m \in (0 .. 59) \union {Blank} :
                                   cell = <<"label", h, m>>
        BY DEF Written
      <4> QED  BY <3>2, <4>1 DEF cell
    <3>4. label # <<>> /\ label[1] = h /\ label[2] = m
      BY <2>3, <3>1, <3>3 DEF TimeIs, HourIs
    <3>5. label = <<h, m>>
      <4>1. label \in Times
        BY <1>1, <3>4 DEF ScreenInv, ClockInv
      <4> QED  BY <3>4, <4>1 DEF Times
    <3>6. Tail(<<"label", h, m>>) = <<h, m>>
      OBVIOUS
    <3> QED  BY <3>3, <3>5, <3>6
  <2> QED  BY <2>1, <2>2, <2>3 DEF ClockShowsTime
<1> QED  BY <1>1, ScreenInvariant, PTL

-----------------------------------------------------------------------------
(* Drawing against routing. *)

(* A widget that paints a row, other than the time's, is reached there,    *)
(* and its window with it.                                                 *)
LEMMA PartReached ==
  ASSUME MouseInv, NEW c \in Top, NEW w \in PartsOf(c), NEW r, NoTime(gui, r),
         Paints(gui, <<"part", c, w>>, r)
  PROVE  /\ c \in Windows /\ w \notin Buttons
         /\ ContainsCoordinate(gui, w, r - gui.y[c])
         /\ ContainsCoordinate(gui, c, r)
<1> DEFINE st == <<"part", c, w>>
<1>1. Filled(ScreenY(gui, c, w), Height[w], r)
  BY DEF Paints
<1>2. gui \in Gui /\ r \in Rows
  BY TheTree DEF NoTime
<1>3. c \in Widgets /\ w \in Widgets /\ w \notin Windows
  BY TreeAssumption DEF Widgets
<1>4. gui.y[c] \in Int /\ gui.y[w] \in Int /\ gui.y[w] = Start[w]
  BY <1>2, <1>3 DEF MouseInv, Scene, Still, Gui
<1>5. r \in Int /\ Height[c] \in Nat /\ Height[w] \in Nat
  BY <1>2, <1>3, HeightsAssumption DEF Rows
<1>6. w \notin Buttons
  <2> SUFFICES ASSUME w \in Buttons PROVE FALSE
    OBVIOUS
  <2>1. w = TimeButton[2]
    BY LayoutAssumption
  <2>2. ScreenY(gui, c, w) = gui.y[w]
    BY DEF ScreenY
  <2>3. ContainsCoordinate(gui, TimeButton[2], r)
    BY <1>1, <2>1, <2>2 DEF Filled, ContainsCoordinate
  <2> QED  BY <2>3 DEF NoTime
<1>7. c \in Windows
  BY <1>6, ToolbarAssumption
<1>8. gui.y[c] + gui.y[w] <= r /\ r < gui.y[c] + gui.y[w] + Height[w]
  BY <1>1, <1>6 DEF Filled, ScreenY, ModelToScreen
<1>9. 0 <= gui.y[w] /\ gui.y[w] + Height[w] <= Height[c]
  BY <1>4, <1>7, LayoutAssumption
<1>10. ContainsCoordinate(gui, w, r - gui.y[c]) /\ ContainsCoordinate(gui, c, r)
  BY <1>4, <1>5, <1>8, <1>9 DEF ContainsCoordinate
<1> QED  BY <1>6, <1>7, <1>10

(* Of a child that is not there, only a line can be.                       *)
LEMMA OutsideChild ==
  ASSUME MouseInv, NEW c \in Top, NEW st \in ChildSet(c), NEW r, NoTime(gui, r),
         Paints(gui, st, r), ~ ContainsCoordinate(gui, c, r)
  PROVE  Colour(gui, st, r) = <<"line">>
<1>1. CASE st = <<"child", c>>
  <2>1. st[1] = "child" /\ st[2] = c
    BY <1>1
  <2>2. ~ Filled(gui.y[c], Height[c], r)
    BY DEF Filled, ContainsCoordinate
  <2> QED  BY <2>1, <2>2 DEF Colour
<1>2. CASE st \in PartSet(c)
  <2>1. PICK kind \in {"part", "hour", "minute"}, w \in PartsOf(c) : st = <<kind, c, w>>
    BY <1>2 DEF PartSet
  <2>2. kind = "part"
    BY <2>1 DEF Paints
  <2>3. Paints(gui, <<"part", c, w>>, r)
    BY <2>1, <2>2
  <2> QED  BY <2>3, PartReached
<1> QED  BY <1>1, <1>2 DEF ChildSet

(* The stroke that painted a row last is of what a click there reaches.    *)
LEMMA LastIsReached ==
  ASSUME MouseInv, NEW r, NoTime(gui, r), ~ PointerAt(r), ~ NotPainted(r),
         NEW j \in 1 .. Len(DesktopStrokes),
         LastPainter(gui, Len(DesktopStrokes), r, j)
  PROVE  Colour(gui, DesktopStrokes[j], r)[1] \in {Reached(r), "line"}
<1> DEFINE D == DesktopStrokes
           n == Len(D)
           st == D[j]
           c == ChildAt(gui, r)
           w == IF c = None THEN None ELSE PartAt(gui, c, r)
<1>1. /\ D \in Seq(Strokes) /\ DOMAIN D = 1 .. n /\ n \in Nat
  BY DesktopInOrder
<1>2. st \in Strokes /\ Paints(gui, st, r) /\ \A q \in 1 .. n : Paints(gui, D[q], r) => q <= j
  BY <1>1 DEF LastPainter
<1>3. st # <<"pointer">>
  <2>1. st = <<"pointer">> => st[1] = "pointer"
    OBVIOUS
  <2> QED  BY <1>2, <2>1 DEF Paints, PointerAt
<1>4. Children \in Seq(Top) /\ \A i \in DOMAIN Children : Children[i] \in Top
  BY TreeAssumption
<1>5. gui \in Gui /\ r \in Rows /\ r \in Int
  BY TheTree DEF NoTime, Rows
<1>6. /\ c = None => Reached(r) = "desktop"
      /\ c # None /\ (w = None \/ w \in Buttons) => Reached(r) = c
      /\ c # None /\ ~ (w = None \/ w \in Buttons) => Reached(r) = w
  BY DEF Reached
<1>7. ASSUME NEW x, NEW V, NEW p \in DOMAIN D, D[p] = x, Paints(gui, x, r),
             \A q \in DOMAIN D : q > p => D[q] \in V
      PROVE  st = x \/ st \in V
  <2>1. p <= j /\ p \in Nat /\ j \in Nat /\ j \in DOMAIN D
    BY <1>1, <1>2, <1>7
  <2>2. CASE p = j
    BY <1>7, <2>2
  <2>3. CASE p # j
    BY <1>7, <2>1, <2>3
  <2> QED  BY <2>2, <2>3
<1>8. ASSUME NEW x, NEW V, On(D, x, V), Paints(gui, x, r)
      PROVE  st = x \/ st \in V
  <2> HIDE DEF D, st
  <2>1. PICK p \in DOMAIN D : D[p] = x /\ \A q \in DOMAIN D : q > p => D[q] \in V
    BY <1>8 DEF On
  <2> QED  BY <1>7, <1>8, <2>1
<1> HIDE DEF D, n, st, c
<1>9. CASE c = None
  <2>1. \A i \in DOMAIN Children : ~ ContainsCoordinate(gui, Children[i], r)
    <3>1. None \notin Top
      BY TreeAssumption DEF Widgets
    <3> QED  BY <1>4, <1>9, <3>1, FirstHit DEF ChildAt, c
  <2>2. CASE st = <<"desktop">>
    <3>1. Colour(gui, st, r) = <<"desktop">>
      BY <2>2 DEF Colour
    <3> QED  BY <1>6, <1>9, <3>1 DEF st, D
  <2>3. CASE st \in Inner
    <3>1. PICK d \in Top : st \in ChildSet(d)
      BY <2>3 DEF Inner
    <3>2. ~ ContainsCoordinate(gui, d, r)
      BY <2>1 DEF Top
    <3>3. Colour(gui, st, r) = <<"line">>
      BY <1>2, <3>1, <3>2, OutsideChild
    <3> QED  BY <3>3 DEF st, D
  <2> QED  BY <1>2, <1>3, <2>2, <2>3 DEF Strokes
<1>10. CASE c # None
  <2>1. PICK a \in DOMAIN Children :
          /\ c = Children[a]
          /\ ContainsCoordinate(gui, Children[a], r)
          /\ \A b \in DOMAIN Children : b < a => ~ ContainsCoordinate(gui, Children[b], r)
    BY <1>4, <1>10, FirstHit DEF ChildAt, c
  <2>2. c \in Top /\ c \in Widgets
    BY <1>4, <2>1 DEF Widgets
  <2>3. gui.y[c] \in Int /\ gui.y[c] >= 0
    <3>1. gui.y[c] \in Int
      BY <1>5, <2>2 DEF Gui
    <3>2. ~ (gui.y[c] < 0)
      BY <2>1, <2>2 DEF NotPainted
    <3> QED  BY <3>1, <3>2
  <2>4. ASSUME st \in ChildrenOver(a) PROVE Colour(gui, st, r) = <<"line">>
    <3>1. PICK b \in DOMAIN Children : b < a /\ st \in ChildSet(Children[b])
      BY <2>4 DEF ChildrenOver
    <3>2. Children[b] \in Top /\ ~ ContainsCoordinate(gui, Children[b], r)
      BY <1>4, <2>1, <3>1
    <3> QED  BY <1>2, <3>1, <3>2, OutsideChild
  <2>5. ASSUME NEW v \in PartsOf(c), st = <<"part", c, v>>
        PROVE  c \in Windows /\ ContainsCoordinate(gui, v, r - gui.y[c])
    BY <1>2, <2>2, <2>5, PartReached
  <2>6. ASSUME st \in PartSet(c) PROVE \E v \in PartsOf(c) : st = <<"part", c, v>>
    <3>1. PICK kind \in {"part", "hour", "minute"}, v \in PartsOf(c) : st = <<kind, c, v>>
      BY <2>6 DEF PartSet
    <3>2. kind = "part"
      BY <1>2, <3>1 DEF Paints
    <3> QED  BY <3>1, <3>2
  <2>7. Parts[c] \in Seq(PartsOf(c))
    BY <2>2, TreeAssumption
  <2> DEFINE list == Parts[c]
             S == PartsOf(c)
             z == r - gui.y[c]
  <2>8. w = FirstAt(gui, list, z)
    BY <1>10 DEF PartAt
  <2>9. None \notin S
    BY <2>2, TreeAssumption DEF Widgets
  <2>10. \A i \in DOMAIN list : list[i] \in S
    BY <2>7
  <2>11. \A v \in S : \E i \in DOMAIN list : v = list[i]
    BY DEF PartsOf
  <2> HIDE DEF list, S, z, w
  <2>12. \/ w = None /\ \A i \in DOMAIN list : ~ ContainsCoordinate(gui, list[i], z)
         \/ \E i \in DOMAIN list :
              /\ w = list[i] /\ ContainsCoordinate(gui, list[i], z)
              /\ \A k \in DOMAIN list : k < i => ~ ContainsCoordinate(gui, list[k], z)
    <3>1. list \in Seq(S)
      BY <2>7 DEF list, S
    <3> QED  BY <2>8, <3>1, FirstHit
  <2>13. CASE w = None \/ w \in Buttons
    <3>1. Reached(r) = c
      BY <1>6, <1>10, <2>13
    <3>2. On(D, <<"child", c>>, Over(PartSet(c) \union ChildrenOver(a)))
      BY <2>1, DesktopInOrder DEF D
    <3>3. Paints(gui, <<"child", c>>, r)
      BY <2>1, <2>3 DEF Paints, Filled, ContainsCoordinate
    <3>4. st = <<"child", c>> \/ st \in PartSet(c) \/ st \in ChildrenOver(a)
      <4>1. st = <<"child", c>> \/ st \in Over(PartSet(c) \union ChildrenOver(a))
        BY <1>8, <3>2, <3>3
      <4> QED  BY <1>3, <4>1 DEF Over
    <3>5. CASE st = <<"child", c>>
      <4>1. Filled(gui.y[c], Height[c], r)
        BY <2>1, <2>3 DEF Filled, ContainsCoordinate
      <4>2. Colour(gui, st, r) = <<c>>
        BY <3>5, <4>1 DEF Colour
      <4> QED  BY <3>1, <4>2 DEF st, D
    <3>6. CASE st \in PartSet(c)
      <4>1. PICK v \in PartsOf(c) : st = <<"part", c, v>>
        BY <2>6, <3>6
      <4>2. c \in Windows /\ ContainsCoordinate(gui, v, z)
        BY <2>5, <4>1 DEF z
      <4>3. w = None
        <5>1. w \in Buttons => w \in S
          <6>1. None \notin Buttons
            BY LayoutAssumption, TreeAssumption DEF Widgets
          <6> QED  BY <2>10, <2>12, <6>1
        <5>2. \A x \in S : x \notin Buttons
          BY <4>2, LayoutAssumption DEF S
        <5> QED  BY <2>13, <5>1, <5>2
      <4>4. \A i \in DOMAIN list : ~ ContainsCoordinate(gui, list[i], z)
        BY <2>9, <2>10, <2>12, <4>3
      <4> QED  BY <2>11, <4>2, <4>4 DEF S
    <3>7. CASE st \in ChildrenOver(a)
      <4>1. Colour(gui, st, r) = <<"line">>
        BY <2>4, <3>7
      <4> QED  BY <4>1 DEF st, D
    <3> QED  BY <3>4, <3>5, <3>6, <3>7
  <2>14. CASE ~ (w = None \/ w \in Buttons)
    <3>1. Reached(r) = w
      BY <1>6, <1>10, <2>14
    <3>2. PICK m \in DOMAIN list :
            /\ w = list[m] /\ ContainsCoordinate(gui, list[m], z)
            /\ \A k \in DOMAIN list : k < m => ~ ContainsCoordinate(gui, list[k], z)
      BY <2>12, <2>14
    <3>3. w \in S /\ w \in Widgets
      BY <2>2, <2>10, <3>2 DEF S, Widgets
    <3>4. On(D, <<"part", c, w>>, Over(PartsOver(c, m) \union ChildrenOver(a)))
      BY <2>1, <3>2, DesktopInOrder DEF D, list
    <3>5. Paints(gui, <<"part", c, w>>, r)
      <4>1. gui.y[w] \in Int
        BY <1>5, <3>3 DEF Gui
      <4>2. ScreenY(gui, c, w) = gui.y[c] + gui.y[w]
        BY <2>14 DEF ScreenY, ModelToScreen
      <4>3. ~ (ScreenY(gui, c, w) < 0)
        BY <2>2, <3>2, <3>3 DEF NotPainted, S, z
      <4>4. gui.y[w] <= r - gui.y[c] /\ r - gui.y[c] < gui.y[w] + Height[w]
        BY <3>2 DEF ContainsCoordinate, z
      <4>5. Height[w] \in Nat
        BY <3>3, HeightsAssumption
      <4>6. Filled(ScreenY(gui, c, w), Height[w], r)
        BY <1>5, <2>3, <4>1, <4>2, <4>3, <4>4, <4>5 DEF Filled
      <4> QED  BY <4>6 DEF Paints
    <3>6. st = <<"part", c, w>> \/ st \in PartsOver(c, m) \/ st \in ChildrenOver(a)
      <4>1. st = <<"part", c, w>> \/ st \in Over(PartsOver(c, m) \union ChildrenOver(a))
        BY <1>8, <3>4, <3>5
      <4> QED  BY <1>3, <4>1 DEF Over
    <3>7. CASE st = <<"part", c, w>>
      <4>1. Colour(gui, st, r) = <<w>>
        BY <3>7 DEF Colour
      <4> QED  BY <3>1, <4>1 DEF st, D
    <3>8. CASE st \in PartsOver(c, m)
      <4>1. st \in PartSet(c)
        BY <3>8 DEF PartsOver
      <4>2. PICK v \in PartsOf(c) : st = <<"part", c, v>>
        BY <2>6, <4>1
      <4>3. st[1] = "part" /\ st[3] = v
        BY <4>2
      <4>4. PICK k \in DOMAIN list : k < m /\ v = list[k]
        BY <3>8, <4>3 DEF PartsOver, list
      <4>5. ContainsCoordinate(gui, v, z)
        BY <2>5, <4>2 DEF z
      <4> QED  BY <3>2, <4>4, <4>5
    <3>9. CASE st \in ChildrenOver(a)
      <4>1. Colour(gui, st, r) = <<"line">>
        BY <2>4, <3>9
      <4> QED  BY <4>1 DEF st, D
    <3> QED  BY <3>6, <3>7, <3>8, <3>9
  <2> QED  BY <2>13, <2>14
<1> QED  BY <1>9, <1>10

(***************************************************************************)
(* What a row shows is what a click there reaches, for every tree of       *)
(* windows, toolbars and widgets, and however packets of the mouse and the *)
(* strokes of a drawing interleave, once nothing is left to draw.          *)
(***************************************************************************)
THEOREM ClickGoesWhereShownAlways == ScreenSpec => []ClickGoesWhereShown
<1>1. ASSUME ScreenInv PROVE ClickGoesWhereShown
  <2> SUFFICES ASSUME Settled, NEW r \in Rows, ~ TimeRow(r)
               PROVE  IF PointerAt(r) THEN screen[r] = <<"pointer">>
                      ELSE \/ screen[r][1] \in {Reached(r), "line"}
                           \/ NotPainted(r)
    BY DEF ClickGoesWhereShown
  <2> DEFINE D == DesktopStrokes
             n == Len(D)
  <2>1. MouseInv /\ NoTime(gui, r)
    BY <1>1 DEF ScreenInv, NoTime, TimeRow
  <2>2. n \in Nat /\ n >= 2 /\ D[n] = <<"pointer">>
    BY DesktopInOrder
  <2>3. Shown(gui, screen, n, r)
    BY <1>1, <2>1 DEF Settled, ScreenInv, DesktopShown
  <2>4. PICK j \in 1 .. n : LastPainter(gui, n, r, j) /\ screen[r] = Colour(gui, D[j], r)
    BY <2>2, <2>3 DEF Shown
  <2>5. CASE PointerAt(r)
    <3>1. Paints(gui, D[n], r)
      BY <2>2, <2>5 DEF Paints, PointerAt
    <3>2. j = n
      BY <2>2, <2>4, <3>1 DEF LastPainter
    <3>3. Colour(gui, <<"pointer">>, r) = <<"pointer">>
      BY DEF Colour
    <3> QED  BY <2>2, <2>4, <2>5, <3>2, <3>3
  <2>6. CASE ~ PointerAt(r)
    <3>1. CASE ~ NotPainted(r)
      <4>1. Colour(gui, D[j], r)[1] \in {Reached(r), "line"}
        BY <2>1, <2>4, <2>6, <3>1, LastIsReached
      <4> QED  BY <2>4, <2>6, <4>1
    <3> QED  BY <2>6, <3>1
  <2> QED  BY <2>5, <2>6
<1> QED  BY <1>1, ScreenInvariant, PTL
=============================================================================
