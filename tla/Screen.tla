------------------------------- MODULE Screen -------------------------------
(***************************************************************************)
(* The user's side of the kernel: the interrupt handlers of mouse,         *)
(* keyboard and real-time clock, which change the widget tree, the time    *)
(* and the two redraw flags, and the loop at the end of kernelMain, which  *)
(* tests a flag, draws and clears the flag.  A handler may come between    *)
(* any two strokes of a drawing and then runs to its end.                  *)
(*                                                                         *)
(* The devices are external: a mouse that sends packets of three bytes and *)
(* may lose one, a keyboard, and a clock that ticks, once a minute, at any *)
(* time, also between two reads of its registers.                          *)
(***************************************************************************)
EXTENDS Widgets

CONSTANTS
  Movements,   \* what the mouse may be moved by, upwards, per packet
  ButtonStates,\* which buttons the user holds: bit i for button i+1
  ScanCodes,   \* what the keyboard sends
  Letters,     \* the codes for which the driver has a letter
  TimeButton,  \* the widget with the time, as <<toolbar, button>>
  Mornings,    \* the times at which the machine may start, <<hour, minute>>
  MaxEvents    \* bounds packets, lost bytes and ticks of the clock together

ASSUME InputsAssumption ==
  /\ Movements \subseteq -256 .. 255
  /\ ButtonStates \subseteq 0 .. 7
  /\ Mornings \subseteq (0 .. 23) \X (0 .. 59)

\* kernelMain's only button shows the time, in a toolbar and on the screen;
\* and the widgets of a window lie in it.
ASSUME LayoutAssumption ==
  /\ TimeButton[1] \in Top \ Windows /\ TimeButton[2] \in PartsOf(TimeButton[1])
  /\ Buttons = {TimeButton[2]}
  /\ Start[TimeButton[2]] + Height[TimeButton[2]] \div 2 \in Rows
  /\ \A c \in Windows : \A w \in PartsOf(c) :
       w \notin Buttons /\ 0 <= Start[w] /\ Start[w] + Height[w] <= Height[c]
  /\ "label" \notin Widgets

VARIABLES
  gui,            \* the widget tree
  desktopRedraw,  \* the redraw flags of the desktop and of the time button
  timeRedraw,
  buttons, buffer, \* the mouse driver; buffer holds the bytes before offset
  lastMinute,     \* the clock driver
  label,          \* timeString: <<>> or <<hour, minute>>
  screen,         \* what the user sees
  main,           \* [at, k]: the place of the main loop, and the stroke it draws next
  wire,           \* the bytes of a packet that have not been read yet
  clock,          \* the time in the clock's registers
  sampled,        \* the driver has looked at the clock since its last tick
  events,  \* counts them, for the bound
  (*************************************************************************)
  (* What an observer knows.                                               *)
  (*************************************************************************)
  held,    \* the buttons the user holds
  slipped, \* a byte was lost, or the driver took the mouse's acknowledgement for data
  missed,  \* what was to be redrawn again while it was being drawn
  grab,    \* how far below a window's first row the user took hold of it
  astray,  \* windows that were dragged while another one was on top of them
  clicked, \* the last plain widget the user pressed a button on
  typed    \* the widget the letters since the last click went to, or "nothing"

mouseVars == <<buttons, buffer>>
clockVars == <<lastMinute, label, timeRedraw, clock, sampled>>
deviceVars == <<wire, held, slipped>>
userVars == <<grab, astray, clicked, typed>>
screenVars == <<gui, desktopRedraw, mouseVars, clockVars, screen, main, deviceVars,
                userVars, missed, events>>

TimeStrokes == ButtonStrokes(TimeButton[1], TimeButton[2])

Byte == 0 .. 255

\* A register of the clock holds two decimal digits, four bits each.
Registers(n) == (n \div 10) * 16 + (n % 10)
GetBCDValue(v) == (v \div 16) * 10 + (v % 16)

Tick(t) ==
  IF t[2] < 59 THEN <<t[1], t[2] + 1>> ELSE <<(t[1] + 1) % 24, 0>>

\* A byte read as a signed one.
Int8(b) == IF b < 128 THEN b ELSE b - 256
Bit(b, i) == (b \div <<1, 2, 4>>[i + 1]) % 2

-----------------------------------------------------------------------------
(***************************************************************************)
(* kernelMain draws the desktop before it turns interrupts on.  The redraw *)
(* flags are never initialised.  Activate reads one byte after it told the *)
(* mouse to start: the acknowledgement, or what was there before, and then *)
(* the acknowledgement 0xFA is the first byte an interrupt brings.         *)
(***************************************************************************)
DrawAll(s, g, t, strokes) ==
  LET after[i \in 0 .. Len(strokes)] ==
        IF i = 0 THEN s ELSE Stroke(after[i-1], g, t, strokes[i])
  IN  after[Len(strokes)]

ScreenInit ==
  /\ gui = InitialGui
  /\ desktopRedraw \in BOOLEAN
  /\ timeRedraw \in BOOLEAN
  /\ buttons = 0 /\ buffer = <<>>
  /\ lastMinute = 0
  /\ label = <<>>
  /\ screen = DrawAll([r \in Rows |-> <<"desktop">>], InitialGui, <<>>,
                     DesktopStrokes)
  /\ main = [at |-> "testDesktop", k |-> 1]
  /\ \/ wire = <<>> /\ slipped = FALSE
     \/ wire = <<250>> /\ slipped = TRUE
  /\ clock \in Mornings
  /\ sampled = FALSE
  /\ events = 0
  /\ held = 0
  /\ missed = {}
  /\ grab = [w \in Windows |-> 0]
  /\ astray = {}
  /\ clicked = None
  /\ typed = "nothing"

-----------------------------------------------------------------------------
(* What a mouse event does to the tree, and what the user makes of it. *)

Scene ==
  [gui |-> gui, grab |-> grab, astray |-> astray, clicked |-> clicked, typed |-> typed]

\* Windows in the user's hand that the event at the pointer does not reach.
PassedOver(s) ==
  {w \in Windows : s.gui.dragging[w] /\ ChildAt(s.gui, s.gui.mouseY) # w}

Moved(s, distance) ==
  [s EXCEPT !.gui = OnMouseMove(@, distance), !.astray = @ \union PassedOver(s)]

Pressed(s, button) ==
  LET c == ChildAt(s.gui, s.gui.mouseY)
      w == IF c = None THEN None ELSE PartAt(s.gui, c, s.gui.mouseY)
  IN  [s EXCEPT !.gui = OnMouseDown(@, button),
                !.grab = IF c \in Windows
                         THEN [@ EXCEPT ![c] = s.gui.mouseY - s.gui.y[c]] ELSE @,
                !.astray = (@ \ {c}) \union PassedOver(s),
                !.clicked = IF w = None \/ w \in Buttons THEN @ ELSE w,
                !.typed = "nothing"]

Released(s, button) ==
  [s EXCEPT !.gui = OnMouseUp(@, button), !.astray = @ \union PassedOver(s)]

\* The driver compares each button with what it was.
Compared(s, old, new, i) ==
  CASE Bit(new, i) = Bit(old, i) -> s
    [] Bit(new, i) < Bit(old, i) -> Released(s, i + 1)
    [] Bit(new, i) > Bit(old, i) -> Pressed(s, i + 1)

Compare(s, old, new) ==
  Compared(Compared(Compared(s, old, new, 0), old, new, 1), old, new, 2)

\* A request to draw again what is being drawn.
Overtaken(what, states) == IF main.at \in states THEN missed \union {what} ELSE missed

\* The third byte makes a packet.
Packet(bytes) ==
  LET s == Compare(Moved(Scene, -Int8(bytes[3])), buttons, bytes[1]) IN
  /\ gui' = s.gui
  /\ grab' = s.grab
  /\ astray' = s.astray
  /\ clicked' = s.clicked
  /\ typed' = s.typed
  /\ buttons' = bytes[1]
  /\ desktopRedraw' = TRUE
  /\ missed' = Overtaken("desktop", {"drawDesktop", "clearDesktop"})

MouseInterrupt ==
  /\ wire # <<>>
  /\ wire' = Tail(wire)
  /\ LET bytes == Append(buffer, Head(wire)) IN
     IF Len(bytes) = 3 THEN buffer' = <<>> /\ Packet(bytes)
     ELSE buffer' = bytes /\ UNCHANGED <<gui, userVars, buttons, desktopRedraw, missed>>
  /\ UNCHANGED <<clockVars, screen, main, held, slipped, events>>

\* Only codes of pressed keys for which the driver has a letter go on.
KeyInterrupt ==
  /\ \E code \in ScanCodes :
       /\ code < 128
       /\ code \in Letters
       /\ typed' = KeyTarget(gui)
  /\ UNCHANGED <<gui, desktopRedraw, mouseVars, clockVars, screen, main, deviceVars,
                 grab, astray, clicked, missed, events>>

(***************************************************************************)
(* readCurrentTime reads the minute and then the hour; the clock may tick  *)
(* in between.                                                             *)
(***************************************************************************)
OnTimeChange(time) ==
  /\ label' = time
  /\ timeRedraw' = TRUE
  /\ missed' = Overtaken("time", {"drawTime", "clearTime"})

\* The hour read first, for a mutant.
HourFirst(before, after) ==
  <<GetBCDValue(Registers(before[1])), GetBCDValue(Registers(after[2]))>>

ReadCurrentTime(before, after) ==
  <<GetBCDValue(Registers(after[1])), GetBCDValue(Registers(before[2]))>>

ClockInterrupt ==
  /\ \E later \in {clock, Tick(clock)} :
       LET time == ReadCurrentTime(clock, later) IN
       /\ later = clock \/ events < MaxEvents
       /\ clock' = later
       /\ events' = IF later = clock THEN events ELSE events + 1
       /\ sampled' = (later = clock)
       /\ lastMinute' = time[2]
       /\ IF time[2] # lastMinute THEN OnTimeChange(time)
          ELSE UNCHANGED <<label, timeRedraw, missed>>
  /\ UNCHANGED <<gui, desktopRedraw, mouseVars, screen, main, deviceVars, userVars>>

-----------------------------------------------------------------------------
(* The main loop. *)

Goto(at) == main' = [at |-> at, k |-> 1]

Draw(strokes, next) ==
  /\ screen' = Stroke(screen, gui, label, strokes[main.k])
  /\ IF main.k = Len(strokes) THEN Goto(next) ELSE main' = [main EXCEPT !.k = @ + 1]

TestDesktop ==
  /\ main.at = "testDesktop"
  /\ Goto(IF desktopRedraw THEN "drawDesktop" ELSE "testTime")
  /\ missed' = IF desktopRedraw THEN {} ELSE missed
  /\ UNCHANGED <<desktopRedraw, timeRedraw, screen>>

DrawDesktop ==
  /\ main.at = "drawDesktop"
  /\ Draw(DesktopStrokes, "clearDesktop")
  /\ UNCHANGED <<desktopRedraw, timeRedraw, missed>>

ClearDesktop ==
  /\ main.at = "clearDesktop"
  /\ desktopRedraw' = FALSE
  /\ Goto("testTime")
  /\ UNCHANGED <<timeRedraw, screen, missed>>

TestTime ==
  /\ main.at = "testTime"
  /\ Goto(IF timeRedraw THEN "drawTime" ELSE "testDesktop")
  /\ missed' = IF timeRedraw THEN missed \ {"time"} ELSE missed
  /\ UNCHANGED <<desktopRedraw, timeRedraw, screen>>

DrawTime ==
  /\ main.at = "drawTime"
  /\ Draw(TimeStrokes, "clearTime")
  /\ UNCHANGED <<desktopRedraw, timeRedraw, missed>>

ClearTime ==
  /\ main.at = "clearTime"
  /\ timeRedraw' = FALSE
  /\ Goto("testDesktop")
  /\ UNCHANGED <<desktopRedraw, screen, missed>>

MainLoop ==
  /\ \/ TestDesktop \/ DrawDesktop \/ ClearDesktop
     \/ TestTime \/ DrawTime \/ ClearTime
  /\ UNCHANGED <<gui, mouseVars, lastMinute, label, clock, sampled, deviceVars,
                 userVars, events>>

-----------------------------------------------------------------------------
(* The devices. *)

\* A packet: the buttons with the bit that is always set and the sign of the
\* movement, nothing sideways, and the movement.
MouseSends ==
  /\ wire = <<>>
  /\ events < MaxEvents
  /\ \E d \in Movements, b \in ButtonStates :
       /\ wire' = << 8 + b + (IF d < 0 THEN 32 ELSE 0), 0, d % 256 >>
       /\ held' = b
  /\ events' = events + 1
  /\ UNCHANGED <<gui, desktopRedraw, mouseVars, clockVars, screen, main, slipped,
                 userVars, missed>>

ByteLost ==
  /\ wire # <<>>
  /\ events < MaxEvents
  /\ wire' = Tail(wire)
  /\ events' = events + 1
  /\ slipped' = TRUE
  /\ UNCHANGED <<gui, desktopRedraw, mouseVars, clockVars, screen, main, held,
                 userVars, missed>>

\* The clock interrupts a thousand times a second, so no minute passes unseen.
ClockTicks ==
  /\ sampled
  /\ events < MaxEvents
  /\ clock' = Tick(clock)
  /\ sampled' = FALSE
  /\ events' = events + 1
  /\ UNCHANGED <<gui, desktopRedraw, mouseVars, lastMinute, label, timeRedraw, screen,
                 main, deviceVars, userVars, missed>>

ScreenNext ==
  \/ MouseInterrupt
  \/ KeyInterrupt
  \/ ClockInterrupt
  \/ MainLoop
  \/ MouseSends
  \/ ByteLost
  \/ ClockTicks

-----------------------------------------------------------------------------
\* Nothing is to be drawn, and no request came while its object was drawn.
Settled ==
  /\ main.at = "testDesktop"
  /\ ~desktopRedraw /\ ~timeRedraw
  /\ missed = {}

\* The widget a click on row r reaches.
Reached(r) ==
  LET c == ChildAt(gui, r)
      w == IF c = None THEN None ELSE PartAt(gui, c, r)
  IN  CASE c = None -> "desktop"
        [] c # None /\ (w = None \/ w \in Buttons) -> c
        [] OTHER -> w

\* A window or widget with its first row above the screen is not painted.
NotPainted(r) ==
  \E c \in Top :
    \/ gui.y[c] < 0 /\ ContainsCoordinate(gui, c, r)
    \/ \E w \in PartsOf(c) :
         ScreenY(gui, c, w) < 0 /\ ContainsCoordinate(gui, w, r - gui.y[c])

TimeRow(r) == ContainsCoordinate(gui, TimeButton[2], r)

PointerAt(r) == gui.mouseY <= r /\ r < gui.mouseY + PointerHeight

(***************************************************************************)
(* Drawing and routing agree on what lies on top: once the main loop has   *)
(* nothing left to draw, each row shows the widget that a click there      *)
(* reaches, or the pointer, which is shown where it is.  Three exceptions: *)
(* the time button, which is drawn over everything, a widget that begins   *)
(* above the screen, and the line over a toolbar.  A redraw that was asked *)
(* for during a drawing is lost (missed), until the next one.              *)
(***************************************************************************)
ClickGoesWhereShown ==
  Settled =>
    \A r \in Rows \ {q \in Rows : TimeRow(q)} :
      IF PointerAt(r) THEN screen[r] = <<"pointer">>
      ELSE \/ screen[r][1] \in {Reached(r), "line"}
           \/ NotPainted(r)

(***************************************************************************)
(* The time on the screen, when nothing is left to draw, is the one of the *)
(* last change, not the hour of one and the minute of another; and it has  *)
(* the hour of the clock if it has its minute, although the registers are  *)
(* read one by one.                                                        *)
(***************************************************************************)
ClockShowsTime ==
  LET row == LabelRow(gui, TimeButton[2]) IN
  /\ label # <<>> /\ label[2] = clock[2] => label[1] = clock[1]
  /\ Settled /\ screen[row][1] = "label" => Tail(screen[row]) = label

(***************************************************************************)
(* A window in the user's hand stays under the pointer at the row where it *)
(* was taken, and lets go with the button, as long as no other window was  *)
(* over it (astray) and no byte of the mouse was lost (slipped).           *)
(***************************************************************************)
DragFollowsHand ==
  \A w \in Windows :
    gui.dragging[w] /\ w \notin astray =>
      /\ gui.mouseY - gui.y[w] = grab[w]
      /\ wire = <<>> /\ ~slipped => Bit(held, 0) = 1

\* What is typed goes to the widget clicked last, whatever was clicked before
\* in the same window and in others.
KeysGoToLastClicked == typed \in {"nothing", clicked}

ScreenSpec == ScreenInit /\ [][ScreenNext]_screenVars
=============================================================================
