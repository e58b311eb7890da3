--------------------------- MODULE Devices_proofs ---------------------------
(***************************************************************************)
(* The devices: which driver the functions of any PCI bus get; and, for    *)
(* sectors, clusters, files, regions and messages of any size and any      *)
(* number of requests, what is left in the ATA drive, which sectors of a   *)
(* file are read, what the disk controller moves, what a protocol is       *)
(* handed of a frame, and how a ping is answered.                          *)
(***************************************************************************)
EXTENDS Pci, Ahci, Fat, Frames, NumberFacts, FiniteSetTheorems, TLAPS

-----------------------------------------------------------------------------
(* The functions on the PCI buses. *)

UnitType ==
  [vendor : STRING, id : STRING, class : STRING, subclass : Nat,
   header : {0, 1}, multi : BOOLEAN, bars : [1 .. 6 -> Bar]]

(* The sizes are measured without a trace. *)
LEMMA SizedUnchanged ==
  ASSUME NEW unit \in UnitType, NEW bar \in 0 .. 5, NEW registers \in [1 .. 6 -> Bar]
  PROVE  Sized(unit, bar, registers) = registers
<1>1. bar + 1 \in 1 .. 6
  OBVIOUS
<1> DEFINE i == bar + 1
           changed == [registers EXCEPT ![i] = Ones]
<1>2. changed = [j \in 1 .. 6 |-> IF j = i THEN Ones ELSE registers[j]]
  OBVIOUS
<1>3. [changed EXCEPT ![i] = registers[i]] =
        [j \in 1 .. 6 |-> IF j = i THEN registers[i] ELSE changed[j]]
  BY <1>2
<1>4. [changed EXCEPT ![i] = registers[i]] = registers
  BY <1>2, <1>3
<1> QED  BY <1>4 DEF Sized

LEMMA AllSizedUnchanged ==
  ASSUME NEW unit \in Units
  PROVE  AllSized(unit) = unit
<1> DEFINE F(f) == [n \in 0 .. 6 |-> IF n = 0 THEN unit.bars ELSE Sized(unit, n - 1, f[n-1])]
           after == CHOOSE f : f = F(f)
           same == [n \in 0 .. 6 |-> unit.bars]
<1>1. unit \in UnitType
  BY BusAssumption DEF UnitType
<1>2. unit.bars \in [1 .. 6 -> Bar]
  BY <1>1 DEF UnitType
<1>3. same = F(same)
  <2>1. \A n \in 1 .. 6 : Sized(unit, n - 1, unit.bars) = unit.bars
    BY <1>1, <1>2, SizedUnchanged
  <2> QED  BY <2>1
<1>4. after = F(after)
  <2> HIDE DEF F, same
  <2> QED  BY <1>3
<1>5. AllSized(unit) = [unit EXCEPT !.bars = after[6]]
  BY DEF AllSized
<1> HIDE DEF after
<1>6. \A n \in 0 .. 6 : after[n] = IF n = 0 THEN unit.bars ELSE Sized(unit, n - 1, after[n-1])
  BY <1>4
<1>7. \A n \in 0 .. 5 : after[n] = unit.bars => after[n+1] = unit.bars
  <2> SUFFICES ASSUME NEW n \in 0 .. 5, after[n] = unit.bars PROVE after[n+1] = unit.bars
    OBVIOUS
  <2>1. n + 1 \in 0 .. 6 /\ n + 1 # 0 /\ (n + 1) - 1 = n
    OBVIOUS
  <2>2. after[n+1] = Sized(unit, n, after[n])
    BY <1>6, <2>1
  <2> QED  BY <1>1, <1>2, <2>2, SizedUnchanged
<1>8. after[6] = unit.bars
  <2>1. after[0] = unit.bars
    BY <1>6
  <2>2. after[1] = unit.bars
    BY <1>7, <2>1
  <2>3. after[2] = unit.bars
    BY <1>7, <2>2
  <2>4. after[3] = unit.bars
    BY <1>7, <2>3
  <2>5. after[4] = unit.bars
    BY <1>7, <2>4
  <2>6. after[5] = unit.bars
    BY <1>7, <2>5
  <2> QED  BY <1>7, <2>6
<1> QED  BY <1>1, <1>5, <1>8 DEF UnitType

\* The addresses of a function's ports.
PortAddresses(unit) == {unit.bars[n].base : n \in {m \in 1 .. 6 : unit.bars[m].io}}

(* The loop over the registers ends with the address of a port, if there is one. *)
LEMMA PortBasesRight ==
  ASSUME NEW unit \in Units, GetDriver(unit) # "none", NEW base \in PortBases(unit)
  PROVE  base \in IF PortAddresses(unit) = {} THEN {Garbage} ELSE PortAddresses(unit)
<1> DEFINE Taken(n, B) ==
             UNION { {IF r.io /\ r.base # 0 THEN r.base ELSE b : b \in B} :
                     r \in GetBaseAddressRegister(unit, n - 1) }
           F(f) == [n \in 0 .. 6 |-> IF n = 0 THEN {Garbage} ELSE Taken(n, f[n-1])]
           after == CHOOSE f : f = F(f)
           S == SUBSET (Nat \union {Garbage})
           turn == [n \in 1 .. 6 |-> [B \in S |-> Taken(n, B)]]
           Turned(n, B) == {IF unit.bars[n].io THEN unit.bars[n].base ELSE b : b \in B}
<1>1. unit.bars \in [1 .. 6 -> Bar] /\ unit.header = 0
      /\ \A n \in 1 .. 6 : unit.bars[n].io => unit.bars[n].base # 0
  BY BusAssumption, FirmwareAssumption
<1>2. \A n \in 1 .. 6 : \A B : Taken(n, B) = Turned(n, B)
  <2> SUFFICES ASSUME NEW n \in 1 .. 6, NEW B PROVE Taken(n, B) = Turned(n, B)
    OBVIOUS
  <2>1. ~ (n - 1 >= MaxBars(unit)) /\ (n - 1) + 1 = n
    BY <1>1 DEF MaxBars
  <2>2. GetBaseAddressRegister(unit, n - 1) = {unit.bars[n]}
    BY <2>1 DEF GetBaseAddressRegister
  <2> QED  BY <1>1, <2>2
<1>3. ASSUME NEW n \in 1 .. 6, NEW B \in S PROVE Taken(n, B) \in S
  <2>1. unit.bars[n].base \in Nat
    BY <1>1 DEF Bar
  <2>2. Turned(n, B) \in S
    BY <2>1
  <2> QED  BY <1>2, <2>2
<1> HIDE DEF Taken
<1>4. \E f \in [0 .. 6 -> S] : f[0] = {Garbage} /\ \A n \in 1 .. 6 : f[n] = turn[n][f[n-1]]
  <2> DEFINE start == {Garbage}
             last == 6
  <2>1. turn \in [1 .. last -> [S -> S]] /\ start \in S /\ last \in Nat
    BY <1>3
  <2> HIDE DEF turn, S, start, last
  <2>2. \E f : Follows(f, last, S, start, turn)
    BY <2>1, RecursionExists
  <2> QED  BY <2>2 DEF Follows, start, last
<1>5. PICK f \in [0 .. 6 -> S] : f[0] = {Garbage} /\ \A n \in 1 .. 6 : f[n] = turn[n][f[n-1]]
  BY <1>4
<1>6. f = F(f)
  <2>1. ASSUME NEW n \in 1 .. 6 PROVE f[n] = Taken(n, f[n-1])
    <3>1. n - 1 \in 0 .. 6 /\ f[n-1] \in S
      BY <1>5
    <3> QED  BY <1>5, <3>1
  <2>2. ASSUME NEW n \in 0 .. 6
        PROVE  f[n] = IF n = 0 THEN {Garbage} ELSE Taken(n, f[n-1])
    <3>1. CASE n = 0
      BY <1>5, <3>1
    <3>2. CASE n \in 1 .. 6
      BY <2>1, <3>2
    <3> QED  BY <3>1, <3>2
  <2> HIDE DEF S
  <2> QED  BY <1>5, <2>2
<1>7. after = F(after)
  <2> HIDE DEF F
  <2> QED  BY <1>6
<1>8. PortBases(unit) = after[6]
  BY DEF PortBases, Taken
<1> HIDE DEF after, Turned
<1>9. after[0] = {Garbage} /\ \A n \in 1 .. 6 : after[n] = Turned(n, after[n-1])
  <2>1. \A n \in 0 .. 6 :
          after[n] = IF n = 0 THEN {Garbage} ELSE Taken(n, after[n-1])
    BY <1>7
  <2> HIDE DEF F
  <2>2. after[0] = {Garbage}
    BY <2>1
  <2>3. ASSUME NEW n \in 1 .. 6 PROVE after[n] = Turned(n, after[n-1])
    BY <1>2, <2>1
  <2> QED  BY <2>2, <2>3
<1> DEFINE Seen(n) == {m \in 1 .. 6 : m <= n /\ unit.bars[m].io}
           Right(n) == \A b \in after[n] :
                         IF Seen(n) = {} THEN b = Garbage
                         ELSE \E m \in Seen(n) : b = unit.bars[m].base
<1>10. ASSUME NEW n \in 1 .. 6, Right(n-1) PROVE Right(n)
  <2> SUFFICES ASSUME NEW b \in after[n]
               PROVE IF Seen(n) = {} THEN b = Garbage
                     ELSE \E m \in Seen(n) : b = unit.bars[m].base
    OBVIOUS
  <2>1. PICK a \in after[n-1] : b = IF unit.bars[n].io THEN unit.bars[n].base ELSE a
    BY <1>9 DEF Turned
  <2>2. CASE unit.bars[n].io
    <3>1. n \in Seen(n)
      BY <2>2
    <3> QED  BY <2>1, <2>2, <3>1
  <2>3. CASE ~ unit.bars[n].io
    <3>1. Seen(n) = Seen(n-1)
      BY <2>3
    <3> QED  BY <1>10, <2>1, <2>3, <3>1
  <2> QED  BY <2>2, <2>3
<1>11. Right(6)
  <2>0. Right(0)
    BY <1>9
  <2>1. \A n \in 0 .. 5 : Right(n) => Right(n + 1)
    <3> SUFFICES ASSUME NEW n \in 0 .. 5, Right(n) PROVE Right(n + 1)
      OBVIOUS
    <3>1. n + 1 \in 1 .. 6 /\ (n + 1) - 1 = n
      OBVIOUS
    <3> HIDE DEF Right
    <3> QED  BY <1>10, <3>1
  <2> HIDE DEF Right
  <2>2. Right(0 + 1)
    BY <2>0, <2>1
  <2>3. Right(1 + 1)
    BY <2>1, <2>2
  <2>4. Right(2 + 1)
    BY <2>1, <2>3
  <2>5. Right(3 + 1)
    BY <2>1, <2>4
  <2>6. Right(4 + 1)
    BY <2>1, <2>5
  <2> QED  BY <2>1, <2>6
<1>12. Seen(6) = {m \in 1 .. 6 : unit.bars[m].io}
  OBVIOUS
<1>13. base \in after[6]
  BY <1>8
<1>14. IF Seen(6) = {} THEN base = Garbage ELSE \E m \in Seen(6) : base = unit.bars[m].base
  BY <1>11, <1>13
<1> HIDE DEF Seen
<1>15. PortAddresses(unit) = {unit.bars[m].base : m \in Seen(6)}
  BY <1>12 DEF PortAddresses
<1> QED  BY <1>14, <1>15

-----------------------------------------------------------------------------
(* The walk over the buses. *)

Positions == (0 .. Buses - 1) \X (0 .. Devices - 1) \X (0 .. Functions - 1)

\* The order of the walk.
Before(p, q) ==
  \/ p[1] < q[1]
  \/ p[1] = q[1] /\ p[2] < q[2]
  \/ p[1] = q[1] /\ p[2] = q[2] /\ p[3] < q[3]

\* What the walk comes to next, and the devices it has looked spot.
Cursor == <<scan.bus, scan.device, IF phase = "function" THEN scan.function ELSE 0>>

Looked ==
  {a \in Addresses :
     \/ a[1] < scan.bus
     \/ a[1] = scan.bus /\ a[2] < scan.device
     \/ a[1] = scan.bus /\ a[2] = scan.device /\ phase = "function"}

\* The functions behind the walk that have a driver in the table.
Entered ==
  {spot \in Positions :
     Before(spot, Cursor) /\ GetDriver(UnitAt(spot)) # "none" /\ spot \notin refused}

Names == {"rtc", "keyboard", "mouse", "am79c973", "ahci", "none"}

TableEntries ==
  [name : Names, at : Positions \union {<<>>}, base : Nat \union {Garbage},
   bar5 : Nat \union {Garbage}]

RightDriver(d) ==
  /\ d.name = GetDriver(UnitAt(d.at))
  /\ d.bar5 = UnitAt(d.at).bars[6].base
  /\ d.base \in IF PortAddresses(UnitAt(d.at)) = {} THEN {Garbage}
                ELSE PortAddresses(UnitAt(d.at))

ScanOK ==
  /\ phase \in {"device", "function", "activate", "running"}
  /\ scan \in [bus : Nat, device : Nat, function : Nat, functions : Nat]
  /\ phase \in {"device", "function"} => scan.bus < Buses /\ scan.device < Devices
  /\ phase \in {"activate", "running"} => scan.bus = Buses /\ scan.device = 0
  /\ bus \in [Looked -> Plugged]
  /\ phase = "function" =>
       scan.function < scan.functions /\ scan.functions = NumFunctions(bus[Device][0])

(***************************************************************************)
(* The table holds what is behind the walk, in its order, until it is full *)
(* and the count overwritten: what came after that is left out.  What was  *)
(* refused is behind the walk, too.                                        *)
(***************************************************************************)
TableOK ==
  /\ drivers \in Seq(TableEntries) /\ Len(drivers) >= 3 /\ Len(drivers) <= DriverSlots
  /\ overrun \in BOOLEAN /\ (overrun => Len(drivers) = DriverSlots)
  /\ refused \subseteq {spot \in Positions : Before(spot, Cursor)}
  /\ \A i \in 4 .. Len(drivers) : drivers[i].at \in Entered /\ RightDriver(drivers[i])
  /\ \A spot \in Entered :
       \/ \E i \in 4 .. Len(drivers) : drivers[i].at = spot
       \/ overrun /\ \A i \in 4 .. Len(drivers) : Before(drivers[i].at, spot)
  /\ \A i, j \in 4 .. Len(drivers) : i < j => Before(drivers[i].at, drivers[j].at)

\* The kernel goes on only with a count that is one.
TakenOK ==
  /\ activated # 0 => phase \in {"activate", "running"} /\ ~ overrun
  /\ phase = "running" => ~ overrun /\ eth0 = DriverAt(3) /\ disk = DriverAt(4)

WalkInv == phase # "lost" => ScanOK /\ TableOK /\ TakenOK

LEMMA PlaceType ==
  ASSUME NEW p \in Positions
  PROVE  Place(p) \in Int
<1>1. /\ Buses \in Nat /\ Devices \in Nat /\ Functions \in Nat
      /\ p[1] \in Nat /\ p[2] \in Nat /\ p[3] \in Nat
  BY BusAssumption DEF Positions
<1>2. p[1] * Devices + p[2] \in Nat
  BY <1>1
<1> DEFINE x == p[1] * Devices + p[2]
<1> HIDE DEF x
<1>3. x * Functions + p[3] \in Int
  BY <1>1, <1>2 DEF x
<1> QED  BY <1>3 DEF Place, x

LEMMA PlacesInOrder ==
  ASSUME NEW p \in Positions, NEW q \in Positions, Before(p, q)
  PROVE  Place(p) < Place(q)
<1>1. Buses \in Nat /\ Devices \in Nat /\ Functions \in Nat
  BY BusAssumption
<1>2. /\ p[1] \in Nat /\ p[2] \in 0 .. Devices - 1 /\ p[3] \in 0 .. Functions - 1
      /\ q[1] \in Nat /\ q[2] \in 0 .. Devices - 1 /\ q[3] \in 0 .. Functions - 1
  BY DEF Positions
<1>3. ASSUME NEW a \in Nat, NEW b \in Nat, NEW n \in Nat, NEW c \in 0 .. n - 1,
             NEW d \in 0 .. n - 1, a < b
      PROVE  a * n + c < b * n + d
  <2>1. PICK k \in Nat : b = a + 1 + k
    <3>1. b - a - 1 \in Nat /\ b = a + 1 + (b - a - 1)
      BY <1>3
    <3> QED  BY <3>1
  <2>2. b * n = a * n + n + k * n
    BY <2>1
  <2>3. k * n \in Nat /\ a * n \in Nat
    OBVIOUS
  <2> QED  BY <2>2, <2>3
<1> DEFINE x == p[1] * Devices + p[2]
           y == q[1] * Devices + q[2]
<1>4. x \in Nat /\ y \in Nat
  BY <1>1, <1>2
<1>5. Place(p) = x * Functions + p[3] /\ Place(q) = y * Functions + q[3]
  BY DEF Place
<1>6. CASE p[1] < q[1] \/ (p[1] = q[1] /\ p[2] < q[2])
  <2>1. x < y
    <3>1. CASE p[1] < q[1]
      BY <1>1, <1>2, <1>3, <3>1
    <3>2. CASE p[1] = q[1] /\ p[2] < q[2]
      <4>1. p[1] * Devices \in Nat
        BY <1>1, <1>2
      <4> QED  BY <1>2, <3>2, <4>1
    <3> QED  BY <1>6, <3>1, <3>2
  <2> HIDE DEF x, y
  <2> QED  BY <1>1, <1>2, <1>3, <1>4, <1>5, <2>1
<1>7. CASE p[1] = q[1] /\ p[2] = q[2] /\ p[3] < q[3]
  <2>1. x = y
    BY <1>7
  <2> HIDE DEF x, y
  <2>2. x * Functions \in Nat
    BY <1>1, <1>4
  <2> QED  BY <1>2, <1>5, <1>7, <2>1, <2>2
<1> QED  BY <1>6, <1>7 DEF Before

LEMMA WalkInvInit == PciInit => WalkInv
<1> SUFFICES ASSUME PciInit PROVE WalkInv
  OBVIOUS
<1> USE DEF PciInit
<1>1. ScanOK
  <2>1. Looked = {}
    BY DEF Looked, Addresses
  <2> QED  BY <2>1, BusAssumption DEF ScanOK
<1>2. Entered = {}
  BY DEF Entered, Positions, Before, Cursor
<1>3. drivers \in Seq(TableEntries) /\ Len(drivers) = 3
  <2>1. \A name \in Names : Known(name) \in TableEntries
    BY DEF Known, TableEntries
  <2>2. "rtc" \in Names /\ "keyboard" \in Names /\ "mouse" \in Names
    BY DEF Names
  <2>3. Known("rtc") \in TableEntries /\ Known("keyboard") \in TableEntries /\ Known("mouse") \in TableEntries
    BY <2>1, <2>2, Zenon
  <2>4. <<Known("rtc"), Known("keyboard"), Known("mouse")>> \in Seq(TableEntries)
    BY <2>3
  <2> QED  BY <2>4
<1>5. TakenOK
  BY DEF TakenOK
<1>6. overrun \in BOOLEAN /\ ~ overrun /\ refused = {}
  OBVIOUS
<1>4. TableOK
  <2> HIDE DEF PciInit
  <2> QED  BY <1>2, <1>3, <1>6, TableAssumption DEF TableOK
<1> QED  BY <1>1, <1>4, <1>5 DEF WalkInv

(* The device the walk is at. *)
LEMMA DeviceIsNew ==
  ASSUME ScanOK, phase = "device", SelectDevice
  PROVE  ScanOK' /\ Cursor' = Cursor /\ \A spot \in Positions :
           Before(spot, Cursor) => UnitAt(spot)' = UnitAt(spot)
<1>1. PICK d \in Plugged :
        /\ bus' = [a \in DOMAIN bus \union {Device} |-> IF a = Device THEN d ELSE bus[a]]
        /\ scan' = [scan EXCEPT !.function = 0, !.functions = NumFunctions(d[0])]
  BY DEF SelectDevice
<1>2. phase' = "function"
  BY DEF SelectDevice
<1>3. NumFunctions(d[0]) \in Nat \ {0}
  BY BusAssumption DEF NumFunctions
<1>4. scan \in [bus : Nat, device : Nat, function : Nat, functions : Nat]
      /\ bus \in [Looked -> Plugged] /\ scan.bus < Buses /\ scan.device < Devices
  BY DEF ScanOK
<1> DEFINE n == NumFunctions(d[0])
<1> HIDE DEF n
<1>5. /\ scan' \in [bus : Nat, device : Nat, function : Nat, functions : Nat]
      /\ scan'.bus = scan.bus /\ scan'.device = scan.device
      /\ scan'.function = 0 /\ scan'.functions = n
  BY <1>1, <1>3, <1>4 DEF n
<1>6. Device' = Device /\ Cursor' = Cursor
  BY <1>2, <1>5 DEF Device, Cursor
<1>7. Device \in Addresses /\ Device \notin Looked
  BY <1>4, BusAssumption DEF Device, Addresses, Looked
<1>8. Looked' = Looked \union {Device}
  BY <1>2, <1>4, <1>5, <1>7 DEF Looked, Device, Addresses
<1>9. bus' \in [Looked' -> Plugged] /\ bus'[Device] = d /\ \A a \in Looked : bus'[a] = bus[a]
  BY <1>1, <1>4, <1>7, <1>8
<1>10. ScanOK'
  BY <1>2, <1>3, <1>4, <1>5, <1>6, <1>9 DEF ScanOK, n
<1>11. ASSUME NEW spot \in Positions, Before(spot, Cursor) PROVE UnitAt(spot)' = UnitAt(spot)
  <2>1. <<spot[1], spot[2]>> \in Looked
    BY <1>4, <1>11 DEF Positions, Before, Cursor, Looked, Addresses
  <2> QED  BY <1>9, <2>1 DEF UnitAt
<1> QED  BY <1>6, <1>10, <1>11

(* The table does not change while a device is chosen. *)
LEMMA TableKept ==
  ASSUME TableOK, UNCHANGED <<drivers, overrun, refused>>, Cursor' = Cursor,
         \A spot \in Positions : Before(spot, Cursor) => UnitAt(spot)' = UnitAt(spot)
  PROVE  TableOK'
<1>1. Entered' = Entered
  BY DEF Entered
<1>2. ASSUME NEW i \in 4 .. Len(drivers) PROVE RightDriver(drivers[i])'
  <2>1. drivers[i].at \in Entered /\ RightDriver(drivers[i])
    BY <1>2 DEF TableOK
  <2>2. UnitAt(drivers[i].at)' = UnitAt(drivers[i].at)
    BY <2>1 DEF Entered
  <2> QED  BY <2>1, <2>2 DEF RightDriver
<1> QED  BY <1>1, <1>2 DEF TableOK

(* Where the walk goes from a function: what it passes is that function, and, *)
(* of a device with one function, places where nothing is.                    *)
LEMMA CursorMoves ==
  ASSUME ScanOK, phase = "function", Advance, bus' = bus
  PROVE  /\ ScanOK'
         /\ At \in Positions /\ <<At[1], At[2]>> \in Looked /\ ~ Before(At, Cursor)
         /\ \A spot \in Positions :
              Before(spot, Cursor)' <=>
                \/ Before(spot, Cursor)
                \/ spot = At
                \/ Before(At, spot) /\ Before(spot, Cursor)' /\ UnitAt(spot) = Absent
<1> DEFINE f == scan.function
           n == scan.functions
<1>1. /\ scan \in [bus : Nat, device : Nat, function : Nat, functions : Nat]
      /\ bus \in [Looked -> Plugged] /\ scan.bus < Buses /\ scan.device < Devices
      /\ f < n /\ n = NumFunctions(bus[Device][0])
  BY DEF ScanOK
<1>2. Buses \in Nat \ {0} /\ Devices \in Nat \ {0} /\ Functions \in Nat \ {0}
  BY BusAssumption
<1>3. n \in {1, Functions}
  BY <1>1 DEF NumFunctions
<1>4. At \in Positions /\ Device \in Looked /\ Cursor = At /\ <<At[1], At[2]>> = Device
  BY <1>1, <1>2, <1>3 DEF At, Device, Positions, Looked, Addresses, Cursor
<1>5. \/ /\ f + 1 < n
         /\ scan' = [scan EXCEPT !.function = @ + 1]
         /\ phase' = "function"
      \/ /\ f + 1 = n /\ scan.device + 1 < Devices
         /\ scan' = [scan EXCEPT !.device = @ + 1]
         /\ phase' = "device"
      \/ /\ f + 1 = n /\ scan.device + 1 = Devices
         /\ scan' = [scan EXCEPT !.bus = @ + 1, !.device = 0]
         /\ phase' = IF scan.bus + 1 = Buses THEN "activate" ELSE "device"
  BY <1>1, <1>2 DEF Advance, LastFunction, LastDevice
<1>6. ASSUME NEW spot \in Positions, <<spot[1], spot[2]>> = Device, spot[3] > f, f + 1 = n
      PROVE  UnitAt(spot) = Absent
  <2>1. spot[3] \in 0 .. Functions - 1
    BY DEF Positions
  <2>2. n # Functions
    BY <1>1, <1>6, <2>1
  <2>3. ~ DeviceHasFunctions(bus[Device][0])
    BY <1>1, <2>2 DEF NumFunctions
  <2>4. bus[Device] \in Plugged
    BY <1>1, <1>4
  <2>5. \A g \in 1 .. Functions - 1 : bus[Device][g] = Absent
    BY <2>3, <2>4 DEF Plugged
  <2>6. spot[3] \in 1 .. Functions - 1
    BY <1>1, <1>6, <2>1
  <2> QED  BY <1>6, <2>5, <2>6 DEF UnitAt
<1>7. CASE f + 1 < n
  <2>1. /\ scan'.bus = scan.bus /\ scan'.device = scan.device
        /\ scan'.function = f + 1 /\ scan'.functions = n
        /\ scan' \in [bus : Nat, device : Nat, function : Nat, functions : Nat]
        /\ phase' = "function"
    BY <1>1, <1>5, <1>7
  <2>2. Looked' = Looked /\ Device' = Device
    BY <2>1 DEF Looked, Device
  <2>3. ScanOK'
    BY <1>1, <1>7, <2>1, <2>2 DEF ScanOK
  <2>4. \A spot \in Positions : Before(spot, Cursor)' <=> Before(spot, Cursor) \/ spot = At
    BY <1>1, <1>4, <2>1 DEF Before, Cursor, At, Positions
  <2>5. ~ Before(At, Cursor)
    BY <1>1, <1>4 DEF Before, At
  <2> QED  BY <1>4, <2>3, <2>4, <2>5
<1>8. CASE f + 1 = n /\ scan.device + 1 < Devices
  <2>1. /\ scan'.bus = scan.bus /\ scan'.device = scan.device + 1
        /\ scan' \in [bus : Nat, device : Nat, function : Nat, functions : Nat]
        /\ phase' = "device"
    BY <1>1, <1>5, <1>8
  <2>2. Looked' = Looked
    BY <1>1, <2>1 DEF Looked, Addresses
  <2>3. ScanOK'
    BY <1>1, <1>8, <2>1, <2>2 DEF ScanOK
  <2>4. \A spot \in Positions :
          Before(spot, Cursor)' <=>
            \/ Before(spot, Cursor) \/ spot = At
            \/ <<spot[1], spot[2]>> = Device /\ spot[3] > f
    BY <1>1, <1>4, <2>1 DEF Before, Cursor, At, Positions, Device
  <2>5. ~ Before(At, Cursor)
    BY <1>1, <1>4 DEF Before, At
  <2>6. \A spot \in Positions : <<spot[1], spot[2]>> = Device /\ spot[3] > f <=>
          <<spot[1], spot[2]>> = Device /\ Before(At, spot)
    BY <1>1 DEF Before, At, Device, Positions
  <2> QED  BY <1>4, <1>6, <1>8, <2>3, <2>4, <2>5, <2>6
<1>9. CASE f + 1 = n /\ scan.device + 1 = Devices
  <2>1. /\ scan'.bus = scan.bus + 1 /\ scan'.device = 0
        /\ scan' \in [bus : Nat, device : Nat, function : Nat, functions : Nat]
        /\ phase' = IF scan.bus + 1 = Buses THEN "activate" ELSE "device"
    <3>1. /\ scan' = [scan EXCEPT !.bus = @ + 1, !.device = 0]
          /\ phase' = IF scan.bus + 1 = Buses THEN "activate" ELSE "device"
      BY <1>1, <1>5, <1>9
    <3>2. scan.bus \in Nat /\ scan.bus + 1 \in Nat
      BY <1>1
    <3> DEFINE following == scan.bus + 1
    <3>3. scan' = [scan EXCEPT !.bus = following, !.device = 0]
      BY <3>1
    <3> HIDE DEF following
    <3>4. /\ scan'.bus = following /\ scan'.device = 0
          /\ scan' \in [bus : Nat, device : Nat, function : Nat, functions : Nat]
      BY <1>1, <3>2, <3>3 DEF following
    <3> QED  BY <3>1, <3>4 DEF following
  <2>2. Looked' = Looked
    BY <1>1, <1>9, <2>1 DEF Looked, Addresses
  <2>3. ScanOK'
    BY <1>1, <1>2, <1>9, <2>1, <2>2 DEF ScanOK
  <2>4. \A spot \in Positions :
          Before(spot, Cursor)' <=>
            \/ Before(spot, Cursor) \/ spot = At
            \/ <<spot[1], spot[2]>> = Device /\ spot[3] > f
    BY <1>1, <1>4, <1>9, <2>1 DEF Before, Cursor, At, Positions, Device
  <2>5. ~ Before(At, Cursor)
    BY <1>1, <1>4 DEF Before, At
  <2>6. \A spot \in Positions : <<spot[1], spot[2]>> = Device /\ spot[3] > f <=>
          <<spot[1], spot[2]>> = Device /\ Before(At, spot)
    BY <1>1 DEF Before, At, Device, Positions
  <2> QED  BY <1>4, <1>6, <1>9, <2>3, <2>4, <2>5, <2>6
<1> QED  BY <1>1, <1>2, <1>3, <1>5, <1>7, <1>8, <1>9

LEMMA WalkInvNext ==
  ASSUME WalkInv, [PciNext]_pciVars
  PROVE  WalkInv'
<1>l. CASE phase = "lost" \/ RunAway
  <2>1. phase' = "lost"
    BY <1>l DEF PciNext, pciVars, SelectDevice, SelectFunction, RunAway, ActivateAll, TakeDrivers
  <2> QED  BY <2>1 DEF WalkInv
<1> SUFFICES ASSUME phase # "lost" PROVE WalkInv'
  BY <1>l
<1>1. CASE SelectDevice
  <2>1. /\ phase = "device" /\ UNCHANGED <<drivers, overrun, refused>> /\ phase' = "function"
        /\ activated' = activated
    BY <1>1 DEF SelectDevice
  <2>2. ScanOK' /\ TableOK'
    BY <1>1, <2>1, DeviceIsNew, TableKept DEF WalkInv
  <2> QED  BY <2>1, <2>2 DEF WalkInv, TakenOK
<1>2. CASE SelectFunction
  <2> DEFINE unit == bus[Device][scan.function]
  <2>1. /\ phase = "function" /\ Advance
        /\ IF unit = Absent THEN UNCHANGED bus
           ELSE bus' = [bus EXCEPT ![Device][scan.function] = AllSized(unit)]
        /\ IF GetDriver(unit) = "none" THEN UNCHANGED <<drivers, overrun, refused>>
           ELSE Enter(unit)
        /\ activated' = activated
    BY <1>2 DEF SelectFunction
  <2>2. ScanOK /\ TableOK /\ activated = 0
    BY <2>1 DEF WalkInv, TakenOK
  <2>3. /\ Device \in Looked /\ scan.function \in 0 .. Functions - 1
        /\ bus \in [Looked -> Plugged]
    <3>1. scan.function < scan.functions /\ scan.functions \in {1, Functions}
      BY <2>1, <2>2 DEF ScanOK, NumFunctions
    <3> QED  BY <2>1, <2>2, <3>1, BusAssumption DEF ScanOK, Looked, Device, Addresses
  <2>4. bus[Device] \in [0 .. Functions - 1 -> Units \union {Absent}]
    BY <2>3 DEF Plugged
  <2>5. unit \in Units \union {Absent}
    BY <2>3, <2>4
  <2>6. bus' = bus
    <3>1. CASE unit = Absent
      BY <2>1, <3>1
    <3>2. CASE unit # Absent
      <4>1. AllSized(unit) = unit
        BY <2>5, <3>2, AllSizedUnchanged
      <4>2. bus' = [bus EXCEPT ![Device] = [bus[Device] EXCEPT ![scan.function] = unit]]
        BY <2>1, <3>2, <4>1
      <4>3. [bus[Device] EXCEPT ![scan.function] = unit] = bus[Device]
        BY <2>4
      <4> QED  BY <2>3, <4>2, <4>3
    <3> QED  BY <3>1, <3>2
  <2>7. /\ ScanOK'
        /\ At \in Positions /\ <<At[1], At[2]>> \in Looked /\ ~ Before(At, Cursor)
        /\ \A spot \in Positions :
             Before(spot, Cursor)' <=>
               \/ Before(spot, Cursor)
               \/ spot = At
               \/ Before(At, spot) /\ Before(spot, Cursor)' /\ UnitAt(spot) = Absent
    BY <2>1, <2>2, <2>6, CursorMoves
  <2>8. UnitAt(At) = unit /\ \A spot : UnitAt(spot)' = UnitAt(spot)
    BY <2>6 DEF UnitAt, At, Device
  <2>9. \A d : RightDriver(d)' = RightDriver(d)
    BY <2>8 DEF RightDriver
  <2>10. phase' \in {"function", "device", "activate"}
    BY <2>1 DEF Advance
  <2>t. TakenOK'
    BY <2>1, <2>2, <2>10 DEF TakenOK
  <2> HIDE DEF unit
  <2>11. \A spot : UnitAt(spot) = Absent => GetDriver(UnitAt(spot)) = "none"
    BY DEF GetDriver
  <2>12. refused \subseteq {spot \in Positions : Before(spot, Cursor)}
    BY <2>2 DEF TableOK
  <2>13. /\ drivers \in Seq(TableEntries) /\ Len(drivers) >= 3 /\ Len(drivers) <= DriverSlots
         /\ overrun \in BOOLEAN /\ (overrun => Len(drivers) = DriverSlots)
         /\ \A i \in 4 .. Len(drivers) : drivers[i].at \in Entered /\ RightDriver(drivers[i])
         /\ \A spot \in Entered :
              \/ \E i \in 4 .. Len(drivers) : drivers[i].at = spot
              \/ overrun /\ \A i \in 4 .. Len(drivers) : Before(drivers[i].at, spot)
         /\ \A i, j \in 4 .. Len(drivers) : i < j => Before(drivers[i].at, drivers[j].at)
    BY <2>2 DEF TableOK
  <2>14. CASE UNCHANGED <<drivers, overrun>> /\ Entered' = Entered
              /\ refused' \subseteq {spot \in Positions : Before(spot, Cursor)'}
    BY <2>7, <2>9, <2>10, <2>13, <2>14, <2>t DEF TableOK, WalkInv
  <2>15. CASE GetDriver(unit) = "none"
    <3>1. UNCHANGED <<drivers, overrun, refused>>
      BY <2>1, <2>15 DEF unit
    <3>2. \A spot \in Positions : GetDriver(UnitAt(spot)) # "none" =>
            (Before(spot, Cursor)' <=> Before(spot, Cursor))
      BY <2>7, <2>8, <2>11, <2>15
    <3>3. Entered' = Entered
      BY <2>8, <3>1, <3>2 DEF Entered
    <3>4. refused' \subseteq {spot \in Positions : Before(spot, Cursor)'}
      BY <2>7, <2>12, <3>1
    <3> QED  BY <2>14, <3>1, <3>3, <3>4
  <2>16. CASE GetDriver(unit) # "none" /\ refused' = refused \union {At}
              /\ UNCHANGED <<drivers, overrun>>
    <3>1. At \notin Entered /\ At \notin Entered'
      BY <2>7, <2>16 DEF Entered
    <3>2. \A spot \in Positions : spot # At /\ GetDriver(UnitAt(spot)) # "none" =>
            (Before(spot, Cursor)' <=> Before(spot, Cursor))
      BY <2>7, <2>11
    <3>3. Entered' = Entered
      BY <2>8, <2>16, <3>1, <3>2 DEF Entered
    <3>4. refused' \subseteq {spot \in Positions : Before(spot, Cursor)'}
      BY <2>7, <2>12, <2>16
    <3> QED  BY <2>14, <2>16, <3>3, <3>4
  <2>18. ASSUME GetDriver(unit) # "none", UNCHANGED refused
         PROVE  /\ Entered' = Entered \union {At}
                /\ \A i \in 4 .. Len(drivers) : Before(drivers[i].at, At)
                /\ refused' \subseteq {spot \in Positions : Before(spot, Cursor)'}
    <3>1. At \notin refused
      BY <2>7, <2>12
    <3>2. GetDriver(UnitAt(At)) # "none"
      BY <2>8, <2>18
    <3>3. \A spot \in Positions : spot # At /\ GetDriver(UnitAt(spot)) # "none" =>
            (Before(spot, Cursor)' <=> Before(spot, Cursor))
      BY <2>7, <2>11
    <3>4. Entered' = Entered \union {At}
      BY <2>7, <2>8, <2>18, <3>1, <3>2, <3>3 DEF Entered
    <3>5. ASSUME NEW i \in 4 .. Len(drivers) PROVE Before(drivers[i].at, At)
      <4>1. Before(drivers[i].at, Cursor)
        BY <2>13 DEF Entered
      <4>2. Cursor = At
        BY <2>1 DEF Cursor, At
      <4> QED  BY <4>1, <4>2
    <3>6. refused' \subseteq {spot \in Positions : Before(spot, Cursor)'}
      BY <2>7, <2>12, <2>18
    <3> QED  BY <3>4, <3>5, <3>6
  <2>19. CASE /\ GetDriver(unit) # "none" /\ UNCHANGED <<drivers, refused>>
              /\ Len(drivers) = DriverSlots /\ overrun' = TRUE
    <3>1. \A i \in 4 .. Len(drivers) : drivers[i].at \in Entered'
      BY <2>13, <2>18, <2>19
    <3>2. ASSUME NEW spot \in Entered'
          PROVE  \/ \E i \in 4 .. Len(drivers) : drivers[i].at = spot
                 \/ \A i \in 4 .. Len(drivers) : Before(drivers[i].at, spot)
      BY <2>13, <2>18, <2>19
    <3>3. TableOK'
      BY <2>9, <2>13, <2>18, <2>19, <3>1, <3>2 DEF TableOK
    <3> QED  BY <2>7, <2>t, <3>3 DEF WalkInv
  <2>17. CASE /\ GetDriver(unit) # "none"
              /\ UNCHANGED <<overrun, refused>>
              /\ Len(drivers) < DriverSlots
              /\ \E base \in PortBases(unit) :
                   drivers' = Append(drivers, [GetDeviceDescriptor(unit) EXCEPT !.base = base])
    <3>0. ~ overrun
      BY <2>13, <2>17
    <3>1. PICK base \in PortBases(unit) :
            drivers' = Append(drivers, [GetDeviceDescriptor(unit) EXCEPT !.base = base])
      BY <2>17
    <3> DEFINE e == [name |-> GetDriver(unit), at |-> At, base |-> base,
                     bar5 |-> unit.bars[6].base]
    <3>2. unit \in Units
      BY <2>5, <2>17 DEF GetDriver, unit
    <3>3. base \in IF PortAddresses(unit) = {} THEN {Garbage} ELSE PortAddresses(unit)
      BY <2>17, <3>2, PortBasesRight
    <3>4. drivers' = Append(drivers, e)
      BY <3>1 DEF GetDeviceDescriptor
    <3>5. e \in TableEntries
      <4>1. unit.bars \in [1 .. 6 -> Bar]
        BY <3>2, BusAssumption
      <4>2. \A n \in 1 .. 6 : unit.bars[n].base \in Nat
        BY <4>1 DEF Bar
      <4>3. PortAddresses(unit) \subseteq Nat
        BY <4>2 DEF PortAddresses
      <4>4. base \in Nat \union {Garbage}
        BY <3>3, <4>3
      <4>5. GetDriver(unit) \in Names
        BY DEF GetDriver, Names
      <4>6. unit.bars[6].base \in Nat
        BY <4>2
      <4> QED  BY <2>7, <4>4, <4>5, <4>6 DEF TableEntries
    <3>6. e.at = At /\ RightDriver(e)
      BY <2>8, <3>3 DEF RightDriver
    <3> HIDE DEF e
    <3> DEFINE n == Len(drivers)
    <3>7. /\ drivers' \in Seq(TableEntries) /\ Len(drivers') = n + 1 /\ n \in Nat /\ n >= 3
          /\ drivers'[n + 1] = e /\ \A i \in 1 .. n : drivers'[i] = drivers[i]
      BY <2>13, <3>4, <3>5
    <3>8. Entered' = Entered \union {At}
      BY <2>17, <2>18
    <3>9. \A i \in 4 .. n : Before(drivers[i].at, At)
      BY <2>17, <2>18
    <3>t. n < DriverSlots /\ n + 1 <= DriverSlots
      BY <2>17, <3>7, TableAssumption
    <3> HIDE DEF n
    <3>10. refused' \subseteq {spot \in Positions : Before(spot, Cursor)'}
      BY <2>7, <2>12, <2>17
    <3>11. \A i \in 4 .. n + 1 :
             drivers'[i].at \in Entered' /\ RightDriver(drivers'[i])
      <4> SUFFICES ASSUME NEW i \in 4 .. n + 1
                   PROVE  drivers'[i].at \in Entered' /\ RightDriver(drivers'[i])
        OBVIOUS
      <4>1. CASE i = n + 1
        BY <3>6, <3>7, <3>8, <4>1
      <4>2. CASE i \in 4 .. n
        BY <2>13, <3>7, <3>8, <4>2 DEF n
      <4> QED  BY <3>7, <4>1, <4>2
    <3>12. \A spot \in Entered' : \E i \in 4 .. n + 1 : drivers'[i].at = spot
      <4> SUFFICES ASSUME NEW spot \in Entered'
                   PROVE  \E i \in 4 .. n + 1 : drivers'[i].at = spot
        OBVIOUS
      <4>1. CASE spot = At
        <5>1. n + 1 \in 4 .. n + 1
          BY <3>7
        <5> QED  BY <3>6, <3>7, <4>1, <5>1
      <4>2. CASE spot \in Entered
        <5>1. PICK i \in 4 .. n : drivers[i].at = spot
          BY <2>13, <3>0, <4>2 DEF n
        <5> QED  BY <3>7, <5>1
      <4> QED  BY <3>8, <4>1, <4>2
    <3>13. ASSUME NEW i \in 4 .. n + 1, NEW j \in 4 .. n + 1, i < j
           PROVE  Before(drivers'[i].at, drivers'[j].at)
      <4>1. i \in 4 .. n
        BY <3>7, <3>13
      <4>2. CASE j = n + 1
        BY <3>6, <3>7, <3>9, <4>1, <4>2
      <4>3. CASE j \in 4 .. n
        BY <2>13, <3>7, <3>13, <4>1, <4>3 DEF n
      <4> QED  BY <3>7, <4>2, <4>3
    <3>15. overrun' \in BOOLEAN /\ ~ overrun'
      BY <2>13, <2>17, <3>0
    <3>16. Len(drivers') >= 3
      BY <3>7
    <3>14. TableOK'
      BY <2>9, <3>15, <3>16, <3>7, <3>t, <3>10, <3>11, <3>12, <3>13 DEF TableOK
    <3> QED  BY <2>7, <2>t, <3>14 DEF WalkInv
  <2> QED  BY <2>1, <2>15, <2>16, <2>17, <2>19 DEF Enter, AddDriver, unit
<1>3. CASE \/ ActivateAll \/ TakeDrivers \/ UNCHANGED pciVars
  <2>1. UNCHANGED <<bus, scan, drivers, overrun, refused>>
    BY <1>3 DEF ActivateAll, TakeDrivers, pciVars
  <2>2. \/ phase' = phase /\ UNCHANGED <<eth0, disk, activated>>
        \/ phase = "activate" /\ phase' = phase /\ ~ overrun
        \/ /\ phase = "activate" /\ phase' = "running" /\ activated = Len(drivers)
           /\ eth0' = DriverAt(3) /\ disk' = DriverAt(4) /\ activated' = activated
    BY <1>3 DEF ActivateAll, TakeDrivers, pciVars
  <2>3. Cursor' = Cursor /\ Looked' = Looked /\ Device' = Device
    BY <2>1, <2>2 DEF Cursor, Looked, Device
  <2>4. ScanOK'
    BY <2>1, <2>2, <2>3 DEF WalkInv, ScanOK
  <2>5. TableOK'
    <3>1. \A spot : UnitAt(spot)' = UnitAt(spot)
      BY <2>1 DEF UnitAt
    <3> QED  BY <2>1, <2>3, <3>1, TableKept DEF WalkInv
  <2>6. TakenOK'
    <3>1. Len(drivers) # 0
      BY DEF WalkInv, TableOK
    <3>2. DriverAt(3)' = DriverAt(3) /\ DriverAt(4)' = DriverAt(4)
      BY <2>1 DEF DriverAt
    <3>3. TakenOK
      BY DEF WalkInv
    <3>4. CASE phase' = phase /\ UNCHANGED <<eth0, disk, activated>>
      BY <2>1, <3>2, <3>3, <3>4 DEF TakenOK
    <3>5. CASE phase = "activate" /\ phase' = phase /\ ~ overrun
      BY <2>1, <3>5 DEF TakenOK
    <3>6. CASE /\ phase = "activate" /\ phase' = "running" /\ activated = Len(drivers)
               /\ eth0' = DriverAt(3) /\ disk' = DriverAt(4) /\ activated' = activated
      BY <2>1, <3>1, <3>2, <3>3, <3>6 DEF TakenOK
    <3> QED  BY <2>2, <3>4, <3>5, <3>6
  <2> QED  BY <2>4, <2>5, <2>6 DEF WalkInv
<1> QED  BY <1>l, <1>1, <1>2, <1>3 DEF PciNext

LEMMA WalkInvHolds == PciSpec => []WalkInv
<1>1. WalkInv /\ [PciNext]_pciVars => WalkInv'
  BY WalkInvNext
<1> QED  BY WalkInvInit, <1>1, PTL DEF PciSpec

(* In a complete table the fourth driver is that of the first function     *)
(* served, and the fifth that of the second.                               *)
LEMMA TakenInOrder ==
  ASSUME {drivers[i].at : i \in 4 .. Len(drivers)} = Served,
         Len(drivers) \in Nat, Len(drivers) >= 3,
         \A i, j \in 4 .. Len(drivers) : i < j => Place(drivers[i].at) < Place(drivers[j].at),
         \A i \in 4 .. Len(drivers) : drivers[i].name = GetDriver(UnitAt(drivers[i].at)),
         \A x \in Served : Place(x) \in Int,
         eth0 = DriverAt(3), disk = DriverAt(4)
  PROVE  /\ \A x \in Served : (First(x) => eth0.at = x) /\ (Second(x) => disk.at = x)
         /\ eth0.name = "am79c973" <=>
              \E x \in Served : First(x) /\ GetDriver(UnitAt(x)) = "am79c973"
         /\ disk.name = "ahci" <=>
              \E x \in Served : Second(x) /\ GetDriver(UnitAt(x)) = "ahci"
<1> DEFINE n == Len(drivers)
           spot(i) == drivers[i].at
<1>n. Known("none").name = "none"
  BY DEF Known
<1>1. \A i \in 4 .. n : spot(i) \in Served /\ Place(spot(i)) \in Int
  OBVIOUS
<1>2. \A x \in Served : \E i \in 4 .. n : x = spot(i)
  OBVIOUS
<1>3. \A i, j \in 4 .. n : i < j => Place(spot(i)) < Place(spot(j))
  OBVIOUS
<1> HIDE DEF spot
<1>4. ASSUME n > 3 PROVE First(spot(4)) /\ \A x \in Served : First(x) => x = spot(4)
  <2>1. 4 \in 4 .. n
    BY <1>4
  <2>2. \A i \in 4 .. n : Place(spot(4)) <= Place(spot(i))
    <3> SUFFICES ASSUME NEW i \in 4 .. n PROVE Place(spot(4)) <= Place(spot(i))
      OBVIOUS
    <3>1. i = 4 \/ 4 < i
      OBVIOUS
    <3>2. Place(spot(4)) \in Int /\ Place(spot(i)) \in Int
      BY <1>1, <2>1
    <3>3. 4 < i => Place(spot(4)) < Place(spot(i))
      BY <1>3, <2>1
    <3> QED  BY <3>1, <3>2, <3>3
  <2>3. First(spot(4))
    BY <1>2, <2>2 DEF First
  <2>4. ASSUME NEW x \in Served, First(x) PROVE x = spot(4)
    <3>1. PICK i \in 4 .. n : x = spot(i)
      BY <1>2
    <3>2. Place(x) <= Place(spot(4))
      BY <1>1, <2>1, <2>4 DEF First
    <3>3. ~ (4 < i)
      <4>1. Place(spot(4)) \in Int /\ Place(spot(i)) \in Int
        BY <1>1, <2>1
      <4>2. 4 < i => Place(spot(4)) < Place(spot(i))
        BY <1>3, <2>1
      <4> QED  BY <3>1, <3>2, <4>1, <4>2
    <3> QED  BY <3>1, <3>3
  <2> QED  BY <2>3, <2>4
<1>5. ASSUME n > 4 PROVE Second(spot(5)) /\ \A x \in Served : Second(x) => x = spot(5)
  <2>1. 4 \in 4 .. n /\ 5 \in 4 .. n /\ n > 3
    BY <1>5
  <2>2. spot(4) # spot(5)
    BY <1>1, <1>3, <2>1
  <2>3. \A i \in 4 .. n : spot(i) # spot(4) => Place(spot(5)) <= Place(spot(i))
    <3> SUFFICES ASSUME NEW i \in 4 .. n, spot(i) # spot(4) PROVE Place(spot(5)) <= Place(spot(i))
      OBVIOUS
    <3>1. i = 5 \/ 5 < i
      OBVIOUS
    <3>2. Place(spot(5)) \in Int /\ Place(spot(i)) \in Int
      BY <1>1, <2>1
    <3>3. 5 < i => Place(spot(5)) < Place(spot(i))
      BY <1>3, <2>1
    <3> QED  BY <3>1, <3>2, <3>3
  <2>4. Second(spot(5))
    BY <1>1, <1>2, <1>4, <2>1, <2>2, <2>3 DEF Second
  <2>5. ASSUME NEW x \in Served, Second(x) PROVE x = spot(5)
    <3>1. PICK first \in Served :
            /\ First(first) /\ x # first
            /\ \A other \in Served \ {first} : Place(x) <= Place(other)
      BY <2>5 DEF Second
    <3>2. first = spot(4)
      BY <1>4, <2>1, <3>1
    <3>3. PICK i \in 4 .. n : x = spot(i)
      BY <1>2
    <3>4. Place(x) <= Place(spot(5))
      <4>1. spot(5) \in Served \ {first}
        BY <1>1, <2>1, <2>2, <3>2
      <4> QED  BY <3>1, <4>1
    <3>5. i # 4
      BY <3>1, <3>2, <3>3
    <3>6. ~ (5 < i)
      <4>1. Place(spot(5)) \in Int /\ Place(spot(i)) \in Int
        BY <1>1, <2>1
      <4>2. 5 < i => Place(spot(5)) < Place(spot(i))
        BY <1>3, <2>1
      <4> QED  BY <3>3, <3>4, <4>1, <4>2
    <3> QED  BY <3>3, <3>5, <3>6
  <2> QED  BY <2>4, <2>5
<1>6. ASSUME n = 3 PROVE Served = {}
  BY <1>2, <1>6
<1>7. ASSUME n = 4 PROVE \A x \in Served : ~ Second(x)
  <2>1. \A x \in Served : x = spot(4)
    BY <1>2, <1>7
  <2> QED  BY <2>1 DEF Second
<1>8. n > 3 => eth0.at = spot(4) /\ eth0.name = GetDriver(UnitAt(spot(4)))
  BY DEF DriverAt, spot
<1>9. n > 4 => disk.at = spot(5) /\ disk.name = GetDriver(UnitAt(spot(5)))
  BY DEF DriverAt, spot
<1>10. n <= 3 => eth0.name = "none"
  BY <1>n DEF DriverAt
<1>11. n <= 4 => disk.name = "none"
  BY <1>n DEF DriverAt
<1> HIDE DEF n
<1>12. n \in Nat /\ n >= 3
  BY DEF n
<1>13. CASE n = 3
  BY <1>6, <1>10, <1>11, <1>13
<1>14. CASE n = 4
  BY <1>1, <1>4, <1>7, <1>8, <1>11, <1>14
<1>15. CASE n > 4
  <2>1. n > 3 /\ 4 \in 4 .. n /\ 5 \in 4 .. n
    BY <1>12, <1>15
  <2> QED  BY <1>1, <1>4, <1>5, <1>8, <1>9, <1>15, <2>1
<1> QED  BY <1>12, <1>13, <1>14, <1>15

(***************************************************************************)
(* For any number of buses, devices and functions, whatever sits on them,  *)
(* and any number of slots, every function the kernel has a driver for is  *)
(* in the table once, in bus order and with its own ports and memory,      *)
(* unless there was no memory for its driver or the table was full, when   *)
(* the kernel does not run; no register is left changed; and the driver    *)
(* used as that of the network card is one exactly if the first function   *)
(* that got a driver is such a card, and the driver used as that of the    *)
(* disk controller exactly if the second is one.                           *)
(***************************************************************************)
THEOREM DriversFound == PciSpec => []DriversInBusOrder
<1>1. ASSUME WalkInv PROVE DriversInBusOrder
  <2> SUFFICES ASSUME phase \in {"activate", "running"} PROVE DriversInBusOrder
    BY DEF DriversInBusOrder
  <2>0. ScanOK /\ TableOK /\ TakenOK
    BY <1>1 DEF WalkInv
  <2>1. scan.bus = Buses /\ scan.device = 0 /\ bus \in [Looked -> Plugged]
    BY <2>0 DEF ScanOK
  <2>2. Looked = Addresses
    BY <2>1, BusAssumption DEF Looked, Addresses
  <2>3. Entered = Served
    <3>1. \A spot \in Positions : Before(spot, Cursor)
      BY <2>1, BusAssumption DEF Positions, Before, Cursor
    <3> QED  BY <3>1 DEF Entered, Served, UnitAt, Positions
  <2>p. Served \subseteq Positions
    BY <2>3 DEF Entered
  <2> DEFINE found == {drivers[i].at : i \in 4 .. Len(drivers)}
  <2>4. \A i, j \in 4 .. Len(drivers) : i < j => Place(drivers[i].at) < Place(drivers[j].at)
    <3> SUFFICES ASSUME NEW i \in 4 .. Len(drivers), NEW j \in 4 .. Len(drivers), i < j
                 PROVE  Place(drivers[i].at) < Place(drivers[j].at)
      OBVIOUS
    <3>1. drivers[i].at \in Positions /\ drivers[j].at \in Positions
      BY <2>0 DEF TableOK, Entered
    <3>2. Before(drivers[i].at, drivers[j].at)
      BY <2>0 DEF TableOK
    <3> QED  BY <3>1, <3>2, PlacesInOrder
  <2>5. found \subseteq Served
    BY <2>0, <2>3 DEF TableOK
  <2>6. \A i \in 4 .. Len(drivers) : RightDriver(drivers[i])
    BY <2>0 DEF TableOK
  <2>7. \A d \in Addresses, f \in 0 .. Functions - 1 : bus[d][f] \in Units \union {Absent}
    BY <2>1, <2>2 DEF Plugged
  <2>8. ASSUME NEW spot \in Served \ found
        PROVE  overrun /\ Len(drivers) = DriverSlots /\ \A x \in found : Place(x) < Place(spot)
    <3>1. overrun /\ \A i \in 4 .. Len(drivers) : Before(drivers[i].at, spot)
      BY <2>0, <2>3 DEF TableOK
    <3>2. Len(drivers) = DriverSlots
      BY <2>0, <3>1 DEF TableOK
    <3>3. ASSUME NEW x \in found PROVE Place(x) < Place(spot)
      <4>1. PICK i \in 4 .. Len(drivers) : x = drivers[i].at
        OBVIOUS
      <4>2. Before(x, spot) /\ x \in Positions /\ spot \in Positions
        BY <2>5, <2>p, <3>1, <4>1
      <4> QED  BY <4>2, PlacesInOrder
    <3> QED  BY <3>1, <3>2, <3>3
  <2>9. ASSUME phase = "running"
        PROVE  /\ found = Served
               /\ \A x \in Served : (First(x) => eth0.at = x) /\ (Second(x) => disk.at = x)
               /\ eth0.name = "am79c973" <=>
                    \E x \in Served : First(x) /\ GetDriver(UnitAt(x)) = "am79c973"
               /\ disk.name = "ahci" <=>
                    \E x \in Served : Second(x) /\ GetDriver(UnitAt(x)) = "ahci"
    <3>1. ~ overrun /\ eth0 = DriverAt(3) /\ disk = DriverAt(4)
      BY <2>0, <2>9 DEF TakenOK
    <3>2. found = Served
      BY <2>5, <2>8, <3>1
    <3>3. \A i \in 4 .. Len(drivers) :
            drivers[i].name = GetDriver(UnitAt(drivers[i].at)) /\ drivers[i].at \in Served
      BY <2>5, <2>6 DEF RightDriver
    <3>4. \A x \in Served : Place(x) \in Int
      BY <2>p, PlaceType
    <3>5. Len(drivers) \in Nat /\ Len(drivers) >= 3
      BY <2>0 DEF TableOK
    <3>n. Known("none").name = "none"
      BY DEF Known
    <3> QED  BY <2>4, <3>1, <3>2, <3>3, <3>4, <3>5, <3>n, TakenInOrder
  <2> QED  BY <2>1, <2>2, <2>4, <2>5, <2>6, <2>7, <2>8, <2>9
           DEF DriversInBusOrder, RightDriver, PortAddresses
<1> QED  BY <1>1, WalkInvHolds, PTL

-----------------------------------------------------------------------------
(* The ATA drive. *)

Commands == {"identify", "read", "write", "flush"}

AtaTypeOK ==
  /\ drive \in [state : {"ready", "busy", "data", "wants", "zero", "ones"},
                command : Commands \union {"none"}, error : BOOLEAN, words : Nat]
  /\ ata \in [op : Commands \union {"none"}, step : {"none", "poll", "words"}, count : Nat]

Reading == ata.op \in {"read", "identify"}

(***************************************************************************)
(* A drive that has words for the code, or is about to, has them for the   *)
(* operation under way, which has not failed, and has all of them.         *)
(***************************************************************************)
AtaInv ==
  /\ AtaTypeOK
  /\ ata.op = "none" <=> ata.step = "none"
  /\ drive.state = "busy" =>
       /\ ~ drive.error
       /\ drive.command \notin {"write", "flush"} => Reading /\ ata.step = "poll"
  /\ drive.state = "data" => Reading /\ ~ drive.error /\ drive.words = SectorWords

LEMMA SectorFacts == SectorBytes \in Nat \ {0} /\ SectorWords \in Nat
BY SectorAssumption DEF SectorWords

(* The two loops take a sector, whatever part of it was asked for. *)
LEMMA WordsOfSector ==
  ASSUME NEW count \in Nat
  PROVE  Words(count) = SectorWords
<1>1. SectorBytes \in Nat /\ SectorBytes % 2 = 0
  BY SectorAssumption
<1>2. CASE count % 2 = 0
  BY <1>1, <1>2 DEF Words, FirstWords, SectorWords
<1>3. CASE count % 2 = 1
  BY <1>1, <1>3 DEF Words, FirstWords, SectorWords
<1> QED  BY <1>2, <1>3

LEMMA DriveRecord ==
  ASSUME NEW state \in {"ready", "busy", "data", "wants", "zero", "ones"},
         NEW command \in Commands \union {"none"}, NEW error \in BOOLEAN, NEW words \in Nat
  PROVE  /\ [state |-> state, command |-> command, error |-> error, words |-> words] \in
              [state : {"ready", "busy", "data", "wants", "zero", "ones"},
               command : Commands \union {"none"}, error : BOOLEAN, words : Nat]
OBVIOUS

LEMMA AtaInitInv == AtaInit => AtaInv
<1> SUFFICES ASSUME AtaInit PROVE AtaInv
  OBVIOUS
<1>1. PICK state \in {"ready", "zero", "ones"} :
        drive = [state |-> state, command |-> "none", error |-> FALSE, words |-> 0]
  BY DEF AtaInit
<1>2. AtaTypeOK
  BY <1>1, DriveRecord DEF AtaInit, AtaTypeOK, Commands, Resting
<1> QED  BY <1>1, <1>2 DEF AtaInit, AtaInv, Resting

(* A command is given by a code that has none under way, to a drive that   *)
(* is present or keeps its state.                                          *)
LEMMA StartInv ==
  ASSUME AtaInv, NEW op \in Commands, Start(op),
         NEW after \in Commands \union {"none"}, NEW at1 \in {"none", "poll", "words"},
         NEW count \in Nat,
         ata' = [op |-> after, step |-> at1, count |-> count],
         after = "none" <=> at1 = "none",
         DriveFree,
         op \in {"identify", "read"} /\ Present => after = op /\ at1 = "poll"
  PROVE  AtaInv'
<1>1. /\ ata.op = "none" /\ drive.state # "data"
      /\ ata'.op = after /\ ata'.step = at1
      /\ ata' \in [op : Commands \union {"none"}, step : {"none", "poll", "words"}, count : Nat]
  BY DEF DriveFree, AtaInv, Reading
<1>2. CASE Present
  <2>1. drive' = [state |-> "busy", command |-> op, error |-> FALSE, words |-> 0]
    BY <1>2 DEF Start
  <2>2. AtaTypeOK'
    BY <1>1, <2>1, DriveRecord DEF AtaTypeOK
  <2>3. drive'.state = "busy" /\ drive'.command = op /\ ~ drive'.error
    BY <2>1
  <2>4. op \notin {"write", "flush"} => Reading' /\ ata'.step = "poll"
    BY <1>1, <1>2 DEF Reading, Commands
  <2> QED  BY <1>1, <2>2, <2>3, <2>4 DEF AtaInv
<1>3. CASE ~ Present
  <2>1. drive' = drive /\ drive.state \in {"zero", "ones"}
    BY <1>3 DEF Start, Present
  <2> QED  BY <1>1, <2>1 DEF AtaInv, AtaTypeOK
<1> QED  BY <1>2, <1>3

LEMMA CommandInv ==
  ASSUME AtaInv, DriveFree,
         \/ Identify
         \/ \E sector, count \in Nat : Read28(sector, count)
         \/ \E sector, count \in Nat : Write28(sector, count)
         \/ Flush
  PROVE  AtaInv'
<1> USE SectorFacts DEF Commands, Resting
<1>0. UNCHANGED <<drive, ata>> => AtaInv'
  BY DEF AtaInv, AtaTypeOK, Reading
<1>1. CASE Identify
  <2>1. CASE drive.state = "ones"
    BY <1>0, <1>1, <2>1 DEF Identify
  <2>2. CASE drive.state # "ones"
    <3>1. CASE Present
      BY <1>1, <2>2, <3>1, StartInv DEF Identify
    <3>2. CASE ~ Present
      <4>1. Start("identify") /\ ata' = [op |-> "none", step |-> "none", count |-> 0]
        BY <1>1, <2>2, <3>2 DEF Identify
      <4> QED  BY <3>2, <4>1, StartInv
    <3> QED  BY <3>1, <3>2
  <2> QED  BY <2>1, <2>2
<1>2. CASE \E sector, count \in Nat : Read28(sector, count)
  <2> PICK sector \in Nat, count \in Nat : Read28(sector, count)
    BY <1>2
  <2>1. CASE Wide(sector)
    BY <1>0, <2>1 DEF Read28, ataVars
  <2>2. CASE ~ Wide(sector)
    BY <2>2, StartInv DEF Read28
  <2> QED  BY <2>1, <2>2
<1>3. CASE \E sector, count \in Nat : Write28(sector, count)
  <2> PICK sector \in Nat, count \in Nat : Write28(sector, count)
    BY <1>3
  <2>1. CASE Wide(sector) \/ count > SectorBytes
    BY <1>0, <2>1 DEF Write28, ataVars
  <2>2. CASE ~ (Wide(sector) \/ count > SectorBytes)
    BY <2>2, StartInv DEF Write28
  <2> QED  BY <2>1, <2>2
<1>4. CASE Flush
  <2>1. CASE drive.state = "zero"
    BY <1>4, <2>1, StartInv DEF Flush
  <2>2. CASE drive.state # "zero"
    BY <1>4, <2>2, StartInv DEF Flush
  <2> QED  BY <2>1, <2>2
<1> QED  BY <1>1, <1>2, <1>3, <1>4

LEMMA DriveInv ==
  ASSUME AtaInv, AtaCode \/ DriveAnswers
  PROVE  AtaInv'
<1> USE SectorFacts DEF Commands, Reading, Resting, AtaTypeOK
<1>1. CASE AtaPoll
  BY <1>1 DEF AtaPoll, Busy, Error, AtaInv
<1>2. CASE AtaWords
  <2>1. Words(ata.count) = SectorWords
    BY WordsOfSector DEF AtaInv
  <2> QED  BY <1>2, <2>1 DEF AtaWords, AtaInv
<1>3. CASE DriveAnswers
  BY <1>3 DEF DriveAnswers, AtaInv
<1> QED  BY <1>1, <1>2, <1>3 DEF AtaCode

(* The registers of the sector number. *)
LbaOK == lba \in [low : Nat, mid : Nat, high : 0 .. 255, device : Nat]

LEMMA ByteTypes ==
  ASSUME NEW sector \in Nat
  PROVE  /\ FirstByte(sector) \in 0 .. 255 /\ SecondByte(sector) \in 0 .. 255
         /\ ThirdByte(sector) \in 0 .. 255 /\ LastBits(sector) \in 0 .. 15
<1>1. FirstByte(sector) \in 0 .. 255 /\ SecondByte(sector) \in 0 .. 255
  BY SMTT(30) DEF FirstByte, SecondByte
<1>2. ThirdByte(sector) \in 0 .. 255 /\ LastBits(sector) \in 0 .. 15
  BY SMTT(30) DEF ThirdByte, LastBits
<1> QED  BY <1>1, <1>2

LEMMA BytesOfNumber ==
  ASSUME NEW sector \in Nat, ~ Wide(sector)
  PROVE  sector = LastBits(sector) * 16777216 + ThirdByte(sector) * 65536
                    + SecondByte(sector) * 256 + FirstByte(sector)
BY SMTT(60) DEF FirstByte, SecondByte, ThirdByte, LastBits, Wide

LEMMA RegistersWritten ==
  ASSUME LbaOK, NEW sector \in Nat, WriteSector(sector)
  PROVE  /\ LbaOK' /\ lba'.high = lba.high /\ lba'.device = LastBits(sector)
         /\ lba'.low = ThirdByte(sector) /\ lba'.mid = SecondByte(sector)
<1> DEFINE d == LastBits(sector)
           f == FirstByte(sector)
           m == SecondByte(sector)
           t == ThirdByte(sector)
<1>1. d \in Nat /\ f \in Nat /\ m \in Nat /\ t \in Nat
  <2>1. /\ d \in 0 .. 15 /\ f \in 0 .. 255 /\ m \in 0 .. 255 /\ t \in 0 .. 255
    BY ByteTypes
  <2> HIDE DEF d, f, m, t
  <2> QED  BY <2>1
<1>2. lba' = [lba EXCEPT !.device = d, !.low = f, !.mid = m, !.low = t]
  BY DEF WriteSector
<1> HIDE DEF d, f, m, t
<1>3. /\ lba' \in [low : Nat, mid : Nat, high : 0 .. 255, device : Nat]
      /\ lba'.high = lba.high /\ lba'.device = d /\ lba'.low = t /\ lba'.mid = m
  BY <1>1, <1>2 DEF LbaOK
<1> QED  BY <1>3 DEF LbaOK, d, m, t

(* What becomes of a number on its way through the registers. *)
LEMMA SectorSent ==
  ASSUME LbaOK, NEW sector \in Nat, ~ Wide(sector), WriteSector(sector)
  PROVE  SectorIn(lba') \in Int /\ (SectorIn(lba') = sector <=> Survives(sector))
<1> DEFINE d == LastBits(sector)
           f == FirstByte(sector)
           m == SecondByte(sector)
           t == ThirdByte(sector)
           h == lba.high
<1>1. /\ d \in 0 .. 15 /\ f \in 0 .. 255 /\ m \in 0 .. 255 /\ t \in 0 .. 255 /\ h \in 0 .. 255
      /\ sector = d * 16777216 + t * 65536 + m * 256 + f
  BY ByteTypes, BytesOfNumber, SMTT(30) DEF LbaOK
<1>2. SectorIn(lba') = d * 16777216 + h * 65536 + m * 256 + t
  BY RegistersWritten, SMTT(30) DEF SectorIn
<1>3. Survives(sector) <=> f = h /\ t = h
  BY DEF Survives
<1> HIDE DEF d, f, m, t, h
<1> QED  BY <1>1, <1>2, <1>3, SMTT(30)

(* No step writes the high register. *)
LEMMA LbaKept ==
  ASSUME LbaOK, NEW sector \in Nat,
         \/ UNCHANGED lba
         \/ lba' = [lba EXCEPT !.device = 0]
         \/ lba' = [lba EXCEPT !.device = 0, !.low = 0, !.mid = 0]
         \/ WriteSector(sector)
  PROVE  LbaOK' /\ lba'.high = lba.high
<1>1. CASE WriteSector(sector)
  BY <1>1, RegistersWritten
<1>2. CASE UNCHANGED lba
  BY <1>2 DEF LbaOK
<1>3. CASE lba' = [lba EXCEPT !.device = 0]
  BY <1>3 DEF LbaOK
<1>4. CASE lba' = [lba EXCEPT !.device = 0, !.low = 0, !.mid = 0]
  BY <1>4 DEF LbaOK
<1> QED  BY <1>1, <1>2, <1>3, <1>4

-----------------------------------------------------------------------------
(* The partitions of the ATA drive. *)

Requests == [number : Nat, sector : Int]
Walks    == [cluster : Int, asked : Seq(Requests)]

FatTypeOK ==
  /\ at \in {"start", "magic", "partition", "boot", "entry", "sector", "table", "end"}
  /\ perCluster \in Nat /\ dataStart \in Nat
  /\ size \in Int /\ left \in Int /\ cluster \in Int /\ offset \in Nat
  /\ asked \in Seq(Requests) /\ walked \in Seq(Walks)

\* The drive reads the sectors it was asked for whose numbers survive.
SentRight(reads) ==
  \A i \in 1 .. Len(reads) :
    reads[i].sector = reads[i].number <=> Survives(reads[i].number)

WalkedOK ==
  \A k \in 1 .. Len(walked) :
    /\ Len(walked[k].asked) = perCluster + 1
    /\ FromFirst(walked[k].cluster, walked[k].asked) /\ SentRight(walked[k].asked)

HistoryOK == FromFirst(cluster, asked) /\ SentRight(asked) /\ WalkedOK

(***************************************************************************)
(* Where a file stands.  While sectors are read, what was asked for in the *)
(* cluster is what lies before the offset; when the table is read, all of  *)
(* the cluster and one sector more, or the rest of the file.  What is left *)
(* to read and what was read make the file.                                *)
(***************************************************************************)
FileInv ==
  /\ FatTypeOK /\ HistoryOK
  /\ at \notin {"sector", "table"} \/ perCluster = 0 => asked = <<>> /\ walked = <<>>
  /\ perCluster # 0 /\ at = "sector" =>
       /\ 0 < left /\ offset <= perCluster /\ Len(asked) = offset
       /\ Len(walked) * perCluster + offset = size - left
  /\ perCluster # 0 /\ at = "table" =>
       IF left > 0
       THEN Len(asked) = perCluster + 1 /\ Len(walked) * perCluster + perCluster = size - left
       ELSE Len(asked) <= perCluster /\ Len(walked) * perCluster + Len(asked) = size

LEMMA Product ==
  ASSUME NEW c \in Nat, NEW p \in Nat
  PROVE  c * p \in Nat /\ (c + 1) * p = c * p + p
OBVIOUS

LEMMA SectorNumberType ==
  ASSUME FatTypeOK, NEW c \in Int, NEW o \in Int
  PROVE  FileSector(c, o) \in Nat
<1>1. perCluster * (c - 2) \in Int
  BY DEF FatTypeOK
<1> DEFINE n == dataStart + perCluster * (c - 2) + o
<1>2. n \in Int
  BY <1>1 DEF FatTypeOK
<1> HIDE DEF n
<1>3. n % Numbers \in 0 .. Numbers - 1
  BY <1>2, FatAssumption
<1> QED  BY <1>3, FatAssumption DEF FileSector, n

(* The history is kept by steps that leave it, the boot sector and the high *)
(* register alone.                                                          *)
LEMMA HistoryKept ==
  ASSUME HistoryOK, UNCHANGED <<perCluster, dataStart, walked>>, lba'.high = lba.high
  PROVE  /\ \A c, o : FileSector(c, o)' = FileSector(c, o)
         /\ \A n : Survives(n)' <=> Survives(n)
         /\ WalkedOK'
<1>1. \A c, o : FileSector(c, o)' = FileSector(c, o)
  BY DEF FileSector
<1>2. \A n : Survives(n)' <=> Survives(n)
  BY DEF Survives
<1>3. WalkedOK
  BY DEF HistoryOK
<1>4. WalkedOK'
  BY <1>1, <1>2, <1>3 DEF WalkedOK, FromFirst, SentRight
<1> QED  BY <1>1, <1>2, <1>4

\* No history: no file is being read, or one of which nothing is recorded.
LEMMA NoHistory ==
  ASSUME asked' = <<>>, walked' = <<>>
  PROVE  HistoryOK'
BY DEF HistoryOK, WalkedOK, FromFirst, SentRight

LEMMA ReadSectorInv ==
  ASSUME FileInv, LbaOK, ReadSector
  PROVE  FileInv'
<1> USE DEF ReadSector
<1> DEFINE number == FileSector(cluster, offset)
           e == Request(number)
<1>1. FatTypeOK /\ HistoryOK
  BY DEF FileInv
<1>2. number \in Nat
  BY <1>1, SectorNumberType DEF FatTypeOK
<1>0. PICK now : now = Counted(offset, left)
  OBVIOUS
<1>3. /\ at = "sector" /\ offset' = offset + 1 /\ Read28(number, SectorBytes)
      /\ UNCHANGED <<perCluster, dataStart, size, cluster, walked>>
      /\ left' = IF offset + 1 > perCluster THEN left ELSE left - 1
      /\ at' = IF offset + 1 > perCluster \/ left' <= 0 THEN "table" ELSE "sector"
      /\ asked' = IF perCluster = 0 THEN asked ELSE Append(asked, e)
  BY <1>0 DEF Counted, boot
<1>4. lba'.high = lba.high
  BY <1>2, <1>3, LbaKept DEF Read28, ataVars
<1>5. e \in Requests /\ e.number = number /\ (e.sector = e.number <=> Survives(number))
  <2>1. CASE Wide(number)
    BY <1>2, <2>1 DEF Request, Refused, Requests, Survives
  <2>2. CASE ~ Wide(number)
    <3>1. WriteSector(number)
      BY <1>3, <2>2 DEF Read28
    <3>2. SectorIn(lba') \in Int /\ (SectorIn(lba') = number <=> Survives(number))
      BY <1>2, <2>2, <3>1, SectorSent
    <3>3. e = [number |-> number, sector |-> SectorIn(lba')]
      BY <2>2 DEF Request
    <3> HIDE DEF e, number
    <3> QED  BY <1>2, <3>2, <3>3 DEF Requests
  <2> QED  BY <2>1, <2>2
<1> HIDE DEF e
<1>6. CASE perCluster = 0
  <2>1. asked' = <<>> /\ walked' = <<>>
    BY <1>3, <1>6 DEF FileInv
  <2>2. FatTypeOK'
    BY <1>1, <1>3, <1>6 DEF FatTypeOK
  <2> QED  BY <1>3, <1>6, <2>1, <2>2, NoHistory DEF FileInv
<1>7. CASE perCluster # 0
  <2>1. /\ asked' = Append(asked, e) /\ asked' \in Seq(Requests)
        /\ Len(asked') = Len(asked) + 1 /\ asked'[Len(asked) + 1] = e
        /\ \A i \in 1 .. Len(asked) : asked'[i] = asked[i]
        /\ Len(asked) = offset /\ Len(asked) \in Nat /\ Len(walked) \in Nat
    BY <1>1, <1>3, <1>5, <1>7 DEF FatTypeOK, FileInv
  <2>2. FatTypeOK'
    BY <1>1, <1>3, <2>1 DEF FatTypeOK
  <2>3. HistoryOK'
    <3>1. /\ \A c, o : FileSector(c, o)' = FileSector(c, o)
          /\ \A n : Survives(n)' <=> Survives(n)
          /\ WalkedOK'
      BY <1>1, <1>3, <1>4, HistoryKept
    <3>2. ASSUME NEW i \in 1 .. Len(asked')
          PROVE  /\ asked'[i].number = FileSector(cluster, i - 1)
                 /\ asked'[i].sector = asked'[i].number <=> Survives(asked'[i].number)
      <4>1. CASE i = Len(asked) + 1
        <5>1. i - 1 = offset /\ asked'[i] = e
          BY <2>1, <4>1
        <5> QED  BY <1>5, <5>1
      <4>2. CASE i \in 1 .. Len(asked)
        <5>1. asked'[i] = asked[i]
          BY <2>1, <4>2
        <5> QED  BY <1>1, <4>2, <5>1 DEF HistoryOK, FromFirst, SentRight
      <4> QED  BY <2>1, <4>1, <4>2
    <3>3. FromFirst(cluster, asked)' /\ SentRight(asked)'
      BY <1>3, <3>1, <3>2 DEF FromFirst, SentRight
    <3> QED  BY <3>1, <3>3 DEF HistoryOK
  <2>4. /\ 0 < left /\ offset <= perCluster /\ Len(walked) * perCluster + offset = size - left
        /\ Len(walked) * perCluster \in Nat
        /\ perCluster \in Nat /\ offset \in Nat /\ left \in Int /\ size \in Int
    BY <1>1, <1>3, <1>7, <2>1, Product DEF FatTypeOK, FileInv
  <2> DEFINE w == Len(walked) * perCluster
  <2>5. Len(walked') * perCluster' = w
    BY <1>3
  <2> HIDE DEF w
  <2>6. CASE offset < perCluster
    <3>1. left' = left - 1 /\ at' = IF left' <= 0 THEN "table" ELSE "sector"
      BY <1>3, <2>4, <2>6
    <3> QED  BY <1>3, <1>7, <2>1, <2>2, <2>3, <2>4, <2>5, <2>6, <3>1 DEF FileInv, w
  <2>7. CASE offset = perCluster
    <3>1. left' = left /\ at' = "table"
      BY <1>3, <2>4, <2>7
    <3> QED  BY <1>3, <1>7, <2>1, <2>2, <2>3, <2>4, <2>5, <2>7, <3>1 DEF FileInv, w
  <2> QED  BY <2>4, <2>6, <2>7
<1> QED  BY <1>6, <1>7

LEMMA ReadTableInv ==
  ASSUME FileInv, LbaOK, ReadTable
  PROVE  FileInv'
<1> USE FatAssumption DEF ReadTable
<1> DEFINE e == [cluster |-> cluster, asked |-> asked]
<1>1. FatTypeOK /\ HistoryOK
  BY DEF FileInv
<1>2. /\ at = "table" /\ UNCHANGED <<perCluster, dataStart, size, left>>
      /\ cluster' \in Int /\ offset' = 0 /\ asked' = <<>>
      /\ at' = IF left > 0 THEN "sector" ELSE "entry"
  BY DEF boot
<1>3. PICK sector \in Nat : Read28(sector, SectorBytes)
  BY SectorAssumption
<1>4. lba'.high = lba.high
  BY <1>3, LbaKept DEF Read28, ataVars
<1>5. e \in Walks
  BY <1>1 DEF FatTypeOK, Walks
<1>6. CASE left <= 0 \/ perCluster = 0
  <2>1. walked' = <<>>
    BY <1>6
  <2>2. FatTypeOK'
    BY <1>1, <1>2, <2>1 DEF FatTypeOK
  <2>3. at' = "entry" \/ perCluster' = 0
    BY <1>1, <1>2, <1>6 DEF FatTypeOK
  <2> QED  BY <1>2, <2>1, <2>2, <2>3, NoHistory DEF FileInv
<1>7. CASE ~ (left <= 0 \/ perCluster = 0)
  <2>0. left > 0 /\ perCluster # 0 /\ perCluster \in Nat /\ Len(walked) \in Nat
    BY <1>1, <1>7 DEF FatTypeOK
  <2>1. walked' = Append(walked, e)
    BY <1>7
  <2> HIDE DEF e
  <2>2. /\ walked' \in Seq(Walks) /\ Len(walked') = Len(walked) + 1
        /\ walked'[Len(walked) + 1] = e
        /\ \A k \in 1 .. Len(walked) : walked'[k] = walked[k]
    BY <1>1, <1>5, <2>1 DEF FatTypeOK
  <2>3. FatTypeOK'
    BY <1>1, <1>2, <2>2 DEF FatTypeOK
  <2>4. Len(asked) = perCluster + 1 /\ Len(walked) * perCluster + perCluster = size - left
    BY <1>2, <2>0 DEF FileInv
  <2>5. HistoryOK'
    <3>1. /\ \A c, o : FileSector(c, o)' = FileSector(c, o)
          /\ \A n : Survives(n)' <=> Survives(n)
      BY <1>2, <1>4 DEF FileSector, Survives
    <3>2. ASSUME NEW k \in 1 .. Len(walked')
          PROVE  /\ Len(walked'[k].asked) = perCluster + 1
                 /\ FromFirst(walked'[k].cluster, walked'[k].asked)
                 /\ SentRight(walked'[k].asked)
      <4>1. CASE k = Len(walked) + 1
        BY <1>1, <2>2, <2>4, <4>1 DEF HistoryOK, e
      <4>2. CASE k \in 1 .. Len(walked)
        BY <1>1, <2>2, <4>2 DEF HistoryOK, WalkedOK
      <4> QED  BY <2>0, <2>2, <4>1, <4>2
    <3>3. WalkedOK'
      BY <1>2, <3>1, <3>2 DEF WalkedOK, FromFirst, SentRight
    <3>4. FromFirst(cluster, asked)' /\ SentRight(asked)'
      BY <1>2 DEF FromFirst, SentRight
    <3> QED  BY <3>3, <3>4 DEF HistoryOK
  <2>6. (Len(walked) + 1) * perCluster = Len(walked) * perCluster + perCluster
    BY <2>0, Product
  <2>7. /\ Len(walked') * perCluster' + 0 = size' - left' /\ Len(asked') = 0
        /\ at' = "sector" /\ perCluster' # 0 /\ offset' = 0
    <3>1. Len(walked') * perCluster' = size - left
      BY <1>2, <2>2, <2>4, <2>6
    <3>2. size - left \in Int
      BY <1>1 DEF FatTypeOK
    <3> QED  BY <1>2, <2>0, <3>1, <3>2
  <2> QED  BY <1>2, <2>0, <2>3, <2>5, <2>7 DEF FileInv
<1> QED  BY <1>6, <1>7

LEMMA FatCodeInv ==
  ASSUME FileInv, LbaOK, FatCode
  PROVE  FileInv'
<1>0. FatTypeOK
  BY DEF FileInv
<1>1. ASSUME at \notin {"sector", "table"}, UNCHANGED <<asked, walked>>, FatTypeOK',
             \/ at' \notin {"sector", "table"}
             \/ at' = "sector" /\ size' > 0 /\ left' = size' /\ offset' = 0
      PROVE  FileInv'
  <2>1. asked' = <<>> /\ walked' = <<>>
    BY <1>1 DEF FileInv
  <2>2. HistoryOK'
    BY <2>1, NoHistory
  <2>3. CASE at' \notin {"sector", "table"}
    BY <1>1, <2>1, <2>2, <2>3 DEF FileInv
  <2>4. CASE at' \in {"sector", "table"}
    <3>1. perCluster' \in Nat /\ left' \in Int /\ size' \in Int /\ size' > 0 /\ left' = size'
          /\ offset' = 0 /\ at' = "sector"
      BY <1>1, <2>4 DEF FatTypeOK
    <3>2. Len(walked') * perCluster' + offset' = size' - left'
      BY <2>1, <3>1
    <3> QED  BY <1>1, <2>1, <2>2, <2>4, <3>1, <3>2 DEF FileInv
  <2> QED  BY <2>3, <2>4
<1>2. CASE ReadPartitions \/ CheckMagic \/ NextPartition
  <2>1. /\ at \notin {"sector", "table"} /\ at' \notin {"sector", "table"}
        /\ UNCHANGED <<asked, walked>> /\ FatTypeOK'
    BY <1>0, <1>2 DEF ReadPartitions, CheckMagic, NextPartition, file, boot, FatTypeOK
  <2> QED  BY <1>1, <2>1
<1>3. CASE ReadRoot
  <2>1. /\ at \notin {"sector", "table"} /\ at' \notin {"sector", "table"}
        /\ UNCHANGED <<asked, walked>> /\ FatTypeOK'
    BY <1>0, <1>3, FatAssumption, SectorAssumption DEF ReadRoot, file, FatTypeOK
  <2> QED  BY <1>1, <2>1
<1>4. CASE NextEntry
  <2>1. at \notin {"sector", "table"} /\ UNCHANGED <<asked, walked, perCluster, dataStart>>
    BY <1>4 DEF NextEntry, file, boot
  <2>3. at' \in {"partition", "entry", "sector"}
    BY <1>4 DEF NextEntry
  <2>4. \/ UNCHANGED <<size, left, cluster, offset>>
        \/ size' \in FileSizes /\ left' = size' /\ cluster' \in Clusters /\ offset' = 0
    BY <1>4 DEF NextEntry, file
  <2>5. size' \in Int /\ left' \in Int /\ cluster' \in Int /\ offset' \in Nat
    <3>1. CASE UNCHANGED <<size, left, cluster, offset>>
      BY <1>0, <3>1 DEF FatTypeOK
    <3>2. CASE size' \in FileSizes /\ left' = size' /\ cluster' \in Clusters /\ offset' = 0
      BY <3>2, FatAssumption
    <3> QED  BY <2>4, <3>1, <3>2
  <2>6. FatTypeOK'
    BY <1>0, <2>1, <2>3, <2>5 DEF FatTypeOK
  <2>2. \/ at' \notin {"sector", "table"}
        \/ at' = "sector" /\ size' > 0 /\ left' = size' /\ offset' = 0
    BY <1>4 DEF NextEntry, file
  <2> QED  BY <1>1, <2>1, <2>2, <2>6
<1> QED  BY <1>2, <1>3, <1>4, ReadSectorInv, ReadTableInv DEF FatCode

-----------------------------------------------------------------------------
(* What the invariants are for. *)

LEMMA DiskInvNext ==
  ASSUME AtaInv, LbaOK, FileInv, [FatNext]_diskVars
  PROVE  AtaInv' /\ LbaOK' /\ FileInv'
<1> USE DEF Reading
<1>b. BpbBytes \in Nat /\ SectorBytes \in Nat /\ \A sector \in SectorNumbers : sector \in Nat
  BY SectorAssumption, FatAssumption
<1>0. UNCHANGED ataVars => AtaInv' /\ LbaOK' /\ lba'.high = lba.high
  BY DEF AtaInv, AtaTypeOK, LbaOK, ataVars
<1>f. UNCHANGED fatVars /\ lba'.high = lba.high => FileInv'
  <2> SUFFICES ASSUME UNCHANGED fatVars, lba'.high = lba.high PROVE FileInv'
    OBVIOUS
  <2>1. FatTypeOK' /\ HistoryOK
    BY DEF FileInv, FatTypeOK, fatVars
  <2>2. HistoryOK'
    <3>1. /\ \A c, o : FileSector(c, o)' = FileSector(c, o)
          /\ \A n : Survives(n)' <=> Survives(n)
          /\ WalkedOK'
      BY <2>1, HistoryKept DEF fatVars
    <3>2. FromFirst(cluster, asked)' /\ SentRight(asked)'
      <4>1. FromFirst(cluster, asked) /\ SentRight(asked)
        BY <2>1 DEF HistoryOK
      <4>2. asked' = asked /\ cluster' = cluster
        BY DEF fatVars
      <4> QED  BY <3>1, <4>1, <4>2 DEF FromFirst, SentRight
    <3> QED  BY <3>1, <3>2 DEF HistoryOK
  <2> QED  BY <2>1, <2>2 DEF FileInv, fatVars
<1>c. ASSUME \/ Identify \/ Flush
             \/ \E sector, count \in Nat : Read28(sector, count)
             \/ \E sector, count \in Nat : Write28(sector, count)
      PROVE  LbaOK' /\ lba'.high = lba.high
  <2>1. \E sector \in Nat :
          \/ UNCHANGED lba
          \/ lba' = [lba EXCEPT !.device = 0]
          \/ lba' = [lba EXCEPT !.device = 0, !.low = 0, !.mid = 0]
          \/ WriteSector(sector)
    BY <1>c DEF Identify, Flush, Read28, Write28, ataVars
  <2> QED  BY <2>1, LbaKept
<1>1. CASE FatCode
  <2>1. \/ UNCHANGED ataVars
        \/ DriveFree /\ \E sector, count \in Nat : Read28(sector, count)
    <3>1. CASE ReadSector
      <4>0. FatTypeOK
        BY DEF FileInv
      <4>2. cluster \in Int /\ offset \in Int
        BY <4>0 DEF FatTypeOK
      <4>1. FileSector(cluster, offset) \in Nat
        BY <4>0, <4>2, SectorNumberType
      <4> QED  BY <1>b, <3>1, <4>1 DEF ReadSector
    <3>2. CASE ~ ReadSector
      BY <1>1, <1>b, <3>2 DEF FatCode, ReadPartitions, CheckMagic, NextPartition, ReadRoot,
           NextEntry, ReadTable
    <3> QED  BY <3>1, <3>2
  <2> QED  BY <1>0, <1>1, <1>c, <2>1, CommandInv, FatCodeInv
<1>2. CASE AtaUser
  <2>1. /\ DriveFree /\ UNCHANGED fatVars
        /\ \/ Identify \/ Flush
           \/ \E sector, count \in Nat : Write28(sector, count)
    BY <1>2, <1>b DEF AtaUser
  <2> QED  BY <1>c, <1>f, <2>1, CommandInv
<1>3. CASE AtaStep
  <2>1. UNCHANGED lba /\ UNCHANGED fatVars /\ (AtaCode \/ DriveAnswers)
    BY <1>3 DEF AtaStep, AtaCode, AtaPoll, AtaWords, DriveAnswers
  <2>2. LbaOK' /\ lba'.high = lba.high
    BY <2>1 DEF LbaOK
  <2> QED  BY <1>f, <2>1, <2>2, DriveInv
<1>4. CASE UNCHANGED diskVars
  BY <1>4, <1>0, <1>f DEF diskVars
<1> QED  BY <1>1, <1>2, <1>3, <1>4 DEF FatNext

LEMMA DiskInvHolds == FatSpec => [](AtaInv /\ LbaOK /\ FileInv)
<1>1. AtaInit /\ FatInit => AtaInv /\ LbaOK /\ FileInv
  <2> SUFFICES ASSUME AtaInit, FatInit PROVE LbaOK /\ FileInv
    BY AtaInitInv
  <2>1. LbaOK
    <3>1. lba \in [low : {0}, mid : {0}, high : HighRegisters, device : {0}]
      BY DEF AtaInit
    <3>2. PICK high \in HighRegisters : lba = [low |-> 0, mid |-> 0, high |-> high, device |-> 0]
      BY <3>1
    <3>3. high \in 0 .. 255
      BY SectorAssumption
    <3> QED  BY <3>2, <3>3 DEF LbaOK
  <2>2. FileInv
    BY FatAssumption DEF FatInit, FileInv, FatTypeOK, HistoryOK, WalkedOK, FromFirst, SentRight
  <2> QED  BY <2>1, <2>2
<1> QED  BY <1>1, DiskInvNext, PTL DEF FatSpec

(***************************************************************************)
(* Whatever part of a sector was asked for, by whatever users of the       *)
(* driver one after the other, and whether the drive answers or fails, a   *)
(* read leaves no word of the sector in the drive.                         *)
(***************************************************************************)
THEOREM Emptied == FatSpec => []DriveEmptied
<1>1. AtaInv => DriveEmptied
  BY DEF AtaInv, DriveEmptied, Reading
<1> QED  BY <1>1, DiskInvHolds, PTL

(* Where a file lies in one piece, the sector behind a cluster is its next. *)
LEMMA NextOfFile ==
  ASSUME FatTypeOK, NEW c \in Int
  PROVE  FileSector(c, perCluster) = FileSector(c + 1, 0)
<1>1. perCluster \in Nat /\ dataStart \in Nat
  BY DEF FatTypeOK
<1>2. perCluster * (c - 2) + perCluster = perCluster * ((c + 1) - 2)
  BY <1>1
<1>3. perCluster * (c - 2) \in Int /\ perCluster * ((c + 1) - 2) \in Int
  BY <1>1
<1>4. dataStart + perCluster * (c - 2) + perCluster = dataStart + perCluster * ((c + 1) - 2) + 0
  BY <1>1, <1>2, <1>3
<1> QED  BY <1>4 DEF FileSector

(***************************************************************************)
(* However many sectors a cluster has, whatever the size of a file and     *)
(* wherever its clusters lie, the walk asks for the file's sectors in      *)
(* order and leaves none out: for all of each cluster and the sector       *)
(* behind it, which is asked for a second time where the file goes on      *)
(* there, and of the last cluster for what is left of the file.  The drive *)
(* reads those of them whose numbers survive its registers, and others in  *)
(* place of the rest.                                                      *)
(***************************************************************************)
THEOREM FileInOrder == FatSpec => []FileSectorsInOrder
<1>1. ASSUME FileInv PROVE FileSectorsInOrder
  <2> SUFFICES ASSUME perCluster # 0 PROVE FileSectorsInOrder
    BY DEF FileSectorsInOrder
  <2>1. FatTypeOK /\ HistoryOK
    BY <1>1 DEF FileInv
  <2>2. \A k \in 1 .. Len(walked) :
          Len(walked[k].asked) = perCluster + 1 /\ FromFirst(walked[k].cluster, walked[k].asked)
    BY <2>1 DEF HistoryOK, WalkedOK
  <2>3. FromFirst(cluster, asked)
    BY <2>1 DEF HistoryOK
  <2>4. Len(asked) <= perCluster + 1
    <3>1. perCluster \in Nat /\ left \in Int /\ Len(asked) \in Nat
      BY <2>1 DEF FatTypeOK
    <3>2. CASE at = "sector"
      BY <1>1, <3>1, <3>2 DEF FileInv
    <3>3. CASE at = "table"
      BY <1>1, <3>1, <3>3 DEF FileInv
    <3>4. CASE at \notin {"sector", "table"}
      BY <1>1, <3>1, <3>4 DEF FileInv
    <3> QED  BY <3>2, <3>3, <3>4
  <2>5. ASSUME at = "table", left <= 0
        PROVE  Len(asked) <= perCluster /\ Len(walked) * perCluster + Len(asked) = size
    BY <1>1, <2>1, <2>5 DEF FileInv, FatTypeOK
  <2>6. ASSUME NEW k \in 1 .. Len(walked) - 1, walked[k + 1].cluster = walked[k].cluster + 1
        PROVE  walked[k].asked[perCluster + 1].number = walked[k + 1].asked[1].number
    <3>0. perCluster \in Nat /\ walked \in Seq(Walks) /\ Len(walked) \in Nat
      BY <2>1 DEF FatTypeOK
    <3>4. k \in 1 .. Len(walked) /\ k + 1 \in 1 .. Len(walked) /\ walked[k] \in Walks
      BY <3>0
    <3>1. /\ perCluster \in Nat /\ k \in 1 .. Len(walked) /\ k + 1 \in 1 .. Len(walked)
          /\ walked[k].cluster \in Int
      BY <3>0, <3>4 DEF Walks
    <3>2. walked[k].asked[perCluster + 1].number = FileSector(walked[k].cluster, perCluster)
      <4>1. perCluster + 1 \in 1 .. Len(walked[k].asked) /\ (perCluster + 1) - 1 = perCluster
        BY <2>2, <3>1
      <4> QED  BY <2>2, <3>1, <4>1 DEF FromFirst
    <3>3. walked[k + 1].asked[1].number = FileSector(walked[k].cluster + 1, 0)
      <4>1. 1 \in 1 .. Len(walked[k + 1].asked) /\ 1 - 1 = 0
        BY <2>2, <3>1
      <4> QED  BY <2>2, <2>6, <3>1, <4>1 DEF FromFirst
    <3> QED  BY <2>1, <3>1, <3>2, <3>3, NextOfFile
  <2>7. ASSUME NEW reads \in {asked} \union {walked[k].asked : k \in 1 .. Len(walked)}
        PROVE  SentRight(reads)
    BY <2>1 DEF HistoryOK, WalkedOK
  <2> QED  BY <2>2, <2>3, <2>4, <2>5, <2>6, <2>7 DEF FileSectorsInOrder, SentRight
<1> QED  BY <1>1, DiskInvHolds, PTL

-----------------------------------------------------------------------------
(* The regions of a command. *)

LEMMA Division ==
  ASSUME NEW a \in Nat, NEW b \in Nat \ {0}
  PROVE  \E q \in Nat, r \in 0 .. b - 1 : a \div b = q /\ a % b = r /\ a = q * b + r
<1>1. PICK q \in Int : q = a \div b
  OBVIOUS
<1>2. PICK r \in 0 .. b - 1 : r = a % b
  OBVIOUS
<1>3. a = b * (a \div b) + (a % b)
  OBVIOUS
<1>4. a = q * b + r
  BY <1>1, <1>2, <1>3
<1>5. ASSUME q <= -1 PROVE FALSE
  <2>1. PICK p \in Nat : q = -1 - p
    <3>1. -1 - q \in Nat /\ q = -1 - (-1 - q)
      BY <1>5
    <3> QED  BY <3>1
  <2>2. q * b = -b - p * b /\ p * b \in Nat
    BY <2>1
  <2> QED  BY <1>4, <2>2
<1> QED  BY <1>1, <1>2, <1>4, <1>5

LEMMA SmallDivision ==
  ASSUME NEW b \in Nat \ {0}, NEW a \in 0 .. b - 1
  PROVE  a \div b = 0 /\ a % b = a
OBVIOUS

(* What is left for the last region is at least a sector, and at most the  *)
(* whole of a region.                                                      *)
LEMMA LastRegion ==
  ASSUME NEW count \in Nat \ {0}
  PROVE  \E last \in 1 .. RegionSectors, q \in Nat :
           /\ Prdtl(count) = q + 1 /\ CountLeft(count) = last
           /\ count = q * RegionSectors + last /\ last <= count
           /\ count <= RegionSectors => last = count
<1>1. RegionSectors \in Nat \ {0}
  BY AhciAssumption
<1>2. PICK q \in Nat, r \in 0 .. RegionSectors - 1 :
        /\ (count - 1) \div RegionSectors = q
        /\ (count - 1) % RegionSectors = r
        /\ count - 1 = q * RegionSectors + r
  BY <1>1, Division
<1>3. PICK m \in Nat : m = q * RegionSectors
  BY <1>1
<1>4. Prdtl(count) = q + 1
  BY <1>2 DEF Prdtl
<1>5. (Prdtl(count) - 1) * RegionSectors = m
  <2>1. (q + 1) - 1 = q
    OBVIOUS
  <2> QED  BY <1>3, <1>4, <2>1
<1>6. CountLeft(count) = r + 1
  BY <1>1, <1>2, <1>3, <1>5 DEF CountLeft
<1>7. r + 1 \in 1 .. RegionSectors /\ count = q * RegionSectors + (r + 1) /\ r + 1 <= count
  BY <1>1, <1>2, <1>3
<1>8. ASSUME count <= RegionSectors PROVE r + 1 = count
  <2>1. count - 1 \in 0 .. RegionSectors - 1
    BY <1>1, <1>8
  <2>2. r = count - 1
    BY <1>1, <1>2, <2>1, SmallDivision
  <2> QED  BY <2>2
<1> QED  BY <1>4, <1>6, <1>7, <1>8

TableOf(from, count) ==
  [count |-> CountLeft(count), lba |-> Lba + from, regions |-> Regions(from, count)]

(* A command moves what its last region has left, and no command moves     *)
(* more sectors than it was made for.                                      *)
LEMMA Moves ==
  ASSUME NEW from \in Nat, NEW count \in Nat
  PROVE  LET n == Moving(TableOf(from, count)) IN
         /\ n \in 0 .. count /\ n <= RegionSectors
         /\ count <= RegionSectors => n = count
<1>1. RegionSectors \in Nat \ {0}
  BY AhciAssumption
<1> DEFINE regions == Regions(from, count)
<1>0. /\ TableOf(from, count).count = CountLeft(count)
      /\ TableOf(from, count).regions = regions
  BY DEF TableOf
<1>2. CASE count = 0
  <2>1. regions = <<>>
    BY <1>2 DEF Regions, Prdtl
  <2>2. CountLeft(count) = 0 /\ Capacity(<<>>) = 0
    BY <1>2 DEF CountLeft, Capacity
  <2>3. Moving(TableOf(from, count)) = 0
    BY <1>0, <2>1, <2>2 DEF Moving
  <2> QED  BY <1>1, <1>2, <2>3
<1>3. CASE count # 0
  <2>1. PICK last \in 1 .. RegionSectors, q \in Nat :
          /\ Prdtl(count) = q + 1 /\ CountLeft(count) = last
          /\ count = q * RegionSectors + last /\ last <= count
          /\ count <= RegionSectors => last = count
    BY <1>3, LastRegion
  <2>2. PICK m \in Nat : m = q * RegionSectors
    BY <1>1
  <2>3. Len(regions) = q + 1 /\ regions # <<>>
    BY <2>1 DEF Regions
  <2>4. regions[q + 1].sectors = count - m
    <3>1. q + 1 \in 1 .. q + 1 /\ ~ q + 1 < q + 1 /\ q + 1 - 1 = q
      OBVIOUS
    <3>2. regions[q + 1].sectors = count - (q + 1 - 1) * RegionSectors
      BY <2>1, <3>1 DEF Regions
    <3> QED  BY <2>2, <3>1, <3>2
  <2> HIDE DEF regions
  <2>5. Capacity(regions) = m + (count - m)
    <3>1. (q + 1) - 1 = q
      OBVIOUS
    <3> QED  BY <2>2, <2>3, <2>4, <3>1 DEF Capacity
  <2>6. Capacity(regions) = count
    BY <2>2, <2>5
  <2>7. Moving(TableOf(from, count)) = last
    BY <1>0, <1>1, <2>1, <2>6 DEF Moving, Least
  <2> QED  BY <1>1, <2>1, <2>7
<1> QED  BY <1>2, <1>3

(* The first n sectors of the request, at their places.                    *)
Exact(n) == {<<k, Lba + k>> : k \in 0 .. n - 1}

(* The first sectors a command moves are in its first region, and so at    *)
(* their places.                                                           *)
LEMMA Places ==
  ASSUME NEW from \in Nat, NEW count \in Nat,
         NEW n \in 0 .. Moving(TableOf(from, count))
  PROVE  Exact(from) \union Sectors(TableOf(from, count), n) = Exact(from + n)
<1>1. RegionSectors \in Nat \ {0} /\ Moving(TableOf(from, count)) \in 0 .. count
      /\ Moving(TableOf(from, count)) <= RegionSectors
  BY Moves, AhciAssumption
<1>2. ASSUME NEW k \in 0 .. n - 1
      PROVE  /\ Regions(from, count)[k \div RegionSectors + 1].dba + (k % RegionSectors) = from + k
             /\ (Lba + from) + k = Lba + (from + k)
  <2>1. k \in 0 .. RegionSectors - 1 /\ count \in Nat \ {0}
    BY <1>1
  <2>2. k \div RegionSectors = 0 /\ k % RegionSectors = k
    BY <1>1, <2>1, SmallDivision
  <2>3. 1 \in 1 .. Prdtl(count)
    <3>1. PICK q \in Nat : Prdtl(count) = q + 1
      BY <2>1, LastRegion
    <3> QED  BY <3>1
  <2>4. Regions(from, count)[1].dba = from + (1 - 1) * (RegionSectors \div 2)
    BY <2>3 DEF Regions
  <2>5. PICK h \in Int : h = RegionSectors \div 2
    BY <1>1
  <2>6. (1 - 1) * h = 0
    OBVIOUS
  <2>7. Regions(from, count)[1].dba = from
    BY <2>4, <2>5, <2>6
  <2>8. Regions(from, count)[k \div RegionSectors + 1].dba + (k % RegionSectors) = from + k
    BY <2>2, <2>7
  <2> QED  BY <2>8 DEF Lba
<1>3. Sectors(TableOf(from, count), n) = {<<from + k, Lba + (from + k)>> : k \in 0 .. n - 1}
  BY <1>2 DEF Sectors, TableOf
<1>4. n \in Nat
  BY <1>1
<1>5. \A k \in 0 .. (from + n) - 1 :
        k \in 0 .. from - 1 \/ (k - from \in 0 .. n - 1 /\ k = from + (k - from))
  BY <1>4
<1>6. \A k \in 0 .. n - 1 : from + k \in 0 .. (from + n) - 1
  BY <1>4
<1>7. \A k \in 0 .. from - 1 : k \in 0 .. (from + n) - 1
  BY <1>4
<1> QED  BY <1>3, <1>5, <1>6, <1>7 DEF Exact

LEMMA ExactCardinality ==
  ASSUME NEW n \in Nat
  PROVE  Cardinality(Exact(n)) = n
<1> DEFINE place == [i \in 1 .. n |-> <<i - 1, Lba + (i - 1)>>]
<1>1. \A i \in 1 .. n : i - 1 \in 0 .. n - 1
  OBVIOUS
<1>2. place \in [1 .. n -> Exact(n)]
  BY <1>1 DEF Exact
<1>3. \A i, j \in 1 .. n : place[i] = place[j] => i = j
  <2> SUFFICES ASSUME NEW i \in 1 .. n, NEW j \in 1 .. n, place[i] = place[j] PROVE i = j
    OBVIOUS
  <2>1. place[i][1] = i - 1 /\ place[j][1] = j - 1
    OBVIOUS
  <2> QED  BY <2>1
<1>4. \A m \in Exact(n) : \E i \in 1 .. n : place[i] = m
  <2> SUFFICES ASSUME NEW k \in 0 .. n - 1
               PROVE  \E i \in 1 .. n : place[i] = <<k, Lba + k>>
    BY DEF Exact
  <2>1. k + 1 \in 1 .. n /\ (k + 1) - 1 = k
    OBVIOUS
  <2>2. place[k + 1] = <<k, Lba + k>>
    BY <2>1
  <2> QED  BY <2>1, <2>2
<1> HIDE DEF place
<1>5. place \in Bijection(1 .. n, Exact(n))
  BY <1>2, <1>3, <1>4 DEF Bijection, Injection, Surjection, IsInjective
<1> QED  BY <1>5, FS_CountingElements DEF ExistsBijection

-----------------------------------------------------------------------------
(* The disk behind the controller. *)

AhciTypeOK ==
  /\ request \in [write : BOOLEAN, count : Nat]
  /\ chunk \in [from : Nat, count : Nat] /\ chunk.from + chunk.count <= request.count
  /\ step \in {"idle", "port", "slot", "spin", "poll", "error", "done"}
  /\ slot \in 0 .. Slots - 1 /\ DOMAIN tables = 0 .. Slots - 1
  /\ tfes \in BOOLEAN /\ running \in BOOLEAN /\ failed \in BOOLEAN

(***************************************************************************)
(* What was moved for a request of at most a region: all before the chunk  *)
(* under way, and all of it when the slot is free again.  Where the port   *)
(* stopped the slot stays in use, and the request will not succeed.        *)
(***************************************************************************)
Progress ==
  ~ failed /\ request.count <= RegionSectors =>
    /\ step \in {"port", "slot", "spin"} => moved = Exact(chunk.from)
    /\ step \in {"poll", "error", "done"} =>
         IF slot \in ci THEN running => moved = Exact(chunk.from)
         ELSE moved = Exact(chunk.from + chunk.count)
    /\ step = "idle" => moved = Exact(request.count)

(***************************************************************************)
(* A port that runs has at most the command under way, with the table made *)
(* for its chunk, and has it only while the code polls for it.             *)
(***************************************************************************)
AhciInv ==
  /\ AhciTypeOK
  /\ moved \subseteq Exact(request.count)
  /\ tfes => ~ running
  /\ running => ci \subseteq {slot} /\ (ci # {} => step \in {"poll", "error"})
  /\ step \in {"spin", "poll", "error", "done"} =>
       tables[slot] = TableOf(chunk.from, chunk.count)
  /\ step = "done" => slot \notin ci
  /\ Progress

LEMMA ChunkBounds ==
  ASSUME NEW n \in Nat, NEW count \in Nat, n <= count
  PROVE  /\ ChunkFrom(n, count) \in [from : Nat, count : Nat]
         /\ ChunkFrom(n, count).from = n
         /\ n + ChunkFrom(n, count).count <= count
<1>0. MaxChunk \in Nat
  BY AhciAssumption
<1>1. CASE count - n >= MaxChunk
  <2>1. ChunkFrom(n, count) = [from |-> n, count |-> MaxChunk]
    BY <1>1 DEF ChunkFrom
  <2> QED  BY <1>0, <1>1, <2>1
<1>2. CASE ~ count - n >= MaxChunk
  <2>1. ChunkFrom(n, count) = [from |-> n, count |-> count - n] /\ count - n \in Nat
    BY <1>2 DEF ChunkFrom
  <2> QED  BY <2>1
<1> QED  BY <1>1, <1>2

LEMMA ExactMonotone ==
  ASSUME NEW n \in Nat, NEW m \in Nat, n <= m
  PROVE  Exact(n) \subseteq Exact(m)
<1>1. \A k \in 0 .. n - 1 : k \in 0 .. m - 1
  OBVIOUS
<1> QED  BY <1>1 DEF Exact

LEMMA ExactNothing == Exact(0) = {}
BY DEF Exact

LEMMA BeginInv ==
  ASSUME AhciInv, step = "idle", NEW write \in BOOLEAN, NEW count \in Nat, Begin(write, count),
         step' = "port" \/ (step' = "idle" /\ count = 0),
         UNCHANGED <<ci, tfes, running, slot, tables>>
  PROVE  AhciInv'
<1>1. /\ request' = [write |-> write, count |-> count] /\ moved' = {} /\ failed' = FALSE
      /\ chunk' = ChunkFrom(0, count)
  BY DEF Begin
<1>2. /\ chunk' \in [from : Nat, count : Nat] /\ chunk'.from = 0
      /\ chunk'.from + chunk'.count <= count
  BY <1>1, ChunkBounds
<1>3. request'.count = count /\ request' \in [write : BOOLEAN, count : Nat]
  BY <1>1
<1>4. AhciTypeOK'
  BY <1>1, <1>2, <1>3 DEF AhciTypeOK, AhciInv
<1>5. Progress'
  BY <1>1, <1>2, <1>3, ExactNothing DEF Progress
<1>6. running => ci = {}
  BY DEF AhciInv
<1> QED  BY <1>1, <1>4, <1>5, <1>6 DEF AhciInv

LEMMA ReturnInv ==
  ASSUME AhciInv, NEW ok \in BOOLEAN, Return(ok), running => ci = {}, tfes' => ~ running,
         tfes' \in BOOLEAN,
         ok /\ Progress /\ ~ failed /\ request.count <= RegionSectors =>
           moved = Exact(chunk.from + chunk.count),
         UNCHANGED <<ci, running, moved, slot, tables>>
  PROVE  AhciInv'
<1> USE DEF AhciTypeOK
<1>1. PICK n \in Nat : n = chunk.from + chunk.count
  BY DEF AhciInv
<1>2. /\ failed' = (failed \/ ~ ok) /\ request' = request
      /\ chunk' = IF n < request.count THEN ChunkFrom(n, request.count) ELSE chunk
      /\ step' = IF n < request.count THEN "port" ELSE "idle"
  BY <1>1 DEF Return
<1>3. request.count \in Nat /\ n <= request.count
  BY <1>1 DEF AhciInv
<1>4. CASE n < request.count
  <2>1. /\ chunk' \in [from : Nat, count : Nat] /\ chunk'.from = n
        /\ chunk'.from + chunk'.count <= request.count
    BY <1>2, <1>3, <1>4, ChunkBounds
  <2>2. AhciTypeOK'
    BY <1>2, <1>4, <2>1 DEF AhciInv
  <2>3. Progress'
    BY <1>1, <1>2, <1>4, <2>1 DEF Progress, AhciInv
  <2> QED  BY <1>2, <1>4, <2>2, <2>3 DEF AhciInv
<1>5. CASE ~ n < request.count
  <2>1. n = request.count /\ chunk' = chunk /\ step' = "idle"
    BY <1>2, <1>3, <1>5
  <2>2. AhciTypeOK'
    BY <1>2, <2>1 DEF AhciInv
  <2>3. Progress'
    BY <1>1, <1>2, <2>1 DEF Progress, AhciInv
  <2> QED  BY <1>2, <2>1, <2>2, <2>3 DEF AhciInv
<1> QED  BY <1>4, <1>5

LEMMA DiskCodeInv ==
  ASSUME AhciInv, DiskCode
  PROVE  AhciInv'
<1> USE DEF requestVars, portVars
<1>1. CASE FindPort
  BY <1>1 DEF FindPort, AhciInv, AhciTypeOK, Progress
<1>2. CASE FindCmdSlot
  <2>0. /\ step = "slot" /\ tfes' = FALSE /\ UNCHANGED <<ci, busy, running, moved>>
        /\ running => ci = {}
    BY <1>2 DEF FindCmdSlot, AhciInv
  <2>1. CASE FreeSlots = {}
    BY <1>2, <2>0, <2>1, ReturnInv DEF FindCmdSlot
  <2>2. CASE FreeSlots # {}
    <3>1. PICK s \in FreeSlots : slot' = s /\ tables' = [tables EXCEPT ![s] = CommandTable]
      BY <1>2, <2>2 DEF FindCmdSlot
    <3>2. step' = "spin" /\ UNCHANGED requestVars
      BY <1>2, <2>2 DEF FindCmdSlot
    <3>3. slot' \in 0 .. Slots - 1 /\ DOMAIN tables' = 0 .. Slots - 1
          /\ tables'[slot'] = TableOf(chunk.from, chunk.count)
      BY <3>1 DEF FreeSlots, AhciInv, AhciTypeOK, CommandTable, TableOf
    <3> QED  BY <2>0, <3>2, <3>3 DEF AhciInv, AhciTypeOK, Progress
  <2> QED  BY <2>1, <2>2
<1>3. CASE Spin
  BY <1>3 DEF Spin, AhciInv, AhciTypeOK, Progress
<1>4. CASE Hung
  BY <1>4, ReturnInv DEF Hung, AhciInv, AhciTypeOK
<1>5. CASE IssueCommand
  BY <1>5 DEF IssueCommand, AhciInv, AhciTypeOK, Progress
<1>6. CASE PollSlot
  BY <1>6 DEF PollSlot, AhciInv, AhciTypeOK, Progress
<1>7. CASE PollError
  <2>1. CASE tfes
    BY <1>7, <2>1, ReturnInv DEF PollError, AhciInv, AhciTypeOK
  <2>2. CASE ~ tfes
    BY <1>7, <2>2 DEF PollError, AhciInv, AhciTypeOK, Progress
  <2> QED  BY <2>1, <2>2
<1>8. CASE EndCommand
  <2>1. /\ step = "done" /\ Return(~ tfes) /\ UNCHANGED <<portVars, slot, spin, tables, healthy>>
    BY <1>8 DEF EndCommand
  <2>2. slot \notin ci /\ tfes \in BOOLEAN /\ (tfes => ~ running) /\ (running => ci = {})
    BY <2>1 DEF AhciInv, AhciTypeOK
  <2>3. Progress /\ ~ failed /\ request.count <= RegionSectors =>
          moved = Exact(chunk.from + chunk.count)
    BY <2>1, <2>2 DEF Progress
  <2> QED  BY <2>1, <2>2, <2>3, ReturnInv
<1> QED  BY <1>1, <1>2, <1>3, <1>4, <1>5, <1>6, <1>7, <1>8 DEF DiskCode

(* The sectors a command moves are among those of the request.             *)
LEMMA MovedWithin ==
  ASSUME AhciInv, NEW n \in 0 .. Moving(TableOf(chunk.from, chunk.count))
  PROVE  /\ Sectors(TableOf(chunk.from, chunk.count), n) \subseteq Exact(request.count)
         /\ moved = Exact(chunk.from) =>
              moved \union Sectors(TableOf(chunk.from, chunk.count), n) = Exact(chunk.from + n)
<1>1. chunk.from \in Nat /\ chunk.count \in Nat /\ request.count \in Nat
      /\ chunk.from + chunk.count <= request.count
  BY DEF AhciInv, AhciTypeOK
<1>2. Moving(TableOf(chunk.from, chunk.count)) \in 0 .. chunk.count
  BY <1>1, Moves
<1>3. Exact(chunk.from) \union Sectors(TableOf(chunk.from, chunk.count), n)
        = Exact(chunk.from + n)
  BY <1>1, Places
<1>4. chunk.from + n \in Nat /\ chunk.from + n <= request.count
  BY <1>1, <1>2
<1>5. Exact(chunk.from + n) \subseteq Exact(request.count)
  BY <1>1, <1>4, ExactMonotone
<1> QED  BY <1>3, <1>5

LEMMA ControllerInv ==
  ASSUME AhciInv, Controller
  PROVE  AhciInv'
<1> USE DEF requestVars
<1> DEFINE table == TableOf(chunk.from, chunk.count)
<1>1. CASE DriveReady
  BY <1>1 DEF DriveReady, AhciInv, AhciTypeOK, Progress
<1>2. ASSUME Serving
      PROVE  /\ running /\ ci = {slot} /\ step \in {"poll", "error"} /\ tables[slot] = table
             /\ chunk.count \in Nat /\ Moving(table) \in 0 .. chunk.count
             /\ chunk.count <= RegionSectors => Moving(table) = chunk.count
             /\ request.count <= RegionSectors => chunk.count <= RegionSectors
  <2>1. running /\ ci = {slot} /\ step \in {"poll", "error"} /\ tables[slot] = table
    BY <1>2 DEF Serving, AhciInv
  <2>2. chunk.count \in Nat /\ chunk.from \in Nat /\ request.count \in Nat
        /\ chunk.from + chunk.count <= request.count
    BY DEF AhciInv, AhciTypeOK
  <2>3. request.count <= RegionSectors => chunk.count <= RegionSectors
    BY <2>2, AhciAssumption
  <2> QED  BY <2>1, <2>2, <2>3, Moves
<1>3. CASE Complete
  <2>1. /\ Serving /\ moved' = moved \union Sectors(table, Moving(table)) /\ ci' = ci \ {slot}
        /\ UNCHANGED <<requestVars, tfes, busy, running, step, slot, spin, tables, healthy>>
    BY <1>2, <1>3 DEF Complete, Serving
  <2>2. moved' \subseteq Exact(request.count)
    BY <1>2, <2>1, MovedWithin DEF AhciInv
  <2>3. Progress'
    <3> SUFFICES ASSUME ~ failed, request.count <= RegionSectors
                 PROVE  moved' = Exact(chunk.from + chunk.count)
      BY <1>2, <2>1 DEF Progress
    <3>1. moved = Exact(chunk.from) /\ Moving(table) = chunk.count
      BY <1>2, <2>1 DEF Progress, AhciInv
    <3> QED  BY <1>2, <2>1, <3>1, MovedWithin
  <2> HIDE DEF table
  <2> QED  BY <1>2, <2>1, <2>2, <2>3 DEF AhciInv, AhciTypeOK
<1>4. CASE Fail
  <2>1. PICK s \in ci, n \in 0 .. RegionSectors :
          n <= Moving(tables[s]) /\ moved' = moved \union Sectors(tables[s], n)
    BY <1>4 DEF Fail
  <2>2. Serving /\ s = slot /\ n \in 0 .. Moving(table) /\ moved' = moved \union Sectors(table, n)
    BY <1>2, <1>4, <2>1, AhciAssumption DEF Fail
  <2>3. moved' \subseteq Exact(request.count)
    BY <2>2, MovedWithin DEF AhciInv
  <2>4. /\ tfes' = TRUE /\ running' = FALSE
        /\ UNCHANGED <<requestVars, ci, busy, step, slot, spin, tables, healthy>>
    BY <1>4 DEF Fail
  <2> HIDE DEF table
  <2> QED  BY <1>2, <2>2, <2>3, <2>4 DEF AhciInv, AhciTypeOK, Progress
<1> QED  BY <1>1, <1>3, <1>4 DEF Controller

LEMMA AhciInvHolds == AhciSpec => []AhciInv
<1>1. AhciInit => AhciInv
  <2> SUFFICES ASSUME AhciInit PROVE AhciInv
    OBVIOUS
  <2>1. request = [write |-> FALSE, count |-> 0] /\ chunk = [from |-> 0, count |-> 0]
        /\ DOMAIN tables = 0 .. Slots - 1
    BY DEF AhciInit
  <2>2. AhciTypeOK
    <3>1. 0 \in 0 .. Slots - 1
      BY AhciAssumption
    <3>2. /\ request \in [write : BOOLEAN, count : Nat] /\ chunk \in [from : Nat, count : Nat]
          /\ chunk.from + chunk.count <= request.count
      BY <2>1
    <3> QED  BY <2>1, <3>1, <3>2 DEF AhciInit, AhciTypeOK
  <2>3. moved = Exact(0) /\ request.count = 0
    BY <2>1, ExactNothing DEF AhciInit
  <2> QED  BY <2>1, <2>2, <2>3 DEF AhciInit, AhciInv, Progress
<1>2. AhciInv /\ [AhciNext]_ahciVars => AhciInv'
  <2> SUFFICES ASSUME AhciInv, [AhciNext]_ahciVars PROVE AhciInv'
    OBVIOUS
  <2>1. CASE GetDiskBytes
    <3>1. PICK count \in ReadCounts :
            Begin(FALSE, count) /\ step' = IF count = 0 THEN "idle" ELSE "port"
      BY <2>1 DEF GetDiskBytes
    <3>2. count \in Nat
      BY AhciAssumption
    <3> QED  BY <2>1, <3>1, <3>2, BeginInv DEF GetDiskBytes
  <2>2. CASE SetDiskBytes
    <3>1. PICK count \in WriteCounts : Begin(TRUE, count % CountLimit)
      BY <2>2 DEF SetDiskBytes
    <3>2. count % CountLimit \in Nat
      BY AhciAssumption
    <3> QED  BY <2>2, <3>1, <3>2, BeginInv DEF SetDiskBytes
  <2>3. CASE UNCHANGED ahciVars
    BY <2>3 DEF ahciVars, requestVars, portVars, AhciInv, AhciTypeOK, Progress
  <2> QED  BY <2>1, <2>2, <2>3, DiskCodeInv, ControllerInv DEF AhciNext
<1> QED  BY <1>1, <1>2, PTL DEF AhciSpec

(***************************************************************************)
(* However many sectors a region, a chunk and a request have, and wherever *)
(* the controller fails: sectors only move between their own places, and a *)
(* request of at most a region that reports no failure has moved all of    *)
(* its sectors.                                                            *)
(***************************************************************************)
THEOREM Transferred == AhciSpec => []TransferExact
<1>1. AhciInv => TransferExact
  <2> SUFFICES ASSUME AhciInv PROVE TransferExact
    OBVIOUS
  <2>1. request.count \in Nat
    BY DEF AhciInv, AhciTypeOK
  <2>2. \A m \in moved : m[1] \in 0 .. request.count - 1 /\ m[2] = Lba + m[1]
    BY DEF AhciInv, Exact
  <2>3. step = "idle" /\ ~ failed /\ request.count <= RegionSectors =>
          Cardinality(moved) = request.count
    BY <2>1, ExactCardinality DEF AhciInv, Progress
  <2> QED  BY <2>2, <2>3 DEF TransferExact
<1> QED  BY <1>1, AhciInvHolds, PTL

-----------------------------------------------------------------------------
(* A frame on its way. *)

(* The total length of a frame is at least that of its header. *)
HasLength(f) ==
  /\ {"total", "options"} \subseteq DOMAIN f
  /\ f.total \in Nat /\ f.options \in Nat /\ 4 * HeaderLength(f) <= f.total

(***************************************************************************)
(* What a protocol was handed is what is taken for the payload of the      *)
(* frame that came in, which nobody has changed when it is handed on.      *)
(***************************************************************************)
FrameInv ==
  /\ level \in {"none", "ether", "ip"} => given = 0
  /\ level \in {"ether", "ip"} => frame = cause /\ HasLength(cause)
  /\ given # 0 => given = PayloadSize(cause) /\ HasLength(cause)

LEMMA LengthKept ==
  ASSUME NEW f, HasLength(f), NEW x, NEW y
  PROVE  /\ HasLength([f EXCEPT !.ipSum = x])
         /\ HasLength([f EXCEPT !.icmpSum = x])
         /\ HasLength([f EXCEPT !.etherType = x, !.ttl = y])
<1>1. /\ {"total", "options"} \subseteq DOMAIN f
      /\ f.total \in Nat /\ f.options \in Nat /\ 4 * (5 + f.options) <= f.total
  BY DEF HasLength, HeaderLength
<1>2. ASSUME NEW g, DOMAIN g = DOMAIN f, g.total = f.total, g.options = f.options
      PROVE  HasLength(g)
  BY <1>1, <1>2 DEF HasLength, HeaderLength
<1>3. HasLength([f EXCEPT !.ipSum = x])
  <2> DEFINE g == [f EXCEPT !.ipSum = x]
  <2>1. DOMAIN g = DOMAIN f /\ g.total = f.total /\ g.options = f.options
    BY <1>1
  <2> HIDE DEF g
  <2>2. HasLength(g)
    BY <1>2, <2>1
  <2> QED  BY <2>2 DEF g
<1>4. HasLength([f EXCEPT !.icmpSum = x])
  <2> DEFINE g == [f EXCEPT !.icmpSum = x]
  <2>1. DOMAIN g = DOMAIN f /\ g.total = f.total /\ g.options = f.options
    BY <1>1
  <2> HIDE DEF g
  <2>2. HasLength(g)
    BY <1>2, <2>1
  <2> QED  BY <2>2 DEF g
<1>5. HasLength([f EXCEPT !.etherType = x, !.ttl = y])
  <2> DEFINE g == [f EXCEPT !.etherType = x, !.ttl = y]
  <2>1. DOMAIN g = DOMAIN f /\ g.total = f.total /\ g.options = f.options
    BY <1>1
  <2> HIDE DEF g
  <2>2. HasLength(g)
    BY <1>2, <2>1
  <2> QED  BY <2>2 DEF g
<1> QED  BY <1>3, <1>4, <1>5

LEMMA MadeLength ==
  ASSUME NEW dst, NEW src, NEW dstIp, NEW srcIp, NEW protocol, NEW options \in Options,
         NEW type, NEW content \in Contents
  PROVE  HasLength(Made(dst, src, dstIp, srcIp, protocol, options, type, content))
<1>1. PICK n \in Nat : n = Len(content)
  BY FramesAssumption
<1>2. PICK k \in Nat : k = options
  BY FramesAssumption
<1> DEFINE f == [dst |-> dst, src |-> src, etherType |-> "ip", options |-> options,
                 total |-> 4 * (5 + options) + 8 + Len(content), ttl |-> 64,
                 protocol |-> protocol, ipSum |-> 0, srcIp |-> srcIp, dstIp |-> dstIp,
                 icmpType |-> type, icmpData |-> <<18, 52, 200, 1>>, icmpSum |-> 0,
                 content |-> content]
           sum == Checksum(Even(IcmpBytes(f) \o content))
           g == [f EXCEPT !.icmpSum = sum]
<1>3. f.total = 4 * (5 + k) + 8 + n /\ f.options = k /\ {"total", "options"} \subseteq DOMAIN f
  BY <1>1, <1>2
<1>4. Made(dst, src, dstIp, srcIp, protocol, options, type, content) = Stamped(g)
  BY DEF Made
<1> HIDE DEF f
<1>5. HasLength(f)
  BY <1>1, <1>2, <1>3 DEF HasLength, HeaderLength
<1> HIDE DEF sum
<1>6. HasLength(g)
  BY <1>5, LengthKept
<1> HIDE DEF g
<1>7. HasLength(Stamped(g))
  BY <1>6, LengthKept DEF Stamped
<1> QED  BY <1>4, <1>7

LEMMA ArriveInv ==
  ASSUME FrameInv, Arrive
  PROVE  FrameInv'
<1>1. PICK dst, src \in Macs, dstIp, srcIp \in Ips, protocol \in Protocols,
           options \in Options, type \in {0, 8}, content \in Contents,
           etherType \in {"ip", "other"}, ttl \in {57, 64} :
        /\ src \notin {OurMac, Broadcast} /\ srcIp # OurIp
        /\ frame' = Stamped(
             [Made(dst, src, dstIp, srcIp, protocol, options, type, content)
                EXCEPT !.etherType = etherType, !.ttl = ttl])
        /\ cause' = frame'
  BY ZenonT(60) DEF Arrive
<1> DEFINE f == Made(dst, src, dstIp, srcIp, protocol, options, type, content)
           g == [f EXCEPT !.etherType = etherType, !.ttl = ttl]
<1>2. HasLength(f)
  BY MadeLength
<1>3. frame' = Stamped(g)
  BY <1>1
<1> HIDE DEF f
<1>4. HasLength(g)
  BY <1>2, LengthKept
<1> HIDE DEF g
<1>5. HasLength(Stamped(g))
  BY <1>4, LengthKept DEF Stamped
<1>6. frame' = cause' /\ HasLength(cause')
  BY <1>1, <1>3, <1>5
<1>7. given' = given /\ level = "none" /\ level' = "ether"
  BY DEF Arrive
<1> QED  BY <1>6, <1>7 DEF FrameInv

LEMMA FrameInvHolds == FramesSpec => []FrameInv
<1>1. FramesInit => FrameInv
  BY DEF FramesInit, FrameInv
<1>2. FrameInv /\ [FramesNext]_frameVars => FrameInv'
  <2> SUFFICES ASSUME FrameInv, [FramesNext]_frameVars PROVE FrameInv'
    OBVIOUS
  <2>1. CASE EtherReceived
    BY <2>1 DEF EtherReceived, FrameInv
  <2>2. CASE IpReceived
    BY <2>2 DEF IpReceived, FrameInv
  <2>3. CASE IcmpReceived
    BY <2>3 DEF IcmpReceived, FrameInv
  <2>4. CASE IpBack
    BY <2>4 DEF IpBack, FrameInv
  <2>5. CASE EtherBack
    BY <2>5 DEF EtherBack, FrameInv
  <2>6. CASE RequestEchoReply
    BY <2>6 DEF RequestEchoReply, FrameInv
  <2>7. CASE Leaves
    BY <2>7 DEF Leaves, FrameInv
  <2>8. CASE UNCHANGED frameVars
    BY <2>8 DEF frameVars, FrameInv
  <2> QED  BY <2>1, <2>2, <2>3, <2>4, <2>5, <2>6, <2>7, <2>8, ArriveInv DEF FramesNext
<1> QED  BY <1>1, <1>2, PTL DEF FramesSpec

(* The size handed on, where the bytes of the length in their wrong order  *)
(* do not make it smaller.                                                 *)
LEMMA PayloadBounds ==
  ASSUME NEW f, HasLength(f), Swapped(f.total) >= f.total
  PROVE  /\ f.total - 4 * HeaderLength(f) <= PayloadSize(f)
         /\ PayloadSize(f) <= Size(f) - 4 * HeaderLength(f)
<1>1. PICK total \in Nat : total = f.total
  BY DEF HasLength
<1>2. PICK header \in Nat : header = 4 * HeaderLength(f) /\ header <= total
  BY <1>1 DEF HasLength, HeaderLength
<1>3. PICK swapped \in Int : swapped = Swapped(f.total)
  BY <1>1 DEF Swapped
<1>4. PICK min \in Nat : min = MinPayload
  BY FramesAssumption
<1>5. PICK size1 \in Nat : size1 = Size(f) /\ size1 >= total
  BY <1>1, <1>4 DEF Size
<1>6. PICK length \in Int : length = IF swapped > size1 THEN size1 ELSE swapped
  OBVIOUS
<1>7. total <= length /\ length <= size1
  BY <1>1, <1>3, <1>5, <1>6
<1>8. PayloadSize(f) = Unsigned(length - header)
  BY <1>2, <1>3, <1>5, <1>6 DEF PayloadSize
<1>9. PayloadSize(f) = length - header
  BY <1>2, <1>7, <1>8 DEF Unsigned
<1> QED  BY <1>1, <1>2, <1>5, <1>7, <1>9

(***************************************************************************)
(* Whatever a message carries and whatever the options in front of it: a   *)
(* protocol gets the payload, and nothing from behind the frame.           *)
(***************************************************************************)
THEOREM PayloadHanded == FramesSpec => []PayloadInFrame
<1>1. FrameInv => PayloadInFrame
  BY PayloadBounds DEF FrameInv, PayloadInFrame
<1> QED  BY <1>1, FrameInvHolds, PTL

-----------------------------------------------------------------------------
(***************************************************************************)
(* Checksums.  A sum of words taken by halves is that of their numbers;    *)
(* what is left of it after its carries are added is congruent to it       *)
(* modulo 65535, and not zero unless it is: so words and the complement of *)
(* what is left of them add up to ones.                                    *)
(***************************************************************************)
Bytes == 0 .. 255

LEMMA WordBounds ==
  ASSUME NEW a \in Bytes, NEW b \in Bytes
  PROVE  Word(a, b) \in Nat /\ Word(a, b) <= 65535
BY DEF Bytes, Word

(* The sum of the words, whatever the halves it is made of. *)
LEMMA SumBounds ==
  ASSUME NEW data \in Seq(Bytes)
  PROVE  /\ SumOfWords(data) \in Nat
         /\ Len(data) % 2 = 0 => SumOfWords(data) <= 65535 * (Len(data) \div 2)
<1> DEFINE words == Len(data) \div 2
           word(k) == Word(data[2*k - 1], data[2*k])
           Pairs == (0 .. words) \X (0 .. words)
           F(s) == [r \in Pairs |->
                      LET half == (r[1] + r[2]) \div 2 IN
                      IF r[1] = r[2] THEN 0
                      ELSE IF r[1] + 1 = r[2] THEN word(r[2])
                      ELSE s[<<r[1], half>>] + s[<<half, r[2]>>]]
           sum == CHOOSE s : s = F(s)
           odd == IF Len(data) % 2 = 1 THEN OddByte(data[Len(data)]) ELSE 0
<1>1. SumOfWords(data) = sum[<<0, words>>] + odd
  BY DEF SumOfWords, word
<1>2. words \in Nat /\ 2 * words <= Len(data) /\ Len(data) \in Nat
  OBVIOUS
<1>3. ASSUME NEW k \in 1 .. words PROVE word(k) \in Nat /\ word(k) <= 65535
  <2>1. 2*k - 1 \in 1 .. Len(data) /\ 2*k \in 1 .. Len(data)
    BY <1>2
  <2>2. data[2*k - 1] \in Bytes /\ data[2*k] \in Bytes
    BY <2>1
  <2>3. PICK x \in Bytes, y \in Bytes : x = data[2*k - 1] /\ y = data[2*k]
    BY <2>2
  <2>4. word(k) = Word(x, y)
    BY <2>3
  <2>5. Word(x, y) \in Nat /\ Word(x, y) <= 65535
    BY WordBounds
  <2> QED  BY <2>4, <2>5
<1>4. odd \in Nat /\ (Len(data) % 2 = 0 => odd = 0)
  <2>1. CASE Len(data) % 2 = 1
    <3> DEFINE b == data[Len(data)]
    <3>1. b \in Bytes
      BY <1>2, <2>1
    <3> HIDE DEF b
    <3>2. OddByte(b) \in Nat
      BY <3>1 DEF OddByte, Word, Bytes
    <3> QED  BY <2>1, <3>2 DEF b
  <2>2. CASE Len(data) % 2 # 1
    BY <2>2
  <2> QED  BY <2>1, <2>2
<1> HIDE DEF words, odd, word
<1>5. sum = F(sum)
  <2> DEFINE start == 0
             S == Int
             turn == [k \in 1 .. words |-> [n \in Int |-> n + word(k)]]
  <2>1. turn \in [1 .. words -> [S -> S]] /\ start \in S
    BY <1>3
  <2> HIDE DEF start, S, turn
  <2>2. PICK P : Follows(P, words, S, start, turn)
    BY <1>2, <2>1, RecursionExists
  <2>3. /\ \A i \in 0 .. words : P[i] \in Int
        /\ \A i \in 1 .. words : P[i] = P[i-1] + word(i)
    <3>1. P \in [0 .. words -> Int]
      BY <2>2 DEF Follows, S
    <3> SUFFICES ASSUME NEW i \in 1 .. words
                 PROVE  P[i] = P[i-1] + word(i)
      BY <3>1
    <3>2. P[i] = turn[i][P[i-1]]
      BY <2>2 DEF Follows
    <3>3. P[i-1] \in Int
      BY <1>2, <3>1
    <3> QED  BY <3>2, <3>3 DEF turn
  <2> DEFINE w == [r \in Pairs |-> P[r[2]] - P[r[1]]]
  <2>4. ASSUME NEW i \in 0 .. words, NEW j \in 0 .. words
        PROVE  P[j] - P[i] =
                 IF i = j THEN 0
                 ELSE IF i + 1 = j THEN word(j)
                 ELSE w[<<i, (i + j) \div 2>>] + w[<<(i + j) \div 2, j>>]
    <3>1. P[i] \in Int /\ P[j] \in Int
      BY <2>3
    <3>2. CASE i = j
      BY <1>2, <3>1, <3>2
    <3>3. CASE i + 1 = j
      <4>1. j \in 1 .. words /\ j - 1 = i /\ i # j
        BY <1>2, <3>3
      <4>2. word(j) \in Int
        BY <1>3, <4>1
      <4> DEFINE x == word(j)
      <4>3. P[j] = P[i] + x /\ x \in Int
        BY <2>3, <4>1, <4>2
      <4> HIDE DEF x
      <4>4. P[j] - P[i] = x
        BY <3>1, <4>3
      <4> QED  BY <3>3, <4>1, <4>4 DEF x
    <3>4. CASE i # j /\ i + 1 # j
      <4> DEFINE m == (i + j) \div 2
      <4>1. m \in 0 .. words
        BY <1>2
      <4> HIDE DEF m
      <4>2. w[<<i, m>>] = P[m] - P[i] /\ w[<<m, j>>] = P[j] - P[m]
        BY <4>1
      <4>3. P[m] \in Int
        BY <2>3, <4>1
      <4>4. w[<<i, m>>] + w[<<m, j>>] = P[j] - P[i]
        BY <3>1, <4>2, <4>3
      <4> HIDE DEF w
      <4> QED  BY <3>4, <4>4 DEF m
    <3> QED  BY <3>2, <3>3, <3>4
  <2>5. w = F(w)
    <3>1. \A r \in Pairs : w[r] = F(w)[r]
      <4> SUFFICES ASSUME NEW r \in Pairs PROVE w[r] = F(w)[r]
        OBVIOUS
      <4>1. PICK i \in 0 .. words, j \in 0 .. words : r = <<i, j>>
        OBVIOUS
      <4>2. r[1] = i /\ r[2] = j
        BY <4>1
      <4>3. w[r] = P[j] - P[i]
        BY <4>1
      <4> HIDE DEF w
      <4>4. F(w)[r] = IF i = j THEN 0
                      ELSE IF i + 1 = j THEN word(j)
                      ELSE w[<<i, (i + j) \div 2>>] + w[<<(i + j) \div 2, j>>]
        BY <4>2
      <4> QED  BY <2>4, <4>3, <4>4
    <3>2. w = [r \in Pairs |-> w[r]]
      OBVIOUS
    <3>3. F(w) = [r \in Pairs |-> F(w)[r]]
      OBVIOUS
    <3> HIDE DEF F, w, Pairs
    <3> QED  BY <3>1, <3>2, <3>3
  <2> HIDE DEF F, w
  <2> QED  BY <2>5
<1> HIDE DEF sum
<1>6. \A i, j \in 0 .. words : sum[<<i, j>>] =
               IF i = j THEN 0
               ELSE IF i + 1 = j THEN word(j)
               ELSE sum[<<i, (i + j) \div 2>>] + sum[<<(i + j) \div 2, j>>]
  <2> SUFFICES ASSUME NEW i \in 0 .. words, NEW j \in 0 .. words
               PROVE  sum[<<i, j>>] =
               IF i = j THEN 0
               ELSE IF i + 1 = j THEN word(j)
               ELSE sum[<<i, (i + j) \div 2>>] + sum[<<(i + j) \div 2, j>>]
    OBVIOUS
  <2>1. <<i, j>> \in Pairs
    OBVIOUS
  <2>2. sum[<<i, j>>] = F(sum)[<<i, j>>]
    <3> HIDE DEF F
    <3> QED  BY <1>5
  <2> QED  BY <2>1, <2>2
<1> HIDE DEF F
<1> DEFINE sumOf(i, j) == sum[<<i, j>>]
           Good(i, j, d) == sumOf(i, j) \in Nat /\ sumOf(i, j) <= 65535 * d
<1>7. \A i \in 0 .. words : sumOf(i, i) = 0
  BY <1>6
<1>8. \A i, j \in 0 .. words : i + 1 = j => sumOf(i, j) = word(j)
  <2> SUFFICES ASSUME NEW i \in 0 .. words, NEW j \in 0 .. words, i + 1 = j
               PROVE  sumOf(i, j) = word(j)
    OBVIOUS
  <2>1. i # j
    BY <1>2
  <2>2. sumOf(i, j) = IF i = j THEN 0
                      ELSE IF i + 1 = j THEN word(j)
                      ELSE sumOf(i, (i + j) \div 2) + sumOf((i + j) \div 2, j)
    BY <1>6
  <2> HIDE DEF sumOf
  <2> QED  BY <2>1, <2>2
<1>9. \A i, j \in 0 .. words : i # j /\ i + 1 # j =>
         sumOf(i, j) = sumOf(i, (i + j) \div 2) + sumOf((i + j) \div 2, j)
  BY <1>6
<1>10. sum[<<0, words>>] = sumOf(0, words)
  OBVIOUS
<1> HIDE DEF sumOf
<1> DEFINE Bounded(d) == \A i \in 0 .. words : i + d <= words => Good(i, i + d, d)
           H == {d \in Nat : ~ Bounded(d)}
<1> HIDE DEF Good
<1>11. \A d \in Nat : d \in H \/ Bounded(d)
  OBVIOUS
<1>12. \A d \in H : d \in Nat /\ ~ Bounded(d)
  OBVIOUS
<1> HIDE DEF H, Bounded
<1>13. H = {}
  <2>1. SUFFICES ASSUME H # {} PROVE FALSE
    OBVIOUS
  <2>2. PICK d \in H : \A e \in H : d <= e
    <3>1. H \in SUBSET Nat
      BY <1>12
    <3> QED  BY <2>1, <3>1, FirstExists
  <2>3. PICK i \in 0 .. words : i + d <= words /\ ~ Good(i, i + d, d)
    BY <1>12, <2>2 DEF Bounded
  <2>4. d \in Nat /\ i \in Nat /\ i + d \in 0 .. words
    BY <1>2, <1>12, <2>2, <2>3
  <2> DEFINE j == i + d
  <2>5. j \in 0 .. words /\ ~ Good(i, j, d)
    BY <2>3, <2>4
  <2>6. CASE d = 0
    <3>1. j = i
      BY <2>4, <2>6
    <3> HIDE DEF j
    <3>2. sumOf(i, j) = 0
      BY <1>7, <3>1
    <3> QED  BY <2>5, <2>6, <3>2 DEF Good
  <2>7. CASE d = 1
    <3>1. i + 1 = j /\ j \in 1 .. words
      BY <2>4, <2>7
    <3> HIDE DEF j
    <3>2. sumOf(i, j) = word(j)
      BY <1>8, <2>5, <3>1
    <3>3. word(j) \in Nat /\ word(j) <= 65535
      BY <1>3, <3>1
    <3> QED  BY <2>5, <2>7, <3>2, <3>3 DEF Good
  <2>8. CASE d > 1
    <3> DEFINE m == (i + j) \div 2
               a == m - i
               b == j - m
    <3>1. /\ a \in Nat /\ b \in Nat /\ a < d /\ b < d /\ m \in 0 .. words
          /\ i + a = m /\ m + b = j /\ a + b = d /\ i # j /\ i + 1 # j
      BY <1>2, <2>4, <2>8
    <3>2. sumOf(i, j) = sumOf(i, m) + sumOf(m, j)
      BY <1>9, <2>5, <3>1
    <3> HIDE DEF m, a, b, j
    <3>3. Bounded(a) /\ Bounded(b)
      BY <1>11, <2>2, <2>4, <3>1
    <3>4. Good(i, m, a)
      <4>1. i + a <= words
        BY <1>2, <3>1
      <4> QED  BY <3>1, <3>3, <4>1 DEF Bounded
    <3>5. Good(m, j, b)
      <4>1. m + b <= words
        BY <1>2, <2>5, <3>1
      <4> QED  BY <3>1, <3>3, <4>1 DEF Bounded
    <3>6. /\ sumOf(i, m) \in Nat /\ sumOf(i, m) <= 65535 * a
          /\ sumOf(m, j) \in Nat /\ sumOf(m, j) <= 65535 * b
      BY <3>4, <3>5 DEF Good
    <3>7. Good(i, j, d)
      BY <3>1, <3>2, <3>6 DEF Good
    <3> QED  BY <2>5, <3>7
  <2> QED  BY <2>4, <2>6, <2>7, <2>8
<1>14. Good(0, words, words)
  <2>1. Bounded(words)
    BY <1>2, <1>13, <1>11
  <2>2. 0 \in 0 .. words /\ 0 + words = words /\ 0 + words <= words
    BY <1>2
  <2> QED  BY <2>1, <2>2 DEF Bounded
<1>15. sumOf(0, words) \in Nat /\ sumOf(0, words) <= 65535 * words
  BY <1>14 DEF Good
<1> HIDE DEF sum
<1> QED  BY <1>1, <1>2, <1>4, <1>15, <1>10 DEF words

Half(n) == (n % 65536) + (n \div 65536)

(* Half drops a multiple of 65535, and not all of a number. *)
LEMMA HalfStep ==
  ASSUME NEW n \in Nat
  PROVE  /\ Half(n) \in Nat
         /\ \E k \in Nat : Half(n) = n - 65535 * k
         /\ n > 0 => Half(n) > 0
         /\ n < 65536 * 65536 => Half(n) <= 131070
         /\ n <= 131070 => Half(n) <= 65535
<1>1. PICK q \in Nat : q = n \div 65536
  OBVIOUS
<1>2. PICK r \in Nat : r = n % 65536
  OBVIOUS
<1>3. n = 65536 * q + r /\ r <= 65535
  BY <1>1, <1>2
<1>4. Half(n) = r + q
  BY <1>1, <1>2 DEF Half
<1>5. Half(n) = n - 65535 * q
  BY <1>3, <1>4
<1>6. n < 65536 * 65536 => q <= 65535
  BY <1>3
<1>7. n <= 131070 => q <= 1 /\ (q = 1 => r <= 65534)
  BY <1>3
<1> DEFINE h == r + q
<1>8. h \in Nat /\ h = n - 65535 * q /\ (n > 0 => h > 0)
  BY <1>3
<1>9. n < 65536 * 65536 => h <= 131070
  BY <1>3, <1>6
<1>10. n <= 131070 => h <= 65535
  BY <1>3, <1>7
<1> HIDE DEF h
<1>11. \E k \in Nat : h = n - 65535 * k
  BY <1>8
<1>12. Half(n) = h
  BY <1>4 DEF h
<1> QED  BY <1>8, <1>9, <1>10, <1>11, <1>12

LEMMA FoldIs ==
  ASSUME NEW n \in Nat
  PROVE  Fold(n) = Half(Half(Half(n)))
<1> DEFINE F(s) == [i \in 0 .. 3 |->
                      IF i = 0 THEN n ELSE (s[i-1] % 65536) + (s[i-1] \div 65536)]
           fold == CHOOSE s : s = F(s)
           w == [i \in 0 .. 3 |-> IF i = 0 THEN n
                                  ELSE IF i = 1 THEN Half(n)
                                  ELSE IF i = 2 THEN Half(Half(n)) ELSE Half(Half(Half(n)))]
<1>1. Fold(n) = fold[3]
  BY DEF Fold
<1>2. ASSUME NEW i \in 0 .. 3
      PROVE  w[i] = IF i = 0 THEN n ELSE (w[i-1] % 65536) + (w[i-1] \div 65536)
  <2>1. CASE i = 0
    BY <2>1
  <2>2. CASE i \in {1, 2, 3}
    <3>1. i - 1 \in 0 .. 3 /\ w[i] = Half(w[i-1])
      BY <2>2
    <3> HIDE DEF w
    <3> QED  BY <2>2, <3>1 DEF Half
  <2> QED  BY <2>1, <2>2
<1>3. w = F(w)
  <2>1. w = [i \in 0 .. 3 |-> w[i]]
    OBVIOUS
  <2> HIDE DEF w
  <2> QED  BY <1>2, <2>1
<1>4. fold = F(fold)
  <2> HIDE DEF F, w
  <2> QED  BY <1>3
<1> HIDE DEF fold
<1>5. F(fold)[0] = n
  OBVIOUS
<1>6. /\ fold[0] = n
      /\ \A i \in 1 .. 3 : fold[i] = F(fold)[i]
  <2> HIDE DEF F
  <2> QED  BY <1>4, <1>5
<1>7. \A i \in 1 .. 3 : F(fold)[i] = Half(fold[i-1])
  BY DEF Half
<1> HIDE DEF F
<1>8. fold[1] = Half(fold[0]) /\ fold[2] = Half(fold[1]) /\ fold[3] = Half(fold[2])
  BY <1>6, <1>7
<1> QED  BY <1>1, <1>6, <1>8

(* What is left of a sum is a word, and congruent to it. *)
LEMMA FoldBounds ==
  ASSUME NEW n \in Nat
  PROVE  /\ Fold(n) \in Nat
         /\ \E k \in Nat : Fold(n) = n - 65535 * k
         /\ n > 0 => Fold(n) > 0
         /\ n < 65536 * 65536 => Fold(n) <= 65535
<1>1. PICK a \in Nat : a = Half(n)
  BY HalfStep
<1>2. PICK b \in Nat : b = Half(a)
  BY HalfStep
<1>3. PICK c \in Nat : c = Half(b)
  BY HalfStep
<1>4. Fold(n) = c
  BY <1>1, <1>2, <1>3, FoldIs
<1>5. PICK j \in Nat : a = n - 65535 * j
  BY <1>1, HalfStep
<1>6. PICK k \in Nat : b = a - 65535 * k
  BY <1>2, HalfStep
<1>7. PICK m \in Nat : c = b - 65535 * m
  BY <1>3, HalfStep
<1>8. c = n - 65535 * (j + k + m)
  BY <1>5, <1>6, <1>7
<1>9. n > 0 => a > 0 /\ b > 0 /\ c > 0
  BY <1>1, <1>2, <1>3, HalfStep
<1>10. n < 65536 * 65536 => a <= 131070
  BY <1>1, HalfStep
<1>11. a <= 131070 => b <= 65535
  BY <1>2, HalfStep
<1>12. b <= 65535 => c <= 65535
  <2> SUFFICES ASSUME b <= 65535 PROVE c <= 65535
    OBVIOUS
  <2>1. b <= 131070
    OBVIOUS
  <2> QED  BY <2>1, <1>3, HalfStep
<1>13. j + k + m \in Nat
  OBVIOUS
<1> QED  BY <1>4, <1>8, <1>9, <1>10, <1>11, <1>12, <1>13

LEMMA ChecksumType ==
  ASSUME NEW data \in Seq(Bytes)
  PROVE  Checksum(data) \in Int
<1>1. PICK s \in Nat : s = SumOfWords(data)
  BY SumBounds
<1>2. PICK f \in Nat : f = Fold(s)
  BY FoldBounds
<1> QED  BY <1>1, <1>2 DEF Checksum

(* Words and their checksum add up to ones, for anyone who adds them. *)
LEMMA ChecksumVerifies ==
  ASSUME NEW data \in Seq(Bytes), Len(data) % 2 = 0, Len(data) <= 131000
  PROVE  Verifies(data, Checksum(data))
<1>1. PICK length \in Nat : length = Len(data)
  OBVIOUS
<1>2. PICK s \in Nat : s = SumOfWords(data) /\ s <= 65535 * (length \div 2)
  BY <1>1, SumBounds
<1>3. s <= 65535 * 65500
  BY <1>1, <1>2
<1>4. PICK f \in Nat : f = Fold(s)
  BY FoldBounds
<1>5. PICK k \in Nat : f = s - 65535 * k
  BY <1>4, FoldBounds
<1>6. f <= 65535
  BY <1>3, <1>4, FoldBounds
<1>7. PICK c \in Nat : c = 65535 - f
  BY <1>6
<1>8. Checksum(data) = c
  BY <1>2, <1>4, <1>7 DEF Checksum
<1>9. s + c = 65535 * (k + 1)
  BY <1>5, <1>7
<1>10. PICK t \in Nat : t = s + c
  OBVIOUS
<1>11. t > 0 /\ t < 65536 * 65536
  BY <1>3, <1>6, <1>7, <1>9, <1>10
<1>12. PICK g \in Nat : g = Fold(t)
  BY FoldBounds
<1>13. PICK m \in Nat : g = t - 65535 * m
  BY <1>12, FoldBounds
<1>14. g > 0 /\ g <= 65535
  BY <1>11, <1>12, FoldBounds
<1>15. g = 65535 * (k + 1 - m)
  BY <1>9, <1>10, <1>13
<1>16. g = 65535
  BY <1>14, <1>15
<1>17. Even(data) = data
  BY DEF Even
<1> QED  BY <1>2, <1>8, <1>10, <1>12, <1>16, <1>17 DEF Verifies

(* What is in the stack: the fields of a frame, and its length. *)
Fields ==
  [dst : Macs, src : Macs, etherType : {"ip", "other"}, options : Options, total : Nat,
   ttl : {57, 64}, protocol : Protocols, ipSum : Int, srcIp : Ips, dstIp : Ips,
   icmpType : {0, 8}, icmpData : {<<18, 52, 200, 1>>}, icmpSum : Int, content : Contents]

Packets == {f \in Fields : f.total = 4 * HeaderLength(f) + 8 + Len(f.content)}

(* Two frames with the same header but for its checksum. *)
SameHeader(f, g) ==
  /\ g.options = f.options /\ g.total = f.total /\ g.ttl = f.ttl
  /\ g.protocol = f.protocol /\ g.srcIp = f.srcIp /\ g.dstIp = f.dstIp

SameMessage(f, g) ==
  g.icmpType = f.icmpType /\ g.icmpData = f.icmpData /\ g.content = f.content

LEMMA IpBytes ==
  ASSUME NEW ip \in Ips
  PROVE  ip \in Seq(Bytes) /\ Len(ip) = 4
<1>1. ip \in [1 .. 4 -> 0 .. 255]
  BY FramesAssumption
<1>2. \A i \in 1 .. 4 : ip[i] \in Bytes
  BY <1>1 DEF Bytes
<1>3. ip = [i \in 1 .. 4 |-> ip[i]]
  BY <1>1
<1>4. 4 \in Nat
  OBVIOUS
<1> DEFINE s == [i \in 1 .. 4 |-> ip[i]]
<1>5. s \in Seq(Bytes) /\ Len(s) = 4
  BY <1>2, <1>4
<1> QED  BY <1>3, <1>5

LEMMA Behind ==
  ASSUME NEW s \in Seq(Bytes), NEW t \in Seq(Bytes)
  PROVE  s \o t \in Seq(Bytes) /\ Len(s \o t) = Len(s) + Len(t)
OBVIOUS

LEMMA PacketNumbers ==
  ASSUME NEW f \in Packets
  PROVE  /\ f.options \in Nat /\ f.options <= 10
         /\ HeaderLength(f) \in Nat /\ HeaderLength(f) <= 15
         /\ f.total \in Nat /\ f.total <= 1500
         /\ f.total >= 4 * HeaderLength(f) + 8
<1>1. f \in Fields /\ f.total = 4 * HeaderLength(f) + 8 + Len(f.content)
  BY DEF Packets
<1>2. f.options \in Options /\ f.content \in Contents
  BY <1>1 DEF Fields
<1>3. PICK k \in Nat : k = f.options /\ k <= 10
  <2>1. \A o \in Options : o \in Nat /\ o <= 10
    BY FramesAssumption
  <2> QED  BY <1>2, <2>1
<1>4. PICK n \in Nat : n = Len(f.content) /\ n <= 1432
  BY <1>2, FramesAssumption
<1>5. PICK h \in Nat : h = HeaderLength(f) /\ h = 5 + k
  BY <1>3 DEF HeaderLength
<1>6. PICK total \in Nat : total = f.total /\ total = 4 * h + 8 + n
  <2> DEFINE t == 4 * h + 8 + n
  <2>1. t \in Nat
    OBVIOUS
  <2>2. f.total = t
    BY <1>1, <1>4, <1>5
  <2> HIDE DEF t
  <2>3. \E total \in Nat : total = f.total /\ total = t
    BY <2>1, <2>2
  <2> QED  BY <2>3 DEF t
<1>7. h <= 15 /\ total <= 1500 /\ total >= 4 * h + 8
  <2>1. k <= 10
    BY <1>3
  <2>2. n <= 1432
    BY <1>4
  <2>3. h = 5 + k
    BY <1>5
  <2>4. total = 4 * h + 8 + n
    BY <1>6
  <2> QED  BY <2>1, <2>2, <2>3, <2>4
<1> QED  BY <1>3, <1>5, <1>6, <1>7

LEMMA HeaderIsBytes ==
  ASSUME NEW f \in Packets
  PROVE  /\ HeaderBytes(f) \in Seq(Bytes)
         /\ Len(HeaderBytes(f)) % 2 = 0 /\ Len(HeaderBytes(f)) <= 131000
<1>1. PICK k \in Nat : k = f.options /\ k <= 10
  BY PacketNumbers
<1>2. PICK total \in Nat : total = f.total /\ total <= 1500
  BY PacketNumbers
<1>3. PICK h \in Nat : h = HeaderLength(f) /\ h <= 15
  BY PacketNumbers
<1>4. f.protocol \in Bytes /\ f.ttl \in Bytes /\ f.srcIp \in Ips /\ f.dstIp \in Ips
  <2>1. f \in Fields
    BY DEF Packets
  <2>2. /\ f.protocol \in Protocols /\ f.ttl \in {57, 64}
        /\ f.srcIp \in Ips /\ f.dstIp \in Ips
    BY <2>1 DEF Fields
  <2>3. \A p \in Protocols : p \in Bytes
    BY FramesAssumption DEF Bytes
  <2>4. f.protocol \in Bytes
    BY <2>2, <2>3
  <2>5. f.ttl \in Bytes
    BY <2>2 DEF Bytes
  <2> QED  BY <2>2, <2>4, <2>5
<1> DEFINE start == <<64 + h, 0, total \div 256, total % 256, 0, 0, 0, 0,
                      f.ttl, f.protocol, 0, 0>>
           rest == [i \in 1 .. 4 * k |-> 1]
<1>5. start \in Seq(Bytes) /\ Len(start) = 12
  <2>1. h <= 15 /\ total <= 1500
    BY <1>2, <1>3
  <2>2. 64 + h \in Bytes /\ 0 \in Bytes
    BY <2>1 DEF Bytes
  <2>3. total \div 256 \in Bytes /\ total % 256 \in Bytes
    BY <2>1 DEF Bytes
  <2> QED  BY <1>4, <2>2, <2>3
<1>6. rest \in Seq(Bytes) /\ Len(rest) = 4 * k
  <2>1. 4 * k \in Nat /\ 1 \in Bytes
    BY DEF Bytes
  <2> QED  BY <2>1
<1>7. HeaderBytes(f) = start \o f.srcIp \o f.dstIp \o rest
  BY <1>1, <1>2, <1>3 DEF HeaderBytes
<1> HIDE DEF start, rest
<1>8. /\ f.srcIp \in Seq(Bytes) /\ Len(f.srcIp) = 4
      /\ f.dstIp \in Seq(Bytes) /\ Len(f.dstIp) = 4
  BY <1>4, IpBytes
<1> DEFINE first == start \o f.srcIp
           second == first \o f.dstIp
<1>9. first \in Seq(Bytes) /\ Len(first) = 16
  <2>1. first \in Seq(Bytes) /\ Len(first) = Len(start) + Len(f.srcIp)
    BY <1>5, <1>8, Behind
  <2> QED  BY <1>5, <1>8, <2>1
<1>10. second \in Seq(Bytes) /\ Len(second) = 20
  <2> HIDE DEF first
  <2>1. second \in Seq(Bytes) /\ Len(second) = Len(first) + Len(f.dstIp)
    BY <1>8, <1>9, Behind
  <2> QED  BY <1>8, <1>9, <2>1
<1>11. HeaderBytes(f) \in Seq(Bytes) /\ Len(HeaderBytes(f)) = 20 + 4 * k
  <2>1. HeaderBytes(f) = second \o rest
    BY <1>7
  <2> HIDE DEF second
  <2>2. second \o rest \in Seq(Bytes) /\ Len(second \o rest) = Len(second) + Len(rest)
    BY <1>6, <1>10, Behind
  <2> QED  BY <1>6, <1>10, <2>1, <2>2
<1>12. PICK length \in Nat : length = Len(HeaderBytes(f)) /\ length = 20 + 4 * k
  BY <1>11
<1>13. length % 2 = 0 /\ length <= 131000
  <2>1. length = 20 + 4 * k /\ k <= 10
    BY <1>1, <1>12
  <2> QED  BY <2>1
<1> QED  BY <1>11, <1>12, <1>13

LEMMA MessageIsBytes ==
  ASSUME NEW f, f.icmpType \in {0, 8}, f.icmpData = <<18, 52, 200, 1>>
  PROVE  /\ IcmpBytes(f) \in Seq(Bytes) /\ Len(IcmpBytes(f)) = 6
<1>1. f.icmpType \in Bytes /\ 0 \in Bytes /\ 18 \in Bytes /\ 52 \in Bytes
      /\ 200 \in Bytes /\ 1 \in Bytes
  BY DEF Bytes
<1>2. <<f.icmpType, 0>> \in Seq(Bytes) /\ f.icmpData \in Seq(Bytes) /\ Len(f.icmpData) = 4
  BY <1>1
<1> QED  BY <1>2 DEF IcmpBytes

LEMMA HeaderSame ==
  ASSUME NEW f, NEW g, SameHeader(f, g)
  PROVE  HeaderBytes(g) = HeaderBytes(f)
BY DEF SameHeader, HeaderBytes, HeaderLength

LEMMA MessageSame ==
  ASSUME NEW f, NEW g, SameMessage(f, g)
  PROVE  IcmpBytes(g) = IcmpBytes(f)
BY DEF SameMessage, IcmpBytes

(* What a checksum is set to leaves everything else. *)
LEMMA SumSet ==
  ASSUME NEW f \in Packets, NEW x \in Int
  PROVE  LET g == [f EXCEPT !.ipSum = x]
             h == [f EXCEPT !.icmpSum = x]
         IN  /\ g \in Packets /\ g.ipSum = x /\ SameHeader(f, g) /\ SameMessage(f, g)
             /\ g.dst = f.dst /\ g.src = f.src /\ g.etherType = f.etherType
             /\ g.icmpSum = f.icmpSum
             /\ h \in Packets /\ h.icmpSum = x /\ SameHeader(f, h) /\ SameMessage(f, h)
             /\ h.dst = f.dst /\ h.src = f.src /\ h.etherType = f.etherType
<1> DEFINE g == [f EXCEPT !.ipSum = x]
           h == [f EXCEPT !.icmpSum = x]
<1>1. f \in Fields /\ f.total = 4 * HeaderLength(f) + 8 + Len(f.content)
  BY DEF Packets
<1>2. /\ g \in Fields /\ g.ipSum = x /\ SameHeader(f, g) /\ SameMessage(f, g)
      /\ g.dst = f.dst /\ g.src = f.src /\ g.etherType = f.etherType
      /\ g.icmpSum = f.icmpSum
  BY <1>1 DEF Fields, SameHeader, SameMessage
<1>3. /\ h \in Fields /\ h.icmpSum = x /\ SameHeader(f, h) /\ SameMessage(f, h)
      /\ h.dst = f.dst /\ h.src = f.src /\ h.etherType = f.etherType
  BY <1>1 DEF Fields, SameHeader, SameMessage
<1> HIDE DEF g, h
<1>4. g \in Packets /\ h \in Packets
  BY <1>1, <1>2, <1>3 DEF Packets, SameHeader, SameMessage, HeaderLength
<1> QED  BY <1>2, <1>3, <1>4 DEF g, h

(* The header's checksum is set: it is right, and the rest is as it was. *)
LEMMA StampedHeader ==
  ASSUME NEW f \in Packets
  PROVE  LET g == Stamped(f) IN
         /\ g \in Packets /\ g.ipSum = Checksum(HeaderBytes(g))
         /\ SameHeader(f, g) /\ SameMessage(f, g) /\ g.dst = f.dst /\ g.src = f.src
         /\ g.etherType = f.etherType /\ g.icmpSum = f.icmpSum
<1>1. PICK x \in Int : x = Checksum(HeaderBytes(f))
  BY HeaderIsBytes, ChecksumType
<1> DEFINE g == [f EXCEPT !.ipSum = x]
<1>2. Stamped(f) = g
  BY <1>1 DEF Stamped
<1>3. /\ g \in Packets /\ g.ipSum = x /\ SameHeader(f, g) /\ SameMessage(f, g)
      /\ g.dst = f.dst /\ g.src = f.src /\ g.etherType = f.etherType
      /\ g.icmpSum = f.icmpSum
  BY SumSet
<1> HIDE DEF g
<1>4. HeaderBytes(g) = HeaderBytes(f)
  BY <1>3, HeaderSame
<1> QED  BY <1>1, <1>2, <1>3, <1>4

LEMMA MadeIsPacket ==
  ASSUME NEW dst \in Macs, NEW src \in Macs, NEW dstIp \in Ips, NEW srcIp \in Ips,
         NEW protocol \in Protocols, NEW options \in Options, NEW type \in {0, 8},
         NEW content \in Contents
  PROVE  LET g == Made(dst, src, dstIp, srcIp, protocol, options, type, content) IN
         g \in Packets /\ g.src = src
<1>1. PICK n \in Nat : n = Len(content)
  BY FramesAssumption
<1>2. PICK k \in Nat : k = options
  BY FramesAssumption
<1>3. PICK length \in Nat : length = 4 * (5 + k) + 8 + n
  OBVIOUS
<1>4. PICK data \in {<<18, 52, 200, 1>>} : TRUE
  OBVIOUS
<1> DEFINE f == [dst |-> dst, src |-> src, etherType |-> "ip", options |-> options,
                 total |-> length, ttl |-> 64,
                 protocol |-> protocol, ipSum |-> 0, srcIp |-> srcIp, dstIp |-> dstIp,
                 icmpType |-> type, icmpData |-> data, icmpSum |-> 0,
                 content |-> content]
           sum == Checksum(Even(IcmpBytes(f) \o content))
           g == [f EXCEPT !.icmpSum = sum]
<1>5. Made(dst, src, dstIp, srcIp, protocol, options, type, content) = Stamped(g)
  <2> DEFINE h == [dst |-> dst, src |-> src, etherType |-> "ip", options |-> options,
                   total |-> 4 * (5 + options) + 8 + Len(content), ttl |-> 64,
                   protocol |-> protocol, ipSum |-> 0, srcIp |-> srcIp, dstIp |-> dstIp,
                   icmpType |-> type, icmpData |-> <<18, 52, 200, 1>>, icmpSum |-> 0,
                   content |-> content]
  <2>1. Made(dst, src, dstIp, srcIp, protocol, options, type, content)
          = Stamped([h EXCEPT !.icmpSum = Checksum(Even(IcmpBytes(h) \o content))])
    BY Zenon DEF Made
  <2>2. f = h
    BY <1>1, <1>2, <1>3, <1>4, Zenon
  <2> QED  BY <2>1, <2>2, Zenon
<1>6. f \in Packets /\ f.src = src /\ f.content = content
  <2>1. /\ f \in Fields /\ f.src = src /\ f.content = content
        /\ f.total = length /\ f.options = options
    BY DEF Fields
  <2> HIDE DEF f
  <2>2. 4 * HeaderLength(f) + 8 + Len(f.content) = length
    BY <1>1, <1>2, <1>3, <2>1 DEF HeaderLength
  <2> QED  BY <2>1, <2>2 DEF Packets
<1> HIDE DEF f
<1>7. sum \in Int
  <2>1. f.icmpType \in {0, 8} /\ f.icmpData = <<18, 52, 200, 1>>
    BY <1>6 DEF Packets, Fields
  <2>2. IcmpBytes(f) \in Seq(Bytes)
    BY <2>1, MessageIsBytes
  <2>3. content \in Seq(Bytes)
    BY FramesAssumption DEF Bytes
  <2> DEFINE bytes == IcmpBytes(f) \o content
  <2>4. bytes \in Seq(Bytes)
    BY <2>2, <2>3, Behind
  <2> HIDE DEF bytes
  <2>5. Even(bytes) \in Seq(Bytes)
    <3>1. 0 \in Bytes
      BY DEF Bytes
    <3>2. Append(bytes, 0) \in Seq(Bytes)
      BY <2>4, <3>1
    <3> QED  BY <2>4, <3>2 DEF Even
  <2>6. Checksum(Even(bytes)) \in Int
    BY <2>5, ChecksumType
  <2> QED  BY <2>6 DEF bytes
<1> HIDE DEF sum
<1>8. g \in Packets /\ g.src = f.src
  BY <1>6, <1>7, SumSet
<1> HIDE DEF g
<1>9. Stamped(g) \in Packets /\ Stamped(g).src = g.src
  BY <1>8, StampedHeader
<1> QED  BY <1>5, <1>6, <1>8, <1>9

(* Of a ping the size handed on leaves the header of the message, unless   *)
(* the length is nearly that of the header when its bytes are swapped.     *)
LEMMA SizeLeavesHeader ==
  ASSUME NEW f \in Packets
  PROVE  PayloadSize(f) >= 8 <=>
           Swapped(f.total) \notin 4 * HeaderLength(f) .. 4 * HeaderLength(f) + 7
<1>1. PICK total \in Nat : total = f.total
  BY PacketNumbers
<1>2. PICK h \in Nat : h = 4 * HeaderLength(f) /\ total >= h + 8
  BY <1>1, PacketNumbers
<1>3. PICK swapped \in Nat : swapped = Swapped(f.total)
  BY <1>1 DEF Swapped
<1>4. PICK min \in Nat : min = MinPayload
  BY FramesAssumption
<1>5. PICK size1 \in Nat : size1 = Size(f) /\ size1 >= total
  BY <1>1, <1>4 DEF Size
<1>6. PICK length \in Nat : length = IF swapped > size1 THEN size1 ELSE swapped
  OBVIOUS
<1>7. PICK p \in Nat : p = IF length - h < 0 THEN Huge ELSE length - h
  BY DEF Huge
<1>8. PayloadSize(f) = p
  BY <1>2, <1>3, <1>5, <1>6, <1>7 DEF PayloadSize, Unsigned
<1>9. p >= 8 <=> ~ (h <= swapped /\ swapped <= h + 7)
  BY <1>2, <1>5, <1>6, <1>7 DEF Huge
<1>10. swapped \in h .. h + 7 <=> h <= swapped /\ swapped <= h + 7
  OBVIOUS
<1> QED  BY <1>2, <1>3, <1>8, <1>9, <1>10

(* The message of an answer: the ping's content, and the right checksum.   *)
AnswerTo(ping, f) ==
  /\ f \in Packets /\ f.icmpType = 0 /\ f.content = ping.content
  /\ f.icmpSum = Checksum(IcmpBytes(f))

(* The frame that goes out is readdressed in two steps: the addresses of   *)
(* the message, with the checksum of their header, and those of the frame. *)
Readdressed(ping, f) ==
  /\ AnswerTo(ping, f) /\ f.dstIp = ping.srcIp /\ f.srcIp = OurIp
  /\ f.ipSum = Checksum(HeaderBytes(f))

(***************************************************************************)
(* On its way up a frame is what has arrived, and each level has found it  *)
(* to be for this machine; when the levels return it is an answer exactly  *)
(* if it was a ping, as far as the levels passed have completed it.        *)
(***************************************************************************)
PingInv ==
  /\ level = "none" => frame = NoFrame /\ ~back
  /\ level \in {"ether", "ip", "icmp"} => ~back /\ frame = cause /\ cause \in Packets
  /\ level \in {"ip", "icmp"} => cause.dst \in {OurMac, Broadcast} /\ cause.etherType = "ip"
  /\ level = "icmp" =>
       cause.dstIp = OurIp /\ cause.protocol = 1 /\ given = PayloadSize(cause)
  /\ level \in {"ipBack", "etherBack"} => (back <=> AskedHere(cause))
  /\ level = "ipBack" /\ back =>
       /\ AnswerTo(cause, frame) /\ frame.src = cause.src
       /\ frame.srcIp = cause.srcIp /\ frame.dstIp = OurIp
  /\ level = "etherBack" /\ back => Readdressed(cause, frame) /\ frame.src = cause.src
  /\ level = "out" =>
       \/ frame = NoFrame
       \/ /\ back <=> AskedHere(cause)
          /\ back => Readdressed(cause, sent) /\ sent.dst = cause.src /\ sent.src = OurMac

LEMMA ArrivePing ==
  ASSUME PingInv, Arrive
  PROVE  PingInv'
<1>1. PICK dst, src \in Macs, dstIp, srcIp \in Ips, protocol \in Protocols,
           options \in Options, type \in {0, 8}, content \in Contents,
           etherType \in {"ip", "other"}, ttl \in {57, 64} :
        /\ src \notin {OurMac, Broadcast} /\ srcIp # OurIp
        /\ frame' = Stamped(
             [Made(dst, src, dstIp, srcIp, protocol, options, type, content)
                EXCEPT !.etherType = etherType, !.ttl = ttl])
        /\ cause' = frame'
  BY ZenonT(60) DEF Arrive
<1> DEFINE f == Made(dst, src, dstIp, srcIp, protocol, options, type, content)
           g == [f EXCEPT !.etherType = etherType, !.ttl = ttl]
<1>2. f \in Packets
  BY MadeIsPacket
<1>3. frame' = Stamped(g)
  BY <1>1
<1> HIDE DEF f
<1>4. g \in Packets
  <2>1. f \in Fields /\ f.total = 4 * HeaderLength(f) + 8 + Len(f.content)
    BY <1>2 DEF Packets
  <2>2. /\ g \in Fields /\ g.total = f.total /\ g.options = f.options
        /\ g.content = f.content
    BY <2>1 DEF Fields
  <2> HIDE DEF g
  <2> QED  BY <2>1, <2>2 DEF Packets, HeaderLength
<1> HIDE DEF g
<1>5. Stamped(g) \in Packets
  BY <1>4, StampedHeader
<1>6. frame' = cause' /\ cause' \in Packets
  BY <1>1, <1>3, <1>5
<1>7. level = "none" /\ level' = "ether" /\ back' = back
  BY DEF Arrive
<1> QED  BY <1>6, <1>7 DEF PingInv

LEMMA IcmpPing ==
  ASSUME PingInv, IcmpReceived
  PROVE  PingInv'
<1>1. /\ level = "icmp" /\ level' = "ipBack" /\ cause' = cause
      /\ ~back /\ frame = cause /\ cause \in Packets
      /\ cause.dst \in {OurMac, Broadcast} /\ cause.etherType = "ip"
      /\ cause.dstIp = OurIp /\ cause.protocol = 1 /\ given = PayloadSize(cause)
  BY DEF PingInv, IcmpReceived
<1>2. AskedHere(cause) <=> given >= 8 /\ frame.icmpType = 8
  BY <1>1, SizeLeavesHeader DEF AskedHere
<1>3. CASE given >= 8 /\ frame.icmpType = 8
  <2> DEFINE f == [frame EXCEPT !.icmpType = 0]
             sum == Checksum(IcmpBytes(f))
             g == [f EXCEPT !.icmpSum = sum]
  <2>1. frame' = g /\ back' = TRUE
    BY <1>3 DEF IcmpReceived
  <2>2. /\ f \in Packets /\ f.icmpType = 0 /\ f.content = frame.content
        /\ f.src = frame.src /\ f.srcIp = frame.srcIp /\ f.dstIp = frame.dstIp
    <3>1. frame \in Fields /\ frame.total = 4 * HeaderLength(frame) + 8 + Len(frame.content)
      BY <1>1 DEF Packets
    <3>2. /\ f \in Fields /\ f.icmpType = 0 /\ f.content = frame.content
          /\ f.src = frame.src /\ f.srcIp = frame.srcIp /\ f.dstIp = frame.dstIp
          /\ f.total = frame.total /\ f.options = frame.options
      BY <3>1 DEF Fields
    <3> HIDE DEF f
    <3> QED  BY <3>1, <3>2 DEF Packets, HeaderLength
  <2> HIDE DEF f
  <2>3. sum \in Int
    <3>1. f.icmpType \in {0, 8} /\ f.icmpData = <<18, 52, 200, 1>>
      BY <2>2 DEF Packets, Fields
    <3> QED  BY <3>1, MessageIsBytes, ChecksumType
  <2>4. sum = Checksum(IcmpBytes(f))
    OBVIOUS
  <2> HIDE DEF sum
  <2>5. /\ g \in Packets /\ g.icmpSum = sum /\ SameHeader(f, g) /\ SameMessage(f, g)
        /\ g.src = f.src
    BY <2>2, <2>3, SumSet
  <2> HIDE DEF g
  <2>6. IcmpBytes(g) = IcmpBytes(f)
    BY <2>5, MessageSame
  <2>7. AnswerTo(cause, g)
    BY <1>1, <2>2, <2>4, <2>5, <2>6 DEF AnswerTo, SameMessage
  <2>8. g.src = cause.src /\ g.srcIp = cause.srcIp /\ g.dstIp = OurIp
    BY <1>1, <2>2, <2>5 DEF SameHeader
  <2>9. back' <=> AskedHere(cause)'
    BY <1>1, <1>2, <1>3, <2>1
  <2> QED  BY <1>1, <2>1, <2>7, <2>8, <2>9 DEF PingInv
<1>4. CASE ~ (given >= 8 /\ frame.icmpType = 8)
  <2>1. back' = back
    BY <1>4 DEF IcmpReceived
  <2>2. ~back' /\ ~AskedHere(cause)'
    BY <1>1, <1>2, <1>4, <2>1
  <2> QED  BY <1>1, <2>2 DEF PingInv
<1> QED  BY <1>3, <1>4

LEMMA IpBackPing ==
  ASSUME PingInv, IpBack
  PROVE  PingInv'
<1>1. level = "ipBack" /\ level' = "etherBack" /\ cause' = cause /\ back' = back
  BY DEF IpBack
<1>2. back <=> AskedHere(cause)
  BY <1>1 DEF PingInv
<1>3. CASE back
  <2> DEFINE f == [frame EXCEPT !.dstIp = frame.srcIp, !.srcIp = frame.dstIp, !.ttl = 64]
             g == Stamped(f)
  <2>1. frame' = g
    BY <1>3 DEF IpBack, Returned
  <2>2. /\ AnswerTo(cause, frame) /\ frame.src = cause.src
        /\ frame.srcIp = cause.srcIp /\ frame.dstIp = OurIp
    BY <1>1, <1>3 DEF PingInv
  <2>3. /\ f \in Packets /\ f.dstIp = cause.srcIp /\ f.srcIp = OurIp /\ f.src = cause.src
        /\ SameMessage(frame, f) /\ f.icmpSum = frame.icmpSum
    <3>1. frame \in Fields /\ frame.total = 4 * HeaderLength(frame) + 8 + Len(frame.content)
      BY <2>2 DEF Packets, AnswerTo
    <3>2. frame.srcIp \in Ips /\ frame.dstIp \in Ips
      BY <3>1 DEF Fields
    <3>3. /\ f \in Fields /\ f.dstIp = frame.srcIp /\ f.srcIp = frame.dstIp
          /\ f.src = frame.src /\ SameMessage(frame, f) /\ f.icmpSum = frame.icmpSum
          /\ f.total = frame.total /\ f.options = frame.options
      BY <3>1, <3>2 DEF Fields, SameMessage
    <3> HIDE DEF f
    <3> QED  BY <2>2, <3>1, <3>3 DEF Packets, HeaderLength, SameMessage
  <2> HIDE DEF f
  <2>4. /\ g \in Packets /\ g.ipSum = Checksum(HeaderBytes(g))
        /\ SameHeader(f, g) /\ SameMessage(f, g) /\ g.src = f.src /\ g.icmpSum = f.icmpSum
    BY <2>3, StampedHeader
  <2> HIDE DEF g
  <2>5. IcmpBytes(g) = IcmpBytes(frame)
    BY <2>3, <2>4, MessageSame
  <2>6. AnswerTo(cause, g)
    BY <2>2, <2>3, <2>4, <2>5 DEF AnswerTo, SameMessage
  <2>7. Readdressed(cause, g) /\ g.src = cause.src
    BY <2>3, <2>4, <2>6 DEF Readdressed, SameHeader
  <2> QED  BY <1>1, <1>2, <1>3, <2>1, <2>7 DEF PingInv
<1>4. CASE ~back
  BY <1>1, <1>2, <1>4 DEF PingInv
<1> QED  BY <1>3, <1>4

LEMMA EtherBackPing ==
  ASSUME PingInv, EtherBack
  PROVE  PingInv'
<1>1. level = "etherBack" /\ level' = "out" /\ cause' = cause /\ back' = back
  BY DEF EtherBack
<1>2. back <=> AskedHere(cause)
  BY <1>1 DEF PingInv
<1>3. CASE back
  <2> DEFINE g == [frame EXCEPT !.dst = frame.src, !.src = OurMac]
  <2>1. sent' = g
    BY <1>3 DEF EtherBack
  <2>2. Readdressed(cause, frame) /\ frame.src = cause.src
    BY <1>1, <1>3 DEF PingInv
  <2>3. /\ g \in Packets /\ SameHeader(frame, g) /\ SameMessage(frame, g)
        /\ g.icmpSum = frame.icmpSum /\ g.ipSum = frame.ipSum
        /\ g.dst = cause.src /\ g.src = OurMac
    <3>1. frame \in Fields /\ frame.total = 4 * HeaderLength(frame) + 8 + Len(frame.content)
      BY <2>2 DEF Packets, AnswerTo, Readdressed
    <3>2. frame.src \in Macs /\ OurMac \in Macs
      BY <3>1, FramesAssumption DEF Fields
    <3>3. /\ g \in Fields /\ SameHeader(frame, g) /\ SameMessage(frame, g)
          /\ g.icmpSum = frame.icmpSum /\ g.ipSum = frame.ipSum
          /\ g.dst = frame.src /\ g.src = OurMac
      BY <3>1, <3>2 DEF Fields, SameMessage, SameHeader
    <3> HIDE DEF g
    <3> QED  BY <2>2, <3>1, <3>3 DEF Packets, HeaderLength, SameMessage, SameHeader
  <2> HIDE DEF g
  <2>4. IcmpBytes(g) = IcmpBytes(frame) /\ HeaderBytes(g) = HeaderBytes(frame)
    BY <2>3, MessageSame, HeaderSame
  <2>5. Readdressed(cause, g)
    BY <2>2, <2>3, <2>4 DEF Readdressed, AnswerTo, SameMessage, SameHeader
  <2> QED  BY <1>1, <1>2, <1>3, <2>1, <2>3, <2>5 DEF PingInv
<1>4. CASE ~back
  BY <1>1, <1>2, <1>4 DEF PingInv
<1> QED  BY <1>3, <1>4

LEMMA PingInvHolds == FramesSpec => []PingInv
<1>1. FramesInit => PingInv
  BY DEF FramesInit, PingInv
<1>2. PingInv /\ [FramesNext]_frameVars => PingInv'
  <2> SUFFICES ASSUME PingInv, [FramesNext]_frameVars PROVE PingInv'
    OBVIOUS
  <2>1. CASE EtherReceived
    BY <2>1 DEF EtherReceived, PingInv, AskedHere
  <2>2. CASE IpReceived
    BY <2>2 DEF IpReceived, PingInv, AskedHere
  <2>3. CASE RequestEchoReply
    BY <2>3 DEF RequestEchoReply, PingInv
  <2>4. CASE Leaves
    BY <2>4 DEF Leaves, PingInv
  <2>5. CASE UNCHANGED frameVars
    BY <2>5 DEF frameVars, PingInv, AskedHere
  <2> QED  BY <2>1, <2>2, <2>3, <2>4, <2>5, ArrivePing, IcmpPing, IpBackPing, EtherBackPing
           DEF FramesNext
<1> QED  BY <1>1, <1>2, PTL DEF FramesSpec

(***************************************************************************)
(* Whatever the network, the options and the content: pings for this       *)
(* machine are answered to their sender with their content, and nothing    *)
(* else is; the checksum of the header is right, and that of the message   *)
(* if the ping carried nothing.                                            *)
(***************************************************************************)
THEOREM PingsAlwaysAnswered == FramesSpec => []PingsAnswered
<1>1. PingInv => PingsAnswered
  <2> SUFFICES ASSUME PingInv, level = "out", frame # NoFrame
               PROVE  /\ back <=> AskedHere(cause)
                      /\ back =>
                           /\ sent.dst = cause.src /\ sent.src = OurMac
                           /\ sent.dstIp = cause.srcIp /\ sent.srcIp = OurIp
                           /\ sent.icmpType = 0 /\ sent.content = cause.content
                           /\ Verifies(HeaderBytes(sent), sent.ipSum)
                           /\ sent.content = <<>> => Verifies(IcmpBytes(sent), sent.icmpSum)
    BY DEF PingsAnswered
  <2>1. back <=> AskedHere(cause)
    BY DEF PingInv
  <2>2. ASSUME back
        PROVE  /\ sent.dst = cause.src /\ sent.src = OurMac
               /\ sent.dstIp = cause.srcIp /\ sent.srcIp = OurIp
               /\ sent.icmpType = 0 /\ sent.content = cause.content
               /\ Verifies(HeaderBytes(sent), sent.ipSum)
               /\ Verifies(IcmpBytes(sent), sent.icmpSum)
    <3>1. Readdressed(cause, sent) /\ sent.dst = cause.src /\ sent.src = OurMac
      BY <2>2 DEF PingInv
    <3>2. /\ sent \in Packets /\ sent.icmpType = 0 /\ sent.content = cause.content
          /\ sent.icmpSum = Checksum(IcmpBytes(sent))
          /\ sent.dstIp = cause.srcIp /\ sent.srcIp = OurIp
          /\ sent.ipSum = Checksum(HeaderBytes(sent))
      BY <3>1 DEF Readdressed, AnswerTo
    <3>3. Verifies(HeaderBytes(sent), Checksum(HeaderBytes(sent)))
      BY <3>2, HeaderIsBytes, ChecksumVerifies
    <3>4. Verifies(IcmpBytes(sent), Checksum(IcmpBytes(sent)))
      <4>1. sent.icmpType \in {0, 8} /\ sent.icmpData = <<18, 52, 200, 1>>
        BY <3>2 DEF Packets, Fields
      <4>2. IcmpBytes(sent) \in Seq(Bytes) /\ Len(IcmpBytes(sent)) = 6
        BY <4>1, MessageIsBytes
      <4> DEFINE data == IcmpBytes(sent)
      <4>3. data \in Seq(Bytes) /\ Len(data) % 2 = 0 /\ Len(data) <= 131000
        BY <4>2
      <4> HIDE DEF data
      <4>4. Verifies(data, Checksum(data))
        BY <4>3, ChecksumVerifies
      <4> QED  BY <4>4 DEF data
    <3> QED  BY <3>1, <3>2, <3>3, <3>4
  <2> QED  BY <2>1, <2>2
<1> QED  BY <1>1, PingInvHolds, PTL
=============================================================================
