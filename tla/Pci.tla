-------------------------------- MODULE Pci ---------------------------------
(***************************************************************************)
(* How kernelMain finds its devices: SelectDrivers walks over the PCI      *)
(* buses and enters a driver for each function it knows into the table of  *)
(* the driver manager, ActivateAll activates them, and the kernel takes    *)
(* the network card and the disk controller from fixed places.             *)
(*                                                                         *)
(* Interrupts are still off, so nothing comes between: each function of    *)
(* the bus is one step.  What sits on the bus is external, and chosen when *)
(* the walk gets there.                                                    *)
(***************************************************************************)
EXTENDS Integers, Sequences

CONSTANTS
  Buses, Devices, Functions, \* numbers of each: 8, 32 and 8 in the code
  Units,     \* what a function of a device may be
  Absent,    \* nothing there: every register reads as ones
  Garbage,   \* an address that was never set
  DriverSlots \* of the table of drivers: 255 in the code

\* A base address register: for ports or for memory, and where (0: nowhere).
Bar == [io : BOOLEAN, base : Nat]

ASSUME TableAssumption == DriverSlots \in Nat /\ DriverSlots >= 3

ASSUME BusAssumption ==
  /\ Buses \in Nat \ {0} /\ Devices \in Nat \ {0} /\ Functions \in Nat \ {0}
  /\ Absent \notin Units
  /\ Units \subseteq
       [vendor : STRING, id : STRING, class : STRING, subclass : Nat,
        header : {0, 1},   \* a device or a bridge
        multi : BOOLEAN,   \* it says that it has more functions
        bars : [1 .. 6 -> Bar]]

VARIABLES
  bus,        \* the devices looked at so far: their functions, by <<bus, device>>
  scan,       \* where SelectDrivers is: [bus, device, function, functions]
  phase,      \* "device", "function", "activate", "running", or "lost"
  drivers,    \* DriverManager.drivers: [name, at, base, bar5]
  overrun,    \* numDrivers was overwritten: a driver was stored behind the last slot
  activated,  \* how many of them ActivateAll has called
  eth0, disk, \* what the kernel takes for its card and its controller
  refused     \* functions for whose driver there was no memory

pciVars == <<bus, scan, phase, drivers, overrun, activated, eth0, disk, refused>>

Device == <<scan.bus, scan.device>>
At     == <<scan.bus, scan.device, scan.function>>

Known(name) == [name |-> name, at |-> <<>>, base |-> Garbage, bar5 |-> Garbage]

PciInit ==
  /\ bus = [d \in {} |-> Absent]
  /\ scan = [bus |-> 0, device |-> 0, function |-> 0, functions |-> 0]
  /\ phase = "device"
  /\ drivers = <<Known("rtc"), Known("keyboard"), Known("mouse")>>
  /\ overrun = FALSE
  /\ activated = 0
  /\ eth0 = Known("none") /\ disk = Known("none")
  /\ refused = {}

-----------------------------------------------------------------------------
(* The registers of a function. *)

\* Bit 7 of the header type is set, too, where nothing answers.
DeviceHasFunctions(unit) == IF unit = Absent THEN TRUE ELSE unit.multi

MaxBars(unit) == 6 - 4 * unit.header

\* What GetBaseAddressRegister may give: for a register that is not there,
\* the result as it was allocated.
GetBaseAddressRegister(unit, bar) ==
  IF bar >= MaxBars(unit) THEN [io : BOOLEAN, base : {0, Garbage}]
  ELSE {unit.bars[bar + 1]}

\* To learn the size of a memory region the code writes ones into its
\* register, reads it, and writes back what was there before.
Ones == [io |-> TRUE, base |-> Garbage]

Sized(unit, bar, registers) ==
  IF bar >= MaxBars(unit) \/ registers[bar + 1].io THEN registers
  ELSE [ [registers EXCEPT ![bar + 1] = Ones] EXCEPT ![bar + 1] = registers[bar + 1] ]

AllSized(unit) ==
  LET after[n \in 0 .. 6] ==
        IF n = 0 THEN unit.bars ELSE Sized(unit, n - 1, after[n-1])
  IN  [unit EXCEPT !.bars = after[6]]

\* The loop over the registers keeps the last port address.
PortBases(unit) ==
  LET after[n \in 0 .. 6] ==
        IF n = 0 THEN {Garbage}
        ELSE UNION { {IF r.io /\ r.base # 0 THEN r.base ELSE base : base \in after[n-1]} :
                     r \in GetBaseAddressRegister(unit, n - 1) }
  IN  after[6]

\* Which driver a function gets: the vendor's ids come before the class.
GetDriver(unit) ==
  IF unit = Absent THEN "none"
  ELSE IF unit.vendor = "amd" /\ unit.id = "2000" THEN "am79c973"
  ELSE IF unit.class = "storage" /\ unit.subclass = 6 THEN "ahci"
  ELSE "none"

\* What the kernel has a driver for is no bridge, and the firmware has given
\* its port registers an address.
ASSUME FirmwareAssumption ==
  \A u \in Units :
    GetDriver(u) # "none" =>
      /\ u.header = 0
      /\ \A n \in 1 .. 6 : u.bars[n].io => u.bars[n].base # 0

-----------------------------------------------------------------------------
(* SelectDrivers. *)

\* What a device may be: without a function 0 nothing answers, and without
\* the bit in its header there are no other functions.
Plugged ==
  {d \in [0 .. Functions - 1 -> Units \union {Absent}] :
     d[0] = Absent \/ ~DeviceHasFunctions(d[0]) =>
       \A f \in 1 .. Functions - 1 : d[f] = Absent}

\* A device taken to be one function, for a mutant.
OneFunction(unit) == 1

NumFunctions(unit) == IF DeviceHasFunctions(unit) THEN Functions ELSE 1

SelectDevice ==
  /\ phase = "device"
  /\ \E d \in Plugged :
       /\ bus' = [a \in DOMAIN bus \union {Device} |-> IF a = Device THEN d ELSE bus[a]]
       /\ scan' = [scan EXCEPT !.function = 0, !.functions = NumFunctions(d[0])]
  /\ phase' = "function"
  /\ UNCHANGED <<drivers, overrun, activated, eth0, disk, refused>>

\* The next function of the device, or the next device, or the end.
LastFunction == scan.function + 1 = scan.functions
LastDevice   == scan.device + 1 = Devices

Advance ==
  /\ scan' = CASE ~LastFunction -> [scan EXCEPT !.function = @ + 1]
               [] LastFunction /\ ~LastDevice -> [scan EXCEPT !.device = @ + 1]
               [] OTHER -> [scan EXCEPT !.bus = @ + 1, !.device = 0]
  /\ phase' = CASE ~LastFunction -> "function"
                [] LastFunction /\ LastDevice /\ scan.bus + 1 = Buses -> "activate"
                [] OTHER -> "device"

\* What is read of a function; portBase is not set there.
GetDeviceDescriptor(unit) ==
  [name |-> GetDriver(unit), at |-> At, base |-> Garbage, bar5 |-> unit.bars[6].base]

\* AddDriver does not look how many there are: behind the last slot is
\* numDrivers, which becomes the address of the driver.
AddDriver(entry) ==
  \/ /\ Len(drivers) < DriverSlots
     /\ drivers' = Append(drivers, entry)
     /\ UNCHANGED overrun
  \/ /\ Len(drivers) = DriverSlots /\ ~overrun
     /\ overrun' = TRUE
     /\ UNCHANGED drivers

\* A driver with what it keeps of the descriptor, if there is memory for it.
Enter(unit) ==
  \/ /\ \E base \in PortBases(unit) :
          AddDriver([GetDeviceDescriptor(unit) EXCEPT !.base = base])
     /\ UNCHANGED refused
  \/ /\ refused' = refused \union {At}
     /\ UNCHANGED <<drivers, overrun>>

SelectFunction ==
  /\ phase = "function"
  /\ LET unit == bus[Device][scan.function] IN
     /\ IF unit = Absent THEN UNCHANGED bus
        ELSE bus' = [bus EXCEPT ![Device][scan.function] = AllSized(unit)]
     /\ IF GetDriver(unit) = "none" THEN UNCHANGED <<drivers, overrun, refused>>
        ELSE Enter(unit)
  /\ Advance
  /\ UNCHANGED <<activated, eth0, disk>>

\* With an address for the count, the next driver is stored anywhere, and the
\* loop of ActivateAll calls through what lies behind the table: from there
\* the kernel may do anything, and the model ends.
RunAway ==
  /\ overrun
  /\ \/ phase = "function" /\ GetDriver(bus[Device][scan.function]) # "none"
     \/ phase = "activate"
  /\ phase' = "lost"
  /\ UNCHANGED <<bus, scan, drivers, overrun, activated, eth0, disk, refused>>

ActivateAll ==
  /\ phase = "activate"
  /\ ~overrun /\ activated = 0
  /\ activated' = Len(drivers)
  /\ UNCHANGED <<bus, scan, phase, drivers, overrun, eth0, disk, refused>>

\* drivers[n]: an address nobody set if there are not so many.
DriverAt(n) == IF n < Len(drivers) THEN drivers[n + 1] ELSE Known("none")

TakeDrivers ==
  /\ phase = "activate"
  /\ activated = Len(drivers)
  /\ disk' = DriverAt(4)
  /\ eth0' = DriverAt(3)
  /\ phase' = "running"
  /\ UNCHANGED <<bus, scan, drivers, overrun, activated, refused>>

PciNext ==
  \/ SelectDevice
  \/ SelectFunction
  \/ RunAway
  \/ ActivateAll
  \/ TakeDrivers

PciSpec == PciInit /\ [][PciNext]_pciVars

-----------------------------------------------------------------------------
Addresses == (0 .. Buses - 1) \X (0 .. Devices - 1)

\* The functions that have a driver and memory for it, in the order of the walk.
Served ==
  {at \in (0 .. Buses - 1) \X (0 .. Devices - 1) \X (0 .. Functions - 1) :
     GetDriver(bus[<<at[1], at[2]>>][at[3]]) # "none" /\ at \notin refused}

Place(at) == (at[1] * Devices + at[2]) * Functions + at[3]

UnitAt(at) == bus[<<at[1], at[2]>>][at[3]]

First(at)  == \A other \in Served : Place(at) <= Place(other)
Second(at) ==
  \E first \in Served :
    /\ First(first) /\ at # first
    /\ \A other \in Served \ {first} : Place(at) <= Place(other)

(***************************************************************************)
(* When the walk is over, every function the kernel has a driver for is in *)
(* the table once, in bus order behind the three built-in drivers, unless  *)
(* there was no memory; each driver was given the ports and the memory of  *)
(* its own function; and no function was left with a register changed.     *)
(* Only a full table leaves functions out, the last of the walk, and then  *)
(* the kernel does not get past the activation.  What it goes on to use as *)
(* its network card is the first function of the walk it has a driver for, *)
(* and as its disk controller the second: they are the card and the        *)
(* controller exactly if these two come first, in that order.              *)
(***************************************************************************)
DriversInBusOrder ==
  phase \in {"activate", "running"} =>
    LET found == {drivers[i].at : i \in 4 .. Len(drivers)} IN
    /\ DOMAIN bus = Addresses
    /\ found \subseteq Served
    /\ \A i, j \in 4 .. Len(drivers) : i < j => Place(drivers[i].at) < Place(drivers[j].at)
    /\ \A i \in 4 .. Len(drivers) :
         LET unit == UnitAt(drivers[i].at)
             ports == {unit.bars[n].base : n \in {m \in 1 .. 6 : unit.bars[m].io}}
         IN  /\ drivers[i].name = GetDriver(unit)
             /\ drivers[i].bar5 = unit.bars[6].base
             /\ drivers[i].base \in (IF ports = {} THEN {Garbage} ELSE ports)
    /\ \A d \in Addresses, f \in 0 .. Functions - 1 : bus[d][f] \in Units \union {Absent}
    /\ \A left \in Served \ found :
         Len(drivers) = DriverSlots /\ \A at \in found : Place(at) < Place(left)
    /\ phase = "running" =>
         /\ found = Served
         /\ \A at \in Served : (First(at) => eth0.at = at) /\ (Second(at) => disk.at = at)
         /\ eth0.name = "am79c973" <=>
              \E at \in Served : First(at) /\ GetDriver(UnitAt(at)) = "am79c973"
         /\ disk.name = "ahci" <=>
              \E at \in Served : Second(at) /\ GetDriver(UnitAt(at)) = "ahci"
=============================================================================
