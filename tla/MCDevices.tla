----------------------------- MODULE MCDevices ------------------------------
(***************************************************************************)
(* The devices on small instances, one part at a time: the walk over the   *)
(* bus, the disk behind the controller, the partitions of the ATA drive,   *)
(* or a frame in the stack.  They share no variable: a behaviour is one of *)
(* the part chosen in its first state, and the others rest.                *)
(***************************************************************************)
EXTENDS Pci, Ahci, Fat, Frames

VARIABLE part

partVars == <<pciVars, ahciVars, diskVars, frameVars>>

-----------------------------------------------------------------------------
(* What is on the bus: a card, a controller and a bridge. *)

MemoryAt(n) == [io |-> FALSE, base |-> n]
PortsAt(n)  == [io |-> TRUE, base |-> n]
Nowhere     == MemoryAt(0)

MCUnits ==
  { [vendor |-> "amd", id |-> "2000", class |-> "network", subclass |-> 0, header |-> 0,
     multi |-> FALSE,
     bars |-> <<PortsAt(1), MemoryAt(2), Nowhere, Nowhere, Nowhere, Nowhere>>],
    [vendor |-> "intel", id |-> "2829", class |-> "storage", subclass |-> 6, header |-> 0,
     multi |-> FALSE,
     bars |-> <<PortsAt(3), Nowhere, Nowhere, Nowhere, PortsAt(4), MemoryAt(5)>>],
    [vendor |-> "intel", id |-> "2000", class |-> "bridge", subclass |-> 4, header |-> 1,
     multi |-> TRUE,
     bars |-> <<MemoryAt(6), Nowhere, Nowhere, Nowhere, Nowhere, Nowhere>>] }

-----------------------------------------------------------------------------
(* Addresses of the machine, its gateway and a machine beyond; and messages   *)
(* that are empty, odd, and as long as to make the two bytes of the length    *)
(* small, rising and falling.                                                 *)

MCOurIp   == <<10, 0, 2, 15>>
MCGateway == <<10, 0, 2, 2>>
MCIps     == {MCOurIp, MCGateway, <<10, 0, 3, 200>>}
MCMacOf   == [ip \in MCIps |-> IF ip = MCOurIp THEN "ours" ELSE "theirs"]

Zeros(n) == [i \in 1 .. n |-> 0]
MCContents == {<<>>, <<7>>, <<1, 2, 200>>, Zeros(228), Zeros(233), Zeros(485)}

-----------------------------------------------------------------------------
(* The sum. *)

\* A part that rests is in one of its initial states.
AhciRests == sata = {} /\ ~busy
DiskRests == drive.state = "ready"

DevicesInit ==
  /\ part \in {"bus", "controller", "drive", "frame"}
  /\ PciInit /\ AhciInit /\ AtaInit /\ FatInit /\ FramesInit
  /\ part # "controller" => AhciRests
  /\ part # "drive" => DiskRests

BusStep        == part = "bus" /\ PciNext /\ UNCHANGED <<ahciVars, diskVars, frameVars>>
ControllerStep == part = "controller" /\ AhciNext /\ UNCHANGED <<pciVars, diskVars, frameVars>>
DriveStep      == part = "drive" /\ FatNext /\ UNCHANGED <<pciVars, ahciVars, frameVars>>
FrameStep      == part = "frame" /\ FramesNext /\ UNCHANGED <<pciVars, ahciVars, diskVars>>

DevicesNext ==
  /\ UNCHANGED part
  /\ BusStep \/ ControllerStep \/ DriveStep \/ FrameStep

\* The fairness of the parts that have one, when they are the ones to move.
DevicesFairness ==
  /\ part = "controller" => AhciFairness
  /\ part = "drive" => FatFairness

DevicesSpec ==
  DevicesInit /\ [][DevicesNext]_<<part, partVars>> /\ DevicesFairness
=============================================================================
