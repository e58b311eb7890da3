\* The bus: two buses of two devices with two functions, and two slots behind
\* those of the built-in drivers.
CONSTANTS
  Buses = 2
  Devices = 2
  Functions = 2
  Units <- MCUnits
  Absent = Absent
  Garbage = Garbage
  DriverSlots = 5

\* The controller: two slots and two ports, regions of four sectors.
CONSTANTS
  Slots = 2
  Ports = 2
  DrivePort = 0
  RegionSectors = 4
  MaxChunk = 12
  CountLimit = 8
  MaxSpin = 2
  ReadCounts = {0, 1, 4, 5, 11, 14}
  WriteCounts = {3, 7, 8}
  MaxRequests = 2

\* The drive: two partitions with two directory entries each.  The sectors are
\* 0x020202 and 0x0FFFFFFF, the last with 28 bits: each survives one of the
\* registers.  Numbers have 29 bits, to stay within what TLC can calculate.
CONSTANTS
  SectorBytes = 512
  BpbBytes = 90
  Partitions = 2
  Entries = 2
  SectorNumbers = {131586, 268435455}
  HighRegisters = {2, 255}
  SectorsPerCluster = {0, 1, 2}
  FileSizes = {0, 1, 3, 4}
  Clusters = {0, 2, 3}
  Numbers = 536870912

\* The frames.
CONSTANTS
  Macs = {"ours", "theirs", "everyone"}
  OurMac = "ours"
  Broadcast = "everyone"
  Ips <- MCIps
  OurIp <- MCOurIp
  Gateway <- MCGateway
  MacOf <- MCMacOf
  Contents <- MCContents
  Protocols = {1, 17}
  Options = {0, 1}
  MinPayload = 46

SPECIFICATION DevicesSpec

INVARIANTS
  DriversInBusOrder
  TransferExact
  DriveEmptied
  FileSectorsInOrder
  PayloadInFrame
  PingsAnswered

PROPERTIES
  CommandsReturn
  FileLeft

CHECK_DEADLOCK FALSE
