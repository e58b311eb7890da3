-------------------------------- MODULE Ahci --------------------------------
(***************************************************************************)
(* The disk: MBR_PARTITION_TABLE splits a request into chunks, and         *)
(* AdvancedHostControllerInterface::read and write make of each chunk a    *)
(* command in a slot of the port, with a table of regions of memory, and   *)
(* poll until the slot is free or the port reports an error.               *)
(*                                                                         *)
(* The controller, with its drive, is external.  It takes the sectors the  *)
(* command asks for one after the other to or from the regions of the      *)
(* table, and stops for good at an error: the code never restarts a port.  *)
(*                                                                         *)
(* Memory is counted in sectors from the start of the caller's buffer.     *)
(***************************************************************************)
EXTENDS Integers, Sequences, FiniteSets

CONSTANTS
  Slots,         \* slots of a port: 32
  Ports,         \* ports of the controller: 32
  DrivePort,     \* the one with a drive
  RegionSectors, \* sectors of a full region: 16, or 8 KiB
  MaxChunk,      \* sectors of a chunk: 65536
  CountLimit,    \* setDiskBytes has an 8-bit count: 256
  MaxSpin,       \* polls until the port counts as hung: 1000000
  ReadCounts, WriteCounts, \* numbers of sectors asked for
  MaxRequests    \* bounds the requests

ASSUME AhciAssumption ==
  /\ Slots \in Nat \ {0} /\ Ports \in Nat \ {0} /\ DrivePort \in 0 .. Ports - 1
  /\ RegionSectors \in Nat \ {0} /\ RegionSectors % 2 = 0
  /\ MaxChunk \in Nat \ {0} /\ CountLimit \in Nat \ {0} /\ MaxSpin \in Nat \ {0}
  /\ ReadCounts \subseteq Nat /\ WriteCounts \subseteq Nat

VARIABLES
  sata,      \* the ports marked as disks; never set, so whatever malloc's memory held
  request,   \* [write, count]: what the caller asked for
  chunk,     \* [from, count]: the chunk under way
  step,      \* where the code is
  pos,       \* the port diskBytes looks at
  slot,      \* the slot of the command
  spin,      \* polls so far
  ci,        \* the port's command issue register: the slots in use
  tfes,      \* its task file error bit
  busy,      \* its drive is not ready
  running,   \* the port has not met an error
  tables,    \* the command table of each slot
  moved,     \* the sectors moved for this request: <<in memory, on the disk>>
  failed,    \* a command of this request returned false
  healthy,   \* the port was running when the command was built
  requests   \* counts them

requestVars == <<sata, request, chunk, pos, failed, requests>>
portVars == <<ci, tfes, busy, running, moved>>
ahciVars == <<requestVars, portVars, step, slot, spin, tables, healthy>>

NoTable == [count |-> 0, lba |-> 0, regions |-> <<>>]

AhciInit ==
  /\ sata \in SUBSET (0 .. Ports - 1)
  /\ request = [write |-> FALSE, count |-> 0]
  /\ chunk = [from |-> 0, count |-> 0]
  /\ step = "idle"
  /\ pos = 0 /\ slot = 0 /\ spin = 0
  /\ ci = {} /\ tfes = FALSE /\ busy \in BOOLEAN /\ running = TRUE
  /\ tables = [s \in 0 .. Slots - 1 |-> NoTable]
  /\ moved = {} /\ failed = FALSE /\ healthy = TRUE
  /\ requests = 0

-----------------------------------------------------------------------------
(* MBR_PARTITION_TABLE. *)

\* The first sector of a request on the disk.
Lba == 100

\* The chunk from sector n of a request: whole ones, and then the remainder.
ChunkFrom(n, count) ==
  [from |-> n, count |-> IF count - n >= MaxChunk THEN MaxChunk ELSE count - n]

Begin(write, count) ==
  /\ request' = [write |-> write, count |-> count]
  /\ chunk' = ChunkFrom(0, count)
  /\ moved' = {}
  /\ failed' = FALSE
  /\ requests' = requests + 1
  /\ pos' = 0

\* A read of nothing sends no command.
GetDiskBytes ==
  /\ step = "idle" /\ requests < MaxRequests
  /\ \E count \in ReadCounts :
       /\ Begin(FALSE, count)
       /\ step' = IF count = 0 THEN "idle" ELSE "port"
  /\ UNCHANGED <<sata, ci, tfes, busy, running, slot, spin, tables, healthy>>

\* A write always sends one, with what is left of the count in eight bits.
SetDiskBytes ==
  /\ step = "idle" /\ requests < MaxRequests
  /\ \E count \in WriteCounts : Begin(TRUE, count % CountLimit)
  /\ step' = "port"
  /\ UNCHANGED <<sata, ci, tfes, busy, running, slot, spin, tables, healthy>>

\* diskBytes looks for the first marked port, for ever if there is none: a
\* shift by 32 or more counts modulo 32.
FindPort ==
  /\ step = "port"
  /\ IF pos \in sata THEN step' = "slot" /\ UNCHANGED pos
     ELSE pos' = (pos + 1) % Ports /\ UNCHANGED step
  /\ UNCHANGED <<sata, request, chunk, failed, requests, portVars, slot, spin, tables,
                 healthy>>

\* The result of a command is dropped; the next chunk follows.
Return(ok) ==
  LET next == chunk.from + chunk.count
      more == next < request.count
  IN  /\ failed' = (failed \/ ~ok)
      /\ chunk' = IF more THEN ChunkFrom(next, request.count) ELSE chunk
      /\ step' = IF more THEN "port" ELSE "idle"
      /\ pos' = 0
      /\ UNCHANGED <<sata, request, requests>>

-----------------------------------------------------------------------------
(***************************************************************************)
(* AdvancedHostControllerInterface::read and ::write, which differ in the  *)
(* direction only.  prdtl has 16 bits: the region count of an empty        *)
(* request is 0.  Full regions hold RegionSectors, but the buffer goes on  *)
(* by half of that; and the count sent is what the last region has left.   *)
(***************************************************************************)
Prdtl(count) == IF count = 0 THEN 0 ELSE (count - 1) \div RegionSectors + 1

Regions(from, count) ==
  [i \in 1 .. Prdtl(count) |->
     [dba |-> from + (i - 1) * (RegionSectors \div 2),
      sectors |-> IF i < Prdtl(count) THEN RegionSectors
                  ELSE count - (i - 1) * RegionSectors]]

\* The whole count sent, for a mutant.
WholeCount(count) == count

CountLeft(count) ==
  IF count = 0 THEN 0 ELSE count - (Prdtl(count) - 1) * RegionSectors

CommandTable ==
  [count   |-> CountLeft(chunk.count),
   lba     |-> Lba + chunk.from,
   regions |-> Regions(chunk.from, chunk.count)]

FreeSlots == {s \in 0 .. Slots - 1 : s \notin ci}

\* Only the drive's port moves: the registers of another stand still.
OnDrive == pos = DrivePort

\* A slot is always free: a command that fails keeps its own, and the port,
\* stopped, never lets go of the next.
FindCmdSlot ==
  /\ step = "slot"
  /\ tfes' = FALSE
  /\ IF FreeSlots = {} THEN Return(FALSE) /\ UNCHANGED <<slot, spin, tables, healthy>>
     ELSE /\ \E s \in FreeSlots :
               /\ \A t \in FreeSlots : s <= t
               /\ slot' = s
               /\ tables' = [tables EXCEPT ![s] = CommandTable]
          /\ spin' = 0
          /\ healthy' = (running /\ OnDrive)
          /\ step' = "spin"
          /\ UNCHANGED requestVars
  /\ UNCHANGED <<ci, busy, running, moved>>

Spin ==
  /\ step = "spin"
  /\ busy /\ spin < MaxSpin
  /\ spin' = spin + 1
  /\ UNCHANGED <<requestVars, portVars, step, slot, tables, healthy>>

Hung ==
  /\ step = "spin"
  /\ spin = MaxSpin
  /\ Return(FALSE)
  /\ UNCHANGED <<portVars, slot, spin, tables, healthy>>

IssueCommand ==
  /\ step = "spin"
  /\ ~busy /\ spin < MaxSpin
  /\ ci' = ci \union {slot}
  /\ step' = "poll"
  /\ UNCHANGED <<requestVars, tfes, busy, running, moved, slot, spin, tables, healthy>>

\* One turn of the loop reads ci and then, if the slot is in use, the error bit.
PollSlot ==
  /\ step = "poll"
  /\ step' = IF slot \in ci THEN "error" ELSE "done"
  /\ UNCHANGED <<requestVars, portVars, slot, spin, tables, healthy>>

\* The error bit is looked at only after the loop, for a mutant.
PollOn ==
  /\ step = "error"
  /\ step' = "poll"
  /\ UNCHANGED <<requestVars, portVars, slot, spin, tables, healthy>>

PollError ==
  /\ step = "error"
  /\ IF tfes THEN Return(FALSE) ELSE step' = "poll" /\ UNCHANGED requestVars
  /\ UNCHANGED <<portVars, slot, spin, tables, healthy>>

EndCommand ==
  /\ step = "done"
  /\ Return(~tfes)
  /\ UNCHANGED <<portVars, slot, spin, tables, healthy>>

DiskCode ==
  \/ FindPort \/ FindCmdSlot \/ Spin \/ Hung
  \/ IssueCommand \/ PollSlot \/ PollError \/ EndCommand

-----------------------------------------------------------------------------
(* The controller. *)

Least(a, b) == IF a <= b THEN a ELSE b

Capacity(regions) ==
  IF regions = <<>> THEN 0
  ELSE (Len(regions) - 1) * RegionSectors + regions[Len(regions)].sectors

\* A count of 0 stands for the largest: the regions are full before.
Moving(table) ==
  IF table.count = 0 THEN Capacity(table.regions)
  ELSE Least(table.count, Capacity(table.regions))

\* The first n sectors of a command, and where in memory the regions put them.
Sectors(table, n) ==
  { <<table.regions[k \div RegionSectors + 1].dba + (k % RegionSectors), table.lba + k>> :
    k \in 0 .. n - 1 }

DriveReady ==
  /\ busy
  /\ busy' = FALSE
  /\ UNCHANGED <<requestVars, ci, tfes, running, moved, step, slot, spin, tables, healthy>>

Serving == running /\ OnDrive /\ ci # {}

Complete ==
  /\ Serving
  /\ \E s \in ci :
       /\ moved' = moved \union Sectors(tables[s], Moving(tables[s]))
       /\ ci' = ci \ {s}
  /\ UNCHANGED <<requestVars, tfes, busy, running, step, slot, spin, tables, healthy>>

\* An error after some sectors; the slot stays in use.
Fail ==
  /\ Serving
  /\ \E s \in ci, n \in 0 .. RegionSectors :
       /\ n <= Moving(tables[s])
       /\ moved' = moved \union Sectors(tables[s], n)
  /\ tfes' = TRUE
  /\ running' = FALSE
  /\ UNCHANGED <<requestVars, ci, busy, step, slot, spin, tables, healthy>>

Controller == DriveReady \/ Complete \/ Fail

AhciNext == GetDiskBytes \/ SetDiskBytes \/ DiskCode \/ Controller

\* The code runs on, and a command that was started completes or fails.
AhciFairness == WF_ahciVars(DiskCode) /\ WF_ahciVars(Complete \/ Fail)

AhciSpec == AhciInit /\ [][AhciNext]_ahciVars /\ AhciFairness

-----------------------------------------------------------------------------
(***************************************************************************)
(* A sector is only ever moved between its own places in memory and on the *)
(* disk, within the request, although the regions of a table overlap; and  *)
(* a request that is not reported as failed, of at most the sectors of one *)
(* region, is moved as a whole when it returns.                            *)
(***************************************************************************)
TransferExact ==
  /\ \A m \in moved : m[1] \in 0 .. request.count - 1 /\ m[2] = Lba + m[1]
  /\ step = "idle" /\ ~failed /\ request.count <= RegionSectors =>
       Cardinality(moved) = request.count

\* A command to a port that was running when it was built comes to an end,
\* also when the drive is never ready and when the port stops under it.
CommandsReturn ==
  (step \in {"spin", "poll", "error", "done"} /\ healthy) ~>
    step \in {"idle", "port"}
=============================================================================
