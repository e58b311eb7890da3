# bljOS: specifications, model checks and proofs

bljOS is a 32-bit x86 kernel written in C++: a boot loader stub, segment and
interrupt tables, a heap, PCI enumeration, drivers (keyboard, mouse, clock, VGA,
am79c973 network card, ATA, AHCI), FAT32, a network stack (Ethernet, ARP, IPv4,
ICMP, UDP, TCP) and a small window system. Nothing in it runs in parallel with
something else except in one way: the main loop of `kernelMain` is interrupted.
All gates are interrupt gates, no handler enables interrupts and the scheduler
never switches tasks, so **a handler may start between any two instructions of
the main loop and then runs to its end**. The devices work beside both. No
part of the kernel uses a lock. Nearly everything that is hard about this code
follows from that: main loop and handlers share the heap, the socket tables, the
ARP cache and the card's rings, and each of them also waits, in busy loops, for
what only the other can do.

The files in this directory are TLA+ modules (`*.tla`), TLC configurations
(`*.cfg`), and `PROJECT.json`, which lists components, runs, the mutants that
show that each property can fail, the source lines behind every definition, the
known hazards of the code and the theorems.

    tlc -config MCHeap.cfg MCHeap.tla     # one run
    tlapm Heap_proofs.tla                 # one module of proofs

## 1. Inventory

`src/` below is the root of the repository, so the sources are in `src/src/` and
`src/include/`.

| Component | State it keeps | Operations | Talks to |
|---|---|---|---|
| Heap `memorymanagement.cpp` | chunk list in one arena, `activeMemoryManager` | constructor, destructor, `malloc`, `free`, `operator new/delete` | everyone, from both contexts |
| Spinlocks `spinlock.cpp` | a flag; a count (readers > 0, writer -1) | acquire, release, wait; read/write acquire and release | nobody uses them yet |
| Network card `amd_am79c973.cpp` | two descriptor rings, buffers, `currentSendBuffer`, `currentRecvBuffer`; CSR0 in the card | `Activate`, `Send`, `Receive`, `handleInterrupt` | card (DMA, interrupt), Ethernet |
| Ethernet `etherframe.cpp` | handler per frame type | `OnRawDataReceived`, `Send` | card, ARP, IPv4 |
| ARP `arp.cpp` | cache of 128 (IP, MAC) pairs | `OnEtherFrameReceived`, `Resolve`, `RequestMACAddress`, `BroadcastMACAddress` | Ethernet; IPv4 calls `Resolve` |
| IPv4 `ipv4.cpp` | handler per protocol, gateway, mask | `OnEtherFrameReceived`, `Send`, `Checksum` | ARP, Ethernet, ICMP, UDP, TCP |
| ICMP `icmp.cpp` | none | answer to echo requests | IPv4 |
| UDP `udp.cpp` | socket table, `freePort` | `Connect`, `Listen`, `Bind`, `Send`, `Disconnect`, datagram handler | IPv4, applications |
| TCP `tcp.cpp` | socket table, `freePort`, a state machine per socket | the same, and the segment handler | IPv4, applications |
| Interrupts `interrupts.cpp`, `interruptstubs.s` | IDT, handler table, active manager | construct, `Activate`, `Deactivate`, dispatch and acknowledge | every driver |
| Tasks `multitasking.cpp` | list of tasks, current task | `addTask`, `Schedule` (never switches) | timer interrupt |
| System calls `syscalls.cpp` | none | one handler with a switch | interrupts |
| GDT `gdt.cpp`, PCI `pci.cpp`, driver table `driver.cpp` | descriptors; 255 driver slots | encode/decode; enumerate; add, activate | kernel start-up |
| Storage `ata.cpp`, `ahci.cpp`, `disk.cpp`, `msdospart.cpp`, `fat32.cpp`, VFS | device registers, command lists; partition and directory walks | read, write, identify; partition table; directory listing | hardware ports |
| Input `mouse.cpp`, `keyboard.cpp`, `rtc.cpp` | packet offset and buttons; shift state; time | interrupt handlers | desktop |
| Screen `widget.cpp`, `window.cpp`, `desktop.cpp`, `button.cpp`, `vga.cpp` | widget tree, focus, redraw flags | draw, mouse and key events | main loop, input handlers |
| ACPI, ports, boot loader | tables; none | parse; single instructions | hardware |

What is hard, and what makes each part correct:

* **Heap.** A list that is split and merged in any order for as long as the
  machine runs. Correct: the chunks tile the arena, the links undo each other, free
  neighbours are merged, clients' blocks stay apart and in place, nothing leaks.
* **Locks.** Test and set in one exchange, or not in one. Correct: mutual
  exclusion, no lost lock, the built-in checks stay silent.
* **Card.** Three parties on two rings, status bits that are read, worked on and
  written back, `Send` entered from the handler in the middle of `Send`. Correct:
  frames in order, once, whole, none left in the ring, all sent.
* **ARP.** A busy wait on something a handler supplies, over a lossy wire, with a
  cache that only grows. Correct: `Resolve` returns and gives the host's address.
* **TCP, UDP.** Tables shortened by one context while the other extends them,
  states and numbers read in one step and used in another. Correct: the tables hold
  the live sockets once each; what was handed over is acknowledged and no more; data is numbered
  without gap or overlap; datagrams go to open sockets, and a conversation stays
  where it began.
* **Interrupts.** Stack frames of different shape, acknowledgement in the right
  place, one handler for a line that several devices may use, a scheduler on pointers never
  set. Correct: every frame is popped as it was pushed; no line stays blocked.
* **Start-up.** A table of drivers in the order of the bus, from which the kernel takes
  two by their place. Correct: each known device has its driver once, in order, with its own registers;
  the table has room for them; the two are what the kernel takes them for.
* **Storage.** Arithmetic on sectors, regions and clusters, and registers polled for ever.
  Correct: each requested sector goes to its place, no word is left in the drive, a file's
  sectors are asked for in order and none left out, and every walk and command ends.
* **Ethernet, IPv4, ICMP.** One buffer on the way up and back, lengths and checksums in
  two byte orders. Correct: a protocol sees its payload and nothing else; a ping is answered, with
  checksums that others accept.
* **Input and screen.** Handlers change the tree and set redraw flags between any two strokes
  of the main loop, which clears the flags. Correct: what lies on top is what is painted
  there and what gets the click; a drag follows the hand; keys go to the last click; the time
  is of one piece.

`PROJECT.json` lists the hazards behind these at their lines.

## 2. Modules

| Module | Models | Kind |
|---|---|---|
| `BlockAllocator` | what an allocator promises: disjoint blocks in an arena, that do not move | abstract specification |
| `Heap` | the heap, one call per step, and the loop of `malloc` as written | detailed specification, implements `BlockAllocator` |
| `MCHeap` | | for TLC |
| `Heap_proofs` | | proofs |
| `Spinlock`, `CountedLock` | the two locks, one memory access per step | specifications |
| `MCLocks` | the two side by side | for TLC |
| `Locks_proofs` | | proofs about both |
| `Nic` | driver, handler and card | specification |
| `Arp`, `MCArp` | cache, `Resolve` from both contexts, the wire | specification, for TLC |
| `Tcp`, `MCTcp` | provider, main loop, segments | specification, for TLC |
| `Tcp_proofs` | | proofs |
| `Udp`, `MCUdp` | provider, main loop, datagrams | specification, for TLC |
| `Network_proofs` | | proofs about `Nic`, `Udp` and `Arp` |
| `Interrupts`, `MCInterrupts` | controllers, stubs, dispatch, system call, `Schedule` | specification, for TLC |
| `Interrupts_proofs` | | proofs |
| `NumberFacts` | indices that wrap, the first entry of a search | lemmas the proofs share |
| `Widgets` | the widget tree: routing, focus, dragging, drawing | operators |
| `Screen`, `MCScreen` | mouse, keyboard, clock, redraw loop, on a widget tree | specification, for TLC |
| `Screen_proofs` | | proofs about `Widgets` and `Screen` |
| `Pci` | the walk over the bus, driver table, the kernel's drivers | specification |
| `Ahci` | splitting of disk requests, command slots, the controller | specification |
| `Ata`, `Fat` | the ATA drive; the walks over partitions and files on it | specifications, one extends the other |
| `Frames` | Ethernet, IPv4 and ICMP, up and back | specification |
| `MCDevices` | the sum of the last four | for TLC |
| `Devices_proofs` | | proofs about `Pci`, `Ahci`, `Ata`, `Fat` and `Frames` |

### Heap

`heap` maps the address of each header on the list to its `MemoryChunk`; a chunk
that is merged away leaves the domain, so a link left pointing at it is visible
as a dangling one. `first` and `active` are the code's variables. `blocks` is
what clients hold; the allocator never reads it. `Construct`, `Destroy`,
`Malloc`, `MallocFails`, `Free`, `FreeIgnored` are the constructor, the
destructor, `operator new` with and without success and `operator delete` with and
without a manager. `Split` and `Absorb` are the two list surgeries. `Malloc`
picks the lowest chunk that fits; that the loop over `next` (`Scan`) finds just that
chunk is the property `ScanIsFirstFit`, stated on the loop as it is written.
Clients free only what they hold, once.

### Spinlock, CountedLock

Every exchange, load and store is an action or a disjunct of one. `Spinlock` has
threads, which acquire and release, and waiters, which call `spinlockWait`.
`CountedLock` has numbered users and two schedules: `Preemptive`, as between
threads, and nested, as between this kernel's main loop and its interrupts.
The two 32-bit halves of an access to the 64-bit count are one step.

### Nic

`recvDescr`, `sendDescr` and the two indices are the driver's; `cardRecv`,
`cardSend` and `csr0` the card's. `Pick`, `Load`, `Advance`, `Fill`, `Hand` are the
accesses `Send` makes, in either context. `Interrupt`, `Receive`, `GiveBack`,
`ReceiveEnds`, `Acknowledge` are `handleInterrupt` with the loop of `Receive`.
`recvBuffers` and `sendBuffers` are declared `[2*1024+15][8]`, and the
descriptors point to the rows, which are 8 bytes long: `Address` computes where, and
`Store` marks what a frame overwrites. CSR0 holds the two bits of the sixteen
that the handler does more about than print. The handler of a frame may send any number of
frames of its own before it returns.

### Arp

`cache` is the pair of arrays up to `numCacheEntries`. `Resolve` (lookup),
`Request` and `SpinEnds` are the three parts of `Resolve`, for the main loop and for
the handler; while the handler is inside `Resolve` nothing else of this machine
runs. The network may answer, repeat, invent and lose. A link
address has 16 high and 32 low bits; `Truncated` is what a `uint32_t` array keeps.

### Tcp, Udp

A socket is a piece of memory, and its record survives its release, so that what the
code reads from freed or uninitialised memory is what was there before. `sockets`,
`numSockets`, `freePort` are the provider's. The main loop's calls are split at
every access to shared memory that matters: `sockets[numSockets++] = socket` is `LoadCount`,
`StoreCount`, `PutSocket`; `sequenceNumber += size` is `LoadNumber`, `StoreNumber`; the header is
built in one step (`Build`) and leaves in another (`Emit`). The handler is one
step, a composition of operators from one `World` to the next, each named for a
branch of the code (`OnSyn`, `OnFin`, `OnData`, `FreeClosed`, ...). The stores of the state (`EnterSynSent`) and
of the first number (`FirstNumber`) in `Connect` are two steps. `due` is what an acknowledgement should be by the data the
handler was given (`Seen`) and the FIN behind it (`FinSeen`); the code's own number is moved by `Advance` and `FinCounted`. The application in the
handler is the one of the commented network test of `kernel.cpp`: it answers a
request with `Send` and `Disconnect`.

Assumptions of these two modules: the build is the unoptimised one of the
Makefile, so an increment in memory is a load and a store; payloads are a length, the number
of zero bytes at the end and whether they are a request; the numbers in incoming
acknowledgements are left out because the code never reads them; an application
stops using a TCP socket once it is freed (nothing tells it to, see the hazards); a
failed allocation disables the call.

### Interrupts

`stack` holds words that remember which stream of instructions pushed them and as what, `cpu` the
registers. `Enter` is what processor and stub push, `Return` what `int_bottom` and `iret` pop: the
stub of a line pushes a 0 where some exceptions have an error code, the stub of an
exception pushes nothing. `frames` are the handlers in progress, each in one of the steps
`Call` (or `Bypass`, with no active manager), `Finish` (`Schedule` and the acknowledgement) and
`Return`; an exception may come inside a handler, nothing else may. Devices (`LineOf`, `DriverOf`) wait on lines they may
share, and `Call` runs the object at the number, which serves its own device only. `program` holds the instructions
left of `activate` or `deactivate`, so that a request may be taken between the store and the `cli`.
`table` is `handlers`; `ConstructHandler` and `DestroyHandler` run with the manager
inactive, as in `kernelMain`. `firstTask` and `currentTask` are never written by the
code and have any value: `Schedule` stores through the one, where it hits nothing, a word of the stack (`StackHit`, which
sets `torn` of the frame) or what the kernel runs on (`KernelHit`), and returns what it reads there. The controllers are external: lines are latched,
a line in service holds back those behind it, 0x20 ends the first in service. Spurious requests
are left out.

### Widgets, Screen

A state of the tree is a record (`Gui`), and each handler a function on such records
named after it (`OnMouseDown`, `OnMouseMove`, `RouteMove`, `GetFocus`, ...), because one packet of
the mouse calls several in a row. One coordinate stands for both, and the tree has two levels below
the desktop, as in `kernelMain`, plus windows, which the code has and the kernel does not use yet.
A drawing is a sequence of strokes (`DesktopStrokes`), and the screen a colour for each row.
In `Screen` a handler is one step: `MouseInterrupt` (a byte, and with the third a packet),
`KeyInterrupt`, `ClockInterrupt`; the main loop takes one stroke or one access to a flag per
step (`TestDesktop`, `DrawDesktop`, `ClearDesktop`, and the same for the time). `MouseSends`,
`ByteLost` and `ClockTicks` are the devices. The label is drawn as two strokes, hour and minute.

Assumptions: `label` points to memory of its own (`timeString` is never given any,
`button.cpp` 34); the two flags called `redraw` of `Widget` and `CompositeWidget` are the latter's, which
hides the other and is never initialised; the compiler keeps the order of stores and reads flags from
memory, as the unoptimised build does.

Three more are named in the modules. `InputsAssumption`: a movement has nine bits and a button state three.
`ToolbarAssumption` and `LayoutAssumption`: the tree is laid out as `kernelMain` lays it out (`kernel.cpp` 225-229), with
one button, which shows the time, in a toolbar and on the screen; and the widgets of a window lie inside it. The last is
needed: `draw` clips at the screen and not at the parent, while `containsCoordinate` asks the parent first, so a widget
that reaches out of its window is painted where no click finds it. The kernel creates no such widget.

### Pci

`SelectDevice` and `SelectFunction` are the loops of `SelectDrivers`; what is plugged in is chosen when the
walk gets there. A register is for ports or for memory, and `Sized` writes ones to it and puts it back.
`Enter` allocates a driver, or fails to; `AddDriver` does not look whether one of the `DriverSlots` is left, and stores the
next one over the count (`overrun`), with which the kernel runs away (`RunAway`). `ActivateAll` and `TakeDrivers` are what
`kernelMain` does with the table. Result fields that `GetBaseAddressRegister` leaves unset have any value.
`FirmwareAssumption`: the devices the kernel has drivers for are no bridges, and the firmware has given their ports
an address. A bridge has two registers where the drivers look at six, and a register for ports at 0 passes for one that was not set.

### Ahci

`GetDiskBytes` and `SetDiskBytes` begin a request; `FindPort`, `FindCmdSlot`, `Spin`, `Hung`, `IssueCommand`,
`PollSlot`, `PollError` and `EndCommand` are the steps of `diskBytes` and of `read` or `write`, which differ in one bit.
`Regions` is the table with its overlapping regions, `CountLeft` the count sent. The controller
moves sectors (`moved`) until it completes or fails, and a port that failed stays stopped. `sata`, never set
by code that runs, has any value; the port is taken to be started by the firmware.

### Ata, Fat

`Identify`, `Read28`, `Write28` and `Flush` give a command, `AtaPoll` is the loop on the status,
`AtaWords` the data loops, `DriveAnswers` the drive. `Fat` calls `Read28` and waits (`DriveFree`): `ReadPartitions`,
`CheckMagic`, `NextPartition`, `ReadRoot`, `NextEntry`, `ReadSector`, `ReadTable` are the code between two reads.
As `Read28` stores nothing, what the walk looks at is arbitrary and chosen there. The test for
the last directory entry is an assignment and never holds; its other effect, the first
letter of each printed name, is not modelled.

The number of a sector goes to four registers (`WriteSector`): its third byte is written over the first, and nothing to the
register that is there for it, which holds what it held (`HighRegisters`). `SectorIn` is what a drive makes of them.
`FileSector` is the number the walk asks for, from `dataStart`, `cluster` and `offset` and in 32 bits; `asked` and `walked`
are the reads of this cluster and of those before, each with the number and with the sector the drive took it for.

### Frames

One frame at a time goes up (`EtherReceived`, `IpReceived`, `IcmpReceived`) and back (`IpBack`, `EtherBack`).
It has the bytes its checksums cover; `Checksum` works on bytes as the code's does, its sign-extended odd byte included; the
identification and the fragment fields of a header are zero. `FramesAssumption` bounds addresses, bytes and options
to what their fields hold and a message to what a packet of 1500 bytes holds.
`RequestEchoReply` is the main loop's ping, with `Route`. Resolving is in `Arp`, the card in `Nic`, UDP and TCP
in their modules. The entries 65535 and 255 of the two handler tables, which lie beyond their
loops or arrays, are not among the types and protocols of the frames.

### MCDevices

`Pci`, `Ahci`, `Fat` and `Frames` share no variable and no time: `kernelMain` runs the first three one after
the other, and a frame is one interrupt. So `MCDevices` is their sum, in which a behaviour belongs to one part.

## 3. Runs

| Run | Configuration | States | What it shows |
|---|---|---|---|
| `heap` | 13-byte arena, 2-byte headers, requests of 0, 1, 3, 11 bytes | 11 thousand | All of `ListWellFormed`, `Coalesced`, `BlocksIsolated`, `NothingLeaks`, `ScanIsFirstFit`, `HeldBlocksStable`, and the refinement of `BlockAllocator` |
| `locks` | 3 threads, 1 waiter; 2 nested users | 119 thousand | Exclusion and no lost lock apart from what `spinlockWait` does; under this kernel's schedule the count is always the number of readers inside, or -1 for a writer who is there alone |
| `locks_counted` | 2 preemptive users | violation | The check in `spinlockCntWriteRelease` fires although the calls are paired |
| `nic` | rings of 2, 3 frames, 3 sends, frames of 60 bytes | 198 thousand | Order, content, no stranded frame, all sent, each with its exceptions |
| `arp` | 2 hosts, 2 addresses, cache of 2, 2 unasked responses | 10 thousand | The first entry of a host stays the one found, `Resolve` returns with three exceptions |
| `arp_mac` | the same | violation | The address `Resolve` returns lacks its upper 16 bits |
| `tcp` | 2 chunks, 1 remote end, 2 ports, 3 segments, 2 opens, 1 send | 1.3 million | Table, acknowledgement numbers, numbering of data |
| `tcp_listen` | the same | violation | A listening socket never answers a SYN |
| `udp` | 3 chunks, 2 remote ends, 2 ports, 3 opens, 3 datagrams | 683 thousand | Table, only open sockets hear, a conversation keeps its socket |
| `interrupts` | 3 lines, 4 devices, 2 of them on one line, 3 events, 2 switches, 2 handlers built, depth 2 | 1.0 million | Interrupted code goes on as it was; lines are acknowledged once; the youngest handler is registered; `int 0x80` prints what it was asked; devices are served |
| `screen` | 5 rows, a toolbar with the time, 2 overlapping windows, 3 events | 1.0 million | `ClickGoesWhereShown`, `ClockShowsTime`, `DragFollowsHand`, `KeysGoToLastClicked` |
| `devices` | 2x2x2 bus, 5 driver slots; 2 command slots, 2 ports, regions of 4 sectors; 2 partitions of 2 entries, 2 sector numbers; 3 hosts, 6 contents | 290 thousand | Drivers in bus order; transfers exact and commands that return; the drive emptied, the sectors of files asked for in order, and files left; payloads in their frame, pings answered |

**Exceptions are part of the statements.** Where the code does not guarantee the
obvious property, the property names the exact circumstance, kept in a history
variable that the run does reach, and says that nothing else breaks it:

* `cleared`, `waited` (Spinlock): a `spinlockWait` cleared the lock under its holder, or
  returned with the flag set.
* `late` (Nic): a frame came in between the last look of `Receive` and the
  acknowledgement, and its status bit was cleared with the others. `crowded`, `pressed`: more
  than one frame in a ring, whose buffers overlap. `clash`, `overrun`: the handler
  picked a descriptor while the main loop was picking one; the ring was full.
* `lost` (Arp), a full cache, or a handler that is itself inside `Resolve`: these are
  the three ways in which `Resolve` waits for ever.
* `torn` (Tcp): a socket was removed while `Connect` or `Listen` was between the load of
  `numSockets` and the store of the entry. `raced`: a segment changed the
  socket the main loop had begun to send on, or had put into SYN_SENT and not numbered. `short`: a payload was empty or ended
  in zero bytes; less may then be acknowledged than was handed over. `skipped`: a FIN was out of order or brought data, and was
  counted all the same. `hung`: the handler of a request called
  `Send` on a socket that is no longer established, and waits with interrupts off.
* `slipped` (Screen): a byte of the mouse was lost, or its acknowledgement read as data. `astray`: another window was
  over the one being dragged. `missed`: a redraw asked for during a drawing. A widget that begins above the
  screen, the rows of the time button and the line over a toolbar show something else than what a click there reaches.
* `refused` (Pci): no memory for a driver. `overrun`: one more driver than slots, after which the kernel does not run. That the kernel's
  card is a card is not promised: the property says when it is. `healthy` (Ahci): the port ran when the command was built; a
  request of more than one region, whose table is shorter than its count, may be moved in part, and `failed` ones too.
  `perCluster = 0` (Fat): the walk of a file never ends. Numbers whose first and third byte are not what the unwritten register
  holds: the drive reads another sector. The sector behind each cluster but the last is read, too, twice if it is the file's own. The lengths whose swapped bytes are smaller, and
  the message checksum of pings that carry something (Frames).
* `reordered` (Udp): `Disconnect` moved a listening socket in front of a connected one.
  `main.pc = "put"`: the count was raised and the entry not yet stored.
* `Undoable`, `stray`, `unheard` (Interrupts): an exception without an error code cannot be returned from, nor a timer whose
  `Schedule` read its stack through garbage, and one that stored over the stack returns with what it stored; a line taken in
  the gap of `deactivate` stays in service; a device whose line has another's handler, or none, waits although its request was taken:
  of two that share a line the one with the older driver is never served.

**Bounds.** The heap arena gives up to five chunks: merging on no, one and both
sides, at both ends of the list; requests of 0 bytes, one that leaves a hole too
small to split and one nothing fits. A third thread shows a lock passed
over; one waiter can already do all the damage. A ring of two wraps after two frames,
is full with two and overlaps with two; three frames go round. A cache of two is filled by one
unasked pair of responses with a third expected. Two TCP sockets are the least with
which a removal moves another one; three segments carry one through SYN+ACK, data
and FIN, or through a simultaneous close; one peer is enough because the lookup compares, and two
sockets may share it. Two ports make `freePort` wrap. Three UDP sockets and two remote ends allow
a listening socket, a conversation and a move. Of the interrupts, three events are
the least for a stray line, a line it holds back and one it does not, or for a request, an exception inside it and a
second request; line 8 is the first of the slave, line 11 the one two cards share, line 0 the timer. The store of `Schedule` may hit the
flags, the address and the last register of the frame it is called on (`HitWords`). On the screen three events are a
press, a move and a release, or a packet with a byte lost and the next one; the morning begins at 9:59, so that one
tick changes hour and minute. Two devices of two functions on two buses show every order of places, and with two slots behind the three built-in drivers a
full table and one more. Of the two sector numbers each survives with one of the two values of the register nobody writes, and
behind the larger one numbers have more than 28 bits; 29 are enough for that, and within what TLC calculates. Clusters may follow each other or not; requests of the disk
are of nothing, less than, exactly, and more than a region and a chunk; files have fewer, as many and more sectors than a
cluster. The contents of a message are empty, odd, with a byte from 128 on, and long enough for the bytes of its length to be
equal, rising and falling. Every bound is a constant in a guard (`Max...`).

**Symmetry** is used for TCP chunks, UDP chunks and UDP remote ends, which are
compared for equality only; neither run has a liveness property.

**Fairness.** `Spinlock`: weak fairness on each thread's and waiter's own steps, as a
processor that schedules gives. `Nic`: weak fairness on the steps of `Send`, which has no
loop that waits, on the handler (a pending interrupt is taken) and on the card's transmission.
`Arp`: weak fairness on the busy loop, on the delivery of each response that has
arrived, and on hosts that were asked; losing a message is a separate action, recorded in
`lost`. `Interrupts`: weak fairness on the steps of a handler, on `activate` and `deactivate` and on taking
each line while interrupts are on: a processor executes. Nothing is assumed fair that would make an application call something, or the
network send something unasked. `Ahci`: weak fairness on the code, and on a command that was started, which completes or fails. `Fat`: weak fairness on the
code and on the drive's answer. `CountedLock`, `Tcp`, `Udp`, `Screen`, `Pci`, `Frames` have safety properties only.

**Deadlock** checking is on for `heap`. In the others the system may
stop: an interrupt that spins on the count of the code it interrupted, a handler inside
`Resolve`, a `hung` handler, a return to a wrong address, the end of a walk, or the bounds of the model.

**Types.** Type invariants are proved, for `Heap`, `Spinlock`, `CountedLock`, `Nic`, `Udp`, `Arp`, `Tcp`, `Ata`, `Screen` and in part for `Pci`, `Ahci`, `Fat` and `Interrupts`,
and not checked by runs: a value out of its type breaks an invariant that reads it or stops TLC.

**Findings.** Three runs refute what the repository says of itself: the check in
the counted lock (`locks_counted`), six-byte addresses in a 32-bit cache
(`arp_mac`), and `Listen`, whose test `flags & (SYN | ACK) == SYN` binds as
`flags & 0` (`tcp_listen`).

## 4. Proofs

TLC checks one small arena and three threads; the proofs cover every value of the
constants, under the named assumptions of the modules (`StartAssumption`, `HeaderSizeAssumption`, ...: natural
numbers, a positive header and start address).

**`Heap_proofs`.** None of the heap's properties is inductive alone: that merging keeps
the tiling needs the links to be right, that blocks are isolated needs the tiling,
that nothing leaks needs both and that every allocated chunk has an owner. The invariant
`HeapInv` takes them together: the list is `WellFormed` (types, tiling, links), coalesced, each
held block is an allocated chunk of its own that is large enough (`HeldIn`), and, while
the manager lives, each allocated chunk is held (`NoOrphanIn`). The list surgeries are
treated once each, on any well-formed list: `SplitWellFormed`, `AbsorbMerges`, `FlagWellFormed`,
joined in `FreeChunkFacts`, where `CoalescedExcept` says what holds between the two
merges of `free`. `MallocInv` and `FreeInv` lift them to the actions and `Invariance` is the induction. From it
follow `TypeCorrect`, `ListSound`, `FreeMemoryCoalesced`, `Isolation`, `ScanFindsFirst`, `NoLeak`
(all but the first invariants of the run `heap`), `BlocksStable` (its action property) and `Implementation`:
every step of the heap is a step of `BlockAllocator` or leaves its blocks alone. `ScanFindsFirst` is about a loop, a recursive
function on the addresses of the list: that such a function exists follows from the links going up, and that it finds the lowest
fit from each chunk on by looking at the last chunk, counted from the end of the arena, for which it would not.

**`Locks_proofs`.** For any sets of threads and waiters: types, and mutual exclusion, from the
invariant that a thread in its section implies the flag is set, until a waiter cleared it. For the counted lock and any
finite set of numbered users, under the hypothesis `~ Preemptive` (this kernel's schedule; with `Preemptive` the run
`locks_counted` refutes it): `CountSound` and `ReleasesPass`. The load and the store of the count are separate steps, so the
invariant says what a context may rely on: it is past a test only when nobody below it, whose number is smaller, is inside
against that test (`NestedRightly`), and what it has loaded and not yet stored still is the number of readers below it (`LoadedRightly`).

**`Network_proofs`.** Of the card, `RecvOrder` and `FramesNoticed` need the ring in step (`RingInStep`): the waiting frames lie from the driver's
index to the card's, every other descriptor is the card's. `FramesIntact` adds `LoneFrameIntact`: until two frames have waited
together, the only one is whole in its buffer; where the buffers lie is left open. For `SendOrder`, until a handler picks during a
pick or a descriptor is reused, the frames of the calls of `Send` under way (at most one per context), those in descriptors of the card and
those on the wire follow each other around the ring (`RingOrderly`, `CopiesIntact`).

Of UDP, `UdpTable`: the count runs ahead of the entry when a socket comes and ahead of the removal when one
goes; `Filled` and `Filed` say how many entries hold a socket and which sockets those are at every step. From it `HeardByOpen`,
and with `TakerIsFirst` (the socket that took the last datagram is the first one that fits) `Conversation`.
Of ARP, `FirstStays`: an entry behind others does not change what a search from the front finds. `Chunks` is finite, and a
socket is not at address 0.

**`Tcp_proofs`.** A segment's whole handler is one step, so most of the module shows what each branch of
`OnInternetProtocolReceived` leaves: every operator of `Tcp` gets a lemma, and `Proper` says what is true of each path
(nothing but the found socket changes, `ack` stays at `due`, the stream stays in step, a closed socket stays closed,
a finishing one sends no more). `Arrives` lifts this to the action. Then `AcksWhatWasHanded` from `AckInv`, which says of
all memory that the acknowledgement is `due`, or behind it after a short payload; a FIN counts for `due` only if its number is the next,
so that the others, which the code counts as well, are the second exception (`skipped`); `TableStays` from `TableInv`, where the entry being made and the load of `numSockets` are accounted for, with the
two lemmas that a table listing a set still lists it with one more and with one less; and `StreamKept` from `StreamInv`: the number of
each socket equals the next number of its data while it is established, but for the one socket for which `Send` of the main
loop has built a segment and not yet added its length, and the one `Connect` has not numbered. Assumed are payloads with no more zero bytes at their end than they have bytes,
a header that is not empty, and integers; `Index` has room for `MaxOpens` entries, fewer than the 65535 of the code. `torn` and `raced`
remain exceptions in the theorems as in the runs: the runs reach both.

**`Interrupts_proofs`.** `RegisteredYoungest`: the order in which objects were built is kept in `built`. `Resumes`: as long
as the processor has not run away through a frame the stub cannot take down (`OnTrack`), the stack is the layout of the nested frames (`FramesNest`), and the pops of
the stub undo its pushes (`PopsWhatWasPushed`). A store of `Schedule` into the stack marks the frame of the timer as torn, and nothing is claimed of
what it returns to, nor of anything once the store has hit the kernel; where it may hit is left open. On the same stack `SystemCallsPrint` (the words the caller asked for are
those on the stack until the call is made) and `InService`: the in-service bits of both controllers are the line in progress
and those let through by `deactivate`, and the one in progress goes before these in priority, so that its acknowledgement ends it and
no other.

**`Devices_proofs`.** Each part of `MCDevices` has a specification of its own (`PciSpec`, `FatSpec`, `AhciSpec`, `FramesSpec`).
`DriversFound`: `WalkInv` says where the walk is (`ScanOK`) and that the table holds what is behind it, in its order, but for what
was refused memory and, with all slots used, for what comes last (`TableOK`); only with a count that is one the kernel goes on (`TakenOK`); places are compared by the number `Place` of a function on the bus, and the base a driver gets
is that of the last register for ports (`PortBases`, a loop of six).
`Emptied`: a drive that has words, or will have, has a whole sector of them for the read under way (`AtaInv`), and the two
loops together take a sector whatever was asked for (`WordsOfSector`). `FileInOrder`: `FileInv` says where in the file each of the steps
of the walk stands, and `HistoryOK` that the reads of a cluster are its sectors from the first one on; the read beyond the end of a cluster is the
case with its offset at `perCluster`, whose number is by arithmetic the first one of a cluster that follows. What the drive makes of a number depends on
the registers alone, of which one never changes (`LbaOK`, `SectorSent`, from the bytes of a number, `BytesOfNumber`). `Transferred`: a running
port has at most the command under way, with the table made for its chunk (`AhciInv`), a command moves what its last region has left
(`Moves`) and all of that through its first region (`Places`): the overlapping regions behind it never come into use, which is why
the transfers are exact, and why a request of more than a region is not moved as a whole. `PayloadHanded`: nobody changes a frame before it is handed on, and it is as
long as its header (`FrameInv`); messages are sequences of bytes. `PingsAlwaysAnswered`: `PingInv` follows a ping up and back,
with what each level has completed of the answer. A checksum is a sum over bytes of unknown number: what is proved of it
does not depend on its value, but on that it is taken last, over the bytes that leave, with its own field zero, and on that a sum of
16-bit words, folded, and its complement make 65535.

**`Screen_proofs`.** For any tree, screen and inputs. `MouseInv` holds the mouse together: the bytes in the driver and on the
wire belong to one packet whose first byte tells what the user holds (`Underway`), until one is lost; the widget with the focus is
the one clicked last (`KeysFollow`); the window in the hand is where the hand is (`HandFollows`), which a packet keeps through each of its three
comparisons of a button because only the first of them may pick a window up; and nothing but windows has moved
(`Still`). From it `KeysGoToLastClickedAlways` and `DragFollowsHandAlways`.

What a row shows is decided by the last stroke over it, so the order of strokes comes first: after a widget only those of widgets
that a search for the point meets earlier are drawn, and the pointer is last (`DesktopInOrder`). `Shown` says what the first `n` strokes
of a drawing have left in a row. `ScreenInv` adds to `MouseInv`: `ClockInv` (the label has the minute of the last change, and the clock's hour as long as the
clock has not left that minute), `DesktopShown` (at stroke `k` the rows are those of the tree as it is now, although packets came since stroke 1,
or a redraw was asked for, which `missed` records if the drawing goes on to clear its flag) and `TimeShown` (the same for the row of the time, which
both drawings write in two strokes). None of them is inductive alone: `TimeShown` needs the place of the button, which `Still` gives, and `DesktopShown`
that the label does not reach other rows. From `ScreenInv` follow `ClockShowsTimeAlways` and, as the stroke that painted a row last
is that of the widget a search finds there, `ClickGoesWhereShownAlways`. The exceptions of the runs stay in the theorems.

`NumberFacts` has what several of these need: `(i + 1) % size` in a ring, that a non-empty set of indices has a first one, and that a
loop of a given number of turns has a result.

Only model-checked is what needs reasoning about fairness and `ENABLED`, the liveness properties: `LockNotLost`, `EveryFrameSent`,
`ResolveReturns`, `DevicesAreServed`, `CommandsReturn`, `FileLeft`. Every invariant, every other action property and the refinement that the passing runs
check have a theorem. The three violations are counterexamples, not theorems.

## 5. Not modelled, and what is open

Left out for good: the figures of VGA nothing draws, fonts, ACPI parsing, the encoding of segment descriptors, port instructions,
the boot loader, and the virtual file system, which is stubs: nothing a property could speak about.
`memcpy`, `printf` and payload formats are abstracted. Code nobody calls is left out too: `addTask` of the task manager,
`port_rebase`, `start_cmd` and `stop_cmd` of the disk controller, `openDisk` (which looks at memory it never read the disk into).
`check_type` and `probe_port` only print.

Still open:

1. A module `HeapInterrupted`: `malloc` and `free` called by a handler inside `malloc` of the main loop. `Heap` runs each call to its end,
   so what it promises holds for the kernel only between interrupts that allocate.
2. Liveness of TCP, for which the code would need timers.
