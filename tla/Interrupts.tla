------------------------------ MODULE Interrupts ------------------------------
(***************************************************************************)
(* From the request line of a device to the handler object and back: the   *)
(* two interrupt controllers, the stack frame that processor and stub      *)
(* build, InterruptManager's dispatch and acknowledgement, the system      *)
(* call, Schedule, and activate and deactivate, between whose instructions *)
(* an interrupt may come.                                                  *)
(*                                                                         *)
(* A stream is a sequence of instructions that runs: 0 is the main loop, n *)
(* the n-th handler on the stack.  A word on the stack is <<stream, what   *)
(* it is>>, so that a word popped into the wrong place is seen.  The main  *)
(* loop runs with interrupts on or off, a handler with interrupts off; an  *)
(* exception may interrupt either.  There is one InterruptManager.         *)
(***************************************************************************)
EXTENDS Integers, Sequences, SequencesExt, FiniteSets

CONSTANTS
  Handlers,     \* InterruptHandler objects
  NumberOf,     \* the number each of them is constructed with
  Lines,        \* request lines of the devices
  Devices,      \* devices that request interrupts
  LineOf,       \* the line of each of them; a line may be shared
  DriverOf,     \* the handler object that serves it, or None
  Exceptions,   \* exceptions that occur
  SysCalls,     \* what the main loop calls int 0x80 with: [eax, ebx]
  HitWords,     \* words of the stack to which uninitialised memory may point
  MaxEvents,    \* bound: requests, exceptions and system calls
  MaxSwitches,  \* bound: calls of activate and deactivate
  MaxBuilds,    \* bound: handler objects constructed
  MaxDepth      \* bound: handlers inside each other

ASSUME LinesAssumption == Lines \subseteq (0 .. 15) \ {2}
ASSUME ExceptionsAssumption == Exceptions \subseteq 0 .. 19
ASSUME NumbersAssumption == NumberOf \in [Handlers -> 0 .. 255]
ASSUME DevicesAssumption == LineOf \in [Devices -> Lines]
ASSUME BoundsAssumption == {MaxEvents, MaxSwitches, MaxBuilds, MaxDepth} \subseteq Nat

VARIABLES
  table,       \* handlers[256]: the object registered for a number
  built,       \* which of the constructions gave each handler object, 0 if it does not exist
  orphaned,    \* numbers whose registered handler was destroyed before an older one
  active,      \* activeInterruptManager is set
  program,     \* instructions left of activate or deactivate
  cpu,         \* [eip, cs, eflags, regs]
  stack,       \* the words on the stack, the top last
  frames,      \* handlers in progress: [vector, number, step, esp, torn] and what was interrupted
  firstTask, currentTask,  \* the TaskManager's: 0, or what was in memory
  printed,     \* what the system call printed
  asked,       \* what the main loop asked it to print
  requests,    \* lines latched by the controllers
  master, slave,  \* lines in service, per controller
  stray,       \* lines taken with no manager active
  waiting,     \* devices that wait for their handler
  unheard,     \* devices that wait although a request of their line has been taken
  budget       \* what is left of the bounds

handlerVars == <<table, built, orphaned>>
taskVars == <<firstTask, currentTask>>
callVars == <<printed, asked>>
picVars == <<requests, master, slave>>
deviceVars == <<stray, waiting, unheard>>
interruptVars == <<handlerVars, active, program, cpu, stack, frames, taskVars,
                   callVars, picVars, deviceVars, budget>>

None == "none"
\* no object is at address 0
ASSUME HandlersAssumption == None \notin Handlers
ASSUME DriversAssumption == DriverOf \in [Devices -> Handlers \cup {None}]
Garbage == -1              \* an address from memory nobody has initialised
HardwareInterruptOffset == 32   \* 0x20, kernelMain's argument
IRQ_BASE == 32
SystemCallVector == 128         \* 0x80
Numbers == {0, HardwareInterruptOffset} \cup Exceptions
           \cup {HardwareInterruptOffset + l : l \in Lines}
           \cup {SystemCallVector + IRQ_BASE} \cup {NumberOf[h] : h \in Handlers}

\* mutant: two registers change places
PushedSwapped == <<"ebp", "edi", "esi", "edx", "ebx", "ecx", "eax">>
\* int_bottom pushes the registers in this order, and CPUState lists what it finds
Pushed == <<"ebp", "edi", "esi", "edx", "ecx", "ebx", "eax">>
CPUState == <<"eax", "ebx", "ecx", "edx", "esi", "edi", "ebp",
              "error", "eip", "cs", "eflags">>
Registers == Range(Pushed)

HasErrorCode == {8, 10, 11, 12, 13, 14, 17}   \* the processor pushes one
\* mutant: the lines of the slave are forgotten
IsLineOfMaster(number) == number - HardwareInterruptOffset \in 0 .. 7
IsLine(number) == number - HardwareInterruptOffset \in 0 .. 15
\* mutant: the slave's first line is missed
OnSlaveAfterFirst(number) == IsLine(number) /\ number > HardwareInterruptOffset + 8
OnSlave(number) == IsLine(number) /\ number >= HardwareInterruptOffset + 8

\* what a stream has in its registers
Context(stream, if) ==
  [eip |-> <<stream, "eip">>, cs |-> <<stream, "cs">>, eflags |-> <<stream, if>>,
   regs |-> [r \in Registers |-> <<stream, r>>]]

InterruptInit ==
  /\ table = [n \in Numbers |-> None]
  /\ built = [h \in Handlers |-> 0] /\ orphaned = {}
  /\ active = FALSE /\ program = << >>
  /\ cpu = Context(0, "off") /\ stack = <<<<0, "local">>>> /\ frames = << >>
  /\ firstTask \in {0, Garbage} /\ currentTask \in {0, firstTask}
  /\ printed = << >> /\ asked = << >>
  /\ requests = {} /\ master = {} /\ slave = {}
  /\ stray = {} /\ waiting = {} /\ unheard = {}
  /\ budget = [events |-> MaxEvents, switches |-> MaxSwitches,
               builds |-> MaxBuilds]

\* the registers hold code the kernel knows; otherwise the machine has run away
OnTrack == cpu.eip[2] = "eip" /\ cpu.cs[2] = "cs"
InMain == OnTrack /\ frames = << >>
MainCalls == InMain /\ program = << >>
InterruptsOn == cpu.eflags[2] = "on"
Spend(what) == budget[what] > 0 /\ budget' = [budget EXCEPT ![what] = @ - 1]

-----------------------------------------------------------------------------
(* Handler objects; kernelMain builds all of them before it activates.     *)

ConstructHandler(h) ==
  /\ MainCalls /\ ~active /\ ~InterruptsOn
  /\ built[h] = 0
  /\ Spend("builds")
  /\ table' = [table EXCEPT ![NumberOf[h]] = h]
  /\ built' = [built EXCEPT ![h] = MaxBuilds - budget'.builds]
  /\ UNCHANGED <<orphaned, active, program, cpu, stack, frames, taskVars,
                 callVars, picVars, deviceVars>>

\* mutant: the number is cleared whoever is registered there
UnregisteredAnyone(h) == None
\* what the destructor leaves at the number of h
Unregistered(h) == IF table[NumberOf[h]] = h THEN None ELSE table[NumberOf[h]]

DestroyHandler(h) ==
  LET n == NumberOf[h]
      others == {g \in Handlers \ {h} : built[g] # 0 /\ NumberOf[g] = n}
  IN /\ MainCalls /\ ~active /\ ~InterruptsOn
     /\ built[h] # 0
     /\ table' = [table EXCEPT ![n] = Unregistered(h)]
     /\ built' = [built EXCEPT ![h] = 0]
     /\ orphaned' = IF table[n] = h /\ others # {} THEN orphaned \cup {n} ELSE orphaned
     /\ UNCHANGED <<active, program, cpu, stack, frames, taskVars, callVars,
                    picVars, deviceVars, budget>>

-----------------------------------------------------------------------------
(* activate and deactivate, one instruction at a time.                     *)

Deactivation == IF active THEN <<"clear", "cli">> ELSE << >>

Activate ==
  /\ MainCalls /\ Spend("switches")
  /\ program' = Deactivation \o <<"set", "sti">>
  /\ UNCHANGED <<handlerVars, active, cpu, stack, frames, taskVars, callVars,
                 picVars, deviceVars>>

Deactivate ==
  /\ MainCalls /\ active /\ Spend("switches")
  /\ program' = Deactivation
  /\ UNCHANGED <<handlerVars, active, cpu, stack, frames, taskVars, callVars,
                 picVars, deviceVars>>

Execute ==
  /\ InMain /\ program # << >>
  /\ program' = Tail(program)
  /\ active' = CASE Head(program) = "set" -> TRUE
                 [] Head(program) = "clear" -> FALSE
                 [] OTHER -> active
  /\ cpu' = CASE Head(program) = "sti" -> [cpu EXCEPT !.eflags = <<0, "on">>]
              [] Head(program) = "cli" -> [cpu EXCEPT !.eflags = <<0, "off">>]
              [] OTHER -> cpu
  /\ UNCHANGED <<handlerVars, stack, frames, taskVars, callVars, picVars,
                 deviceVars, budget>>

-----------------------------------------------------------------------------
(* The two controllers (external).  A line is latched; the lowest number   *)
(* goes first, the slave's eight lines in the place of line 2; a line in   *)
(* service holds back its own and those behind it until it is acknowledged.*)

Request(d) ==
  /\ d \notin waiting
  /\ Spend("events")
  /\ requests' = requests \cup {LineOf[d]}
  /\ waiting' = waiting \cup {d}
  /\ UNCHANGED <<handlerVars, active, program, cpu, stack, frames, taskVars,
                 callVars, master, slave, stray, unheard>>

Priority(l) == IF l < 8 THEN 8 * l ELSE 8 + l
Deliverable(l) ==
  l \in requests /\ \A s \in master \cup slave : Priority(l) < Priority(s)
Foremost(l) ==
  Deliverable(l) /\ \A k \in Lines : Deliverable(k) => Priority(l) <= Priority(k)

\* 0x20: the first line in service is acknowledged
Eoi(inService) == {s \in inService : \E t \in inService : t < s}

-----------------------------------------------------------------------------
(* Into the handler: the processor pushes, the stub pushes, then it calls. *)

\* what HandleException and HandleInterruptRequest store in interruptnumber
Reported(vector) ==
  IF vector < 20 THEN vector
  ELSE IF vector = SystemCallVector THEN (SystemCallVector + IRQ_BASE) % 256
  ELSE (vector - HardwareInterruptOffset) + IRQ_BASE

\* mutant: HandleInterruptRequest pushes nothing either
DummyNever(vector) == << >>
\* the word under the registers: error code, or the 0 of HandleInterruptRequest
Dummy(vector) == IF vector < 20 THEN << >> ELSE <<<<0, "zero">>>>

Entered(vector, regs) ==
  LET error == IF vector \in HasErrorCode THEN <<<<0, "code">>>> ELSE << >>
  IN stack \o <<cpu.eflags, cpu.cs, cpu.eip>> \o error \o Dummy(vector)
           \o [i \in DOMAIN Pushed |-> regs[Pushed[i]]]

Enter(vector, regs) ==
  LET entered == Entered(vector, regs)
  IN /\ Len(frames) < MaxDepth
     /\ stack' = entered
     /\ frames' = Append(frames,
          [vector |-> vector, number |-> Reported(vector), step |-> "call",
           torn |-> FALSE, esp |-> Len(entered),
           cpu |-> [cpu EXCEPT !.regs = regs], below |-> stack])
     /\ cpu' = Context(Len(frames) + 1, "off")

TakeRequest(l) ==
  /\ OnTrack /\ InterruptsOn
  /\ Foremost(l)
  /\ requests' = requests \ {l}
  /\ master' = master \cup {IF l < 8 THEN l ELSE 2}
  /\ slave' = IF l < 8 THEN slave ELSE slave \cup {l}
  /\ Enter(HardwareInterruptOffset + l, cpu.regs)
  /\ UNCHANGED <<handlerVars, active, program, taskVars, callVars, deviceVars, budget>>

Exception(vector) ==
  /\ OnTrack
  /\ frames # << >> => Last(frames).step = "finish"
  /\ Spend("events")
  /\ Enter(vector, cpu.regs)
  /\ UNCHANGED <<handlerVars, active, program, taskVars, callVars, picVars, deviceVars>>

\* int $0x80 with eax and ebx, as in sysprintf
SystemCall(call) ==
  /\ MainCalls /\ Spend("events")
  /\ Enter(SystemCallVector,
           [cpu.regs EXCEPT !["eax"] = <<0, call.eax>>, !["ebx"] = <<0, call.ebx>>])
  /\ asked' = IF active /\ call.eax = "4"
                 /\ table[(SystemCallVector + HardwareInterruptOffset) % 256] # None
              THEN Append(asked, <<0, call.ebx>>) ELSE asked
  /\ UNCHANGED <<handlerVars, active, program, taskVars, printed, picVars, deviceVars>>

-----------------------------------------------------------------------------
(* InterruptManager::handleInterrupt and doHandleInterrupt.                *)

Top == Last(frames)
Runs(step) == OnTrack /\ frames # << >> /\ Top.step = step
Replace(frame) == Front(frames) \o <<frame>>

\* CPUState* cpu = (CPUState*)esp
Field(esp, name) ==
  stack[esp + 1 - CHOOSE i \in DOMAIN CPUState : CPUState[i] = name]

\* SyscallHandler::handleInterrupt
PrintedBy(number, esp) ==
  IF number = SystemCallVector + HardwareInterruptOffset /\ Field(esp, "eax")[2] = "4"
  THEN Append(printed, Field(esp, "ebx")) ELSE printed

\* the devices that wait on the line of the handler on top
WaitingThere == {d \in waiting : Top.number = HardwareInterruptOffset + LineOf[d]}

\* without an active manager the stub gets its esp back at once
Bypass ==
  /\ Runs("call") /\ ~active
  /\ frames' = Replace([Top EXCEPT !.step = "return"])
  /\ stray' = IF IsLine(Top.number)
              THEN stray \cup {Top.number - HardwareInterruptOffset} ELSE stray
  /\ unheard' = unheard \cup WaitingThere
  /\ UNCHANGED <<handlerVars, active, program, cpu, stack, taskVars, callVars,
                 picVars, waiting, budget>>

\* a handler object looks at its own device and at no other on the line
Served(h) == {d \in WaitingThere : DriverOf[d] = h}

\* the registered object, or a message
Call ==
  LET h == table[Top.number]
      served == IF h = None THEN {} ELSE Served(h)
  IN /\ Runs("call") /\ active
     /\ frames' = Replace([Top EXCEPT !.step = "finish"])
     /\ waiting' = waiting \ served
     /\ unheard' = (unheard \cup WaitingThere) \ served
     /\ printed' = IF h = None THEN printed ELSE PrintedBy(Top.number, Top.esp)
     /\ UNCHANGED <<handlerVars, active, program, cpu, stack, taskVars, asked,
                    picVars, stray, budget>>

\* what "currentTask->cpustate = cpustate" changes, at an address that nobody has
\* initialised: nothing the kernel uses; a word of the stack, which then is an
\* address (in the place of flags one that may have bit 9 set); or what the
\* machine runs on, code, tables and objects; an address beyond the 64 MB of the
\* segment (gdt.cpp 6) faults again and again, and counts as the last of these
NothingHit == UNCHANGED <<cpu, stack>>
StackHit ==
  /\ \E i \in HitWords \cap DOMAIN stack, w \in {"esp", "on"} :
       /\ w = "on" => stack[i][2] \in {"on", "off"}
       /\ stack' = [stack EXCEPT ![i] = <<0, w>>]
  /\ UNCHANGED cpu
KernelHit == cpu' = [cpu EXCEPT !.eip = <<0, "garbage">>] /\ UNCHANGED stack

\* TaskManager::Schedule(esp): the store, and what it then reads and returns,
\* which is what was stored only where there is memory
Schedule(frame) ==
  \/ firstTask = 0 /\ NothingHit /\ frames' = Replace(frame)
  \/ /\ firstTask # 0 /\ currentTask = 0
     /\ NothingHit /\ frames' = Replace([frame EXCEPT !.esp = Garbage])
  \/ /\ firstTask # 0 /\ currentTask # 0
     /\ \/ /\ NothingHit
           /\ \E esp \in {frame.esp, Garbage} :
                frames' = Replace([frame EXCEPT !.esp = esp])
        \/ StackHit /\ frames' = Replace([frame EXCEPT !.torn = TRUE])
        \/ KernelHit /\ frames' = Replace(frame)

\* the timer's turn, the acknowledgement, and the stack the stub returns to
Finish ==
  LET frame == [Top EXCEPT !.step = "return"]
  IN /\ Runs("finish")
     /\ IF Top.number = HardwareInterruptOffset
        THEN Schedule(frame) ELSE NothingHit /\ frames' = Replace(frame)
     /\ master' = IF IsLine(Top.number) THEN Eoi(master) ELSE master
     /\ slave' = IF OnSlave(Top.number) THEN Eoi(slave) ELSE slave
     /\ UNCHANGED <<handlerVars, active, program, taskVars, callVars, requests,
                    deviceVars, budget>>

\* movl %eax, %esp; seven pops; add $4, %esp; iret
Popped(esp) ==
  [eip |-> stack[esp - 8], cs |-> stack[esp - 9], eflags |-> stack[esp - 10],
   regs |-> [r \in Registers |-> Field(esp, r)]]

Return ==
  /\ Runs("return")
  /\ IF Top.esp = Garbage
     THEN /\ cpu' = [cpu EXCEPT !.eip = <<0, "garbage">>]
          /\ UNCHANGED stack
     ELSE /\ cpu' = Popped(Top.esp)
          /\ stack' = SubSeq(stack, 1, Top.esp - 11)
  /\ frames' = Front(frames)
  /\ UNCHANGED <<handlerVars, active, program, taskVars, callVars, picVars,
                 deviceVars, budget>>

MainStep ==
  \/ \E h \in Handlers : ConstructHandler(h) \/ DestroyHandler(h)
  \/ Activate \/ Deactivate \/ Execute
  \/ \E call \in SysCalls : SystemCall(call)

HandlerStep == Bypass \/ Call \/ Finish \/ Return

InterruptNext ==
  \/ MainStep \/ HandlerStep
  \/ \E d \in Devices : Request(d)
  \/ \E l \in Lines : TakeRequest(l)
  \/ \E v \in Exceptions : Exception(v)

(* A processor executes: handlers go on, activate and deactivate end, and a
   request is taken while interrupts stay on. *)
InterruptSpec ==
  /\ InterruptInit /\ [][InterruptNext]_interruptVars
  /\ WF_interruptVars(HandlerStep) /\ WF_interruptVars(Execute)
  /\ \A l \in Lines : WF_interruptVars(TakeRequest(l))

-----------------------------------------------------------------------------
(* Properties.                                                             *)

\* frames whose stack int_bottom cannot take down: an exception without an error
\* code, for which nothing is pushed in its place, and a timer interrupt whose
\* Schedule found a first task in uninitialised memory, and either read an esp
\* through a pointer to no task or wrote over the stack through it
Undoable(frame) ==
  \/ frame.vector < 20 /\ frame.vector \notin HasErrorCode
  \/ frame.esp = Garbage
  \/ frame.torn

(* Whatever comes in between, code that was interrupted goes on with the
   instruction, the registers, the interrupt flag and the stack it had, unless its
   frame is undoable (interruptstubs.s 8-21, 66-108; multitasking.cpp 117-125). *)
ResumesAsInterrupted ==
  [][Return /\ ~Undoable(Top) => cpu' = Top.cpu /\ stack' = Top.below]_interruptVars

(* A line is in service exactly while its handler has not been acknowledged,
   the slave's lines also at the master; but one that was taken between the two
   instructions of deactivate is never acknowledged (interrupts.cpp 153-157). *)
InServiceIsInProgress ==
  OnTrack =>
    LET inProgress == {frames[i].number - HardwareInterruptOffset :
                         i \in {j \in DOMAIN frames :
                                  IsLine(frames[j].number) /\ frames[j].step # "return"}}
        taken == inProgress \cup stray
    IN /\ slave = {l \in taken : l >= 8}
       /\ master = {l \in taken : l < 8} \cup {2 : l \in slave}

(* The registered object is the youngest of those that were constructed with its
   number and still exist; a number has none only when none exists or when the
   youngest was destroyed in front of older ones (interrupts.cpp 10-19). *)
RegisteredIsYoungest ==
  \A n \in Numbers :
    LET candidates == {h \in Handlers : built[h] # 0 /\ NumberOf[h] = n}
    IN IF table[n] # None
       THEN /\ table[n] \in candidates
            /\ \A h \in candidates \ {table[n]} : built[h] < built[table[n]]
       ELSE candidates = {} \/ n \in orphaned

(* When the main loop runs, what it asked int 0x80 to print has been printed, in
   order: number and registers reach SyscallHandler as the caller set them
   (syscalls.cpp 18-28, interruptstubs.s 62, 74-85). *)
PrintedAsAsked == InMain => printed = asked

(* A device that waits is served by its driver, unless the manager is inactive, a
   line that holds it back was taken in the gap of deactivate (one of the slave
   holds back all of the slave), the machine has run away, or Schedule wrote over
   the flags that came back, so that interrupts stay off.  A device is unheard
   when a request of its line is taken and the object at the number is not its
   driver: of the drivers of a shared line only the youngest is registered
   (interrupts.cpp 13, 142-143), so a device that waits for an older one waits for
   ever. *)
DevicesAreServed ==
  \A d \in Devices :
    d \in waiting ~> \/ d \notin waiting
                     \/ ~active \/ ~OnTrack \/ cpu.eflags[2] = "esp" \/ d \in unheard
                     \/ \E s \in stray :
                          Priority(IF s < 8 THEN s ELSE 2) <= Priority(LineOf[d])
==============================================================================
