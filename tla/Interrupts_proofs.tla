-------------------------- MODULE Interrupts_proofs --------------------------
(***************************************************************************)
(* The interrupt path, for any handler objects, lines, exceptions and      *)
(* system calls, to any depth: the stack that processor and stub build is  *)
(* taken down again, lines are acknowledged once, the handler table holds  *)
(* the youngest objects, and a system call prints what it was asked to.    *)
(***************************************************************************)
EXTENDS Interrupts, SequenceTheorems, TLAPS

(* A word of the stack, the registers of the processor, a frame. *)
What == Registers \cup {"eip", "cs", "on", "off", "local", "zero", "code", "esp"}
        \cup {call.eax : call \in SysCalls} \cup {call.ebx : call \in SysCalls}
Words == Nat \X What
Cpu == [eip : Words, cs : Words, eflags : Words, regs : [Registers -> Words]]

Vectors == Exceptions \cup {HardwareInterruptOffset + l : l \in Lines}
           \cup {SystemCallVector}
Frame == [vector : Vectors, number : Int, step : {"call", "finish", "return"},
          torn : BOOLEAN, esp : Int, cpu : Cpu, below : Seq(Words)]

(* The stack as it is while a handler runs: what was there, and what the
   processor and the stub have pushed. *)
ErrorCode(vector) == IF vector \in HasErrorCode THEN <<<<0, "code">>>> ELSE << >>
Layout(f) ==
  f.below \o <<f.cpu.eflags, f.cpu.cs, f.cpu.eip>> \o ErrorCode(f.vector)
    \o Dummy(f.vector) \o [i \in DOMAIN Pushed |-> f.cpu.regs[Pushed[i]]]

FrameSound(f) ==
  /\ f.number = Reported(f.vector)
  /\ f.esp = Len(Layout(f)) \/ (f.step = "return" /\ f.esp = Garbage /\ ~ f.torn)
  /\ f.torn => f.step = "return" /\ f.vector = HardwareInterruptOffset
  /\ f.cpu.eip[2] = "eip" /\ f.cpu.cs[2] = "cs"

(* The handlers in progress lie on each other: only the last is not in the
   middle of its work, only the first can have interrupted a program with
   interrupts on, and the words are those that were pushed unless Schedule wrote
   over one of them. *)
FramesNest ==
  /\ \A i \in 1 .. Len(frames) : FrameSound(frames[i])
  /\ \A i \in 1 .. Len(frames) : i < Len(frames) =>
       frames[i].step = "finish" /\ frames[i + 1].below = Layout(frames[i])
  /\ \A i \in 1 .. Len(frames) : i # 1 =>
       frames[i].vector \in Exceptions /\ frames[i].cpu.eflags[2] # "on"
  /\ frames # << >> => /\ ~ Last(frames).torn => stack = Layout(Last(frames))
                      /\ Len(stack) = Len(Layout(Last(frames))) /\ ~ InterruptsOn

StackInv ==
  OnTrack => /\ cpu \in Cpu /\ stack \in Seq(Words) /\ frames \in Seq(Frame)
             /\ FramesNest

(* What the main loop asked for has been printed, but for the call that is
   under way. *)
Owed(f) ==
  /\ f.vector = SystemCallVector /\ f.step = "call"
  /\ active /\ f.cpu.regs["eax"][2] = "4"
  /\ table[(SystemCallVector + HardwareInterruptOffset) % 256] # None

PrintInv ==
  OnTrack => asked = IF frames # << >> /\ Owed(Last(frames))
                     THEN Append(printed, Last(frames).cpu.regs["ebx"]) ELSE printed

(* The line whose handler is in progress goes before all that were left in
   service. *)
Line(f) == f.number - HardwareInterruptOffset
LineInProgress ==
  IF frames # << >> /\ IsLine(frames[1].number) /\ frames[1].step # "return"
  THEN {Line(frames[1])} ELSE {}

OfSlave(lines) == {l \in lines : l >= 8}
OfMaster(lines) == {l \in lines : l < 8} \cup {2 : l \in OfSlave(lines)}
GoesBefore(l, s) ==
  IF l < 8 THEN (s < 8 => l < s) /\ (s >= 8 => l < 2) ELSE s < 8 /\ 2 < s

ServiceInv ==
  OnTrack =>
    /\ stray \subseteq Lines
    /\ slave = OfSlave(LineInProgress \cup stray)
    /\ master = OfMaster(LineInProgress \cup stray)
    /\ \A l \in LineInProgress, s \in stray : GoesBefore(l, s)

RegisteredInv ==
  /\ table \in [Numbers -> Handlers \cup {None}]
  /\ built \in [Handlers -> Nat]
  /\ budget \in [events : Nat, switches : Nat, builds : Nat]
  /\ \A h \in Handlers : built[h] <= MaxBuilds - budget.builds
  /\ RegisteredIsYoungest

-----------------------------------------------------------------------------
(* The table of handlers. *)

Candidates(n) == {h \in Handlers : built[h] # 0 /\ NumberOf[h] = n}

LEMMA NumberIsInTable == \A h \in Handlers : NumberOf[h] \in Numbers
  BY DEF Numbers

LEMMA RegisteredSteps ==
  ASSUME RegisteredInv, [InterruptNext]_interruptVars
  PROVE  RegisteredInv'
<1>0. /\ table \in [Numbers -> Handlers \cup {None}]
      /\ built \in [Handlers -> Nat]
      /\ budget \in [events : Nat, switches : Nat, builds : Nat]
      /\ \A h \in Handlers : built[h] <= MaxBuilds - budget.builds
  BY DEF RegisteredInv
<1>1. \A n \in Numbers :
        IF table[n] # None
        THEN /\ table[n] \in Candidates(n)
             /\ \A h \in Candidates(n) \ {table[n]} : built[h] < built[table[n]]
        ELSE Candidates(n) = {} \/ n \in orphaned
  BY DEF RegisteredInv, RegisteredIsYoungest, Candidates
<1>2. CASE UNCHANGED handlerVars
  <2>1. table' = table /\ built' = built /\ orphaned' = orphaned
    BY <1>2 DEF handlerVars
  <2>2. RegisteredIsYoungest'
    BY <1>1, <2>1 DEF RegisteredIsYoungest, Candidates
  <2>3. /\ budget' \in [events : Nat, switches : Nat, builds : Nat]
        /\ budget'.builds = budget.builds
    <3>1. \A w \in {"events", "switches"} : Spend(w) =>
            /\ budget' \in [events : Nat, switches : Nat, builds : Nat]
            /\ budget'.builds = budget.builds
      BY <1>0 DEF Spend
    <3>2. \/ UNCHANGED budget \/ Spend("events") \/ Spend("switches")
          \/ \E h \in Handlers : ConstructHandler(h)
      BY DEF InterruptNext, MainStep, HandlerStep, DestroyHandler, Activate, Deactivate,
             Execute, SystemCall, Bypass, Call, Finish, Return, Request, TakeRequest,
             Exception, interruptVars
    <3>3. ASSUME NEW h \in Handlers, ConstructHandler(h) PROVE FALSE
      <4>1. built[h] = 0 /\ built' = [built EXCEPT ![h] = MaxBuilds - budget'.builds]
            /\ table' = [table EXCEPT ![NumberOf[h]] = h]
        BY <3>3 DEF ConstructHandler
      <4>2. table[NumberOf[h]] = h
        BY <1>0, <2>1, <4>1, NumberIsInTable
      <4>3. h # None
        BY HandlersAssumption
      <4> QED  BY <1>1, <4>1, <4>2, <4>3, NumberIsInTable DEF Candidates
    <3> QED  BY <1>0, <3>1, <3>2, <3>3
  <2> QED  BY <1>0, <2>1, <2>2, <2>3, Zenon DEF RegisteredInv
<1>3. ASSUME NEW h \in Handlers, ConstructHandler(h) PROVE RegisteredInv'
  <2> DEFINE turn == MaxBuilds - budget'.builds
  <2>1. /\ built[h] = 0 /\ built' = [built EXCEPT ![h] = turn]
        /\ table' = [table EXCEPT ![NumberOf[h]] = h]
        /\ orphaned' = orphaned
        /\ budget.builds > 0 /\ budget' = [budget EXCEPT !.builds = @ - 1]
    BY <1>3 DEF ConstructHandler, Spend
  <2>2. /\ budget' \in [events : Nat, switches : Nat, builds : Nat]
        /\ budget'.builds = budget.builds - 1
    BY <1>0, <2>1
  <2>3. MaxBuilds \in Nat /\ budget.builds \in Nat
    BY <1>0, BoundsAssumption
  <2>4. built[h] \in Nat /\ built[h] <= MaxBuilds - budget.builds
    BY <1>0
  <2>5. turn \in Nat /\ turn = MaxBuilds - budget.builds + 1 /\ turn # 0
    BY <2>2, <2>3, <2>4
  <2> HIDE DEF turn
  <2>6. \A g \in Handlers : built[g] \in Nat /\ built[g] < turn
    BY <1>0, <2>3, <2>5
  <2>7. built' \in [Handlers -> Nat] /\ built'[h] = turn
        /\ \A g \in Handlers : g # h => built'[g] = built[g]
    BY <1>0, <2>1, <2>5
  <2>8. table' \in [Numbers -> Handlers \cup {None}] /\ table'[NumberOf[h]] = h
        /\ \A n \in Numbers : n # NumberOf[h] => table'[n] = table[n]
    BY <1>0, <2>1, NumberIsInTable
  <2>9. ASSUME NEW n \in Numbers
        PROVE  IF table'[n] # None
               THEN /\ table'[n] \in Candidates(n)'
                    /\ \A g \in Candidates(n)' \ {table'[n]} : built'[g] < built'[table'[n]]
               ELSE Candidates(n)' = {} \/ n \in orphaned'
    <3>1. CASE n = NumberOf[h]
      <4>1. table'[n] = h /\ h # None /\ h \in Candidates(n)'
        BY <2>5, <2>7, <2>8, <3>1, HandlersAssumption DEF Candidates
      <4>2. \A g \in Candidates(n)' \ {h} : built'[g] < built'[h]
        BY <2>6, <2>7 DEF Candidates
      <4> QED  BY <4>1, <4>2
    <3>2. CASE n # NumberOf[h]
      <4>1. Candidates(n)' = Candidates(n) /\ h \notin Candidates(n)
        BY <2>7, <3>2 DEF Candidates
      <4>2. \A g \in Candidates(n) : built'[g] = built[g]
        BY <2>7, <4>1 DEF Candidates
      <4> QED  BY <1>1, <2>1, <2>8, <3>2, <4>1, <4>2
    <3> QED  BY <3>1, <3>2
  <2>10. RegisteredIsYoungest'
    BY <2>9 DEF RegisteredIsYoungest, Candidates
  <2>11. \A g \in Handlers : built'[g] <= MaxBuilds - budget'.builds
    <3>1. MaxBuilds - budget'.builds = turn
      BY DEF turn
    <3>2. ASSUME NEW g \in Handlers PROVE built'[g] <= turn
      BY <2>5, <2>6, <2>7
    <3> QED  BY <3>1, <3>2
  <2> QED  BY <2>2, <2>7, <2>8, <2>10, <2>11, Zenon DEF RegisteredInv
<1>4. ASSUME NEW h \in Handlers, DestroyHandler(h) PROVE RegisteredInv'
  <2> DEFINE n == NumberOf[h]
             others == {g \in Handlers \ {h} : built[g] # 0 /\ NumberOf[g] = n}
  <2>1. /\ built[h] # 0 /\ built' = [built EXCEPT ![h] = 0]
        /\ table' = [table EXCEPT ![n] = IF table[n] = h THEN None ELSE table[n]]
        /\ orphaned' = IF table[n] = h /\ others # {} THEN orphaned \cup {n} ELSE orphaned
        /\ budget' = budget
    BY <1>4 DEF DestroyHandler, Unregistered
  <2>2. n \in Numbers
    BY NumberIsInTable
  <2>3. built' \in [Handlers -> Nat] /\ built'[h] = 0
        /\ \A g \in Handlers : g # h => built'[g] = built[g]
    BY <1>0, <2>1
  <2>4. table' \in [Numbers -> Handlers \cup {None}]
        /\ table'[n] = (IF table[n] = h THEN None ELSE table[n])
        /\ \A m \in Numbers : m # n => table'[m] = table[m]
    BY <1>0, <2>1, <2>2
  <2>5. \A m : Candidates(m)' = Candidates(m) \ {h}
    BY <2>3 DEF Candidates
  <2>6. \A m : m # n => h \notin Candidates(m)
    BY DEF Candidates
  <2>7. others = Candidates(n) \ {h}
    BY DEF Candidates
  <2> HIDE DEF n, others
  <2>8. ASSUME NEW m \in Numbers
        PROVE  IF table'[m] # None
               THEN /\ table'[m] \in Candidates(m)'
                    /\ \A g \in Candidates(m)' \ {table'[m]} : built'[g] < built'[table'[m]]
               ELSE Candidates(m)' = {} \/ m \in orphaned'
    <3>1. CASE m = n /\ table[n] = h
      <4>1. table'[m] = None /\ Candidates(m)' = others
        BY <2>4, <2>5, <2>7, <3>1
      <4> QED  BY <2>1, <3>1, <4>1
    <3>2. CASE ~ (m = n /\ table[n] = h)
      <4>1. table'[m] = table[m] /\ orphaned \subseteq orphaned'
        BY <2>1, <2>4, <3>2
      <4>2. \A g \in Candidates(m) \ {h} : built'[g] = built[g]
        BY <2>3 DEF Candidates
      <4>3. table[m] \in Candidates(m) => table[m] # h
        BY <2>6, <3>2
      <4>4. CASE table[m] # None
        <5>1. /\ table[m] \in Candidates(m) \ {h}
              /\ \A g \in Candidates(m) \ {table[m]} : built[g] < built[table[m]]
          BY <1>1, <4>3, <4>4
        <5> QED  BY <2>5, <4>1, <4>2, <4>4, <5>1
      <4>5. CASE table[m] = None
        BY <1>1, <2>5, <4>1, <4>5
      <4> QED  BY <4>4, <4>5
    <3> QED  BY <3>1, <3>2
  <2>9. RegisteredIsYoungest'
    BY <2>8 DEF RegisteredIsYoungest, Candidates
  <2>10. \A g \in Handlers : built'[g] <= MaxBuilds - budget'.builds
    <3>1. built[h] \in Nat /\ built[h] <= MaxBuilds - budget.builds
      BY <1>0
    <3>2. MaxBuilds \in Nat /\ budget.builds \in Nat
      BY <1>0, BoundsAssumption
    <3>3. 0 <= MaxBuilds - budget.builds
      BY <3>1, <3>2
    <3> QED  BY <1>0, <2>1, <2>3, <3>3
  <2> QED  BY <1>0, <2>1, <2>3, <2>4, <2>9, <2>10, Zenon DEF RegisteredInv
<1> QED
  BY <1>2, <1>3, <1>4 DEF InterruptNext, MainStep, HandlerStep, Activate, Deactivate,
     Execute, SystemCall, Bypass, Call, Finish, Return, Request, TakeRequest,
     Exception, interruptVars

(* Whatever objects are constructed and destroyed, a number is handled by the
   youngest object that exists for it, unless that one was destroyed in front
   of older ones. *)
THEOREM RegisteredYoungest == InterruptSpec => []RegisteredIsYoungest
<1>1. InterruptInit => RegisteredInv
  <2> SUFFICES ASSUME InterruptInit PROVE RegisteredInv
    OBVIOUS
  <2>1. /\ table = [n \in Numbers |-> None] /\ built = [h \in Handlers |-> 0]
        /\ budget = [events |-> MaxEvents, switches |-> MaxSwitches, builds |-> MaxBuilds]
    BY DEF InterruptInit
  <2>2. {MaxEvents, MaxSwitches, MaxBuilds} \subseteq Nat
    BY BoundsAssumption
  <2>3. budget \in [events : Nat, switches : Nat, builds : Nat]
    BY <2>1, <2>2
  <2>4. \A h \in Handlers : built[h] <= MaxBuilds - budget.builds
    BY <2>1, <2>2
  <2>5. RegisteredIsYoungest
    BY <2>1 DEF RegisteredIsYoungest
  <2> QED  BY <2>1, <2>3, <2>4, <2>5 DEF RegisteredInv
<1>2. RegisteredInv => RegisteredIsYoungest
  BY DEF RegisteredInv
<1> QED  BY <1>1, <1>2, RegisteredSteps, PTL DEF InterruptSpec

-----------------------------------------------------------------------------
(* What the pushes leave on the stack, word by word. *)

LEMMA RegisterNames ==
  /\ DOMAIN Pushed = 1 .. 7
  /\ Pushed[1] = "ebp" /\ Pushed[2] = "edi" /\ Pushed[3] = "esi" /\ Pushed[4] = "edx"
  /\ Pushed[5] = "ecx" /\ Pushed[6] = "ebx" /\ Pushed[7] = "eax"
  /\ Registers = {"ebp", "edi", "esi", "edx", "ecx", "ebx", "eax"}
<1>1. /\ DOMAIN Pushed = 1 .. 7
      /\ Pushed[1] = "ebp" /\ Pushed[2] = "edi" /\ Pushed[3] = "esi" /\ Pushed[4] = "edx"
      /\ Pushed[5] = "ecx" /\ Pushed[6] = "ebx" /\ Pushed[7] = "eax"
  BY DEF Pushed
<1>2. 1 .. 7 = {1, 2, 3, 4, 5, 6, 7}
  OBVIOUS
<1> QED  BY <1>1, <1>2 DEF Registers, Range

(* How many words lie between the interrupted code's and the registers *)
Spare(vector) == Len(ErrorCode(vector)) + Len(Dummy(vector))

LEMMA SpareWords ==
  ASSUME NEW v \in Int
  PROVE  /\ ErrorCode(v) \in Seq(Words) /\ Dummy(v) \in Seq(Words)
         /\ Spare(v) = IF v < 20 /\ v \notin HasErrorCode THEN 0 ELSE 1
<1>1. <<0, "code">> \in Words /\ <<0, "zero">> \in Words
  BY DEF Words, What
<1> HIDE DEF Words
<1>2. ErrorCode(v) \in Seq(Words) /\ Dummy(v) \in Seq(Words)
  BY <1>1 DEF ErrorCode, Dummy
<1>3. Spare(v) = IF v < 20 /\ v \notin HasErrorCode THEN 0 ELSE 1
  BY DEF Spare, ErrorCode, Dummy, HasErrorCode
<1> QED  BY <1>2, <1>3

LEMMA VectorNumbers ==
  /\ Vectors \subseteq Int
  /\ \A v \in Exceptions : v \in 0 .. 19
  /\ \A l \in Lines : l \in 0 .. 15 /\ l # 2
<1>1. \A v \in Exceptions : v \in 0 .. 19
  BY ExceptionsAssumption
<1>2. \A l \in Lines : l \in 0 .. 15 /\ l # 2
  BY LinesAssumption
<1>3. ASSUME NEW v \in Vectors PROVE v \in Int
  <2>1. CASE v \in Exceptions
    BY <1>1, <2>1
  <2>2. CASE v \in {HardwareInterruptOffset + l : l \in Lines}
    BY <1>2, <2>2 DEF HardwareInterruptOffset
  <2>3. CASE v = SystemCallVector
    BY <2>3 DEF SystemCallVector
  <2> QED  BY <2>1, <2>2, <2>3 DEF Vectors
<1> QED  BY <1>1, <1>2, <1>3

LEMMA LayoutFacts ==
  ASSUME NEW f \in Frame
  PROVE  LET n == Len(f.below)
             k == Spare(f.vector)
         IN  /\ n \in Nat /\ k \in {0, 1}
             /\ Layout(f) \in Seq(Words) /\ Len(Layout(f)) = n + 10 + k
             /\ \A i \in 1 .. n : Layout(f)[i] = f.below[i]
             /\ Layout(f)[n + 1] = f.cpu.eflags
             /\ Layout(f)[n + 2] = f.cpu.cs
             /\ Layout(f)[n + 3] = f.cpu.eip
             /\ \A i \in 1 .. 7 : Layout(f)[n + 3 + k + i] = f.cpu.regs[Pushed[i]]
<1> DEFINE n == Len(f.below)
           back == <<f.cpu.eflags, f.cpu.cs, f.cpu.eip>>
           error == ErrorCode(f.vector)
           dummy == Dummy(f.vector)
           regs == [i \in DOMAIN Pushed |-> f.cpu.regs[Pushed[i]]]
           one == f.below \o back
           two == one \o error
           three == two \o dummy
<1>1. f.vector \in Int
  BY VectorNumbers DEF Frame
<1>2. error \in Seq(Words) /\ dummy \in Seq(Words)
      /\ Spare(f.vector) = Len(error) + Len(dummy) /\ Spare(f.vector) \in {0, 1}
  BY <1>1, SpareWords DEF Spare
<1>3. f.cpu \in Cpu /\ f.below \in Seq(Words)
  BY DEF Frame
<1>4. back \in Seq(Words) /\ Len(back) = 3
      /\ back[1] = f.cpu.eflags /\ back[2] = f.cpu.cs /\ back[3] = f.cpu.eip
  BY <1>3 DEF Cpu
<1>5. regs \in Seq(Words) /\ Len(regs) = 7 /\ \A i \in 1 .. 7 : regs[i] = f.cpu.regs[Pushed[i]]
  <2>1. regs \in [1 .. 7 -> Words]
    <3>1. \A i \in 1 .. 7 : Pushed[i] \in Registers
      BY RegisterNames DEF Registers, Range
    <3> QED  BY <1>3, <3>1, RegisterNames DEF Cpu
  <2> QED  BY <2>1, RegisterNames
<1>6. Layout(f) = three \o regs
  BY DEF Layout
<1> HIDE DEF back, error, dummy, regs
<1>7. one \in Seq(Words) /\ Len(one) = n + 3 /\ n \in Nat
      /\ \A i \in 1 .. n + 3 : one[i] = IF i <= n THEN f.below[i] ELSE back[i - n]
  <2>1. /\ one \in Seq(Words) /\ Len(one) = Len(f.below) + Len(back)
        /\ \A i \in 1 .. Len(f.below) + Len(back) : one[i] =
             IF i <= Len(f.below) THEN f.below[i] ELSE back[i - Len(f.below)]
    BY <1>3, <1>4, ConcatProperties
  <2>2. n \in Nat
    BY <1>3
  <2> QED  BY <1>4, <2>1, <2>2
<1> HIDE DEF one, n
<1>8. two \in Seq(Words) /\ Len(two) = n + 3 + Len(error) /\ Len(error) \in Nat
      /\ \A i \in 1 .. n + 3 : two[i] = one[i]
  BY <1>2, <1>7, ConcatProperties
<1> HIDE DEF two
<1>9. three \in Seq(Words) /\ Len(three) = n + 3 + Spare(f.vector) /\ Len(dummy) \in Nat
      /\ \A i \in 1 .. n + 3 : three[i] = one[i]
  BY <1>2, <1>7, <1>8, ConcatProperties
<1> HIDE DEF three
<1>10. /\ Layout(f) \in Seq(Words) /\ Len(Layout(f)) = Len(three) + 7
       /\ \A i \in 1 .. Len(three) + 7 : Layout(f)[i] =
            IF i <= Len(three) THEN three[i] ELSE regs[i - Len(three)]
  <2>1. /\ three \o regs \in Seq(Words) /\ Len(three \o regs) = Len(three) + Len(regs)
        /\ \A i \in 1 .. Len(three) + Len(regs) : (three \o regs)[i] =
             IF i <= Len(three) THEN three[i] ELSE regs[i - Len(three)]
    BY <1>5, <1>9, ConcatProperties
  <2> QED  BY <1>5, <1>6, <2>1
<1>20. Len(three) \in Nat /\ n + 3 <= Len(three)
  BY <1>2, <1>7, <1>9
<1>11. ASSUME NEW i \in 1 .. n + 3 PROVE Layout(f)[i] = one[i]
  <2>1. i \in 1 .. Len(three) + 7 /\ i <= Len(three)
    BY <1>7, <1>20
  <2> QED  BY <1>9, <1>10, <2>1
<1>12. ASSUME NEW i \in 1 .. 7 PROVE Layout(f)[Len(three) + i] = regs[i]
  <2>1. Len(three) + i \in 1 .. Len(three) + 7 /\ ~ (Len(three) + i <= Len(three))
        /\ (Len(three) + i) - Len(three) = i
    BY <1>20
  <2> QED  BY <1>10, <2>1
<1>13. \A i \in 1 .. n : Layout(f)[i] = f.below[i]
  BY <1>7, <1>11
<1>14. Layout(f)[n + 1] = back[1] /\ Layout(f)[n + 2] = back[2] /\ Layout(f)[n + 3] = back[3]
  BY <1>7, <1>11
<1>15. \A i \in 1 .. 7 : Layout(f)[n + 3 + Spare(f.vector) + i] = f.cpu.regs[Pushed[i]]
  BY <1>5, <1>9, <1>12
<1>16. Len(Layout(f)) = n + 10 + Spare(f.vector)
  BY <1>2, <1>7, <1>9, <1>10
<1> QED  BY <1>2, <1>4, <1>7, <1>10, <1>13, <1>14, <1>15, <1>16 DEF n

(* CPUState lists the registers as they were pushed. *)
LEMMA FieldIndex ==
  ASSUME NEW r \in Registers
  PROVE  LET i == CHOOSE j \in DOMAIN CPUState : CPUState[j] = r
         IN  i \in 1 .. 7 /\ r = Pushed[8 - i]
<1> DEFINE i == CHOOSE j \in DOMAIN CPUState : CPUState[j] = r
<1>1. \A j \in DOMAIN CPUState : CPUState[j] = r => j \in 1 .. 7 /\ r = Pushed[8 - j]
  BY RegisterNames DEF CPUState
<1>2. \E j \in DOMAIN CPUState : CPUState[j] = r
  <2>1. DOMAIN CPUState = 1 .. 11
    BY DEF CPUState
  <2>2. /\ CPUState[1] = "eax" /\ CPUState[2] = "ebx" /\ CPUState[3] = "ecx"
        /\ CPUState[4] = "edx" /\ CPUState[5] = "esi" /\ CPUState[6] = "edi"
        /\ CPUState[7] = "ebp"
    BY DEF CPUState
  <2> QED  BY <2>1, <2>2, RegisterNames
<1>3. i \in DOMAIN CPUState /\ CPUState[i] = r
  BY <1>2
<1> HIDE DEF i
<1>5. i \in 1 .. 7 /\ r = Pushed[8 - i]
  BY <1>1, <1>3
<1> QED  BY <1>5 DEF i

(* Where a handler looks for a register, it finds the one that was pushed. *)
LEMMA FieldsArePushed ==
  ASSUME NEW f \in Frame, stack = Layout(f), NEW r \in Registers
  PROVE  Field(Len(Layout(f)), r) = f.cpu.regs[r]
<1> DEFINE i == CHOOSE j \in DOMAIN CPUState : CPUState[j] = r
           first == Len(f.below) + 3 + Spare(f.vector)
           esp == Len(Layout(f))
<1>3. i \in 1 .. 7 /\ r = Pushed[8 - i]
  BY FieldIndex
<1>4. Field(esp, r) = stack[esp + 1 - i]
  BY DEF Field
<1> HIDE DEF i
<1>6. \A j \in 1 .. 7 : stack[first + j] = f.cpu.regs[Pushed[j]]
  BY LayoutFacts, Zenon
<1>7. Len(f.below) \in Nat /\ Spare(f.vector) \in {0, 1}
      /\ esp = Len(f.below) + 10 + Spare(f.vector)
  BY LayoutFacts
<1> HIDE DEF esp
<1>8. 8 - i \in 1 .. 7 /\ esp + 1 - i = first + (8 - i)
  BY <1>3, <1>7
<1> HIDE DEF first
<1> QED  BY <1>3, <1>4, <1>6, <1>8 DEF esp

(* Whatever lies there, a handler finds a word. *)
LEMMA FieldIsWord ==
  ASSUME Len(stack) \in Nat, Len(stack) >= 11, NEW r \in Registers,
         \A i \in 1 .. Len(stack) : stack[i] \in Words
  PROVE  Field(Len(stack), r) \in Words
<1> DEFINE i == CHOOSE j \in DOMAIN CPUState : CPUState[j] = r
<1>1. i \in 1 .. 7
  BY FieldIndex
<1>2. Field(Len(stack), r) = stack[Len(stack) + 1 - i]
  BY DEF Field
<1> HIDE DEF i, Words
<1>3. Len(stack) + 1 - i \in 1 .. Len(stack)
  BY <1>1
<1> QED  BY <1>2, <1>3

(* What the pops of int_bottom give back, if the stub has pushed a word where
   the processor pushed no error code. *)
LEMMA PopsWhatWasPushed ==
  ASSUME NEW f \in Frame, stack = Layout(f), Spare(f.vector) = 1
  PROVE  /\ Popped(Len(Layout(f))) = f.cpu
         /\ SubSeq(stack, 1, Len(Layout(f)) - 11) = f.below
<1> DEFINE n == Len(f.below)
           esp == Len(Layout(f))
<1>0. /\ n \in Nat /\ stack \in Seq(Words) /\ esp = n + 10 + 1 /\ Len(stack) = n + 10 + 1
      /\ \A i \in 1 .. n : stack[i] = f.below[i]
      /\ stack[n + 1] = f.cpu.eflags /\ stack[n + 2] = f.cpu.cs /\ stack[n + 3] = f.cpu.eip
      /\ \A i \in 1 .. 7 : stack[n + 3 + 1 + i] = f.cpu.regs[Pushed[i]]
  BY LayoutFacts, Zenon
<1>7. n + 10 + 1 = n + 11 /\ \A i \in 1 .. 7 : n + 3 + 1 + i = n + 4 + i
  BY <1>0
<1>1. /\ n \in Nat /\ esp = n + 11 /\ stack \in Seq(Words) /\ Len(stack) = n + 11
      /\ \A i \in 1 .. n : stack[i] = f.below[i]
      /\ stack[n + 1] = f.cpu.eflags /\ stack[n + 2] = f.cpu.cs /\ stack[n + 3] = f.cpu.eip
      /\ \A i \in 1 .. 7 : stack[n + 4 + i] = f.cpu.regs[Pushed[i]]
  BY <1>0, <1>7
<1>2. f.cpu \in Cpu /\ f.below \in Seq(Words)
  BY DEF Frame
<1> HIDE DEF n, esp
<1>3. stack[esp - 8] = f.cpu.eip /\ stack[esp - 9] = f.cpu.cs /\ stack[esp - 10] = f.cpu.eflags
  <2>1. esp - 8 = n + 3 /\ esp - 9 = n + 2 /\ esp - 10 = n + 1
    BY <1>1
  <2> QED  BY <1>1, <2>1
<1>4. \A r \in Registers : Field(esp, r) = f.cpu.regs[r]
  BY FieldsArePushed DEF esp
<1>5. Popped(esp) = f.cpu
  <2>1. [r \in Registers |-> Field(esp, r)] = f.cpu.regs
    BY <1>2, <1>4 DEF Cpu
  <2> QED  BY <1>2, <1>3, <2>1 DEF Popped, Cpu
<1>6. SubSeq(stack, 1, esp - 11) = f.below
  <2>1. esp - 11 = n
    BY <1>1
  <2>2. \A i \in 1 .. n : stack[i] \in Words
    BY <1>1, <1>2 DEF n
  <2>3. /\ SubSeq(stack, 1, n) \in Seq(Words)
        /\ Len(SubSeq(stack, 1, n)) = IF 1 <= n THEN n - 1 + 1 ELSE 0
        /\ \A i \in 1 .. n - 1 + 1 : SubSeq(stack, 1, n)[i] = stack[1 + i - 1]
    BY <1>1, <2>2, SubSeqProperties
  <2>4. Len(SubSeq(stack, 1, n)) = n
        /\ \A i \in 1 .. n : SubSeq(stack, 1, n)[i] = f.below[i]
    BY <1>1, <2>3
  <2>5. SubSeq(stack, 1, n) = f.below
    BY <1>2, <2>3, <2>4, SeqEqual DEF n
  <2> QED  BY <2>1, <2>5
<1> QED  BY <1>5, <1>6 DEF esp

-----------------------------------------------------------------------------
(* How the frames of the handlers in progress come and go. *)

LEMMA ReplaceFacts ==
  ASSUME frames \in Seq(Frame), frames # << >>, NEW g \in Frame
  PROVE  /\ Len(frames) \in Nat \ {0} /\ Top = frames[Len(frames)] /\ Top \in Frame
         /\ Replace(g) \in Seq(Frame) /\ Replace(g) # << >>
         /\ Len(Replace(g)) = Len(frames) /\ Last(Replace(g)) = g
         /\ \A i \in 1 .. Len(frames) :
              Replace(g)[i] = IF i = Len(frames) THEN g ELSE frames[i]
<1> DEFINE n == Len(frames)
           front == SubSeq(frames, 1, n - 1)
<1> HIDE DEF Frame
<1>1. n \in Nat \ {0} /\ \A i \in 1 .. n : frames[i] \in Frame
  OBVIOUS
<1>2. Top = frames[n] /\ Top \in Frame
  BY <1>1 DEF Top, Last
<1> HIDE DEF n
<1>3. /\ front \in Seq(Frame) /\ Len(front) = n - 1
      /\ \A i \in 1 .. n - 1 : front[i] = frames[i]
  <2>1. \A i \in 1 .. n - 1 : frames[i] \in Frame
    BY <1>1
  <2>2. /\ front \in Seq(Frame)
        /\ Len(front) = IF 1 <= n - 1 THEN n - 1 - 1 + 1 ELSE 0
        /\ \A i \in 1 .. n - 1 - 1 + 1 : front[i] = frames[1 + i - 1]
    BY <1>1, <2>1, SubSeqProperties
  <2> QED  BY <1>1, <2>2
<1>4. <<g>> \in Seq(Frame) /\ Len(<<g>>) = 1 /\ <<g>>[1] = g
  OBVIOUS
<1> HIDE DEF front
<1>5. /\ front \o <<g>> \in Seq(Frame) /\ Len(front \o <<g>>) = Len(front) + Len(<<g>>)
      /\ \A i \in 1 .. Len(front) + Len(<<g>>) : (front \o <<g>>)[i] =
           IF i <= Len(front) THEN front[i] ELSE <<g>>[i - Len(front)]
  BY <1>3, <1>4, ConcatProperties
<1>6. Replace(g) = front \o <<g>>
  BY DEF Replace, Front, front, n
<1>7. Replace(g) \in Seq(Frame) /\ Len(Replace(g)) = n
  BY <1>1, <1>3, <1>4, <1>5, <1>6
<1>8. ASSUME NEW i \in 1 .. n
      PROVE  Replace(g)[i] = IF i = n THEN g ELSE frames[i]
  <2>1. Replace(g)[i] = IF i <= n - 1 THEN front[i] ELSE <<g>>[i - (n - 1)]
    BY <1>1, <1>3, <1>4, <1>5, <1>6
  <2>2. CASE i = n
    <3>1. ~ (i <= n - 1) /\ i - (n - 1) = 1
      BY <1>1, <2>2
    <3> QED  BY <1>4, <2>1, <2>2, <3>1
  <2>3. CASE i # n
    <3>1. i <= n - 1 /\ i \in 1 .. n - 1
      BY <1>1, <2>3
    <3> QED  BY <1>3, <2>1, <2>3, <3>1
  <2> QED  BY <2>2, <2>3
<1>9. Last(Replace(g)) = g /\ Replace(g) # << >>
  <2>1. n \in 1 .. n
    BY <1>1
  <2>2. Last(Replace(g)) = g
    BY <1>7, <1>8, <2>1 DEF Last
  <2>3. Len(Replace(g)) # 0
    BY <1>1, <1>7
  <2> QED  BY <2>2, <2>3
<1> QED  BY <1>1, <1>2, <1>7, <1>8, <1>9 DEF n

(* A step of the handler on top; Schedule may have written over the stack. *)
LEMMA TopMovesOn ==
  ASSUME StackInv, OnTrack, frames # << >>, NEW g \in Frame, FrameSound(g),
         g.below = Top.below, g.cpu = Top.cpu, g.vector = Top.vector,
         frames' = Replace(g), cpu' = cpu, stack' \in Seq(Words),
         Len(stack') = Len(stack), ~ g.torn => stack' = Layout(Top)
  PROVE  StackInv'
<1> DEFINE n == Len(frames)
<1>1. frames \in Seq(Frame) /\ cpu \in Cpu
  BY DEF StackInv
<1>2. Top = frames[n] /\ Top \in Frame /\ n \in Nat \ {0}
  <2> HIDE DEF Frame
  <2> QED  BY <1>1 DEF Top, Last
<1>4. Layout(g) = Layout(Top)
  BY DEF Layout
<1>7. /\ frames' \in Seq(Frame) /\ frames' # << >> /\ Len(frames') = n /\ Last(frames') = g
      /\ \A i \in 1 .. n : frames'[i] = IF i = n THEN g ELSE frames[i]
  BY <1>1, ReplaceFacts
<1> HIDE DEF n
<1>8. \A i \in 1 .. n : FrameSound(frames'[i])
  BY <1>7 DEF StackInv, FramesNest, n
<1>9. ASSUME NEW i \in 1 .. n, i < n
      PROVE  frames'[i].step = "finish" /\ frames'[i + 1].below = Layout(frames'[i])
  <2>1. frames[i].step = "finish" /\ frames[i + 1].below = Layout(frames[i])
    BY <1>9 DEF StackInv, FramesNest, n
  <2>2. i + 1 \in 1 .. n /\ i # n
    BY <1>2, <1>9
  <2>3. frames'[i] = frames[i]
    BY <1>7, <2>2
  <2>4. frames'[i + 1].below = frames[i + 1].below
    BY <1>2, <1>7, <2>2
  <2> QED  BY <2>1, <2>3, <2>4
<1>10. ASSUME NEW i \in 1 .. n, i # 1
       PROVE  frames'[i].vector \in Exceptions /\ frames'[i].cpu.eflags[2] # "on"
  <2>1. frames[i].vector \in Exceptions /\ frames[i].cpu.eflags[2] # "on"
    BY <1>10 DEF StackInv, FramesNest, n
  <2> QED  BY <1>2, <1>7, <2>1
<1>11. /\ ~ g.torn => stack' = Layout(Last(frames'))
       /\ Len(stack') = Len(Layout(Last(frames'))) /\ ~ InterruptsOn'
  <2>1. Len(stack) = Len(Layout(Top)) /\ ~ InterruptsOn
    BY DEF StackInv, FramesNest, Top
  <2> QED  BY <1>4, <1>7, <2>1 DEF InterruptsOn
<1>12. FramesNest'
  BY <1>7, <1>8, <1>9, <1>10, <1>11 DEF FramesNest
<1> QED  BY <1>1, <1>7, <1>12 DEF StackInv

(* The frame on top as long as it is not being taken down *)
LEMMA TopBeforeReturn ==
  ASSUME StackInv, OnTrack, frames # << >>, Top.step # "return"
  PROVE  /\ Top \in Frame /\ FrameSound(Top) /\ Top.torn = FALSE
         /\ Top.esp = Len(Layout(Top))
         /\ stack = Layout(Top) /\ stack \in Seq(Words)
<1>1. frames \in Seq(Frame) /\ stack \in Seq(Words) /\ FramesNest
  BY DEF StackInv
<1>2. Top \in Frame /\ Top = Last(frames) /\ FrameSound(Top)
  <2> HIDE DEF Frame
  <2> QED  BY <1>1 DEF Top, Last, FramesNest
<1>3. Top.torn = FALSE
  BY <1>2 DEF FrameSound, Frame
<1> QED  BY <1>1, <1>2, <1>3 DEF FramesNest, FrameSound

LEMMA FrameSteps ==
  ASSUME NEW f \in Frame, FrameSound(f), f.step # "return", NEW s \in {"finish", "return"}
  PROVE  LET g == [f EXCEPT !.step = s]
         IN  /\ g \in Frame /\ FrameSound(g) /\ g.step = s /\ g.torn = FALSE
             /\ g.below = f.below /\ g.cpu = f.cpu /\ g.vector = f.vector
             /\ g.number = f.number /\ g.esp = f.esp
<1> DEFINE g == [f EXCEPT !.step = s]
<1>1. /\ g \in Frame /\ g.step = s /\ g.torn = f.torn /\ g.below = f.below
      /\ g.cpu = f.cpu /\ g.vector = f.vector /\ g.number = f.number /\ g.esp = f.esp
  BY DEF Frame
<1>2. f.torn = FALSE /\ f.esp = Len(Layout(f)) /\ f.number = Reported(f.vector)
      /\ f.cpu.eip[2] = "eip" /\ f.cpu.cs[2] = "cs"
  BY DEF FrameSound, Frame
<1> HIDE DEF g
<1>3. Layout(g) = Layout(f)
  BY <1>1 DEF Layout
<1>4. FrameSound(g)
  BY <1>1, <1>2, <1>3 DEF FrameSound
<1> QED  BY <1>1, <1>2, <1>4 DEF g

LEMMA TopKeepsStack ==
  ASSUME StackInv, OnTrack, frames # << >>, NEW s \in {"finish", "return"},
         Top.step # "return",
         frames' = Replace([Top EXCEPT !.step = s]),
         UNCHANGED <<cpu, stack>>
  PROVE  StackInv'
<1>1. Top \in Frame /\ FrameSound(Top) /\ stack = Layout(Top) /\ stack \in Seq(Words)
  BY TopBeforeReturn
<1> DEFINE g == [Top EXCEPT !.step = s]
<1>2. /\ g \in Frame /\ FrameSound(g) /\ g.below = Top.below /\ g.cpu = Top.cpu
      /\ g.vector = Top.vector
  BY <1>1, FrameSteps
<1> HIDE DEF g
<1>3. frames' = Replace(g)
  BY DEF g
<1> QED  BY <1>1, <1>2, <1>3, TopMovesOn

(* What Schedule makes of the frame, and of the stack. *)
LEMMA ScheduleKeepsFrame ==
  ASSUME NEW f \in Frame, FrameSound(f), f.step = "return", f.torn = FALSE,
         f.esp = Len(Layout(f)), f.vector = HardwareInterruptOffset,
         stack \in Seq(Words), stack = Layout(f), Schedule(f)
  PROVE  \E g \in Frame :
           /\ FrameSound(g) /\ g.step = "return" /\ g.below = f.below /\ g.cpu = f.cpu
           /\ g.vector = f.vector /\ g.number = f.number
           /\ frames' = Replace(g)
           /\ \/ cpu'.eip[2] = "garbage"
              \/ /\ cpu' = cpu /\ stack' \in Seq(Words) /\ Len(stack') = Len(stack)
                 /\ ~ g.torn => stack' = stack
<1>1. ASSUME NEW e \in {f.esp, Garbage}
      PROVE  LET g == [f EXCEPT !.esp = e]
             IN  /\ g \in Frame /\ FrameSound(g) /\ g.step = "return" /\ g.below = f.below
                 /\ g.cpu = f.cpu /\ g.vector = f.vector /\ g.number = f.number
                 /\ g.torn = FALSE
  <2> DEFINE g == [f EXCEPT !.esp = e]
  <2>1. e \in Int
    BY DEF Frame, Garbage
  <2>2. /\ g \in Frame /\ g.step = "return" /\ g.below = f.below /\ g.esp = e
        /\ g.cpu = f.cpu /\ g.vector = f.vector /\ g.number = f.number /\ g.torn = FALSE
    BY <2>1 DEF Frame
  <2> HIDE DEF g
  <2>3. Layout(g) = Layout(f)
    BY <2>2 DEF Layout
  <2>4. FrameSound(g)
    BY <2>2, <2>3 DEF FrameSound
  <2> QED  BY <2>2, <2>4 DEF g
<1>2. LET g == [f EXCEPT !.torn = TRUE]
      IN  /\ g \in Frame /\ FrameSound(g) /\ g.step = "return" /\ g.below = f.below
          /\ g.cpu = f.cpu /\ g.vector = f.vector /\ g.number = f.number /\ g.torn
  <2> DEFINE g == [f EXCEPT !.torn = TRUE]
  <2>2. /\ g \in Frame /\ g.step = "return" /\ g.below = f.below /\ g.esp = f.esp
        /\ g.cpu = f.cpu /\ g.vector = f.vector /\ g.number = f.number /\ g.torn = TRUE
    BY DEF Frame
  <2> HIDE DEF g
  <2>3. Layout(g) = Layout(f)
    BY <2>2 DEF Layout
  <2>4. FrameSound(g)
    BY <2>2, <2>3 DEF FrameSound
  <2> QED  BY <2>2, <2>4 DEF g
<1>3. CASE NothingHit /\ frames' = Replace(f)
  BY <1>3 DEF NothingHit
<1>4. ASSUME NEW e \in {f.esp, Garbage}, NothingHit,
             frames' = Replace([f EXCEPT !.esp = e])
      PROVE  \E g \in Frame :
               /\ FrameSound(g) /\ g.step = "return" /\ g.below = f.below /\ g.cpu = f.cpu
               /\ g.vector = f.vector /\ g.number = f.number
               /\ frames' = Replace(g)
               /\ cpu' = cpu /\ stack' \in Seq(Words) /\ Len(stack') = Len(stack)
               /\ ~ g.torn => stack' = stack
  <2> DEFINE g == [f EXCEPT !.esp = e]
  <2>1. /\ g \in Frame /\ FrameSound(g) /\ g.step = "return" /\ g.below = f.below
        /\ g.cpu = f.cpu /\ g.vector = f.vector /\ g.number = f.number
    BY <1>1
  <2>2. frames' = Replace(g) /\ cpu' = cpu /\ stack' = stack
    BY <1>4 DEF NothingHit
  <2> HIDE DEF g
  <2> QED  BY <2>1, <2>2
<1>5. CASE StackHit /\ frames' = Replace([f EXCEPT !.torn = TRUE])
  <2> DEFINE g == [f EXCEPT !.torn = TRUE]
  <2>1. /\ g \in Frame /\ FrameSound(g) /\ g.step = "return" /\ g.below = f.below
        /\ g.cpu = f.cpu /\ g.vector = f.vector /\ g.number = f.number /\ g.torn
    BY <1>2
  <2>2. frames' = Replace(g) /\ cpu' = cpu
    BY <1>5 DEF StackHit
  <2>3. PICK i \in DOMAIN stack, w \in {"esp", "on"} : stack' = [stack EXCEPT ![i] = <<0, w>>]
    BY <1>5 DEF StackHit
  <2>4. <<0, w>> \in Words
    BY <2>3 DEF Words, What
  <2> HIDE DEF g, Words
  <2>5. stack' \in Seq(Words) /\ Len(stack') = Len(stack)
    BY <2>3, <2>4
  <2> QED  BY <2>1, <2>2, <2>5
<1>6. CASE KernelHit /\ frames' = Replace(f)
  <2>1. cpu'.eip[2] = "garbage"
    BY <1>6 DEF KernelHit
  <2> QED  BY <1>6, <2>1
<1> QED  BY <1>3, <1>4, <1>5, <1>6 DEF Schedule

(* A handler comes to its end. *)
LEMMA FinishMovesOn ==
  ASSUME StackInv, Finish
  PROVE  /\ OnTrack /\ frames # << >> /\ Top.step = "finish" /\ Top \in Frame
         /\ \E g \in Frame :
              /\ FrameSound(g) /\ g.step = "return" /\ g.below = Top.below
              /\ g.cpu = Top.cpu /\ g.vector = Top.vector /\ g.number = Top.number
              /\ frames' = Replace(g)
              /\ \/ cpu'.eip[2] = "garbage"
                 \/ /\ cpu' = cpu /\ stack' \in Seq(Words) /\ Len(stack') = Len(stack)
                    /\ ~ g.torn => stack' = Layout(Top)
<1> DEFINE f == [Top EXCEPT !.step = "return"]
<1>1. /\ OnTrack /\ frames # << >> /\ Top.step = "finish"
      /\ IF Top.number = HardwareInterruptOffset
         THEN Schedule(f) ELSE NothingHit /\ frames' = Replace(f)
  BY DEF Finish, Runs
<1>2. /\ Top \in Frame /\ FrameSound(Top) /\ Top.esp = Len(Layout(Top))
      /\ stack = Layout(Top) /\ stack \in Seq(Words)
  BY <1>1, TopBeforeReturn
<1>3. /\ f \in Frame /\ FrameSound(f) /\ f.step = "return" /\ f.torn = FALSE
      /\ f.below = Top.below /\ f.cpu = Top.cpu /\ f.vector = Top.vector
      /\ f.number = Top.number /\ f.esp = Top.esp
  BY <1>1, <1>2, FrameSteps
<1> HIDE DEF f
<1>4. Layout(f) = Layout(Top)
  BY <1>3 DEF Layout
<1>5. CASE Top.number = HardwareInterruptOffset
  <2>1. Top.number = Reported(Top.vector) /\ Top.vector \in Vectors
    BY <1>2 DEF FrameSound, Frame
  <2>2. f.vector = HardwareInterruptOffset
    <3>1. Top.vector \in Exceptions => Reported(Top.vector) < 20
      BY VectorNumbers DEF Reported
    <3>2. Reported(SystemCallVector) = 160
      BY DEF Reported, SystemCallVector, IRQ_BASE
    <3>3. ASSUME NEW l \in Lines, Top.vector = HardwareInterruptOffset + l
          PROVE  Reported(Top.vector) = Top.vector
      BY <3>3, VectorNumbers
         DEF Reported, HardwareInterruptOffset, SystemCallVector, IRQ_BASE
    <3>4. Reported(Top.vector) = 32
      BY <1>5, <2>1 DEF HardwareInterruptOffset
    <3>5. Top.vector \notin Exceptions /\ Top.vector # SystemCallVector
      BY <3>1, <3>2, <3>4
    <3>6. Top.vector = 32
      BY <2>1, <3>3, <3>4, <3>5 DEF Vectors
    <3> QED  BY <1>3, <3>6 DEF HardwareInterruptOffset
  <2>3. Schedule(f)
    BY <1>1, <1>5
  <2>4. PICK g \in Frame :
           /\ FrameSound(g) /\ g.step = "return" /\ g.below = f.below /\ g.cpu = f.cpu
           /\ g.vector = f.vector /\ g.number = f.number
           /\ frames' = Replace(g)
           /\ \/ cpu'.eip[2] = "garbage"
              \/ /\ cpu' = cpu /\ stack' \in Seq(Words) /\ Len(stack') = Len(stack)
                 /\ ~ g.torn => stack' = stack
    BY <1>2, <1>3, <1>4, <2>2, <2>3, ScheduleKeepsFrame
  <2> QED  BY <1>1, <1>2, <1>3, <2>4
<1>6. CASE Top.number # HardwareInterruptOffset
  <2>1. cpu' = cpu /\ stack' = stack /\ frames' = Replace(f)
    BY <1>1, <1>6 DEF NothingHit
  <2> QED  BY <1>1, <1>2, <1>3, <2>1
<1> QED  BY <1>5, <1>6

LEMMA ContextIsCpu ==
  ASSUME NEW n \in Nat
  PROVE  /\ Context(n, "off") \in Cpu
         /\ Context(n, "off").eip[2] = "eip" /\ Context(n, "off").cs[2] = "cs"
         /\ Context(n, "off").eflags[2] = "off"
         /\ Context(n, "off").regs = [r \in Registers |-> <<n, r>>]
  BY DEF Context, Cpu, Words, What

(* A new frame on top of those that are there. *)
LEMMA EnterNests ==
  ASSUME StackInv, OnTrack, NEW vector \in Vectors, NEW regs \in [Registers -> Words],
         frames # << >> =>
           Top.step = "finish" /\ vector \in Exceptions /\ ~ InterruptsOn,
         Enter(vector, regs)
  PROVE  /\ StackInv' /\ frames' # << >>
         /\ \E f \in Frame : /\ frames' = Append(frames, f)
                             /\ f.vector = vector /\ f.number = Reported(vector)
                             /\ f.step = "call" /\ f.cpu = [cpu EXCEPT !.regs = regs]
<1> DEFINE n == Len(frames)
           f == [vector |-> vector, number |-> Reported(vector), step |-> "call",
                 torn |-> FALSE, esp |-> Len(Entered(vector, regs)),
                 cpu |-> [cpu EXCEPT !.regs = regs], below |-> stack]
<1>1. frames \in Seq(Frame) /\ cpu \in Cpu /\ stack \in Seq(Words) /\ FramesNest
  BY DEF StackInv
<1>2. n \in Nat
  <2> HIDE DEF Frame
  <2> QED  BY <1>1
<1>3. /\ [cpu EXCEPT !.regs = regs] \in Cpu
      /\ [cpu EXCEPT !.regs = regs].eip = cpu.eip
      /\ [cpu EXCEPT !.regs = regs].cs = cpu.cs
      /\ [cpu EXCEPT !.regs = regs].eflags = cpu.eflags
      /\ [cpu EXCEPT !.regs = regs].regs = regs
  BY <1>1 DEF Cpu
<1>4. Entered(vector, regs) = Layout(f)
  BY <1>3 DEF Entered, Layout, ErrorCode
<1>5. Reported(vector) \in Int
  BY VectorNumbers DEF Reported, SystemCallVector, IRQ_BASE, HardwareInterruptOffset
<1>6. f \in Frame
  <2> DEFINE c == [cpu EXCEPT !.regs = regs]
             none == FALSE
             rest == [vector |-> vector, number |-> Reported(vector), step |-> "call",
                      torn |-> none, esp |-> 0, cpu |-> c, below |-> stack]
  <2>1. rest \in Frame
    <3>1. c \in Cpu /\ none \in BOOLEAN
      BY <1>3
    <3> HIDE DEF c, none
    <3> QED  BY <1>1, <1>5, <3>1 DEF Frame
  <2>2. Layout(rest) = Layout(f)
    BY DEF Layout
  <2>3. Len(Layout(f)) \in Nat
    <3>1. Layout(rest) \in Seq(Words)
      BY <2>1, LayoutFacts
    <3> HIDE DEF f, rest
    <3> QED  BY <2>2, <3>1
  <2>4. f.esp \in Int
    BY <1>4, <2>3
  <2> QED  BY <1>1, <1>3, <1>5, <2>4 DEF Frame
<1>7. FrameSound(f) /\ f.torn = FALSE
  BY <1>3, <1>4 DEF FrameSound, OnTrack
<1>8. /\ stack' = Layout(f) /\ frames' = Append(frames, f)
      /\ cpu' = Context(n + 1, "off")
  BY <1>4 DEF Enter
<1>9. f.below = stack /\ f.vector = vector /\ f.number = Reported(vector)
      /\ f.step = "call" /\ f.cpu = [cpu EXCEPT !.regs = regs]
  OBVIOUS
<1> HIDE DEF f
<1>10. /\ frames' \in Seq(Frame) /\ frames' # << >> /\ Len(frames') = n + 1
       /\ \A i \in 1 .. n : frames'[i] = frames[i]
       /\ frames'[n + 1] = f
  BY <1>1, <1>6, <1>8, AppendProperties
<1>11. Last(frames') = f
  BY <1>10 DEF Last
<1>12. n + 1 \in Nat
  BY <1>2
<1>13. /\ cpu' \in Cpu /\ ~ InterruptsOn'
  BY <1>8, <1>12, ContextIsCpu DEF InterruptsOn
<1>14. stack' \in Seq(Words)
  BY <1>6, <1>8, LayoutFacts
<1>15. \A i \in 1 .. n + 1 : i \in 1 .. n \/ i = n + 1
  BY <1>2
<1>16. \A i \in 1 .. n + 1 : FrameSound(frames'[i])
  BY <1>1, <1>7, <1>10, <1>15 DEF FramesNest
<1>17. ASSUME NEW i \in 1 .. n + 1, i < n + 1
       PROVE  frames'[i].step = "finish" /\ frames'[i + 1].below = Layout(frames'[i])
  <2>1. i \in 1 .. n
    BY <1>2, <1>17
  <2>2. frames'[i] = frames[i]
    BY <1>10, <2>1
  <2>3. CASE i = n
    <3>1. frames # << >> /\ Top = frames[n]
      BY <2>1, <2>3 DEF Top, Last
    <3>2. stack = Layout(Top)
      BY <3>1, TopBeforeReturn
    <3> QED  BY <1>9, <1>10, <2>2, <2>3, <3>1, <3>2
  <2>4. CASE i # n
    <3>1. i < n /\ i + 1 \in 1 .. n
      BY <1>2, <2>1, <2>4
    <3>2. frames[i].step = "finish" /\ frames[i + 1].below = Layout(frames[i])
      BY <1>1, <2>1, <3>1 DEF FramesNest
    <3>3. frames'[i + 1] = frames[i + 1]
      BY <1>10, <3>1
    <3> QED  BY <2>2, <3>2, <3>3
  <2> QED  BY <2>3, <2>4
<1>18. ASSUME NEW i \in 1 .. n + 1, i # 1
       PROVE  frames'[i].vector \in Exceptions /\ frames'[i].cpu.eflags[2] # "on"
  <2>1. CASE i \in 1 .. n
    <3>1. frames[i].vector \in Exceptions /\ frames[i].cpu.eflags[2] # "on"
      BY <1>1, <1>18, <2>1 DEF FramesNest
    <3> QED  BY <1>10, <2>1, <3>1
  <2>2. CASE i = n + 1
    <3>1. n # 0
      BY <1>18, <2>2
    <3>2. frames # << >>
      BY <3>1
    <3>3. vector \in Exceptions /\ cpu.eflags[2] # "on"
      BY <3>2 DEF InterruptsOn
    <3> QED  BY <1>3, <1>9, <1>10, <2>2, <3>3
  <2> QED  BY <1>15, <2>1, <2>2
<1>19. FramesNest'
  BY <1>7, <1>8, <1>10, <1>11, <1>13, <1>16, <1>17, <1>18 DEF FramesNest
<1> QED  BY <1>6, <1>8, <1>9, <1>10, <1>13, <1>14, <1>19 DEF StackInv

(* The frame on top goes: an undoable one takes the machine off its track, or
   leaves the main loop with what was written over its words. *)
LEMMA ReturnUnnests ==
  ASSUME StackInv, Return
  PROVE  /\ StackInv'
         /\ ~ Undoable(Top) => cpu' = Top.cpu /\ stack' = Top.below
<1> DEFINE n == Len(frames)
           below == Len(Top.below)
<1>1. OnTrack /\ frames # << >> /\ frames' = Front(frames)
  BY DEF Return, Runs
<1>2. frames \in Seq(Frame) /\ cpu \in Cpu /\ stack \in Seq(Words) /\ FramesNest
  BY <1>1 DEF StackInv
<1>3. n \in Nat \ {0} /\ Top = frames[n] /\ Top \in Frame
  <2> HIDE DEF Frame
  <2> QED  BY <1>1, <1>2 DEF Top, Last
<1>4. /\ ~ Top.torn => stack = Layout(Top)
      /\ Len(stack) = Len(Layout(Top)) /\ ~ InterruptsOn
  BY <1>1, <1>2 DEF FramesNest, Top
<1>5. FrameSound(Top)
  BY <1>2, <1>3 DEF FramesNest
<1>6. /\ below \in Nat /\ Spare(Top.vector) \in {0, 1}
      /\ Layout(Top)[below + 1] = Top.cpu.eflags /\ Layout(Top)[below + 2] = Top.cpu.cs
      /\ Len(Layout(Top)) = below + 10 + Spare(Top.vector)
  BY <1>3, LayoutFacts
<1>7. Top.vector \in Int /\ Top.cpu \in Cpu /\ Top.below \in Seq(Words)
  BY <1>3, VectorNumbers DEF Frame
<1> HIDE DEF n, below
<1>11. Spare(Top.vector) = IF Top.vector < 20 /\ Top.vector \notin HasErrorCode THEN 0 ELSE 1
  BY <1>7, SpareWords
<1>12. Undoable(Top) <=> Spare(Top.vector) = 0 \/ Top.esp = Garbage \/ Top.torn
  BY <1>11 DEF Undoable
<1>8. CASE Top.esp = Garbage
  <2>1. cpu' = [cpu EXCEPT !.eip = <<0, "garbage">>]
    BY <1>8 DEF Return
  <2>2. cpu'.eip[2] = "garbage"
    BY <1>2, <2>1 DEF Cpu
  <2> QED  BY <1>8, <2>2 DEF StackInv, OnTrack, Undoable
<1>9. CASE Top.esp # Garbage /\ Spare(Top.vector) = 0
  <2>0. ~ Top.torn
    BY <1>5, <1>9, <1>11 DEF FrameSound, HardwareInterruptOffset
  <2>1. Top.esp = below + 10
    BY <1>5, <1>6, <1>9 DEF FrameSound
  <2>2. cpu' = Popped(Top.esp)
    BY <1>9 DEF Return
  <2>3. Top.esp - 8 = below + 2
    BY <1>6, <2>1
  <2>4. cpu'.eip = Top.cpu.cs
    BY <1>4, <1>6, <2>0, <2>2, <2>3 DEF Popped
  <2>5. cpu'.eip[2] = "cs"
    BY <1>5, <2>4 DEF FrameSound
  <2>6. Undoable(Top)
    BY <1>9, <1>12
  <2> QED  BY <2>5, <2>6 DEF StackInv, OnTrack
<1>13. CASE Top.torn
  <2>1. Top.esp = Len(stack) /\ Top.vector = HardwareInterruptOffset
    BY <1>4, <1>5, <1>13 DEF FrameSound
  <2>2. Spare(Top.vector) = 1 /\ Top.vector \notin Exceptions
    BY <1>11, <2>1, VectorNumbers DEF HardwareInterruptOffset
  <2>3. n = 1
    <3>1. n \in 1 .. n
      BY <1>3
    <3> QED  BY <1>2, <1>3, <2>2, <3>1 DEF FramesNest, n
  <2>4. Len(stack) = below + 11 /\ Top.esp # Garbage
    BY <1>4, <1>6, <2>1, <2>2 DEF Garbage
  <2>5. cpu' = Popped(Len(stack)) /\ stack' = SubSeq(stack, 1, Len(stack) - 11)
    BY <2>1, <2>4 DEF Return
  <2>6. cpu' \in Cpu
    <3>1. \A i \in 1 .. Len(stack) : stack[i] \in Words
      BY <1>2
    <3>2. ASSUME NEW r \in Registers PROVE Field(Len(stack), r) \in Words
      BY <1>6, <2>4, <3>1, FieldIsWord
    <3>3. /\ stack[Len(stack) - 8] \in Words /\ stack[Len(stack) - 9] \in Words
          /\ stack[Len(stack) - 10] \in Words
      <4>1. /\ Len(stack) - 8 \in 1 .. Len(stack) /\ Len(stack) - 9 \in 1 .. Len(stack)
            /\ Len(stack) - 10 \in 1 .. Len(stack)
        BY <1>6, <2>4
      <4> QED  BY <3>1, <4>1
    <3> HIDE DEF Words
    <3> QED  BY <2>5, <3>2, <3>3 DEF Popped, Cpu
  <2>7. stack' \in Seq(Words)
    <3>1. Len(stack) - 11 = below
      BY <1>6, <2>4
    <3>2. \A i \in 1 .. below : stack[i] \in Words
      BY <1>2, <1>6, <2>4
    <3> HIDE DEF Words
    <3> QED  BY <1>2, <1>6, <2>5, <3>1, <3>2, SubSeqProperties
  <2>8. frames' = << >>
    BY <1>1, <2>3 DEF Front, n
  <2>9. FramesNest' /\ frames' \in Seq(Frame)
    BY <2>8, EmptySeq DEF FramesNest
  <2> QED  BY <1>12, <1>13, <2>6, <2>7, <2>9 DEF StackInv
<1>10. CASE Top.esp # Garbage /\ Spare(Top.vector) = 1 /\ ~ Top.torn
  <2>1. Top.esp = Len(Layout(Top))
    BY <1>5, <1>10 DEF FrameSound
  <2>2. cpu' = Popped(Top.esp) /\ stack' = SubSeq(stack, 1, Top.esp - 11)
    BY <1>10 DEF Return
  <2>3. cpu' = Top.cpu /\ stack' = Top.below
    BY <1>3, <1>4, <1>10, <2>1, <2>2, PopsWhatWasPushed
  <2>4. ~ Undoable(Top)
    BY <1>10, <1>12
  <2>5. /\ frames' \in Seq(Frame) /\ Len(frames') = n - 1
        /\ \A i \in 1 .. n - 1 : frames'[i] = frames[i]
    <3>1. \A i \in 1 .. n - 1 : frames[i] \in Frame
      <4> HIDE DEF Frame
      <4> QED  BY <1>2, <1>3 DEF n
    <3>2. frames' = SubSeq(frames, 1, n - 1)
      BY <1>1 DEF Front, n
    <3>3. /\ SubSeq(frames, 1, n - 1) \in Seq(Frame)
          /\ Len(SubSeq(frames, 1, n - 1)) = IF 1 <= n - 1 THEN n - 1 - 1 + 1 ELSE 0
          /\ \A i \in 1 .. n - 1 - 1 + 1 : SubSeq(frames, 1, n - 1)[i] = frames[1 + i - 1]
      BY <1>3, <3>1, SubSeqProperties
    <3> QED  BY <1>3, <3>2, <3>3
  <2>6. /\ \A i \in 1 .. n - 1 : i \in 1 .. n
        /\ \A i \in 1 .. n - 1 : i < n - 1 => i < n /\ i + 1 \in 1 .. n - 1
    BY <1>3
  <2>7. \A i \in 1 .. n - 1 : FrameSound(frames'[i])
    BY <1>2, <2>5, <2>6 DEF FramesNest, n
  <2>8. ASSUME NEW i \in 1 .. n - 1, i < n - 1
        PROVE  frames'[i].step = "finish" /\ frames'[i + 1].below = Layout(frames'[i])
    <3>1. frames[i].step = "finish" /\ frames[i + 1].below = Layout(frames[i])
      BY <1>2, <2>6, <2>8 DEF FramesNest, n
    <3>2. frames'[i] = frames[i] /\ frames'[i + 1] = frames[i + 1]
      BY <2>5, <2>6, <2>8
    <3> QED  BY <3>1, <3>2
  <2>9. ASSUME NEW i \in 1 .. n - 1, i # 1
        PROVE  frames'[i].vector \in Exceptions /\ frames'[i].cpu.eflags[2] # "on"
    BY <1>2, <2>5, <2>6, <2>9 DEF FramesNest, n
  <2>10. ASSUME frames' # << >>
         PROVE  stack' = Layout(Last(frames')) /\ ~ InterruptsOn'
    <3>1. Len(frames') # 0 /\ Len(frames') \in Nat
      <4> HIDE DEF Frame
      <4> QED  BY <2>5, <2>10
    <3>2. n - 1 \in 1 .. n - 1 /\ n - 1 \in 1 .. n /\ n - 1 < n /\ n \in 1 .. n /\ n # 1
          /\ n - 1 + 1 = n
      BY <1>3, <2>5, <3>1
    <3>3. Last(frames') = frames[n - 1]
      BY <2>5, <3>2 DEF Last
    <3>4. frames[n - 1 + 1].below = Layout(frames[n - 1])
      BY <1>2, <3>2 DEF FramesNest, n
    <3>5. Top.below = Layout(frames[n - 1])
      BY <1>3, <3>2, <3>4
    <3>6. frames[n].cpu.eflags[2] # "on"
      BY <1>2, <3>2 DEF FramesNest, n
    <3> QED  BY <1>3, <2>3, <3>3, <3>5, <3>6 DEF InterruptsOn
  <2>11. FramesNest'
    BY <2>5, <2>7, <2>8, <2>9, <2>10 DEF FramesNest
  <2> QED  BY <1>7, <2>3, <2>4, <2>5, <2>11 DEF StackInv
<1> QED  BY <1>6, <1>8, <1>9, <1>10, <1>13

LEMMA StackSteps ==
  ASSUME StackInv, [InterruptNext]_interruptVars
  PROVE  StackInv'
<1>1. CASE UNCHANGED <<cpu, stack, frames>>
  BY <1>1 DEF StackInv, FramesNest, OnTrack, InterruptsOn
<1>2. CASE Execute
  <2>1. frames = << >> /\ frames' = << >> /\ UNCHANGED stack /\ OnTrack
    BY <1>2 DEF Execute, InMain
  <2>2. cpu' = cpu \/ cpu' = [cpu EXCEPT !.eflags = <<0, "on">>]
                   \/ cpu' = [cpu EXCEPT !.eflags = <<0, "off">>]
    BY <1>2 DEF Execute
  <2>3. <<0, "on">> \in Words /\ <<0, "off">> \in Words
    BY DEF Words, What
  <2> HIDE DEF Words
  <2>4. cpu' \in Cpu
    BY <2>1, <2>2, <2>3 DEF StackInv, Cpu
  <2>5. FramesNest'
    BY <2>1 DEF FramesNest
  <2> QED  BY <2>1, <2>4, <2>5 DEF StackInv
<1>3. ASSUME NEW l \in Lines, TakeRequest(l) PROVE StackInv'
  <2>1. OnTrack /\ InterruptsOn /\ Enter(HardwareInterruptOffset + l, cpu.regs)
    BY <1>3 DEF TakeRequest
  <2>2. frames = << >> /\ cpu.regs \in [Registers -> Words]
    BY <2>1 DEF StackInv, FramesNest, Cpu
  <2>3. HardwareInterruptOffset + l \in Vectors
    BY DEF Vectors
  <2> QED  BY <2>1, <2>2, <2>3, EnterNests
<1>4. ASSUME NEW v \in Exceptions, Exception(v) PROVE StackInv'
  <2>1. OnTrack /\ Enter(v, cpu.regs) /\ (frames # << >> => Top.step = "finish")
    BY <1>4 DEF Exception, Top
  <2>2. cpu.regs \in [Registers -> Words] /\ v \in Vectors
        /\ (frames # << >> => ~ InterruptsOn)
    BY <2>1 DEF StackInv, FramesNest, Cpu, Vectors
  <2> QED  BY <2>1, <2>2, EnterNests
<1>5. ASSUME NEW call \in SysCalls, SystemCall(call) PROVE StackInv'
  <2> DEFINE regs == [cpu.regs EXCEPT !["eax"] = <<0, call.eax>>, !["ebx"] = <<0, call.ebx>>]
  <2>1. OnTrack /\ frames = << >> /\ Enter(SystemCallVector, regs)
    BY <1>5 DEF SystemCall, MainCalls, InMain
  <2>2. cpu.regs \in [Registers -> Words] /\ SystemCallVector \in Vectors
    BY <2>1 DEF StackInv, Cpu, Vectors
  <2>3. <<0, call.eax>> \in Words /\ <<0, call.ebx>> \in Words
    BY DEF Words, What
  <2>4. regs \in [Registers -> Words]
    <3> DEFINE half == [cpu.regs EXCEPT !["eax"] = <<0, call.eax>>]
    <3> HIDE DEF Words
    <3>1. half \in [Registers -> Words]
      BY <2>2, <2>3
    <3>2. regs = [half EXCEPT !["ebx"] = <<0, call.ebx>>]
      BY <2>2
    <3> HIDE DEF half
    <3> QED  BY <2>3, <3>1, <3>2
  <2> HIDE DEF regs
  <2> QED  BY <2>1, <2>2, <2>4, EnterNests
<1>6. CASE Bypass
  <2>1. OnTrack /\ frames # << >> /\ UNCHANGED <<cpu, stack>> /\ Top.step # "return"
        /\ frames' = Replace([Top EXCEPT !.step = "return"])
    BY <1>6 DEF Bypass, Runs
  <2> QED  BY <2>1, TopKeepsStack
<1>7. CASE Call
  <2>1. OnTrack /\ frames # << >> /\ UNCHANGED <<cpu, stack>> /\ Top.step # "return"
        /\ frames' = Replace([Top EXCEPT !.step = "finish"])
    BY <1>7 DEF Call, Runs
  <2> QED  BY <2>1, TopKeepsStack
<1>8. CASE Finish
  <2>1. OnTrack /\ frames # << >>
    BY <1>8, FinishMovesOn
  <2>2. PICK g \in Frame :
          /\ FrameSound(g) /\ g.below = Top.below /\ g.cpu = Top.cpu /\ g.vector = Top.vector
          /\ frames' = Replace(g)
          /\ \/ cpu'.eip[2] = "garbage"
             \/ /\ cpu' = cpu /\ stack' \in Seq(Words) /\ Len(stack') = Len(stack)
                /\ ~ g.torn => stack' = Layout(Top)
    BY <1>8, FinishMovesOn
  <2>3. CASE cpu'.eip[2] = "garbage"
    BY <2>3 DEF StackInv, OnTrack
  <2>4. CASE cpu'.eip[2] # "garbage"
    BY <2>1, <2>2, <2>4, TopMovesOn
  <2> QED  BY <2>3, <2>4
<1>9. CASE Return
  BY <1>9, ReturnUnnests
<1> QED
  BY <1>1, <1>2, <1>3, <1>4, <1>5, <1>6, <1>7, <1>8, <1>9
     DEF InterruptNext, MainStep, HandlerStep, ConstructHandler, DestroyHandler, Activate,
         Deactivate, Request, interruptVars

LEMMA StackInvariant == InterruptSpec => []StackInv
<1>1. InterruptInit => StackInv
  <2> SUFFICES ASSUME InterruptInit PROVE StackInv
    OBVIOUS
  <2>1. cpu = Context(0, "off") /\ stack = <<<<0, "local">>>> /\ frames = << >>
    BY DEF InterruptInit
  <2>2. <<0, "local">> \in Words
    BY DEF Words, What
  <2>3. cpu \in Cpu
    BY <2>1, ContextIsCpu
  <2>6. frames \in Seq(Frame)
    BY <2>1, EmptySeq
  <2> HIDE DEF Words
  <2>4. stack \in Seq(Words)
    BY <2>1, <2>2
  <2>5. FramesNest
    BY <2>1 DEF FramesNest
  <2> QED  BY <2>3, <2>4, <2>5, <2>6 DEF StackInv
<1> QED  BY <1>1, StackSteps, PTL DEF InterruptSpec

(* Code that was interrupted goes on with the instruction, the registers, the
   interrupt flag and the stack it had, whatever came in between and however
   deep, unless the stub pushed its frame without an error code, Schedule read
   an esp through a pointer to no task, or the store through that pointer fell
   into the stack; code whose own memory it fell into has run away. *)
THEOREM Resumes == InterruptSpec => ResumesAsInterrupted
<1>1. ASSUME StackInv, [InterruptNext]_interruptVars
      PROVE  [Return /\ ~ Undoable(Top) => cpu' = Top.cpu /\ stack' = Top.below]_interruptVars
  BY <1>1, ReturnUnnests
<1> QED  BY <1>1, StackInvariant, PTL DEF InterruptSpec, ResumesAsInterrupted

-----------------------------------------------------------------------------
(* What the handlers of the machine are told. *)

LEMMA ReportedNumbers ==
  /\ \A v \in Exceptions : Reported(v) = v /\ v \in 0 .. 19 /\ ~ IsLine(v)
  /\ \A l \in Lines : /\ Reported(HardwareInterruptOffset + l) = HardwareInterruptOffset + l
                      /\ IsLine(HardwareInterruptOffset + l)
                      /\ HardwareInterruptOffset + l # SystemCallVector
  /\ Reported(SystemCallVector) = 160 /\ ~ IsLine(160)
<1>1. ASSUME NEW v \in Exceptions
      PROVE  Reported(v) = v /\ v \in 0 .. 19 /\ ~ IsLine(v)
  BY VectorNumbers DEF Reported, IsLine, HardwareInterruptOffset
<1>2. ASSUME NEW l \in Lines
      PROVE  /\ Reported(HardwareInterruptOffset + l) = HardwareInterruptOffset + l
             /\ IsLine(HardwareInterruptOffset + l)
             /\ HardwareInterruptOffset + l # SystemCallVector
  BY VectorNumbers DEF Reported, IsLine, HardwareInterruptOffset, IRQ_BASE, SystemCallVector
<1>3. Reported(SystemCallVector) = 160 /\ ~ IsLine(160)
  BY DEF Reported, IsLine, HardwareInterruptOffset, IRQ_BASE, SystemCallVector
<1> QED  BY <1>1, <1>2, <1>3

LEMMA FrameNumbers ==
  ASSUME NEW f \in Frame, FrameSound(f)
  PROVE  /\ f.number = 160 <=> f.vector = SystemCallVector
         /\ f.vector \in Exceptions => ~ IsLine(f.number)
         /\ IsLine(f.number) => Line(f) \in Lines
<1>1. f.number = Reported(f.vector) /\ f.vector \in Vectors
  BY DEF FrameSound, Frame
<1>2. CASE f.vector \in Exceptions
  <2>1. f.number = f.vector /\ f.vector \in 0 .. 19 /\ ~ IsLine(f.number)
    BY <1>1, <1>2, ReportedNumbers
  <2> QED  BY <2>1 DEF SystemCallVector
<1>3. CASE f.vector \in {HardwareInterruptOffset + l : l \in Lines}
  <2>1. PICK l \in Lines : f.vector = HardwareInterruptOffset + l
    BY <1>3
  <2>2. f.number = HardwareInterruptOffset + l /\ l \in 0 .. 15
        /\ f.vector # SystemCallVector
    BY <1>1, <2>1, ReportedNumbers, VectorNumbers
  <2>3. Line(f) = l /\ f.number # 160 /\ f.vector \notin Exceptions
    <3>1. Line(f) = l /\ f.number # 160 /\ ~ (f.vector \in 0 .. 19)
      BY <2>1, <2>2 DEF Line, HardwareInterruptOffset
    <3> QED  BY <3>1, VectorNumbers
  <2> QED  BY <2>2, <2>3
<1>4. CASE f.vector = SystemCallVector
  BY <1>1, <1>4, ReportedNumbers, VectorNumbers DEF SystemCallVector
<1> QED  BY <1>1, <1>2, <1>3, <1>4 DEF Vectors

(* Where a step leaves the list of frames *)
LEMMA TopFacts ==
  ASSUME StackInv, OnTrack, frames # << >>
  PROVE  /\ Len(frames) \in Nat \ {0} /\ frames \in Seq(Frame)
         /\ Top = frames[Len(frames)] /\ Top = Last(frames) /\ Top \in Frame
         /\ FrameSound(Top) /\ (Top.step # "return" => stack = Layout(Top))
         /\ \A i \in 1 .. Len(frames) : frames[i] \in Frame /\ FrameSound(frames[i])
         /\ \A i \in 1 .. Len(frames) : i # 1 => frames[i].vector \in Exceptions
         /\ \A i \in 1 .. Len(frames) : i < Len(frames) => frames[i].step = "finish"
<1>1. Top.step # "return" => stack = Layout(Top)
  BY TopBeforeReturn
<1> HIDE DEF Frame
<1> QED  BY <1>1 DEF StackInv, FramesNest, Top, Last

LEMMA FrontFacts ==
  ASSUME StackInv, OnTrack, frames # << >>
  PROVE  /\ Front(frames) \in Seq(Frame) /\ Len(Front(frames)) = Len(frames) - 1
         /\ \A i \in 1 .. Len(frames) - 1 : Front(frames)[i] = frames[i]
<1> DEFINE n == Len(frames)
<1>1. n \in Nat \ {0} /\ \A i \in 1 .. n : frames[i] \in Frame
  BY TopFacts
<1> HIDE DEF n
<1>2. Front(frames) = SubSeq(frames, 1, n - 1)
  BY DEF Front, n
<1>3. \A i \in 1 .. n - 1 : frames[i] \in Frame
  BY <1>1
<1>4. /\ SubSeq(frames, 1, n - 1) \in Seq(Frame)
      /\ Len(SubSeq(frames, 1, n - 1)) = IF 1 <= n - 1 THEN n - 1 - 1 + 1 ELSE 0
      /\ \A i \in 1 .. n - 1 - 1 + 1 : SubSeq(frames, 1, n - 1)[i] = frames[1 + i - 1]
  BY <1>1, <1>3, SubSeqProperties
<1> DEFINE front == Front(frames)
<1> HIDE DEF front, Frame
<1>5. front \in Seq(Frame)
  BY <1>2, <1>4 DEF front
<1>6. Len(front) = n - 1
  BY <1>1, <1>2, <1>4 DEF front
<1>7. ASSUME NEW i \in 1 .. n - 1 PROVE front[i] = frames[i]
  BY <1>1, <1>2, <1>4 DEF front
<1> QED  BY <1>5, <1>6, <1>7 DEF n, front

-----------------------------------------------------------------------------
(* The system call. *)

LEMMA PrintSteps ==
  ASSUME StackInv, PrintInv, [InterruptNext]_interruptVars
  PROVE  PrintInv'
<1> DEFINE owed == frames # << >> /\ Owed(Last(frames))
<1>1. CASE UNCHANGED <<cpu, frames, asked, printed, active, table>>
  BY <1>1 DEF PrintInv, OnTrack, Owed
<1>2. CASE \/ \E h \in Handlers : ConstructHandler(h) \/ DestroyHandler(h)
           \/ Activate \/ Deactivate \/ Execute
  <2>1. frames = << >> /\ OnTrack /\ UNCHANGED <<frames, asked, printed>>
    BY <1>2 DEF ConstructHandler, DestroyHandler, Activate, Deactivate, Execute, MainCalls,
                InMain, callVars
  <2> QED  BY <2>1 DEF PrintInv
<1>3. ASSUME NEW l \in Lines, TakeRequest(l) PROVE PrintInv'
  <2>1. /\ OnTrack /\ InterruptsOn /\ Enter(HardwareInterruptOffset + l, cpu.regs)
        /\ UNCHANGED <<asked, printed>>
    BY <1>3 DEF TakeRequest, callVars
  <2>2. frames = << >> /\ cpu.regs \in [Registers -> Words]
    BY <2>1 DEF StackInv, FramesNest, Cpu
  <2>3. HardwareInterruptOffset + l \in Vectors
    BY DEF Vectors
  <2>4. PICK f \in Frame : frames' = Append(frames, f)
                           /\ f.vector = HardwareInterruptOffset + l
    BY <2>1, <2>2, <2>3, EnterNests
  <2>5. frames' = <<f>>
    BY <2>2, <2>4
  <2>6. Last(frames') = f
    BY <2>5 DEF Last
  <2>7. f.vector # SystemCallVector
    BY <2>4, ReportedNumbers
  <2>8. asked = printed
    BY <2>1, <2>2 DEF PrintInv
  <2> QED  BY <2>1, <2>6, <2>7, <2>8 DEF PrintInv, Owed
<1>4. ASSUME NEW v \in Exceptions, Exception(v) PROVE PrintInv'
  <2>1. /\ OnTrack /\ Enter(v, cpu.regs) /\ (frames # << >> => Top.step = "finish")
        /\ UNCHANGED <<asked, printed>>
    BY <1>4 DEF Exception, Top, callVars
  <2>2. cpu.regs \in [Registers -> Words] /\ v \in Vectors
        /\ (frames # << >> => ~ InterruptsOn)
    BY <2>1 DEF StackInv, FramesNest, Cpu, Vectors
  <2>4. PICK f \in Frame : frames' = Append(frames, f) /\ f.vector = v
    BY <2>1, <2>2, EnterNests
  <2>5. Last(frames') = f
    <3> HIDE DEF Frame
    <3>1. frames \in Seq(Frame)
      BY <2>1 DEF StackInv
    <3> QED  BY <2>4, <3>1, AppendProperties DEF Last
  <2>6. f.vector # SystemCallVector
    BY <2>4, VectorNumbers DEF SystemCallVector
  <2>7. ~ owed
    BY <2>1 DEF Owed, Top
  <2>8. asked = printed
    BY <2>1, <2>7 DEF PrintInv
  <2> QED  BY <2>1, <2>5, <2>6, <2>8 DEF PrintInv, Owed
<1>5. ASSUME NEW call \in SysCalls, SystemCall(call) PROVE PrintInv'
  <2> DEFINE regs == [cpu.regs EXCEPT !["eax"] = <<0, call.eax>>, !["ebx"] = <<0, call.ebx>>]
             asks == /\ active /\ call.eax = "4"
                     /\ table[(SystemCallVector + HardwareInterruptOffset) % 256] # None
  <2>1. /\ OnTrack /\ frames = << >> /\ Enter(SystemCallVector, regs)
        /\ UNCHANGED <<active, table, printed>>
        /\ asked' = IF asks THEN Append(asked, <<0, call.ebx>>) ELSE asked
    BY <1>5 DEF SystemCall, MainCalls, InMain, handlerVars
  <2>2. cpu.regs \in [Registers -> Words] /\ SystemCallVector \in Vectors
    BY <2>1 DEF StackInv, Cpu, Vectors
  <2>3. <<0, call.eax>> \in Words /\ <<0, call.ebx>> \in Words
    BY DEF Words, What
  <2>4. regs \in [Registers -> Words] /\ regs["eax"] = <<0, call.eax>>
        /\ regs["ebx"] = <<0, call.ebx>>
    <3> DEFINE half == [cpu.regs EXCEPT !["eax"] = <<0, call.eax>>]
    <3> HIDE DEF Words
    <3>1. "eax" \in Registers /\ "ebx" \in Registers
      BY RegisterNames
    <3>2. half \in [Registers -> Words] /\ half["eax"] = <<0, call.eax>>
      BY <2>2, <2>3, <3>1
    <3>3. regs = [half EXCEPT !["ebx"] = <<0, call.ebx>>]
      BY <2>2
    <3> HIDE DEF half, regs
    <3> QED  BY <2>3, <3>1, <3>2, <3>3
  <2> HIDE DEF regs
  <2>5. PICK f \in Frame : /\ frames' = Append(frames, f) /\ f.vector = SystemCallVector
                           /\ f.step = "call" /\ f.cpu = [cpu EXCEPT !.regs = regs]
    BY <2>1, <2>2, <2>4, EnterNests
  <2>6. frames' = <<f>>
    BY <2>1, <2>5
  <2>7. frames' # << >> /\ Last(frames') = f
    BY <2>6 DEF Last
  <2>8. f.cpu.regs["eax"][2] = call.eax /\ f.cpu.regs["ebx"] = <<0, call.ebx>>
    <3>1. f.cpu.regs = regs
      BY <2>1, <2>5 DEF StackInv, Cpu
    <3> QED  BY <2>4, <3>1
  <2>9. Owed(Last(frames))' <=> asks
    BY <2>1, <2>5, <2>7, <2>8 DEF Owed
  <2>10. asked = printed
    BY <2>1 DEF PrintInv
  <2> HIDE DEF asks
  <2>11. asked' = IF Owed(Last(frames))' THEN Append(printed', Last(frames').cpu.regs["ebx"])
                  ELSE printed'
    BY <2>1, <2>7, <2>8, <2>9, <2>10
  <2> QED  BY <2>7, <2>11 DEF PrintInv
<1>6. ASSUME OnTrack, frames # << >>, NEW g, frames' = Replace(g), g \in Frame,
             g.step \in {"finish", "return"}
      PROVE  ~ Owed(Last(frames))'
  <2>1. Last(frames') = g
    BY <1>6, ReplaceFacts DEF StackInv
  <2>2. g.step # "call"
    BY <1>6
  <2> QED  BY <2>1, <2>2 DEF Owed
<1>7. ASSUME OnTrack, frames # << >>
      PROVE  /\ Top \in Frame /\ Top = Last(frames)
             /\ [Top EXCEPT !.step = "return"] \in Frame
             /\ [Top EXCEPT !.step = "return"].step \in {"finish", "return"}
             /\ [Top EXCEPT !.step = "finish"] \in Frame
             /\ [Top EXCEPT !.step = "finish"].step \in {"finish", "return"}
  BY <1>7, TopFacts DEF Frame
<1>8. CASE Bypass
  <2>1. OnTrack /\ frames # << >> /\ ~ active /\ UNCHANGED <<asked, printed, cpu>>
        /\ frames' = Replace([Top EXCEPT !.step = "return"])
    BY <1>8 DEF Bypass, Runs, callVars
  <2>2. ~ owed
    BY <2>1 DEF Owed
  <2>3. ~ Owed(Last(frames))'
    BY <1>6, <1>7, <2>1
  <2> QED  BY <2>1, <2>2, <2>3 DEF PrintInv
<1>9. CASE Call
  <2>1. /\ OnTrack /\ frames # << >> /\ active /\ UNCHANGED <<asked, cpu>>
        /\ Top.step = "call"
        /\ frames' = Replace([Top EXCEPT !.step = "finish"])
        /\ printed' = IF table[Top.number] # None
                      THEN PrintedBy(Top.number, Top.esp) ELSE printed
    BY <1>9 DEF Call, Runs
  <2>2. ~ Owed(Last(frames))'
    BY <1>6, <1>7, <2>1
  <2>3. /\ Top.number = 160 <=> Top.vector = SystemCallVector
        /\ Top.esp = Len(Layout(Top))
        /\ stack = Layout(Top) /\ Top \in Frame
    BY <2>1, TopFacts, FrameNumbers DEF FrameSound
  <2>4. Field(Top.esp, "eax") = Top.cpu.regs["eax"]
        /\ Field(Top.esp, "ebx") = Top.cpu.regs["ebx"]
    BY <2>3, FieldsArePushed, RegisterNames
  <2>5. /\ (SystemCallVector + HardwareInterruptOffset) % 256 = 160
        /\ SystemCallVector + HardwareInterruptOffset = 160
    BY DEF SystemCallVector, HardwareInterruptOffset
  <2>6. Owed(Top) <=> /\ Top.number = 160 /\ Top.cpu.regs["eax"][2] = "4"
                      /\ table[Top.number] # None
    BY <2>1, <2>3, <2>5 DEF Owed
  <2>7. printed' = IF Owed(Top) THEN Append(printed, Top.cpu.regs["ebx"]) ELSE printed
    BY <2>1, <2>4, <2>5, <2>6 DEF PrintedBy
  <2>8. asked = IF Owed(Top) THEN Append(printed, Top.cpu.regs["ebx"]) ELSE printed
    BY <1>7, <2>1 DEF PrintInv
  <2>9. asked' = printed'
    BY <2>1, <2>7, <2>8
  <2> QED  BY <2>2, <2>9 DEF PrintInv
<1>10. CASE Finish
  <2>1. /\ OnTrack /\ frames # << >> /\ Top.step = "finish"
        /\ UNCHANGED <<asked, printed>>
    BY <1>10 DEF Finish, Runs, callVars
  <2>2. ~ owed
    BY <1>7, <2>1 DEF Owed
  <2>3. PICK g \in Frame : g.step = "return" /\ frames' = Replace(g)
    BY <1>10, FinishMovesOn
  <2>4. ~ Owed(Last(frames))'
    BY <1>6, <2>1, <2>3
  <2> QED  BY <2>1, <2>2, <2>4 DEF PrintInv
<1>11. CASE Return
  <2> SUFFICES ASSUME OnTrack' PROVE asked' = printed' /\ ~ owed'
    BY DEF PrintInv
  <2>1. /\ OnTrack /\ frames # << >> /\ Top.step = "return" /\ frames' = Front(frames)
        /\ UNCHANGED <<asked, printed>>
    BY <1>11 DEF Return, Runs, callVars
  <2>2. asked = printed
    BY <1>7, <2>1 DEF PrintInv, Owed
  <2>3. ASSUME frames' # << >> PROVE Last(frames').step = "finish"
    <3>1. /\ frames' \in Seq(Frame) /\ Len(frames') = Len(frames) - 1
          /\ \A i \in 1 .. Len(frames) - 1 : frames'[i] = frames[i]
          /\ Len(frames) \in Nat
      BY <2>1, FrontFacts, TopFacts
    <3> HIDE DEF Frame
    <3>2. Len(frames') # 0
      BY <2>3, <3>1
    <3>3. Len(frames) - 1 \in 1 .. Len(frames) - 1 /\ Len(frames) - 1 \in 1 .. Len(frames)
          /\ Len(frames) - 1 < Len(frames)
      BY <3>1, <3>2
    <3>4. Last(frames') = frames[Len(frames) - 1]
      BY <3>1, <3>3 DEF Last
    <3> QED  BY <2>1, <3>3, <3>4, TopFacts
  <2> QED  BY <2>1, <2>2, <2>3 DEF Owed
<1> QED
  BY <1>1, <1>2, <1>3, <1>4, <1>5, <1>8, <1>9, <1>10, <1>11
     DEF InterruptNext, MainStep, HandlerStep, Request, interruptVars, handlerVars, callVars

(* Number and registers reach the system call as the caller set them, whatever
   interrupts it, and what the main loop asked for is printed, in order. *)
THEOREM SystemCallsPrint == InterruptSpec => []PrintedAsAsked
<1>1. InterruptInit => PrintInv
  BY DEF InterruptInit, PrintInv
<1>2. PrintInv => PrintedAsAsked
  BY DEF PrintInv, PrintedAsAsked, InMain
<1> QED  BY <1>1, <1>2, StackInvariant, PrintSteps, PTL DEF InterruptSpec

-----------------------------------------------------------------------------
(* The lines in service. *)

(* The acknowledgement takes the line out whose handler it is, and only that. *)
LEMMA Acknowledges ==
  ASSUME NEW S, S \subseteq Lines, NEW l \in Lines, \A s \in S : GoesBefore(l, s)
  PROVE  /\ Eoi(OfMaster({l} \cup S)) = OfMaster(S)
         /\ l < 8 => OfSlave({l} \cup S) = OfSlave(S)
         /\ l >= 8 => Eoi(OfSlave({l} \cup S)) = OfSlave(S)
<1>1. l \in (0 .. 15) \ {2} /\ \A s \in S : s \in (0 .. 15) \ {2}
  BY LinesAssumption
<1>2. CASE l < 8
  <2>1. OfSlave({l} \cup S) = OfSlave(S)
    BY <1>1, <1>2 DEF OfSlave
  <2>2. OfMaster({l} \cup S) = {l} \cup OfMaster(S)
    BY <1>1, <1>2, <2>1 DEF OfMaster
  <2>3. \A m \in OfMaster(S) : m \in Int /\ l < m
    BY <1>1, <1>2 DEF OfMaster, OfSlave, GoesBefore
  <2>4. Eoi({l} \cup OfMaster(S)) = OfMaster(S)
    <3> HIDE DEF OfMaster
    <3> QED  BY <1>1, <2>3 DEF Eoi
  <2> QED  BY <1>1, <1>2, <2>1, <2>2, <2>4
<1>3. CASE l >= 8
  <2>1. \A s \in S : s < 8 /\ 2 < s
    BY <1>1, <1>3 DEF GoesBefore
  <2>2. OfSlave(S) = {} /\ OfSlave({l} \cup S) = {l}
    <3>1. \A s \in S : ~ (s >= 8)
      BY <1>1, <2>1
    <3> QED  BY <1>3, <3>1 DEF OfSlave
  <2>3. OfMaster(S) = S
    <3>1. {k \in S : k < 8} = S
      BY <2>1
    <3>2. {2 : k \in {}} = {}
      OBVIOUS
    <3> QED  BY <2>2, <3>1, <3>2 DEF OfMaster
  <2>4. OfMaster({l} \cup S) = {2} \cup S
    <3>1. ~ (l < 8)
      BY <1>1, <1>3
    <3>2. {k \in {l} \cup S : k < 8} = S
      BY <2>1, <3>1
    <3>3. {2 : k \in {l}} = {2}
      OBVIOUS
    <3> QED  BY <2>2, <3>2, <3>3 DEF OfMaster
  <2>5. Eoi({2} \cup S) = S
    <3>1. \A s \in S : s \in Int /\ 2 < s /\ ~ (s < 2)
      BY <1>1, <2>1
    <3>2. ~ (2 < 2)
      OBVIOUS
    <3>3. \A s \in {2} \cup S : (\E t \in {2} \cup S : t < s) <=> s \in S
      BY <3>1, <3>2
    <3> QED  BY <3>3 DEF Eoi
  <2>6. Eoi({l}) = {}
    BY <1>1 DEF Eoi
  <2> QED  BY <1>1, <1>3, <2>2, <2>3, <2>4, <2>5, <2>6
<1> QED  BY <1>1, <1>2, <1>3

(* A request that is taken goes before every line in service. *)
LEMMA TakenGoesBefore ==
  ASSUME stray \subseteq Lines, slave = OfSlave(stray), master = OfMaster(stray),
         NEW l \in Lines, Deliverable(l), NEW s \in stray
  PROVE  GoesBefore(l, s)
<1>1. l \in 0 .. 15 /\ s \in 0 .. 15
  BY LinesAssumption
<1>2. \A k \in master \cup slave : Priority(l) < Priority(k)
  BY DEF Deliverable
<1>3. CASE s < 8
  <2>1. s \in master
    BY <1>3 DEF OfMaster
  <2> QED  BY <1>1, <1>2, <1>3, <2>1 DEF Priority, GoesBefore
<1>4. CASE s >= 8
  <2>1. 2 \in master
    BY <1>4 DEF OfMaster, OfSlave
  <2>2. Priority(l) < Priority(2)
    BY <1>2, <2>1
  <2>3. l < 2
    BY <1>1, <2>2 DEF Priority
  <2> QED  BY <1>1, <1>4, <2>3 DEF GoesBefore
<1> QED  BY <1>1, <1>3, <1>4

(* The frame that is added can only be the first one when there was none. *)
LEMMA EnteredFirst ==
  ASSUME StackInv, OnTrack, NEW f \in Frame, frames' = Append(frames, f)
  PROVE  /\ frames # << >> => LineInProgress' = LineInProgress
         /\ frames = << >> =>
              LineInProgress' = IF IsLine(f.number) /\ f.step # "return" THEN {Line(f)} ELSE {}
<1> HIDE DEF Frame
<1>1. frames \in Seq(Frame)
  BY DEF StackInv
<1>2. frames' # << >>
  BY <1>1, AppendProperties
<1>3. frames # << >> => frames'[1] = frames[1]
  BY <1>1, AppendProperties
<1>4. frames = << >> => frames'[1] = f
  BY <1>1, AppendProperties
<1> QED  BY <1>2, <1>3, <1>4 DEF LineInProgress, Line

(* The handler of a line is the first in progress. *)
LEMMA LineIsFirst ==
  ASSUME StackInv, OnTrack, frames # << >>, NEW g \in Frame, frames' = Replace(g),
         g.number = Top.number, Top.step # "return"
  PROVE  /\ ~ IsLine(Top.number) => LineInProgress' = LineInProgress
         /\ IsLine(Top.number) =>
              /\ LineInProgress = {Line(Top)} /\ Line(Top) \in Lines
              /\ LineInProgress' = IF g.step # "return" THEN {Line(Top)} ELSE {}
<1>1. /\ Len(frames) \in Nat \ {0} /\ Top = frames[Len(frames)] /\ Top \in Frame
      /\ FrameSound(Top)
      /\ \A i \in 1 .. Len(frames) : i # 1 => frames[i].vector \in Exceptions
  BY TopFacts
<1>2. /\ Replace(g) # << >>
      /\ \A i \in 1 .. Len(frames) :
           Replace(g)[i] = IF i = Len(frames) THEN g ELSE frames[i]
  BY ReplaceFacts DEF StackInv
<1>3. 1 \in 1 .. Len(frames) /\ Len(frames) \in 1 .. Len(frames)
  BY <1>1
<1>4. frames' # << >> /\ frames'[1] = IF Len(frames) = 1 THEN g ELSE frames[1]
  BY <1>2, <1>3
<1>5. CASE Len(frames) = 1
  <2>1. frames[1] = Top /\ frames'[1] = g
    BY <1>1, <1>4, <1>5
  <2>2. IsLine(Top.number) => Line(Top) \in Lines
    BY <1>1, FrameNumbers
  <2> HIDE DEF Frame
  <2> QED  BY <1>4, <2>1, <2>2 DEF LineInProgress, Line
<1>6. CASE Len(frames) # 1
  <2>1. Top.vector \in Exceptions
    BY <1>1, <1>3, <1>6
  <2>2. ~ IsLine(Top.number)
    BY <1>1, <2>1, FrameNumbers
  <2>3. frames'[1] = frames[1]
    BY <1>4, <1>6
  <2> HIDE DEF Frame
  <2> QED  BY <1>4, <2>2, <2>3 DEF LineInProgress, Line
<1> QED  BY <1>5, <1>6

LEMMA ServiceSteps ==
  ASSUME StackInv, ServiceInv, [InterruptNext]_interruptVars
  PROVE  ServiceInv'
<1> HIDE DEF Frame
<1>1. CASE UNCHANGED <<cpu, frames, master, slave, stray>>
  BY <1>1 DEF ServiceInv, OnTrack, LineInProgress, Line
<1>2. ASSUME OnTrack, LineInProgress' = LineInProgress, UNCHANGED <<master, slave, stray>>
      PROVE  ServiceInv'
  BY <1>2 DEF ServiceInv
<1>3. CASE Execute
  BY <1>3, <1>2 DEF Execute, InMain, LineInProgress, Line, picVars, deviceVars
<1>4. ASSUME NEW l \in Lines, TakeRequest(l) PROVE ServiceInv'
  <2>1. /\ OnTrack /\ InterruptsOn /\ Enter(HardwareInterruptOffset + l, cpu.regs)
        /\ Deliverable(l) /\ UNCHANGED stray
        /\ master' = master \cup {IF l < 8 THEN l ELSE 2}
        /\ slave' = IF l < 8 THEN slave ELSE slave \cup {l}
    BY <1>4 DEF TakeRequest, Foremost, deviceVars
  <2>2. frames = << >> /\ cpu.regs \in [Registers -> Words]
    BY <2>1 DEF StackInv, FramesNest, Cpu
  <2>3. HardwareInterruptOffset + l \in Vectors
    BY DEF Vectors
  <2>4. PICK f \in Frame : /\ frames' = Append(frames, f) /\ f.step = "call"
                           /\ f.number = Reported(HardwareInterruptOffset + l)
    BY <2>1, <2>2, <2>3, EnterNests
  <2>5. f.number = HardwareInterruptOffset + l /\ IsLine(f.number)
    BY <2>4, ReportedNumbers
  <2>6. Line(f) = l
    BY <2>5, LinesAssumption DEF Line, HardwareInterruptOffset
  <2>7. LineInProgress' = {l}
    BY <2>1, <2>2, <2>4, <2>5, <2>6, EnteredFirst
  <2>8. LineInProgress = {}
    BY <2>2 DEF LineInProgress
  <2>9. stray \subseteq Lines /\ slave = OfSlave(stray) /\ master = OfMaster(stray)
    BY <2>1, <2>8 DEF ServiceInv
  <2>10. \A s \in stray : GoesBefore(l, s)
    BY <2>1, <2>9, TakenGoesBefore
  <2>11. l \in 0 .. 15
    BY LinesAssumption
  <2>12. slave' = OfSlave({l} \cup stray)
    BY <2>1, <2>9, <2>11 DEF OfSlave
  <2>13. master' = OfMaster({l} \cup stray)
    <3>1. OfSlave({l} \cup stray) = IF l < 8 THEN OfSlave(stray) ELSE {l} \cup OfSlave(stray)
      BY <2>11 DEF OfSlave
    <3>2. CASE l < 8
      <4>1. {k \in {l} \cup stray : k < 8} = {l} \cup {k \in stray : k < 8}
        BY <3>2
      <4> QED  BY <2>1, <2>9, <3>1, <3>2, <4>1 DEF OfMaster
    <3>3. CASE ~ (l < 8)
      <4>1. {k \in {l} \cup stray : k < 8} = {k \in stray : k < 8}
        BY <3>3
      <4>2. {2 : k \in {l} \cup OfSlave(stray)} = {2} \cup {2 : k \in OfSlave(stray)}
        OBVIOUS
      <4> QED  BY <2>1, <2>9, <3>1, <3>3, <4>1, <4>2 DEF OfMaster
    <3> QED  BY <3>2, <3>3
  <2> QED  BY <2>1, <2>7, <2>9, <2>10, <2>12, <2>13 DEF ServiceInv
<1>5. ASSUME NEW v \in Exceptions, Exception(v) PROVE ServiceInv'
  <2>1. /\ OnTrack /\ Enter(v, cpu.regs) /\ (frames # << >> => Top.step = "finish")
        /\ UNCHANGED <<master, slave, stray>>
    BY <1>5 DEF Exception, Top, picVars, deviceVars
  <2>2. cpu.regs \in [Registers -> Words] /\ v \in Vectors
        /\ (frames # << >> => ~ InterruptsOn)
    BY <2>1 DEF StackInv, FramesNest, Cpu, Vectors
  <2>3. PICK f \in Frame : frames' = Append(frames, f) /\ f.number = Reported(v)
    BY <2>1, <2>2, EnterNests
  <2>4. ~ IsLine(f.number)
    BY <2>3, ReportedNumbers
  <2>5. frames = << >> => LineInProgress = {}
    BY DEF LineInProgress
  <2>6. LineInProgress' = LineInProgress
    BY <2>1, <2>3, <2>4, <2>5, EnteredFirst
  <2> QED  BY <1>2, <2>1, <2>6
<1>6. ASSUME NEW call \in SysCalls, SystemCall(call) PROVE ServiceInv'
  <2> DEFINE regs == [cpu.regs EXCEPT !["eax"] = <<0, call.eax>>, !["ebx"] = <<0, call.ebx>>]
  <2>1. /\ OnTrack /\ frames = << >> /\ Enter(SystemCallVector, regs)
        /\ UNCHANGED <<master, slave, stray>>
    BY <1>6 DEF SystemCall, MainCalls, InMain, picVars, deviceVars
  <2>2. frames' = Append(frames, [vector |-> SystemCallVector,
          number |-> Reported(SystemCallVector), step |-> "call",
          torn |-> FALSE, esp |-> Len(Entered(SystemCallVector, regs)),
          cpu |-> [cpu EXCEPT !.regs = regs], below |-> stack])
    BY <2>1 DEF Enter
  <2> HIDE DEF regs
  <2>3. frames'[1].number = Reported(SystemCallVector)
    BY <2>1, <2>2
  <2>4. ~ IsLine(frames'[1].number)
    BY <2>3, ReportedNumbers
  <2>5. LineInProgress' = LineInProgress
    BY <2>1, <2>4 DEF LineInProgress
  <2> QED  BY <1>2, <2>1, <2>5
<1>7. ASSUME OnTrack, frames # << >>
      PROVE  /\ Top \in Frame
             /\ [Top EXCEPT !.step = "return"] \in Frame
             /\ [Top EXCEPT !.step = "return"].number = Top.number
             /\ [Top EXCEPT !.step = "return"].step = "return"
             /\ [Top EXCEPT !.step = "finish"] \in Frame
             /\ [Top EXCEPT !.step = "finish"].number = Top.number
             /\ [Top EXCEPT !.step = "finish"].step = "finish"
  BY <1>7, TopFacts DEF Frame
<1>8. CASE Bypass
  <2>1. /\ OnTrack /\ frames # << >> /\ Top.step = "call" /\ UNCHANGED <<master, slave>>
        /\ frames' = Replace([Top EXCEPT !.step = "return"])
        /\ stray' = IF IsLine(Top.number) THEN stray \cup {Line(Top)} ELSE stray
    BY <1>8 DEF Bypass, Runs, picVars, Line
  <2>2. CASE ~ IsLine(Top.number)
    <3>1. LineInProgress' = LineInProgress
      BY <1>7, <2>1, <2>2, LineIsFirst
    <3> QED  BY <1>2, <2>1, <2>2, <3>1
  <2>3. CASE IsLine(Top.number)
    <3>1. /\ LineInProgress = {Line(Top)} /\ Line(Top) \in Lines
          /\ LineInProgress' = {}
      BY <1>7, <2>1, <2>3, LineIsFirst
    <3>2. stray' = LineInProgress \cup stray
      BY <2>1, <2>3, <3>1
    <3>3. stray' \subseteq Lines /\ LineInProgress' \cup stray' = LineInProgress \cup stray
      BY <2>1, <3>1, <3>2 DEF ServiceInv
    <3> QED  BY <2>1, <3>1, <3>3 DEF ServiceInv
  <2> QED  BY <2>2, <2>3
<1>9. CASE Call
  <2>1. /\ OnTrack /\ frames # << >> /\ Top.step = "call"
        /\ UNCHANGED <<master, slave, stray>>
        /\ frames' = Replace([Top EXCEPT !.step = "finish"])
    BY <1>9 DEF Call, Runs, picVars
  <2>2. LineInProgress' = LineInProgress
    BY <1>7, <2>1, LineIsFirst
  <2> QED  BY <1>2, <2>1, <2>2
<1>10. CASE Finish
  <2>1. /\ OnTrack /\ frames # << >> /\ Top.step = "finish" /\ UNCHANGED stray
        /\ master' = IF IsLine(Top.number) THEN Eoi(master) ELSE master
        /\ slave' = IF OnSlave(Top.number) THEN Eoi(slave) ELSE slave
    BY <1>10 DEF Finish, Runs, deviceVars
  <2>2. Top \in Frame
    BY <2>1, TopFacts
  <2>3. PICK g \in Frame :
          frames' = Replace(g) /\ g.number = Top.number /\ g.step = "return"
    BY <1>10, FinishMovesOn
  <2>4. CASE ~ IsLine(Top.number)
    <3>1. LineInProgress' = LineInProgress
      BY <2>1, <2>3, <2>4, LineIsFirst
    <3> QED  BY <1>2, <2>1, <2>4, <3>1 DEF OnSlave
  <2>5. CASE IsLine(Top.number)
    <3>1. /\ LineInProgress = {Line(Top)} /\ Line(Top) \in Lines
          /\ LineInProgress' = {}
      BY <2>1, <2>3, <2>5, LineIsFirst
    <3> DEFINE l == Line(Top)
    <3>2. OnSlave(Top.number) <=> l >= 8
      <4>1. Top.number \in Int
        BY <2>2 DEF Frame
      <4> QED  BY <2>5, <4>1 DEF OnSlave, Line, HardwareInterruptOffset
    <3> HIDE DEF l
    <3>3. /\ stray \subseteq Lines /\ slave = OfSlave({l} \cup stray)
          /\ master = OfMaster({l} \cup stray) /\ \A s \in stray : GoesBefore(l, s)
      BY <2>1, <3>1 DEF ServiceInv, l
    <3>4. l \in Lines
      BY <3>1 DEF l
    <3>5. l \in Int
      BY <3>4, LinesAssumption
    <3>6. master' = OfMaster(stray)
      BY <2>1, <2>5, <3>3, <3>4, Acknowledges
    <3>7. slave' = OfSlave(stray)
      <4>1. CASE l < 8
        <5>1. ~ OnSlave(Top.number)
          BY <3>2, <3>5, <4>1 DEF l
        <5> QED  BY <2>1, <3>3, <3>4, <4>1, <5>1, Acknowledges
      <4>2. CASE l >= 8
        <5>1. OnSlave(Top.number)
          BY <3>2, <4>2 DEF l
        <5> QED  BY <2>1, <3>3, <3>4, <4>2, <5>1, Acknowledges
      <4> QED  BY <3>5, <4>1, <4>2
    <3> QED  BY <2>1, <3>1, <3>3, <3>6, <3>7 DEF ServiceInv
  <2> QED  BY <2>4, <2>5
<1>11. CASE Return
  <2>1. /\ OnTrack /\ frames # << >> /\ Top.step = "return" /\ frames' = Front(frames)
        /\ UNCHANGED <<master, slave, stray>>
    BY <1>11 DEF Return, Runs, picVars, deviceVars
  <2>2. /\ Len(frames) \in Nat \ {0} /\ Top = frames[Len(frames)]
        /\ frames' \in Seq(Frame) /\ Len(frames') = Len(frames) - 1
        /\ \A i \in 1 .. Len(frames) - 1 : frames'[i] = frames[i]
    BY <2>1, TopFacts, FrontFacts
  <2>3. CASE Len(frames) = 1
    <3>1. frames' = << >> /\ frames[1].step = "return"
      BY <2>1, <2>2, <2>3
    <3>2. LineInProgress' = LineInProgress
      BY <3>1 DEF LineInProgress
    <3> QED  BY <1>2, <2>1, <3>2
  <2>4. CASE Len(frames) # 1
    <3>1. frames' # << >> /\ frames'[1] = frames[1]
      BY <2>2, <2>4
    <3>2. LineInProgress' = LineInProgress
      BY <2>1, <3>1 DEF LineInProgress, Line
    <3> QED  BY <1>2, <2>1, <3>2
  <2> QED  BY <2>3, <2>4
<1> QED
  BY <1>1, <1>3, <1>4, <1>5, <1>6, <1>8, <1>9, <1>10, <1>11
     DEF InterruptNext, MainStep, HandlerStep, Request, ConstructHandler, DestroyHandler,
         Activate, Deactivate, interruptVars, picVars, deviceVars

(* Of all the handlers in progress only the first can be that of a line. *)
LEMMA InProgress ==
  ASSUME StackInv, OnTrack
  PROVE  {frames[i].number - HardwareInterruptOffset :
            i \in {j \in DOMAIN frames :
                     IsLine(frames[j].number) /\ frames[j].step # "return"}}
         = LineInProgress
<1> HIDE DEF Frame
<1>1. frames \in Seq(Frame)
  BY DEF StackInv
<1>2. \A j \in 1 .. Len(frames) : j # 1 => ~ IsLine(frames[j].number)
  BY TopFacts, FrameNumbers, <1>1
<1>3. DOMAIN frames = 1 .. Len(frames) /\ (frames # << >> <=> 1 \in 1 .. Len(frames))
  BY <1>1
<1> QED  BY <1>2, <1>3 DEF LineInProgress, Line

(* A line is in service, and so held back, exactly while its handler has not been
   acknowledged, but for those that deactivate let through. *)
THEOREM InService == InterruptSpec => []InServiceIsInProgress
<1>1. InterruptInit => ServiceInv
  BY DEF InterruptInit, ServiceInv, LineInProgress, OfSlave, OfMaster
<1>2. StackInv /\ ServiceInv => InServiceIsInProgress
  BY InProgress DEF ServiceInv, InServiceIsInProgress, OfSlave, OfMaster
<1> QED  BY <1>1, <1>2, StackInvariant, ServiceSteps, PTL DEF InterruptSpec

==============================================================================
