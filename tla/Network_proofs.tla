--------------------------- MODULE Network_proofs ---------------------------
(***************************************************************************)
(* The network below TCP, for rings of any size, any memory, any remote    *)
(* ends and any interleaving of the main loop and the interrupt: what      *)
(* comes off the receive ring of the card's driver and what goes on the    *)
(* wire; the sockets of the UDP provider, and the cache of the ARP         *)
(* provider, two tables that are searched from the front.                  *)
(***************************************************************************)
EXTENDS Nic, Udp, Arp, NumberFacts, FiniteSetTheorems, TLAPS

-----------------------------------------------------------------------------
(* The rings of the card. *)

(* A ring index that has run on for up to two turns, brought back. *)
Wrapped(x, size) ==
  IF x < size THEN x ELSE IF x < 2 * size THEN x - size ELSE x - 2 * size

LEMMA WrappedInRange ==
  ASSUME NEW size \in Nat \ {0}, NEW x \in 0 .. 3 * size - 1
  PROVE  Wrapped(x, size) \in 0 .. size - 1
BY DEF Wrapped

(* The next index is the wrap of the next position. *)
LEMMA WrappedNext ==
  ASSUME NEW size \in Nat \ {0}, NEW x \in 0 .. 3 * size - 2
  PROVE  (Wrapped(x, size) + 1) % size = Wrapped(x + 1, size)
<1>1. Wrapped(x, size) \in 0 .. size - 1
  BY WrappedInRange
<1>2. (Wrapped(x, size) + 1) % size =
        IF Wrapped(x, size) + 1 = size THEN 0 ELSE Wrapped(x, size) + 1
  BY <1>1, Remainder
<1> QED  BY <1>1, <1>2 DEF Wrapped

(* Positions less than a turn apart are different places. *)
LEMMA WrappedApart ==
  ASSUME NEW size \in Nat \ {0}, NEW x \in Nat, NEW y \in Nat,
         x < y, y < x + size, y < 3 * size
  PROVE  Wrapped(x, size) # Wrapped(y, size)
BY DEF Wrapped

(* A whole turn leads back to the same place. *)
LEMMA WrappedTurn ==
  ASSUME NEW size \in Nat \ {0}, NEW x \in 0 .. 2 * size - 1
  PROVE  Wrapped(x + size, size) = Wrapped(x, size)
BY DEF Wrapped

(* When the start of the count moves on by one, so do the positions. *)
LEMMA WrappedShift ==
  ASSUME NEW size \in Nat \ {0}, NEW i \in 0 .. size - 1, NEW o \in Nat,
         i + o + 1 < 3 * size
  PROVE  Wrapped(((i + 1) % size) + o, size) = Wrapped(i + (o + 1), size)
<1>1. (i + 1) % size = IF i + 1 = size THEN 0 ELSE i + 1
  BY Remainder
<1> QED  BY <1>1 DEF Wrapped

-----------------------------------------------------------------------------
(* The receive ring. *)

Statuses == {"RINT", "TINT"}

(* The handler holds a frame it has not given back yet. *)
Taking == pc["isr"] \in {"handling", "load", "advance", "fill", "hand"}

(* Frames that have left the ring, and those that are in it. *)
Gone == IF Taking THEN Len(handed) - 1 ELSE Len(handed)
Waiting == arrived - Gone

(* The descriptor of the o-th waiting frame. *)
Place(o) == Wrapped(currentRecv + o, RecvRing)

RecvTypeOK ==
  /\ recvDescr \in [RecvIndex -> [own : {"card", "driver"}, frame : Nat, good : BOOLEAN]]
  /\ recvBuffers \in [Addresses(RecvIndex) -> Nat]
  /\ currentRecv \in RecvIndex /\ cardRecv \in RecvIndex
  /\ arrived \in Nat
  /\ handed \in Seq(Nat)
  /\ csr0 \in SUBSET Statuses /\ temp \in SUBSET Statuses
  /\ pc \in [Contexts -> {"idle", "load", "advance", "fill", "hand", "receive",
                          "handling", "acknowledge"}]

(* The waiting frames lie in order from the driver's index to the card's, and
   every other descriptor is the card's. *)
RingInStep ==
  /\ Waiting \in 0 .. RecvRing
  /\ Taking => Waiting > 0
  /\ cardRecv = Place(Waiting)
  /\ \A o \in RecvIndex :
       IF o < Waiting
       THEN /\ recvDescr[Place(o)].own = "driver"
            /\ recvDescr[Place(o)].frame = Gone + o + 1
       ELSE recvDescr[Place(o)].own = "card"
  /\ \A i \in DOMAIN handed : handed[i] = i

(* Frames wait only where an interrupt is coming, or where the handler will
   still look. *)
WaitingIsNoticed ==
  /\ pc["isr"] = "idle" => "RINT" \in csr0 \/ late \/ Waiting = 0
  /\ (pc["isr"] = "receive" \/ Taking) => "RINT" \in temp
  /\ pc["isr"] = "acknowledge" =>
       IF "RINT" \in temp THEN late \/ Waiting = 0
       ELSE "RINT" \in csr0 \/ late \/ Waiting = 0

(* A frame that waits alone is in its buffer. *)
LoneFrameIntact ==
  ~ crowded =>
    /\ Waiting \in 0 .. 1
    /\ Waiting = 1 =>
         recvBuffers[Address(currentRecv)] = recvDescr[currentRecv].frame

RecvInv == RecvTypeOK /\ RingInStep /\ WaitingIsNoticed /\ LoneFrameIntact

LEMMA RecvInitially == NicInit => RecvInv
<1> SUFFICES ASSUME NicInit PROVE RecvInv
  OBVIOUS
<1> USE RecvRingAssumption DEF NicInit, Contexts
<1>1. RecvTypeOK
  <2>1. recvDescr \in [RecvIndex -> [own : {"card", "driver"}, frame : Nat, good : BOOLEAN]]
    BY Zenon
  <2>2. 0 \in RecvIndex
    BY DEF RecvIndex
  <2>3. recvBuffers \in [Addresses(RecvIndex) -> Nat]
    BY DEF Damaged
  <2> QED  BY <2>1, <2>2, <2>3 DEF RecvTypeOK, Statuses
<1>2. ~ Taking /\ Gone = 0 /\ Waiting = 0
  <2>1. pc["isr"] = "idle"
    OBVIOUS
  <2>2. ~ Taking
    BY <2>1 DEF Taking
  <2>3. Len(handed) = 0 /\ arrived = 0
    OBVIOUS
  <2>4. Gone = 0
    BY <2>1, <2>3 DEF Gone, Taking
  <2> QED  BY <2>2, <2>3, <2>4 DEF Waiting
<1>3. \A o \in 0 .. RecvRing : Place(o) = IF o = RecvRing THEN 0 ELSE o
  BY DEF Place, Wrapped
<1>4. RingInStep
  BY <1>2, <1>3 DEF RingInStep, RecvIndex
<1>5. WaitingIsNoticed
  BY <1>2 DEF WaitingIsNoticed, Taking
<1>6. LoneFrameIntact
  BY <1>2 DEF LoneFrameIntact
<1> QED  BY <1>1, <1>4, <1>5, <1>6 DEF RecvInv

(* Steps of Send, of main or of the handler, do not touch the receive ring. *)
LEMMA SendingKeepsRecv ==
  ASSUME RecvInv, UNCHANGED <<recvVars, irqVars>>,
         pc' \in [Contexts -> {"idle", "load", "advance", "fill", "hand", "receive",
                              "handling", "acknowledge"}],
         pc'["isr"] = pc["isr"] \/ (Taking /\ Taking')
  PROVE  RecvInv'
<1> USE DEF RecvInv, recvVars, irqVars
<1>1. RecvTypeOK'
  BY Zenon DEF RecvTypeOK
<1>2. Taking' <=> Taking
  <2>1. CASE pc'["isr"] = pc["isr"]
    BY <2>1, Zenon DEF Taking
  <2>2. CASE Taking /\ Taking'
    BY <2>2
  <2> QED  BY <2>1, <2>2
<1>3. Gone' = Gone /\ Waiting' = Waiting
  BY <1>2 DEF Gone, Waiting
<1>4. RingInStep'
  BY <1>2, <1>3 DEF RingInStep, Place
<1>5. WaitingIsNoticed'
  BY <1>2, <1>3 DEF WaitingIsNoticed, Taking
<1>6. LoneFrameIntact'
  BY <1>3 DEF LoneFrameIntact
<1> QED  BY <1>1, <1>4, <1>5, <1>6

(* Where the o-th place is, and that different ones are different. *)
LEMMA Places ==
  ASSUME currentRecv \in RecvIndex
  PROVE  /\ \A o \in 0 .. RecvRing : Place(o) \in RecvIndex
         /\ Place(0) = currentRecv
         /\ Place(RecvRing) = currentRecv
         /\ \A o \in 0 .. RecvRing - 1 : (Place(o) + 1) % RecvRing = Place(o + 1)
         /\ \A o \in RecvIndex, q \in RecvIndex : o # q => Place(o) # Place(q)
         /\ \A i \in RecvIndex : \E o \in RecvIndex : i = Place(o)
<1> USE RecvRingAssumption
<1>1. \A o \in 0 .. RecvRing : Place(o) \in RecvIndex
  BY DEF Place, Wrapped, RecvIndex
<1>2. Place(0) = currentRecv /\ Place(RecvRing) = currentRecv
  BY DEF Place, Wrapped, RecvIndex
<1>3. ASSUME NEW o \in 0 .. RecvRing - 1
      PROVE  (Place(o) + 1) % RecvRing = Place(o + 1)
  <2>1. currentRecv + o \in 0 .. 3 * RecvRing - 2
    BY DEF RecvIndex
  <2>2. (Wrapped(currentRecv + o, RecvRing) + 1) % RecvRing
          = Wrapped((currentRecv + o) + 1, RecvRing)
    BY <2>1, WrappedNext
  <2> QED  BY <2>2 DEF Place, Wrapped, RecvIndex
<1>4. ASSUME NEW o \in RecvIndex, NEW q \in RecvIndex, o # q
      PROVE  Place(o) # Place(q)
  BY <1>4 DEF Place, Wrapped, RecvIndex
<1>5. ASSUME NEW i \in RecvIndex
      PROVE  \E o \in RecvIndex : i = Place(o)
  <2> DEFINE o == IF i < currentRecv THEN i + RecvRing - currentRecv ELSE i - currentRecv
  <2>1. o \in RecvIndex /\ i = Place(o)
    BY DEF Place, Wrapped, RecvIndex
  <2> QED  BY <2>1
<1> QED  BY <1>1, <1>2, <1>3, <1>4, <1>5

LEMMA CardReceivesKeepsRecv ==
  ASSUME RecvInv, NEW good \in BOOLEAN, CardReceives(good)
  PROVE  RecvInv'
<1> USE RecvRingAssumption
<1>0. RecvTypeOK /\ RingInStep /\ WaitingIsNoticed /\ LoneFrameIntact
  BY DEF RecvInv
<1>1. /\ currentRecv \in RecvIndex /\ cardRecv \in RecvIndex /\ arrived \in Nat
      /\ currentRecv' = currentRecv /\ handed' = handed /\ pc' = pc /\ temp' = temp
      /\ arrived' = arrived + 1
  BY <1>0 DEF RecvTypeOK, CardReceives
<1>2. Waiting < RecvRing
  <2>1. recvDescr[cardRecv].own = "card"
    BY DEF CardReceives
  <2>2. Waiting # RecvRing
    <3> SUFFICES ASSUME Waiting = RecvRing PROVE FALSE
      OBVIOUS
    <3>1. cardRecv = Place(0)
      BY <1>0, <1>1, Places DEF RingInStep
    <3>2. 0 \in RecvIndex /\ 0 < Waiting
      BY DEF RecvIndex
    <3>3. recvDescr[Place(0)].own = "driver"
      BY <1>0, <3>2 DEF RingInStep
    <3> QED  BY <2>1, <3>1, <3>3
  <2> QED  BY <1>0, <2>2 DEF RingInStep
<1>3. (Taking' <=> Taking) /\ Gone' = Gone
  BY <1>1 DEF Taking, Gone
<1>4. Gone \in Int /\ Waiting' = Waiting + 1 /\ Waiting \in 0 .. RecvRing - 1
  <2>1. Len(handed) \in Nat
    BY <1>0 DEF RecvTypeOK
  <2>2. Gone \in Int
    BY <2>1 DEF Gone
  <2> QED  BY <1>0, <1>1, <1>2, <1>3, <2>2 DEF Waiting, RingInStep
<1>5. \A o : Place(o)' = Place(o)
  BY <1>1 DEF Place
<1>6. cardRecv = Place(Waiting) /\ Waiting \in RecvIndex
  BY <1>0, <1>4 DEF RingInStep, RecvIndex
<1>7. cardRecv' = Place(Waiting)'
  BY <1>1, <1>4, <1>5, <1>6, Places DEF CardReceives
<1>8. recvDescr' = [recvDescr EXCEPT ![cardRecv] =
                     [own |-> "driver", frame |-> arrived + 1, good |-> good]]
  BY DEF CardReceives
<1>9. RecvTypeOK'
  <2>1. cardRecv' \in RecvIndex
    BY <1>1, <1>4, <1>5, <1>7, Places DEF RecvIndex
  <2>2. recvDescr' \in [RecvIndex -> [own : {"card", "driver"}, frame : Nat, good : BOOLEAN]]
    <3>1. [own |-> "driver", frame |-> arrived + 1, good |-> good]
             \in [own : {"card", "driver"}, frame : Nat, good : BOOLEAN]
      BY <1>1
    <3> QED  BY <1>0, <1>8, <3>1, Zenon DEF RecvTypeOK
  <2>3. recvBuffers' \in [Addresses(RecvIndex) -> Nat]
    BY <1>0, <1>1 DEF RecvTypeOK, CardReceives, Store, Damaged
  <2>4. csr0' \in SUBSET Statuses
    BY <1>0 DEF RecvTypeOK, CardReceives, Statuses
  <2>5. arrived' \in Nat
    BY <1>1
  <2> QED  BY <1>0, <1>1, <2>1, <2>2, <2>3, <2>4, <2>5, Zenon DEF RecvTypeOK
<1>10. RingInStep'
  <2>1. ASSUME NEW o \in RecvIndex, o # Waiting
        PROVE  recvDescr'[Place(o)] = recvDescr[Place(o)]
    BY <1>0, <1>1, <1>6, <1>8, <2>1, Places DEF RecvTypeOK
  <2>2. /\ recvDescr'[Place(Waiting)].own = "driver"
        /\ recvDescr'[Place(Waiting)].frame = Gone + Waiting + 1
    BY <1>0, <1>1, <1>4, <1>6, <1>8 DEF RecvTypeOK, Waiting
  <2>3. ASSUME NEW o \in RecvIndex
        PROVE  IF o < Waiting'
               THEN /\ recvDescr'[Place(o)'].own = "driver"
                    /\ recvDescr'[Place(o)'].frame = Gone' + o + 1
               ELSE recvDescr'[Place(o)'].own = "card"
    <3>1. CASE o = Waiting
      BY <1>3, <1>4, <1>5, <2>2, <3>1
    <3>2. CASE o # Waiting
      <4>1. o < Waiting' <=> o < Waiting
        BY <1>4, <3>2 DEF RecvIndex
      <4> QED  BY <1>0, <1>3, <1>5, <2>1, <3>2, <4>1 DEF RingInStep
    <3> QED  BY <3>1, <3>2
  <2>4. Waiting' \in 0 .. RecvRing /\ Waiting' > 0
    BY <1>4
  <2>5. \A i \in DOMAIN handed' : handed'[i] = i
    BY <1>0, <1>1 DEF RingInStep
  <2> QED  BY <1>7, <2>3, <2>4, <2>5 DEF RingInStep
<1>11. WaitingIsNoticed'
  <2>1. "RINT" \in csr0' /\ (late => late')
    BY DEF CardReceives
  <2>2. pc["isr"] = "acknowledge" /\ "RINT" \in temp => late'
    BY DEF CardReceives
  <2> QED  BY <1>0, <1>1, <1>3, <2>1, <2>2 DEF WaitingIsNoticed
<1>12. LoneFrameIntact'
  <2> SUFFICES ASSUME ~ crowded'
               PROVE  /\ Waiting' = 1
                      /\ recvBuffers'[Address(currentRecv)] = recvDescr'[currentRecv].frame
    BY <1>1 DEF LoneFrameIntact
  <2>1. \A i \in RecvIndex : recvDescr[i].own # "driver"
    BY DEF CardReceives
  <2>2. Waiting = 0
    <3> SUFFICES ASSUME Waiting > 0 PROVE FALSE
      BY <1>4
    <3>1. 0 \in RecvIndex /\ Place(0) \in RecvIndex
      BY <1>1, Places DEF RecvIndex
    <3> QED  BY <1>0, <2>1, <3>1 DEF RingInStep
  <2>3. cardRecv = currentRecv
    BY <1>1, <1>6, <2>2, Places
  <2>4. recvDescr'[currentRecv].frame = arrived + 1
    BY <1>0, <1>1, <1>8, <2>3 DEF RecvTypeOK
  <2>5. recvBuffers'[Address(currentRecv)] = arrived + 1
    <3>1. Address(currentRecv) \in Addresses(RecvIndex)
      BY <1>1 DEF Addresses
    <3>2. Address(currentRecv) \in DOMAIN recvBuffers
      BY <1>0, <3>1, Zenon DEF RecvTypeOK
    <3> QED  BY <2>3, <3>2 DEF CardReceives, Store
  <2> QED  BY <1>4, <2>2, <2>4, <2>5
<1> QED  BY <1>9, <1>10, <1>11, <1>12 DEF RecvInv

LEMMA ReceiveKeepsRecv ==
  ASSUME RecvInv, Receive
  PROVE  RecvInv'
<1> USE RecvRingAssumption
<1>0. RecvTypeOK /\ RingInStep /\ WaitingIsNoticed /\ LoneFrameIntact
  BY DEF RecvInv
<1>1. /\ currentRecv \in RecvIndex /\ arrived \in Nat /\ Len(handed) \in Nat
      /\ pc["isr"] = "receive" /\ pc'["isr"] = "handling"
      /\ handed' = Append(handed, recvDescr[currentRecv].frame)
      /\ UNCHANGED <<recvDescr, recvBuffers, currentRecv, cardRecv, arrived, crowded,
                     late, csr0, temp>>
  BY <1>0 DEF RecvTypeOK, Receive, At, Goto, irqVars, Contexts
<1>2. ~ Taking /\ Taking'
  BY <1>1 DEF Taking
<1>3. handed' \in Seq(Nat) /\ Len(handed') = Len(handed) + 1
  BY <1>0, <1>1 DEF RecvTypeOK
<1>4. Gone' = Gone /\ Waiting' = Waiting /\ Gone = Len(handed)
  BY <1>1, <1>2, <1>3 DEF Gone, Waiting
<1>5. RecvTypeOK'
  <2>1. pc' \in [Contexts -> {"idle", "load", "advance", "fill", "hand", "receive",
                             "handling", "acknowledge"}]
    BY <1>0 DEF RecvTypeOK, Receive, Goto
  <2> QED  BY <1>0, <1>1, <1>3, <2>1, Zenon DEF RecvTypeOK
<1>6. Waiting > 0
  <2> SUFFICES ASSUME ~ (0 < Waiting) PROVE FALSE
    BY <1>0, <1>4 DEF RingInStep
  <2>1. 0 \in RecvIndex /\ Place(0) = currentRecv
    BY <1>1, Places DEF RecvIndex
  <2>2. recvDescr[currentRecv].own = "card"
    BY <1>0, <2>1 DEF RingInStep
  <2> QED  BY <2>2 DEF Receive
<1>7. RingInStep'
  <2>1. \A o : Place(o)' = Place(o)
    BY <1>1 DEF Place
  <2>2. 0 \in RecvIndex /\ Place(0) = currentRecv
    BY <1>1, Places DEF RecvIndex
  <2>3. recvDescr[Place(0)].frame = Gone + 0 + 1
    BY <1>0, <1>6, <2>2 DEF RingInStep
  <2>4. recvDescr[currentRecv].frame = Len(handed) + 1
    BY <1>1, <1>4, <2>2, <2>3
  <2>5. ASSUME NEW i \in DOMAIN handed' PROVE handed'[i] = i
    <3>1. CASE i = Len(handed) + 1
      BY <1>0, <1>1, <2>4, <3>1 DEF RecvTypeOK
    <3>2. CASE i \in DOMAIN handed
      BY <1>0, <1>1, <3>2 DEF RecvTypeOK, RingInStep
    <3> QED  BY <1>0, <1>1, <1>3, <3>1, <3>2 DEF RecvTypeOK
  <2>6. \A o \in RecvIndex :
          IF o < Waiting'
          THEN /\ recvDescr'[Place(o)'].own = "driver"
               /\ recvDescr'[Place(o)'].frame = Gone' + o + 1
          ELSE recvDescr'[Place(o)'].own = "card"
    BY <1>0, <1>1, <1>4, <2>1 DEF RingInStep
  <2>7. Waiting' \in 0 .. RecvRing /\ Waiting' > 0 /\ cardRecv' = Place(Waiting)'
    BY <1>0, <1>1, <1>4, <1>6, <2>1 DEF RingInStep
  <2> QED  BY <2>5, <2>6, <2>7 DEF RingInStep
<1>8. WaitingIsNoticed'
  BY <1>0, <1>1, <1>2 DEF WaitingIsNoticed
<1>9. LoneFrameIntact'
  BY <1>0, <1>1, <1>4 DEF LoneFrameIntact
<1> QED  BY <1>5, <1>7, <1>8, <1>9 DEF RecvInv

LEMMA GiveBackKeepsRecv ==
  ASSUME RecvInv, GiveBack
  PROVE  RecvInv'
<1> USE RecvRingAssumption
<1>0. RecvTypeOK /\ RingInStep /\ WaitingIsNoticed /\ LoneFrameIntact
  BY DEF RecvInv
<1>1. /\ currentRecv \in RecvIndex /\ arrived \in Nat /\ Len(handed) \in Nat
      /\ pc["isr"] = "handling" /\ pc'["isr"] = "receive"
      /\ recvDescr' = [recvDescr EXCEPT ![currentRecv].own = "card"]
      /\ currentRecv' = (currentRecv + 1) % RecvRing
      /\ UNCHANGED <<recvBuffers, cardRecv, arrived, handed, crowded, late, csr0, temp>>
  BY <1>0 DEF RecvTypeOK, GiveBack, At, Goto, irqVars, Contexts
<1>2. Taking /\ ~ Taking'
  BY <1>1 DEF Taking
<1>3. Gone = Len(handed) - 1 /\ Gone' = Len(handed)
  BY <1>1, <1>2 DEF Gone
<1>4. Waiting' = Waiting - 1 /\ Gone' = Gone + 1 /\ Waiting \in 1 .. RecvRing
  <2>1. Waiting \in 0 .. RecvRing /\ Waiting > 0
    BY <1>0, <1>2 DEF RingInStep
  <2>2. Waiting' = Waiting - 1 /\ Gone' = Gone + 1
    BY <1>1, <1>3 DEF Waiting
  <2> QED  BY <2>1, <2>2
<1>5. ASSUME NEW o \in RecvIndex PROVE Place(o)' = Place(o + 1)
  <2>1. Wrapped(((currentRecv + 1) % RecvRing) + o, RecvRing)
          = Wrapped(currentRecv + (o + 1), RecvRing)
    BY <1>1, WrappedShift DEF RecvIndex
  <2> QED  BY <1>1, <2>1 DEF Place
<1>6. currentRecv' \in RecvIndex
  BY <1>1, Remainder DEF RecvIndex
<1>7. RecvTypeOK'
  <2>1. pc' \in [Contexts -> {"idle", "load", "advance", "fill", "hand", "receive",
                             "handling", "acknowledge"}]
    BY <1>0 DEF RecvTypeOK, GiveBack, Goto
  <2>2. recvDescr' \in [RecvIndex -> [own : {"card", "driver"}, frame : Nat, good : BOOLEAN]]
    <3>1. [recvDescr[currentRecv] EXCEPT !.own = "card"]
             \in [own : {"card", "driver"}, frame : Nat, good : BOOLEAN]
      BY <1>0, <1>1 DEF RecvTypeOK
    <3> QED  BY <1>0, <1>1, <3>1, Zenon DEF RecvTypeOK
  <2> QED  BY <1>0, <1>1, <1>6, <2>1, <2>2, Zenon DEF RecvTypeOK
<1>8. RingInStep'
  <2>1. cardRecv' = Place(Waiting)'
    <3> SUFFICES ASSUME NEW n \in 1 .. RecvRing, n = Waiting
                 PROVE  cardRecv' = Place(n - 1)'
      BY <1>4 DEF Place
    <3>1. n - 1 \in RecvIndex /\ (n - 1) + 1 = n
      BY DEF RecvIndex
    <3>2. Place(n - 1)' = Place(n)
      BY <1>5, <3>1
    <3> QED  BY <1>0, <1>1, <3>2 DEF RingInStep
  <2>2. Place(0) = currentRecv /\ Place(RecvRing) = currentRecv /\ 0 \in RecvIndex
    BY <1>1, Places DEF RecvIndex
  <2>3. recvDescr'[currentRecv].own = "card"
    BY <1>0, <1>1 DEF RecvTypeOK
  <2>4. ASSUME NEW o \in RecvIndex
        PROVE  IF o < Waiting'
               THEN /\ recvDescr'[Place(o)'].own = "driver"
                    /\ recvDescr'[Place(o)'].frame = Gone' + o + 1
               ELSE recvDescr'[Place(o)'].own = "card"
    <3>1. CASE o = RecvRing - 1
      <4>1. Place(o)' = currentRecv
        BY <1>5, <2>2, <3>1
      <4>2. ~ (o < Waiting')
        BY <1>4, <3>1
      <4> QED  BY <2>3, <4>1, <4>2
    <3>2. CASE o # RecvRing - 1
      <4>1. o + 1 \in RecvIndex /\ o + 1 # 0
        BY <3>2 DEF RecvIndex
      <4> DEFINE q == o + 1
      <4>a. q \in RecvIndex /\ q # 0 /\ q \in 0 .. RecvRing
        BY <4>1 DEF RecvIndex
      <4> HIDE DEF q
      <4>b. Place(q) # Place(0) /\ Place(q) \in RecvIndex
        BY <1>1, <2>2, <4>a, Places
      <4>2. Place(o + 1) # currentRecv /\ Place(o + 1) \in RecvIndex
        BY <2>2, <4>b DEF q
      <4>3. recvDescr'[Place(o + 1)] = recvDescr[Place(o + 1)]
        BY <1>0, <1>1, <4>2 DEF RecvTypeOK
      <4>4. IF o + 1 < Waiting
            THEN /\ recvDescr[Place(o + 1)].own = "driver"
                 /\ recvDescr[Place(o + 1)].frame = Gone + (o + 1) + 1
            ELSE recvDescr[Place(o + 1)].own = "card"
        BY <1>0, <4>1 DEF RingInStep
      <4>5. o + 1 < Waiting <=> o < Waiting'
        BY <1>4 DEF RecvIndex
      <4>6. Gone + (o + 1) + 1 = Gone' + o + 1
        BY <1>1, <1>3 DEF RecvIndex
      <4> QED  BY <1>5, <4>3, <4>4, <4>5, <4>6
    <3> QED  BY <3>1, <3>2
  <2>5. Waiting' \in 0 .. RecvRing
    BY <1>4
  <2>6. \A i \in DOMAIN handed' : handed'[i] = i
    BY <1>0, <1>1 DEF RingInStep
  <2> QED  BY <1>2, <2>1, <2>4, <2>5, <2>6 DEF RingInStep
<1>9. WaitingIsNoticed'
  BY <1>0, <1>1, <1>2 DEF WaitingIsNoticed
<1>10. LoneFrameIntact'
  <2> SUFFICES ASSUME ~ crowded' PROVE Waiting' = 0
    BY DEF LoneFrameIntact
  <2> QED  BY <1>0, <1>1, <1>4 DEF LoneFrameIntact
<1> QED  BY <1>7, <1>8, <1>9, <1>10 DEF RecvInv

(* The steps of the handler that leave the ring alone. *)
LEMMA HandlerKeepsRecv ==
  ASSUME RecvInv, Interrupt \/ ReceiveEnds \/ Acknowledge
  PROVE  RecvInv'
<1> USE RecvRingAssumption
<1>0. RecvTypeOK /\ RingInStep /\ WaitingIsNoticed /\ LoneFrameIntact
  BY DEF RecvInv
<1>1. /\ pc["isr"] \in {"idle", "receive", "acknowledge"}
      /\ pc'["isr"] \in {"idle", "receive", "acknowledge"}
      /\ UNCHANGED <<recvDescr, recvBuffers, currentRecv, cardRecv, arrived, handed,
                     crowded>>
  BY <1>0 DEF RecvTypeOK, Interrupt, ReceiveEnds, Acknowledge, At, Goto, recvVars, Contexts
<1>2. ~ Taking /\ ~ Taking'
  BY <1>1 DEF Taking
<1>3. Gone' = Gone /\ Waiting' = Waiting
  BY <1>1, <1>2 DEF Gone, Waiting
<1>4. RecvTypeOK'
  <2>1. pc' \in [Contexts -> {"idle", "load", "advance", "fill", "hand", "receive",
                             "handling", "acknowledge"}]
    BY <1>0 DEF RecvTypeOK, Interrupt, ReceiveEnds, Acknowledge, Goto
  <2>2. csr0' \in SUBSET Statuses /\ temp' \in SUBSET Statuses
    BY <1>0 DEF RecvTypeOK, Interrupt, ReceiveEnds, Acknowledge, irqVars
  <2> QED  BY <1>0, <1>1, <2>1, <2>2, Zenon DEF RecvTypeOK
<1>5. RingInStep'
  <2>1. \A o : Place(o)' = Place(o)
    BY <1>1 DEF Place
  <2> QED  BY <1>0, <1>1, <1>2, <1>3, <2>1 DEF RingInStep
<1>6. LoneFrameIntact'
  BY <1>0, <1>1, <1>3 DEF LoneFrameIntact
<1>7. WaitingIsNoticed'
  <2>1. CASE Interrupt
    BY <1>0, <1>2, <1>3, <2>1 DEF WaitingIsNoticed, Interrupt, Goto, RecvTypeOK, Contexts,
       recvVars
  <2>2. CASE ReceiveEnds
    <3>1. Waiting = 0
      <4>1. 0 \in RecvIndex /\ Place(0) = currentRecv
        BY <1>0, Places DEF RecvIndex, RecvTypeOK
      <4>2. recvDescr[Place(0)].own = "card"
        BY <2>2, <4>1 DEF ReceiveEnds
      <4> QED  BY <1>0, <4>1, <4>2 DEF RingInStep
    <3>2. pc["isr"] = "receive" /\ pc'["isr"] = "acknowledge" /\ temp' = temp
      BY <1>0, <2>2 DEF ReceiveEnds, At, Goto, RecvTypeOK, Contexts, irqVars
    <3> QED  BY <1>0, <1>2, <1>3, <3>1, <3>2 DEF WaitingIsNoticed
  <2>3. CASE Acknowledge
    <3>1. /\ pc["isr"] = "acknowledge" /\ pc'["isr"] = "idle"
          /\ csr0' = csr0 \ temp /\ late' = late
      BY <1>0, <2>3 DEF Acknowledge, At, Goto, RecvTypeOK, Contexts, recvVars
    <3> QED  BY <1>0, <1>2, <1>3, <3>1 DEF WaitingIsNoticed
  <2> QED  BY <2>1, <2>2, <2>3
<1> QED  BY <1>4, <1>5, <1>6, <1>7 DEF RecvInv

LEMMA RecvInvariance == NicSpec => []RecvInv
<1>1. NicInit => RecvInv
  BY RecvInitially
<1>2. RecvInv /\ [NicNext]_nicVars => RecvInv'
  <2> SUFFICES ASSUME RecvInv, [NicNext]_nicVars
               PROVE  RecvInv'
    OBVIOUS
  <2>0. pc \in [Contexts -> {"idle", "load", "advance", "fill", "hand", "receive",
                           "handling", "acknowledge"}]
    BY DEF RecvInv, RecvTypeOK
  <2>1. ASSUME NEW good \in BOOLEAN, CardReceives(good) PROVE RecvInv'
    BY <2>1, CardReceivesKeepsRecv
  <2>2. CASE CardTransmits
    <3>1. /\ UNCHANGED <<recvVars, temp, pc>> /\ csr0' = csr0 \cup {"TINT"}
      BY <2>2 DEF CardTransmits
    <3> USE DEF recvVars
    <3>2. Taking' <=> Taking
      BY <3>1 DEF Taking
    <3>3. Gone' = Gone /\ Waiting' = Waiting
      BY <3>1, <3>2 DEF Gone, Waiting
    <3>4. csr0' \in SUBSET Statuses
      BY <3>1 DEF RecvInv, RecvTypeOK, Statuses
    <3>5. RecvTypeOK'
      BY <3>1, <3>4, Zenon DEF RecvInv, RecvTypeOK
    <3>6. RingInStep'
      BY <3>1, <3>2, <3>3 DEF RecvInv, RingInStep, Place
    <3>7. WaitingIsNoticed'
      BY <3>1, <3>2, <3>3 DEF RecvInv, WaitingIsNoticed
    <3>8. LoneFrameIntact'
      BY <3>1, <3>3 DEF RecvInv, LoneFrameIntact
    <3> QED  BY <3>5, <3>6, <3>7, <3>8 DEF RecvInv
  <2>3. CASE SendStart
    <3>1. ASSUME NEW c \in Contexts, Pick(c),
                 c = "main" \/ pc["isr"] = "handling"
          PROVE  RecvInv'
      <4>1. UNCHANGED <<recvVars, irqVars>> /\ pc' = [pc EXCEPT ![c] = "load"]
        BY <3>1 DEF Pick, Goto
      <4>2. pc'["isr"] = pc["isr"] \/ (Taking /\ Taking')
        BY <2>0, <3>1, <4>1 DEF Taking, Contexts
      <4> QED  BY <2>0, <4>1, <4>2, SendingKeepsRecv
    <3> QED  BY <2>3, <3>1 DEF SendStart, At, Contexts
  <2>4. ASSUME NEW c \in Contexts, Steps(c) PROVE RecvInv'
    <3>1. /\ UNCHANGED <<recvVars, irqVars>>
          /\ pc[c] \in {"load", "advance", "fill", "hand"}
          /\ \E to \in {"advance", "fill", "hand", IF c = "isr" THEN "handling" ELSE "idle"} :
                pc' = [pc EXCEPT ![c] = to]
      BY <2>4 DEF Steps, Load, Advance, Fill, Hand, At, Goto
    <3>2. pc'["isr"] = pc["isr"] \/ (Taking /\ Taking')
      BY <2>0, <3>1 DEF Taking, Contexts
    <3>3. pc' \in [Contexts -> {"idle", "load", "advance", "fill", "hand", "receive",
                               "handling", "acknowledge"}]
      BY <2>0, <3>1
    <3> QED  BY <3>1, <3>2, <3>3, SendingKeepsRecv
  <2>5. CASE Receive
    BY <2>5, ReceiveKeepsRecv
  <2>6. CASE GiveBack
    BY <2>6, GiveBackKeepsRecv
  <2>7. CASE Interrupt \/ ReceiveEnds \/ Acknowledge
    BY <2>7, HandlerKeepsRecv
  <2>8. CASE UNCHANGED nicVars
    <3>1. UNCHANGED <<recvVars, irqVars, pc>>
      BY <2>8 DEF nicVars
    <3> QED  BY <2>0, <3>1, SendingKeepsRecv
  <2> QED
    BY <2>1, <2>2, <2>3, <2>4, <2>5, <2>6, <2>7, <2>8 DEF NicNext, Card, Handler
<1> QED  BY <1>1, <1>2, PTL DEF NicSpec

(* Driver and card stay in step for rings of any size and any number of
   frames: none is skipped, none taken twice, none out of order. *)
THEOREM RecvOrder == NicSpec => []ReceivedInOrder
<1>1. RecvInv => ReceivedInOrder
  <2> SUFFICES ASSUME RecvInv PROVE ReceivedInOrder
    OBVIOUS
  <2>1. /\ arrived \in Nat /\ handed \in Seq(Nat) /\ Len(handed) \in Nat
        /\ Waiting \in 0 .. RecvRing /\ (Taking => Waiting > 0)
        /\ \A i \in DOMAIN handed : handed[i] = i
    BY DEF RecvInv, RecvTypeOK, RingInStep
  <2>2. Len(handed) <= arrived
    <3>1. CASE Taking
      <4>1. Waiting > 0 /\ Gone = Len(handed) - 1
        BY <2>1, <3>1 DEF Gone
      <4> QED  BY <2>1, <4>1 DEF Waiting
    <3>2. CASE ~ Taking
      BY <2>1, <3>2, RecvRingAssumption DEF Gone, Waiting
    <3> QED  BY <3>1, <3>2
  <2>3. handed = UpTo(Len(handed))
    BY <2>1 DEF UpTo
  <2> QED  BY <2>2, <2>3 DEF ReceivedInOrder
<1> QED  BY <1>1, RecvInvariance, PTL

(* No frame is left in the ring unless it slipped in between the last look of
   Receive and the acknowledge, whatever the card and the main loop do. *)
THEOREM FramesNoticed == NicSpec => []NoFrameStranded
<1>1. RecvInv => NoFrameStranded
  <2> SUFFICES ASSUME RecvInv, csr0 = {}, pc["isr"] = "idle", ~ late
               PROVE  Len(handed) = arrived
    BY DEF NoFrameStranded
  <2>1. Waiting = 0
    BY DEF RecvInv, WaitingIsNoticed
  <2>2. ~ Taking
    BY DEF Taking
  <2>3. arrived \in Nat /\ Len(handed) \in Nat
    BY DEF RecvInv, RecvTypeOK
  <2> QED  BY <2>1, <2>2, <2>3 DEF Gone, Waiting
<1> QED  BY <1>1, RecvInvariance, PTL

(* The frame a handler looks at is whole as long as it never waited with
   another one, wherever the buffers lie and however long frames are. *)
THEOREM FramesIntact == NicSpec => []HandledIntact
<1>1. RecvInv => HandledIntact
  <2> SUFFICES ASSUME RecvInv, pc["isr"] = "handling", ~ crowded
               PROVE  recvBuffers[Address(currentRecv)] = recvDescr[currentRecv].frame
    BY DEF HandledIntact
  <2>1. Taking
    BY DEF Taking
  <2>2. Waiting > 0 /\ Waiting \in 0 .. 1
    BY <2>1 DEF RecvInv, RingInStep, LoneFrameIntact
  <2> QED  BY <2>2 DEF RecvInv, LoneFrameIntact
<1> QED  BY <1>1, RecvInvariance, PTL

-----------------------------------------------------------------------------
(* The send ring. *)

SendTypeOK ==
  /\ sendDescr \in [SendIndex -> [own : {"card", "driver"}, frame : Nat]]
  /\ sendBuffers \in [Addresses(SendIndex) -> Nat]
  /\ currentSend \in SendIndex /\ cardSend \in SendIndex
  /\ sends \in Nat
  /\ wire \in Seq([frame : Nat, content : Nat])
  /\ sending \in [Contexts -> [frame : Nat, descr : SendIndex, next : SendIndex]]
  /\ pc \in [Contexts -> {"idle", "load", "advance", "fill", "hand", "receive",
                          "handling", "acknowledge"}]

(* A call of Send is under way, has not moved the index on yet, has not
   copied its frame yet. *)
InSend(c) == pc[c] \in {"load", "advance", "fill", "hand"}
Picking(c) == pc[c] \in {"load", "advance"}
Early(c) == pc[c] \in {"load", "advance", "fill"}

Holds(c, f) == InSend(c) /\ sending[c].frame = f
HeldBySend(f) == \E c \in Contexts : Holds(c, f)

(* The descriptor of frame f when the card has sent some frames and looks at
   descriptor first next. *)
SlotFrom(first, sent, f) == Wrapped(first + (f - sent - 1), SendRing)
Slot(f) == SlotFrom(cardSend, Len(wire), f)

(* The handler's frame is the younger one, in another place of the ring. *)
SendersInStep ==
  /\ Len(wire) <= sends
  /\ \A c \in Contexts : InSend(c) =>
       /\ sending[c].frame \in Len(wire) + 1 .. sends
       /\ sending[c].descr = Slot(sending[c].frame)
  /\ InSend("main") /\ InSend("isr") =>
       /\ ~ Picking("main")
       /\ sending["main"].descr # sending["isr"].descr
       /\ sending["main"].frame < sending["isr"].frame

(* The index is at the youngest frame while it is being picked, and at the
   next one otherwise. *)
IndexInStep ==
  /\ \A c \in Contexts : Picking(c) =>
       sending[c].frame = sends /\ currentSend = Slot(sends)
  /\ \A c \in Contexts : pc[c] = "advance" => sending[c].next = Slot(sends + 1)
  /\ (\A c \in Contexts : ~ Picking(c)) => currentSend = Slot(sends + 1)

(* What has been copied fits into the ring. *)
CopiedFits ==
  \A f \in 1 .. sends :
    (\A c \in Contexts : Early(c) => sending[c].frame # f) => f <= Len(wire) + SendRing

(* The card owns exactly the descriptors of the frames that were given to it
   and are not on the wire yet. *)
DescriptorsInStep ==
  /\ \A j \in SendIndex : sendDescr[j].own = "card" =>
       /\ sendDescr[j].frame \in Len(wire) + 1 .. sends
       /\ Slot(sendDescr[j].frame) = j
       /\ ~ HeldBySend(sendDescr[j].frame)
  /\ \A f \in Len(wire) + 1 .. sends : ~ HeldBySend(f) =>
       sendDescr[Slot(f)].own = "card" /\ sendDescr[Slot(f)].frame = f

WireInStep == \A i \in DOMAIN wire : wire[i].frame = i

Orderly ==
  SendersInStep /\ IndexInStep /\ CopiedFits /\ DescriptorsInStep /\ WireInStep

RingOrderly == ~ clash /\ ~ overrun => Orderly

(* With one frame at a time in the ring what is sent is what was copied. *)
CopiesIntact ==
  ~ pressed =>
    /\ \A j \in SendIndex : sendDescr[j].own = "card" =>
         sendBuffers[Address(j)] = sendDescr[j].frame
    /\ \A c \in Contexts : pc[c] = "hand" =>
         sendBuffers[Address(sending[c].descr)] = sending[c].frame
    /\ \A i \in DOMAIN wire : wire[i].content = wire[i].frame

SendInv == SendTypeOK /\ RingOrderly /\ CopiesIntact

LEMMA SendTypes ==
  ASSUME SendTypeOK, [NicNext]_nicVars
  PROVE  SendTypeOK'
<1> USE SendRingAssumption DEF SendTypeOK
<1>1. \A i \in SendIndex : (i + 1) % SendRing \in SendIndex
  BY Remainder DEF SendIndex
<1>2. ASSUME NEW good \in BOOLEAN, CardReceives(good) PROVE SendTypeOK'
  BY <1>2, Zenon DEF CardReceives, sendVars
<1>3. CASE CardTransmits
  <2>1. sendDescr' \in [SendIndex -> [own : {"card", "driver"}, frame : Nat]]
    BY <1>3 DEF CardTransmits
  <2>2. sendBuffers[Address(cardSend)] \in Nat
    <3>1. Address(cardSend) \in Addresses(SendIndex)
      BY DEF Addresses
    <3> QED  BY <3>1
  <2>3. [frame |-> sendDescr[cardSend].frame, content |-> sendBuffers[Address(cardSend)]]
           \in [frame : Nat, content : Nat]
    BY <2>2
  <2>4. wire' \in Seq([frame : Nat, content : Nat])
    BY <1>3, <2>3 DEF CardTransmits
  <2>5. cardSend' \in SendIndex
    BY <1>1, <1>3 DEF CardTransmits
  <2> QED  BY <1>3, <2>1, <2>4, <2>5, Zenon DEF CardTransmits
<1>4. ASSUME NEW c \in Contexts, Pick(c) PROVE SendTypeOK'
  <2>1. sends' \in Nat
    BY <1>4 DEF Pick
  <2>2. sending' \in [Contexts -> [frame : Nat, descr : SendIndex, next : SendIndex]]
    <3> DEFINE numbered == [sending EXCEPT ![c].frame = sends']
    <3>1. numbered \in [Contexts -> [frame : Nat, descr : SendIndex, next : SendIndex]]
      BY <2>1
    <3>2. sending' = [numbered EXCEPT ![c].descr = currentSend]
      BY <1>4 DEF Pick
    <3> HIDE DEF numbered
    <3> QED  BY <3>1, <3>2
  <2>3. pc' \in [Contexts -> {"idle", "load", "advance", "fill", "hand", "receive",
                             "handling", "acknowledge"}]
    BY <1>4 DEF Pick, Goto
  <2> QED  BY <1>4, <2>1, <2>2, <2>3, Zenon DEF Pick
<1>5. ASSUME NEW c \in Contexts, Steps(c) PROVE SendTypeOK'
  <2>1. CASE Load(c)
    <3>1. sending' \in [Contexts -> [frame : Nat, descr : SendIndex, next : SendIndex]]
      BY <1>1, <2>1 DEF Load
    <3>2. pc' \in [Contexts -> {"idle", "load", "advance", "fill", "hand", "receive",
                               "handling", "acknowledge"}]
      BY <2>1 DEF Load, Goto
    <3> QED  BY <2>1, <3>1, <3>2, Zenon DEF Load
  <2>2. CASE Advance(c)
    <3>1. currentSend' \in SendIndex
      BY <1>5, <2>2 DEF Advance
    <3>2. pc' \in [Contexts -> {"idle", "load", "advance", "fill", "hand", "receive",
                               "handling", "acknowledge"}]
      BY <2>2 DEF Advance, Goto
    <3> QED  BY <2>2, <3>1, <3>2, Zenon DEF Advance
  <2>3. CASE Fill(c)
    <3>1. sendBuffers' \in [Addresses(SendIndex) -> Nat]
      BY <1>5, <2>3 DEF Fill, Store, Damaged
    <3>2. pc' \in [Contexts -> {"idle", "load", "advance", "fill", "hand", "receive",
                               "handling", "acknowledge"}]
      BY <2>3 DEF Fill, Goto
    <3> QED  BY <2>3, <3>1, <3>2, Zenon DEF Fill
  <2>4. CASE Hand(c)
    <3>1. sendDescr' \in [SendIndex -> [own : {"card", "driver"}, frame : Nat]]
      BY <1>5, <2>4 DEF Hand
    <3>2. pc' \in [Contexts -> {"idle", "load", "advance", "fill", "hand", "receive",
                               "handling", "acknowledge"}]
      BY <2>4 DEF Hand, Goto
    <3> QED  BY <2>4, <3>1, <3>2, Zenon DEF Hand
  <2> QED  BY <1>5, <2>1, <2>2, <2>3, <2>4 DEF Steps
<1>6. CASE Handler
  <2>1. UNCHANGED sendVars
    BY <1>6 DEF Handler, Interrupt, Receive, GiveBack, ReceiveEnds, Acknowledge
  <2>2. pc' \in [Contexts -> {"idle", "load", "advance", "fill", "hand", "receive",
                             "handling", "acknowledge"}]
    BY <1>6 DEF Handler, Interrupt, Receive, GiveBack, ReceiveEnds, Acknowledge, Goto
  <2> QED  BY <2>1, <2>2, Zenon DEF sendVars
<1>7. CASE UNCHANGED nicVars
  BY <1>7, Zenon DEF nicVars, sendVars
<1> QED
  BY <1>2, <1>3, <1>4, <1>5, <1>6, <1>7 DEF NicNext, Card, SendStart, At, Contexts

LEMMA SendingCopies ==
  ASSUME SendTypeOK, CopiesIntact, [NicNext]_nicVars
  PROVE  CopiesIntact'
<1> SUFFICES ASSUME ~ pressed'
             PROVE  /\ \A j \in SendIndex : sendDescr'[j].own = "card" =>
                         sendBuffers'[Address(j)] = sendDescr'[j].frame
                    /\ \A c \in Contexts : pc'[c] = "hand" =>
                         sendBuffers'[Address(sending'[c].descr)] = sending'[c].frame
                    /\ \A i \in DOMAIN wire' : wire'[i].content = wire'[i].frame
  BY DEF CopiesIntact
<1>1. ~ pressed
  <2>1. CASE UNCHANGED nicVars
    BY <2>1 DEF nicVars, sendVars
  <2> QED  BY <2>1 DEF NicNext, Card, CardReceives, CardTransmits, SendStart, Pick, Steps,
     Load, Advance, Fill, Hand, Copying, Handler, Interrupt, Receive, GiveBack,
     ReceiveEnds, Acknowledge, sendVars
<1>2. /\ \A j \in SendIndex : sendDescr[j].own = "card" =>
            sendBuffers[Address(j)] = sendDescr[j].frame
      /\ \A c \in Contexts : pc[c] = "hand" =>
            sendBuffers[Address(sending[c].descr)] = sending[c].frame
      /\ \A i \in DOMAIN wire : wire[i].content = wire[i].frame
  BY <1>1 DEF CopiesIntact
<1> USE DEF SendTypeOK
<1>3. ASSUME UNCHANGED <<sendDescr, sendBuffers, wire>>,
             \A c \in Contexts : pc'[c] = "hand" => pc[c] = "hand" /\ sending'[c] = sending[c]
      PROVE  /\ \A j \in SendIndex : sendDescr'[j].own = "card" =>
                  sendBuffers'[Address(j)] = sendDescr'[j].frame
             /\ \A c \in Contexts : pc'[c] = "hand" =>
                  sendBuffers'[Address(sending'[c].descr)] = sending'[c].frame
             /\ \A i \in DOMAIN wire' : wire'[i].content = wire'[i].frame
  BY <1>2, <1>3
<1>4. ASSUME NEW good \in BOOLEAN, CardReceives(good)
      PROVE  /\ UNCHANGED <<sendDescr, sendBuffers, wire>>
             /\ \A c \in Contexts : pc'[c] = "hand" => pc[c] = "hand" /\ sending'[c] = sending[c]
  BY <1>4 DEF CardReceives, sendVars
<1>5. ASSUME NEW c \in Contexts, Pick(c) \/ Load(c) \/ Advance(c)
      PROVE  /\ UNCHANGED <<sendDescr, sendBuffers, wire>>
             /\ \A d \in Contexts : pc'[d] = "hand" => pc[d] = "hand" /\ sending'[d] = sending[d]
  BY <1>5 DEF Pick, Load, Advance, Goto
<1>6. CASE Handler \/ UNCHANGED nicVars
  <2>1. UNCHANGED sendVars
    BY <1>6 DEF Handler, Interrupt, Receive, GiveBack, ReceiveEnds, Acknowledge, nicVars
  <2>2. \A d \in Contexts : pc'[d] = "hand" => pc[d] = "hand"
    BY <1>6 DEF Handler, Interrupt, Receive, GiveBack, ReceiveEnds, Acknowledge, Goto, nicVars
  <2> QED  BY <1>3, <2>1, <2>2 DEF sendVars
<1>7. CASE CardTransmits
  <2>1. /\ sendDescr' = [sendDescr EXCEPT ![cardSend].own = "driver"]
        /\ UNCHANGED <<sendBuffers, sending, pc>>
        /\ wire' = Append(wire, [frame |-> sendDescr[cardSend].frame,
                                 content |-> sendBuffers[Address(cardSend)]])
        /\ sendBuffers[Address(cardSend)] = sendDescr[cardSend].frame
    BY <1>2, <1>7 DEF CardTransmits
  <2>2. \A j \in SendIndex : sendDescr'[j].own = "card" => sendDescr'[j] = sendDescr[j]
    BY <2>1
  <2>3. ASSUME NEW i \in DOMAIN wire' PROVE wire'[i].content = wire'[i].frame
    <3>1. CASE i = Len(wire) + 1
      BY <2>1, <3>1
    <3>2. CASE i # Len(wire) + 1
      <4>1. i \in DOMAIN wire /\ wire'[i] = wire[i]
        BY <2>1, <3>2
      <4> QED  BY <1>2, <4>1
    <3> QED  BY <3>1, <3>2
  <2> QED  BY <1>2, <2>1, <2>2, <2>3
<1>8. ASSUME NEW c \in Contexts, Fill(c)
      PROVE  /\ \A j \in SendIndex : sendDescr'[j].own = "card" =>
                  sendBuffers'[Address(j)] = sendDescr'[j].frame
             /\ \A d \in Contexts : pc'[d] = "hand" =>
                  sendBuffers'[Address(sending'[d].descr)] = sending'[d].frame
             /\ \A i \in DOMAIN wire' : wire'[i].content = wire'[i].frame
  <2>1. /\ \A j \in SendIndex : sendDescr[j].own # "card"
        /\ UNCHANGED <<sendDescr, sending, wire>>
        /\ pc' = [pc EXCEPT ![c] = "hand"]
        /\ sendBuffers' = Store(sendBuffers, sending[c].descr, sending[c].frame)
    BY <1>8 DEF Fill, Copying, Goto
  <2>2. ASSUME NEW d \in Contexts, d # c PROVE pc'[d] # "hand"
    <3>1. CASE c = "isr"
      BY <1>8, <2>1, <2>2, <3>1 DEF Fill, Copying, Contexts
    <3>2. CASE c = "main"
      BY <1>8, <2>1, <2>2, <3>2 DEF Fill, At, Runs, Contexts
    <3> QED  BY <3>1, <3>2 DEF Contexts
  <2>3. sendBuffers'[Address(sending[c].descr)] = sending[c].frame
    <3>1. Address(sending[c].descr) \in Addresses(SendIndex)
      BY <1>8 DEF Addresses
    <3> QED  BY <2>1, <3>1 DEF Store
  <2> QED  BY <1>2, <2>1, <2>2, <2>3
<1>9. ASSUME NEW c \in Contexts, Hand(c)
      PROVE  /\ \A j \in SendIndex : sendDescr'[j].own = "card" =>
                  sendBuffers'[Address(j)] = sendDescr'[j].frame
             /\ \A d \in Contexts : pc'[d] = "hand" =>
                  sendBuffers'[Address(sending'[d].descr)] = sending'[d].frame
             /\ \A i \in DOMAIN wire' : wire'[i].content = wire'[i].frame
  <2>1. /\ sendDescr' = [sendDescr EXCEPT ![sending[c].descr] =
                           [own |-> "card", frame |-> sending[c].frame]]
        /\ pc[c] = "hand" /\ UNCHANGED <<sendBuffers, sending, wire>>
    BY <1>9 DEF Hand, At
  <2>2. \A d \in Contexts : pc'[d] = "hand" => pc[d] = "hand"
    BY <1>9 DEF Hand, Goto
  <2>3. ASSUME NEW j \in SendIndex, sendDescr'[j].own = "card"
        PROVE  sendBuffers'[Address(j)] = sendDescr'[j].frame
    <3>1. CASE j = sending[c].descr
      BY <1>2, <2>1, <3>1
    <3>2. CASE j # sending[c].descr
      <4>1. sendDescr'[j] = sendDescr[j]
        BY <2>1, <3>2
      <4> QED  BY <1>2, <2>1, <2>3, <4>1
    <3> QED  BY <3>1, <3>2
  <2> QED  BY <1>2, <2>1, <2>2, <2>3
<1> QED
  BY <1>3, <1>4, <1>5, <1>6, <1>7, <1>8, <1>9
     DEF NicNext, Card, SendStart, Steps, At, Contexts

(* No more than two frames are ahead of what the ring holds, and then the ring
   has room for two: the positions stay within three turns. *)
LEMMA Window ==
  ASSUME SendTypeOK, SendersInStep, CopiedFits
  PROVE  Len(wire) \in Nat /\ cardSend + (sends - Len(wire)) < 3 * SendRing
<1> DEFINE w == Len(wire)
<1> USE SendRingAssumption
<1>1. w \in Nat /\ sends \in Nat /\ cardSend \in 0 .. SendRing - 1 /\ w <= sends
  BY DEF SendTypeOK, SendersInStep, SendIndex
<1> HIDE DEF w
<1>2. CASE sends <= w + SendRing + 1
  BY <1>1, <1>2 DEF w
<1>3. CASE sends > w + SendRing + 1
  <2>1. ASSUME NEW f \in 1 .. sends, f > w + SendRing
        PROVE  \E c \in Contexts : Early(c) /\ sending[c].frame = f
    <3>1. ~ (f <= w + SendRing)
      BY <1>1, <2>1
    <3> QED  BY <2>1, <3>1 DEF CopiedFits, w
  <2>2. sends \in 1 .. sends /\ sends > w + SendRing
    BY <1>1, <1>3
  <2>3. sends - 1 \in 1 .. sends /\ sends - 1 > w + SendRing
    BY <1>1, <1>3
  <2>4. PICK c \in Contexts : Early(c) /\ sending[c].frame = sends
    BY <2>1, <2>2
  <2>5. PICK d \in Contexts : Early(d) /\ sending[d].frame = sends - 1
    BY <2>1, <2>3
  <2>6. c # d /\ Contexts = {c, d}
    <3>1. sends # sends - 1
      BY <1>1
    <3>2. c # d
      BY <2>4, <2>5, <3>1
    <3> QED  BY <3>2 DEF Contexts
  <2>7. InSend("main") /\ InSend("isr")
    BY <2>4, <2>5, <2>6 DEF Early, InSend, Contexts
  <2>8. SendRing >= 2
    <3>1. sending["main"].descr # sending["isr"].descr
      BY <2>7 DEF SendersInStep
    <3>2. sending["main"].descr \in 0 .. SendRing - 1 /\ sending["isr"].descr \in 0 .. SendRing - 1
      BY DEF SendTypeOK, SendIndex, Contexts
    <3> QED  BY <3>1, <3>2
  <2>9. sends - 2 <= w + SendRing
    <3> SUFFICES ASSUME sends - 2 > w + SendRing PROVE FALSE
      BY <1>1
    <3>1. sends - 2 \in 1 .. sends
      BY <1>1, <1>3
    <3>2. PICK e \in Contexts : Early(e) /\ sending[e].frame = sends - 2
      BY <2>1, <3>1
    <3>3. sending[e].frame # sends /\ sending[e].frame # sends - 1
      BY <1>1, <3>2
    <3> QED  BY <2>4, <2>5, <2>6, <3>3
  <2> QED  BY <1>1, <2>8, <2>9 DEF w
<1> QED  BY <1>1, <1>2, <1>3 DEF w

LEMMA Slots ==
  ASSUME SendTypeOK, SendersInStep, CopiedFits
  PROVE  /\ \A f \in Len(wire) + 1 .. sends + 1 : Slot(f) \in SendIndex
         /\ Slot(Len(wire) + 1) = cardSend
         /\ \A f \in Len(wire) + 1 .. sends : (Slot(f) + 1) % SendRing = Slot(f + 1)
         /\ \A f, g \in Len(wire) + 1 .. sends + 1 :
              f < g /\ g < f + SendRing => Slot(f) # Slot(g)
         /\ \A f \in Len(wire) + 1 .. sends :
              f > Len(wire) + SendRing => Slot(f - SendRing) = Slot(f)
         /\ \A f \in Len(wire) + 2 .. sends + 1 :
              Wrapped(((cardSend + 1) % SendRing) + (f - (Len(wire) + 1) - 1), SendRing) = Slot(f)
<1> DEFINE w == Len(wire)
<1> USE SendRingAssumption
<1>1. /\ w \in Nat /\ sends \in Nat /\ cardSend \in 0 .. SendRing - 1
      /\ cardSend + (sends - w) < 3 * SendRing
  BY Window DEF SendTypeOK, SendIndex
<1> HIDE DEF w
<1>2. ASSUME NEW f \in w + 1 .. sends + 1 PROVE Slot(f) \in SendIndex
  <2>1. cardSend + (f - w - 1) \in 0 .. 3 * SendRing - 1
    BY <1>1, <1>2
  <2>2. Wrapped(cardSend + (f - w - 1), SendRing) \in 0 .. SendRing - 1
    BY <2>1, WrappedInRange
  <2> QED  BY <2>2 DEF SlotFrom, Slot, SendIndex, w
<1>3. Slot(w + 1) = cardSend
  <2>1. cardSend + ((w + 1) - w - 1) = cardSend /\ Wrapped(cardSend, SendRing) = cardSend
    BY <1>1 DEF Wrapped
  <2> QED  BY <2>1 DEF SlotFrom, Slot, w
<1>4. ASSUME NEW f \in w + 1 .. sends PROVE (Slot(f) + 1) % SendRing = Slot(f + 1)
  <2>1. /\ cardSend + (f - w - 1) \in 0 .. 3 * SendRing - 2
        /\ (cardSend + (f - w - 1)) + 1 = cardSend + ((f + 1) - w - 1)
    BY <1>1, <1>4
  <2>2. (Wrapped(cardSend + (f - w - 1), SendRing) + 1) % SendRing
           = Wrapped((cardSend + (f - w - 1)) + 1, SendRing)
    BY <2>1, WrappedNext
  <2> QED  BY <2>1, <2>2 DEF SlotFrom, Slot, w
<1>5. ASSUME NEW f \in w + 1 .. sends + 1, NEW g \in w + 1 .. sends + 1,
             f < g, g < f + SendRing
      PROVE  Slot(f) # Slot(g)
  <2> DEFINE x == cardSend + (f - w - 1)
             y == cardSend + (g - w - 1)
  <2>1. x \in Nat /\ y \in Nat /\ x < y /\ y < x + SendRing /\ y < 3 * SendRing
    BY <1>1, <1>5
  <2> HIDE DEF x, y
  <2>2. Wrapped(x, SendRing) # Wrapped(y, SendRing)
    BY <2>1, WrappedApart
  <2> QED  BY <2>2 DEF SlotFrom, Slot, w, x, y
<1>6. ASSUME NEW f \in w + 1 .. sends, f > w + SendRing
      PROVE  Slot(f - SendRing) = Slot(f)
  <2> DEFINE x == cardSend + ((f - SendRing) - w - 1)
  <2>1. x \in 0 .. 2 * SendRing - 1 /\ x + SendRing = cardSend + (f - w - 1)
    BY <1>1, <1>6
  <2> HIDE DEF x
  <2>2. Wrapped(x + SendRing, SendRing) = Wrapped(x, SendRing)
    BY <2>1, WrappedTurn
  <2>3. Wrapped(cardSend + (f - w - 1), SendRing) = Wrapped(x, SendRing)
    BY <2>1, <2>2
  <2> QED  BY <2>3 DEF SlotFrom, Slot, w, x
<1>7. ASSUME NEW f \in w + 2 .. sends + 1
      PROVE  Wrapped(((cardSend + 1) % SendRing) + (f - (w + 1) - 1), SendRing) = Slot(f)
  <2> DEFINE o == f - (w + 1) - 1
  <2>1. o \in Nat /\ cardSend + o + 1 < 3 * SendRing
        /\ cardSend + (o + 1) = cardSend + (f - w - 1)
    BY <1>1, <1>7
  <2> HIDE DEF o
  <2>2. Wrapped(((cardSend + 1) % SendRing) + o, SendRing) = Wrapped(cardSend + (o + 1), SendRing)
    BY <1>1, <2>1, WrappedShift
  <2> QED  BY <2>1, <2>2 DEF SlotFrom, Slot, w, o
<1> QED  BY <1>2, <1>3, <1>4, <1>5, <1>6, <1>7 DEF w

(* Steps that change neither ring nor the place of any call of Send. *)
LEMMA QuietStepsKeepOrder ==
  ASSUME SendTypeOK, Orderly,
         UNCHANGED <<sendDescr, currentSend, cardSend, sends, wire, sending>>,
         \A c \in Contexts : /\ Early(c)' <=> Early(c)
                             /\ Picking(c)' <=> Picking(c)
                             /\ InSend(c)' <=> InSend(c)
                             /\ pc'[c] = "advance" <=> pc[c] = "advance"
  PROVE  Orderly'
<1>1. \A f : Slot(f)' = Slot(f)
  BY DEF Slot
<1>2. \A f : HeldBySend(f)' <=> HeldBySend(f)
  BY DEF HeldBySend, Holds
<1>3. SendersInStep'
  BY <1>1 DEF Orderly, SendersInStep, Contexts
<1>4. IndexInStep'
  BY <1>1 DEF Orderly, IndexInStep
<1>5. CopiedFits'
  BY DEF Orderly, CopiedFits
<1>6. DescriptorsInStep'
  BY <1>1, <1>2 DEF Orderly, DescriptorsInStep
<1>7. WireInStep'
  BY DEF Orderly, WireInStep
<1> QED  BY <1>3, <1>4, <1>5, <1>6, <1>7 DEF Orderly

(* A frame nobody is still copying fits, so two waiting frames lie apart. *)
LEMMA CardTransmitsKeepsOrder ==
  ASSUME SendTypeOK, Orderly, CardTransmits
  PROVE  Orderly'
<1> DEFINE w == Len(wire)
<1>0. SendersInStep /\ IndexInStep /\ CopiedFits /\ DescriptorsInStep /\ WireInStep
  BY DEF Orderly
<1>1. w \in Nat /\ sends \in Nat /\ SendRing \in Nat \ {0} /\ cardSend \in SendIndex
  BY SendRingAssumption DEF SendTypeOK
<1>2. /\ sendDescr[cardSend].own = "card"
      /\ wire' = Append(wire, [frame |-> sendDescr[cardSend].frame,
                               content |-> sendBuffers[Address(cardSend)]])
      /\ sendDescr' = [sendDescr EXCEPT ![cardSend].own = "driver"]
      /\ cardSend' = (cardSend + 1) % SendRing
      /\ UNCHANGED <<currentSend, sends, sending, pc>>
  BY DEF CardTransmits
<1>3. Len(wire') = w + 1
  BY <1>2 DEF SendTypeOK
<1> HIDE DEF w
<1>5. ASSUME NEW f \in w + 1 .. sends, ~ HeldBySend(f), f # w + 1
      PROVE  Slot(f) # cardSend
  <2>1. \A c \in Contexts : Early(c) => sending[c].frame # f
    BY <1>5 DEF HeldBySend, Holds, Early, InSend
  <2>2. f <= w + SendRing
    BY <1>0, <1>1, <1>5, <2>1 DEF CopiedFits, w
  <2>3. f \in w + 1 .. sends + 1 /\ w + 1 \in w + 1 .. sends + 1
        /\ w + 1 < f /\ f < (w + 1) + SendRing
    BY <1>1, <1>5, <2>2
  <2>4. Slot(w + 1) # Slot(f) /\ Slot(w + 1) = cardSend
    BY <1>0, <2>3, Slots DEF w
  <2> QED  BY <2>4
<1>6. /\ sendDescr[cardSend].frame = w + 1 /\ w + 1 \in w + 1 .. sends
      /\ ~ HeldBySend(w + 1)
  <2>1. /\ sendDescr[cardSend].frame \in w + 1 .. sends
        /\ Slot(sendDescr[cardSend].frame) = cardSend
        /\ ~ HeldBySend(sendDescr[cardSend].frame)
    BY <1>0, <1>1, <1>2 DEF DescriptorsInStep, w
  <2>2. sendDescr[cardSend].frame = w + 1
    BY <1>5, <2>1
  <2> QED  BY <2>1, <2>2
<1>7. \A f \in w + 2 .. sends + 1 : SlotFrom(cardSend', w + 1, f) = Slot(f)
  <2> SUFFICES ASSUME NEW f \in w + 2 .. sends + 1
               PROVE  SlotFrom(cardSend', w + 1, f) = Slot(f)
    OBVIOUS
  <2>1. Wrapped(((cardSend + 1) % SendRing) + (f - (w + 1) - 1), SendRing) = Slot(f)
    BY <1>0, Slots DEF w
  <2> QED  BY <1>2, <2>1 DEF SlotFrom
<1>8. ASSUME NEW c \in Contexts, InSend(c)
      PROVE  sending[c].frame \in w + 2 .. sends
  <2>1. sending[c].frame \in w + 1 .. sends /\ sending[c].frame # w + 1
    BY <1>0, <1>6, <1>8 DEF SendersInStep, HeldBySend, Holds, w
  <2> QED  BY <1>1, <2>1
<1>9. \A c \in Contexts : /\ InSend(c)' <=> InSend(c)
                          /\ Picking(c)' <=> Picking(c)
                          /\ Early(c)' <=> Early(c)
                          /\ Picking(c) => InSend(c)
                          /\ pc[c] = "advance" => InSend(c)
  BY <1>2 DEF InSend, Picking, Early
<1>10. SendersInStep'
  <2>1. Len(wire)' <= sends' /\ sends' = sends
    BY <1>1, <1>2, <1>3, <1>6
  <2>2. ASSUME NEW c \in Contexts, InSend(c)
        PROVE  /\ sending'[c].frame \in Len(wire)' + 1 .. sends'
               /\ sending'[c].descr = SlotFrom(cardSend', w + 1, sending'[c].frame)
    <3>1. sending[c].frame \in w + 2 .. sends /\ sending[c].descr = Slot(sending[c].frame)
      BY <1>0, <1>8, <2>2 DEF SendersInStep
    <3>2. sending[c].frame \in w + 2 .. sends + 1
      BY <1>1, <3>1
    <3>3. Len(wire)' + 1 = w + 2
      BY <1>1, <1>3
    <3>4. SlotFrom(cardSend', w + 1, sending[c].frame) = Slot(sending[c].frame)
      BY <1>7, <3>2
    <3> QED  BY <1>2, <3>1, <3>3, <3>4
  <2>3. InSend("main") /\ InSend("isr") =>
          /\ ~ Picking("main")
          /\ sending'["main"].descr # sending'["isr"].descr
          /\ sending'["main"].frame < sending'["isr"].frame
    BY <1>0, <1>2 DEF SendersInStep
  <2>4. "main" \in Contexts /\ "isr" \in Contexts
    BY DEF Contexts
  <2> QED  BY <1>3, <1>9, <2>1, <2>2, <2>3, <2>4 DEF SendersInStep, Slot
<1>11. IndexInStep'
  <2>1. ASSUME NEW c \in Contexts, Picking(c)
        PROVE  SlotFrom(cardSend', w + 1, sends) = Slot(sends)
    <3>1. sends \in w + 2 .. sends + 1
      BY <1>0, <1>1, <1>8, <1>9, <2>1 DEF IndexInStep
    <3> QED  BY <1>7, <3>1
  <2>2. SlotFrom(cardSend', w + 1, sends + 1) = Slot(sends + 1)
    <3>1. sends + 1 \in w + 2 .. sends + 1
      BY <1>1, <1>6
    <3> QED  BY <1>7, <3>1
  <2>3. ASSUME NEW c \in Contexts, Picking(c)
        PROVE  sending'[c].frame = sends' /\ currentSend' = SlotFrom(cardSend', w + 1, sends')
    BY <1>0, <1>2, <2>1, <2>3 DEF IndexInStep
  <2>4. ASSUME NEW c \in Contexts, pc[c] = "advance"
        PROVE  sending'[c].next = SlotFrom(cardSend', w + 1, sends' + 1)
    BY <1>0, <1>2, <2>2, <2>4 DEF IndexInStep
  <2>5. (\A c \in Contexts : ~ Picking(c)) =>
          currentSend' = SlotFrom(cardSend', w + 1, sends' + 1)
    BY <1>0, <1>2, <2>2 DEF IndexInStep
  <2> QED  BY <1>2, <1>3, <1>9, <2>3, <2>4, <2>5 DEF IndexInStep, Slot
<1>12. CopiedFits'
  <2> SUFFICES ASSUME NEW f \in 1 .. sends,
                      \A c \in Contexts : Early(c) => sending[c].frame # f
               PROVE  f <= (w + 1) + SendRing
    BY <1>2, <1>3, <1>9 DEF CopiedFits
  <2>1. f <= w + SendRing
    BY <1>0 DEF CopiedFits, w
  <2> QED  BY <1>1, <2>1
<1>13. DescriptorsInStep'
  <2>1. ASSUME NEW j \in SendIndex, sendDescr'[j].own = "card"
        PROVE  /\ sendDescr'[j].frame \in Len(wire)' + 1 .. sends'
               /\ SlotFrom(cardSend', w + 1, sendDescr'[j].frame) = j
               /\ ~ HeldBySend(sendDescr'[j].frame)
    <3>1. j # cardSend /\ sendDescr'[j] = sendDescr[j] /\ sendDescr[j].own = "card"
      BY <1>2, <2>1 DEF SendTypeOK
    <3> DEFINE f == sendDescr[j].frame
    <3>2. f \in w + 1 .. sends /\ Slot(f) = j /\ ~ HeldBySend(f)
      BY <1>0, <3>1 DEF DescriptorsInStep, w
    <3>3. f # w + 1
      BY <1>0, <3>1, <3>2, Slots DEF w
    <3> HIDE DEF f
    <3>4. f \in w + 2 .. sends /\ f \in w + 2 .. sends + 1
      BY <1>1, <3>2, <3>3
    <3>5. sendDescr'[j].frame = f
      BY <3>1 DEF f
    <3>6. sendDescr'[j].frame \in Len(wire)' + 1 .. sends'
      BY <1>1, <1>2, <1>3, <3>4, <3>5
    <3>7. SlotFrom(cardSend', w + 1, sendDescr'[j].frame) = j
      BY <1>7, <3>2, <3>4, <3>5
    <3>8. ~ HeldBySend(sendDescr'[j].frame)
      BY <3>2, <3>5
    <3> QED  BY <3>6, <3>7, <3>8
  <2>2. ASSUME NEW f \in Len(wire)' + 1 .. sends', ~ HeldBySend(f)
        PROVE  /\ sendDescr'[SlotFrom(cardSend', w + 1, f)].own = "card"
               /\ sendDescr'[SlotFrom(cardSend', w + 1, f)].frame = f
    <3>1. f \in w + 1 .. sends /\ f # w + 1 /\ f \in w + 2 .. sends + 1
          /\ f \in w + 1 .. sends + 1
      BY <1>1, <1>2, <1>3, <2>2
    <3>2. ~ HeldBySend(f) /\ SlotFrom(cardSend', w + 1, f) = Slot(f)
      BY <1>7, <2>2, <3>1
    <3>3. Slot(f) # cardSend /\ Slot(f) \in SendIndex
      BY <1>0, <1>5, <3>1, <3>2, Slots DEF w
    <3>4. sendDescr[Slot(f)].own = "card" /\ sendDescr[Slot(f)].frame = f
      BY <1>0, <3>1, <3>2 DEF DescriptorsInStep, w
    <3> QED  BY <1>2, <3>2, <3>3, <3>4 DEF SendTypeOK
  <2> QED
    BY <1>2, <1>3, <2>1, <2>2 DEF DescriptorsInStep, Slot, HeldBySend, Holds, InSend
<1>14. WireInStep'
  <2>1. ASSUME NEW i \in DOMAIN wire' PROVE wire'[i].frame = i
    <3>1. CASE i = w + 1
      BY <1>2, <1>6, <3>1 DEF SendTypeOK, w
    <3>2. CASE i # w + 1
      <4>1. i \in DOMAIN wire /\ wire'[i] = wire[i]
        BY <1>2, <2>1, <3>2 DEF SendTypeOK, w
      <4> QED  BY <1>0, <4>1 DEF WireInStep
    <3> QED  BY <3>1, <3>2
  <2> QED  BY <2>1 DEF WireInStep
<1> QED  BY <1>10, <1>11, <1>12, <1>13, <1>14 DEF Orderly

(* A call that starts takes the next frame and the index; unless a flag says
   so, no other call is picking and the main loop's descriptor is another. *)
LEMMA PickKeepsOrder ==
  ASSUME SendTypeOK, Orderly, NEW c \in Contexts, Pick(c), Runs(c), ~ InSend(c),
         ~ clash', ~ overrun'
  PROVE  Orderly'
<1>0. SendersInStep /\ IndexInStep /\ CopiedFits /\ DescriptorsInStep /\ WireInStep
  BY DEF Orderly
<1>1. /\ sends' = sends + 1 /\ sends \in Nat /\ Len(wire) \in Nat /\ Len(wire) <= sends
      /\ pc' = [pc EXCEPT ![c] = "load"]
      /\ UNCHANGED <<sendDescr, currentSend, cardSend, wire>>
  BY <1>0 DEF Pick, Goto, SendTypeOK, SendersInStep
<1>2. /\ sending'[c].frame = sends + 1 /\ sending'[c].descr = currentSend
      /\ \A d \in Contexts : d # c => sending'[d] = sending[d]
  BY DEF Pick, SendTypeOK
<1>3. /\ InSend(c)' /\ Picking(c)' /\ Early(c)' /\ pc'[c] # "advance"
      /\ ~ Picking(c) /\ ~ Early(c)
  BY <1>1 DEF InSend, Picking, Early, SendTypeOK
<1>4. ASSUME NEW d \in Contexts, d # c
      PROVE  /\ InSend(d)' <=> InSend(d)
             /\ Picking(d)' <=> Picking(d)
             /\ Early(d)' <=> Early(d)
             /\ pc'[d] = pc[d]
  BY <1>1, <1>4 DEF InSend, Picking, Early, SendTypeOK
<1>5. ASSUME NEW d \in Contexts, d # c PROVE ~ Picking(d) /\ pc[d] # "advance"
  <2>1. CASE c = "isr"
    BY <1>5, <2>1 DEF Pick, Picking, Contexts
  <2>2. CASE c = "main"
    BY <1>5, <2>2 DEF Runs, Picking, Contexts
  <2> QED  BY <2>1, <2>2 DEF Contexts
<1>6. currentSend = Slot(sends + 1)
  BY <1>0, <1>3, <1>5 DEF IndexInStep
<1>7. SendersInStep'
  <2>1. ASSUME NEW d \in Contexts, InSend(d)'
        PROVE  /\ sending'[d].frame \in Len(wire) + 1 .. sends + 1
               /\ sending'[d].descr = Slot(sending'[d].frame)
    <3>1. CASE d = c
      BY <1>1, <1>2, <1>6, <3>1
    <3>2. CASE d # c
      <4>1. InSend(d) /\ sending'[d] = sending[d]
        BY <1>2, <1>4, <2>1, <3>2
      <4>2. /\ sending[d].frame \in Len(wire) + 1 .. sends
            /\ sending[d].descr = Slot(sending[d].frame)
        BY <1>0, <4>1 DEF SendersInStep
      <4> QED  BY <1>1, <4>1, <4>2
    <3> QED  BY <3>1, <3>2
  <2>2. ASSUME InSend("main")', InSend("isr")'
        PROVE  /\ ~ Picking("main")'
               /\ sending'["main"].descr # sending'["isr"].descr
               /\ sending'["main"].frame < sending'["isr"].frame
    <3>0. "main" \in Contexts /\ "isr" \in Contexts
      BY DEF Contexts
    <3>1. c = "isr"
      <4> SUFFICES ASSUME c = "main" PROVE FALSE
        BY DEF Contexts
      <4>1. pc["isr"] = "idle" /\ InSend("isr")
        BY <1>4, <2>2, <3>0 DEF Runs
      <4> QED  BY <4>1 DEF InSend
    <3>2. InSend("main") /\ ~ Picking("main") /\ ~ Picking("main")'
          /\ sending'["main"] = sending["main"]
      BY <1>2, <1>4, <1>5, <2>2, <3>0, <3>1
    <3>3. pc["main"] \in {"fill", "hand"}
      BY <3>2 DEF InSend, Picking
    <3>4. sending["main"].descr # currentSend
      BY <3>1, <3>3 DEF Pick
    <3>5. sending["main"].frame \in Len(wire) + 1 .. sends
      BY <1>0, <3>0, <3>2 DEF SendersInStep
    <3> QED  BY <1>1, <1>2, <3>1, <3>2, <3>4, <3>5
  <2>3. Len(wire) <= sends + 1
    BY <1>1
  <2> QED  BY <1>1, <2>1, <2>2, <2>3 DEF SendersInStep, Slot
<1>8. IndexInStep'
  <2>1. ASSUME NEW d \in Contexts, Picking(d)'
        PROVE  sending'[d].frame = sends + 1 /\ currentSend = Slot(sends + 1)
    <3>1. d = c
      BY <1>4, <1>5, <2>1
    <3> QED  BY <1>2, <1>6, <3>1
  <2>2. \A d \in Contexts : pc'[d] # "advance"
    BY <1>3, <1>4, <1>5
  <2> QED  BY <1>1, <1>3, <2>1, <2>2 DEF IndexInStep, Slot
<1>9. CopiedFits'
  <2> SUFFICES ASSUME NEW f \in 1 .. sends + 1,
                      \A d \in Contexts : Early(d)' => sending'[d].frame # f
               PROVE  f <= Len(wire) + SendRing
    BY <1>1 DEF CopiedFits
  <2>1. f \in 1 .. sends
    BY <1>1, <1>2, <1>3
  <2>2. \A d \in Contexts : Early(d) => sending[d].frame # f
    BY <1>2, <1>3, <1>4
  <2> QED  BY <1>0, <2>1, <2>2 DEF CopiedFits
<1>10. DescriptorsInStep'
  <2>1. ASSUME NEW f \in 1 .. sends PROVE HeldBySend(f)' <=> HeldBySend(f)
    <3>1. ASSUME NEW d \in Contexts PROVE Holds(d, f)' <=> Holds(d, f)
      <4>1. CASE d = c
        <5>1. sends + 1 # f
          BY <1>1
        <5> QED  BY <1>2, <4>1, <5>1 DEF Holds
      <4>2. CASE d # c
        BY <1>2, <1>4, <4>2 DEF Holds
      <4> QED  BY <4>1, <4>2
    <3> QED  BY <3>1 DEF HeldBySend
  <2>3. ASSUME NEW j \in SendIndex, sendDescr[j].own = "card",
               NEW f, f = sendDescr[j].frame
        PROVE  f \in Len(wire) + 1 .. sends + 1 /\ Slot(f) = j /\ ~ HeldBySend(f)'
    <3>1. f \in Len(wire) + 1 .. sends /\ Slot(f) = j /\ ~ HeldBySend(f)
      BY <1>0, <2>3 DEF DescriptorsInStep
    <3>2. f \in 1 .. sends /\ f \in Len(wire) + 1 .. sends + 1
      BY <1>1, <3>1
    <3> QED  BY <2>1, <3>1, <3>2
  <2>4. ASSUME NEW f \in Len(wire) + 1 .. sends + 1, ~ HeldBySend(f)'
        PROVE  sendDescr[Slot(f)].own = "card" /\ sendDescr[Slot(f)].frame = f
    <3>1. f # sends + 1
      <4> SUFFICES ASSUME f = sends + 1 PROVE FALSE
        OBVIOUS
      <4> QED  BY <1>1, <1>2, <1>3, <2>4 DEF HeldBySend, Holds
    <3>2. f \in 1 .. sends /\ f \in Len(wire) + 1 .. sends
      BY <1>1, <3>1
    <3>3. ~ HeldBySend(f)
      BY <2>1, <2>4, <3>2
    <3> QED  BY <1>0, <3>2, <3>3 DEF DescriptorsInStep
  <2> QED  BY <1>1, <2>3, <2>4 DEF DescriptorsInStep, Slot, HeldBySend, Holds, InSend
<1>11. WireInStep'
  BY <1>0, <1>1 DEF WireInStep
<1> QED  BY <1>7, <1>8, <1>9, <1>10, <1>11 DEF Orderly

(* Reading the index, and writing it back. *)
LEMMA IndexStepsKeepOrder ==
  ASSUME SendTypeOK, Orderly, NEW c \in Contexts, Load(c) \/ Advance(c)
  PROVE  Orderly'
<1>0. SendersInStep /\ IndexInStep /\ CopiedFits /\ DescriptorsInStep /\ WireInStep
  BY DEF Orderly
<1>1. /\ UNCHANGED <<sendDescr, cardSend, sends, wire>>
      /\ sends \in Nat /\ Len(wire) \in Nat /\ Len(wire) <= sends
      /\ InSend(c) /\ Picking(c) /\ Early(c) /\ Runs(c)
  BY <1>0 DEF Load, Advance, At, InSend, Picking, Early, SendTypeOK, SendersInStep
<1>2. \A d \in Contexts : /\ sending'[d].frame = sending[d].frame
                          /\ sending'[d].descr = sending[d].descr
  <2>1. CASE Load(c)
    BY <2>1 DEF Load, SendTypeOK
  <2>2. CASE Advance(c)
    BY <2>2 DEF Advance
  <2> QED  BY <2>1, <2>2
<1>13. \A d \in Contexts : (Early(d)' <=> Early(d)) /\ (InSend(d)' <=> InSend(d))
  BY DEF Load, Advance, At, Goto, InSend, Early, SendTypeOK
<1>3. ASSUME NEW d \in Contexts, d # c PROVE ~ Picking(d) /\ pc[d] # "advance"
  <2>1. CASE c = "isr"
    BY <1>0, <1>1, <1>3, <2>1 DEF SendersInStep, InSend, Picking, Contexts
  <2>2. CASE c = "main"
    BY <1>1, <1>3, <2>2 DEF Runs, Picking, Contexts
  <2> QED  BY <2>1, <2>2 DEF Contexts
<1>4. /\ sending[c].frame = sends /\ currentSend = Slot(sends)
      /\ pc[c] = "advance" => sending[c].next = Slot(sends + 1)
  BY <1>0, <1>1 DEF IndexInStep
<1>5. (Slot(sends) + 1) % SendRing = Slot(sends + 1)
  <2>1. sends \in Len(wire) + 1 .. sends
    BY <1>0, <1>1, <1>4 DEF SendersInStep
  <2> QED  BY <1>0, <2>1, Slots
<1>6. \A f : HeldBySend(f)' <=> HeldBySend(f)
  BY <1>2, <1>13 DEF HeldBySend, Holds
<1>7. ASSUME NEW d \in Contexts, d # c PROVE ~ Picking(d)' /\ pc'[d] # "advance"
  BY <1>3, <1>7 DEF Load, Advance, Goto, Picking, SendTypeOK
<1>8. SendersInStep'
  <2>1. ASSUME NEW d \in Contexts, InSend(d)
        PROVE  /\ sending'[d].frame \in Len(wire) + 1 .. sends
               /\ sending'[d].descr = Slot(sending'[d].frame)
    BY <1>0, <1>2, <2>1 DEF SendersInStep
  <2>2. ASSUME InSend("main"), InSend("isr")
        PROVE  /\ ~ Picking("main")'
               /\ sending'["main"].descr # sending'["isr"].descr
               /\ sending'["main"].frame < sending'["isr"].frame
    <3>1. "main" # c
      BY <1>0, <1>1, <2>2 DEF SendersInStep
    <3> QED  BY <1>0, <1>2, <1>7, <2>2, <3>1 DEF SendersInStep, Contexts
  <2>3. "main" \in Contexts /\ "isr" \in Contexts
    BY DEF Contexts
  <2> QED  BY <1>1, <1>13, <2>1, <2>2, <2>3 DEF SendersInStep, Slot
<1>9. IndexInStep'
  <2>1. CASE Load(c)
    <3>1. /\ Picking(c)' /\ currentSend' = currentSend
          /\ sending'[c].next = (currentSend + 1) % SendRing
      BY <2>1 DEF Load, Goto, Picking, SendTypeOK
    <3>2. sending'[c].next = Slot(sends + 1)
      BY <1>4, <1>5, <3>1
    <3>3. \A d \in Contexts : Picking(d)' => sending'[d].frame = sends /\ currentSend' = Slot(sends)
      BY <1>2, <1>4, <1>7, <3>1
    <3>4. \A d \in Contexts : pc'[d] = "advance" => sending'[d].next = Slot(sends + 1)
      BY <1>7, <3>2
    <3> QED  BY <1>1, <3>1, <3>3, <3>4 DEF IndexInStep, Slot
  <2>2. CASE Advance(c)
    <3>1. /\ ~ Picking(c)' /\ pc'[c] # "advance" /\ pc[c] = "advance"
          /\ currentSend' = sending[c].next
      BY <2>2 DEF Advance, At, Goto, Picking, SendTypeOK
    <3>2. currentSend' = Slot(sends + 1)
      BY <1>4, <3>1
    <3>3. \A d \in Contexts : ~ Picking(d)' /\ pc'[d] # "advance"
      BY <1>7, <3>1
    <3> QED  BY <1>1, <3>2, <3>3 DEF IndexInStep, Slot
  <2> QED  BY <2>1, <2>2
<1>10. CopiedFits'
  BY <1>0, <1>1, <1>2, <1>13 DEF CopiedFits
<1>11. DescriptorsInStep'
  BY <1>0, <1>1, <1>6 DEF DescriptorsInStep, Slot
<1>12. WireInStep'
  BY <1>0, <1>1 DEF WireInStep
<1> QED  BY <1>8, <1>9, <1>10, <1>11, <1>12 DEF Orderly

(* A frame copied into a descriptor that was not waiting fits into the ring:
   the frame a turn before it is on the wire. *)
LEMMA FillKeepsOrder ==
  ASSUME SendTypeOK, Orderly, NEW c \in Contexts, Fill(c), ~ overrun'
  PROVE  Orderly'
<1> DEFINE w == Len(wire)
<1>0. SendersInStep /\ IndexInStep /\ CopiedFits /\ DescriptorsInStep /\ WireInStep
  BY DEF Orderly
<1>1. /\ UNCHANGED <<sendDescr, currentSend, cardSend, sends, wire, sending>>
      /\ sends \in Nat /\ w \in Nat /\ w <= sends /\ SendRing \in Nat \ {0}
      /\ pc' = [pc EXCEPT ![c] = "hand"] /\ pc[c] = "fill"
      /\ InSend(c) /\ Runs(c) /\ sendDescr[sending[c].descr].own # "card"
  <2>1. /\ UNCHANGED <<sendDescr, currentSend, cardSend, sends, wire, sending>>
        /\ pc' = [pc EXCEPT ![c] = "hand"]
    BY DEF Fill, Goto
  <2>2. pc[c] = "fill" /\ Runs(c)
    BY DEF Fill, At
  <2>3. sends \in Nat /\ w \in Nat /\ w <= sends /\ SendRing \in Nat \ {0}
    BY <1>0, SendRingAssumption DEF SendTypeOK, SendersInStep
  <2>4. sendDescr[sending[c].descr].own # "card"
    BY DEF Fill, Copying
  <2> QED  BY <2>1, <2>2, <2>3, <2>4 DEF InSend
<1> HIDE DEF w
<1>2. \A d \in Contexts : /\ Picking(d)' <=> Picking(d)
                          /\ InSend(d)' <=> InSend(d)
                          /\ pc'[d] = "advance" <=> pc[d] = "advance"
                          /\ d # c => (Early(d)' <=> Early(d))
  BY <1>1 DEF Picking, InSend, Early, SendTypeOK
<1>3. /\ sending[c].frame \in w + 1 .. sends
      /\ sending[c].descr = Slot(sending[c].frame)
  BY <1>0, <1>1 DEF SendersInStep, w
<1>4. sending[c].frame <= w + SendRing
  <2> DEFINE f == sending[c].frame
             g == f - SendRing
  <2> SUFFICES ASSUME f > w + SendRing PROVE FALSE
    BY <1>1, <1>3
  <2>1. g \in w + 1 .. sends /\ g < f /\ f < g + SendRing + 1 /\ f \in w + 1 .. sends
    BY <1>1, <1>3
  <2>2. Slot(g) = Slot(f)
    BY <1>0, <2>1, Slots DEF w
  <2>3. sendDescr[Slot(g)].own # "card"
    BY <1>1, <1>3, <2>2
  <2>4. HeldBySend(g)
    BY <1>0, <2>1, <2>3 DEF DescriptorsInStep, w
  <2>5. PICK d \in Contexts : InSend(d) /\ sending[d].frame = g
    BY <2>4 DEF HeldBySend, Holds
  <2>6. d # c
    <3>1. g # f
      BY <2>1
    <3> QED  BY <2>5, <3>1
  <2>7. c = "isr" /\ d = "main"
    <3>1. CASE c = "main"
      <4>1. d = "isr" /\ pc["isr"] = "idle"
        BY <1>1, <2>6, <3>1 DEF Contexts, Runs
      <4> QED  BY <2>5, <4>1 DEF InSend
    <3> QED  BY <2>6, <3>1 DEF Contexts
  <2>8. sending[d].descr # sending[c].descr /\ sending[d].descr = Slot(g)
    BY <1>0, <1>1, <2>5, <2>7 DEF SendersInStep, Contexts
  <2> QED  BY <1>3, <2>2, <2>8
<1>5. CopiedFits'
  <2> SUFFICES ASSUME NEW f \in 1 .. sends,
                      \A d \in Contexts : Early(d)' => sending[d].frame # f
               PROVE  f <= w + SendRing
    BY <1>1 DEF CopiedFits, w
  <2>1. CASE f = sending[c].frame
    BY <1>4, <2>1
  <2>2. CASE f # sending[c].frame
    <3>1. \A d \in Contexts : Early(d) => sending[d].frame # f
      BY <1>2, <2>2
    <3> QED  BY <1>0, <3>1 DEF CopiedFits, w
  <2> QED  BY <2>1, <2>2
<1>6. \A f : HeldBySend(f)' <=> HeldBySend(f)
  BY <1>1, <1>2 DEF HeldBySend, Holds
<1>7. SendersInStep'
  BY <1>0, <1>1, <1>2 DEF SendersInStep, Slot, Contexts
<1>8. IndexInStep'
  BY <1>0, <1>1, <1>2 DEF IndexInStep, Slot
<1>9. DescriptorsInStep'
  BY <1>0, <1>1, <1>6 DEF DescriptorsInStep, Slot
<1>10. WireInStep'
  BY <1>0, <1>1 DEF WireInStep
<1> QED  BY <1>5, <1>7, <1>8, <1>9, <1>10 DEF Orderly

(* Handing the frame over. *)
LEMMA HandKeepsOrder ==
  ASSUME SendTypeOK, Orderly, NEW c \in Contexts, Hand(c)
  PROVE  Orderly'
<1> DEFINE w == Len(wire)
           frame == sending[c].frame
<1>0. SendersInStep /\ IndexInStep /\ CopiedFits /\ DescriptorsInStep /\ WireInStep
  BY DEF Orderly
<1>1. /\ UNCHANGED <<currentSend, cardSend, sends, wire, sending>>
      /\ sendDescr' = [sendDescr EXCEPT ![sending[c].descr] = [own |-> "card", frame |-> frame]]
      /\ pc[c] = "hand"
      /\ pc' = [pc EXCEPT ![c] = IF c = "isr" THEN "handling" ELSE "idle"]
  BY DEF Hand, At, Goto
<1>2. sends \in Nat /\ w \in Nat /\ w <= sends /\ SendRing \in Nat \ {0}
  BY <1>0, SendRingAssumption DEF SendTypeOK, SendersInStep
<1>3. ASSUME NEW d \in Contexts
      PROVE  /\ Picking(d)' <=> Picking(d)
             /\ Early(d)' <=> Early(d)
             /\ InSend(d)' <=> InSend(d) /\ d # c
             /\ pc'[d] = "advance" <=> pc[d] = "advance"
  BY <1>1, <1>3 DEF Picking, InSend, Early, SendTypeOK
<1>4. /\ frame \in w + 1 .. sends /\ frame \in 1 .. sends
      /\ sending[c].descr = Slot(frame)
      /\ InSend(c)
  <2>1. InSend(c)
    BY <1>1 DEF InSend
  <2>2. frame \in w + 1 .. sends /\ sending[c].descr = Slot(frame)
    BY <1>0, <2>1 DEF SendersInStep
  <2> QED  BY <1>2, <2>1, <2>2
<1>5. ASSUME NEW d \in Contexts, d # c, InSend(d) PROVE sending[d].frame # frame
  <2>1. sending["main"].frame \in Nat /\ sending["isr"].frame \in Nat
    BY DEF SendTypeOK, Contexts
  <2>2. sending["main"].frame < sending["isr"].frame
    BY <1>0, <1>4, <1>5 DEF SendersInStep, Contexts
  <2>3. sending["main"].frame # sending["isr"].frame
    BY <2>1, <2>2
  <2> QED  BY <1>5, <2>3 DEF Contexts
<1> HIDE DEF w
<1>6. \A f : HeldBySend(f)' <=> HeldBySend(f) /\ f # frame
  <2> SUFFICES ASSUME NEW f PROVE HeldBySend(f)' <=> HeldBySend(f) /\ f # frame
    OBVIOUS
  <2>1. HeldBySend(f)' <=> \E d \in Contexts : InSend(d) /\ d # c /\ sending[d].frame = f
    BY <1>1, <1>3 DEF HeldBySend, Holds
  <2>2. HeldBySend(f) <=> \E d \in Contexts : InSend(d) /\ sending[d].frame = f
    BY DEF HeldBySend, Holds
  <2> QED  BY <1>5, <2>1, <2>2
<1>8. frame <= w + SendRing
  <2>1. ASSUME NEW d \in Contexts, Early(d) PROVE sending[d].frame # frame
    <3>1. InSend(d) /\ d # c
      BY <1>1, <2>1 DEF Early, InSend
    <3> QED  BY <1>5, <3>1
  <2> QED  BY <1>0, <1>4, <2>1 DEF CopiedFits, w
<1>9. SendersInStep'
  <2>1. "main" \in Contexts /\ "isr" \in Contexts
    BY DEF Contexts
  <2> QED  BY <1>0, <1>1, <1>3, <2>1 DEF SendersInStep, Slot
<1>10. IndexInStep'
  BY <1>0, <1>1, <1>3 DEF IndexInStep, Slot
<1>11. CopiedFits'
  BY <1>0, <1>1, <1>3 DEF CopiedFits
<1>12. DescriptorsInStep'
  <2>0. Slot(frame) \in SendIndex
    BY <1>4 DEF SendTypeOK
  <2>1. ASSUME NEW j \in SendIndex, sendDescr'[j].own = "card",
               NEW f, f = sendDescr'[j].frame
        PROVE  f \in w + 1 .. sends /\ Slot(f) = j /\ ~ HeldBySend(f)'
    <3>1. CASE j = Slot(frame)
      <4>1. f = frame
        BY <1>1, <1>4, <2>1, <3>1 DEF SendTypeOK
      <4> QED  BY <1>4, <1>6, <3>1, <4>1
    <3>2. CASE j # Slot(frame)
      <4>1. sendDescr'[j] = sendDescr[j]
        BY <1>1, <1>4, <3>2 DEF SendTypeOK
      <4>2. f \in w + 1 .. sends /\ Slot(f) = j /\ ~ HeldBySend(f)
        BY <1>0, <2>1, <4>1 DEF DescriptorsInStep, w
      <4> QED  BY <1>6, <4>2
    <3> QED  BY <3>1, <3>2
  <2>2. ASSUME NEW f \in w + 1 .. sends, ~ HeldBySend(f)'
        PROVE  sendDescr'[Slot(f)].own = "card" /\ sendDescr'[Slot(f)].frame = f
    <3>1. CASE f = frame
      BY <1>1, <1>4, <2>0, <3>1 DEF SendTypeOK
    <3>2. CASE f # frame
      <4>1. ~ HeldBySend(f)
        BY <1>6, <2>2, <3>2
      <4>2. sendDescr[Slot(f)].own = "card" /\ sendDescr[Slot(f)].frame = f
        BY <1>0, <4>1 DEF DescriptorsInStep, w
      <4>3. f <= w + SendRing
        <5>1. \A d \in Contexts : Early(d) => sending[d].frame # f
          BY <4>1 DEF HeldBySend, Holds, Early, InSend
        <5>2. f \in 1 .. sends
          BY <1>2
        <5> QED  BY <1>0, <5>1, <5>2 DEF CopiedFits, w
      <4>4. Slot(f) # Slot(frame)
        <5>1. f \in w + 1 .. sends + 1 /\ frame \in w + 1 .. sends + 1
          BY <1>2, <1>4
        <5>2. CASE f < frame
          <6>1. frame < f + SendRing
            BY <1>2, <1>4, <1>8
          <6> QED  BY <1>0, <5>1, <5>2, <6>1, Slots DEF w
        <5>3. CASE frame < f
          <6>1. f < frame + SendRing
            BY <1>2, <1>4, <4>3
          <6> QED  BY <1>0, <5>1, <5>3, <6>1, Slots DEF w
        <5> QED  BY <1>2, <1>4, <3>2, <5>2, <5>3
      <4> QED  BY <1>1, <1>4, <4>2, <4>4 DEF SendTypeOK
    <3> QED  BY <3>1, <3>2
  <2> QED
    BY <1>1, <2>1, <2>2 DEF DescriptorsInStep, Slot, HeldBySend, Holds, InSend, w
<1>13. WireInStep'
  BY <1>0, <1>1 DEF WireInStep
<1> QED  BY <1>9, <1>10, <1>11, <1>12, <1>13 DEF Orderly

LEMMA SendInvariance == NicSpec => []SendInv
<1>1. NicInit => SendInv
  <2> SUFFICES ASSUME NicInit PROVE SendInv
    OBVIOUS
  <2> USE SendRingAssumption DEF NicInit
  <2>1. 0 \in SendIndex /\ Len(wire) = 0 /\ sends = 0 /\ cardSend = 0 /\ currentSend = 0
    BY DEF SendIndex
  <2>2. \A c \in Contexts : pc[c] = "idle" /\ ~ InSend(c) /\ ~ Picking(c) /\ ~ Early(c)
    BY DEF InSend, Picking, Early
  <2>3. SendTypeOK
    <3>1. sendDescr \in [SendIndex -> [own : {"card", "driver"}, frame : Nat]]
      OBVIOUS
    <3>2. sendBuffers \in [Addresses(SendIndex) -> Nat]
      BY DEF Damaged
    <3>3. wire \in Seq([frame : Nat, content : Nat])
      OBVIOUS
    <3>4. sending \in [Contexts -> [frame : Nat, descr : SendIndex, next : SendIndex]]
      BY <2>1
    <3>5. pc \in [Contexts -> {"idle", "load", "advance", "fill", "hand", "receive",
                              "handling", "acknowledge"}]
      OBVIOUS
    <3> QED  BY <2>1, <3>1, <3>2, <3>3, <3>4, <3>5 DEF SendTypeOK
  <2>4. SendersInStep
    BY <2>1, <2>2 DEF SendersInStep, Contexts
  <2>5. CopiedFits
    BY <2>1 DEF CopiedFits
  <2>6. IndexInStep
    <3>1. Slot(Len(wire) + 1) = cardSend
      BY <2>3, <2>4, <2>5, Slots
    <3> QED  BY <2>1, <2>2, <3>1 DEF IndexInStep
  <2>7. DescriptorsInStep
    <3>1. \A j \in SendIndex : sendDescr[j].own # "card"
      OBVIOUS
    <3>2. Len(wire) + 1 .. sends = {}
      BY <2>1
    <3> QED  BY <3>1, <3>2 DEF DescriptorsInStep
  <2>8. WireInStep
    BY DEF WireInStep
  <2>9. CopiesIntact
    <3>1. \A j \in SendIndex : sendDescr[j].own # "card"
      OBVIOUS
    <3>2. DOMAIN wire = {}
      OBVIOUS
    <3> QED  BY <2>2, <3>1, <3>2 DEF CopiesIntact
  <2> QED  BY <2>3, <2>4, <2>5, <2>6, <2>7, <2>8, <2>9 DEF SendInv, RingOrderly, Orderly
<1>2. SendInv /\ [NicNext]_nicVars => SendInv'
  <2> SUFFICES ASSUME SendInv, [NicNext]_nicVars
               PROVE  SendInv'
    OBVIOUS
  <2>1. SendTypeOK /\ SendTypeOK' /\ CopiesIntact'
    BY SendTypes, SendingCopies DEF SendInv
  <2> SUFFICES ASSUME ~ clash', ~ overrun' PROVE Orderly'
    BY <2>1 DEF SendInv, RingOrderly
  <2>2. ~ clash /\ ~ overrun
    <3>1. ~ clash
      BY DEF NicNext, Card, CardReceives, CardTransmits, SendStart, Pick, Steps,
         Load, Advance, Fill, Hand, Handler, Interrupt, Receive, GiveBack,
         ReceiveEnds, Acknowledge, sendVars, nicVars
    <3>2. ~ overrun
      BY DEF NicNext, Card, CardReceives, CardTransmits, SendStart, Pick, Steps,
         Load, Advance, Fill, Hand, Copying, Handler, Interrupt, Receive, GiveBack,
         ReceiveEnds, Acknowledge, sendVars, nicVars
    <3> QED  BY <3>1, <3>2
  <2>3. Orderly
    BY <2>2 DEF SendInv, RingOrderly
  <2>4. CASE Handler \/ UNCHANGED nicVars \/ \E good \in BOOLEAN : CardReceives(good)
    <3>1. UNCHANGED sendVars
      BY <2>4 DEF Handler, Interrupt, Receive, GiveBack, ReceiveEnds, Acknowledge,
         nicVars, CardReceives
    <3>2. \A c \in Contexts : /\ Early(c)' <=> Early(c)
                              /\ Picking(c)' <=> Picking(c)
                              /\ InSend(c)' <=> InSend(c)
                              /\ pc'[c] = "advance" <=> pc[c] = "advance"
      BY <2>1, <2>4 DEF Handler, Interrupt, Receive, GiveBack, ReceiveEnds, Acknowledge,
         nicVars, CardReceives, At, Goto, Early, Picking, InSend, SendTypeOK, Contexts
    <3> QED  BY <2>1, <2>3, <3>1, <3>2, QuietStepsKeepOrder DEF sendVars
  <2>5. CASE CardTransmits
    BY <2>1, <2>3, <2>5, CardTransmitsKeepsOrder
  <2>6. CASE SendStart
    <3>1. ASSUME NEW c \in Contexts, Pick(c), Runs(c), pc[c] \in {"idle", "handling"}
          PROVE  Orderly'
      <4>1. ~ InSend(c)
        BY <3>1 DEF InSend
      <4> QED  BY <2>1, <2>3, <3>1, <4>1, PickKeepsOrder
    <3> QED  BY <2>6, <3>1 DEF SendStart, At, Contexts
  <2>7. ASSUME NEW c \in Contexts, Steps(c) PROVE Orderly'
    <3>1. CASE Load(c) \/ Advance(c)
      BY <2>1, <2>3, <3>1, IndexStepsKeepOrder
    <3>2. CASE Fill(c)
      BY <2>1, <2>3, <3>2, FillKeepsOrder
    <3>3. CASE Hand(c)
      BY <2>1, <2>3, <3>3, HandKeepsOrder
    <3> QED  BY <2>7, <3>1, <3>2, <3>3 DEF Steps
  <2> QED  BY <2>4, <2>5, <2>6, <2>7 DEF NicNext, Card
<1> QED  BY <1>1, <1>2, PTL DEF NicSpec

(* For rings of any size, any number of sends and any interleaving of the main
   loop, the handler and the card: as long as no handler picks while the main
   loop is picking and no descriptor is reused while it waits, the only two
   things Send does not guard against, frames leave in the order of the calls
   of Send, each once, and whole unless one was copied while another waited. *)
THEOREM SendOrder == NicSpec => []SentInOrder
<1>1. SendInv => SentInOrder
  <2> SUFFICES ASSUME SendInv, ~ clash, ~ overrun, NEW i \in DOMAIN wire
               PROVE  wire[i].frame = i /\ (wire[i].content = i \/ pressed)
    BY DEF SentInOrder
  <2>1. wire[i].frame = i
    BY DEF SendInv, RingOrderly, Orderly, WireInStep
  <2>2. ~ pressed => wire[i].content = wire[i].frame
    BY DEF SendInv, CopiesIntact
  <2> QED  BY <2>1, <2>2
<1> QED  BY <1>1, SendInvariance, PTL

-----------------------------------------------------------------------------
(* The table of sockets. *)

Socket == [listening : BOOLEAN, port : Ports, remote : Remotes \cup {Nobody},
           handler : BOOLEAN]

UdpTypeOK ==
  /\ mem \in [Chunks -> Socket]
  /\ open \in SUBSET Chunks
  /\ sockets \in [Index -> Chunks \cup {Null}]
  /\ numSockets \in Nat
  /\ freePort \in Ports
  /\ main \in [pc : {"idle", "count", "put", "emit", "move"},
               sock : Chunks \cup {Null}, at : Nat, to : Remotes \cup {Nobody}]
  /\ taker \in [Remotes -> [Ports -> Chunks \cup {Null}]]

(* How many entries hold a socket: the count runs ahead of the entry when a
   socket comes, and ahead of the removal when one goes. *)
Filled ==
  CASE main.pc = "put"  -> numSockets - 1
    [] main.pc = "move" -> numSockets + 1
    [] OTHER            -> numSockets

(* Every open socket but the one that is being entered. *)
Filed == IF main.pc \in {"count", "put"} THEN open \ {main.sock} ELSE open

EntriesSound ==
  /\ Filled \in 0 .. Cardinality(Chunks)
  /\ Filled = Cardinality(Filed)
  /\ \A i \in 0 .. Filled - 1 : sockets[i] \in Filed
  /\ \A c \in Filed : \E i \in 0 .. Filled - 1 : sockets[i] = c
  /\ \A i, j \in 0 .. Filled - 1 : i # j => sockets[i] # sockets[j]

MainSound ==
  /\ main.pc \in {"count", "put"} => main.sock \in open
  /\ main.pc = "move" =>
       /\ main.sock \in open /\ main.at \in 0 .. numSockets
       /\ sockets[main.at] = main.sock

TableInv == UdpTypeOK /\ EntriesSound /\ MainSound

(* What a search of the table can come to, with the entry Disconnect has put
   out of sight. *)
InSight == IF main.pc = "move" THEN numSockets + 1 ELSE numSockets

Fits(c, remote, port) == Listens(c, port) \/ Connected(c, remote, port)

(* The socket that took the last datagram of a remote end is open, connected
   to that end and the first one in the table that fits. *)
TakerIsFirst ==
  ~ reordered =>
    /\ main.pc = "move" => main.at = numSockets
    /\ \A r \in Remotes, p \in Ports : taker[r][p] # Null =>
         /\ taker[r][p] \in open
         /\ mem[taker[r][p]].port = p /\ mem[taker[r][p]].remote = r
         /\ ~ mem[taker[r][p]].listening
         /\ \E k \in 0 .. InSight - 1 :
              /\ sockets[k] = taker[r][p]
              /\ \A j \in 0 .. k - 1 : ~ Fits(sockets[j], r, p)

LEMMA CountFacts ==
  /\ Cardinality(Chunks) \in Nat
  /\ \A S \in SUBSET Chunks :
       /\ IsFiniteSet(S) /\ Cardinality(S) \in 0 .. Cardinality(Chunks)
       /\ \A c \in S : Cardinality(S \ {c}) = Cardinality(S) - 1
<1>1. IsFiniteSet(Chunks) /\ Cardinality(Chunks) \in Nat
  BY ChunksAssumption, FS_CardinalityType
<1>2. ASSUME NEW S \in SUBSET Chunks
      PROVE  /\ IsFiniteSet(S) /\ Cardinality(S) \in 0 .. Cardinality(Chunks)
             /\ \A c \in S : Cardinality(S \ {c}) = Cardinality(S) - 1
  <2>1. IsFiniteSet(S) /\ Cardinality(S) <= Cardinality(Chunks)
    BY <1>1, FS_Subset
  <2>2. Cardinality(S) \in Nat
    BY <2>1, FS_CardinalityType
  <2>3. ASSUME NEW c \in S PROVE Cardinality(S \ {c}) = Cardinality(S) - 1
    BY <2>1, FS_RemoveElement
  <2> QED  BY <1>1, <2>1, <2>2, <2>3
<1> QED  BY <1>1, <1>2

(* What the search of the table returns. *)
LEMMA LookupFindsFirst ==
  ASSUME TableInv, NEW r \in Remotes, NEW p \in Ports
  PROVE  \/ /\ Lookup(r, p) = Null
            /\ \A i \in 0 .. numSockets - 1 : ~ Fits(sockets[i], r, p)
         \/ /\ Lookup(r, p) \in Chunks
            /\ Fits(Lookup(r, p), r, p)
            /\ \E i \in 0 .. numSockets - 1 :
                 /\ sockets[i] = Lookup(r, p)
                 /\ \A j \in 0 .. i - 1 : ~ Fits(sockets[j], r, p)
<1> DEFINE hits == {i \in 0 .. numSockets - 1 :
                      Listens(sockets[i], p) \/ Connected(sockets[i], r, p)}
           first == CHOOSE i \in hits : \A j \in hits : i <= j
<1>1. Lookup(r, p) = IF hits = {} THEN Null ELSE sockets[first]
  BY DEF Lookup
<1>2. \A i \in 0 .. numSockets - 1 : i \in hits <=> Fits(sockets[i], r, p)
  BY DEF Fits
<1>3. hits \in SUBSET (0 .. numSockets - 1) /\ hits \in SUBSET Nat
  BY DEF TableInv, UdpTypeOK
<1> HIDE DEF hits
<1>4. CASE hits = {}
  BY <1>1, <1>2, <1>4
<1>5. CASE hits # {}
  <2>1. \E i \in hits : \A j \in hits : i <= j
    BY <1>3, <1>5, FirstExists
  <2>2. first \in hits /\ \A j \in hits : first <= j
    BY <2>1
  <2> HIDE DEF first
  <2>3. first \in 0 .. numSockets - 1 /\ Fits(sockets[first], r, p)
    BY <1>2, <1>3, <2>2
  <2>4. ASSUME NEW j \in 0 .. first - 1 PROVE ~ Fits(sockets[j], r, p)
    <3>1. j \in 0 .. numSockets - 1 /\ ~ (first <= j)
      BY <2>3 DEF TableInv, UdpTypeOK
    <3> QED  BY <1>2, <2>2, <3>1
  <2>5. first \in Index
    <3>1. numSockets \in Nat /\ numSockets - 1 <= Cardinality(Chunks)
          /\ Cardinality(Chunks) \in Nat
      BY CountFacts DEF TableInv, UdpTypeOK, EntriesSound, Filled
    <3> QED  BY <2>3, <3>1 DEF Index
  <2>6. sockets[first] \in Chunks
    BY <2>3, <2>5 DEF TableInv, UdpTypeOK, Fits, Listens, Connected
  <2>7. Lookup(r, p) = sockets[first]
    BY <1>1, <1>5
  <2> QED  BY <2>3, <2>4, <2>6, <2>7
<1> QED  BY <1>4, <1>5

(* The table does not look at what the sockets hold. *)
LEMMA SocketsOnlyKeepTable ==
  ASSUME TableInv, UdpTypeOK', UNCHANGED <<open, sockets, numSockets>>,
         \/ main' = main
         \/ main.pc \in {"idle", "emit"} /\ main'.pc \in {"idle", "emit"}
  PROVE  TableInv'
<1>1. Filled' = Filled /\ Filed' = Filed
  BY DEF Filled, Filed
<1>2. EntriesSound'
  BY <1>1 DEF TableInv, EntriesSound
<1>3. MainSound'
  BY DEF TableInv, MainSound
<1> QED  BY <1>2, <1>3 DEF TableInv

LEMMA DatagramTypes ==
  ASSUME TableInv, NEW r \in Remotes, NEW p \in Ports, DatagramArrives(r, p)
  PROVE  /\ UdpTypeOK'
         /\ UNCHANGED <<open, sockets, numSockets, main>>
<1> DEFINE c == Lookup(r, p)
<1>0. UdpTypeOK
  BY DEF TableInv
<1>1. UNCHANGED <<open, sockets, numSockets, freePort, main>>
  BY DEF DatagramArrives
<1>2. CASE c = Null
  <2>1. UNCHANGED <<mem, taker>>
    BY <1>2 DEF DatagramArrives
  <2> QED  BY <1>0, <1>1, <2>1 DEF UdpTypeOK
<1>3. CASE c # Null
  <2>1. /\ mem' = [mem EXCEPT ![c].listening = FALSE, ![c].remote = r]
        /\ taker' = [taker EXCEPT ![r][p] = IF c \in open THEN c ELSE Null]
    BY <1>3 DEF DatagramArrives
  <2>2. c \in Chunks
    BY <1>3, LookupFindsFirst
  <2> HIDE DEF c
  <2> DEFINE heardOnce == [mem EXCEPT ![c].listening = FALSE]
  <2>h. mem \in [Chunks -> Socket] /\ mem[c] \in Socket
    BY <1>0, <2>2 DEF UdpTypeOK
  <2>i. [mem[c] EXCEPT !.listening = FALSE] \in Socket
    BY <2>h DEF Socket
  <2>3. heardOnce \in [Chunks -> Socket]
    BY <2>2, <2>h, <2>i
  <2>4. mem' = [heardOnce EXCEPT ![c].remote = r]
    BY <2>1
  <2> HIDE DEF heardOnce
  <2>5. mem' \in [Chunks -> Socket]
    BY <2>2, <2>3, <2>4 DEF Socket
  <2>6. taker' \in [Remotes -> [Ports -> Chunks \cup {Null}]]
    BY <1>0, <2>1, <2>2 DEF UdpTypeOK
  <2> QED  BY <1>0, <1>1, <2>5, <2>6, Zenon DEF UdpTypeOK
<1> QED  BY <1>1, <1>2, <1>3

(* Connect and Listen up to the table: the new socket is open and not filed. *)
LEMMA OpenedKeepsTable ==
  ASSUME TableInv, NEW c \in Chunks \ open, NEW k \in Socket, main.pc = "idle",
         Opened(c, k), freePort' \in Ports
  PROVE  TableInv'
<1>0. UdpTypeOK /\ EntriesSound /\ MainSound
  BY DEF TableInv
<1>1. /\ mem' = [mem EXCEPT ![c] = k] /\ open' = open \cup {c}
      /\ main' = [pc |-> "count", sock |-> c, at |-> 0, to |-> Nobody]
      /\ UNCHANGED <<sockets, numSockets, taker>>
  BY DEF Opened, Idle
<1>2. UdpTypeOK'
  <2>1. mem' \in [Chunks -> Socket]
    BY <1>0, <1>1 DEF UdpTypeOK
  <2>2. open' \in SUBSET Chunks
    BY <1>0, <1>1 DEF UdpTypeOK
  <2>3. main' \in [pc : {"idle", "count", "put", "emit", "move"},
                  sock : Chunks \cup {Null}, at : Nat, to : Remotes \cup {Nobody}]
    BY <1>1
  <2> QED  BY <1>0, <1>1, <2>1, <2>2, <2>3, Zenon DEF UdpTypeOK
<1>3. Filled' = Filled
  BY <1>1 DEF Filled
<1>4. Filed' = Filed
  <2>1. Filed = open
    BY DEF Filed
  <2>2. Filed' = open' \ {c}
    BY <1>1 DEF Filed
  <2> QED  BY <1>1, <2>1, <2>2
<1>5. EntriesSound'
  BY <1>0, <1>1, <1>3, <1>4 DEF EntriesSound
<1>6. MainSound'
  BY <1>1 DEF MainSound
<1> QED  BY <1>2, <1>5, <1>6 DEF TableInv

LEMMA StoreCountKeepsTable ==
  ASSUME TableInv, StoreCount
  PROVE  TableInv'
<1>0. UdpTypeOK /\ EntriesSound /\ MainSound
  BY DEF TableInv
<1>1. /\ main.pc = "count" /\ numSockets' = numSockets + 1
      /\ main' = [main EXCEPT !.pc = "put"]
      /\ UNCHANGED <<mem, open, sockets, freePort, taker>>
  BY DEF StoreCount, MainRuns
<1>2. numSockets \in Nat /\ main'.pc = "put" /\ main'.sock = main.sock
  BY <1>0, <1>1 DEF UdpTypeOK
<1>3. UdpTypeOK'
  <2>1. main' \in [pc : {"idle", "count", "put", "emit", "move"},
                  sock : Chunks \cup {Null}, at : Nat, to : Remotes \cup {Nobody}]
    BY <1>0, <1>1 DEF UdpTypeOK
  <2>2. numSockets' \in Nat
    BY <1>1, <1>2
  <2> QED  BY <1>0, <1>1, <2>1, <2>2, Zenon DEF UdpTypeOK
<1>4. Filled' = Filled
  BY <1>1, <1>2 DEF Filled
<1>5. Filed' = Filed
  BY <1>1, <1>2 DEF Filed
<1>6. EntriesSound'
  BY <1>0, <1>1, <1>4, <1>5 DEF EntriesSound
<1>7. MainSound'
  BY <1>0, <1>1, <1>2 DEF MainSound
<1> QED  BY <1>3, <1>6, <1>7 DEF TableInv

LEMMA PutSocketKeepsTable ==
  ASSUME TableInv, PutSocket
  PROVE  TableInv'
<1> DEFINE n == numSockets - 1
<1>0. UdpTypeOK /\ EntriesSound /\ MainSound
  BY DEF TableInv
<1>1. /\ main.pc = "put" /\ sockets' = [sockets EXCEPT ![n] = main.sock]
      /\ main' = [pc |-> "idle", sock |-> Null, at |-> 0, to |-> Nobody]
      /\ UNCHANGED <<mem, open, numSockets, freePort, taker>>
  BY DEF PutSocket, MainRuns, Idle
<1>2. main.sock \in open /\ main.sock \in Chunks /\ open \in SUBSET Chunks
  BY <1>0, <1>1 DEF MainSound, UdpTypeOK
<1>3. Filled = n /\ Filed = open \ {main.sock}
  BY <1>1 DEF Filled, Filed
<1>4. Filled' = n + 1 /\ Filed' = open /\ numSockets = n + 1
  BY <1>0, <1>1 DEF Filled, Filed, UdpTypeOK
<1>5. /\ n = Cardinality(open) - 1 /\ Cardinality(open) \in 0 .. Cardinality(Chunks)
      /\ Cardinality(Chunks) \in Nat
  BY <1>0, <1>2, <1>3, CountFacts DEF EntriesSound
<1>6. n \in 0 .. Cardinality(Chunks) - 1 /\ n \in Index
  <2>1. n \in 0 .. Cardinality(Chunks)
    BY <1>0, <1>3 DEF EntriesSound
  <2> QED  BY <1>5, <2>1 DEF Index
<1> HIDE DEF n
<1>7. /\ sockets'[n] = main.sock
      /\ \A i \in 0 .. n - 1 : sockets'[i] = sockets[i]
  <2>1. \A i \in 0 .. n - 1 : i \in Index /\ i # n
    BY <1>5, <1>6 DEF Index
  <2> QED  BY <1>0, <1>1, <1>6, <2>1 DEF UdpTypeOK
<1>8. UdpTypeOK'
  <2>1. sockets' \in [Index -> Chunks \cup {Null}]
    BY <1>0, <1>1, <1>2 DEF UdpTypeOK
  <2>2. main' \in [pc : {"idle", "count", "put", "emit", "move"},
                  sock : Chunks \cup {Null}, at : Nat, to : Remotes \cup {Nobody}]
    BY <1>1
  <2> QED  BY <1>0, <1>1, <2>1, <2>2, Zenon DEF UdpTypeOK
<1>9. /\ \A i \in 0 .. n - 1 : sockets[i] \in open \ {main.sock}
      /\ \A c \in open \ {main.sock} : \E i \in 0 .. n - 1 : sockets[i] = c
      /\ \A i, j \in 0 .. n - 1 : i # j => sockets[i] # sockets[j]
  BY <1>0, <1>3 DEF EntriesSound
<1>10. \A i \in 0 .. n : i = n \/ i \in 0 .. n - 1
  BY <1>6
<1>11. \A i \in 0 .. n - 1 : i \in 0 .. n
  BY <1>6
<1>12. n \in 0 .. n
  BY <1>6
<1>13. \A i \in 0 .. n : sockets'[i] \in open
  BY <1>2, <1>7, <1>9, <1>10
<1>14. \A c \in open : \E i \in 0 .. n : sockets'[i] = c
  BY <1>7, <1>9, <1>11, <1>12
<1>15. ASSUME NEW i \in 0 .. n, NEW j \in 0 .. n, i # j PROVE sockets'[i] # sockets'[j]
  BY <1>7, <1>9, <1>10, <1>15
<1>16. EntriesSound'
  <2>1. Filled' \in 0 .. Cardinality(Chunks) /\ Filled' = Cardinality(open)
    BY <1>4, <1>5, <1>6
  <2>2. Filled' - 1 = n
    BY <1>4, <1>6
  <2> QED  BY <1>4, <1>13, <1>14, <1>15, <2>1, <2>2 DEF EntriesSound
<1>17. MainSound'
  BY <1>1 DEF MainSound
<1> QED  BY <1>8, <1>16, <1>17 DEF TableInv

LEMMA ShrinkKeepsTable ==
  ASSUME TableInv, NEW c \in Chunks, Shrink(c)
  PROVE  TableInv'
<1>0. UdpTypeOK /\ EntriesSound /\ MainSound
  BY DEF TableInv
<1>1. /\ main.pc = "idle" /\ c \in open /\ numSockets' = numSockets - 1
      /\ UNCHANGED <<mem, open, sockets, freePort, taker>>
  BY DEF Shrink, MainRuns
<1>2. PICK i \in 0 .. numSockets - 1 :
        /\ sockets[i] = c
        /\ main' = [pc |-> "move", sock |-> c, at |-> i, to |-> Nobody]
  BY DEF Shrink, Idle
<1>3. numSockets \in Nat /\ numSockets' \in Nat /\ numSockets' + 1 = numSockets
      /\ i \in Nat
  BY <1>0, <1>1, <1>2 DEF UdpTypeOK
<1>4. UdpTypeOK'
  <2>1. main' \in [pc : {"idle", "count", "put", "emit", "move"},
                  sock : Chunks \cup {Null}, at : Nat, to : Remotes \cup {Nobody}]
    BY <1>2, <1>3
  <2> QED  BY <1>0, <1>1, <1>3, <2>1, Zenon DEF UdpTypeOK
<1>5. Filled' = Filled
  BY <1>1, <1>2, <1>3 DEF Filled
<1>6. Filed' = Filed
  BY <1>1, <1>2 DEF Filed
<1>7. EntriesSound'
  BY <1>0, <1>1, <1>5, <1>6 DEF EntriesSound
<1>8. MainSound'
  BY <1>1, <1>2, <1>3 DEF MainSound
<1> QED  BY <1>4, <1>7, <1>8 DEF TableInv

LEMMA MoveLastKeepsTable ==
  ASSUME TableInv, MoveLast
  PROVE  TableInv'
<1> DEFINE n == numSockets
           at == main.at
<1>0. UdpTypeOK /\ EntriesSound /\ MainSound
  BY DEF TableInv
<1>1. /\ main.pc = "move" /\ sockets' = [sockets EXCEPT ![at] = sockets[n]]
      /\ main' = [pc |-> "idle", sock |-> Null, at |-> 0, to |-> Nobody]
      /\ open' = open \ {main.sock}
      /\ UNCHANGED <<mem, numSockets, freePort>>
  BY DEF MoveLast, MainRuns, Idle
<1>2. /\ main.sock \in open /\ open \in SUBSET Chunks /\ n \in Nat /\ at \in 0 .. n
      /\ sockets[at] = main.sock
  BY <1>0, <1>1 DEF MainSound, UdpTypeOK
<1>3. Filled = n + 1 /\ Filed = open
  BY <1>1 DEF Filled, Filed
<1>4. Filled' = n /\ Filed' = open \ {main.sock}
  BY <1>0, <1>1 DEF Filled, Filed, UdpTypeOK
<1>5. n + 1 = Cardinality(open) /\ n + 1 \in 0 .. Cardinality(Chunks)
      /\ Cardinality(open \ {main.sock}) = Cardinality(open) - 1
      /\ Cardinality(Chunks) \in Nat
  BY <1>0, <1>2, <1>3, CountFacts DEF EntriesSound
<1>6. n \in Index /\ at \in Index /\ sockets[n] \in Chunks \cup {Null}
  <2>1. n \in Index /\ at \in Index
    BY <1>2, <1>5 DEF Index
  <2> QED  BY <1>0, <2>1 DEF UdpTypeOK
<1> HIDE DEF n, at
<1>7. /\ sockets'[at] = sockets[n]
      /\ \A i \in 0 .. n : i # at => sockets'[i] = sockets[i]
  <2>1. \A i \in 0 .. n : i \in Index
    BY <1>2, <1>5 DEF Index
  <2> QED  BY <1>0, <1>1, <1>6, <2>1 DEF UdpTypeOK
<1>8. UdpTypeOK'
  <2>1. sockets' \in [Index -> Chunks \cup {Null}]
    BY <1>0, <1>1, <1>6 DEF UdpTypeOK
  <2>2. main' \in [pc : {"idle", "count", "put", "emit", "move"},
                  sock : Chunks \cup {Null}, at : Nat, to : Remotes \cup {Nobody}]
    BY <1>1
  <2>3. taker' \in [Remotes -> [Ports -> Chunks \cup {Null}]]
    BY <1>0 DEF MoveLast, UdpTypeOK
  <2>4. open' \in SUBSET Chunks
    BY <1>1, <1>2
  <2> QED  BY <1>0, <1>1, <2>1, <2>2, <2>3, <2>4, Zenon DEF UdpTypeOK
<1>9. /\ \A i \in 0 .. n : sockets[i] \in open
      /\ \A c \in open : \E i \in 0 .. n : sockets[i] = c
      /\ \A i, j \in 0 .. n : i # j => sockets[i] # sockets[j]
  <2>1. (n + 1) - 1 = n
    BY <1>2
  <2> QED  BY <1>0, <1>3, <2>1 DEF EntriesSound
<1>10. \A i \in 0 .. n - 1 : i \in 0 .. n /\ i # n
  BY <1>2
<1>11. \A i \in 0 .. n : i # n => i \in 0 .. n - 1
  BY <1>2
<1>12. n \in 0 .. n
  BY <1>2
<1>13. ASSUME NEW i \in 0 .. n - 1 PROVE sockets'[i] \in open \ {main.sock}
  <2>1. CASE i = at
    <3>1. sockets'[i] = sockets[n] /\ n # at
      BY <1>7, <1>10, <2>1
    <3> QED  BY <1>2, <1>9, <1>12, <3>1
  <2>2. CASE i # at
    <3>1. sockets'[i] = sockets[i] /\ i \in 0 .. n
      BY <1>7, <1>10, <2>2
    <3> QED  BY <1>2, <1>9, <2>2, <3>1
  <2> QED  BY <2>1, <2>2
<1>14. ASSUME NEW c \in open \ {main.sock}
       PROVE  \E i \in 0 .. n - 1 : sockets'[i] = c
  <2>1. PICK i \in 0 .. n : sockets[i] = c
    BY <1>9
  <2>2. i # at
    BY <1>2, <2>1
  <2>3. CASE i = n
    <3>1. at \in 0 .. n - 1 /\ sockets'[at] = c
      BY <1>2, <1>7, <1>11, <2>1, <2>2, <2>3
    <3> QED  BY <3>1
  <2>4. CASE i # n
    <3>1. i \in 0 .. n - 1 /\ sockets'[i] = c
      BY <1>7, <1>11, <2>1, <2>2, <2>4
    <3> QED  BY <3>1
  <2> QED  BY <2>3, <2>4
<1>15. ASSUME NEW i \in 0 .. n - 1, NEW j \in 0 .. n - 1, i # j
       PROVE  sockets'[i] # sockets'[j]
  <2>1. i \in 0 .. n /\ j \in 0 .. n /\ i # n /\ j # n
    BY <1>10
  <2>2. CASE i = at
    BY <1>7, <1>9, <1>12, <1>15, <2>1, <2>2
  <2>3. CASE j = at
    BY <1>7, <1>9, <1>12, <1>15, <2>1, <2>3
  <2>4. CASE i # at /\ j # at
    BY <1>7, <1>9, <1>15, <2>1, <2>4
  <2> QED  BY <2>2, <2>3, <2>4
<1>16. EntriesSound'
  <2>1. Filled' \in 0 .. Cardinality(Chunks) /\ Filled' = Cardinality(open \ {main.sock})
    BY <1>2, <1>4, <1>5
  <2> QED  BY <1>4, <1>13, <1>14, <1>15, <2>1 DEF EntriesSound
<1>17. MainSound'
  BY <1>1 DEF MainSound
<1> QED  BY <1>8, <1>16, <1>17 DEF TableInv

(* A datagram goes to the socket that took the last one of its sender, or
   makes the first socket that fits the one; it fits no other conversation. *)
LEMMA DatagramKeepsTaker ==
  ASSUME TableInv, TakerIsFirst, ~ reordered,
         NEW r \in Remotes, NEW p \in Ports, DatagramArrives(r, p)
  PROVE  /\ TakerIsFirst'
         /\ \A q \in Remotes, o \in Ports :
              taker[q][o] # Null => taker'[q][o] = taker[q][o]
<1> DEFINE c == Lookup(r, p)
<1>0. UdpTypeOK /\ EntriesSound /\ MainSound
  BY DEF TableInv
<1>1. UNCHANGED <<open, sockets, numSockets, main, reordered>>
  BY DEF DatagramArrives
<1>2. InSight' = InSight
  BY <1>1 DEF InSight
<1>3. ASSUME NEW q \in Remotes, NEW o \in Ports, taker[q][o] # Null
      PROVE  /\ taker[q][o] \in open /\ taker[q][o] \in Chunks
             /\ mem[taker[q][o]].port = o /\ mem[taker[q][o]].remote = q
             /\ ~ mem[taker[q][o]].listening
             /\ \E k \in 0 .. InSight - 1 :
                  /\ sockets[k] = taker[q][o]
                  /\ \A j \in 0 .. k - 1 : ~ Fits(sockets[j], q, o)
  BY <1>0, <1>3 DEF TakerIsFirst, UdpTypeOK
<1>4. main.pc = "move" => main.at = numSockets
  BY DEF TakerIsFirst
<1>5. CASE c = Null
  <2>1. UNCHANGED <<mem, taker>>
    BY <1>5 DEF DatagramArrives
  <2>2. \A d, q, o : Fits(d, q, o)' <=> Fits(d, q, o)
    BY <2>1 DEF Fits, Listens, Connected
  <2> QED  BY <1>1, <1>2, <2>1, <2>2 DEF TakerIsFirst
<1>6. CASE c # Null
  <2>1. /\ mem' = [mem EXCEPT ![c].listening = FALSE, ![c].remote = r]
        /\ taker' = [taker EXCEPT ![r][p] = IF c \in open THEN c ELSE Null]
    BY <1>6 DEF DatagramArrives
  <2>2. c \in Chunks /\ Fits(c, r, p)
    BY <1>6, LookupFindsFirst
  <2>3. PICK i \in 0 .. numSockets - 1 :
          /\ sockets[i] = c
          /\ \A j \in 0 .. i - 1 : ~ Fits(sockets[j], r, p)
    BY <1>6, LookupFindsFirst
  <2> HIDE DEF c
  <2>4. numSockets \in Nat /\ i \in 0 .. InSight - 1
    BY <1>0, <2>3 DEF UdpTypeOK, InSight
  <2>5. /\ mem[c].port = p /\ mem'[c].port = p /\ mem'[c].remote = r
        /\ ~ mem'[c].listening
    <3>1. mem[c].port = p
      BY <2>2 DEF Fits, Listens, Connected
    <3> QED  BY <1>0, <2>1, <2>2, <3>1 DEF UdpTypeOK, Socket
  <2>6. \A d \in Chunks : d # c => mem'[d] = mem[d]
    BY <1>0, <2>1 DEF UdpTypeOK
  <2>7. \A q \in Remotes, o \in Ports : q # r \/ o # p => taker'[q][o] = taker[q][o]
    BY <1>0, <2>1 DEF UdpTypeOK
  <2>8. taker'[r][p] = IF c \in open THEN c ELSE Null
    BY <1>0, <2>1 DEF UdpTypeOK
  (* the conversation had its socket: the search finds that one *)
  <2>9. ASSUME taker[r][p] # Null PROVE taker[r][p] = c /\ c \in open
    <3> DEFINE d == taker[r][p]
    <3>1. PICK k \in 0 .. InSight - 1 :
            /\ sockets[k] = d /\ \A j \in 0 .. k - 1 : ~ Fits(sockets[j], r, p)
      BY <1>3, <2>9
    <3>2. Fits(d, r, p)
      BY <1>3, <2>9, ChunksAssumption DEF Fits, Connected
    <3>3. ~ (i < k)
      BY <2>2, <2>3, <2>4, <3>1
    <3>4. ~ (k < i)
      BY <2>3, <2>4, <3>1, <3>2
    <3>5. i = k
      BY <2>3, <2>4, <3>1, <3>3, <3>4 DEF InSight
    <3> QED  BY <1>3, <2>3, <2>9, <3>1, <3>5
  <2>10. ASSUME NEW q \in Remotes, NEW o \in Ports, taker[q][o] # Null
         PROVE  taker'[q][o] = taker[q][o]
    BY <2>7, <2>8, <2>9, <2>10
  (* nothing begins to fit a conversation but the socket of this one *)
  <2>11. ASSUME NEW q \in Remotes, NEW o \in Ports, q # r \/ o # p, NEW d,
                ~ Fits(d, q, o), d \in Chunks \cup {Null}
         PROVE  ~ Fits(d, q, o)'
    <3>1. CASE d = c
      BY <2>5, <2>11, <3>1 DEF Fits, Listens, Connected
    <3>2. CASE d # c
      BY <2>6, <2>11, <3>2 DEF Fits, Listens, Connected
    <3> QED  BY <3>1, <3>2
  <2>12. ASSUME NEW j \in 0 .. i - 1 PROVE ~ Fits(sockets[j], r, p)'
    <3>1. ~ Fits(sockets[j], r, p) /\ sockets[j] # c
      BY <2>2, <2>3
    <3>2. j \in Index
      <4>1. numSockets - 1 <= Cardinality(Chunks) /\ Cardinality(Chunks) \in Nat
        BY <1>0, CountFacts DEF UdpTypeOK, EntriesSound, Filled
      <4> QED  BY <2>3, <2>4, <4>1 DEF Index
    <3>3. sockets[j] \in Chunks \cup {Null}
      BY <1>0, <3>2 DEF UdpTypeOK
    <3> QED  BY <1>1, <2>6, <3>1, <3>3 DEF Fits, Listens, Connected
  <2>13. ASSUME NEW q \in Remotes, NEW o \in Ports, taker'[q][o] # Null
         PROVE  /\ taker'[q][o] \in open
                /\ mem'[taker'[q][o]].port = o /\ mem'[taker'[q][o]].remote = q
                /\ ~ mem'[taker'[q][o]].listening
                /\ \E k \in 0 .. InSight - 1 :
                     /\ sockets[k] = taker'[q][o]
                     /\ \A j \in 0 .. k - 1 : ~ Fits(sockets[j], q, o)'
    <3>1. CASE q = r /\ o = p
      <4>1. taker'[q][o] = c /\ c \in open
        BY <2>8, <2>13, <3>1
      <4> QED  BY <2>3, <2>4, <2>5, <2>12, <3>1, <4>1
    <3>2. CASE q # r \/ o # p
      <4> DEFINE d == taker[q][o]
      <4>1. taker'[q][o] = d /\ d # Null
        BY <2>7, <2>13, <3>2
      <4>2. /\ d \in open /\ d \in Chunks /\ mem[d].port = o /\ mem[d].remote = q
            /\ ~ mem[d].listening
        BY <1>3, <4>1
      <4>3. PICK k \in 0 .. InSight - 1 :
              /\ sockets[k] = d /\ \A j \in 0 .. k - 1 : ~ Fits(sockets[j], q, o)
        BY <1>3, <4>1
      <4> HIDE DEF d
      <4>4. d # c
        <5> SUFFICES ASSUME d = c PROVE FALSE
          OBVIOUS
        <5>1. o = p /\ q # r
          BY <2>5, <3>2, <4>2
        <5>2. mem[c].listening \/ mem[c].remote = r
          BY <2>2 DEF Fits, Listens, Connected
        <5> QED  BY <4>2, <5>1, <5>2
      <4>5. mem'[d] = mem[d]
        BY <2>6, <4>2, <4>4
      <4>6. ASSUME NEW j \in 0 .. k - 1 PROVE ~ Fits(sockets[j], q, o)'
        <5>1. j \in Index
          <6>1. /\ InSight - 1 <= Cardinality(Chunks) /\ Cardinality(Chunks) \in Nat
                /\ InSight \in Nat
            BY <1>0, CountFacts DEF UdpTypeOK, EntriesSound, Filled, InSight
          <6> QED  BY <4>3, <6>1 DEF Index
        <5>2. sockets[j] \in Chunks \cup {Null}
          BY <1>0, <5>1 DEF UdpTypeOK
        <5>3. ~ Fits(sockets[j], q, o)
          BY <4>3
        <5> SUFFICES ASSUME NEW e, e = sockets[j] PROVE ~ Fits(e, q, o)'
          BY <1>1 DEF Fits, Listens, Connected
        <5> QED  BY <2>11, <3>2, <5>2, <5>3
      <4> QED  BY <4>1, <4>2, <4>3, <4>5, <4>6
    <3> QED  BY <3>1, <3>2
  <2>14. TakerIsFirst'
    BY <1>1, <1>2, <1>4, <2>13 DEF TakerIsFirst
  <2> QED  BY <2>10, <2>14
<1> QED  BY <1>5, <1>6

(* What a step of the main loop has to leave alone for that. *)
SameFor(c) ==
  /\ mem'[c].port = mem[c].port /\ mem'[c].remote = mem[c].remote
  /\ mem'[c].listening = mem[c].listening

LEMMA PrefixKeepsTaker ==
  ASSUME TableInv, TakerIsFirst, ~ reordered,
         main'.pc = "move" => main'.at = numSockets',
         \A c \in open : SameFor(c),
         \A j \in 0 .. InSight - 1 : sockets[j] \in Chunks => SameFor(sockets[j]),
         \A r \in Remotes, p \in Ports : taker'[r][p] # Null =>
           /\ taker'[r][p] = taker[r][p] /\ taker[r][p] \in open'
           /\ \A k \in 0 .. InSight - 1 :
                /\ sockets[k] = taker[r][p]
                /\ \A j \in 0 .. k - 1 : ~ Fits(sockets[j], r, p)
                => /\ k \in 0 .. InSight' - 1
                   /\ \A j \in 0 .. k : sockets'[j] = sockets[j]
  PROVE  TakerIsFirst'
<1>0. UdpTypeOK /\ InSight \in Nat /\ InSight - 1 <= Cardinality(Chunks)
      /\ Cardinality(Chunks) \in Nat
  BY CountFacts DEF TableInv, UdpTypeOK, EntriesSound, Filled, InSight
<1>1. ASSUME NEW r \in Remotes, NEW p \in Ports, taker'[r][p] # Null
      PROVE  /\ taker'[r][p] \in open'
             /\ mem'[taker'[r][p]].port = p /\ mem'[taker'[r][p]].remote = r
             /\ ~ mem'[taker'[r][p]].listening
             /\ \E k \in 0 .. InSight' - 1 :
                  /\ sockets'[k] = taker'[r][p]
                  /\ \A j \in 0 .. k - 1 : ~ Fits(sockets[j], r, p)'
  <2> DEFINE d == taker[r][p]
  <2>1. taker'[r][p] = d /\ d # Null /\ d \in open'
    BY <1>1
  <2>2. /\ d \in open /\ mem[d].port = p /\ mem[d].remote = r /\ ~ mem[d].listening
    BY <2>1 DEF TakerIsFirst
  <2>3. PICK k \in 0 .. InSight - 1 :
          /\ sockets[k] = d /\ \A j \in 0 .. k - 1 : ~ Fits(sockets[j], r, p)
    BY <2>1 DEF TakerIsFirst
  <2>4. k \in 0 .. InSight' - 1 /\ \A j \in 0 .. k : sockets'[j] = sockets[j]
    BY <1>1, <2>3
  <2> HIDE DEF d
  <2>5. SameFor(d)
    BY <2>2
  <2>6. ASSUME NEW j \in 0 .. k - 1 PROVE ~ Fits(sockets[j], r, p)'
    <3>1. j \in 0 .. k /\ j \in 0 .. InSight - 1 /\ j \in Index
      BY <1>0, <2>3 DEF Index
    <3>2. sockets[j] \in Chunks \cup {Null} /\ sockets'[j] = sockets[j]
      BY <1>0, <2>4, <3>1 DEF UdpTypeOK
    <3>3. ~ Fits(sockets[j], r, p)
      BY <2>3
    <3>4. sockets[j] \in Chunks => SameFor(sockets[j])
      BY <3>1
    <3> SUFFICES ASSUME NEW e, e = sockets[j] PROVE ~ Fits(e, r, p)'
      BY <3>2 DEF Fits, Listens, Connected
    <3> QED  BY <3>2, <3>3, <3>4 DEF Fits, Listens, Connected, SameFor
  <2>7. k \in 0 .. k /\ sockets'[k] = d
    BY <1>0, <2>3, <2>4
  <2> QED  BY <2>1, <2>2, <2>4, <2>5, <2>6, <2>7 DEF SameFor
<1> QED  BY <1>1 DEF TakerIsFirst

(* The steps of the main loop that change the table, one by one. *)
LEMMA OpenedKeepsTaker ==
  ASSUME TableInv, TakerIsFirst, ~ reordered, NEW c \in Chunks \ open, NEW k,
         main.pc = "idle", Opened(c, k)
  PROVE  TakerIsFirst'
<1>0. UdpTypeOK /\ EntriesSound
  BY DEF TableInv
<1>1. /\ mem' = [mem EXCEPT ![c] = k] /\ open' = open \cup {c}
      /\ main'.pc = "count"
      /\ UNCHANGED <<sockets, numSockets, taker>>
  BY DEF Opened, Idle
<1>2. Filled = numSockets /\ Filed = open /\ InSight = numSockets /\ InSight' = InSight
  BY <1>1 DEF Filled, Filed, InSight
<1>3. \A d \in Chunks : d # c => mem'[d] = mem[d]
  BY <1>0, <1>1 DEF UdpTypeOK
<1>4. \A d \in open : SameFor(d)
  BY <1>0, <1>3 DEF SameFor, UdpTypeOK
<1>5. \A j \in 0 .. InSight - 1 : sockets[j] \in open
  BY <1>0, <1>2 DEF EntriesSound
<1>6. ASSUME NEW r \in Remotes, NEW p \in Ports, taker'[r][p] # Null
      PROVE  taker'[r][p] = taker[r][p] /\ taker[r][p] \in open'
  BY <1>1, <1>6 DEF TakerIsFirst
<1> QED  BY <1>1, <1>2, <1>4, <1>5, <1>6, PrefixKeepsTaker

LEMMA StoreCountKeepsTaker ==
  ASSUME TableInv, TakerIsFirst, ~ reordered, StoreCount
  PROVE  TakerIsFirst'
<1>0. UdpTypeOK
  BY DEF TableInv
<1>1. /\ main.pc = "count" /\ numSockets' = numSockets + 1
      /\ main' = [main EXCEPT !.pc = "put"]
      /\ UNCHANGED <<mem, open, sockets, taker>>
  BY DEF StoreCount, MainRuns
<1>2. main'.pc = "put"
  BY <1>0, <1>1 DEF UdpTypeOK
<1>3. InSight \in Nat /\ InSight' = InSight + 1
  BY <1>0, <1>1, <1>2 DEF InSight, UdpTypeOK
<1>4. \A k \in 0 .. InSight - 1 : k \in 0 .. InSight' - 1
  BY <1>3
<1>5. \A d : SameFor(d)
  BY <1>1 DEF SameFor
<1>6. ASSUME NEW r \in Remotes, NEW p \in Ports, taker'[r][p] # Null
      PROVE  taker'[r][p] = taker[r][p] /\ taker[r][p] \in open'
  BY <1>1, <1>6 DEF TakerIsFirst
<1> QED  BY <1>1, <1>2, <1>4, <1>5, <1>6, PrefixKeepsTaker

(* What the handler still sees in the place of the socket that is entered is
   that socket, if it took a datagram at all: any other would be found before. *)
LEMMA PutSocketKeepsTaker ==
  ASSUME TableInv, TakerIsFirst, ~ reordered, PutSocket
  PROVE  TakerIsFirst'
<1> DEFINE n == numSockets - 1
<1>0. UdpTypeOK /\ EntriesSound /\ MainSound
  BY DEF TableInv
<1>1. /\ main.pc = "put" /\ sockets' = [sockets EXCEPT ![n] = main.sock]
      /\ main'.pc = "idle"
      /\ UNCHANGED <<mem, open, numSockets, taker>>
  BY DEF PutSocket, MainRuns, Idle
<1>2. /\ InSight' = InSight /\ InSight - 1 = n /\ Filled = n
      /\ Filed = open \ {main.sock}
  BY <1>1 DEF InSight, Filled, Filed
<1>3. n \in 0 .. Cardinality(Chunks) /\ Cardinality(Chunks) \in Nat
  BY <1>0, <1>2, CountFacts DEF EntriesSound
<1> HIDE DEF n
<1>4. \A d : SameFor(d)
  BY <1>1 DEF SameFor
<1>5. \A j \in 0 .. n : j \in Index
  BY <1>3 DEF Index
<1>6. \A j \in 0 .. n : j # n => sockets'[j] = sockets[j]
  BY <1>0, <1>1, <1>5 DEF UdpTypeOK
<1>7. n \in 0 .. n /\ sockets'[n] = main.sock
  BY <1>0, <1>1, <1>3, <1>5 DEF UdpTypeOK
<1>8. ASSUME NEW r \in Remotes, NEW p \in Ports, taker'[r][p] # Null
      PROVE  /\ taker'[r][p] = taker[r][p] /\ taker[r][p] \in open'
             /\ \A k \in 0 .. n :
                  /\ sockets[k] = taker[r][p]
                  /\ \A j \in 0 .. k - 1 : ~ Fits(sockets[j], r, p)
                  => \A j \in 0 .. k : sockets'[j] = sockets[j]
  <2> DEFINE d == taker[r][p]
  <2>1. taker'[r][p] = d /\ d # Null
    BY <1>1, <1>8
  <2>2. d \in open /\ Fits(d, r, p)
    BY <2>1 DEF TakerIsFirst, Fits, Connected
  <2> HIDE DEF d
  <2>3. ASSUME NEW k \in 0 .. n, sockets[k] = d,
               \A j \in 0 .. k - 1 : ~ Fits(sockets[j], r, p),
               NEW j \in 0 .. k
        PROVE  sockets'[j] = sockets[j]
    <3>1. CASE j # n
      <4>1. j \in 0 .. n
        BY <1>3
      <4> QED  BY <1>6, <3>1, <4>1
    <3>2. CASE j = n
      <4>1. k = n
        BY <1>3, <3>2
      <4>2. d \notin Filed
        <5> SUFFICES ASSUME d \in Filed PROVE FALSE
          OBVIOUS
        <5>1. PICK i \in 0 .. n - 1 : sockets[i] = d
          BY <1>0, <1>2 DEF EntriesSound
        <5> QED  BY <2>2, <2>3, <4>1, <5>1
      <4>3. d = main.sock
        BY <1>2, <2>2, <4>2
      <4> QED  BY <1>7, <2>3, <3>2, <4>1, <4>3
    <3> QED  BY <3>1, <3>2
  <2> QED  BY <1>1, <2>1, <2>2, <2>3 DEF d
<1>9. main'.pc # "move"
  BY <1>1
<1> QED  BY <1>2, <1>4, <1>8, <1>9, PrefixKeepsTaker

(* Bind, Build and Emit *)
LEMMA SameTableKeepsTaker ==
  ASSUME TableInv, TakerIsFirst, ~ reordered,
         main.pc \in {"idle", "emit"}, main'.pc \in {"idle", "emit"},
         \A c \in open : SameFor(c),
         UNCHANGED <<open, sockets, numSockets, taker>>
  PROVE  TakerIsFirst'
<1>0. EntriesSound
  BY DEF TableInv
<1>1. Filled = numSockets /\ Filed = open /\ InSight = numSockets /\ InSight' = InSight
  BY DEF Filled, Filed, InSight
<1>2. \A j \in 0 .. InSight - 1 : sockets[j] \in open
  BY <1>0, <1>1 DEF EntriesSound
<1>3. ASSUME NEW r \in Remotes, NEW p \in Ports, taker'[r][p] # Null
      PROVE  taker'[r][p] = taker[r][p] /\ taker[r][p] \in open'
  BY <1>3 DEF TakerIsFirst
<1> QED  BY <1>1, <1>2, <1>3, PrefixKeepsTaker

LEMMA ShrinkKeepsTaker ==
  ASSUME TableInv, TakerIsFirst, ~ reordered', NEW c \in Chunks, Shrink(c)
  PROVE  TakerIsFirst'
<1>0. UdpTypeOK
  BY DEF TableInv
<1>1. /\ main.pc = "idle" /\ numSockets' = numSockets - 1
      /\ UNCHANGED <<mem, open, sockets, taker>>
  BY DEF Shrink, MainRuns
<1>2. PICK i \in 0 .. numSockets - 1 :
        /\ main' = [pc |-> "move", sock |-> c, at |-> i, to |-> Nobody]
        /\ reordered' = (reordered \/ i < numSockets - 1)
  BY DEF Shrink, Idle
<1>3. ~ reordered /\ ~ (i < numSockets - 1)
  BY <1>2
<1>4. numSockets \in Nat /\ main'.at = numSockets'
  BY <1>0, <1>1, <1>2, <1>3 DEF UdpTypeOK
<1>5. InSight' = InSight
  BY <1>1, <1>2, <1>4 DEF InSight
<1>6. \A d : SameFor(d)
  BY <1>1 DEF SameFor
<1>7. ASSUME NEW r \in Remotes, NEW p \in Ports, taker'[r][p] # Null
      PROVE  taker'[r][p] = taker[r][p] /\ taker[r][p] \in open'
  BY <1>1, <1>3, <1>7 DEF TakerIsFirst
<1> QED  BY <1>1, <1>3, <1>4, <1>5, <1>6, <1>7, PrefixKeepsTaker

(* The last socket takes its own place and is out of sight. *)
LEMMA MoveLastKeepsTaker ==
  ASSUME TableInv, TakerIsFirst, ~ reordered, MoveLast
  PROVE  /\ TakerIsFirst'
         /\ \A r \in Remotes, p \in Ports :
              taker[r][p] # Null /\ taker'[r][p] # taker[r][p]
                => taker[r][p] \notin open'
<1> DEFINE n == numSockets
<1>0. UdpTypeOK /\ EntriesSound /\ MainSound
  BY DEF TableInv
<1>1. /\ main.pc = "move" /\ main'.pc = "idle"
      /\ sockets' = [sockets EXCEPT ![main.at] = sockets[n]]
      /\ open' = open \ {main.sock}
      /\ taker' = [r \in Remotes |-> [p \in Ports |->
                     IF taker[r][p] = main.sock THEN Null ELSE taker[r][p]]]
      /\ UNCHANGED <<mem, numSockets>>
  BY DEF MoveLast, MainRuns, Idle
<1>2. main.at = n /\ sockets[n] = main.sock
  BY <1>0, <1>1 DEF TakerIsFirst, MainSound
<1>3. sockets' = sockets
  BY <1>0, <1>1, <1>2 DEF UdpTypeOK
<1>4. InSight = n + 1 /\ InSight' = n /\ n \in Nat
  BY <1>0, <1>1 DEF InSight, UdpTypeOK
<1> HIDE DEF n
<1>5. \A r \in Remotes, p \in Ports :
        taker'[r][p] = IF taker[r][p] = main.sock THEN Null ELSE taker[r][p]
  BY <1>1
<1>6. ASSUME NEW r \in Remotes, NEW p \in Ports, taker'[r][p] # Null
      PROVE  /\ taker'[r][p] = taker[r][p] /\ taker[r][p] # main.sock
             /\ taker[r][p] \in open'
  <2>1. taker'[r][p] = taker[r][p] /\ taker[r][p] # main.sock
    BY <1>5, <1>6
  <2> QED  BY <1>1, <1>6, <2>1 DEF TakerIsFirst
<1>7. ASSUME NEW r \in Remotes, NEW p \in Ports, taker'[r][p] # Null,
             NEW k \in 0 .. InSight - 1, sockets[k] = taker[r][p]
      PROVE  k \in 0 .. InSight' - 1
  <2>1. k # n
    BY <1>2, <1>6, <1>7
  <2> QED  BY <1>4, <2>1
<1>8. \A d : SameFor(d)
  BY <1>1 DEF SameFor
<1>9. main'.pc # "move"
  BY <1>1
<1>10. TakerIsFirst'
  BY <1>3, <1>6, <1>7, <1>8, <1>9, PrefixKeepsTaker
<1>11. ASSUME NEW r \in Remotes, NEW p \in Ports, taker'[r][p] # taker[r][p]
       PROVE  taker[r][p] \notin open'
  BY <1>1, <1>5, <1>11
<1> QED  BY <1>10, <1>11

-----------------------------------------------------------------------------
(* All steps together. *)

LEMMA UdpInitInv == Init => TableInv /\ TakerIsFirst
<1> SUFFICES ASSUME Init PROVE TableInv /\ TakerIsFirst
  OBVIOUS
<1> USE DEF Init, Idle, Blank
<1>1. 0 \in Ports /\ Ports \subseteq Nat
  BY UdpAssumption DEF Ports
<1>2. UdpTypeOK
  <2>1. mem \in [Chunks -> Socket]
    BY <1>1 DEF Socket
  <2>2. sockets \in [Index -> Chunks \cup {Null}]
    OBVIOUS
  <2>3. main \in [pc : {"idle", "count", "put", "emit", "move"},
                 sock : Chunks \cup {Null}, at : Nat, to : Remotes \cup {Nobody}]
    OBVIOUS
  <2>4. taker \in [Remotes -> [Ports -> Chunks \cup {Null}]]
    OBVIOUS
  <2>5. open \in SUBSET Chunks /\ numSockets \in Nat /\ freePort \in Ports
    BY <1>1
  <2> QED  BY <2>1, <2>2, <2>3, <2>4, <2>5, Zenon DEF UdpTypeOK
<1>3. Filled = 0 /\ Filed = {}
  BY DEF Filled, Filed
<1>4. EntriesSound
  <2>1. Cardinality({}) = 0 /\ Cardinality(Chunks) \in Nat
    BY FS_EmptySet, CountFacts
  <2> QED  BY <1>3, <2>1 DEF EntriesSound
<1>5. MainSound /\ TakerIsFirst
  BY DEF MainSound, TakerIsFirst
<1> QED  BY <1>2, <1>4, <1>5 DEF TableInv

LEMMA NextPortType ==
  ASSUME NEW q \in Ports
  PROVE  NextPort(q) \in Ports
  BY UdpAssumption DEF NextPort, Ports

LEMMA ConnectOpens ==
  ASSUME TableInv, Connect \/ Listen
  PROVE  /\ main.pc = "idle" /\ freePort' \in Ports
         /\ \E c \in Chunks \ open, k \in Socket : Opened(c, k)
<1>0. UdpTypeOK
  BY DEF TableInv
<1>1. CASE Connect
  <2>1. PICK c \in Chunks \ open, r \in Remotes :
          Opened(c, [Blank EXCEPT !.port = freePort, !.remote = r])
    BY <1>1 DEF Connect
  <2>2. [Blank EXCEPT !.port = freePort, !.remote = r] \in Socket
    BY <1>0 DEF Blank, Socket, UdpTypeOK
  <2>3. freePort' \in Ports
    BY <1>0, <1>1, NextPortType DEF Connect, UdpTypeOK
  <2> QED  BY <1>1, <2>1, <2>2, <2>3 DEF Connect, MainRuns
<1>2. CASE Listen
  <2>0. PICK c \in Chunks \ open, p \in Ports : \E r \in {mem[c].remote, Nobody} :
          Opened(c, [Blank EXCEPT !.listening = TRUE, !.port = p, !.remote = r])
    BY <1>2 DEF Listen
  <2>1. PICK r \in {mem[c].remote, Nobody} :
          Opened(c, [Blank EXCEPT !.listening = TRUE, !.port = p, !.remote = r])
    BY <2>0
  <2>2. r \in Remotes \cup {Nobody}
    BY <1>0, <2>0, <2>1 DEF UdpTypeOK, Socket
  <2>3. [Blank EXCEPT !.listening = TRUE, !.port = p, !.remote = r] \in Socket
    BY <2>0, <2>2 DEF Blank, Socket
  <2>4. freePort' \in Ports
    BY <1>0, <1>2 DEF Listen, UdpTypeOK
  <2> QED  BY <1>2, <2>1, <2>3, <2>4 DEF Listen, MainRuns
<1> QED  BY <1>1, <1>2

(* The calls that leave the table alone *)
LEMMA BystandersKeepTable ==
  ASSUME TableInv, Emit \/ \E c \in Chunks : Bind(c) \/ Build(c)
  PROVE  /\ TableInv' /\ UNCHANGED <<open, sockets, numSockets, taker, reordered>>
         /\ main.pc \in {"idle", "emit"} /\ main'.pc \in {"idle", "emit"}
         /\ \A d \in open : SameFor(d)
<1>0. UdpTypeOK
  BY DEF TableInv
<1>1. ASSUME NEW c \in Chunks, Bind(c)
      PROVE  /\ TableInv' /\ UNCHANGED <<open, sockets, numSockets, taker, reordered>>
             /\ main.pc \in {"idle", "emit"} /\ main'.pc \in {"idle", "emit"}
             /\ \A d \in open : SameFor(d)
  <2>1. /\ mem' = [mem EXCEPT ![c].handler = TRUE] /\ main.pc = "idle"
        /\ UNCHANGED <<open, sockets, numSockets, freePort, main, taker, reordered>>
    BY <1>1 DEF Bind, MainRuns
  <2>h. mem \in [Chunks -> Socket] /\ mem[c] \in Socket
    BY <1>0 DEF UdpTypeOK
  <2>i. [mem[c] EXCEPT !.handler = TRUE] \in Socket
    BY <2>h DEF Socket
  <2>2. mem' \in [Chunks -> Socket]
    BY <2>1, <2>h, <2>i
  <2>3. UdpTypeOK'
    BY <1>0, <2>1, <2>2, Zenon DEF UdpTypeOK
  <2>4. \A d \in open : SameFor(d)
    BY <1>0, <2>1 DEF UdpTypeOK, Socket, SameFor
  <2>5. TableInv'
    BY <2>1, <2>3, SocketsOnlyKeepTable
  <2> QED  BY <2>1, <2>4, <2>5
<1>2. ASSUME NEW c \in Chunks, Build(c)
      PROVE  /\ TableInv' /\ UNCHANGED <<open, sockets, numSockets, taker, reordered>>
             /\ main.pc \in {"idle", "emit"} /\ main'.pc \in {"idle", "emit"}
             /\ \A d \in open : SameFor(d)
  <2>1. /\ main.pc = "idle"
        /\ main' = [pc |-> "emit", sock |-> c, at |-> 0, to |-> mem[c].remote]
        /\ UNCHANGED <<mem, open, sockets, numSockets, freePort, taker, reordered>>
    BY <1>2 DEF Build, MainRuns, Idle
  <2>2. mem[c].remote \in Remotes \cup {Nobody}
    BY <1>0 DEF UdpTypeOK, Socket
  <2>3. main' \in [pc : {"idle", "count", "put", "emit", "move"},
                 sock : Chunks \cup {Null}, at : Nat, to : Remotes \cup {Nobody}]
    BY <2>1, <2>2
  <2>4. UdpTypeOK'
    BY <1>0, <2>1, <2>3, Zenon DEF UdpTypeOK
  <2>5. main'.pc = "emit" /\ \A d \in open : SameFor(d)
    BY <2>1 DEF SameFor
  <2>6. TableInv'
    BY <2>1, <2>4, <2>5, SocketsOnlyKeepTable
  <2> QED  BY <2>1, <2>5, <2>6
<1>3. CASE Emit
  <2>1. /\ main.pc = "emit"
        /\ main' = [pc |-> "idle", sock |-> Null, at |-> 0, to |-> Nobody]
        /\ UNCHANGED <<mem, open, sockets, numSockets, freePort, taker, reordered>>
    BY <1>3 DEF Emit, MainRuns, Idle
  <2>3. main' \in [pc : {"idle", "count", "put", "emit", "move"},
                 sock : Chunks \cup {Null}, at : Nat, to : Remotes \cup {Nobody}]
    BY <2>1
  <2>4. UdpTypeOK'
    BY <1>0, <2>1, <2>3, Zenon DEF UdpTypeOK
  <2>5. main'.pc = "idle" /\ \A d \in open : SameFor(d)
    BY <2>1 DEF SameFor
  <2>6. TableInv'
    BY <2>1, <2>4, <2>5, SocketsOnlyKeepTable
  <2> QED  BY <2>1, <2>5, <2>6
<1> QED  BY <1>1, <1>2, <1>3

LEMMA TableStep == TableInv /\ [Next]_vars => TableInv'
<1> SUFFICES ASSUME TableInv, [Next]_vars PROVE TableInv'
  OBVIOUS
<1>1. CASE \E r \in Remotes, p \in Ports : DatagramArrives(r, p)
  BY <1>1, DatagramTypes, SocketsOnlyKeepTable
<1>2. CASE Connect \/ Listen
  BY <1>2, ConnectOpens, OpenedKeepsTable
<1>3. CASE StoreCount
  BY <1>3, StoreCountKeepsTable
<1>4. CASE PutSocket
  BY <1>4, PutSocketKeepsTable
<1>5. CASE Emit \/ \E c \in Chunks : Bind(c) \/ Build(c)
  BY <1>5, BystandersKeepTable
<1>6. CASE \E c \in Chunks : Shrink(c)
  BY <1>6, ShrinkKeepsTable
<1>7. CASE MoveLast
  BY <1>7, MoveLastKeepsTable
<1>8. CASE UNCHANGED vars
  BY <1>8 DEF vars, TableInv, UdpTypeOK, EntriesSound, MainSound, Filled, Filed
<1> QED  BY <1>1, <1>2, <1>3, <1>4, <1>5, <1>6, <1>7, <1>8 DEF Next

LEMMA TableInvariant == Spec => []TableInv
  BY UdpInitInv, TableStep, PTL DEF Spec

LEMMA TakerStep ==
  ASSUME TableInv, TakerIsFirst, [Next]_vars
  PROVE  /\ TakerIsFirst'
         /\ reordered => reordered'
         /\ ~ reordered => \A r \in Remotes, p \in Ports :
              taker[r][p] # Null /\ taker'[r][p] # taker[r][p]
                => taker[r][p] \notin open'
<1> DEFINE Kept ==
      /\ TakerIsFirst'
      /\ \A r \in Remotes, p \in Ports :
           taker[r][p] # Null /\ taker'[r][p] # taker[r][p]
             => taker[r][p] \notin open'
<1>1. reordered => reordered'
  BY DEF Next, vars, DatagramArrives, Connect, Listen, Opened, StoreCount, PutSocket,
         Bind, Build, Shrink, Emit, MoveLast
<1>2. CASE reordered
  BY <1>1, <1>2 DEF TakerIsFirst
<1>3. CASE ~ reordered /\ reordered'
  <2>1. ASSUME NEW c \in Chunks, Shrink(c) PROVE UNCHANGED taker
    BY <2>1 DEF Shrink
  <2>2. \E c \in Chunks : Shrink(c)
    BY <1>3 DEF Next, vars, DatagramArrives, Connect, Listen, Opened, StoreCount,
                PutSocket, Bind, Build, Emit, MoveLast
  <2> QED  BY <1>3, <2>1, <2>2 DEF TakerIsFirst
<1>4. CASE ~ reordered /\ ~ reordered'
  <2> SUFFICES Kept
    BY <1>1
  <2>1. CASE \E r \in Remotes, p \in Ports : DatagramArrives(r, p)
    BY <1>4, <2>1, DatagramKeepsTaker
  <2>2. CASE Connect \/ Listen
    <3>1. main.pc = "idle" /\ \E c \in Chunks \ open, k \in Socket : Opened(c, k)
      BY <2>2, ConnectOpens
    <3>2. UNCHANGED taker
      BY <3>1 DEF Opened
    <3>3. TakerIsFirst'
      BY <1>4, <3>1, OpenedKeepsTaker
    <3> QED  BY <3>2, <3>3
  <2>3. CASE StoreCount
    <3>1. UNCHANGED taker
      BY <2>3 DEF StoreCount
    <3> QED  BY <1>4, <2>3, <3>1, StoreCountKeepsTaker
  <2>4. CASE PutSocket
    <3>1. UNCHANGED taker
      BY <2>4 DEF PutSocket
    <3> QED  BY <1>4, <2>4, <3>1, PutSocketKeepsTaker
  <2>5. CASE Emit \/ \E c \in Chunks : Bind(c) \/ Build(c)
    <3>1. /\ UNCHANGED <<open, sockets, numSockets, taker>>
          /\ main.pc \in {"idle", "emit"} /\ main'.pc \in {"idle", "emit"}
          /\ \A d \in open : SameFor(d)
      BY <2>5, BystandersKeepTable
    <3>2. TakerIsFirst'
      BY <1>4, <3>1, SameTableKeepsTaker
    <3> QED  BY <3>1, <3>2
  <2>6. CASE \E c \in Chunks : Shrink(c)
    <3>1. UNCHANGED taker
      BY <2>6 DEF Shrink
    <3> QED  BY <1>4, <2>6, <3>1, ShrinkKeepsTaker
  <2>7. CASE MoveLast
    BY <1>4, <2>7, MoveLastKeepsTaker
  <2>8. CASE UNCHANGED vars
    BY <2>8 DEF vars, TakerIsFirst, InSight, Fits, Listens, Connected
  <2> HIDE DEF Kept
  <2> QED  BY <2>1, <2>2, <2>3, <2>4, <2>5, <2>6, <2>7, <2>8 DEF Next
<1> QED  BY <1>2, <1>3, <1>4

LEMMA TakerInvariant == Spec => []TakerIsFirst
  BY UdpInitInv, TableInvariant, TakerStep, PTL DEF Spec

(* Between the calls of the main loop the table holds every open socket once
   and nothing else, however the calls and the datagrams interleave. *)
THEOREM UdpTable == Spec => []UdpTableSound
<1>1. TableInv => UdpTableSound
  <2> SUFFICES ASSUME TableInv, main.pc \in {"idle", "emit"} PROVE
         /\ {sockets[i] : i \in 0 .. numSockets - 1} = open
         /\ numSockets = Cardinality(open)
    BY DEF UdpTableSound
  <2>1. Filled = numSockets /\ Filed = open
    BY DEF Filled, Filed
  <2>2. /\ \A i \in 0 .. numSockets - 1 : sockets[i] \in open
        /\ \A c \in open : \E i \in 0 .. numSockets - 1 : sockets[i] = c
        /\ numSockets = Cardinality(open)
    BY <2>1 DEF TableInv, EntriesSound
  <2> QED  BY <2>2
<1> QED  BY <1>1, TableInvariant, PTL

(* A datagram never reaches the handler of a closed socket, except between the
   two stores with which Connect and Listen enter a new one. *)
THEOREM HeardByOpen == Spec => HeardByOpenSockets
<1> DEFINE Open == heard' # << >> /\ main.pc # "put" => heard'[1] \in open
<1>1. ASSUME TableInv, [Next]_vars PROVE [Open]_vars
  <2>1. CASE heard' = << >>
    BY <2>1
  <2>2. CASE \E r \in Remotes, p \in Ports : DatagramArrives(r, p)
    <3> SUFFICES ASSUME main.pc # "put", heard' # << >> PROVE heard'[1] \in open
      OBVIOUS
    <3>1. PICK r \in Remotes, p \in Ports : DatagramArrives(r, p)
      BY <2>2
    <3> DEFINE c == Lookup(r, p)
    <3>2. heard' = <<c>> /\ c # Null
      BY <3>1 DEF DatagramArrives
    <3>3. PICK i \in 0 .. numSockets - 1 : sockets[i] = c
      BY <1>1, <3>2, LookupFindsFirst
    <3> HIDE DEF c
    <3>4. \A k \in 0 .. numSockets - 1 : k \in 0 .. Filled - 1
      BY <1>1 DEF TableInv, UdpTypeOK, Filled
    <3>5. c \in Filed
      BY <1>1, <3>3, <3>4 DEF TableInv, EntriesSound
    <3> QED  BY <3>2, <3>5 DEF Filed
  <2>3. CASE UNCHANGED vars
    BY <2>3
  <2>4. Connect \/ Listen \/ StoreCount \/ PutSocket \/ Emit \/ MoveLast
        \/ (\E c \in Chunks : Bind(c) \/ Build(c) \/ Shrink(c)) => heard' = << >>
    BY DEF Connect, Listen, StoreCount, PutSocket, Emit, MoveLast, Bind, Build,
           Shrink, MainRuns
  <2> QED  BY <1>1, <2>1, <2>2, <2>3, <2>4 DEF Next
<1> QED  BY <1>1, TableInvariant, PTL DEF Spec, HeardByOpenSockets

(* As long as Disconnect has not moved a socket, the open socket that took a
   datagram of a remote end takes all that end sends to its port. *)
THEOREM Conversation == Spec => ConversationKept
<1> DEFINE KeptUp == \A r \in Remotes, p \in Ports :
             taker[r][p] # Null /\ taker'[r][p] # taker[r][p]
               => taker[r][p] \notin open' \/ reordered
<1>1. ASSUME TableInv, TakerIsFirst, [Next]_vars PROVE [KeptUp]_vars
  BY <1>1, TakerStep
<1> QED  BY <1>1, TableInvariant, TakerInvariant, PTL DEF Spec, ConversationKept

-----------------------------------------------------------------------------
(* The cache of the ARP provider. *)

Entry == [ip : Hosts, mac : [hi : Nat, lo : Nat]]

Response == [ip : Hosts, mac : Macs]

ArpTypeOK ==
  /\ cache \in Seq(Entry)
  /\ responses \in SUBSET Response
  /\ asked \in SUBSET Hosts
  /\ resolving \in [Callers -> Hosts \cup {None}]
  /\ step \in [Callers -> {"idle", "miss", "spin"}]
  /\ \A c \in Callers : step[c] # "idle" => resolving[c] \in Hosts

Finds(entries, ip) ==
  LET hits == {i \in DOMAIN entries : entries[i].ip = ip}
  IN  IF hits = {} THEN NoMac
      ELSE entries[CHOOSE i \in hits : \A j \in hits : i <= j].mac

(* An entry is found from then on, whatever comes behind it. *)
LEMMA AppendKeepsFirst ==
  ASSUME NEW entries \in Seq(Entry), NEW e \in Entry, NEW ip,
         Finds(entries, ip) # NoMac
  PROVE  Finds(Append(entries, e), ip) = Finds(entries, ip)
<1> DEFINE longer == Append(entries, e)
           hits == {i \in DOMAIN entries : entries[i].ip = ip}
           more == {i \in DOMAIN longer : longer[i].ip = ip}
           first == CHOOSE i \in hits : \A j \in hits : i <= j
           again == CHOOSE i \in more : \A j \in more : i <= j
<1>1. hits # {} /\ Finds(entries, ip) = entries[first].mac
  BY DEF Finds
<1>2. /\ Len(entries) \in Nat /\ DOMAIN entries = 1 .. Len(entries)
      /\ DOMAIN longer = 1 .. Len(entries) + 1
      /\ \A i \in 1 .. Len(entries) : longer[i] = entries[i]
  OBVIOUS
<1> HIDE DEF longer
<1>3. hits \in SUBSET Nat /\ more \in SUBSET Nat /\ hits \subseteq more
  BY <1>2
<1>4. \A i \in more : i \in hits \/ i = Len(entries) + 1
  BY <1>2
<1>5. \A i \in hits : i <= Len(entries)
  BY <1>2
<1> HIDE DEF hits, more
<1>6. first \in hits /\ \A j \in hits : first <= j
  <2>1. \E i \in hits : \A j \in hits : i <= j
    BY <1>1, <1>3, FirstExists
  <2> QED  BY <2>1
<1>7. again \in more /\ \A j \in more : again <= j
  <2>1. \E i \in more : \A j \in more : i <= j
    BY <1>1, <1>3, FirstExists
  <2> QED  BY <2>1
<1> HIDE DEF first, again
<1>8. again = first
  <2>1. again <= first /\ first \in Nat /\ again \in Nat /\ first <= Len(entries)
    BY <1>3, <1>5, <1>6, <1>7
  <2>2. again \in hits
    BY <1>2, <1>4, <1>7, <2>1
  <2> QED  BY <1>6, <2>1, <2>2
<1>9. Finds(longer, ip) = longer[again].mac
  <2>1. more # {}
    BY <1>1, <1>3
  <2> QED  BY <2>1 DEF Finds, more, again
<1>10. longer[first] = entries[first]
  BY <1>2, <1>6 DEF hits
<1> QED  BY <1>1, <1>8, <1>9, <1>10 DEF longer

LEMMA ArpTypes == ArpSpec => []ArpTypeOK
<1>1. ArpInit => ArpTypeOK
  BY DEF ArpInit, ArpTypeOK, Callers
<1>2. ASSUME ArpTypeOK, [ArpNext]_arpVars PROVE ArpTypeOK'
  <2> USE <1>2 DEF ArpTypeOK
  <2>1. ASSUME NEW c \in Callers, NEW ip \in Hosts, Resolve(c, ip) PROVE ArpTypeOK'
    BY <2>1 DEF Resolve, wireVars
  <2>2. ASSUME NEW c \in Callers, Request(c) PROVE ArpTypeOK'
    BY <2>2 DEF Request
  <2>3. ASSUME NEW c \in Callers, SpinEnds(c) PROVE ArpTypeOK'
    BY <2>3 DEF SpinEnds, wireVars
  <2>4. ASSUME NEW r \in responses, ResponseArrives(r) PROVE ArpTypeOK'
    <3>1. Truncated(r.mac) \in [hi : Nat, lo : Nat]
      BY MacsAssumption DEF Truncated, Response
    <3>2. [ip |-> r.ip, mac |-> Truncated(r.mac)] \in Entry
      BY <3>1 DEF Entry, Response
    <3>3. cache' \in Seq(Entry)
      BY <2>4, <3>2 DEF ResponseArrives, Remember
    <3> QED  BY <2>4, <3>3 DEF ResponseArrives
  <2>5. ASSUME NEW ip \in Hosts, Respond(ip) \/ RespondUnasked(ip) PROVE ArpTypeOK'
    BY <2>5 DEF Respond, RespondUnasked, Response
  <2>6. CASE Lose
    BY <2>6 DEF Lose
  <2>7. CASE UNCHANGED arpVars
    BY <2>7 DEF arpVars
  <2> QED  BY <2>1, <2>2, <2>3, <2>4, <2>5, <2>6, <2>7 DEF ArpNext, Progress, Arrival
<1> QED  BY <1>1, <1>2, PTL DEF ArpSpec

(* Once a host is in the cache, the address found for it never changes: not
   by a later response of that host, nor by any other. *)
THEOREM FirstStays == ArpSpec => FirstResponseStays
<1> DEFINE Stays == \A ip \in Hosts :
             Known(ip) => GetMACFromCache(ip)' = GetMACFromCache(ip)
<1>1. ASSUME ArpTypeOK, [ArpNext]_arpVars, NEW ip \in Hosts, Known(ip)
      PROVE  Finds(cache', ip) = Finds(cache, ip)
  <2>1. CASE UNCHANGED cache
    BY <2>1
  <2>2. CASE Arrival
    <3>1. PICK r \in responses : Remember(r)
      BY <2>2 DEF Arrival, ResponseArrives
    <3> DEFINE e == [ip |-> r.ip, mac |-> Truncated(r.mac)]
    <3>2. Truncated(r.mac) \in [hi : Nat, lo : Nat]
      BY <1>1, MacsAssumption DEF Truncated, Response, ArpTypeOK
    <3>3. e \in Entry
      BY <1>1, <3>2 DEF Entry, Response, ArpTypeOK
    <3>4. cache' = cache \/ cache' = Append(cache, e)
      BY <3>1 DEF Remember
    <3>5. cache \in Seq(Entry) /\ Finds(cache, ip) # NoMac
      BY <1>1 DEF ArpTypeOK, Known, GetMACFromCache, Finds
    <3> HIDE DEF e
    <3> QED  BY <3>3, <3>4, <3>5, AppendKeepsFirst
  <2> QED
    BY <1>1, <2>1, <2>2 DEF ArpNext, Resolve, Progress, Request, SpinEnds, Respond,
                            RespondUnasked, Lose, arpVars
<1>2. \A ip : GetMACFromCache(ip) = Finds(cache, ip)
  BY DEF GetMACFromCache, Finds
<1>3. \A ip : GetMACFromCache(ip)' = Finds(cache', ip)
  BY DEF GetMACFromCache, Finds
<1>4. ASSUME ArpTypeOK, [ArpNext]_arpVars PROVE [Stays]_arpVars
  BY <1>1, <1>2, <1>3, <1>4
<1> QED  BY <1>4, ArpTypes, PTL DEF ArpSpec, FirstResponseStays

=============================================================================
