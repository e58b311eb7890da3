-------------------------------- MODULE Nic ---------------------------------
(***************************************************************************)
(* The am79c973 driver and its card: two rings of descriptors in shared    *)
(* memory, each owned by one side or the other, and the status bits of     *)
(* CSR0.  Send is called by the main loop and by the interrupt handler,    *)
(* which may start at any step of the main loop and runs to completion;    *)
(* the card works beside both.  No lock protects currentSendBuffer.        *)
(*                                                                         *)
(* The frame buffers are declared as 2063 rows of 8 bytes, not 8 rows of   *)
(* 2063, so that two descriptors point at most 64 bytes apart, or at the   *)
(* same place: their frames overlap.                                       *)
(*                                                                         *)
(* Frames are numbered: received ones in the order the card stored them,   *)
(* sent ones in the order Send picked their descriptor.  The card          *)
(* (external) fills and empties its descriptors in ring order and keeps    *)
(* its interrupt line up while a status bit is set.                        *)
(***************************************************************************)
EXTENDS Integers, Sequences

CONSTANTS
  RecvRing,     \* receive descriptors (8 in the driver)
  SendRing,     \* send descriptors (8 in the driver)
  BufferBase,   \* address of recvBuffers and sendBuffers
  FrameLength,  \* length of a frame
  MaxFrames,    \* bound: frames the network delivers
  MaxSends      \* bound: calls of Send

ASSUME RecvRingAssumption == RecvRing \in Nat \ {0}
ASSUME SendRingAssumption == SendRing \in Nat \ {0}
ASSUME BufferAssumption == BufferBase \in Nat /\ FrameLength \in Nat \ {0}
ASSUME BoundsAssumption == MaxFrames \in Nat /\ MaxSends \in Nat

VARIABLES
  recvDescr,    \* recvBufferDescr: [own, frame, good]
  recvBuffers,  \* what the buffer at each address holds: a frame, or Damaged
  currentRecv,  \* currentRecvBuffer
  cardRecv,     \* the receive descriptor the card fills next
  arrived,      \* frames the card has stored
  handed,       \* frames taken off the ring, in order
  csr0,         \* status bits set in CSR0
  temp,         \* what handleInterrupt read of them
  crowded,      \* a frame was stored while another was waiting
  late,         \* a frame arrived after Receive looked and before the acknowledge
  sendDescr,    \* sendBufferDescr: [own, frame]
  sendBuffers,
  currentSend,  \* currentSendBuffer
  cardSend,     \* the send descriptor the card looks at next
  sends,        \* calls of Send so far
  wire,         \* frames transmitted, in order: [frame, content]
  pc,           \* where the main loop and the handler are
  sending,      \* per context: [frame, descr, next], the locals of Send
  clash,        \* the handler picked a descriptor while main was picking one
  overrun,      \* Send reused a descriptor that was still waiting to be sent
  pressed       \* Send copied a frame while another was waiting to be sent

recvVars == <<recvDescr, recvBuffers, currentRecv, cardRecv, arrived, handed,
              crowded, late>>
sendVars == <<sendDescr, sendBuffers, currentSend, cardSend, sends, wire,
              sending, clash, overrun, pressed>>
irqVars == <<csr0, temp>>
nicVars == <<recvVars, sendVars, irqVars, pc>>

Contexts == {"main", "isr"}
RecvIndex == 0 .. RecvRing - 1
SendIndex == 0 .. SendRing - 1

Damaged == 0
\* (&recvBuffers[i] + 15) & ~15, rows being 8 bytes long
Address(i) == ((BufferBase + 8 * i + 15) \div 16) * 16
Addresses(index) == {Address(i) : i \in index}

(* Frame goes into buffer i, and over what is in the buffers it reaches. *)
Store(buffers, i, frame) ==
  [a \in DOMAIN buffers |->
     IF a = Address(i) THEN frame
     ELSE IF a - Address(i) < FrameLength /\ Address(i) - a < FrameLength
          THEN Damaged ELSE buffers[a]]

(* The constructor gives the receive ring to the card and keeps the send
   ring; Activate has started the card. *)
NicInit ==
  /\ recvDescr = [i \in RecvIndex |-> [own |-> "card", frame |-> 0, good |-> FALSE]]
  /\ sendDescr = [i \in SendIndex |-> [own |-> "driver", frame |-> 0]]
  /\ currentRecv = 0 /\ cardRecv = 0 /\ currentSend = 0 /\ cardSend = 0
  /\ recvBuffers = [a \in Addresses(RecvIndex) |-> Damaged]
  /\ sendBuffers = [a \in Addresses(SendIndex) |-> Damaged]
  /\ arrived = 0 /\ handed = << >> /\ wire = << >> /\ sends = 0
  /\ csr0 = {} /\ temp = {}
  /\ crowded = FALSE /\ late = FALSE
  /\ clash = FALSE /\ overrun = FALSE /\ pressed = FALSE
  /\ pc = [c \in Contexts |-> "idle"]
  /\ sending = [c \in Contexts |-> [frame |-> 0, descr |-> 0, next |-> 0]]

\* the main loop stands still while the handler runs
Runs(c) == c = "isr" \/ pc["isr"] = "idle"
At(c, from) == Runs(c) /\ pc[c] = from
Goto(c, to) == pc' = [pc EXCEPT ![c] = to]

-----------------------------------------------------------------------------
(* The card.                                                               *)

(* A frame comes in, whole or damaged; without a free descriptor it is lost. *)
CardReceives(good) ==
  /\ arrived < MaxFrames
  /\ recvDescr[cardRecv].own = "card"
  /\ recvDescr' = [recvDescr EXCEPT ![cardRecv] =
                     [own |-> "driver", frame |-> arrived + 1, good |-> good]]
  /\ recvBuffers' = Store(recvBuffers, cardRecv, arrived + 1)
  /\ crowded' = (crowded \/ \E i \in RecvIndex : recvDescr[i].own = "driver")
  /\ cardRecv' = (cardRecv + 1) % RecvRing
  /\ arrived' = arrived + 1
  /\ csr0' = csr0 \cup {"RINT"}
  /\ late' = (late \/ (pc["isr"] = "acknowledge" /\ "RINT" \in temp))
  /\ UNCHANGED <<currentRecv, handed, temp, pc, sendVars>>

CardTransmits ==
  /\ sendDescr[cardSend].own = "card"
  /\ wire' = Append(wire, [frame |-> sendDescr[cardSend].frame,
                           content |-> sendBuffers[Address(cardSend)]])
  /\ sendDescr' = [sendDescr EXCEPT ![cardSend].own = "driver"]
  /\ cardSend' = (cardSend + 1) % SendRing
  /\ csr0' = csr0 \cup {"TINT"}
  /\ UNCHANGED <<sendBuffers, currentSend, sends, sending, clash, overrun, pressed,
                 temp, pc, recvVars>>

-----------------------------------------------------------------------------
(* amd_am79c973::Send, a step for every access to shared state.            *)

(* sendDescriptor = currentSendBuffer *)
Pick(c) ==
  /\ sends < MaxSends
  /\ sends' = sends + 1
  /\ sending' = [sending EXCEPT ![c].frame = sends + 1, ![c].descr = currentSend]
  /\ clash' = (clash \/ (c = "isr" /\ pc["main"] \in {"load", "advance"}))
  /\ overrun' = (overrun \/ (/\ c = "isr" /\ pc["main"] \in {"fill", "hand"}
                             /\ sending["main"].descr = currentSend))
  /\ Goto(c, "load")
  /\ UNCHANGED <<sendDescr, sendBuffers, currentSend, cardSend, wire, pressed,
                 recvVars, irqVars>>

(* The main loop sends whenever it likes; the handler of a frame sends any
   number of times, a last time if it asks for the frame to be sent back. *)
SendStart ==
  \/ At("main", "idle") /\ Pick("main")
  \/ At("isr", "handling") /\ recvDescr[currentRecv].good /\ Pick("isr")

(* currentSendBuffer = (currentSendBuffer + 1) % 8, a load and a store *)
Load(c) ==
  /\ At(c, "load") /\ Goto(c, "advance")
  /\ sending' = [sending EXCEPT ![c].next = (currentSend + 1) % SendRing]
  /\ UNCHANGED <<sendDescr, sendBuffers, currentSend, cardSend, sends, wire, clash,
                 overrun, pressed, recvVars, irqVars>>

Advance(c) ==
  /\ At(c, "advance") /\ Goto(c, "fill")
  /\ currentSend' = sending[c].next
  /\ UNCHANGED <<sendDescr, sendBuffers, cardSend, sends, wire, sending, clash,
                 overrun, pressed, recvVars, irqVars>>

(* The bookkeeping of a copy: the descriptor was still waiting to be sent, or
   some other frame was, handed over or about to be. *)
Copying(c) ==
  /\ overrun' = (overrun \/ sendDescr[sending[c].descr].own = "card")
  /\ pressed' = (\/ pressed
                 \/ \E i \in SendIndex : sendDescr[i].own = "card"
                 \/ (c = "isr" /\ pc["main"] = "hand"))

\* mutant: the buffer is looked up after the index has moved on
FillNext(c) ==
  /\ At(c, "fill") /\ Goto(c, "hand") /\ Copying(c)
  /\ sendBuffers' = Store(sendBuffers, sending[c].next, sending[c].frame)
  /\ UNCHANGED <<sendDescr, currentSend, cardSend, sends, wire, sending, clash,
                 recvVars, irqVars>>

(* The frame is copied into the buffer of the descriptor, which Send never
   asks the owner of. *)
Fill(c) ==
  /\ At(c, "fill") /\ Goto(c, "hand") /\ Copying(c)
  /\ sendBuffers' = Store(sendBuffers, sending[c].descr, sending[c].frame)
  /\ UNCHANGED <<sendDescr, currentSend, cardSend, sends, wire, sending, clash,
                 recvVars, irqVars>>

\* mutant: the descriptor is never given to the card
HandForgotten(c) ==
  /\ At(c, "hand") /\ Goto(c, IF c = "isr" THEN "handling" ELSE "idle")
  /\ UNCHANGED <<sendVars, recvVars, irqVars>>

(* The flags hold the length of the frame and give the descriptor to the card;
   writing 0x48 to CSR0 only tells it to look. *)
Hand(c) ==
  /\ At(c, "hand") /\ Goto(c, IF c = "isr" THEN "handling" ELSE "idle")
  /\ sendDescr' = [sendDescr EXCEPT ![sending[c].descr] =
                     [own |-> "card", frame |-> sending[c].frame]]
  /\ UNCHANGED <<sendBuffers, currentSend, cardSend, sends, wire, sending, clash,
                 overrun, pressed, recvVars, irqVars>>

-----------------------------------------------------------------------------
(* handleInterrupt and Receive.                                            *)

Interrupt ==
  /\ csr0 # {} /\ pc["isr"] = "idle"
  /\ temp' = csr0
  /\ Goto("isr", IF "RINT" \in csr0 THEN "receive" ELSE "acknowledge")
  /\ UNCHANGED <<csr0, recvVars, sendVars>>

\* mutant: the descriptor is given back before its frame is handled
ReceiveGivesBack ==
  /\ At("isr", "receive") /\ Goto("isr", "handling")
  /\ recvDescr[currentRecv].own = "driver"
  /\ handed' = Append(handed, recvDescr[currentRecv].frame)
  /\ recvDescr' = [recvDescr EXCEPT ![currentRecv].own = "card"]
  /\ UNCHANGED <<recvBuffers, currentRecv, cardRecv, arrived, crowded, late,
                 sendVars, irqVars>>

(* The next descriptor that is not the card's: its frame goes to the handler
   unless it is damaged. *)
Receive ==
  /\ At("isr", "receive") /\ Goto("isr", "handling")
  /\ recvDescr[currentRecv].own = "driver"
  /\ handed' = Append(handed, recvDescr[currentRecv].frame)
  /\ UNCHANGED <<recvDescr, recvBuffers, currentRecv, cardRecv, arrived, crowded,
                 late, sendVars, irqVars>>

\* mutant: the index runs on without giving the descriptor back
GiveBackForgotten ==
  /\ At("isr", "handling") /\ Goto("isr", "receive")
  /\ currentRecv' = (currentRecv + 1) % RecvRing
  /\ UNCHANGED <<recvDescr, recvBuffers, cardRecv, arrived, handed, crowded, late,
                 sendVars, irqVars>>

\* mutant: one frame is taken per interrupt
GiveBackAndLeave ==
  /\ At("isr", "handling") /\ Goto("isr", "acknowledge")
  /\ recvDescr' = [recvDescr EXCEPT ![currentRecv].own = "card"]
  /\ currentRecv' = (currentRecv + 1) % RecvRing
  /\ UNCHANGED <<recvBuffers, cardRecv, arrived, handed, crowded, late, sendVars,
                 irqVars>>

GiveBack ==
  /\ At("isr", "handling") /\ Goto("isr", "receive")
  /\ recvDescr' = [recvDescr EXCEPT ![currentRecv].own = "card"]
  /\ currentRecv' = (currentRecv + 1) % RecvRing
  /\ UNCHANGED <<recvBuffers, cardRecv, arrived, handed, crowded, late, sendVars,
                 irqVars>>

(* The ring is empty as far as the driver can see. *)
ReceiveEnds ==
  /\ At("isr", "receive") /\ Goto("isr", "acknowledge")
  /\ recvDescr[currentRecv].own = "card"
  /\ late' = FALSE
  /\ UNCHANGED <<recvDescr, recvBuffers, currentRecv, cardRecv, arrived, handed,
                 crowded, sendVars, irqVars>>

(* Writing temp back clears the bits that were read, those set again since
   included. *)
Acknowledge ==
  /\ At("isr", "acknowledge") /\ Goto("isr", "idle")
  /\ csr0' = csr0 \ temp
  /\ UNCHANGED <<temp, recvVars, sendVars>>

-----------------------------------------------------------------------------

Card == CardTransmits \/ \E good \in BOOLEAN : CardReceives(good)

Steps(c) == Load(c) \/ Advance(c) \/ Fill(c) \/ Hand(c)

Handler == Interrupt \/ Receive \/ GiveBack \/ ReceiveEnds \/ Acknowledge

NicNext == Card \/ SendStart \/ (\E c \in Contexts : Steps(c)) \/ Handler

(* Send and the handler have no loop that waits, and the card works on. *)
NicFairness ==
  /\ WF_nicVars(CardTransmits)
  /\ WF_nicVars(\E c \in Contexts : Steps(c))
  /\ WF_nicVars(Handler)

NicSpec == NicInit /\ [][NicNext]_nicVars /\ NicFairness

-----------------------------------------------------------------------------

UpTo(n) == [i \in 1 .. n |-> i]

(* Driver and card stay in step on the receive ring: frames come off it in
   the order they were stored, each once. *)
ReceivedInOrder == Len(handed) <= arrived /\ handed = UpTo(Len(handed))

(* With no interrupt pending and none running the receive ring is empty,
   unless a frame came in between the last look of Receive and the write that
   acknowledged it: that frame waits for the next one. *)
NoFrameStranded ==
  (csr0 = {} /\ pc["isr"] = "idle" /\ ~ late) => Len(handed) = arrived

(* The frame its handler is looking at is the one the descriptor was filled
   with, as long as no frame has come in while another was waiting: with more
   than one in the ring they lie in each other's memory. *)
HandledIntact ==
  (pc["isr"] = "handling" /\ ~ crowded) =>
     recvBuffers[Address(currentRecv)] = recvDescr[currentRecv].frame

(* Frames leave in the order their descriptors were picked, none twice and
   none skipped, unless the handler picked one while main was picking or the
   ring was full, the two things Send does not look at; and with what Send was
   given, unless a frame was copied while another was waiting. *)
SentInOrder ==
  (~ clash /\ ~ overrun) =>
     \A i \in DOMAIN wire : wire[i].frame = i /\ (wire[i].content = i \/ pressed)

(* A frame given to Send reaches the wire, with the same two exceptions. *)
EveryFrameSent ==
  \A n \in 1 .. MaxSends : (sends >= n) ~> (Len(wire) >= n \/ clash \/ overrun)
=============================================================================
