-------------------------------- MODULE Tcp ---------------------------------
(***************************************************************************)
(* The TransmissionControlProtocolProvider: a table of sockets that the    *)
(* main loop fills (Connect, Listen), writes to (Send) and closes          *)
(* (Disconnect), and that OnInternetProtocolReceived, run by the network   *)
(* card's interrupt, reads and shrinks.  The handler runs to completion    *)
(* and may start between any two memory accesses of the main loop.         *)
(*                                                                         *)
(* A socket is a chunk of memory; its record survives the free, and what   *)
(* the code leaves uninitialised is whatever was there (Garbage, Nobody or *)
(* an old remote end).  A remote end stands for an address with a port.    *)
(* Numbers are offsets from 0xbeefcafe; a payload is its length, how many  *)
(* zero bytes end it and whether it is a GET request.  Incoming            *)
(* acknowledgement numbers are not modelled: the code never looks at them. *)
(***************************************************************************)
EXTENDS Integers, Sequences, FiniteSets

CONSTANTS
  Chunks,       \* memory for sockets
  Remotes,      \* remote ends
  Nobody,       \* a remote end no segment comes from
  PortSpace,    \* freePort wraps here (65536 in the code)
  FlagSets,     \* flag combinations remote ends send
  SeqNumbers,   \* sequence numbers they use
  Payloads,     \* payloads they send: [len, zeros, get]
  Garbage,      \* what an uninitialised number may hold
  HeaderLength, \* bytes before the payload
  MaxOpens,     \* bound: calls of Connect and Listen
  MaxSends,     \* bound: calls of Send
  MaxSegments   \* bound: segments that arrive

ASSUME BoundsAssumption == {MaxOpens, MaxSends, MaxSegments} \subseteq Nat
ASSUME PortSpaceAssumption == PortSpace \in Nat \ {0}
ASSUME NobodyAssumption == Nobody \notin Remotes
\* a payload ends in as many zero bytes as it has at most; a header is not empty
ASSUME PayloadsAssumption ==
  Payloads \subseteq {p \in [len : Nat, zeros : Nat, get : BOOLEAN] : p.zeros <= p.len}
ASSUME NumbersAssumption ==
  SeqNumbers \subseteq Int /\ Garbage \subseteq Int /\ HeaderLength \in Nat \ {0}

VARIABLES
  mem,          \* the socket record in each chunk
  allocated,    \* the chunks malloc has given out
  sockets,      \* the table
  numSockets,
  freePort,
  main,         \* the main loop: [pc, op, sock, n, flags, size, built, seq]
  held,         \* sockets the application has been given and may still use
  out,          \* the segments sent by the last step
  hung,         \* the interrupt handler waits for a state that cannot come
  opens, sends, segments,   \* counters for the bounds
  \* history
  due,          \* per chunk: what the acknowledgement should be, [next, short, skipped]
  dataNext,     \* per chunk: the number the next byte of data should have
  finSent,      \* per chunk: a FIN has been sent
  intact,       \* data has been numbered without a gap, an overlap or a FIN before it
  torn,         \* a removal hit Connect or Listen while entering its socket
  raced         \* a segment changed a socket the main loop had begun to send on

tables == <<mem, allocated, sockets, numSockets>>
history == <<due, dataNext, finSent, intact>>
vars == <<tables, history, freePort, main, held, out, hung, opens, sends,
          segments, torn, raced>>

States == {"CLOSED", "LISTENING", "SYN_SENT", "SYN_RECEIVED", "ESTABLISHED",
           "FIN_WAIT1", "FIN_WAIT2", "CLOSE_WAIT"}
Null == "null"
\* no socket is at address 0
ASSUME ChunksAssumption == Null \notin Chunks
Ports == 0 .. PortSpace - 1
Empty == [len |-> 0, zeros |-> 0, get |-> FALSE]
Segments == {g \in [from : Remotes, port : Ports, flags : FlagSets,
                     seq : SeqNumbers, data : Payloads \cup {Empty}] :
               "PSH" \in g.flags <=> g.data # Empty}
\* of the 65535 entries no more are used than sockets have been opened
Index == 0 .. MaxOpens
Idle == [pc |-> "idle", op |-> "none", sock |-> Null, n |-> 0,
         flags |-> {}, size |-> 0, built |-> << >>, seq |-> 0]
\* a constructed socket: its numbers are whatever was in its memory
Fresh(state, port, remote, seq, ack) ==
  [state |-> state, port |-> port, remote |-> remote, seq |-> seq, ack |-> ack,
   handler |-> FALSE]
\* next: the number after the last byte handed over, or after the FIN behind it;
\* short: a payload was empty or ended in zero bytes; skipped: a FIN came that
\* was not next, or brought data, which is not handed over
HandedUpTo(number) == [next |-> number, short |-> FALSE, skipped |-> FALSE]

Init ==
  /\ mem = [c \in Chunks |-> Fresh("CLOSED", 0, Nobody, 0, 0)] /\ allocated = {}
  /\ sockets = [i \in Index |-> Null] /\ numSockets = 0 /\ freePort = 0
  /\ main = Idle /\ held = {} /\ out = << >> /\ hung = FALSE
  /\ opens = 0 /\ sends = 0 /\ segments = 0
  /\ due = [c \in Chunks |-> HandedUpTo(0)] /\ dataNext = [c \in Chunks |-> 1]
  /\ finSent = [c \in Chunks |-> FALSE]
  /\ intact = TRUE /\ torn = FALSE /\ raced = FALSE

-----------------------------------------------------------------------------
(* The interrupt handler works on the whole of what it can reach, w, and   *)
(* each operator below is one step of it, from w to the next.              *)

World == [mem |-> mem, allocated |-> allocated, sockets |-> sockets,
          num |-> numSockets, out |-> << >>, hung |-> FALSE, due |-> due,
          dataNext |-> dataNext, finSent |-> finSent, intact |-> intact]

Becomes(w) ==
  /\ mem' = w.mem /\ allocated' = w.allocated
  /\ sockets' = w.sockets /\ numSockets' = w.num
  /\ out' = w.out /\ hung' = w.hung /\ due' = w.due
  /\ dataNext' = w.dataNext /\ finSent' = w.finSent /\ intact' = w.intact

(* What numbering a segment says about the stream of bytes sent so far. *)
InOrder(c, seq, flags, size, next, fin) ==
  /\ size > 0 => seq = next[c] /\ ~ fin[c]
  /\ "FIN" \in flags => seq >= next[c] \/ next[c] = 1

SegmentOf(k, flags, size, seq) ==
  [to |-> k.remote, from |-> k.port, flags |-> flags, seq |-> seq,
   ack |-> k.ack, size |-> size]

Enter(w, c, state) == [w EXCEPT !.mem[c].state = state]
CountUp(w, c) == [w EXCEPT !.mem[c].seq = @ + 1]

(* TransmissionControlProtocolProvider::Send, without interruption *)
SendSegment(w, c, flags, size) ==
  LET k == w.mem[c] IN
  [w EXCEPT
     !.out = Append(@, SegmentOf(k, flags, size, k.seq)),
     !.mem[c].seq = @ + size,
     !.intact = @ /\ InOrder(c, k.seq, flags, size, w.dataNext, w.finSent),
     !.dataNext[c] = IF size > 0 THEN k.seq + size ELSE @,
     !.finSent[c] = @ \/ "FIN" \in flags]

Reset(w, c) == SendSegment(w, c, {"RST"}, 0)

(* The peer's next number is expected from now on. *)
Expect(w, c, number) ==
  [w EXCEPT !.mem[c].ack = number, !.due[c] = HandedUpTo(number)]

OnSyn(w, c, g) ==
  IF w.mem[c].state = "LISTENING"
  THEN LET k == [Enter(Expect(w, c, g.seq + 1), c, "SYN_RECEIVED")
                   EXCEPT !.mem[c].remote = g.from, !.mem[c].seq = 0]
       IN  CountUp(SendSegment(k, c, {"SYN", "ACK"}, 0), c)
  ELSE Reset(w, c)

OnSynAck(w, c, g) ==
  IF w.mem[c].state = "SYN_SENT"
  THEN SendSegment(CountUp(Enter(Expect(w, c, g.seq + 1), c, "ESTABLISHED"), c),
                   c, {"ACK"}, 0)
  ELSE Reset(w, c)

\* the FIN takes the number behind the data it comes with
FinIsNext(g, d) == g.data.len = 0 /\ g.seq = d.next
FinSeen(g, d) == IF FinIsNext(g, d) THEN [d EXCEPT !.next = @ + 1]
                 ELSE [d EXCEPT !.skipped = TRUE]

(* The acknowledgement moves on by one whatever the number of the FIN, which
   is not looked at. *)
FinCounted(w, c, g) ==
  [w EXCEPT !.mem[c].ack = @ + 1, !.due[c] = FinSeen(g, @)]

OnFin(w, c, g) ==
  LET state == w.mem[c].state IN
  CASE state = "ESTABLISHED" ->
         SendSegment(SendSegment(FinCounted(Enter(w, c, "CLOSE_WAIT"), c, g),
                                 c, {"ACK"}, 0),
                     c, {"FIN", "ACK"}, 0)
    [] state = "CLOSE_WAIT" -> Enter(w, c, "CLOSED")
    [] state \in {"FIN_WAIT1", "FIN_WAIT2"} ->
         SendSegment(FinCounted(Enter(w, c, "CLOSED"), c, g), c, {"ACK"}, 0)
    [] OTHER -> Reset(w, c)

-----------------------------------------------------------------------------
(* Disconnect, without interruption *)
Close(w, c) ==
  CountUp(SendSegment(Enter(w, c, "FIN_WAIT1"), c, {"FIN", "ACK"}, 0), c)

ReplySize == 2   \* the 184 bytes of the answer to a GET

\* mutant: a request is answered in whatever state the socket is
ReplyAnyState(w, c) == Close(SendSegment(w, c, {"PSH", "ACK"}, ReplySize), c)

(* The bound handler answers a request with Send and Disconnect.  Send waits
   for ESTABLISHED with interrupts off. *)
Reply(w, c) ==
  IF w.mem[c].state = "ESTABLISHED"
  THEN Close(SendSegment(w, c, {"PSH", "ACK"}, ReplySize), c)
  ELSE [w EXCEPT !.hung = TRUE]

\* mutant: the index of the last byte is added, not its offset
AdvanceByIndex(data) == IF data.zeros < data.len THEN HeaderLength + data.len - data.zeros ELSE 1

(* How far the acknowledgement moves: to the last byte that is not zero, and
   back by the header when there is none. *)
Advance(data) ==
  IF data.zeros < data.len THEN data.len - data.zeros ELSE 1 - HeaderLength

\* the payload is handed over: how far the application has seen the stream
Seen(g, d) ==
  [d EXCEPT !.next = IF @ > g.seq + g.data.len THEN @ ELSE g.seq + g.data.len,
            !.short = @ \/ g.data.len = 0 \/ g.data.zeros > 0]

(* The default case: hand the payload over if it is the expected one. *)
OnData(w, c, g) ==
  IF g.seq = w.mem[c].ack /\ w.mem[c].handler
  THEN LET handed == [w EXCEPT !.due[c] = Seen(g, @)]
           answered == IF g.data.get THEN Reply(handed, c) ELSE handed
       IN  IF answered.hung THEN answered
           ELSE SendSegment([answered EXCEPT !.mem[c].ack = @ + Advance(g.data)],
                            c, {"ACK"}, 0)
  ELSE Reset(w, c)

OnAck(w, c, g) ==
  LET state == w.mem[c].state IN
  CASE state = "SYN_RECEIVED" -> Enter(w, c, "ESTABLISHED")
    [] state = "FIN_WAIT1" -> Enter(w, c, "FIN_WAIT2")
    [] state = "CLOSE_WAIT" -> Enter(w, c, "CLOSED")
    [] OTHER -> IF g.flags = {"ACK"} THEN w ELSE OnData(w, c, g)

(* The switch over SYN, ACK and FIN *)
Dispatch(w, c, g) ==
  LET mask == g.flags \cap {"SYN", "ACK", "FIN"} IN
  CASE mask = {"SYN"} -> OnSyn(w, c, g)
    [] mask = {"SYN", "ACK"} -> OnSynAck(w, c, g)
    [] mask \in {{"SYN", "FIN"}, {"SYN", "ACK", "FIN"}} -> Reset(w, c)
    [] mask \in {{"FIN"}, {"FIN", "ACK"}} -> OnFin(w, c, g)
    [] mask = {"ACK"} -> OnAck(w, c, g)
    [] OTHER -> OnData(w, c, g)

-----------------------------------------------------------------------------

\* mutant: the last socket does not take the place of the removed one
FreeClosedNoSwap(w, c) ==
  IF w.mem[c].state = "CLOSED"
  THEN [w EXCEPT !.num = @ - 1, !.allocated = @ \ {c}]
  ELSE w

(* A closed socket leaves the table, the last one takes its place. *)
FreeClosed(w, c) ==
  IF w.mem[c].state = "CLOSED"
  THEN LET i == CHOOSE j \in 0 .. w.num - 1 :
                  w.sockets[j] = c /\ \A k \in 0 .. j - 1 : w.sockets[k] # c
       IN  [w EXCEPT !.sockets[i] = w.sockets[w.num - 1],
                     !.num = @ - 1, !.allocated = @ \ {c}]
  ELSE w

(* The test for a listening socket, flags & (SYN | ACK) == SYN, reads as
   flags & ((SYN | ACK) == SYN) and is never true, so a socket is found by its
   own port and its remote end only. *)
Matches(c, g) ==
  c # Null /\ mem[c].port = g.port /\ mem[c].remote = g.from

Hits(g) == {i \in 0 .. numSockets - 1 : Matches(sockets[i], g)}
Lookup(g) == sockets[CHOOSE i \in Hits(g) : \A j \in Hits(g) : i <= j]

(* OnInternetProtocolReceived.  The return after SYN_RECEIVED or FIN_WAIT1
   skips the removal of a closed socket, which that socket is not. *)
Handle(g) ==
  LET c == Lookup(g)
      opened == IF "RST" \in g.flags THEN Enter(World, c, "CLOSED") ELSE World
      w == Dispatch(opened, c, g)
  IN  /\ Becomes(IF w.hung THEN w ELSE FreeClosed(w, c))
      /\ torn' = (torn \/ (numSockets' # numSockets /\ main.pc \in {"count", "put"}))
      /\ raced' = (\/ raced
                   \/ /\ main.sock = c
                      /\ main.pc \in {"number", "build", "load", "store"}
                      /\ \/ mem'[c].state # mem[c].state
                         \/ mem'[c].seq # mem[c].seq)
      /\ held' = held \cap allocated'

(* A segment of at least 20 bytes reaches the provider; one that matches no
   socket is dropped. *)
SegmentArrives(g) ==
  /\ ~ hung /\ segments < MaxSegments /\ segments' = segments + 1
  /\ \/ Hits(g) # {} /\ Handle(g)
     \/ /\ Hits(g) = {} /\ out' = << >>
        /\ UNCHANGED <<tables, history, held, hung, torn, raced>>
  /\ UNCHANGED <<freePort, main, opens, sends>>

-----------------------------------------------------------------------------
(* The main loop, one access to shared memory at a time. *)

MainRuns(pc) == ~ hung /\ main.pc = pc
Quiet == out' = << >> /\ hung' = hung

\* freePort++ of a uint16_t
NextPort(p) == (p + 1) % PortSpace

Opened(c, k) ==
  /\ mem' = [mem EXCEPT ![c] = k]
  /\ allocated' = allocated \cup {c}
  /\ due' = [due EXCEPT ![c] = HandedUpTo(k.ack)]
  /\ dataNext' = [dataNext EXCEPT ![c] = 1]
  /\ finSent' = [finSent EXCEPT ![c] = FALSE]
  /\ opens < MaxOpens /\ opens' = opens + 1
  /\ Quiet
  /\ UNCHANGED <<sockets, numSockets, intact, held, sends, segments, torn, raced>>

(* Connect up to the table; the socket is CLOSED and its numbers are
   uninitialised. *)
Connect ==
  /\ MainRuns("idle")
  /\ \E c \in Chunks \ allocated, r \in Remotes, q, a \in Garbage :
       /\ Opened(c, Fresh("CLOSED", freePort, r, q, a))
       /\ main' = [Idle EXCEPT !.pc = "loadCount", !.op = "Connect", !.sock = c]
  /\ freePort' = NextPort(freePort)

(* Listen up to the table; the remote end is uninitialised too. *)
Listen ==
  /\ MainRuns("idle")
  /\ \E c \in Chunks \ allocated, p \in Ports, q, a \in Garbage :
       \E r \in {mem[c].remote, Nobody} :
         /\ Opened(c, Fresh("LISTENING", p, r, q, a))
         /\ main' = [Idle EXCEPT !.pc = "loadCount", !.op = "Listen", !.sock = c]
  /\ UNCHANGED freePort

(* sockets[numSockets++] = socket: a load, a store of the count, a store of
   the entry. *)
LoadCount ==
  /\ MainRuns("loadCount") /\ Quiet
  /\ main' = [main EXCEPT !.pc = "count", !.n = numSockets]
  /\ UNCHANGED <<tables, history, freePort, held, opens, sends, segments, torn, raced>>

StoreCount ==
  /\ MainRuns("count") /\ Quiet
  /\ numSockets' = main.n + 1
  /\ main' = [main EXCEPT !.pc = "put"]
  /\ UNCHANGED <<mem, allocated, sockets, history, freePort, held, opens,
                 sends, segments, torn, raced>>

PutSocket ==
  /\ MainRuns("put") /\ Quiet
  /\ sockets' = [sockets EXCEPT ![main.n] = main.sock]
  /\ IF main.op = "Connect"
     THEN main' = [main EXCEPT !.pc = "syn"] /\ UNCHANGED held
     ELSE main' = Idle /\ held' = held \cup ({main.sock} \cap allocated)
  /\ UNCHANGED <<mem, allocated, numSockets, history, freePort, opens, sends,
                 segments, torn, raced>>

(* The new socket enters SYN_SENT, *)
EnterSynSent ==
  /\ MainRuns("syn") /\ Quiet
  /\ mem' = [mem EXCEPT ![main.sock].state = "SYN_SENT"]
  /\ main' = [main EXCEPT !.pc = "number"]
  /\ UNCHANGED <<allocated, sockets, numSockets, history, freePort, held,
                 opens, sends, segments, torn, raced>>

(* and gets its first number: a segment handled in between finds a socket that
   waits for an answer and has no number of its own yet. *)
FirstNumber ==
  /\ MainRuns("number") /\ Quiet
  /\ mem' = [mem EXCEPT ![main.sock].seq = 0]
  /\ main' = [main EXCEPT !.pc = "build", !.flags = {"SYN"}]
  /\ UNCHANGED <<allocated, sockets, numSockets, history, freePort, held,
                 opens, sends, segments, torn, raced>>

(* The application calls Send, which polls the state. *)
Send(c) ==
  /\ MainRuns("idle") /\ Quiet /\ c \in held
  /\ sends < MaxSends /\ sends' = sends + 1
  /\ main' = [Idle EXCEPT !.pc = "spin", !.op = "Send", !.sock = c,
                          !.flags = {"PSH", "ACK"}, !.size = 1]
  /\ UNCHANGED <<tables, history, freePort, held, opens, segments, torn, raced>>

\* mutant: data is sent as soon as the application asks
SpinForgotten(c) == TRUE
\* the condition that ends the loop of Socket::Send
MaySend(c) == mem[c].state = "ESTABLISHED"

SpinEnds ==
  /\ MainRuns("spin") /\ Quiet /\ MaySend(main.sock)
  /\ main' = [main EXCEPT !.pc = "build"]
  /\ UNCHANGED <<tables, history, freePort, held, opens, sends, segments, torn, raced>>

(* The application calls Disconnect and forgets the socket. *)
Disconnect(c) ==
  /\ MainRuns("idle") /\ Quiet /\ c \in held
  /\ held' = held \ {c}
  /\ mem' = [mem EXCEPT ![c].state = "FIN_WAIT1"]
  /\ main' = [Idle EXCEPT !.pc = "build", !.op = "Disconnect", !.sock = c,
                          !.flags = {"FIN", "ACK"}]
  /\ UNCHANGED <<allocated, sockets, numSockets, history, freePort, opens,
                 sends, segments, torn, raced>>

(* Provider::Send, from the main loop: the header is filled in, *)
Build ==
  LET c == main.sock  seq == mem[main.sock].seq IN
  /\ MainRuns("build") /\ Quiet
  /\ main' = [main EXCEPT !.pc = "load",
                !.built = <<SegmentOf(mem[c], main.flags, main.size, seq)>>]
  /\ intact' = (intact /\ InOrder(c, seq, main.flags, main.size, dataNext, finSent))
  /\ dataNext' = [dataNext EXCEPT ![c] = IF main.size > 0 THEN seq + main.size ELSE @]
  /\ finSent' = [finSent EXCEPT ![c] = @ \/ "FIN" \in main.flags]
  /\ UNCHANGED <<tables, due, freePort, held, opens, sends, segments, torn, raced>>

(* sequenceNumber += size, a load and a store, and Disconnect's
   sequenceNumber++ after the segment has left, *)
LoadNumber ==
  /\ \E pc \in {"load", "finLoad"} : MainRuns(pc)
  /\ Quiet
  /\ main' = [main EXCEPT !.seq = mem[main.sock].seq,
                          !.pc = IF @ = "load" THEN "store" ELSE "finStore"]
  /\ UNCHANGED <<tables, history, freePort, held, opens, sends, segments, torn, raced>>

StoreNumber ==
  /\ \E pc \in {"store", "finStore"} : MainRuns(pc)
  /\ Quiet
  /\ mem' = [mem EXCEPT ![main.sock].seq =
               main.seq + (IF main.pc = "store" THEN main.size ELSE 1)]
  /\ main' = IF main.pc = "store" THEN [main EXCEPT !.pc = "emit"] ELSE Idle
  /\ UNCHANGED <<allocated, sockets, numSockets, history, freePort, held,
                 opens, sends, segments, torn, raced>>

(* and the segment goes to whatever remote end the socket has by now.  Connect
   returns; a socket freed under way is not used by the application. *)
Emit ==
  /\ MainRuns("emit")
  /\ out' = <<[main.built[1] EXCEPT !.to = mem[main.sock].remote]>> /\ hung' = hung
  /\ main' = IF main.op = "Disconnect" THEN [main EXCEPT !.pc = "finLoad"] ELSE Idle
  /\ held' = IF main.op = "Connect" THEN held \cup ({main.sock} \cap allocated) ELSE held
  /\ UNCHANGED <<tables, history, freePort, opens, sends, segments, torn, raced>>

(* The application binds its handler. *)
Bind(c) ==
  /\ MainRuns("idle") /\ Quiet /\ c \in held /\ ~ mem[c].handler
  /\ mem' = [mem EXCEPT ![c].handler = TRUE]
  /\ UNCHANGED <<allocated, sockets, numSockets, history, freePort, main, held,
                 opens, sends, segments, torn, raced>>

Next ==
  \/ \E g \in Segments : SegmentArrives(g)
  \/ Connect \/ Listen \/ LoadCount \/ StoreCount \/ PutSocket
  \/ EnterSynSent \/ FirstNumber
  \/ \E c \in Chunks : Send(c) \/ Disconnect(c) \/ Bind(c)
  \/ SpinEnds \/ Build \/ LoadNumber \/ StoreNumber \/ Emit

Spec == Init /\ [][Next]_vars

-----------------------------------------------------------------------------

(* As long as no removal has come between the load of numSockets and the store
   of the entry in Connect or Listen, the table below numSockets holds every
   allocated socket exactly once, none of them CLOSED, except the one that
   the main loop is still setting up and while the handler has not returned. *)
TableSound ==
  ~ torn =>
    LET entries == IF main.pc = "put" THEN main.n ELSE numSockets
        entering == IF main.pc \in {"loadCount", "count", "put"}
                    THEN {main.sock} ELSE {}
        listed == {sockets[i] : i \in 0 .. entries - 1}
    IN  /\ listed = allocated \ entering
        /\ Cardinality(listed) = entries
        /\ \A c \in listed : mem[c].state = "CLOSED" =>
                               hung \/ (main.pc = "syn" /\ main.sock = c)

(* Everything up to the acknowledgement number of a socket, and nothing more,
   was handed to its application, counting a number for the SYN and one for the
   FIN that follows the data.  Once a payload was empty or ended in zero bytes,
   less may be acknowledged than was handed over, never more; while the handler
   waits in the answer to a request the acknowledgement of that request is
   outstanding.  A FIN is counted whatever its number: of a connection that got
   one out of order, or one with data, nothing is said. *)
AcknowledgedIsHanded ==
  \A c \in allocated : ~ due[c].skipped =>
    /\ mem[c].ack <= due[c].next
    /\ ~ hung /\ ~ due[c].short => mem[c].ack = due[c].next

(* As long as no segment has changed the socket the main loop is sending on
   before its bytes were counted (lines 213 to 229 of Send), or the socket
   Connect is numbering (between lines 202 and 203), the data of every socket is
   numbered without gap or overlap and no data follows a FIN, whether the main
   loop or the interrupt handler sends it. *)
StreamIntact == ~ raced => intact

(* Listen is for connections to come in: a SYN that finds no connection of its
   own at a port with a listening socket is answered with SYN and ACK. *)
ListenAnswersSyn ==
  [][\A g \in Segments :
       /\ g.flags = {"SYN"} /\ SegmentArrives(g)
       /\ \E i \in 0 .. numSockets - 1 :
            sockets[i] # Null /\ mem[sockets[i]].state = "LISTENING"
                              /\ mem[sockets[i]].port = g.port
       => \E i \in DOMAIN out' : out'[i].flags = {"SYN", "ACK"}]_vars
=============================================================================
