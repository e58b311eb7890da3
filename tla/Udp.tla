-------------------------------- MODULE Udp ---------------------------------
(***************************************************************************)
(* The UserDatagramProtocolProvider: the main loop opens sockets (Connect, *)
(* Listen), binds handlers, sends and closes (Disconnect), and             *)
(* OnInternetProtocolReceived, in the network card's interrupt, looks a    *)
(* socket up for each datagram and binds a listening one to its sender.    *)
(* The interrupt may come between any two memory accesses of the main loop *)
(* and runs to completion; it never changes the table itself.              *)
(*                                                                         *)
(* A socket is a chunk of memory whose record survives the free; a remote  *)
(* end stands for an address with a port, a datagram for its remote end    *)
(* and its local port.                                                     *)
(***************************************************************************)
EXTENDS Integers, Sequences, FiniteSets

CONSTANTS
  Chunks,        \* memory for sockets
  Remotes,       \* remote ends
  Nobody,        \* what an uninitialised remote end holds
  PortSpace,     \* freePort wraps here (65536 in the code)
  MaxOpens,      \* bound: calls of Connect and Listen
  MaxDatagrams   \* bound: datagrams that arrive

ASSUME UdpAssumption ==
  /\ PortSpace \in Nat \ {0} /\ {MaxOpens, MaxDatagrams} \subseteq Nat
  /\ Nobody \notin Remotes

VARIABLES
  mem,         \* the socket record in each chunk
  open,        \* the chunks given out by malloc
  sockets,     \* the table
  numSockets,
  freePort,
  main,        \* the main loop: [pc, sock, at, port]
  out,         \* what the last step sent
  heard,       \* what the last step handed to an application
  opens, datagrams,   \* counters for the bounds
  taker,       \* history: per remote end and port, the open socket that took its last datagram
  reordered    \* history: Disconnect has moved a socket

vars == <<mem, open, sockets, numSockets, freePort, main, out, heard, opens,
          datagrams, taker, reordered>>

Null == "null"
\* memory is finite, and malloc gives out no null pointer
ASSUME ChunksAssumption == IsFiniteSet(Chunks) /\ Null \notin Chunks
Ports == 0 .. PortSpace - 1
Index == 0 .. Cardinality(Chunks)
Idle == [pc |-> "idle", sock |-> Null, at |-> 0, to |-> Nobody]
Blank == [listening |-> FALSE, port |-> 0, remote |-> Nobody, handler |-> FALSE]

Init ==
  /\ mem = [c \in Chunks |-> Blank] /\ open = {}
  /\ sockets = [i \in Index |-> Null] /\ numSockets = 0 /\ freePort = 0
  /\ main = Idle /\ out = << >> /\ heard = << >> /\ opens = 0 /\ datagrams = 0
  /\ taker = [r \in Remotes |-> [p \in Ports |-> Null]]
  /\ reordered = FALSE

-----------------------------------------------------------------------------

Listens(c, port) == c # Null /\ mem[c].port = port /\ mem[c].listening
Connected(c, remote, port) == c # Null /\ mem[c].port = port /\ mem[c].remote = remote

\* mutant: the last socket that fits is taken
LookupYoungest(remote, port) ==
  LET hits == {i \in 0 .. numSockets - 1 :
                 Listens(sockets[i], port) \/ Connected(sockets[i], remote, port)}
  IN  IF hits = {} THEN Null
      ELSE sockets[CHOOSE i \in hits : \A j \in hits : j <= i]

(* The first socket that listens at the port or is connected to the sender *)
Lookup(remote, port) ==
  LET hits == {i \in 0 .. numSockets - 1 :
                 Listens(sockets[i], port) \/ Connected(sockets[i], remote, port)}
  IN  IF hits = {} THEN Null
      ELSE sockets[CHOOSE i \in hits : \A j \in hits : i <= j]

(* OnInternetProtocolReceived: a listening socket is the sender's from now on;
   without a handler the datagram is lost all the same. *)
DatagramArrives(remote, port) ==
  LET c == Lookup(remote, port) IN
  /\ datagrams < MaxDatagrams /\ datagrams' = datagrams + 1
  /\ \/ /\ c = Null /\ heard' = << >> /\ UNCHANGED <<mem, taker>>
     \/ /\ c # Null
        /\ mem' = [mem EXCEPT ![c].listening = FALSE, ![c].remote = remote]
        /\ heard' = IF mem[c].handler THEN <<c>> ELSE << >>
        /\ taker' = [taker EXCEPT ![remote][port] = IF c \in open THEN c ELSE Null]
  /\ out' = << >>
  /\ UNCHANGED <<open, sockets, numSockets, freePort, main, opens, reordered>>

-----------------------------------------------------------------------------

MainRuns(pc) == main.pc = pc /\ heard' = << >>

\* freePort++ of a uint16_t
NextPort(p) == (p + 1) % PortSpace

Opened(c, k) ==
  /\ opens < MaxOpens /\ opens' = opens + 1
  /\ mem' = [mem EXCEPT ![c] = k] /\ open' = open \cup {c}
  /\ main' = [Idle EXCEPT !.pc = "count", !.sock = c]
  /\ out' = << >>
  /\ UNCHANGED <<sockets, numSockets, datagrams, taker, reordered>>

(* Connect up to the table *)
Connect ==
  /\ MainRuns("idle")
  /\ \E c \in Chunks \ open, r \in Remotes :
       Opened(c, [Blank EXCEPT !.port = freePort, !.remote = r])
  /\ freePort' = NextPort(freePort)

(* Listen up to the table; the remote end is what the memory held. *)
Listen ==
  /\ MainRuns("idle")
  /\ \E c \in Chunks \ open, p \in Ports : \E r \in {mem[c].remote, Nobody} :
       Opened(c, [Blank EXCEPT !.listening = TRUE, !.port = p, !.remote = r])
  /\ UNCHANGED freePort

(* sockets[numSockets++] = socket: the count is stored first, *)
StoreCount ==
  /\ MainRuns("count")
  /\ numSockets' = numSockets + 1
  /\ main' = [main EXCEPT !.pc = "put"] /\ out' = << >>
  /\ UNCHANGED <<mem, open, sockets, freePort, opens, datagrams, taker, reordered>>

(* then the entry. *)
PutSocket ==
  /\ MainRuns("put")
  /\ sockets' = [sockets EXCEPT ![numSockets - 1] = main.sock]
  /\ main' = Idle /\ out' = << >>
  /\ UNCHANGED <<mem, open, numSockets, freePort, opens, datagrams, taker, reordered>>

(* Bind *)
Bind(c) ==
  /\ MainRuns("idle") /\ c \in open /\ ~ mem[c].handler
  /\ mem' = [mem EXCEPT ![c].handler = TRUE] /\ out' = << >>
  /\ UNCHANGED <<open, sockets, numSockets, freePort, main, opens, datagrams,
                 taker, reordered>>

(* Send reads the remote port for the header, *)
Build(c) ==
  /\ MainRuns("idle") /\ c \in open
  /\ main' = [Idle EXCEPT !.pc = "emit", !.sock = c, !.to = mem[c].remote]
  /\ out' = << >>
  /\ UNCHANGED <<mem, open, sockets, numSockets, freePort, opens, datagrams,
                 taker, reordered>>

(* and the remote address when the datagram leaves. *)
Emit ==
  /\ MainRuns("emit")
  /\ out' = <<[port |-> main.to, address |-> mem[main.sock].remote]>>
  /\ main' = Idle
  /\ UNCHANGED <<mem, open, sockets, numSockets, freePort, opens, datagrams,
                 taker, reordered>>

(* Disconnect finds the socket and takes one off the count: until the next
   step the last socket is out of sight, *)
Shrink(c) ==
  /\ MainRuns("idle") /\ c \in open
  /\ numSockets' = numSockets - 1
  /\ \E i \in 0 .. numSockets - 1 :
       /\ sockets[i] = c /\ \A j \in 0 .. i - 1 : sockets[j] # c
       /\ main' = [Idle EXCEPT !.pc = "move", !.sock = c, !.at = i]
       /\ reordered' = (reordered \/ i < numSockets - 1)
  /\ out' = << >>
  /\ UNCHANGED <<mem, open, sockets, freePort, opens, datagrams, taker>>

\* mutant: the socket is freed and its place in the table kept
MoveForgotten ==
  /\ MainRuns("move")
  /\ open' = open \ {main.sock}
  /\ taker' = [r \in Remotes |-> [p \in Ports |->
                 IF taker[r][p] = main.sock THEN Null ELSE taker[r][p]]]
  /\ main' = Idle /\ out' = << >>
  /\ UNCHANGED <<mem, sockets, numSockets, freePort, opens, datagrams, reordered>>

(* the last socket takes the place of the closed one, which is freed. *)
MoveLast ==
  /\ MainRuns("move")
  /\ sockets' = [sockets EXCEPT ![main.at] = sockets[numSockets]]
  /\ open' = open \ {main.sock}
  /\ taker' = [r \in Remotes |-> [p \in Ports |->
                 IF taker[r][p] = main.sock THEN Null ELSE taker[r][p]]]
  /\ main' = Idle /\ out' = << >>
  /\ UNCHANGED <<mem, numSockets, freePort, opens, datagrams, reordered>>

Next ==
  \/ \E r \in Remotes, p \in Ports : DatagramArrives(r, p)
  \/ Connect \/ Listen \/ StoreCount \/ PutSocket
  \/ \E c \in Chunks : Bind(c) \/ Build(c) \/ Shrink(c)
  \/ Emit \/ MoveLast

Spec == Init /\ [][Next]_vars

-----------------------------------------------------------------------------

(* Between the calls of the main loop the table holds every open socket once. *)
UdpTableSound ==
  main.pc \in {"idle", "emit"} =>
    /\ {sockets[i] : i \in 0 .. numSockets - 1} = open
    /\ numSockets = Cardinality(open)

(* A datagram is handed to an open socket only, except between the two stores
   of Connect or Listen, when the handler may still see the socket that was
   last in the table. *)
HeardByOpenSockets ==
  [][heard' # << >> /\ main.pc # "put" => heard'[1] \in open]_vars

(* A socket that has taken a datagram from a remote end goes on taking what
   that end sends to its port as long as it is open, unless Disconnect has
   moved another socket in front of it. *)
ConversationKept ==
  [][\A r \in Remotes, p \in Ports :
       taker[r][p] # Null /\ taker'[r][p] # taker[r][p]
         => taker[r][p] \notin open' \/ reordered]_vars
=============================================================================
