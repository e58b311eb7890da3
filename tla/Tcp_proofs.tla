----------------------------- MODULE Tcp_proofs -----------------------------
(***************************************************************************)
(* The TCP provider, for any memory, any remote ends, ports, flags and     *)
(* payloads and any number of calls and segments: the table of sockets,    *)
(* what is acknowledged, and how the bytes that are sent are numbered.     *)
(***************************************************************************)
EXTENDS Tcp, NumberFacts, FiniteSetTheorems, TLAPS

Socket == [state : States, port : Ports, remote : Remotes \cup {Nobody},
           seq : Int, ack : Int, handler : BOOLEAN]
Due == [next : Int, short : BOOLEAN, skipped : BOOLEAN]

(* What the interrupt handler works on, and a step of it that concerns the
   socket c: nothing else in memory and nothing of the table changes. *)
Worlds(outs) ==
  [mem : [Chunks -> Socket], allocated : SUBSET Chunks,
   sockets : [Index -> Chunks \cup {Null}], num : Nat, out : outs,
   hung : BOOLEAN, due : [Chunks -> Due], dataNext : [Chunks -> Int],
   finSent : [Chunks -> BOOLEAN], intact : BOOLEAN]
IsWorld(w) == w \in Worlds({w.out})

TableKept(w, v) ==
  v.allocated = w.allocated /\ v.sockets = w.sockets /\ v.num = w.num
Elsewhere(w, v, c) ==
  \A x \in Chunks \ {c} :
    /\ v.mem[x] = w.mem[x] /\ v.due[x] = w.due[x]
    /\ v.dataNext[x] = w.dataNext[x] /\ v.finSent[x] = w.finSent[x]
Concerns(w, v, c) == IsWorld(v) /\ TableKept(w, v) /\ Elsewhere(w, v, c)

(* A segment without data and without FIN leaves everything as it is. *)
Silent(w, v) ==
  /\ IsWorld(v) /\ TableKept(w, v)
  /\ v.mem = w.mem /\ v.due = w.due /\ v.dataNext = w.dataNext
  /\ v.finSent = w.finSent /\ v.intact = w.intact /\ v.hung = w.hung

-----------------------------------------------------------------------------
(* What the steps of the handler do. *)

LEMMA WorldFields ==
  ASSUME NEW w, IsWorld(w)
  PROVE  /\ w.mem \in [Chunks -> Socket] /\ w.allocated \in SUBSET Chunks
         /\ w.sockets \in [Index -> Chunks \cup {Null}] /\ w.num \in Nat
         /\ w.hung \in BOOLEAN /\ w.due \in [Chunks -> Due]
         /\ w.dataNext \in [Chunks -> Int] /\ w.finSent \in [Chunks -> BOOLEAN]
         /\ w.intact \in BOOLEAN
         /\ DOMAIN w = {"mem", "allocated", "sockets", "num", "out", "hung", "due",
                        "dataNext", "finSent", "intact"}
  BY DEF IsWorld, Worlds

LEMMA WorldOfFields ==
  ASSUME NEW w, NEW v, IsWorld(w),
         v = [w EXCEPT !.out = v.out, !.mem = v.mem, !.intact = v.intact,
                       !.dataNext = v.dataNext, !.finSent = v.finSent],
         v.mem \in [Chunks -> Socket], v.dataNext \in [Chunks -> Int],
         v.finSent \in [Chunks -> BOOLEAN], v.intact \in BOOLEAN
  PROVE  IsWorld(v) /\ TableKept(w, v)
  BY DEF IsWorld, Worlds, TableKept

(* What a step that changes the record of c, and what is due there, leaves. *)
Sets(w, v, c, state, seq, ack, due_c) ==
  /\ Concerns(w, v, c)
  /\ v.mem[c].state = state /\ v.mem[c].seq = seq /\ v.mem[c].ack = ack
  /\ v.due[c] = due_c
  /\ v.dataNext = w.dataNext /\ v.finSent = w.finSent
  /\ v.intact = w.intact /\ v.hung = w.hung

LEMMA SocketFields ==
  ASSUME NEW w, IsWorld(w), NEW c \in Chunks
  PROVE  /\ w.mem[c] \in Socket /\ w.mem[c].state \in States
         /\ w.mem[c].seq \in Int /\ w.mem[c].ack \in Int
         /\ w.due[c] \in Due /\ w.dataNext[c] \in Int /\ w.finSent[c] \in BOOLEAN
<1> DEFINE k == w.mem[c]
<1>1. k \in Socket
  BY WorldFields
<1>2. w.due[c] \in Due /\ w.dataNext[c] \in Int /\ w.finSent[c] \in BOOLEAN
  BY WorldFields
<1> HIDE DEF k, States
<1>3. k.state \in States /\ k.seq \in Int /\ k.ack \in Int
  BY <1>1 DEF Socket
<1> QED  BY <1>1, <1>2, <1>3 DEF k

LEMMA SendFields ==
  ASSUME NEW w, IsWorld(w), NEW c \in Chunks, NEW flags, NEW size \in Nat
  PROVE  LET v == SendSegment(w, c, flags, size)
         IN  /\ Concerns(w, v, c) /\ v.due = w.due /\ v.hung = w.hung
             /\ v.mem[c].state = w.mem[c].state /\ v.mem[c].ack = w.mem[c].ack
             /\ v.mem[c].seq = w.mem[c].seq + size
             /\ v.dataNext[c] = IF size > 0 THEN w.mem[c].seq + size ELSE w.dataNext[c]
             /\ v.finSent[c] <=> w.finSent[c] \/ "FIN" \in flags
             /\ v.intact <=>
                  w.intact /\ InOrder(c, w.mem[c].seq, flags, size, w.dataNext, w.finSent)
             /\ size = 0 /\ "FIN" \notin flags => Silent(w, v)
<1> DEFINE v == SendSegment(w, c, flags, size)
           seq == w.mem[c].seq
<1>1. v.mem = [w.mem EXCEPT ![c].seq = @ + size]
  BY DEF SendSegment, IsWorld, Worlds
<1>2. v.dataNext = [w.dataNext EXCEPT ![c] = IF size > 0 THEN seq + size ELSE @]
  BY DEF SendSegment, IsWorld, Worlds
<1>3. v.finSent = [w.finSent EXCEPT ![c] = @ \/ "FIN" \in flags]
  BY DEF SendSegment, IsWorld, Worlds
<1>4. v.intact = (w.intact /\ InOrder(c, seq, flags, size, w.dataNext, w.finSent))
  BY DEF SendSegment, IsWorld, Worlds
<1>5. v.due = w.due /\ v.hung = w.hung
  BY DEF SendSegment, IsWorld, Worlds
<1>6. v = [w EXCEPT !.out = v.out, !.mem = v.mem, !.intact = v.intact,
                    !.dataNext = v.dataNext, !.finSent = v.finSent]
  BY Zenon DEF SendSegment, IsWorld, Worlds
<1>7. /\ w.mem \in [Chunks -> Socket] /\ w.hung \in BOOLEAN /\ w.due \in [Chunks -> Due]
      /\ w.dataNext \in [Chunks -> Int] /\ w.finSent \in [Chunks -> BOOLEAN]
      /\ w.intact \in BOOLEAN
  BY WorldFields
<1> HIDE DEF v
<1>8. v.mem \in [Chunks -> Socket]
  BY <1>1, <1>7 DEF Socket
<1>9. v.dataNext \in [Chunks -> Int]
  BY <1>2, <1>7, <1>8 DEF Socket
<1>10. v.finSent \in [Chunks -> BOOLEAN]
  BY <1>3, <1>7
<1>11. v.intact \in BOOLEAN
  BY <1>4
<1>12. IsWorld(v) /\ TableKept(w, v)
  BY <1>6, <1>8, <1>9, <1>10, <1>11, WorldOfFields
<1>13. ASSUME NEW x \in Chunks \ {c}
       PROVE  /\ v.mem[x] = w.mem[x] /\ v.due[x] = w.due[x]
              /\ v.dataNext[x] = w.dataNext[x] /\ v.finSent[x] = w.finSent[x]
  <2>1. v.mem[x] = w.mem[x]
    BY <1>1, <1>7
  <2>2. v.dataNext[x] = w.dataNext[x]
    BY <1>2, <1>7
  <2>3. v.finSent[x] = w.finSent[x]
    BY <1>3, <1>7
  <2> QED  BY <1>5, <2>1, <2>2, <2>3
<1>14. Concerns(w, v, c)
  BY <1>12, <1>13 DEF Concerns, Elsewhere
<1>15. /\ v.mem[c].state = w.mem[c].state /\ v.mem[c].ack = w.mem[c].ack
       /\ v.mem[c].seq = w.mem[c].seq + size
  BY <1>1, <1>7 DEF Socket
<1>16. v.dataNext[c] = IF size > 0 THEN w.mem[c].seq + size ELSE w.dataNext[c]
  BY <1>2, <1>7
<1>17. v.finSent[c] <=> w.finSent[c] \/ "FIN" \in flags
  BY <1>3, <1>7
<1>18. v.intact <=>
         w.intact /\ InOrder(c, w.mem[c].seq, flags, size, w.dataNext, w.finSent)
  BY <1>4
<1>19. ASSUME size = 0, "FIN" \notin flags PROVE Silent(w, v)
  <2>1. v.mem = w.mem
    BY <1>1, <1>7, <1>19 DEF Socket
  <2>2. v.dataNext = w.dataNext
    BY <1>2, <1>7, <1>19
  <2>3. v.finSent = w.finSent
    BY <1>3, <1>7, <1>19
  <2>4. v.intact = w.intact
    BY <1>4, <1>7, <1>19 DEF InOrder
  <2> QED  BY <1>5, <1>12, <2>1, <2>2, <2>3, <2>4 DEF Silent
<1> QED  BY <1>5, <1>14, <1>15, <1>16, <1>17, <1>18, <1>19 DEF v

LEMMA SetsMem ==
  ASSUME NEW w, IsWorld(w), NEW c \in Chunks, NEW k \in Socket, NEW v,
         v = [w EXCEPT !.mem = [w.mem EXCEPT ![c] = k]]
  PROVE  Sets(w, v, c, k.state, k.seq, k.ack, w.due[c])
<1>1. v.mem = [w.mem EXCEPT ![c] = k]
  BY DEF IsWorld, Worlds
<1>2. v.mem \in [Chunks -> Socket]
  BY <1>1 DEF IsWorld, Worlds
<1>3. /\ v.allocated = w.allocated /\ v.sockets = w.sockets /\ v.num = w.num
      /\ v.due = w.due /\ v.dataNext = w.dataNext /\ v.finSent = w.finSent
      /\ v.intact = w.intact /\ v.hung = w.hung
  BY DEF IsWorld, Worlds
<1>4. IsWorld(v)
  BY <1>2 DEF IsWorld, Worlds
<1>5. v.mem[c] = k /\ \A x \in Chunks \ {c} : v.mem[x] = w.mem[x]
  BY <1>1 DEF IsWorld, Worlds
<1> HIDE DEF IsWorld
<1> QED  BY <1>3, <1>4, <1>5 DEF Sets, Concerns, TableKept, Elsewhere

LEMMA SetsBoth ==
  ASSUME NEW w, IsWorld(w), NEW c \in Chunks, NEW k \in Socket, NEW d \in Due, NEW v,
         v = [w EXCEPT !.mem = [w.mem EXCEPT ![c] = k],
                       !.due = [w.due EXCEPT ![c] = d]]
  PROVE  Sets(w, v, c, k.state, k.seq, k.ack, d)
<1>1. v.mem = [w.mem EXCEPT ![c] = k] /\ v.due = [w.due EXCEPT ![c] = d]
  BY DEF IsWorld, Worlds
<1>2. v.mem \in [Chunks -> Socket] /\ v.due \in [Chunks -> Due]
  BY <1>1 DEF IsWorld, Worlds
<1>3. /\ v.allocated = w.allocated /\ v.sockets = w.sockets /\ v.num = w.num
      /\ v.dataNext = w.dataNext /\ v.finSent = w.finSent
      /\ v.intact = w.intact /\ v.hung = w.hung
  BY DEF IsWorld, Worlds
<1>4. IsWorld(v)
  BY <1>2 DEF IsWorld, Worlds
<1>5. /\ v.mem[c] = k /\ v.due[c] = d
      /\ \A x \in Chunks \ {c} : v.mem[x] = w.mem[x] /\ v.due[x] = w.due[x]
  BY <1>1 DEF IsWorld, Worlds
<1> HIDE DEF IsWorld
<1> QED  BY <1>3, <1>4, <1>5 DEF Sets, Concerns, TableKept, Elsewhere

LEMMA EnterSets ==
  ASSUME NEW w, IsWorld(w), NEW c \in Chunks, NEW s \in States
  PROVE  Sets(w, Enter(w, c, s), c, s, w.mem[c].seq, w.mem[c].ack, w.due[c])
<1> DEFINE k == [w.mem[c] EXCEPT !.state = s]
<1>1. k \in Socket /\ k.state = s /\ k.seq = w.mem[c].seq /\ k.ack = w.mem[c].ack
  BY SocketFields DEF Socket
<1>2. Enter(w, c, s) = [w EXCEPT !.mem = [w.mem EXCEPT ![c] = k]]
  BY Zenon DEF Enter
<1> HIDE DEF k
<1>3. Sets(w, Enter(w, c, s), c, k.state, k.seq, k.ack, w.due[c])
  BY <1>1, <1>2, SetsMem
<1> QED  BY <1>1, <1>3

LEMMA CountUpSets ==
  ASSUME NEW w, IsWorld(w), NEW c \in Chunks
  PROVE  Sets(w, CountUp(w, c), c, w.mem[c].state, w.mem[c].seq + 1, w.mem[c].ack,
              w.due[c])
<1> DEFINE k == [w.mem[c] EXCEPT !.seq = @ + 1]
<1>1. /\ k \in Socket /\ k.state = w.mem[c].state
      /\ k.seq = w.mem[c].seq + 1 /\ k.ack = w.mem[c].ack
  BY SocketFields DEF Socket
<1>2. CountUp(w, c) = [w EXCEPT !.mem = [w.mem EXCEPT ![c] = k]]
  BY Zenon DEF CountUp
<1> HIDE DEF k
<1>3. Sets(w, CountUp(w, c), c, k.state, k.seq, k.ack, w.due[c])
  BY <1>1, <1>2, SetsMem
<1> QED  BY <1>1, <1>3

LEMMA ExpectSets ==
  ASSUME NEW w, IsWorld(w), NEW c \in Chunks, NEW n \in Int
  PROVE  Sets(w, Expect(w, c, n), c, w.mem[c].state, w.mem[c].seq, n, HandedUpTo(n))
<1> DEFINE k == [w.mem[c] EXCEPT !.ack = n]
<1>1. /\ k \in Socket /\ k.state = w.mem[c].state
      /\ k.seq = w.mem[c].seq /\ k.ack = n
  BY SocketFields DEF Socket
<1>2. Expect(w, c, n) = [w EXCEPT !.mem = [w.mem EXCEPT ![c] = k],
                                  !.due = [w.due EXCEPT ![c] = HandedUpTo(n)]]
  BY Zenon DEF Expect
<1>3. HandedUpTo(n) \in Due
  BY DEF HandedUpTo, Due
<1> HIDE DEF k
<1>4. Sets(w, Expect(w, c, n), c, k.state, k.seq, k.ack, HandedUpTo(n))
  BY <1>1, <1>2, <1>3, SetsBoth
<1> QED  BY <1>1, <1>4

LEMMA FinCountedSets ==
  ASSUME NEW w, IsWorld(w), NEW c \in Chunks, NEW g
  PROVE  Sets(w, FinCounted(w, c, g), c, w.mem[c].state, w.mem[c].seq,
              w.mem[c].ack + 1, FinSeen(g, w.due[c]))
<1> DEFINE k == [w.mem[c] EXCEPT !.ack = @ + 1]
           d == FinSeen(g, w.due[c])
<1>1. /\ k \in Socket /\ k.state = w.mem[c].state
      /\ k.seq = w.mem[c].seq /\ k.ack = w.mem[c].ack + 1
  BY SocketFields DEF Socket
<1>2. FinCounted(w, c, g) = [w EXCEPT !.mem = [w.mem EXCEPT ![c] = k],
                                      !.due = [w.due EXCEPT ![c] = d]]
  BY Zenon DEF FinCounted
<1>3. d \in Due
  <2>1. w.due[c] \in Due
    BY SocketFields
  <2>2. \A e \in Due : /\ [e EXCEPT !.next = @ + 1] \in Due
                        /\ [e EXCEPT !.skipped = TRUE] \in Due
    <3> SUFFICES ASSUME NEW e \in Due
                 PROVE  /\ [e EXCEPT !.next = @ + 1] \in Due
                        /\ [e EXCEPT !.skipped = TRUE] \in Due
      OBVIOUS
    <3>1. e.next + 1 \in Int
      BY DEF Due
    <3>2. [e EXCEPT !.next = e.next + 1] \in Due
      BY <3>1 DEF Due
    <3>3. [e EXCEPT !.skipped = TRUE] \in Due
      BY DEF Due
    <3> QED  BY <3>2, <3>3
  <2>3. d = [w.due[c] EXCEPT !.next = @ + 1] \/ d = [w.due[c] EXCEPT !.skipped = TRUE]
    BY Zenon DEF FinSeen
  <2> HIDE DEF d
  <2> QED  BY <2>1, <2>2, <2>3
<1> HIDE DEF k, d
<1>4. Sets(w, FinCounted(w, c, g), c, k.state, k.seq, k.ack, d)
  BY <1>1, <1>2, <1>3, SetsBoth
<1> QED  BY <1>1, <1>4 DEF d

LEMMA SetsTwice ==
  ASSUME NEW w, NEW v, NEW u, NEW c \in Chunks,
         NEW s, NEW q, NEW a, NEW d, Sets(w, v, c, s, q, a, d),
         NEW s2, NEW q2, NEW a2, NEW d2, Sets(v, u, c, s2, q2, a2, d2)
  PROVE  Sets(w, u, c, s2, q2, a2, d2)
<1> HIDE DEF IsWorld
<1> QED  BY DEF Sets, Concerns, TableKept, Elsewhere

LEMMA SilentSets ==
  ASSUME NEW w, NEW v, NEW c \in Chunks, Silent(w, v)
  PROVE  Sets(w, v, c, w.mem[c].state, w.mem[c].seq, w.mem[c].ack, w.due[c])
<1> HIDE DEF IsWorld
<1> QED  BY DEF Sets, Silent, Concerns, TableKept, Elsewhere

LEMMA AtFirst ==
  ASSUME NEW w, IsWorld(w), NEW c \in Chunks
  PROVE  Sets(w, w, c, w.mem[c].state, w.mem[c].seq, w.mem[c].ack, w.due[c])
<1> HIDE DEF IsWorld
<1> QED  BY DEF Sets, Concerns, TableKept, Elsewhere

(* One step of the handler after others *)
LEMMA ThenSilent ==
  ASSUME NEW w, NEW v, NEW u, NEW c \in Chunks, NEW s, NEW q, NEW a, NEW d,
         Sets(w, v, c, s, q, a, d), Silent(v, u)
  PROVE  Sets(w, u, c, s, q, a, d)
<1>1. Sets(v, u, c, v.mem[c].state, v.mem[c].seq, v.mem[c].ack, v.due[c])
  BY SilentSets
<1>2. Sets(w, u, c, v.mem[c].state, v.mem[c].seq, v.mem[c].ack, v.due[c])
  BY <1>1, SetsTwice
<1> QED  BY <1>2 DEF Sets

LEMMA ThenEnter ==
  ASSUME NEW w, NEW v, NEW c \in Chunks, NEW s, NEW q, NEW a, NEW d,
         Sets(w, v, c, s, q, a, d), NEW state \in States
  PROVE  Sets(w, Enter(v, c, state), c, state, q, a, d)
<1> DEFINE u == Enter(v, c, state)
<1>1. IsWorld(v)
  BY DEF Sets, Concerns
<1>2. Sets(v, u, c, state, v.mem[c].seq, v.mem[c].ack, v.due[c])
  BY <1>1, EnterSets
<1> HIDE DEF u
<1>3. Sets(w, u, c, state, v.mem[c].seq, v.mem[c].ack, v.due[c])
  BY <1>2, SetsTwice
<1>4. v.mem[c].seq = q /\ v.mem[c].ack = a /\ v.due[c] = d
  BY DEF Sets
<1> QED  BY <1>3, <1>4 DEF u

LEMMA ThenCountUp ==
  ASSUME NEW w, NEW v, NEW c \in Chunks, NEW s, NEW q, NEW a, NEW d,
         Sets(w, v, c, s, q, a, d)
  PROVE  Sets(w, CountUp(v, c), c, s, q + 1, a, d)
<1> DEFINE u == CountUp(v, c)
<1>1. IsWorld(v)
  BY DEF Sets, Concerns
<1>2. Sets(v, u, c, v.mem[c].state, v.mem[c].seq + 1, v.mem[c].ack, v.due[c])
  BY <1>1, CountUpSets
<1> HIDE DEF u
<1>3. Sets(w, u, c, v.mem[c].state, v.mem[c].seq + 1, v.mem[c].ack, v.due[c])
  BY <1>2, SetsTwice
<1>4. v.mem[c].state = s /\ v.mem[c].seq = q /\ v.mem[c].ack = a /\ v.due[c] = d
  BY DEF Sets
<1> QED  BY <1>3, <1>4 DEF u

LEMMA ThenFinCounted ==
  ASSUME NEW w, NEW v, NEW c \in Chunks, NEW s, NEW q, NEW a, NEW d, NEW g,
         Sets(w, v, c, s, q, a, d)
  PROVE  Sets(w, FinCounted(v, c, g), c, s, q, a + 1, FinSeen(g, d))
<1> DEFINE u == FinCounted(v, c, g)
           e == FinSeen(g, v.due[c])
<1>1. IsWorld(v)
  BY DEF Sets, Concerns
<1>2. Sets(v, u, c, v.mem[c].state, v.mem[c].seq, v.mem[c].ack + 1, e)
  BY <1>1, FinCountedSets
<1>3. v.mem[c].state = s /\ v.mem[c].seq = q /\ v.mem[c].ack = a /\ v.due[c] = d
  BY DEF Sets
<1>4. e = FinSeen(g, d)
  BY <1>3
<1> HIDE DEF u, e
<1>5. Sets(w, u, c, v.mem[c].state, v.mem[c].seq, v.mem[c].ack + 1, e)
  BY <1>2, SetsTwice
<1> QED  BY <1>3, <1>4, <1>5 DEF u

-----------------------------------------------------------------------------
(* What may be said of every segment that arrives. *)

Finishing == {"FIN_WAIT1", "FIN_WAIT2", "CLOSED"}

(* How the number of a socket stands to the data that it has sent. *)
StreamOf(state, seq, next, fin) ==
  /\ state \in {"LISTENING", "SYN_SENT", "SYN_RECEIVED"} => next = 1 /\ ~ fin
  /\ state = "SYN_SENT" => seq = 0
  /\ state = "SYN_RECEIVED" => seq = 1
  /\ state = "ESTABLISHED" => seq = next /\ ~ fin
  /\ seq >= next \/ next = 1
StreamAt(w, c) == StreamOf(w.mem[c].state, w.mem[c].seq, w.dataNext[c], w.finSent[c])

(* How the acknowledgement stands to what was handed over. *)
Exact(ack, d, wait) ==
  ~ d.skipped => /\ ack <= d.next
                 /\ ~ wait /\ ~ d.short => ack = d.next
ExactAt(w, c) == Exact(w.mem[c].ack, w.due[c], w.hung)

Streams(w, v, c) ==
  /\ Concerns(w, v, c)
  /\ w.intact /\ StreamAt(w, c) => v.intact /\ StreamAt(v, c)
  /\ w.mem[c].state \in Finishing =>
       v.mem[c].state \in Finishing /\ v.mem[c].seq = w.mem[c].seq
  /\ w.mem[c].state = "CLOSED" =>
       v.mem[c].state = "CLOSED" /\ v.dataNext = w.dataNext /\ v.finSent = w.finSent
  /\ w.mem[c].state \in {"ESTABLISHED", "SYN_SENT"}
       /\ v.mem[c].state = w.mem[c].state /\ v.mem[c].seq = w.mem[c].seq =>
       v.dataNext = w.dataNext /\ v.finSent = w.finSent /\ v.intact = w.intact
Proper(w, v, c) == Streams(w, v, c) /\ (ExactAt(w, c) => ExactAt(v, c))

LEMMA SetsProper ==
  ASSUME NEW w, NEW v, NEW c \in Chunks, NEW s, NEW q, NEW a, NEW d,
         Sets(w, v, c, s, q, a, d),
         ExactAt(w, c) => Exact(a, d, w.hung),
         StreamAt(w, c) => StreamOf(s, q, w.dataNext[c], w.finSent[c]),
         w.mem[c].state \in Finishing => s \in Finishing /\ q = w.mem[c].seq,
         w.mem[c].state = "CLOSED" => s = "CLOSED"
  PROVE  Proper(w, v, c)
<1> HIDE DEF Concerns, StreamOf, Exact
<1> QED  BY DEF Sets, Proper, Streams, StreamAt, ExactAt

LEMMA SilentProper ==
  ASSUME NEW w, IsWorld(w), NEW v, NEW c \in Chunks, Silent(w, v)
  PROVE  Proper(w, v, c)
<1>1. Sets(w, v, c, w.mem[c].state, w.mem[c].seq, w.mem[c].ack, w.due[c])
  BY SilentSets
<1> QED  BY <1>1, SetsProper DEF StreamAt, ExactAt

LEMMA ResetProper ==
  ASSUME NEW w, IsWorld(w), NEW c \in Chunks
  PROVE  Proper(w, Reset(w, c), c) /\ Silent(w, Reset(w, c))
<1>1. "FIN" \notin {"RST"}
  OBVIOUS
<1>2. Silent(w, Reset(w, c))
  BY <1>1, SendFields DEF Reset
<1> QED  BY <1>2, SilentProper

LEMMA SegmentFields ==
  ASSUME NEW g \in Segments
  PROVE  /\ g.from \in Remotes /\ g.port \in Ports /\ g.seq \in Int
         /\ g.data.len \in Nat /\ g.data.zeros \in Nat /\ g.data.zeros <= g.data.len
<1>1. g \in [from : Remotes, port : Ports, flags : FlagSets, seq : SeqNumbers,
             data : Payloads \cup {Empty}]
  BY Zenon DEF Segments
<1>2. /\ g.from \in Remotes /\ g.port \in Ports /\ g.seq \in SeqNumbers
      /\ g.data \in Payloads \cup {Empty}
  BY <1>1
<1>3. g.seq \in Int
  BY <1>2, NumbersAssumption
<1>4. CASE g.data = Empty
  BY <1>2, <1>3, <1>4 DEF Empty
<1>5. CASE g.data \in Payloads
  <2>1. g.data \in [len : Nat, zeros : Nat, get : BOOLEAN] /\ g.data.zeros <= g.data.len
    BY <1>5, PayloadsAssumption
  <2> QED  BY <1>2, <1>3, <2>1
<1> QED  BY <1>2, <1>4, <1>5

LEMMA FromNowOn ==
  ASSUME NEW n \in Int, NEW wait
  PROVE  Exact(n, HandedUpTo(n), wait)
BY DEF Exact, HandedUpTo

(* A FIN is seen, and a payload. *)
LEMMA FinExact ==
  ASSUME NEW g, NEW a \in Int, NEW d \in Due, NEW wait, Exact(a, d, wait)
  PROVE  Exact(a + 1, FinSeen(g, d), wait)
<1> DEFINE e == [d EXCEPT !.next = @ + 1]
           f == [d EXCEPT !.skipped = TRUE]
<1>1. /\ e.next = d.next + 1 /\ e.short = d.short /\ e.skipped = d.skipped
      /\ f.skipped = TRUE /\ d.next \in Int
  BY DEF Due
<1>2. Exact(a + 1, e, wait) /\ Exact(a + 1, f, wait)
  BY <1>1 DEF Exact
<1> QED  BY <1>2 DEF FinSeen

LEMMA SeenExact ==
  ASSUME NEW g \in Segments, NEW a \in Int, NEW d \in Due, g.seq = a
  PROVE  /\ Seen(g, d) \in Due
         /\ Exact(a, d, FALSE) => Exact(a, Seen(g, d), TRUE)
         /\ Exact(a, d, FALSE) => Exact(a + Advance(g.data), Seen(g, d), FALSE)
<1> DEFINE len == g.data.len
           zeros == g.data.zeros
           e == Seen(g, d)
<1>1. len \in Nat /\ zeros \in Nat /\ zeros <= len /\ HeaderLength \in Nat \ {0}
  BY SegmentFields, NumbersAssumption
<1>2. d.next \in Int /\ d.short \in BOOLEAN /\ d.skipped \in BOOLEAN
  BY DEF Due
<1>3. /\ e.next = IF d.next > a + len THEN d.next ELSE a + len
      /\ e.short = (d.short \/ len = 0 \/ zeros > 0) /\ e.skipped = d.skipped
      /\ e \in Due
  <2> DEFINE n == IF d.next > a + len THEN d.next ELSE a + len
             s == d.short \/ len = 0 \/ zeros > 0
  <2>1. n \in Int /\ s \in BOOLEAN
    BY <1>1, <1>2
  <2>2. e = [[d EXCEPT !.next = n] EXCEPT !.short = s]
    BY Zenon DEF Seen
  <2> HIDE DEF n, s, e
  <2>3. e.next = n /\ e.short = s /\ e.skipped = d.skipped /\ e \in Due
    BY <2>1, <2>2 DEF Due
  <2> QED  BY <2>3 DEF n, s
<1>4. /\ Advance(g.data) \in Int /\ Advance(g.data) <= len
      /\ len > 0 /\ ~ zeros > 0 => Advance(g.data) = len
  BY <1>1 DEF Advance
<1> HIDE DEF e, len, zeros
<1>5. a <= e.next /\ a + Advance(g.data) <= e.next
  BY <1>1, <1>2, <1>3, <1>4
<1>6. ASSUME Exact(a, d, FALSE), ~ e.skipped, ~ e.short
      PROVE  a + Advance(g.data) = e.next
  <2>1. a = d.next /\ ~ (len = 0) /\ ~ (zeros > 0)
    BY <1>2, <1>3, <1>6 DEF Exact
  <2>2. e.next = a + len
    BY <1>1, <1>3, <2>1
  <2> QED  BY <1>1, <1>4, <2>1, <2>2
<1> QED  BY <1>3, <1>5, <1>6 DEF e, Exact

LEMMA OnSynProper ==
  ASSUME NEW w, IsWorld(w), NEW c \in Chunks, NEW g \in Segments
  PROVE  Proper(w, OnSyn(w, c, g), c)
<1>1. CASE w.mem[c].state = "LISTENING"
  <2> DEFINE n == g.seq + 1
             e2 == Enter(Expect(w, c, n), c, "SYN_RECEIVED")
             e3 == [e2 EXCEPT !.mem[c].remote = g.from, !.mem[c].seq = 0]
             e4 == SendSegment(e3, c, {"SYN", "ACK"}, 0)
             e5 == CountUp(e4, c)
  <2>1. n \in Int /\ g.from \in Remotes
    BY SegmentFields
  <2> HIDE DEF n
  <2>2. Sets(w, Expect(w, c, n), c, w.mem[c].state, w.mem[c].seq, n, HandedUpTo(n))
    BY <2>1, ExpectSets
  <2>3. Sets(w, e2, c, "SYN_RECEIVED", w.mem[c].seq, n, HandedUpTo(n))
    BY <2>2, ThenEnter DEF States
  <2> HIDE DEF e2
  <2>4. IsWorld(e2)
    BY <2>3 DEF Sets, Concerns
  <2>5. Sets(w, e3, c, "SYN_RECEIVED", 0, n, HandedUpTo(n))
    <3> DEFINE k1 == [e2.mem[c] EXCEPT !.remote = g.from]
               k == [k1 EXCEPT !.seq = 0]
    <3>1. e2.mem[c] \in Socket
      BY <2>4, SocketFields
    <3>2. k1 \in Socket /\ k1.state = e2.mem[c].state /\ k1.ack = e2.mem[c].ack
      BY <2>1, <3>1 DEF Socket
    <3>3. e3 = [e2 EXCEPT !.mem = [e2.mem EXCEPT ![c] = k]]
      BY <2>4, <3>1 DEF IsWorld, Worlds
    <3> HIDE DEF k1
    <3>4. k \in Socket /\ k.state = e2.mem[c].state /\ k.ack = e2.mem[c].ack /\ k.seq = 0
      BY <3>2 DEF Socket
    <3> HIDE DEF k, e3
    <3>5. Sets(e2, e3, c, k.state, k.seq, k.ack, e2.due[c])
      BY <2>4, <3>3, <3>4, SetsMem
    <3>6. Sets(w, e3, c, k.state, k.seq, k.ack, e2.due[c])
      BY <2>3, <3>5, SetsTwice
    <3> QED  BY <2>3, <3>4, <3>6 DEF Sets
  <2> HIDE DEF e3
  <2>6. IsWorld(e3)
    BY <2>5 DEF Sets, Concerns
  <2>7. Silent(e3, e4)
    BY <2>6, SendFields
  <2>8. Sets(w, e4, c, "SYN_RECEIVED", 0, n, HandedUpTo(n))
    BY <2>5, <2>7, ThenSilent
  <2>9. Sets(w, e5, c, "SYN_RECEIVED", 0 + 1, n, HandedUpTo(n))
    BY <2>8, ThenCountUp
  <2>10. OnSyn(w, c, g) = e5
    BY <1>1 DEF OnSyn, e2, e3, n
  <2> HIDE DEF e5
  <2>11. StreamAt(w, c) => StreamOf("SYN_RECEIVED", 0 + 1, w.dataNext[c], w.finSent[c])
    BY <1>1 DEF StreamAt, StreamOf
  <2>12. Proper(w, e5, c)
    BY <1>1, <2>1, <2>9, <2>11, SetsProper, FromNowOn DEF Finishing
  <2> QED  BY <2>10, <2>12
<1>2. CASE w.mem[c].state # "LISTENING"
  <2>1. OnSyn(w, c, g) = Reset(w, c)
    BY <1>2 DEF OnSyn
  <2> QED  BY <2>1, ResetProper
<1> QED  BY <1>1, <1>2

LEMMA OnSynAckProper ==
  ASSUME NEW w, IsWorld(w), NEW c \in Chunks, NEW g \in Segments
  PROVE  Proper(w, OnSynAck(w, c, g), c)
<1>1. CASE w.mem[c].state = "SYN_SENT"
  <2> DEFINE n == g.seq + 1
             e1 == Expect(w, c, n)
             e2 == Enter(e1, c, "ESTABLISHED")
             e3 == CountUp(e2, c)
             e4 == SendSegment(e3, c, {"ACK"}, 0)
  <2>1. n \in Int
    BY SegmentFields
  <2> HIDE DEF n
  <2>2. Sets(w, e1, c, w.mem[c].state, w.mem[c].seq, n, HandedUpTo(n))
    BY <2>1, ExpectSets
  <2>3. Sets(w, e2, c, "ESTABLISHED", w.mem[c].seq, n, HandedUpTo(n))
    BY <2>2, ThenEnter DEF States
  <2> HIDE DEF e2
  <2>4. Sets(w, e3, c, "ESTABLISHED", w.mem[c].seq + 1, n, HandedUpTo(n))
    BY <2>3, ThenCountUp
  <2> HIDE DEF e3
  <2>5. IsWorld(e3)
    BY <2>4 DEF Sets, Concerns
  <2>6. Silent(e3, e4)
    BY <2>5, SendFields
  <2>7. Sets(w, e4, c, "ESTABLISHED", w.mem[c].seq + 1, n, HandedUpTo(n))
    BY <2>4, <2>6, ThenSilent
  <2>8. OnSynAck(w, c, g) = e4
    BY <1>1 DEF OnSynAck, e2, e3, n
  <2> HIDE DEF e4
  <2>9. StreamAt(w, c) =>
          StreamOf("ESTABLISHED", w.mem[c].seq + 1, w.dataNext[c], w.finSent[c])
    BY <1>1 DEF StreamAt, StreamOf
  <2>10. Proper(w, e4, c)
    BY <1>1, <2>1, <2>7, <2>9, SetsProper, FromNowOn DEF Finishing
  <2> QED  BY <2>8, <2>10
<1>2. CASE w.mem[c].state # "SYN_SENT"
  <2>1. OnSynAck(w, c, g) = Reset(w, c)
    BY <1>2 DEF OnSynAck
  <2> QED  BY <2>1, ResetProper
<1> QED  BY <1>1, <1>2

(* A FIN is sent behind all the data. *)
LEMMA SendFin ==
  ASSUME NEW w, IsWorld(w), NEW c \in Chunks
  PROVE  LET v == SendSegment(w, c, {"FIN", "ACK"}, 0)
         IN  /\ Concerns(w, v, c) /\ v.due = w.due /\ v.hung = w.hung
             /\ v.mem[c].state = w.mem[c].state /\ v.mem[c].ack = w.mem[c].ack
             /\ v.mem[c].seq = w.mem[c].seq
             /\ v.dataNext[c] = w.dataNext[c]
             /\ w.intact /\ (w.mem[c].seq >= w.dataNext[c] \/ w.dataNext[c] = 1) => v.intact
<1> DEFINE v == SendSegment(w, c, {"FIN", "ACK"}, 0)
<1>1. /\ Concerns(w, v, c) /\ v.due = w.due /\ v.hung = w.hung
      /\ v.mem[c].state = w.mem[c].state /\ v.mem[c].ack = w.mem[c].ack
      /\ v.mem[c].seq = w.mem[c].seq + 0
      /\ v.dataNext[c] = IF 0 > 0 THEN w.mem[c].seq + 0 ELSE w.dataNext[c]
      /\ v.intact <=>
           w.intact /\ InOrder(c, w.mem[c].seq, {"FIN", "ACK"}, 0, w.dataNext, w.finSent)
  BY SendFields
<1> HIDE DEF v
<1>2. v.mem[c].seq = w.mem[c].seq /\ v.dataNext[c] = w.dataNext[c]
  BY <1>1, SocketFields
<1>3. w.intact /\ (w.mem[c].seq >= w.dataNext[c] \/ w.dataNext[c] = 1) => v.intact
  BY <1>1 DEF InOrder
<1> QED  BY <1>1, <1>2, <1>3 DEF v

LEMMA ConcernsTwice ==
  ASSUME NEW w, NEW v, NEW u, NEW c \in Chunks, Concerns(w, v, c), Concerns(v, u, c)
  PROVE  Concerns(w, u, c)
<1> HIDE DEF IsWorld
<1> QED  BY DEF Concerns, TableKept, Elsewhere

LEMMA OnFinProper ==
  ASSUME NEW w, IsWorld(w), NEW c \in Chunks, NEW g \in Segments
  PROVE  Proper(w, OnFin(w, c, g), c)
<1>0. /\ w.mem[c].seq \in Int /\ w.mem[c].ack \in Int /\ w.due[c] \in Due
      /\ w.dataNext[c] \in Int
  BY SocketFields
<1> DEFINE state == w.mem[c].state
           d == FinSeen(g, w.due[c])
<1>5. ExactAt(w, c) => Exact(w.mem[c].ack + 1, d, w.hung)
  BY <1>0, FinExact DEF ExactAt
<1>1. CASE state = "ESTABLISHED"
  <2> DEFINE e1 == Enter(w, c, "CLOSE_WAIT")
             e2 == FinCounted(e1, c, g)
             e3 == SendSegment(e2, c, {"ACK"}, 0)
             e4 == SendSegment(e3, c, {"FIN", "ACK"}, 0)
  <2>1. Sets(w, e1, c, "CLOSE_WAIT", w.mem[c].seq, w.mem[c].ack, w.due[c])
    BY AtFirst, ThenEnter DEF States
  <2>2. Sets(w, e2, c, "CLOSE_WAIT", w.mem[c].seq, w.mem[c].ack + 1, d)
    BY <2>1, ThenFinCounted
  <2> HIDE DEF e2
  <2>3. IsWorld(e2)
    BY <2>2 DEF Sets, Concerns
  <2>4. Silent(e2, e3)
    BY <2>3, SendFields
  <2>5. Sets(w, e3, c, "CLOSE_WAIT", w.mem[c].seq, w.mem[c].ack + 1, d)
    BY <2>2, <2>4, ThenSilent
  <2> HIDE DEF e3
  <2>6. IsWorld(e3) /\ Concerns(w, e3, c) /\ e3.hung = w.hung
    BY <2>5 DEF Sets, Concerns
  <2>7. /\ Concerns(e3, e4, c) /\ e4.due = e3.due /\ e4.hung = e3.hung
        /\ e4.mem[c].state = e3.mem[c].state /\ e4.mem[c].ack = e3.mem[c].ack
        /\ e4.mem[c].seq = e3.mem[c].seq /\ e4.dataNext[c] = e3.dataNext[c]
        /\ e3.intact /\ (e3.mem[c].seq >= e3.dataNext[c] \/ e3.dataNext[c] = 1) => e4.intact
    BY <2>6, SendFin
  <2>8. OnFin(w, c, g) = e4
    BY <1>1 DEF OnFin, e2, e3
  <2> HIDE DEF e4
  <2>9. Concerns(w, e4, c)
    BY <2>6, <2>7, ConcernsTwice
  <2>10. /\ e4.mem[c].state = "CLOSE_WAIT" /\ e4.mem[c].seq = w.mem[c].seq
         /\ e4.mem[c].ack = w.mem[c].ack + 1 /\ e4.due[c] = d
         /\ e4.hung = w.hung
         /\ e4.dataNext[c] = w.dataNext[c]
         /\ w.intact /\ (w.mem[c].seq >= w.dataNext[c] \/ w.dataNext[c] = 1) => e4.intact
    BY <2>5, <2>7 DEF Sets
  <2>11. ExactAt(w, c) => ExactAt(e4, c)
    BY <1>5, <2>10 DEF ExactAt
  <2>12. w.intact /\ StreamAt(w, c) => e4.intact /\ StreamAt(e4, c)
    <3> SUFFICES ASSUME w.intact, StreamAt(w, c) PROVE e4.intact /\ StreamAt(e4, c)
      OBVIOUS
    <3>1. w.mem[c].seq >= w.dataNext[c] \/ w.dataNext[c] = 1
      BY DEF StreamAt, StreamOf
    <3>2. e4.mem[c].seq >= e4.dataNext[c] \/ e4.dataNext[c] = 1
      BY <2>10, <3>1
    <3>3. StreamAt(e4, c)
      BY <2>10, <3>2 DEF StreamAt, StreamOf
    <3> QED  BY <2>10, <3>1, <3>3
  <2>13. Proper(w, e4, c)
    BY <1>1, <2>9, <2>10, <2>11, <2>12 DEF Proper, Streams, Finishing
  <2> QED  BY <2>8, <2>13
<1>2. CASE state = "CLOSE_WAIT"
  <2>1. Sets(w, Enter(w, c, "CLOSED"), c, "CLOSED", w.mem[c].seq, w.mem[c].ack, w.due[c])
    BY AtFirst, ThenEnter DEF States
  <2>2. StreamAt(w, c) => StreamOf("CLOSED", w.mem[c].seq, w.dataNext[c], w.finSent[c])
    BY DEF StreamAt, StreamOf
  <2>3. Proper(w, Enter(w, c, "CLOSED"), c)
    BY <1>2, <2>1, <2>2, SetsProper DEF Finishing, ExactAt
  <2> QED  BY <1>2, <2>3 DEF OnFin
<1>3. CASE state \in {"FIN_WAIT1", "FIN_WAIT2"}
  <2> DEFINE e1 == Enter(w, c, "CLOSED")
             e2 == FinCounted(e1, c, g)
             e3 == SendSegment(e2, c, {"ACK"}, 0)
  <2>1. Sets(w, e1, c, "CLOSED", w.mem[c].seq, w.mem[c].ack, w.due[c])
    BY AtFirst, ThenEnter DEF States
  <2>2. Sets(w, e2, c, "CLOSED", w.mem[c].seq, w.mem[c].ack + 1, d)
    BY <2>1, ThenFinCounted
  <2> HIDE DEF e2
  <2>3. IsWorld(e2)
    BY <2>2 DEF Sets, Concerns
  <2>4. Silent(e2, e3)
    BY <2>3, SendFields
  <2>5. Sets(w, e3, c, "CLOSED", w.mem[c].seq, w.mem[c].ack + 1, d)
    BY <2>2, <2>4, ThenSilent
  <2>6. OnFin(w, c, g) = e3
    BY <1>3 DEF OnFin, e2
  <2> HIDE DEF e3
  <2>7. StreamAt(w, c) => StreamOf("CLOSED", w.mem[c].seq, w.dataNext[c], w.finSent[c])
    BY DEF StreamAt, StreamOf
  <2>8. Proper(w, e3, c)
    BY <1>3, <1>5, <2>5, <2>7, SetsProper DEF Finishing
  <2> QED  BY <2>6, <2>8
<1>4. CASE state \notin {"ESTABLISHED", "CLOSE_WAIT", "FIN_WAIT1", "FIN_WAIT2"}
  <2>1. OnFin(w, c, g) = Reset(w, c)
    BY <1>4 DEF OnFin
  <2> QED  BY <2>1, ResetProper
<1> QED  BY <1>1, <1>2, <1>3, <1>4

(* The answer to a request goes out behind all the data before, and the FIN
   behind the answer. *)
LEMMA ReplyFacts ==
  ASSUME NEW w, IsWorld(w), NEW c \in Chunks, w.mem[c].state = "ESTABLISHED"
  PROVE  LET v == Reply(w, c)
         IN  /\ Concerns(w, v, c) /\ v.due[c] = w.due[c] /\ v.hung = w.hung
             /\ v.mem[c].state = "FIN_WAIT1" /\ v.mem[c].ack = w.mem[c].ack
             /\ w.intact /\ StreamAt(w, c) => v.intact /\ StreamAt(v, c)
<1> DEFINE e1 == SendSegment(w, c, {"PSH", "ACK"}, ReplySize)
           e2 == Enter(e1, c, "FIN_WAIT1")
           e3 == SendSegment(e2, c, {"FIN", "ACK"}, 0)
           e4 == CountUp(e3, c)
           q == w.mem[c].seq
<1>0. q \in Int /\ w.dataNext[c] \in Int
  BY SocketFields
<1>1. ReplySize \in Nat /\ ReplySize > 0
  BY DEF ReplySize
<1>2. /\ Concerns(w, e1, c) /\ e1.due = w.due /\ e1.hung = w.hung
      /\ e1.mem[c].ack = w.mem[c].ack /\ e1.mem[c].seq = q + ReplySize
      /\ e1.dataNext[c] = IF ReplySize > 0 THEN q + ReplySize ELSE w.dataNext[c]
      /\ e1.intact <=>
           w.intact /\ InOrder(c, q, {"PSH", "ACK"}, ReplySize, w.dataNext, w.finSent)
  BY <1>1, SendFields
<1>3. e1.dataNext[c] = q + ReplySize
  BY <1>1, <1>2
<1>4. w.intact /\ StreamAt(w, c) => e1.intact
  <2> SUFFICES ASSUME w.intact, StreamAt(w, c) PROVE e1.intact
    OBVIOUS
  <2>1. q = w.dataNext[c] /\ ~ w.finSent[c]
    BY DEF StreamAt, StreamOf
  <2>2. InOrder(c, q, {"PSH", "ACK"}, ReplySize, w.dataNext, w.finSent)
    BY <2>1 DEF InOrder
  <2> QED  BY <1>2, <2>2
<1>5. IsWorld(e1)
  BY <1>2 DEF Concerns
<1> HIDE DEF e1
<1>6. Sets(e1, e2, c, "FIN_WAIT1", e1.mem[c].seq, e1.mem[c].ack, e1.due[c])
  BY <1>5, AtFirst, ThenEnter DEF States
<1>7. IsWorld(e2) /\ Concerns(e1, e2, c)
  BY <1>6 DEF Sets, Concerns
<1> HIDE DEF e2
<1>8. /\ Concerns(e2, e3, c) /\ e3.due = e2.due /\ e3.hung = e2.hung
      /\ e3.mem[c].state = e2.mem[c].state /\ e3.mem[c].ack = e2.mem[c].ack
      /\ e3.mem[c].seq = e2.mem[c].seq /\ e3.dataNext[c] = e2.dataNext[c]
      /\ e2.intact /\ (e2.mem[c].seq >= e2.dataNext[c] \/ e2.dataNext[c] = 1) => e3.intact
  BY <1>7, SendFin
<1>9. IsWorld(e3)
  BY <1>8 DEF Concerns
<1> HIDE DEF e3
<1>10. Sets(e3, e4, c, e3.mem[c].state, e3.mem[c].seq + 1, e3.mem[c].ack, e3.due[c])
  BY <1>9, AtFirst, ThenCountUp
<1> HIDE DEF e4
<1>11. Concerns(w, e4, c)
  <2>1. Concerns(w, e2, c)
    BY <1>2, <1>7, ConcernsTwice
  <2>2. Concerns(w, e3, c)
    BY <1>8, <2>1, ConcernsTwice
  <2> QED  BY <1>10, <2>2, ConcernsTwice DEF Sets
<1>12. /\ e4.mem[c].state = "FIN_WAIT1" /\ e4.mem[c].ack = w.mem[c].ack
       /\ e4.due[c] = w.due[c] /\ e4.hung = w.hung
  BY <1>2, <1>6, <1>8, <1>10 DEF Sets
<1>13. e4.mem[c].seq = q + ReplySize + 1 /\ e4.dataNext[c] = q + ReplySize
  BY <1>2, <1>3, <1>6, <1>8, <1>10 DEF Sets
<1>14. ASSUME w.intact, StreamAt(w, c) PROVE e4.intact
  <2>1. e2.intact /\ e2.mem[c].seq = q + ReplySize /\ e2.dataNext[c] = q + ReplySize
    BY <1>2, <1>3, <1>4, <1>6, <1>14 DEF Sets
  <2>2. e2.mem[c].seq >= e2.dataNext[c]
    BY <1>0, <1>1, <2>1
  <2> QED  BY <1>8, <1>10, <2>1, <2>2 DEF Sets
<1>15. StreamAt(e4, c)
  <2>1. e4.mem[c].seq >= e4.dataNext[c]
    BY <1>0, <1>1, <1>13
  <2> QED  BY <1>12, <2>1 DEF StreamAt, StreamOf
<1>16. Reply(w, c) = e4
  BY DEF Reply, Close, e1, e2, e3, e4
<1> QED  BY <1>11, <1>12, <1>14, <1>15, <1>16

(* Data is acknowledged as far as it was handed over. *)
LEMMA OnDataProper ==
  ASSUME NEW w, IsWorld(w), ~ w.hung, NEW c \in Chunks, NEW g \in Segments
  PROVE  Proper(w, OnData(w, c, g), c)
<1> DEFINE handed == [w EXCEPT !.due[c] = Seen(g, @)]
           answered == IF g.data.get THEN Reply(handed, c) ELSE handed
           e == [answered EXCEPT !.mem[c].ack = @ + Advance(g.data)]
           sent == SendSegment(e, c, {"ACK"}, 0)
<1>0. /\ w.mem[c].seq \in Int /\ w.mem[c].ack \in Int /\ w.due[c] \in Due
      /\ w.dataNext[c] \in Int /\ Advance(g.data) \in Int
  <2>1. Advance(g.data) \in Int
    BY SegmentFields, NumbersAssumption DEF Advance
  <2> QED  BY <2>1, SocketFields
<1> DEFINE d == Seen(g, w.due[c])
<1>1. CASE ~ (g.seq = w.mem[c].ack /\ w.mem[c].handler)
  <2>1. OnData(w, c, g) = Reset(w, c)
    BY <1>1 DEF OnData
  <2> QED  BY <2>1, ResetProper
<1>2. ASSUME g.seq = w.mem[c].ack
      PROVE  /\ Sets(w, handed, c, w.mem[c].state, w.mem[c].seq, w.mem[c].ack, d)
             /\ ExactAt(w, c) => Exact(w.mem[c].ack, d, TRUE)
             /\ ExactAt(w, c) => Exact(w.mem[c].ack + Advance(g.data), d, FALSE)
  <2> DEFINE k == w.mem[c]
  <2>1. /\ d \in Due /\ k \in Socket
        /\ ExactAt(w, c) => Exact(k.ack, d, TRUE)
        /\ ExactAt(w, c) => Exact(k.ack + Advance(g.data), d, FALSE)
    <3>1. w.hung = FALSE
      BY WorldFields
    <3> HIDE DEF Exact
    <3> QED  BY <1>0, <1>2, <3>1, SocketFields, SeenExact DEF ExactAt
  <2>2. handed = [w EXCEPT !.due = [w.due EXCEPT ![c] = d]]
    BY Zenon
  <2>3. w.mem = [w.mem EXCEPT ![c] = k]
    BY WorldFields
  <2> HIDE DEF d, k, handed
  <2>4. handed = [w EXCEPT !.mem = [w.mem EXCEPT ![c] = k],
                           !.due = [w.due EXCEPT ![c] = d]]
    <3> DEFINE m == [w.mem EXCEPT ![c] = k]
               x == [w.due EXCEPT ![c] = d]
    <3>1. w.mem = m /\ handed = [w EXCEPT !.due = x]
      BY <2>2, <2>3
    <3> HIDE DEF m, x
    <3> QED  BY <3>1 DEF m, x, IsWorld, Worlds
  <2>5. Sets(w, handed, c, k.state, k.seq, k.ack, d)
    BY <2>1, <2>4, SetsBoth
  <2> QED  BY <2>1, <2>5 DEF k
<1>3. g.seq = w.mem[c].ack => IsWorld(handed)
  BY <1>2 DEF Sets, Concerns
<1> HIDE DEF handed
<1>4. CASE /\ g.seq = w.mem[c].ack /\ w.mem[c].handler
           /\ g.data.get /\ w.mem[c].state # "ESTABLISHED"
  <2> DEFINE u == [handed EXCEPT !.hung = TRUE]
  <2>1. Reply(handed, c) = u
    BY <1>2, <1>4 DEF Reply, Sets
  <2>2. /\ u.hung = TRUE /\ u.mem = handed.mem /\ u.due = handed.due
        /\ u.dataNext = handed.dataNext /\ u.finSent = handed.finSent
        /\ u.allocated = handed.allocated /\ u.sockets = handed.sockets
        /\ u.num = handed.num /\ u.intact = handed.intact
    BY <1>3, <1>4 DEF IsWorld, Worlds
  <2>3. IsWorld(u)
    BY <1>3, <1>4 DEF IsWorld, Worlds
  <2>4. OnData(w, c, g) = u
    BY <1>4, <2>1, <2>2 DEF OnData, handed
  <2> HIDE DEF u
  <2>5. Concerns(handed, u, c)
    BY <2>2, <2>3 DEF Concerns, TableKept, Elsewhere
  <2>6. Concerns(w, u, c)
    BY <1>2, <1>4, <2>5, ConcernsTwice DEF Sets
  <2>8. /\ u.mem[c].state = w.mem[c].state /\ u.mem[c].seq = w.mem[c].seq
        /\ u.mem[c].ack = w.mem[c].ack /\ u.due[c] = d
        /\ u.dataNext = w.dataNext /\ u.finSent = w.finSent /\ u.intact = w.intact
    BY <1>2, <1>4, <2>2 DEF Sets
  <2>7. ExactAt(w, c) => ExactAt(u, c)
    BY <1>2, <1>4, <2>2, <2>8 DEF ExactAt
  <2>9. StreamAt(w, c) => StreamAt(u, c)
    BY <2>8 DEF StreamAt
  <2>10. Proper(w, u, c)
    BY <1>4, <2>6, <2>7, <2>8, <2>9 DEF Proper, Streams
  <2> QED  BY <2>4, <2>10
<1>5. ASSUME /\ g.seq = w.mem[c].ack /\ w.mem[c].handler
             /\ Streams(w, answered, c) /\ answered.hung = FALSE
             /\ answered.mem[c].ack = w.mem[c].ack /\ answered.due[c] = d
      PROVE  Proper(w, OnData(w, c, g), c)
  <2> DEFINE k == [answered.mem[c] EXCEPT !.ack = @ + Advance(g.data)]
  <2>1. OnData(w, c, g) = sent
    BY <1>5 DEF OnData, handed
  <2> HIDE DEF answered
  <2>2. IsWorld(answered) /\ Concerns(w, answered, c)
    BY <1>5 DEF Streams, Concerns
  <2>3. /\ k \in Socket /\ k.state = answered.mem[c].state
        /\ k.seq = answered.mem[c].seq /\ k.ack = w.mem[c].ack + Advance(g.data)
    BY <1>0, <1>5, <2>2, SocketFields DEF Socket
  <2>4. e = [answered EXCEPT !.mem = [answered.mem EXCEPT ![c] = k]]
    BY Zenon
  <2> HIDE DEF k, e
  <2>5. Sets(answered, e, c, k.state, k.seq, k.ack, answered.due[c])
    BY <2>2, <2>3, <2>4, SetsMem
  <2>6. IsWorld(e)
    BY <2>5 DEF Sets, Concerns
  <2>7. Silent(e, sent)
    BY <2>6, SendFields
  <2> HIDE DEF sent
  <2>8. Sets(answered, sent, c, k.state, k.seq, k.ack, answered.due[c])
    BY <2>5, <2>7, ThenSilent
  <2>9. Concerns(w, sent, c)
    BY <2>2, <2>8, ConcernsTwice DEF Sets
  <2>10. /\ sent.mem[c].state = answered.mem[c].state
         /\ sent.mem[c].seq = answered.mem[c].seq
         /\ sent.mem[c].ack = w.mem[c].ack + Advance(g.data) /\ sent.due[c] = d
         /\ sent.dataNext = answered.dataNext /\ sent.finSent = answered.finSent
         /\ sent.intact = answered.intact /\ sent.hung = FALSE
    BY <1>5, <2>3, <2>8 DEF Sets
  <2>11. ExactAt(w, c) => ExactAt(sent, c)
    BY <1>2, <1>5, <2>10 DEF ExactAt
  <2>12. StreamAt(answered, c) => StreamAt(sent, c)
    BY <2>10 DEF StreamAt
  <2>13. Proper(w, sent, c)
    BY <1>5, <2>9, <2>10, <2>11, <2>12 DEF Proper, Streams
  <2> QED  BY <2>1, <2>13
<1>6. CASE g.seq = w.mem[c].ack /\ w.mem[c].handler /\ ~ g.data.get
  <2>1. answered = handed
    BY <1>6
  <2>2. Streams(w, handed, c)
    <3> HIDE DEF StreamOf, d
    <3> QED  BY <1>2, <1>6 DEF Sets, Streams, StreamAt
  <2>3. handed.hung = FALSE /\ handed.mem[c].ack = w.mem[c].ack /\ handed.due[c] = d
    BY <1>2, <1>6, WorldFields DEF Sets
  <2> QED  BY <1>5, <1>6, <2>1, <2>2, <2>3
<1>7. CASE /\ g.seq = w.mem[c].ack /\ w.mem[c].handler
           /\ g.data.get /\ w.mem[c].state = "ESTABLISHED"
  <2> DEFINE v == Reply(handed, c)
  <2>1. answered = v
    BY <1>7
  <2>2. /\ handed.mem[c].state = "ESTABLISHED" /\ handed.mem[c].ack = w.mem[c].ack
        /\ handed.due[c] = d /\ handed.hung = FALSE /\ Concerns(w, handed, c)
        /\ handed.intact = w.intact /\ (StreamAt(w, c) => StreamAt(handed, c))
    BY <1>2, <1>7, WorldFields DEF Sets, StreamAt
  <2>3. /\ Concerns(handed, v, c) /\ v.due[c] = handed.due[c] /\ v.hung = handed.hung
        /\ v.mem[c].state = "FIN_WAIT1" /\ v.mem[c].ack = handed.mem[c].ack
        /\ handed.intact /\ StreamAt(handed, c) => v.intact /\ StreamAt(v, c)
    BY <1>3, <1>7, <2>2, ReplyFacts
  <2> HIDE DEF v
  <2>4. Concerns(w, v, c)
    BY <2>2, <2>3, ConcernsTwice
  <2>5. Streams(w, v, c)
    BY <1>7, <2>2, <2>3, <2>4 DEF Streams, Finishing
  <2> QED  BY <1>5, <1>7, <2>1, <2>2, <2>3, <2>5
<1> QED  BY <1>1, <1>4, <1>6, <1>7

LEMMA OnAckProper ==
  ASSUME NEW w, IsWorld(w), ~ w.hung, NEW c \in Chunks, NEW g \in Segments
  PROVE  Proper(w, OnAck(w, c, g), c)
<1> DEFINE state == w.mem[c].state
<1>1. \A s \in {"ESTABLISHED", "FIN_WAIT2", "CLOSED"} :
        Sets(w, Enter(w, c, s), c, s, w.mem[c].seq, w.mem[c].ack, w.due[c])
  BY EnterSets DEF States
<1>2. CASE state = "SYN_RECEIVED"
  <2>1. OnAck(w, c, g) = Enter(w, c, "ESTABLISHED")
    BY <1>2 DEF OnAck
  <2>2. StreamAt(w, c) => StreamOf("ESTABLISHED", w.mem[c].seq, w.dataNext[c], w.finSent[c])
    BY <1>2 DEF StreamAt, StreamOf
  <2> QED  BY <1>1, <1>2, <2>1, <2>2, SetsProper DEF Finishing, ExactAt
<1>3. CASE state = "FIN_WAIT1"
  <2>1. OnAck(w, c, g) = Enter(w, c, "FIN_WAIT2")
    BY <1>3 DEF OnAck
  <2>2. StreamAt(w, c) => StreamOf("FIN_WAIT2", w.mem[c].seq, w.dataNext[c], w.finSent[c])
    BY <1>3 DEF StreamAt, StreamOf
  <2> QED  BY <1>1, <1>3, <2>1, <2>2, SetsProper DEF Finishing, ExactAt
<1>4. CASE state = "CLOSE_WAIT"
  <2>1. OnAck(w, c, g) = Enter(w, c, "CLOSED")
    BY <1>4 DEF OnAck
  <2>2. StreamAt(w, c) => StreamOf("CLOSED", w.mem[c].seq, w.dataNext[c], w.finSent[c])
    BY <1>4 DEF StreamAt, StreamOf
  <2> QED  BY <1>1, <1>4, <2>1, <2>2, SetsProper DEF Finishing, ExactAt
<1>5. CASE state \notin {"SYN_RECEIVED", "FIN_WAIT1", "CLOSE_WAIT"}
  <2>1. OnAck(w, c, g) = IF g.flags = {"ACK"} THEN w ELSE OnData(w, c, g)
    BY <1>5 DEF OnAck
  <2>2. Proper(w, w, c)
    BY AtFirst, SetsProper DEF StreamAt, ExactAt
  <2> QED  BY <2>1, <2>2, OnDataProper
<1> QED  BY <1>2, <1>3, <1>4, <1>5

LEMMA DispatchProper ==
  ASSUME NEW w, IsWorld(w), ~ w.hung, NEW c \in Chunks, NEW g \in Segments
  PROVE  Proper(w, Dispatch(w, c, g), c)
<1> DEFINE v == Dispatch(w, c, g)
<1>1. v \in {OnSyn(w, c, g), OnSynAck(w, c, g), Reset(w, c), OnFin(w, c, g),
             OnAck(w, c, g), OnData(w, c, g)}
  BY Zenon DEF Dispatch
<1> QED  BY <1>1, OnSynProper, OnSynAckProper, ResetProper, OnFinProper, OnAckProper,
            OnDataProper

-----------------------------------------------------------------------------
(* The states of the provider. *)

Entering == main.pc \in {"loadCount", "count", "put"}

MainType(m) ==
  m \in [pc : {"idle", "loadCount", "count", "put", "syn", "number", "spin",
               "build", "load", "store", "emit", "finLoad", "finStore"},
         op : {"none", "Connect", "Listen", "Send", "Disconnect"},
         sock : Chunks \cup {Null}, n : Nat,
         flags : {{}, {"SYN"}, {"PSH", "ACK"}, {"FIN", "ACK"}},
         size : {0, 1}, built : {m.built}, seq : Int]

MainOK ==
  /\ MainType(main)
  /\ main.pc # "idle" => main.sock \in Chunks
  /\ main.op = "Send" => main.size = 1 /\ "FIN" \notin main.flags
                         /\ main.pc \notin {"syn", "number", "finLoad", "finStore"}
  /\ main.op # "Send" => main.size = 0 /\ main.pc # "spin"
  /\ main.op = "Disconnect" => ~ Entering /\ main.pc \notin {"syn", "number"}
  /\ main.op # "Disconnect" => main.pc \notin {"finLoad", "finStore"}
                               /\ "FIN" \notin main.flags
  /\ Entering \/ main.pc \in {"syn", "number"} => main.op \in {"Connect", "Listen"}
  /\ main.op = "Listen" => Entering
  /\ main.op = "none" <=> main.pc = "idle"

TcpTypeOK ==
  /\ mem \in [Chunks -> Socket] /\ allocated \in SUBSET Chunks
  /\ sockets \in [Index -> Chunks \cup {Null}] /\ numSockets \in Nat
  /\ due \in [Chunks -> Due] /\ dataNext \in [Chunks -> Int]
  /\ finSent \in [Chunks -> BOOLEAN] /\ intact \in BOOLEAN
  /\ freePort \in Ports /\ held \subseteq allocated
  /\ MainOK
  \* there is room in the table for every socket that was opened
  /\ opens \in 0 .. MaxOpens /\ numSockets <= opens
  /\ main.pc = "loadCount" => numSockets < opens
  /\ main.pc \in {"count", "put"} => main.n < opens

LEMMA WorldNow ==
  ASSUME TcpTypeOK
  PROVE  /\ IsWorld(World) /\ ~ World.hung
         /\ World.mem = mem /\ World.allocated = allocated /\ World.sockets = sockets
         /\ World.num = numSockets /\ World.due = due /\ World.dataNext = dataNext
         /\ World.finSent = finSent /\ World.intact = intact
  BY DEF TcpTypeOK, IsWorld, Worlds, World

(* What the handler does with a segment that it finds a socket for. *)
Arrival(c, i, v) ==
  /\ i \in 0 .. numSockets - 1 /\ sockets[i] = c
  /\ Proper(World, v, c)
  /\ mem' = v.mem /\ hung' = v.hung /\ due' = v.due /\ dataNext' = v.dataNext
  /\ finSent' = v.finSent /\ intact' = v.intact
  /\ \/ /\ UNCHANGED <<allocated, sockets, numSockets>>
        /\ v.mem[c].state = "CLOSED" => v.hung
     \/ /\ numSockets' = numSockets - 1 /\ allocated' = allocated \ {c}
        /\ sockets' = [sockets EXCEPT ![i] = sockets[numSockets - 1]]

LEMMA OpenedProper ==
  ASSUME NEW w, IsWorld(w), ~ w.hung, NEW c \in Chunks, NEW g \in Segments
  PROVE  LET opened == IF "RST" \in g.flags THEN Enter(w, c, "CLOSED") ELSE w
         IN  Proper(w, Dispatch(opened, c, g), c)
<1>1. CASE "RST" \notin g.flags
  BY <1>1, DispatchProper
<1>2. CASE "RST" \in g.flags
  <2> DEFINE e == Enter(w, c, "CLOSED")
             v == Dispatch(e, c, g)
  <2>1. Sets(w, e, c, "CLOSED", w.mem[c].seq, w.mem[c].ack, w.due[c])
    BY AtFirst, ThenEnter DEF States
  <2> HIDE DEF e
  <2>2. /\ IsWorld(e) /\ ~ e.hung /\ Concerns(w, e, c) /\ e.mem[c].state = "CLOSED"
        /\ e.mem[c].seq = w.mem[c].seq /\ e.mem[c].ack = w.mem[c].ack
        /\ e.due[c] = w.due[c] /\ e.intact = w.intact /\ e.dataNext = w.dataNext
        /\ e.finSent = w.finSent /\ e.hung = w.hung
    BY <2>1 DEF Sets, Concerns
  <2>3. Proper(e, v, c)
    BY <2>2, DispatchProper
  <2> HIDE DEF v
  <2>4. /\ v.mem[c].state = "CLOSED" /\ v.mem[c].seq = w.mem[c].seq
        /\ v.dataNext = w.dataNext /\ v.finSent = w.finSent
    BY <2>2, <2>3 DEF Proper, Streams, Finishing
  <2>5. Concerns(w, v, c)
    BY <2>2, <2>3, ConcernsTwice DEF Proper, Streams
  <2>6. ExactAt(w, c) => ExactAt(v, c)
    BY <2>2, <2>3 DEF Proper, ExactAt
  <2>7. StreamAt(w, c) => StreamAt(e, c)
    BY <2>2 DEF StreamAt, StreamOf
  <2>8. w.intact /\ StreamAt(w, c) => v.intact /\ StreamAt(v, c)
    BY <2>2, <2>3, <2>7 DEF Proper, Streams
  <2>9. Proper(w, v, c)
    BY <2>4, <2>5, <2>6, <2>8 DEF Proper, Streams, Finishing
  <2> QED  BY <1>2, <2>9 DEF e, v
<1> QED  BY <1>1, <1>2

LEMMA Arrives ==
  ASSUME TcpTypeOK, NEW g \in Segments, SegmentArrives(g), Hits(g) # {}
  PROVE  \E c \in Chunks : \E i, v :
           /\ Arrival(c, i, v) /\ Handle(g) /\ c = Lookup(g)
           /\ UNCHANGED <<main, freePort, opens, sends>>
<1> DEFINE c == Lookup(g)
           opened == IF "RST" \in g.flags THEN Enter(World, c, "CLOSED") ELSE World
           v == Dispatch(opened, c, g)
           H == {j \in 0 .. numSockets - 1 : sockets[j] = c}
           first == CHOOSE j \in 0 .. numSockets - 1 :
                      sockets[j] = c /\ \A k \in 0 .. j - 1 : sockets[k] # c
           x == IF v.hung THEN v ELSE FreeClosed(v, c)
<1>1. numSockets \in Nat /\ numSockets <= opens /\ opens <= MaxOpens /\ opens \in Nat
      /\ sockets \in [Index -> Chunks \cup {Null}] /\ MaxOpens \in Nat
  BY BoundsAssumption DEF TcpTypeOK
<1>2. \E i \in Hits(g) : c = sockets[i]
  <2>1. Hits(g) \in SUBSET Nat
    BY <1>1 DEF Hits
  <2>2. \E i \in Hits(g) : \A j \in Hits(g) : i <= j
    BY <2>1, FirstExists
  <2> QED  BY <2>2 DEF Lookup
<1>3. c \in Chunks /\ H # {}
  <2>1. PICK i \in Hits(g) : c = sockets[i]
    BY <1>2
  <2>2. i \in 0 .. numSockets - 1 /\ Matches(sockets[i], g)
    BY <2>1 DEF Hits
  <2>3. i \in Index
    BY <1>1, <2>2 DEF Index
  <2> HIDE DEF c
  <2> QED  BY <1>1, <2>1, <2>2, <2>3 DEF Matches
<1> HIDE DEF c
<1>4. first \in 0 .. numSockets - 1 /\ sockets[first] = c
  <2>1. H \in SUBSET Nat
    BY <1>1
  <2>2. PICK i \in H : \A j \in H : i <= j
    BY <1>3, <2>1, FirstExists
  <2>3. i \in 0 .. numSockets - 1 /\ sockets[i] = c
    BY <2>2
  <2>4. ASSUME NEW k \in 0 .. i - 1 PROVE sockets[k] # c
    <3>1. k \in 0 .. numSockets - 1 /\ ~ (i <= k)
      BY <1>1, <2>3
    <3> QED  BY <2>2, <3>1
  <2> QED  BY <2>3, <2>4
<1>5. Proper(World, v, c)
  BY <1>3, WorldNow, OpenedProper
<1>6. Handle(g) /\ UNCHANGED <<main, freePort, opens, sends>>
  BY DEF SegmentArrives
<1>7. Becomes(x)
  BY <1>6 DEF Handle, c
<1> HIDE DEF v
<1>8. /\ IsWorld(v) /\ v.allocated = allocated /\ v.sockets = sockets /\ v.num = numSockets
  BY <1>5, WorldNow DEF Proper, Streams, Concerns, TableKept
<1>9. CASE v.hung \/ v.mem[c].state # "CLOSED"
  <2>1. x = v
    BY <1>9 DEF FreeClosed
  <2> HIDE DEF x
  <2>2. Arrival(c, first, v)
    BY <1>4, <1>5, <1>7, <1>8, <1>9, <2>1 DEF Arrival, Becomes
  <2> QED  BY <1>3, <1>6, <2>2 DEF c
<1>10. CASE ~ v.hung /\ v.mem[c].state = "CLOSED"
  <2>1. x = [v EXCEPT !.sockets[first] = v.sockets[v.num - 1],
                      !.num = @ - 1, !.allocated = @ \ {c}]
    BY <1>8, <1>10 DEF FreeClosed
  <2> HIDE DEF x, first
  <2>2. /\ x.mem = v.mem /\ x.hung = v.hung /\ x.due = v.due /\ x.dataNext = v.dataNext
        /\ x.finSent = v.finSent /\ x.intact = v.intact
        /\ x.num = v.num - 1 /\ x.allocated = v.allocated \ {c}
        /\ x.sockets = [v.sockets EXCEPT ![first] = v.sockets[v.num - 1]]
    BY <1>8, <2>1 DEF IsWorld, Worlds
  <2>3. Arrival(c, first, v)
    BY <1>4, <1>5, <1>7, <1>8, <2>2 DEF Arrival, Becomes
  <2> QED  BY <1>3, <1>6, <2>3 DEF c
<1> QED  BY <1>9, <1>10

-----------------------------------------------------------------------------
(* What every state is like. *)

\* how a call of the main loop goes on
Goes(pc) ==
  /\ main'.pc = pc
  /\ main'.op = main.op /\ main'.sock = main.sock /\ main'.flags = main.flags
  /\ main'.size = main.size

LEMMA MainGoes ==
  ASSUME MainOK
  PROVE  /\ LoadCount => Goes("count") /\ main'.n = numSockets
         /\ StoreCount => Goes("put") /\ main'.n = main.n
         /\ PutSocket /\ main.op = "Connect" => Goes("syn")
         /\ SpinEnds => Goes("build")
         /\ Build => Goes("load")
         /\ LoadNumber => /\ Goes(IF main.pc = "load" THEN "store" ELSE "finStore")
                          /\ main'.seq = mem[main.sock].seq
         /\ StoreNumber /\ main.pc = "store" => Goes("emit")
         /\ Emit /\ main.op = "Disconnect" => Goes("finLoad")
         /\ EnterSynSent => Goes("number")
         /\ FirstNumber => /\ main'.pc = "build" /\ main'.op = main.op
                           /\ main'.sock = main.sock /\ main'.flags = {"SYN"}
                           /\ main'.size = main.size
<1>1. LoadCount => Goes("count") /\ main'.n = numSockets
  BY DEF LoadCount, Goes, MainOK, MainType
<1>2. StoreCount => Goes("put") /\ main'.n = main.n
  BY DEF StoreCount, Goes, MainOK, MainType
<1>3. PutSocket /\ main.op = "Connect" => Goes("syn")
  BY DEF PutSocket, Goes, MainOK, MainType
<1>4. SpinEnds => Goes("build")
  BY DEF SpinEnds, Goes, MainOK, MainType
<1>5. Build => Goes("load")
  BY DEF Build, Goes, MainOK, MainType
<1>6. LoadNumber => /\ Goes(IF main.pc = "load" THEN "store" ELSE "finStore")
                    /\ main'.seq = mem[main.sock].seq
  BY DEF LoadNumber, Goes, MainOK, MainType
<1>7. StoreNumber /\ main.pc = "store" => Goes("emit")
  BY DEF StoreNumber, Goes, MainOK, MainType
<1>8. Emit /\ main.op = "Disconnect" => Goes("finLoad")
  BY DEF Emit, Goes, MainOK, MainType
<1>9. EnterSynSent => Goes("number")
  BY DEF EnterSynSent, Goes, MainOK, MainType
<1>10. FirstNumber => /\ main'.pc = "build" /\ main'.op = main.op
                      /\ main'.sock = main.sock /\ main'.flags = {"SYN"}
                      /\ main'.size = main.size
  BY DEF FirstNumber, MainOK, MainType
<1> QED  BY <1>1, <1>2, <1>3, <1>4, <1>5, <1>6, <1>7, <1>8, <1>9, <1>10

Calling(pc, op, sock, flags, size) ==
  [pc |-> pc, op |-> op, sock |-> sock, n |-> 0, flags |-> flags, size |-> size,
   built |-> << >>, seq |-> 0]

LEMMA MainTypeKept ==
  ASSUME TcpTypeOK, Next
  PROVE  MainType(main')
<1> HIDE DEF Next
<1>1. MainType(main) /\ numSockets \in Nat
  BY DEF TcpTypeOK, MainOK, MainType
<1>2. \A c \in Chunks : mem[c].seq \in Int
  BY DEF TcpTypeOK, Socket
<1>3. MainType(Idle)
  BY DEF MainType, Idle
<1>4. CASE UNCHANGED main \/ main' = Idle
  BY <1>1, <1>3, <1>4
<1>5. CASE Connect
  <2>1. PICK c \in Chunks : main' = Calling("loadCount", "Connect", c, {}, 0)
    BY <1>5, Zenon DEF Connect, Calling, Idle
  <2> QED  BY <2>1 DEF MainType, Calling
<1>6. CASE Listen
  <2>1. PICK c \in Chunks : main' = Calling("loadCount", "Listen", c, {}, 0)
    BY <1>6 DEF Listen, Calling, Idle
  <2> QED  BY <2>1 DEF MainType, Calling
<1>7. ASSUME NEW c \in Chunks, Send(c) \/ Disconnect(c) PROVE MainType(main')
  <2>1. Send(c) => main' = Calling("spin", "Send", c, {"PSH", "ACK"}, 1)
    BY DEF Send, Calling, Idle
  <2>2. Disconnect(c) => main' = Calling("build", "Disconnect", c, {"FIN", "ACK"}, 0)
    BY DEF Disconnect, Calling, Idle
  <2> QED  BY <1>7, <2>1, <2>2 DEF MainType, Calling
<1>8. CASE LoadCount
  BY <1>1, <1>8 DEF LoadCount, MainType
<1>9. CASE StoreCount \/ PutSocket \/ EnterSynSent \/ FirstNumber \/ SpinEnds
  <2>1. CASE StoreCount
    BY <1>1, <1>3, <2>1 DEF StoreCount, MainType
  <2>2. CASE PutSocket
    BY <1>1, <1>3, <2>2 DEF PutSocket, MainType
  <2>3. CASE EnterSynSent
    BY <1>1, <1>3, <2>3 DEF EnterSynSent, MainType
  <2>4. CASE SpinEnds
    BY <1>1, <1>3, <2>4 DEF SpinEnds, MainType
  <2>5. CASE FirstNumber
    BY <1>1, <1>3, <2>5 DEF FirstNumber, MainType
  <2> QED  BY <1>9, <2>1, <2>2, <2>3, <2>4, <2>5
<1>10. CASE Build
  BY <1>1, <1>10 DEF Build, MainType
<1>11. CASE LoadNumber
  <2>1. main.sock \in Chunks
    BY <1>11 DEF LoadNumber, MainRuns, TcpTypeOK, MainOK
  <2> QED  BY <1>1, <1>2, <1>11, <2>1 DEF LoadNumber, MainType
<1>12. CASE StoreNumber \/ Emit
  BY <1>1, <1>3, <1>12 DEF StoreNumber, Emit, MainType
<1>13. CASE \/ \E g \in Segments : SegmentArrives(g)
            \/ \E c \in Chunks : Bind(c)
  BY <1>4, <1>13 DEF SegmentArrives, Bind
<1> QED
  BY <1>5, <1>6, <1>7, <1>8, <1>9, <1>10, <1>11, <1>12, <1>13 DEF Next

LEMMA MainSteps ==
  ASSUME TcpTypeOK, Next
  PROVE  MainOK'
<1> HIDE DEF Next, MainType
<1>0. MainOK /\ MainType(main) /\ MainType(main')
  BY MainTypeKept DEF TcpTypeOK, MainOK
<1>1. CASE UNCHANGED main
  BY <1>0, <1>1 DEF MainOK, Entering
<1>2. CASE main' = Idle
  <2>1. main'.pc = "idle" /\ main'.op = "none" /\ main'.size = 0 /\ main'.flags = {}
    BY <1>2 DEF Idle
  <2> HIDE DEF Idle
  <2> QED  BY <1>0, <2>1 DEF MainOK, Entering
<1>3. ASSUME NEW c \in Chunks, NEW op \in {"Connect", "Listen"},
             main' = Calling("loadCount", op, c, {}, 0)
      PROVE  MainOK'
  <2>1. /\ main'.pc = "loadCount" /\ main'.op = op /\ main'.sock = c
        /\ main'.flags = {} /\ main'.size = 0
    BY <1>3 DEF Calling
  <2> QED  BY <1>0, <2>1 DEF MainOK, Entering
<1>4. CASE Connect
  <2>1. PICK c \in Chunks : main' = Calling("loadCount", "Connect", c, {}, 0)
    BY <1>4 DEF Connect, Calling, Idle
  <2> QED  BY <1>3, <2>1
<1>5. CASE Listen
  <2>1. PICK c \in Chunks : main' = Calling("loadCount", "Listen", c, {}, 0)
    BY <1>5 DEF Listen, Calling, Idle
  <2> QED  BY <1>3, <2>1
<1>6. ASSUME NEW c \in Chunks, Send(c) PROVE MainOK'
  <2>1. main' = Calling("spin", "Send", c, {"PSH", "ACK"}, 1)
    BY <1>6 DEF Send, Calling, Idle
  <2>2. /\ main'.pc = "spin" /\ main'.op = "Send" /\ main'.sock = c
        /\ "FIN" \notin main'.flags /\ main'.size = 1
    BY <2>1 DEF Calling
  <2> QED  BY <1>0, <2>2 DEF MainOK, Entering
<1>7. ASSUME NEW c \in Chunks, Disconnect(c) PROVE MainOK'
  <2>1. main' = Calling("build", "Disconnect", c, {"FIN", "ACK"}, 0)
    BY <1>7 DEF Disconnect, Calling, Idle
  <2>2. main'.pc = "build" /\ main'.op = "Disconnect" /\ main'.sock = c /\ main'.size = 0
    BY <2>1 DEF Calling
  <2> QED  BY <1>0, <2>2 DEF MainOK, Entering
<1>8. CASE LoadCount
  <2>1. Goes("count") /\ main.pc = "loadCount"
    BY <1>0, <1>8, MainGoes DEF LoadCount, MainRuns
  <2> QED  BY <1>0, <2>1 DEF MainOK, Entering, Goes
<1>9. CASE StoreCount
  <2>1. Goes("put") /\ main.pc = "count"
    BY <1>0, <1>9, MainGoes DEF StoreCount, MainRuns
  <2> QED  BY <1>0, <2>1 DEF MainOK, Entering, Goes
<1>10. CASE PutSocket
  <2>1. CASE main.op = "Connect"
    <3>1. Goes("syn") /\ main.pc = "put"
      BY <1>0, <1>10, <2>1, MainGoes DEF PutSocket, MainRuns
    <3> QED  BY <1>0, <2>1, <3>1 DEF MainOK, Entering, Goes
  <2>2. CASE main.op # "Connect"
    BY <1>2, <1>10, <2>2 DEF PutSocket
  <2> QED  BY <2>1, <2>2
<1>18. CASE EnterSynSent
  <2>1. Goes("number") /\ main.pc = "syn"
    BY <1>0, <1>18, MainGoes DEF EnterSynSent, MainRuns
  <2> QED  BY <1>0, <2>1 DEF MainOK, Entering, Goes
<1>11. CASE FirstNumber
  <2>1. /\ main'.pc = "build" /\ main'.op = main.op /\ main'.sock = main.sock
        /\ main'.flags = {"SYN"} /\ main'.size = main.size /\ main.pc = "number"
    BY <1>0, <1>11, MainGoes DEF FirstNumber, MainRuns
  <2>2. main.op = "Connect"
    BY <1>0, <2>1 DEF MainOK, Entering
  <2> QED  BY <1>0, <2>1, <2>2 DEF MainOK, Entering
<1>12. CASE SpinEnds
  <2>1. Goes("build") /\ main.pc = "spin"
    BY <1>0, <1>12, MainGoes DEF SpinEnds, MainRuns
  <2> QED  BY <1>0, <2>1 DEF MainOK, Entering, Goes
<1>13. CASE Build
  <2>1. Goes("load") /\ main.pc = "build"
    BY <1>0, <1>13, MainGoes DEF Build, MainRuns
  <2> QED  BY <1>0, <2>1 DEF MainOK, Entering, Goes
<1>14. CASE LoadNumber
  <2>1. /\ Goes(IF main.pc = "load" THEN "store" ELSE "finStore")
        /\ main.pc \in {"load", "finLoad"}
    BY <1>0, <1>14, MainGoes DEF LoadNumber, MainRuns
  <2> QED  BY <1>0, <2>1 DEF MainOK, Entering, Goes
<1>15. CASE StoreNumber
  <2>1. CASE main.pc = "store"
    <3>1. Goes("emit")
      BY <1>0, <1>15, <2>1, MainGoes
    <3> QED  BY <1>0, <2>1, <3>1 DEF MainOK, Entering, Goes
  <2>2. CASE main.pc # "store"
    BY <1>2, <1>15, <2>2 DEF StoreNumber
  <2> QED  BY <2>1, <2>2
<1>16. CASE Emit
  <2>1. CASE main.op = "Disconnect"
    <3>1. Goes("finLoad") /\ main.pc = "emit"
      BY <1>0, <1>16, <2>1, MainGoes DEF Emit, MainRuns
    <3> QED  BY <1>0, <2>1, <3>1 DEF MainOK, Entering, Goes
  <2>2. CASE main.op # "Disconnect"
    BY <1>2, <1>16, <2>2 DEF Emit
  <2> QED  BY <2>1, <2>2
<1>17. CASE \/ \E g \in Segments : SegmentArrives(g)
            \/ \E c \in Chunks : Bind(c)
  BY <1>1, <1>17 DEF SegmentArrives, Bind
<1> QED
  BY <1>4, <1>5, <1>6, <1>7, <1>8, <1>9, <1>10, <1>11, <1>12, <1>13, <1>14, <1>15,
     <1>16, <1>17, <1>18 DEF Next

LEMMA ProperWorld ==
  ASSUME TcpTypeOK, NEW c \in Chunks, NEW i, NEW v, Arrival(c, i, v)
  PROVE  /\ mem' \in [Chunks -> Socket] /\ due' \in [Chunks -> Due]
         /\ dataNext' \in [Chunks -> Int] /\ finSent' \in [Chunks -> BOOLEAN]
         /\ intact' \in BOOLEAN
  BY WorldFields DEF Arrival, Proper, Streams, Concerns

(* Connect and Listen begin with a socket of their own, in a state that no
   segment and no other call has touched. *)
Opening(c, k, op) ==
  /\ Opened(c, k)
  /\ k.state = IF op = "Connect" THEN "CLOSED" ELSE "LISTENING"
  /\ main.pc = "idle" /\ main' = Calling("loadCount", op, c, {}, 0)
  /\ freePort' \in Ports

LEMMA Opens ==
  ASSUME TcpTypeOK, Connect \/ Listen
  PROVE  \E c \in Chunks \ allocated, k \in Socket, op \in {"Connect", "Listen"} :
           Opening(c, k, op)
<1>1. freePort \in Ports /\ NextPort(freePort) \in Ports
  <2>1. PortSpace \in Nat \ {0} /\ freePort \in 0 .. PortSpace - 1
    BY PortSpaceAssumption DEF TcpTypeOK, Ports
  <2>2. (freePort + 1) % PortSpace =
          IF freePort + 1 = PortSpace THEN 0 ELSE freePort + 1
    BY <2>1, Remainder
  <2> QED  BY <2>1, <2>2 DEF NextPort, Ports
<1>2. ASSUME NEW s \in States, NEW p \in Ports, NEW r \in Remotes \cup {Nobody},
             NEW q \in Int, NEW a \in Int
      PROVE  Fresh(s, p, r, q, a) \in Socket /\ Fresh(s, p, r, q, a).state = s
  BY DEF Fresh, Socket
<1>3. \A a \in Garbage : a \in Int
  BY NumbersAssumption
<1>4. CASE Connect
  <2>1. PICK c \in Chunks \ allocated, r \in Remotes, q \in Garbage, a \in Garbage :
          /\ Opened(c, Fresh("CLOSED", freePort, r, q, a))
          /\ main' = [Idle EXCEPT !.pc = "loadCount", !.op = "Connect", !.sock = c]
    BY <1>4 DEF Connect
  <2> DEFINE k == Fresh("CLOSED", freePort, r, q, a)
  <2>3. k \in Socket /\ k.state = "CLOSED"
    BY <1>1, <1>2, <1>3 DEF States
  <2>4. main' = Calling("loadCount", "Connect", c, {}, 0)
    BY <2>1 DEF Idle, Calling
  <2>5. main.pc = "idle" /\ freePort' \in Ports
    BY <1>1, <1>4 DEF Connect, MainRuns
  <2>6. Opened(c, k)
    BY <2>1
  <2> HIDE DEF k
  <2>7. Opening(c, k, "Connect")
    BY <2>3, <2>4, <2>5, <2>6 DEF Opening
  <2> QED  BY <2>3, <2>7
<1>5. CASE Listen
  <2>1. PICK c \in Chunks \ allocated, p \in Ports, q \in Garbage, a \in Garbage :
          \E r \in {mem[c].remote, Nobody} :
            /\ Opened(c, Fresh("LISTENING", p, r, q, a))
            /\ main' = [Idle EXCEPT !.pc = "loadCount", !.op = "Listen", !.sock = c]
    BY <1>5 DEF Listen
  <2>2. PICK r \in {mem[c].remote, Nobody} :
          /\ Opened(c, Fresh("LISTENING", p, r, q, a))
          /\ main' = [Idle EXCEPT !.pc = "loadCount", !.op = "Listen", !.sock = c]
    BY <2>1
  <2> DEFINE k == Fresh("LISTENING", p, r, q, a)
  <2>4. r \in Remotes \cup {Nobody}
    <3>1. mem[c] \in Socket
      BY <2>1 DEF TcpTypeOK
    <3> QED  BY <2>2, <3>1 DEF Socket
  <2>5. k \in Socket /\ k.state = "LISTENING"
    BY <1>2, <1>3, <2>4 DEF States
  <2>6. main' = Calling("loadCount", "Listen", c, {}, 0)
    BY <2>2 DEF Idle, Calling
  <2>7. main.pc = "idle" /\ freePort' \in Ports
    BY <1>1, <1>5 DEF Listen, MainRuns
  <2>8. Opened(c, k)
    BY <2>2
  <2> HIDE DEF k
  <2>9. Opening(c, k, "Listen")
    BY <2>5, <2>6, <2>7, <2>8 DEF Opening
  <2> QED  BY <2>5, <2>9
<1> QED  BY <1>4, <1>5

LEMMA TypeSteps ==
  ASSUME TcpTypeOK, [Next]_vars
  PROVE  TcpTypeOK'
<1> HIDE DEF Next
<1>1. CASE UNCHANGED vars
  BY <1>1 DEF vars, tables, history, TcpTypeOK, MainOK, MainType, Entering
<1>2. CASE Next
  <2> DEFINE Memory == /\ mem \in [Chunks -> Socket] /\ due \in [Chunks -> Due]
                       /\ dataNext \in [Chunks -> Int] /\ finSent \in [Chunks -> BOOLEAN]
                       /\ intact \in BOOLEAN
             Table == /\ allocated \in SUBSET Chunks
                      /\ sockets \in [Index -> Chunks \cup {Null}] /\ numSockets \in Nat
                      /\ freePort \in Ports /\ held \subseteq allocated
             Room == /\ opens \in 0 .. MaxOpens /\ numSockets <= opens
                     /\ main.pc = "loadCount" => numSockets < opens
                     /\ main.pc \in {"count", "put"} => main.n < opens
  <2>0. MainOK' /\ MainOK /\ Memory /\ Table /\ Room
    BY <1>2, MainSteps DEF TcpTypeOK
  <2> SUFFICES Memory' /\ Table' /\ Room'
    BY <2>0 DEF TcpTypeOK
  <2>1. opens \in Nat /\ MaxOpens \in Nat /\ numSockets \in Nat
    BY <2>0, BoundsAssumption
  <2> HIDE DEF Memory, Table
  <2>2. ASSUME NEW c \in Chunks \ allocated, NEW k \in Socket, Opened(c, k),
               main'.pc = "loadCount", freePort' \in Ports
        PROVE  Memory' /\ Table' /\ Room'
    <3>1. /\ mem' = [mem EXCEPT ![c] = k] /\ allocated' = allocated \cup {c}
          /\ due' = [due EXCEPT ![c] = HandedUpTo(k.ack)] /\ dataNext' = [dataNext EXCEPT ![c] = 1]
          /\ finSent' = [finSent EXCEPT ![c] = FALSE]
          /\ opens < MaxOpens /\ opens' = opens + 1
          /\ UNCHANGED <<sockets, numSockets, intact, held>>
      BY <2>2 DEF Opened
    <3>2. HandedUpTo(k.ack) \in Due
      BY DEF Socket, HandedUpTo, Due
    <3>3. mem' \in [Chunks -> Socket] /\ due' \in [Chunks -> Due]
      BY <2>0, <3>1, <3>2 DEF Memory
    <3>4. dataNext' \in [Chunks -> Int]
      BY <2>0, <3>1 DEF Memory
    <3>5. finSent' \in [Chunks -> BOOLEAN]
      BY <2>0, <3>1 DEF Memory
    <3>6. Memory'
      BY <2>0, <3>1, <3>3, <3>4, <3>5 DEF Memory
    <3>7. Table'
      BY <2>0, <2>2, <3>1 DEF Table
    <3>8. Room'
      BY <2>0, <2>1, <2>2, <3>1
    <3> QED  BY <3>6, <3>7, <3>8
  <2>3. CASE Connect \/ Listen
    <3>1. PICK c \in Chunks \ allocated, k \in Socket, op \in {"Connect", "Listen"} :
            Opening(c, k, op)
      BY <2>3, Opens
    <3>2. Opened(c, k) /\ main'.pc = "loadCount" /\ freePort' \in Ports
      BY <3>1 DEF Opening, Calling
    <3> QED  BY <2>2, <3>2
  <2>4. ASSUME NEW g \in Segments, SegmentArrives(g) PROVE Memory' /\ Table' /\ Room'
    <3>1. CASE Hits(g) = {}
      <4>1. UNCHANGED <<tables, history, held, main, freePort, opens>>
        BY <2>4, <3>1 DEF SegmentArrives
      <4> QED  BY <2>0, <4>1 DEF tables, history, Memory, Table
    <3>2. CASE Hits(g) # {}
      <4>1. PICK c \in Chunks : \E i, v :
              /\ Arrival(c, i, v) /\ Handle(g)
              /\ UNCHANGED <<main, freePort, opens, sends>>
        BY <1>2, <2>4, <3>2, Arrives
      <4>2. PICK i, v : Arrival(c, i, v) /\ Handle(g)
                        /\ UNCHANGED <<main, freePort, opens, sends>>
        BY <4>1
      <4>3. Memory'
        BY <4>2, ProperWorld DEF Memory
      <4>4. held' \subseteq allocated'
        BY <4>2 DEF Handle
      <4>5. i \in 0 .. numSockets - 1 /\ numSockets - 1 \in Index
        BY <2>0, <2>1, <4>2 DEF Arrival, Index
      <4>6. /\ allocated' \in SUBSET Chunks
            /\ sockets' \in [Index -> Chunks \cup {Null}] /\ numSockets' \in Nat
            /\ numSockets' <= numSockets
        <5>1. CASE UNCHANGED <<allocated, sockets, numSockets>>
          BY <2>0, <2>1, <5>1 DEF Table
        <5>2. CASE /\ numSockets' = numSockets - 1 /\ allocated' = allocated \ {c}
                   /\ sockets' = [sockets EXCEPT ![i] = sockets[numSockets - 1]]
          <6>1. numSockets' \in Nat /\ numSockets' <= numSockets
            BY <2>1, <4>5, <5>2
          <6>2. sockets' \in [Index -> Chunks \cup {Null}]
            BY <2>0, <4>5, <5>2 DEF Table
          <6> QED  BY <2>0, <5>2, <6>1, <6>2 DEF Table
        <5> QED  BY <4>2, <5>1, <5>2 DEF Arrival
      <4>7. Table'
        BY <2>0, <4>2, <4>4, <4>6 DEF Table
      <4>8. Room'
        BY <2>0, <2>1, <4>2, <4>6
      <4> QED  BY <4>3, <4>7, <4>8
    <3> QED  BY <3>1, <3>2
  <2>5. CASE LoadCount
    <3>1. /\ main.pc = "loadCount" /\ main'.pc = "count" /\ main'.n = numSockets
          /\ UNCHANGED <<tables, history, freePort, held, opens>>
      BY <2>0, <2>5, MainGoes DEF LoadCount, MainRuns, Goes
    <3>2. Memory' /\ Table'
      BY <2>0, <3>1 DEF tables, history, Memory, Table
    <3>3. Room'
      BY <2>0, <2>1, <3>1 DEF tables
    <3> QED  BY <3>2, <3>3
  <2>6. CASE StoreCount
    <3>1. /\ main.pc = "count" /\ main'.pc = "put" /\ main'.n = main.n
          /\ numSockets' = main.n + 1
          /\ UNCHANGED <<mem, allocated, sockets, history, freePort, held, opens>>
      BY <2>0, <2>6, MainGoes DEF StoreCount, MainRuns, Goes
    <3>2. main.n \in Nat
      BY <2>0 DEF MainOK, MainType
    <3>3. Memory' /\ Table'
      BY <2>0, <3>1, <3>2 DEF history, Memory, Table
    <3>4. Room'
      BY <2>0, <2>1, <3>1, <3>2
    <3> QED  BY <3>3, <3>4
  <2>7. CASE PutSocket
    <3>1. /\ main.pc = "put" /\ main'.pc \in {"syn", "idle"}
          /\ sockets' = [sockets EXCEPT ![main.n] = main.sock]
          /\ held' \subseteq held \cup ({main.sock} \cap allocated)
          /\ UNCHANGED <<mem, allocated, numSockets, history, freePort, opens>>
      BY <2>0, <2>7, MainGoes DEF PutSocket, MainRuns, Goes, Idle
    <3>2. main.sock \in Chunks
      BY <2>0, <3>1 DEF MainOK
    <3>3. Memory' /\ Table'
      BY <2>0, <3>1, <3>2 DEF history, Memory, Table
    <3>4. Room'
      BY <2>0, <2>1, <3>1
    <3> QED  BY <3>3, <3>4
  <2>8. ASSUME NEW c \in Chunks, NEW k \in Socket, mem' = [mem EXCEPT ![c] = k],
                UNCHANGED <<allocated, sockets, numSockets, history, freePort, opens>>,
                held' \subseteq held, main'.pc \notin {"loadCount", "count", "put"}
         PROVE  Memory' /\ Table' /\ Room'
    <3>1. mem' \in [Chunks -> Socket]
      BY <2>0, <2>8 DEF Memory
    <3>2. Memory' /\ Table'
      BY <2>0, <2>8, <3>1 DEF history, Memory, Table
    <3>3. Room'
      BY <2>0, <2>1, <2>8
    <3> QED  BY <3>2, <3>3
  <2>9. ASSUME NEW c \in Chunks
         PROVE  /\ mem[c] \in Socket
                /\ \A s \in States : [mem[c] EXCEPT !.state = s] \in Socket
                /\ \A n \in Int : [mem[c] EXCEPT !.seq = n] \in Socket
                /\ [mem[c] EXCEPT !.handler = TRUE] \in Socket
    <3>1. mem[c] \in Socket
      BY <2>0 DEF Memory
    <3> QED  BY <3>1 DEF Socket
  <2>10. CASE EnterSynSent
    <3> DEFINE c == main.sock
               k == [mem[c] EXCEPT !.state = "SYN_SENT"]
    <3>1. c \in Chunks /\ main'.pc = "number"
      BY <2>0, <2>10, MainGoes DEF EnterSynSent, MainRuns, MainOK, Goes
    <3>2. k \in Socket
      BY <2>9, <3>1 DEF States
    <3>3. mem' = [mem EXCEPT ![c] = k]
      BY <2>10 DEF EnterSynSent
    <3> HIDE DEF k
    <3> QED  BY <2>8, <2>10, <3>1, <3>2, <3>3 DEF EnterSynSent
  <2>20. CASE FirstNumber
    <3> DEFINE c == main.sock
               k == [mem[c] EXCEPT !.seq = 0]
    <3>1. c \in Chunks /\ main'.pc = "build"
      BY <2>0, <2>20, MainGoes DEF FirstNumber, MainRuns, MainOK
    <3>2. k \in Socket
      <4>1. 0 \in Int
        OBVIOUS
      <4> QED  BY <2>9, <3>1, <4>1
    <3>3. mem' = [mem EXCEPT ![c] = k]
      BY <2>20 DEF FirstNumber
    <3> HIDE DEF k
    <3> QED  BY <2>8, <2>20, <3>1, <3>2, <3>3 DEF FirstNumber
  <2>11. ASSUME NEW c \in Chunks, Disconnect(c) PROVE Memory' /\ Table' /\ Room'
    <3>1. mem' = [mem EXCEPT ![c] = [mem[c] EXCEPT !.state = "FIN_WAIT1"]]
      BY <2>11 DEF Disconnect
    <3>2. main'.pc = "build" /\ held' \subseteq held
      BY <2>11 DEF Disconnect, Idle
    <3>3. UNCHANGED <<allocated, sockets, numSockets, history, freePort, opens>>
      BY <2>11 DEF Disconnect
    <3>4. [mem[c] EXCEPT !.state = "FIN_WAIT1"] \in Socket
      BY <2>9 DEF States
    <3> QED  BY <2>8, <3>1, <3>2, <3>3, <3>4
  <2>12. ASSUME NEW c \in Chunks, Bind(c) PROVE Memory' /\ Table' /\ Room'
    <3>1. mem' = [mem EXCEPT ![c] = [mem[c] EXCEPT !.handler = TRUE]]
      BY <2>12 DEF Bind
    <3>2. main'.pc = "idle" /\ held' \subseteq held
      BY <2>12 DEF Bind, MainRuns
    <3>3. UNCHANGED <<allocated, sockets, numSockets, history, freePort, opens>>
      BY <2>12 DEF Bind
    <3>4. [mem[c] EXCEPT !.handler = TRUE] \in Socket
      BY <2>9
    <3> QED  BY <2>8, <3>1, <3>2, <3>3, <3>4
  <2>13. CASE StoreNumber
    <3> DEFINE c == main.sock
               q == main.seq + (IF main.pc = "store" THEN main.size ELSE 1)
    <3>1. c \in Chunks /\ main.seq \in Int /\ main.size \in {0, 1}
      BY <2>0, <2>13 DEF StoreNumber, MainRuns, MainOK, MainType
    <3>2. q \in Int
      BY <3>1
    <3>3. mem' = [mem EXCEPT ![c] = [mem[c] EXCEPT !.seq = q]]
      BY <2>13 DEF StoreNumber
    <3>4. main'.pc \notin {"loadCount", "count", "put"}
      BY <2>0, <2>13, MainGoes DEF StoreNumber, Goes, Idle
    <3>5. UNCHANGED <<allocated, sockets, numSockets, history, freePort, held, opens>>
      BY <2>13 DEF StoreNumber
    <3>6. [mem[c] EXCEPT !.seq = q] \in Socket
      BY <2>9, <3>1, <3>2
    <3> QED  BY <2>8, <3>1, <3>3, <3>4, <3>5, <3>6
  <2>14. ASSUME UNCHANGED <<tables, history, freePort, opens>>,
                held' \subseteq allocated, main'.pc \notin {"loadCount", "count", "put"}
         PROVE  Memory' /\ Table' /\ Room'
    <3>1. Memory' /\ Table'
      BY <2>0, <2>14 DEF tables, history, Memory, Table
    <3>2. Room'
      BY <2>0, <2>1, <2>14 DEF tables
    <3> QED  BY <3>1, <3>2
  <2>15. held \subseteq allocated
    BY <2>0 DEF Table
  <2>16. ASSUME NEW c \in Chunks, Send(c) PROVE Memory' /\ Table' /\ Room'
    BY <2>14, <2>15, <2>16 DEF Send, Idle
  <2>17. CASE SpinEnds \/ LoadNumber
    BY <2>0, <2>14, <2>15, <2>17, MainGoes DEF SpinEnds, LoadNumber, Goes
  <2>18. CASE Emit
    BY <2>0, <2>14, <2>15, <2>18, MainGoes DEF Emit, Goes, Idle
  <2>19. CASE Build
    <3> DEFINE c == main.sock
               q == mem[c].seq + main.size
    <3>1. c \in Chunks /\ mem[c].seq \in Int /\ main.size \in {0, 1} /\ Goes("load")
      BY <2>0, <2>9, <2>19, MainGoes DEF Build, MainRuns, MainOK, MainType, Socket
    <3>2. /\ intact' = (intact /\ InOrder(c, mem[c].seq, main.flags, main.size, dataNext, finSent))
          /\ dataNext' = [dataNext EXCEPT ![c] = IF main.size > 0 THEN q ELSE @]
          /\ finSent' = [finSent EXCEPT ![c] = @ \/ "FIN" \in main.flags]
          /\ UNCHANGED <<tables, due, freePort, held, opens>>
      BY <2>19 DEF Build
    <3>3. q \in Int
      BY <3>1
    <3> HIDE DEF q
    <3>4. dataNext' \in [Chunks -> Int]
      BY <2>0, <3>1, <3>2, <3>3 DEF Memory
    <3>5. finSent' \in [Chunks -> BOOLEAN]
      BY <2>0, <3>2 DEF Memory
    <3>6. intact' \in BOOLEAN
      BY <3>2
    <3>7. Memory' /\ Table'
      BY <2>0, <3>2, <3>4, <3>5, <3>6 DEF tables, Memory, Table
    <3>8. Room'
      BY <2>0, <2>1, <3>1, <3>2 DEF tables, Goes
    <3> QED  BY <3>7, <3>8
  <2> QED
    BY <1>2, <2>3, <2>4, <2>5, <2>6, <2>7, <2>10, <2>11, <2>12, <2>13, <2>16,
       <2>17, <2>18, <2>19, <2>20 DEF Next
<1> QED  BY <1>1, <1>2

LEMMA TypeAtFirst == Init => TcpTypeOK
<1> SUFFICES ASSUME Init PROVE TcpTypeOK
  OBVIOUS
<1> DEFINE blank == Fresh("CLOSED", 0, Nobody, 0, 0)
<1>1. blank \in Socket
  <2>1. 0 \in Ports
    BY PortSpaceAssumption DEF Ports
  <2> QED  BY <2>1 DEF Fresh, Socket, States
<1>2. MainType(Idle)
  BY DEF MainType, Idle
<1>3. MainOK
  <2>1. main = Idle /\ Idle.pc = "idle" /\ Idle.op = "none" /\ Idle.size = 0
        /\ Idle.flags = {}
    BY DEF Init, Idle
  <2> HIDE DEF Idle, MainType
  <2> QED  BY <1>2, <2>1 DEF MainOK, Entering
<1>4. 0 \in 0 .. MaxOpens
  BY BoundsAssumption
<1>5. mem \in [Chunks -> Socket]
  BY <1>1, Zenon DEF Init
<1>6. /\ sockets \in [Index -> Chunks \cup {Null}] /\ due \in [Chunks -> Due]
      /\ dataNext \in [Chunks -> Int] /\ finSent \in [Chunks -> BOOLEAN]
  <2>1. HandedUpTo(0) \in Due
    BY DEF HandedUpTo, Due
  <2> QED  BY <2>1 DEF Init
<1>7. /\ allocated = {} /\ numSockets = 0 /\ intact = TRUE /\ held = {}
      /\ opens = 0 /\ main.pc = "idle" /\ freePort = 0 /\ 0 \in Ports
  BY PortSpaceAssumption DEF Init, Idle, Ports
<1> QED  BY <1>3, <1>4, <1>5, <1>6, <1>7 DEF TcpTypeOK

LEMMA TcpTypes == Spec => []TcpTypeOK
BY TypeAtFirst, TypeSteps, PTL DEF Spec

-----------------------------------------------------------------------------
(* What the main loop's own stores to a socket leave. *)

LEMMA Stores ==
  ASSUME TcpTypeOK
  PROVE  /\ EnterSynSent \/ FirstNumber \/ StoreNumber => main.sock \in Chunks
         /\ \A x \in Chunks :
              /\ EnterSynSent =>
                   /\ mem'[x].ack = mem[x].ack /\ mem'[x].seq = mem[x].seq
                   /\ x # main.sock => mem'[x] = mem[x]
                   /\ x = main.sock => mem'[x].state = "SYN_SENT"
              /\ FirstNumber =>
                   /\ mem'[x].ack = mem[x].ack /\ mem'[x].state = mem[x].state
                   /\ x # main.sock => mem'[x] = mem[x]
                   /\ x = main.sock => mem'[x].seq = 0
              /\ StoreNumber =>
                   /\ mem'[x].ack = mem[x].ack /\ mem'[x].state = mem[x].state
                   /\ x # main.sock => mem'[x] = mem[x]
                   /\ x = main.sock =>
                        mem'[x].seq = main.seq + (IF main.pc = "store" THEN main.size ELSE 1)
              /\ \A c \in Chunks :
                   /\ Disconnect(c) =>
                        /\ mem'[x].ack = mem[x].ack /\ mem'[x].seq = mem[x].seq
                        /\ x # c => mem'[x] = mem[x]
                        /\ x = c => mem'[x].state = "FIN_WAIT1"
                   /\ Bind(c) =>
                        /\ mem'[x].ack = mem[x].ack /\ mem'[x].seq = mem[x].seq
                        /\ mem'[x].state = mem[x].state
<1>1. mem \in [Chunks -> Socket] /\ \A x \in Chunks : mem[x] \in Socket
  BY DEF TcpTypeOK
<1>2. EnterSynSent \/ FirstNumber \/ StoreNumber => main.sock \in Chunks
  BY DEF EnterSynSent, FirstNumber, StoreNumber, MainRuns, TcpTypeOK, MainOK
<1> SUFFICES ASSUME NEW x \in Chunks
             PROVE
              /\ EnterSynSent =>
                   /\ mem'[x].ack = mem[x].ack /\ mem'[x].seq = mem[x].seq
                   /\ x # main.sock => mem'[x] = mem[x]
                   /\ x = main.sock => mem'[x].state = "SYN_SENT"
              /\ FirstNumber =>
                   /\ mem'[x].ack = mem[x].ack /\ mem'[x].state = mem[x].state
                   /\ x # main.sock => mem'[x] = mem[x]
                   /\ x = main.sock => mem'[x].seq = 0
              /\ StoreNumber =>
                   /\ mem'[x].ack = mem[x].ack /\ mem'[x].state = mem[x].state
                   /\ x # main.sock => mem'[x] = mem[x]
                   /\ x = main.sock =>
                        mem'[x].seq = main.seq + (IF main.pc = "store" THEN main.size ELSE 1)
              /\ \A c \in Chunks :
                   /\ Disconnect(c) =>
                        /\ mem'[x].ack = mem[x].ack /\ mem'[x].seq = mem[x].seq
                        /\ x # c => mem'[x] = mem[x]
                        /\ x = c => mem'[x].state = "FIN_WAIT1"
                   /\ Bind(c) =>
                        /\ mem'[x].ack = mem[x].ack /\ mem'[x].seq = mem[x].seq
                        /\ mem'[x].state = mem[x].state
  BY <1>2
<1>3. ASSUME EnterSynSent
      PROVE  /\ mem'[x].ack = mem[x].ack /\ mem'[x].seq = mem[x].seq
             /\ x # main.sock => mem'[x] = mem[x]
             /\ x = main.sock => mem'[x].state = "SYN_SENT"
  BY <1>1, <1>2, <1>3 DEF EnterSynSent, Socket
<1>7. ASSUME FirstNumber
      PROVE  /\ mem'[x].ack = mem[x].ack /\ mem'[x].state = mem[x].state
             /\ x # main.sock => mem'[x] = mem[x]
             /\ x = main.sock => mem'[x].seq = 0
  BY <1>1, <1>2, <1>7 DEF FirstNumber, Socket
<1>4. ASSUME StoreNumber
      PROVE  /\ mem'[x].ack = mem[x].ack /\ mem'[x].state = mem[x].state
             /\ x # main.sock => mem'[x] = mem[x]
             /\ x = main.sock =>
                  mem'[x].seq = main.seq + (IF main.pc = "store" THEN main.size ELSE 1)
  <2> DEFINE q == main.seq + (IF main.pc = "store" THEN main.size ELSE 1)
  <2>1. mem' = [mem EXCEPT ![main.sock].seq = q]
    BY <1>4 DEF StoreNumber
  <2> HIDE DEF q
  <2>2. /\ mem'[x].ack = mem[x].ack /\ mem'[x].state = mem[x].state
        /\ x # main.sock => mem'[x] = mem[x]
        /\ x = main.sock => mem'[x].seq = q
    BY <1>1, <1>2, <1>4, <2>1 DEF Socket
  <2> QED  BY <2>2 DEF q
<1>5. ASSUME NEW c \in Chunks, Disconnect(c)
      PROVE  /\ mem'[x].ack = mem[x].ack /\ mem'[x].seq = mem[x].seq
             /\ x # c => mem'[x] = mem[x]
             /\ x = c => mem'[x].state = "FIN_WAIT1"
  BY <1>1, <1>5 DEF Disconnect, Socket
<1>6. ASSUME NEW c \in Chunks, Bind(c)
      PROVE  /\ mem'[x].ack = mem[x].ack /\ mem'[x].seq = mem[x].seq
             /\ mem'[x].state = mem[x].state
  BY <1>1, <1>6 DEF Bind, Socket
<1> QED  BY <1>3, <1>4, <1>5, <1>6, <1>7

(* The other steps of the main loop store nothing in a socket. *)
Elsewise == LoadCount \/ StoreCount \/ PutSocket \/ SpinEnds \/ LoadNumber \/ Emit
              \/ \E c \in Chunks : Send(c)

LEMMA Steps ==
  ASSUME Next
  PROVE  \/ \E g \in Segments : SegmentArrives(g)
         \/ Connect \/ Listen \/ EnterSynSent \/ FirstNumber \/ StoreNumber \/ Build
         \/ Elsewise
         \/ \E c \in Chunks : Disconnect(c) \/ Bind(c)
  BY DEF Next, Elsewise

LEMMA ElsewiseStores ==
  ASSUME Elsewise
  PROVE  UNCHANGED <<mem, allocated, history, raced, torn, hung>>
  BY DEF Elsewise, LoadCount, StoreCount, PutSocket, SpinEnds, LoadNumber, Emit, Send,
         tables, history, Quiet

-----------------------------------------------------------------------------
(* What is acknowledged, of memory that is in use or not. *)

AckInv == \A c \in Chunks : Exact(mem[c].ack, due[c], hung)

LEMMA AckAtFirst == Init => AckInv
  BY DEF Init, AckInv, Fresh, Exact, HandedUpTo

LEMMA AckSteps ==
  ASSUME TcpTypeOK, AckInv, [Next]_vars
  PROVE  AckInv'
<1> HIDE DEF Next
<1>1. CASE UNCHANGED vars
  BY <1>1 DEF vars, tables, history, AckInv
<1>2. CASE UNCHANGED <<due, hung>> /\ \A x \in Chunks : mem'[x].ack = mem[x].ack
  BY <1>2 DEF AckInv
<1>3. CASE Connect \/ Listen
  <2>1. PICK c \in Chunks \ allocated, k \in Socket, op \in {"Connect", "Listen"} :
          Opening(c, k, op)
    BY <1>3, Opens
  <2>2. /\ mem' = [mem EXCEPT ![c] = k] /\ hung' = hung
        /\ due' = [due EXCEPT ![c] = HandedUpTo(k.ack)]
    BY <2>1 DEF Opening, Opened, Quiet
  <2>3. k.ack \in Int /\ mem \in [Chunks -> Socket] /\ due \in [Chunks -> Due]
    BY DEF Socket, TcpTypeOK
  <2>4. \A x \in Chunks \ {c} : mem'[x] = mem[x] /\ due'[x] = due[x]
    BY <2>2, <2>3
  <2>5. mem'[c] = k /\ due'[c] = HandedUpTo(k.ack)
    BY <2>2, <2>3
  <2> QED  BY <2>2, <2>3, <2>4, <2>5, FromNowOn DEF AckInv
<1>4. ASSUME NEW g \in Segments, SegmentArrives(g) PROVE AckInv'
  <2>1. CASE Hits(g) = {}
    BY <1>2, <1>4, <2>1 DEF SegmentArrives, tables, history
  <2>2. CASE Hits(g) # {}
    <3>1. PICK c \in Chunks : \E i, v : Arrival(c, i, v)
      BY <1>4, <2>2, Arrives
    <3>2. PICK i, v : Arrival(c, i, v)
      BY <3>1
    <3>3. Proper(World, v, c) /\ mem' = v.mem /\ due' = v.due /\ hung' = v.hung
      BY <3>2 DEF Arrival
    <3>4. World.mem = mem /\ World.due = due
      BY WorldNow
    <3>5. \A x \in Chunks \ {c} : v.mem[x] = mem[x] /\ v.due[x] = due[x]
      BY <3>3, <3>4 DEF Proper, Streams, Concerns, Elsewhere
    <3>8. hung = FALSE /\ World.hung = FALSE
      BY <1>4 DEF SegmentArrives, World
    <3>6. Exact(mem[c].ack, due[c], hung) => Exact(v.mem[c].ack, v.due[c], v.hung)
      BY <3>3, <3>4, <3>8 DEF Proper, ExactAt
    <3>7. \A x \in Chunks \ {c} :
            Exact(mem[x].ack, due[x], hung) => Exact(v.mem[x].ack, v.due[x], v.hung)
      BY <3>5, <3>8 DEF Exact
    <3> QED  BY <3>3, <3>6, <3>7 DEF AckInv
  <2> QED  BY <2>1, <2>2
<1>5. CASE Elsewise
  BY <1>2, <1>5, ElsewiseStores DEF history
<1>6. CASE Build
  BY <1>2, <1>6 DEF Build, tables, Quiet
<1>7. CASE EnterSynSent \/ FirstNumber \/ StoreNumber
  BY <1>2, <1>7, Stores DEF EnterSynSent, FirstNumber, StoreNumber, history, Quiet
<1>8. ASSUME NEW c \in Chunks, Disconnect(c) \/ Bind(c) PROVE AckInv'
  BY <1>2, <1>8, Stores DEF Disconnect, Bind, history, Quiet
<1> QED  BY <1>1, <1>3, <1>4, <1>5, <1>6, <1>7, <1>8, Steps

(* AcknowledgedIsHanded, for every memory and every sequence of calls and
   segments: whatever OnInternetProtocolReceived answers, the acknowledgement
   number of a socket stands where its handler has got to; behind it only after
   a payload that was empty or ended in zero bytes or while the handler waits,
   and ahead of it only after a FIN out of order or with data. *)
THEOREM AcksWhatWasHanded == Spec => []AcknowledgedIsHanded
<1>1. Spec => []AckInv
  BY TypeAtFirst, AckAtFirst, AckSteps, TcpTypes, PTL DEF Spec
<1>2. TcpTypeOK /\ AckInv => AcknowledgedIsHanded
  BY DEF TcpTypeOK, AckInv, Exact, AcknowledgedIsHanded
<1> QED  BY <1>1, <1>2, TcpTypes, PTL

-----------------------------------------------------------------------------
(* The table: its first n entries are the sockets of S, each of them once. *)

Lists(t, n, S) ==
  /\ \A i \in 0 .. n - 1 : t[i] \in S
  /\ \A c \in S : \E i \in 0 .. n - 1 : t[i] = c
  /\ \A i, j \in 0 .. n - 1 : t[i] = t[j] => i = j

(* The entry behind the last one takes a socket that is not in the table, *)
LEMMA ListsOneMore ==
  ASSUME NEW D, NEW R, NEW t \in [D -> R], NEW n \in Nat, n \in D,
         0 .. n - 1 \subseteq D, NEW S, Lists(t, n, S), NEW c, c \notin S
  PROVE  Lists([t EXCEPT ![n] = c], n + 1, S \cup {c})
<1> DEFINE u == [t EXCEPT ![n] = c]
<1>1. u[n] = c /\ \A i \in 0 .. n - 1 : u[i] = t[i] /\ i # n
  OBVIOUS
<1>2. \A i \in 0 .. (n + 1) - 1 : i = n \/ i \in 0 .. n - 1
  OBVIOUS
<1>3. n \in 0 .. (n + 1) - 1 /\ \A i \in 0 .. n - 1 : i \in 0 .. (n + 1) - 1
  OBVIOUS
<1> DEFINE before == 0 .. n - 1
           after == 0 .. (n + 1) - 1
<1>4. /\ \A i \in before : t[i] \in S
      /\ \A x \in S : \E i \in before : t[i] = x
      /\ \A i, j \in before : t[i] = t[j] => i = j
  BY DEF Lists
<1> HIDE DEF u, before, after
<1>5. /\ \A i \in before : u[i] = t[i] /\ i # n /\ i \in after
      /\ \A i \in after : i = n \/ i \in before
      /\ u[n] = c /\ n \in after
  BY <1>1, <1>2, <1>3 DEF before, after
<1>6. \A i \in after : u[i] \in S \cup {c}
  BY <1>4, <1>5
<1>7. \A x \in S \cup {c} : \E i \in after : u[i] = x
  BY <1>4, <1>5
<1>8. \A i, j \in after : u[i] = u[j] => i = j
  BY <1>4, <1>5
<1> QED  BY <1>6, <1>7, <1>8 DEF Lists, u, after

(* and a socket that leaves the table leaves its entry to the last one. *)
LEMMA ListsOneLess ==
  ASSUME NEW D, NEW R, NEW t \in [D -> R], NEW n \in Nat, 0 .. n - 1 \subseteq D,
         NEW S, Lists(t, n, S), NEW i \in 0 .. n - 1
  PROVE  Lists([t EXCEPT ![i] = t[n - 1]], n - 1, S \ {t[i]})
<1> DEFINE u == [t EXCEPT ![i] = t[n - 1]]
           last == n - 1
           before == 0 .. n - 1
           after == 0 .. (n - 1) - 1
<1>1. /\ last \in before /\ last \notin after /\ i \in before
      /\ \A j \in before : j = last \/ j \in after
      /\ \A j \in after : j \in before
  OBVIOUS
<1>2. u[i] = t[last] /\ \A j \in before : j # i => u[j] = t[j]
  OBVIOUS
<1>3. /\ \A j \in before : t[j] \in S
      /\ \A x \in S : \E j \in before : t[j] = x
      /\ \A j, k \in before : t[j] = t[k] => j = k
  BY DEF Lists
<1> HIDE DEF u, before, after, last
<1>4. \A j \in after : u[j] \in S \ {t[i]}
  BY <1>1, <1>2, <1>3
<1>5. ASSUME NEW x \in S \ {t[i]} PROVE \E j \in after : u[j] = x
  <2>1. PICK j \in before : t[j] = x
    BY <1>3
  <2>2. CASE j = last
    <3>1. i \in after
      BY <1>1, <1>5, <2>1, <2>2
    <3> QED  BY <1>2, <2>1, <2>2, <3>1
  <2>3. CASE j # last
    BY <1>1, <1>2, <1>5, <2>1, <2>3
  <2> QED  BY <2>2, <2>3
<1>6. \A j, k \in after : u[j] = u[k] => j = k
  BY <1>1, <1>2, <1>3
<1> QED  BY <1>4, <1>5, <1>6 DEF Lists, u, after, last

LEMMA ListsCounted ==
  ASSUME NEW t, NEW n \in Nat, NEW S, Lists(t, n, S)
  PROVE  {t[i] : i \in 0 .. n - 1} = S /\ Cardinality(S) = n
<1>1. {t[i] : i \in 0 .. n - 1} = S
  BY DEF Lists
<1> DEFINE f == [i \in 0 .. n - 1 |-> t[i]]
<1>2. f \in Bijection(0 .. n - 1, S)
  <2> DEFINE I == 0 .. n - 1
  <2>1. /\ \A i \in I : t[i] \in S
        /\ \A c \in S : \E i \in I : t[i] = c
        /\ \A i, j \in I : t[i] = t[j] => i = j
    BY DEF Lists
  <2> HIDE DEF I
  <2>2. [i \in I |-> t[i]] \in Bijection(I, S)
    BY <2>1 DEF Bijection, Injection, Surjection, IsInjective
  <2> QED  BY <2>2 DEF I
<1>3. IsFiniteSet(0 .. n - 1) /\ Cardinality(0 .. n - 1) = n
  BY FS_Interval
<1>4. ExistsBijection(0 .. n - 1, S)
  BY <1>2 DEF ExistsBijection
<1>5. Cardinality(S) = Cardinality(0 .. n - 1)
  BY <1>3, <1>4, FS_Bijection
<1> QED  BY <1>1, <1>3, <1>5

Entries == IF main.pc = "put" THEN main.n ELSE numSockets
Listed == allocated \ (IF Entering THEN {main.sock} ELSE {})

(* Connect and Listen know where the table ends, the table lists the allocated
   sockets but for the one on its way in, and a closed one is only on its way
   from Connect or left by a handler that does not return. *)
TableInv ==
  ~ torn =>
    /\ Entering => main.sock \in allocated
    /\ main.pc = "count" => main.n = numSockets
    /\ main.pc = "put" => numSockets = main.n + 1
    /\ Lists(sockets, Entries, Listed)
    /\ \A c \in allocated : mem[c].state = "CLOSED" =>
         \/ hung
         \/ main.op = "Connect" /\ main.sock = c /\ (Entering \/ main.pc = "syn")

LEMMA TableAtFirst == Init => TableInv
<1>1. Init => /\ allocated = {} /\ numSockets = 0 /\ main.pc = "idle"
  BY DEF Init, Idle
<1>2. Lists(sockets, 0, {})
  BY DEF Lists
<1> QED  BY <1>1, <1>2 DEF TableInv, Entering, Entries, Listed

(* A segment, when no removal has come at the wrong moment *)
LEMMA TableWhenArrives ==
  ASSUME TcpTypeOK, TableInv, NEW g \in Segments, SegmentArrives(g)
  PROVE  TableInv'
<1> SUFFICES ASSUME ~ torn' PROVE TableInv'
  BY DEF TableInv
<1>1. CASE Hits(g) = {}
  BY <1>1 DEF SegmentArrives, tables, history, TableInv, Entering, Entries, Listed
<1>2. CASE Hits(g) # {}
  <2>1. PICK c \in Chunks : \E i, v : Arrival(c, i, v) /\ Handle(g) /\ UNCHANGED main
    BY <1>2, Arrives
  <2>2. PICK i, v : Arrival(c, i, v) /\ Handle(g) /\ UNCHANGED main
    BY <2>1
  <2>3. ~ torn /\ (numSockets' # numSockets => main.pc \notin {"count", "put"})
    BY <2>2 DEF Handle
  <2>4. /\ Entering => main.sock \in allocated
        /\ main.pc = "count" => main.n = numSockets
        /\ main.pc = "put" => numSockets = main.n + 1
        /\ Lists(sockets, Entries, Listed)
        /\ \A x \in allocated : mem[x].state = "CLOSED" =>
             \/ hung
             \/ main.op = "Connect" /\ main.sock = x /\ (Entering \/ main.pc = "syn")
    BY <2>3 DEF TableInv
  <2>5. ~ hung
    BY DEF SegmentArrives
  <2>6. \A x \in Chunks \ {c} : mem'[x].state = mem[x].state
    BY <2>2, WorldNow DEF Arrival, Proper, Streams, Concerns, Elsewhere
  <2>7. /\ numSockets \in Nat /\ 0 .. numSockets - 1 \subseteq Index
        /\ sockets \in [Index -> Chunks \cup {Null}] /\ allocated \subseteq Chunks
    BY BoundsAssumption DEF TcpTypeOK, Index
  <2>8. i \in 0 .. numSockets - 1 /\ sockets[i] = c
    BY <2>2 DEF Arrival
  <2> DEFINE Stays == /\ UNCHANGED <<allocated, sockets, numSockets>>
                      /\ v.mem[c].state = "CLOSED" => v.hung
             Leaves == /\ numSockets' = numSockets - 1 /\ allocated' = allocated \ {c}
                      /\ sockets' = [sockets EXCEPT ![i] = sockets[numSockets - 1]]
  <2>9. (Stays \/ Leaves) /\ mem' = v.mem /\ hung' = v.hung
    BY <2>2 DEF Arrival
  <2>10. CASE Stays
    <3>1. Lists(sockets', Entries', Listed') /\ (Entering' <=> Entering)
      BY <2>2, <2>4, <2>10 DEF Entries, Listed, Entering
    <3>2. \A x \in allocated' : mem'[x].state = "CLOSED" =>
             \/ hung'
             \/ main'.op = "Connect" /\ main'.sock = x /\ (Entering' \/ main'.pc = "syn")
      BY <2>2, <2>4, <2>5, <2>6, <2>7, <2>9, <2>10, <3>1
    <3> QED  BY <2>2, <2>4, <2>10, <3>1, <3>2 DEF TableInv
  <2>11. CASE Leaves
    <3>1. main.pc \notin {"count", "put"} /\ numSockets' \in Nat
      BY <2>3, <2>7, <2>8, <2>11
    <3>2. Entries = numSockets /\ Entries' = numSockets - 1
      BY <2>2, <2>11, <3>1 DEF Entries
    <3>3. Lists([sockets EXCEPT ![i] = sockets[numSockets - 1]], numSockets - 1,
                Listed \ {sockets[i]})
      BY <2>4, <2>7, <2>8, <3>2, ListsOneLess
    <3>4. c \in Listed
      BY <2>4, <2>8, <3>2 DEF Lists
    <3>5. Listed' = Listed \ {c} /\ (Entering' <=> Entering)
      BY <2>2, <2>11 DEF Listed, Entering
    <3>6. Lists(sockets', Entries', Listed')
      BY <2>8, <2>11, <3>2, <3>3, <3>5
    <3>7. Entering => main.sock \in allocated'
      BY <2>4, <2>11, <3>4 DEF Listed
    <3>8. \A x \in allocated' : mem'[x].state = "CLOSED" =>
             main'.op = "Connect" /\ main'.sock = x /\ (Entering' \/ main'.pc = "syn")
      BY <2>2, <2>4, <2>5, <2>6, <2>7, <2>11, <3>5
    <3> QED  BY <2>2, <3>1, <3>5, <3>6, <3>7, <3>8 DEF TableInv
  <2> QED  BY <2>9, <2>10, <2>11
<1> QED  BY <1>1, <1>2

LEMMA TableSteps ==
  ASSUME TcpTypeOK, TableInv, [Next]_vars
  PROVE  TableInv'
<1> HIDE DEF Next
<1>0. /\ numSockets \in Nat /\ 0 .. numSockets - 1 \subseteq Index /\ MainOK
      /\ sockets \in [Index -> Chunks \cup {Null}] /\ allocated \subseteq Chunks
      /\ held \subseteq allocated
  BY BoundsAssumption DEF TcpTypeOK, Index
<1>1. CASE UNCHANGED vars
  BY <1>1 DEF vars, tables, history, TableInv, Entering, Entries, Listed
<1>2. ASSUME NEW g \in Segments, SegmentArrives(g) PROVE TableInv'
  BY <1>2, TableWhenArrives
<1>3. CASE torn
  <2>1. CASE \E g \in Segments : SegmentArrives(g)
    BY <1>2, <2>1
  <2>2. CASE Connect \/ Listen
    BY <1>3, <2>2 DEF Connect, Listen, Opened, TableInv
  <2>3. CASE Elsewise
    BY <1>3, <2>3, ElsewiseStores DEF TableInv
  <2>4. CASE \/ EnterSynSent \/ FirstNumber \/ StoreNumber \/ Build
             \/ \E c \in Chunks : Disconnect(c) \/ Bind(c)
    BY <1>3, <2>4 DEF EnterSynSent, FirstNumber, StoreNumber, Build, Disconnect, Bind, TableInv
  <2> QED  BY <1>1, <2>1, <2>2, <2>3, <2>4, Steps
<1>4. ASSUME ~ torn, ~ \E g \in Segments : SegmentArrives(g), Next PROVE TableInv'
  <2>1. /\ Entering => main.sock \in allocated
        /\ main.pc = "count" => main.n = numSockets
        /\ main.pc = "put" => numSockets = main.n + 1
        /\ Lists(sockets, Entries, Listed)
        /\ \A x \in allocated : mem[x].state = "CLOSED" =>
             \/ hung
             \/ main.op = "Connect" /\ main.sock = x /\ (Entering \/ main.pc = "syn")
    BY <1>4 DEF TableInv
  \* where the table is as it was
  <2>2. ASSUME UNCHANGED <<allocated, sockets, numSockets, hung>>,
               ~ Entering, ~ Entering', main.pc # "syn", main'.pc # "syn",
               \A x \in Chunks : mem'[x].state = "CLOSED" => mem[x].state = "CLOSED"
        PROVE  TableInv'
    <3>1. Entries' = Entries /\ Listed' = Listed /\ main'.pc # "put" /\ main'.pc # "count"
      BY <2>2 DEF Entering, Entries, Listed
    <3> QED  BY <1>0, <2>1, <2>2, <3>1 DEF TableInv
  <2>3. CASE Connect \/ Listen
    <3>1. PICK c \in Chunks \ allocated, k \in Socket, op \in {"Connect", "Listen"} :
            Opening(c, k, op)
      BY <2>3, Opens
    <3>2. /\ mem' = [mem EXCEPT ![c] = k] /\ allocated' = allocated \cup {c}
          /\ UNCHANGED <<sockets, numSockets, hung>> /\ main.pc = "idle"
          /\ k.state = IF op = "Connect" THEN "CLOSED" ELSE "LISTENING"
          /\ main'.pc = "loadCount" /\ main'.op = op /\ main'.sock = c
      BY <3>1 DEF Opening, Opened, Quiet, Calling
    <3>3. Entries' = Entries /\ Listed = allocated /\ Listed' = allocated /\ Entering'
      BY <3>2 DEF Entries, Listed, Entering
    <3>4. ASSUME NEW x \in allocated', mem'[x].state = "CLOSED"
          PROVE  hung' \/ (main'.op = "Connect" /\ main'.sock = x)
      <4>1. CASE x = c
        <5>1. mem'[x] = k
          BY <3>2, <4>1 DEF TcpTypeOK
        <5> QED  BY <3>2, <3>4, <4>1, <5>1
      <4>2. CASE x # c
        <5>1. x \in allocated /\ mem'[x] = mem[x]
          BY <1>0, <3>2, <4>2 DEF TcpTypeOK
        <5> QED  BY <2>1, <3>2, <3>4, <5>1 DEF Entering
      <4> QED  BY <4>1, <4>2
    <3>5. Lists(sockets', Entries', Listed')
      BY <2>1, <3>2, <3>3
    <3> QED  BY <3>2, <3>3, <3>4, <3>5 DEF TableInv
  <2>4. CASE LoadCount
    <3>1. /\ main.pc = "loadCount" /\ main'.pc = "count" /\ main'.n = numSockets
          /\ main'.op = main.op /\ main'.sock = main.sock
          /\ UNCHANGED <<mem, allocated, sockets, numSockets, hung>>
      BY <1>0, <2>4, MainGoes DEF LoadCount, MainRuns, Goes, Quiet, tables
    <3>2. Entries' = Entries /\ Listed' = Listed /\ Entering /\ Entering'
      BY <3>1 DEF Entries, Listed, Entering
    <3> QED  BY <2>1, <3>1, <3>2 DEF TableInv
  <2>5. CASE StoreCount
    <3>1. /\ main.pc = "count" /\ main'.pc = "put" /\ main'.n = main.n
          /\ main'.op = main.op /\ main'.sock = main.sock /\ numSockets' = main.n + 1
          /\ UNCHANGED <<mem, allocated, sockets, hung>>
      BY <1>0, <2>5, MainGoes DEF StoreCount, MainRuns, Goes, Quiet
    <3>2. Entries' = Entries /\ Listed' = Listed /\ Entering /\ Entering'
      BY <2>1, <3>1 DEF Entries, Listed, Entering
    <3> QED  BY <2>1, <3>1, <3>2 DEF TableInv
  <2>6. CASE PutSocket
    <3>1. /\ main.pc = "put" /\ sockets' = [sockets EXCEPT ![main.n] = main.sock]
          /\ UNCHANGED <<mem, allocated, numSockets, hung>>
          /\ \/ main.op = "Connect" /\ main'.op = "Connect" /\ main'.pc = "syn"
                /\ main'.sock = main.sock
             \/ main.op # "Connect" /\ main'.pc = "idle"
      BY <1>0, <2>6, MainGoes DEF PutSocket, MainRuns, Goes, Quiet, Idle
    <3>2. main.n \in Nat /\ main.n \in Index /\ 0 .. main.n - 1 \subseteq Index
      BY <3>1, BoundsAssumption DEF TcpTypeOK, MainOK, MainType, Index
    <3>3. /\ Lists(sockets, main.n, allocated \ {main.sock}) /\ main.sock \in allocated
          /\ numSockets = main.n + 1 /\ main.sock \notin allocated \ {main.sock}
          /\ (allocated \ {main.sock}) \cup {main.sock} = allocated
      BY <2>1, <3>1 DEF Entries, Listed, Entering
    <3>4. Lists([sockets EXCEPT ![main.n] = main.sock], main.n + 1,
                (allocated \ {main.sock}) \cup {main.sock})
      BY <1>0, <3>2, <3>3, ListsOneMore
    <3>5. Lists(sockets', numSockets', allocated')
      BY <3>1, <3>3, <3>4
    <3>6. ~ Entering' /\ Entries' = numSockets' /\ Listed' = allocated'
          /\ main'.pc # "put" /\ main'.pc # "count"
      BY <3>1 DEF Entering, Entries, Listed
    <3>7. \A x \in allocated' : mem'[x].state = "CLOSED" =>
             hung' \/ (main'.op = "Connect" /\ main'.sock = x /\ main'.pc = "syn")
      BY <2>1, <3>1
    <3> QED  BY <3>5, <3>6, <3>7 DEF TableInv
  <2>7. CASE EnterSynSent
    <3>1. /\ main.pc = "syn" /\ main'.pc = "number"
          /\ UNCHANGED <<allocated, sockets, numSockets, hung>>
      BY <1>0, <2>7, MainGoes DEF EnterSynSent, MainRuns, Quiet, Goes
    <3>2. ~ Entering /\ ~ Entering' /\ Entries' = Entries /\ Listed' = Listed
      BY <3>1 DEF Entering, Entries, Listed
    <3>3. ASSUME NEW x \in allocated', mem'[x].state = "CLOSED" PROVE hung'
      <4>1. x \in allocated /\ x # main.sock /\ mem[x].state = "CLOSED"
        BY <1>0, <2>7, <3>1, <3>3, Stores
      <4> QED  BY <2>1, <3>1, <4>1
    <3> QED  BY <2>1, <3>1, <3>2, <3>3 DEF TableInv
  <2>12. CASE FirstNumber
    <3>1. main.pc = "number" /\ main'.pc = "build"
      BY <1>0, <2>12, MainGoes DEF FirstNumber, MainRuns
    <3> QED  BY <2>2, <2>12, <3>1, Stores DEF FirstNumber, Entering, Quiet
  <2>8. CASE SpinEnds \/ LoadNumber \/ Emit
    <3>1. /\ main.pc \notin {"loadCount", "count", "put", "syn"}
          /\ main'.pc \notin {"loadCount", "count", "put", "syn"}
      BY <1>0, <2>8, MainGoes DEF SpinEnds, LoadNumber, Emit, MainRuns, Goes, Idle
    <3> QED
      BY <2>2, <2>8, <3>1 DEF SpinEnds, LoadNumber, Emit, Entering, Quiet, tables
  <2>9. CASE Build
    <3>1. main.pc = "build" /\ main'.pc = "load"
      BY <1>0, <2>9, MainGoes DEF Build, MainRuns, Goes
    <3> QED  BY <2>2, <2>9, <3>1 DEF Build, Entering, Quiet, tables
  <2>10. CASE StoreNumber
    <3>1. main.pc \in {"store", "finStore"} /\ main'.pc \in {"emit", "idle"}
      BY <1>0, <2>10, MainGoes DEF StoreNumber, MainRuns, Goes, Idle
    <3> QED  BY <2>2, <2>10, <3>1, Stores DEF StoreNumber, Entering, Quiet
  <2>11. ASSUME NEW c \in Chunks, Send(c) \/ Disconnect(c) \/ Bind(c) PROVE TableInv'
    <3>1. main.pc = "idle" /\ main'.pc \in {"spin", "build", "idle"}
      BY <2>11 DEF Send, Disconnect, Bind, MainRuns, Idle
    <3>2. UNCHANGED <<allocated, sockets, numSockets, hung>>
      BY <2>11 DEF Send, Disconnect, Bind, Quiet, tables
    <3>3. \A x \in Chunks : mem'[x].state = "CLOSED" => mem[x].state = "CLOSED"
      <4>1. CASE Send(c)
        BY <4>1 DEF Send, tables
      <4>2. CASE Disconnect(c) \/ Bind(c)
        BY <4>2, Stores
      <4> QED  BY <2>11, <4>1, <4>2
    <3> QED  BY <2>2, <3>1, <3>2, <3>3 DEF Entering
  <2> QED
    BY <1>4, <2>3, <2>4, <2>5, <2>6, <2>7, <2>8, <2>9, <2>10, <2>11,
       <2>12 DEF Next
<1> QED  BY <1>1, <1>2, <1>3, <1>4

(* TableSound, for any number of sockets, calls and segments: whenever a
   segment closes a socket and takes it out of the table, except between the
   load of numSockets and the store of the entry in Connect or Listen. *)
THEOREM TableStays == Spec => []TableSound
<1>1. Spec => []TableInv
  BY TableAtFirst, TableSteps, TcpTypes, PTL DEF Spec
<1>2. ASSUME TcpTypeOK, TableInv PROVE TableSound
  <2> SUFFICES ASSUME ~ torn PROVE TableSound
    BY DEF TableSound
  <2>1. /\ Lists(sockets, Entries, Listed)
        /\ \A c \in allocated : mem[c].state = "CLOSED" =>
             \/ hung
             \/ main.op = "Connect" /\ main.sock = c /\ (Entering \/ main.pc = "syn")
    BY <1>2 DEF TableInv
  <2>2. Entries \in Nat
    BY <1>2 DEF TcpTypeOK, MainOK, MainType, Entries
  <2>3. /\ {sockets[i] : i \in 0 .. Entries - 1} = Listed
        /\ Cardinality(Listed) = Entries
    BY <2>1, <2>2, ListsCounted
  <2>4. \A c \in Listed : mem[c].state = "CLOSED" =>
          hung \/ (main.pc = "syn" /\ main.sock = c)
    BY <2>1 DEF Listed
  <2> QED  BY <2>3, <2>4 DEF TableSound, Entries, Listed, Entering
<1> QED  BY <1>1, <1>2, TcpTypes, PTL

-----------------------------------------------------------------------------
(* The stream: the number of every socket fits the data it has sent, except
   while Send of the main loop has built a segment and not yet counted it. *)

StreamNow(c) == StreamOf(mem[c].state, mem[c].seq, dataNext[c], finSent[c])
Behind == main.op = "Send" /\ main.pc \in {"load", "store"}
Connecting == main.op = "Connect" /\ (Entering \/ main.pc = "syn")
Numbering == main.pc = "number"
Unsettled == Behind \/ Numbering

StreamInv ==
  ~ raced =>
    /\ intact
    /\ \A c \in Chunks : ~ (Unsettled /\ main.sock = c) => StreamNow(c)
    \* Send numbers its byte in ESTABLISHED, and counts it there
    /\ main.op = "Send" /\ main.pc = "build" => mem[main.sock].state = "ESTABLISHED"
    /\ Behind => /\ mem[main.sock].state = "ESTABLISHED"
                 /\ dataNext[main.sock] = mem[main.sock].seq + 1
                 /\ ~ finSent[main.sock]
    /\ main.pc \in {"store", "finStore"} => main.seq = mem[main.sock].seq
    \* Disconnect sends its FIN when there is nothing more to send
    /\ main.op = "Disconnect" => mem[main.sock].state \in Finishing
    \* Connect begins with a stream of no bytes
    /\ Connecting => /\ mem[main.sock].state = "CLOSED"
                     /\ dataNext[main.sock] = 1 /\ ~ finSent[main.sock]
    /\ Numbering => /\ mem[main.sock].state = "SYN_SENT"
                    /\ dataNext[main.sock] = 1 /\ ~ finSent[main.sock]

LEMMA StreamAtFirst == Init => StreamInv
<1> SUFFICES ASSUME Init PROVE StreamInv
  OBVIOUS
<1>1. main.pc = "idle" /\ main.op = "none" /\ intact
  BY DEF Init, Idle
<1>2. ASSUME NEW c \in Chunks PROVE StreamNow(c)
  <2>1. mem[c].state = "CLOSED" /\ mem[c].seq = 0 /\ dataNext[c] = 1
    BY DEF Init, Fresh
  <2> QED  BY <2>1 DEF StreamNow, StreamOf
<1> QED  BY <1>1, <1>2 DEF StreamInv, Behind, Connecting, Entering, Numbering

(* A segment that does not change the socket under the hands of Send *)
LEMMA StreamWhenArrives ==
  ASSUME TcpTypeOK, StreamInv, NEW g \in Segments, SegmentArrives(g)
  PROVE  StreamInv'
<1> SUFFICES ASSUME ~ raced' PROVE StreamInv'
  BY DEF StreamInv
<1>1. CASE Hits(g) = {}
  BY <1>1 DEF SegmentArrives, tables, history, StreamInv, Behind, Connecting, Entering,
              StreamNow, Numbering, Unsettled
<1>2. CASE Hits(g) # {}
  <2>1. PICK c \in Chunks : \E i, v :
          Arrival(c, i, v) /\ Handle(g) /\ c = Lookup(g) /\ UNCHANGED main
    BY <1>2, Arrives
  <2>2. PICK i, v : Arrival(c, i, v) /\ Handle(g) /\ c = Lookup(g) /\ UNCHANGED main
    BY <2>1
  <2>3. /\ ~ raced
        /\ main.sock = c /\ main.pc \in {"number", "build", "load", "store"} =>
             mem'[c].state = mem[c].state /\ mem'[c].seq = mem[c].seq
    BY <2>2 DEF Handle
  <2>4. /\ intact
        /\ \A x \in Chunks : ~ (Unsettled /\ main.sock = x) => StreamNow(x)
        /\ main.op = "Send" /\ main.pc = "build" => mem[main.sock].state = "ESTABLISHED"
        /\ Behind => /\ mem[main.sock].state = "ESTABLISHED"
                     /\ dataNext[main.sock] = mem[main.sock].seq + 1
                     /\ ~ finSent[main.sock]
        /\ main.pc \in {"store", "finStore"} => main.seq = mem[main.sock].seq
        /\ main.op = "Disconnect" => mem[main.sock].state \in Finishing
        /\ Connecting => /\ mem[main.sock].state = "CLOSED"
                         /\ dataNext[main.sock] = 1 /\ ~ finSent[main.sock]
        /\ Numbering => /\ mem[main.sock].state = "SYN_SENT"
                        /\ dataNext[main.sock] = 1 /\ ~ finSent[main.sock]
    BY <2>3 DEF StreamInv
  <2>5. /\ World.mem = mem /\ World.dataNext = dataNext /\ World.finSent = finSent
        /\ World.intact = intact /\ mem' = v.mem /\ dataNext' = v.dataNext
        /\ finSent' = v.finSent /\ intact' = v.intact
    BY <2>2, WorldNow DEF Arrival
  <2>6. \A x \in Chunks \ {c} : /\ mem'[x] = mem[x] /\ dataNext'[x] = dataNext[x]
                                /\ finSent'[x] = finSent[x]
    BY <2>2, <2>5 DEF Arrival, Proper, Streams, Concerns, Elsewhere
  <2>7. /\ StreamNow(c) => intact' /\ StreamNow(c)'
        /\ mem[c].state \in Finishing =>
             mem'[c].state \in Finishing /\ mem'[c].seq = mem[c].seq
        /\ mem[c].state = "CLOSED" =>
             mem'[c].state = "CLOSED" /\ dataNext' = dataNext /\ finSent' = finSent
        /\ mem[c].state \in {"ESTABLISHED", "SYN_SENT"}
             /\ mem'[c].state = mem[c].state /\ mem'[c].seq = mem[c].seq =>
             dataNext' = dataNext /\ finSent' = finSent /\ intact' = intact
    BY <2>2, <2>4, <2>5 DEF Arrival, Proper, Streams, StreamAt, StreamNow
  <2>8. /\ main' = main /\ (Behind' <=> Behind) /\ (Connecting' <=> Connecting)
        /\ (Numbering' <=> Numbering) /\ (Unsettled' <=> Unsettled)
    BY <2>2 DEF Behind, Connecting, Entering, Numbering, Unsettled
  <2>9. main.pc # "idle" => main.sock \in Chunks
    BY DEF TcpTypeOK, MainOK
  <2>10. Unsettled /\ main.sock = c => /\ mem'[c].state = mem[c].state
                                       /\ mem'[c].seq = mem[c].seq
                                       /\ dataNext' = dataNext /\ finSent' = finSent
                                       /\ intact' = intact
    BY <2>3, <2>4, <2>7 DEF Unsettled, Behind, Numbering
  <2>11. intact'
    BY <2>4, <2>7, <2>10
  <2>12. \A x \in Chunks : ~ (Unsettled' /\ main'.sock = x) => StreamNow(x)'
    <3> SUFFICES ASSUME NEW x \in Chunks, ~ (Unsettled /\ main.sock = x)
                 PROVE StreamNow(x)'
      BY <2>8
    <3>1. StreamNow(x)
      BY <2>4
    <3>2. CASE x = c
      BY <2>7, <3>1, <3>2
    <3>3. CASE x # c
      BY <2>6, <3>1, <3>3 DEF StreamNow
    <3> QED  BY <3>2, <3>3
  <2>13. main.op = "Send" /\ main.pc = "build" => mem'[main.sock].state = "ESTABLISHED"
    BY <2>3, <2>4, <2>6, <2>9
  <2>14. /\ Behind => /\ mem'[main.sock].state = "ESTABLISHED"
                      /\ dataNext'[main.sock] = mem'[main.sock].seq + 1
                      /\ ~ finSent'[main.sock]
         /\ Numbering => /\ mem'[main.sock].state = "SYN_SENT"
                         /\ dataNext'[main.sock] = 1 /\ ~ finSent'[main.sock]
    <3> SUFFICES ASSUME Unsettled
                 PROVE  /\ mem'[main.sock].state = mem[main.sock].state
                        /\ mem'[main.sock].seq = mem[main.sock].seq
                        /\ dataNext'[main.sock] = dataNext[main.sock]
                        /\ finSent'[main.sock] = finSent[main.sock]
      BY <2>4 DEF Unsettled
    <3>1. CASE main.sock = c
      BY <2>10, <3>1
    <3>2. CASE main.sock # c
      BY <2>6, <2>9, <3>2 DEF Unsettled, Behind, Numbering
    <3> QED  BY <3>1, <3>2
  <2>15. main.op = "Disconnect" => mem'[main.sock].state \in Finishing
    <3>1. main.op = "Disconnect" => main.pc # "idle"
      BY DEF TcpTypeOK, MainOK
    <3> QED  BY <2>4, <2>6, <2>7, <2>9, <3>1
  <2>16. main.pc \in {"store", "finStore"} => main.seq = mem'[main.sock].seq
    <3>1. main.pc = "finStore" => main.op = "Disconnect"
      BY DEF TcpTypeOK, MainOK
    <3>2. main.pc \in {"store", "finStore"} /\ main.sock = c => mem'[c].seq = mem[c].seq
      BY <2>3, <2>4, <2>7, <3>1
    <3> QED  BY <2>4, <2>6, <2>9, <3>2
  <2>17. Connecting => /\ mem'[main.sock].state = "CLOSED"
                       /\ dataNext'[main.sock] = 1 /\ ~ finSent'[main.sock]
    <3> SUFFICES ASSUME Connecting
                 PROVE  /\ mem'[main.sock].state = "CLOSED"
                        /\ dataNext'[main.sock] = dataNext[main.sock]
                        /\ finSent'[main.sock] = finSent[main.sock]
      BY <2>4
    <3>1. CASE main.sock = c
      BY <2>4, <2>7, <3>1
    <3>2. CASE main.sock # c
      BY <2>4, <2>6, <2>9, <3>2 DEF Connecting, Entering
    <3> QED  BY <3>1, <3>2
  <2> QED
    BY <2>8, <2>11, <2>12, <2>13, <2>14, <2>15, <2>16, <2>17 DEF StreamInv
<1> QED  BY <1>1, <1>2

(* A step of the main loop *)
LEMMA StreamWhenMainRuns ==
  ASSUME TcpTypeOK, StreamInv, Next, ~ \E g \in Segments : SegmentArrives(g), ~ raced
  PROVE  StreamInv'
<1> HIDE DEF Next
<1>1. /\ MainOK /\ MainType(main) /\ mem \in [Chunks -> Socket]
      /\ dataNext \in [Chunks -> Int] /\ finSent \in [Chunks -> BOOLEAN]
      /\ intact \in BOOLEAN /\ \A x \in Chunks : mem[x].seq \in Int
  BY DEF TcpTypeOK, MainOK, Socket
<1>2. /\ intact
      /\ \A x \in Chunks : ~ (Unsettled /\ main.sock = x) => StreamNow(x)
      /\ main.op = "Send" /\ main.pc = "build" => mem[main.sock].state = "ESTABLISHED"
      /\ Behind => /\ mem[main.sock].state = "ESTABLISHED"
                   /\ dataNext[main.sock] = mem[main.sock].seq + 1
                   /\ ~ finSent[main.sock]
      /\ main.pc \in {"store", "finStore"} => main.seq = mem[main.sock].seq
      /\ main.op = "Disconnect" => mem[main.sock].state \in Finishing
      /\ Connecting => /\ mem[main.sock].state = "CLOSED"
                       /\ dataNext[main.sock] = 1 /\ ~ finSent[main.sock]
      /\ Numbering => /\ mem[main.sock].state = "SYN_SENT"
                      /\ dataNext[main.sock] = 1 /\ ~ finSent[main.sock]
  BY DEF StreamInv
<1>3. ASSUME UNCHANGED <<mem, history, raced>>,
             Behind' <=> Behind, Behind => main'.sock = main.sock,
             main'.op = "Send" /\ main'.pc = "build" => mem[main'.sock].state = "ESTABLISHED",
             main'.pc \in {"store", "finStore"} => main'.seq = mem[main'.sock].seq,
             main'.op = "Disconnect" => main.op = "Disconnect" /\ main'.sock = main.sock,
             Connecting' => Connecting /\ main'.sock = main.sock,
             ~ Numbering, ~ Numbering'
      PROVE  StreamInv'
  <2>1. UNCHANGED <<mem, dataNext, finSent, intact>>
    BY <1>3 DEF history
  <2>2. \A x \in Chunks : ~ (Unsettled' /\ main'.sock = x) => StreamNow(x)'
    BY <1>2, <1>3, <2>1 DEF StreamNow, Unsettled
  <2> QED  BY <1>2, <1>3, <2>1, <2>2 DEF StreamInv
<1>4. CASE Connect \/ Listen
  <2>1. PICK c \in Chunks \ allocated, k \in Socket, op \in {"Connect", "Listen"} :
          Opening(c, k, op)
    BY <1>4, Opens
  <2>2. /\ mem' = [mem EXCEPT ![c] = k] /\ dataNext' = [dataNext EXCEPT ![c] = 1]
        /\ finSent' = [finSent EXCEPT ![c] = FALSE] /\ intact' = intact
        /\ main.pc = "idle"
        /\ k.state = IF op = "Connect" THEN "CLOSED" ELSE "LISTENING"
    BY <2>1 DEF Opening, Opened
  <2>3. main'.pc = "loadCount" /\ main'.op = op /\ main'.sock = c
    BY <2>1 DEF Opening, Calling
  <2>4. /\ mem'[c] = k /\ dataNext'[c] = 1 /\ ~ finSent'[c]
        /\ \A x \in Chunks : x # c => /\ mem'[x] = mem[x] /\ dataNext'[x] = dataNext[x]
                                      /\ finSent'[x] = finSent[x]
    BY <1>1, <2>2
  <2>5. StreamNow(c)'
    BY <2>2, <2>4 DEF StreamNow, StreamOf
  <2>6. \A x \in Chunks : x # c => StreamNow(x)'
    BY <1>2, <2>2, <2>4 DEF StreamNow, Behind, Numbering, Unsettled
  <2>7. Connecting' => mem'[c].state = "CLOSED"
    BY <2>2, <2>3, <2>4 DEF Connecting
  <2> QED
    BY <1>2, <2>2, <2>3, <2>4, <2>5, <2>6, <2>7 DEF StreamInv, Behind, Numbering, Unsettled
<1>5. CASE LoadCount \/ StoreCount
  <2>1. UNCHANGED <<mem, history, raced>>
    BY <1>5 DEF LoadCount, StoreCount, tables
  <2>2. /\ Entering /\ main'.pc \in {"count", "put"} /\ main'.op = main.op
        /\ main'.sock = main.sock
    BY <1>1, <1>5, MainGoes DEF LoadCount, StoreCount, MainRuns, Goes, Entering
  <2>3. main.op \in {"Connect", "Listen"}
    BY <1>1, <2>2 DEF MainOK
  <2> QED  BY <1>3, <2>1, <2>2, <2>3 DEF Behind, Connecting, Entering, Numbering, Unsettled
<1>6. CASE PutSocket
  <2>1. UNCHANGED <<mem, history, raced>> /\ main.pc = "put"
    BY <1>6 DEF PutSocket, MainRuns
  <2>2. CASE main.op = "Connect"
    <3>1. main'.pc = "syn" /\ main'.op = main.op /\ main'.sock = main.sock
      BY <1>1, <1>6, <2>2, MainGoes DEF Goes
    <3> QED  BY <1>3, <2>1, <2>2, <3>1 DEF Behind, Connecting, Entering, Numbering, Unsettled
  <2>3. CASE main.op # "Connect"
    <3>1. main'.pc = "idle" /\ main'.op = "none"
      BY <1>6, <2>3 DEF PutSocket, Idle
    <3> QED  BY <1>3, <2>1, <3>1 DEF Behind, Connecting, Entering, Numbering, Unsettled
  <2> QED  BY <2>2, <2>3
<1>7. CASE SpinEnds
  <2>1. UNCHANGED <<mem, history, raced>> /\ main.pc = "spin"
        /\ mem[main.sock].state = "ESTABLISHED"
    BY <1>7 DEF SpinEnds, MainRuns, MaySend, tables
  <2>2. main'.pc = "build" /\ main'.op = main.op /\ main'.sock = main.sock
    BY <1>1, <1>7, MainGoes DEF Goes
  <2> QED  BY <1>3, <2>1, <2>2 DEF Behind, Connecting, Entering, Numbering, Unsettled
<1>8. CASE LoadNumber
  <2>1. UNCHANGED <<mem, history, raced>> /\ main.pc \in {"load", "finLoad"}
    BY <1>8 DEF LoadNumber, MainRuns, tables
  <2>2. /\ main'.pc = (IF main.pc = "load" THEN "store" ELSE "finStore")
        /\ main'.op = main.op /\ main'.sock = main.sock /\ main'.seq = mem[main.sock].seq
    BY <1>1, <1>8, MainGoes DEF Goes
  <2>3. main.pc = "finLoad" => main.op = "Disconnect"
    BY <1>1 DEF MainOK
  <2>4. main'.pc \in {"store", "finStore"}
    BY <2>2
  <2> QED  BY <1>3, <2>1, <2>2, <2>3, <2>4 DEF Behind, Connecting, Entering, Numbering, Unsettled
<1>9. CASE Emit
  <2>1. UNCHANGED <<mem, history, raced>> /\ main.pc = "emit"
    BY <1>9 DEF Emit, MainRuns, tables
  <2>2. CASE main.op = "Disconnect"
    <3>1. main'.pc = "finLoad" /\ main'.op = main.op /\ main'.sock = main.sock
      BY <1>1, <1>9, <2>2, MainGoes DEF Goes
    <3> QED  BY <1>3, <2>1, <2>2, <3>1 DEF Behind, Connecting, Entering, Numbering, Unsettled
  <2>3. CASE main.op # "Disconnect"
    <3>1. main'.pc = "idle" /\ main'.op = "none"
      BY <1>9, <2>3 DEF Emit, Idle
    <3> QED  BY <1>3, <2>1, <3>1 DEF Behind, Connecting, Entering, Numbering, Unsettled
  <2> QED  BY <2>2, <2>3
<1>10. ASSUME NEW c \in Chunks, Send(c) PROVE StreamInv'
  <2>1. UNCHANGED <<mem, history, raced>> /\ main.pc = "idle"
    BY <1>10 DEF Send, MainRuns, tables
  <2>2. main'.pc = "spin" /\ main'.op = "Send"
    BY <1>10 DEF Send, Idle
  <2> QED  BY <1>3, <2>1, <2>2 DEF Behind, Connecting, Entering, Numbering, Unsettled
<1>11. CASE EnterSynSent
  <2> PICK c : c = main.sock
    OBVIOUS
  <2>1. /\ UNCHANGED <<history, raced>> /\ main.pc = "syn" /\ c \in Chunks
        /\ main'.pc = "number" /\ main'.op = main.op /\ main'.sock = c
    BY <1>1, <1>11, MainGoes, Stores DEF EnterSynSent, MainRuns, Goes
  <2>2. main.op = "Connect"
    BY <1>1, <2>1 DEF MainOK, Entering
  <2>3. dataNext[c] = 1 /\ ~ finSent[c]
    BY <1>2, <2>1, <2>2 DEF Connecting
  <2>4. mem'[c].state = "SYN_SENT"
    BY <1>11, <2>1, Stores
  <2>5. UNCHANGED <<dataNext, finSent, intact>>
    BY <2>1 DEF history
  <2>6. \A x \in Chunks : x # c => StreamNow(x)'
    BY <1>2, <1>11, <2>1, <2>5, Stores DEF StreamNow, Behind, Numbering, Unsettled
  <2> QED
    BY <1>2, <2>1, <2>2, <2>3, <2>4, <2>5, <2>6
       DEF StreamInv, Behind, Connecting, Entering, Numbering, Unsettled
<1>17. CASE FirstNumber
  <2> PICK c : c = main.sock
    OBVIOUS
  <2>1. /\ UNCHANGED <<history, raced>> /\ main.pc = "number" /\ c \in Chunks
        /\ main'.pc = "build" /\ main'.op = main.op /\ main'.sock = c
    BY <1>1, <1>17, MainGoes, Stores DEF FirstNumber, MainRuns
  <2>2. main.op = "Connect"
    BY <1>1, <2>1 DEF MainOK, Entering
  <2>3. mem[c].state = "SYN_SENT" /\ dataNext[c] = 1 /\ ~ finSent[c]
    BY <1>2, <2>1 DEF Numbering
  <2>4. mem'[c].state = "SYN_SENT" /\ mem'[c].seq = 0
    BY <1>17, <2>1, <2>3, Stores
  <2>5. UNCHANGED <<dataNext, finSent, intact>>
    BY <2>1 DEF history
  <2>6. StreamNow(c)'
    <3>1. StreamOf("SYN_SENT", 0, dataNext'[c], finSent'[c])
      BY <2>3, <2>5 DEF StreamOf
    <3> QED  BY <2>4, <3>1 DEF StreamNow
  <2>7. \A x \in Chunks : x # c => StreamNow(x)'
    BY <1>2, <1>17, <2>1, <2>5, Stores DEF StreamNow, Behind, Numbering, Unsettled
  <2> QED
    BY <1>2, <2>1, <2>2, <2>5, <2>6, <2>7
       DEF StreamInv, Behind, Connecting, Entering, Numbering, Unsettled
<1>12. ASSUME NEW c \in Chunks, Disconnect(c) PROVE StreamInv'
  <2>1. UNCHANGED <<history, raced>> /\ main.pc = "idle"
    BY <1>12 DEF Disconnect, MainRuns
  <2>2. main'.pc = "build" /\ main'.op = "Disconnect" /\ main'.sock = c
    BY <1>12 DEF Disconnect, Idle
  <2>3. /\ mem'[c].state = "FIN_WAIT1" /\ mem'[c].seq = mem[c].seq
        /\ \A x \in Chunks : x # c => mem'[x] = mem[x]
    BY <1>12, Stores
  <2>4. UNCHANGED <<dataNext, finSent, intact>>
    BY <2>1 DEF history
  <2>5. StreamNow(c)'
    BY <1>2, <2>1, <2>3, <2>4 DEF StreamNow, StreamOf, Behind, Numbering, Unsettled
  <2>6. \A x \in Chunks : x # c => StreamNow(x)'
    BY <1>2, <2>1, <2>3, <2>4 DEF StreamNow, Behind, Numbering, Unsettled
  <2> QED
    BY <1>2, <2>1, <2>2, <2>3, <2>4, <2>5, <2>6
       DEF StreamInv, Behind, Connecting, Entering, Finishing, Numbering, Unsettled
<1>13. ASSUME NEW c \in Chunks, Bind(c) PROVE StreamInv'
  <2>1. UNCHANGED <<history, raced, main>> /\ main.pc = "idle"
    BY <1>13 DEF Bind, MainRuns
  <2>2. \A x \in Chunks : mem'[x].state = mem[x].state /\ mem'[x].seq = mem[x].seq
    BY <1>13, Stores
  <2>3. UNCHANGED <<dataNext, finSent, intact>>
    BY <2>1 DEF history
  <2>4. main.op = "none"
    BY <1>1, <2>1 DEF MainOK
  <2>5. \A x \in Chunks : StreamNow(x)'
    BY <1>2, <2>1, <2>2, <2>3 DEF StreamNow, Behind, Numbering, Unsettled
  <2> QED
    BY <1>2, <2>1, <2>3, <2>4, <2>5
       DEF StreamInv, Behind, Connecting, Entering, Numbering, Unsettled
<1>14. CASE Build
  <2> PICK c : c = main.sock
    OBVIOUS
  <2> PICK seq : seq = mem[c].seq
    OBVIOUS
  <2>1. /\ UNCHANGED <<tables, due, raced>> /\ main.pc = "build" /\ c \in Chunks
        /\ main'.pc = "load" /\ main'.op = main.op /\ main'.sock = c
    BY <1>1, <1>14, MainGoes DEF Build, MainRuns, MainOK, Goes
  <2>2. StreamNow(c) /\ seq \in Int /\ dataNext[c] \in Int /\ mem' = mem
    BY <1>1, <1>2, <2>1 DEF Behind, tables, Numbering, Unsettled
  <2>3. /\ intact' = (intact /\ InOrder(c, seq, main.flags, main.size, dataNext, finSent))
        /\ dataNext' = [dataNext EXCEPT ![c] = IF main.size > 0 THEN seq + main.size ELSE @]
        /\ finSent' = [finSent EXCEPT ![c] = @ \/ "FIN" \in main.flags]
    BY <1>14 DEF Build
  <2>4. /\ dataNext'[c] = IF main.size > 0 THEN seq + main.size ELSE dataNext[c]
        /\ \A x \in Chunks : x # c => dataNext'[x] = dataNext[x]
    BY <1>1, <2>1, <2>3
  <2>5. /\ finSent'[c] <=> finSent[c] \/ "FIN" \in main.flags
        /\ \A x \in Chunks : x # c => finSent'[x] = finSent[x]
    BY <1>1, <2>1, <2>3
  <2>6. \A x \in Chunks : x # c => StreamNow(x)'
    BY <1>2, <2>2, <2>4, <2>5 DEF StreamNow
  <2>7. CASE main.op = "Send"
    <3>1. main.size = 1 /\ "FIN" \notin main.flags
      BY <1>1, <2>7 DEF MainOK
    <3>2. mem[c].state = "ESTABLISHED"
      BY <1>2, <2>1, <2>7
    <3>3. seq = dataNext[c] /\ ~ finSent[c]
      BY <2>2, <3>2 DEF StreamNow, StreamOf
    <3>4. intact'
      BY <1>2, <2>3, <3>1, <3>3 DEF InOrder
    <3>5. dataNext'[c] = seq + 1 /\ ~ finSent'[c]
      BY <2>4, <2>5, <3>1, <3>3
    <3> QED
      BY <1>2, <2>1, <2>2, <2>6, <2>7, <3>2, <3>4, <3>5
         DEF StreamInv, Behind, Connecting, Entering, Numbering, Unsettled
  <2>8. CASE main.op # "Send"
    <3>1. main.size = 0 /\ (main.op # "Disconnect" => "FIN" \notin main.flags)
      BY <1>1, <2>8 DEF MainOK
    <3>2. seq >= dataNext[c] \/ dataNext[c] = 1
      BY <2>2 DEF StreamNow, StreamOf
    <3>3. intact'
      <4>1. InOrder(c, seq, main.flags, main.size, dataNext, finSent)
        BY <3>1, <3>2 DEF InOrder
      <4> HIDE DEF InOrder
      <4> QED  BY <1>2, <2>3, <4>1
    <3>4. dataNext'[c] = dataNext[c]
      BY <2>4, <3>1
    <3>5. CASE main.op = "Disconnect"
      <4>1. mem[c].state \in Finishing
        BY <1>2, <3>5
      <4>2. StreamNow(c)'
        BY <2>2, <3>2, <3>4, <4>1 DEF StreamNow, StreamOf, Finishing
      <4> QED
        BY <2>1, <2>2, <2>6, <3>3, <3>5, <4>1, <4>2
           DEF StreamInv, Behind, Connecting, Entering, Numbering, Unsettled
    <3>6. CASE main.op # "Disconnect"
      <4>1. finSent'[c] = finSent[c]
        BY <1>1, <2>1, <2>3, <3>1, <3>6
      <4>2. StreamNow(c)'
        BY <2>2, <3>4, <4>1 DEF StreamNow
      <4> QED
        BY <2>1, <2>6, <2>8, <3>3, <3>6, <4>2
           DEF StreamInv, Behind, Connecting, Entering, Numbering, Unsettled
    <3> QED  BY <3>5, <3>6
  <2> QED  BY <2>7, <2>8
<1>15. CASE StoreNumber
  <2> PICK c : c = main.sock
    OBVIOUS
  <2>1. /\ UNCHANGED <<history, raced>> /\ main.pc \in {"store", "finStore"} /\ c \in Chunks
        /\ main.seq = mem[c].seq
    BY <1>2, <1>15, Stores DEF StoreNumber, MainRuns
  <2>2. /\ mem'[c].state = mem[c].state
        /\ mem'[c].seq = main.seq + (IF main.pc = "store" THEN main.size ELSE 1)
        /\ \A x \in Chunks : x # c => mem'[x] = mem[x]
    BY <1>15, <2>1, Stores
  <2>3. UNCHANGED <<dataNext, finSent, intact>>
    BY <2>1 DEF history
  <2>4. \A x \in Chunks : x # c => StreamNow(x)'
    BY <1>2, <2>2, <2>3 DEF StreamNow
  <2>5. dataNext[c] \in Int /\ mem[c].seq \in Int
    BY <1>1, <2>1
  <2>6. CASE main.pc = "store"
    <3>1. main'.pc = "emit" /\ main'.op = main.op /\ main'.sock = c
      BY <1>1, <1>15, <2>6, MainGoes DEF Goes
    <3>2. CASE main.op = "Send"
      <4>1. /\ mem[c].state = "ESTABLISHED" /\ dataNext[c] = mem[c].seq + 1 /\ ~ finSent[c]
            /\ main.size = 1
        BY <1>1, <1>2, <2>6, <3>2 DEF Behind, MainOK, Numbering, Unsettled
      <4>2. mem'[c].seq = dataNext[c] /\ mem'[c].state = "ESTABLISHED"
        BY <2>1, <2>2, <2>6, <4>1
      <4>3. StreamNow(c)'
        BY <2>3, <2>5, <4>1, <4>2 DEF StreamNow, StreamOf
      <4> QED
        BY <1>2, <2>1, <2>3, <2>4, <3>1, <3>2, <4>3
           DEF StreamInv, Behind, Connecting, Entering, Numbering, Unsettled
    <3>3. CASE main.op # "Send"
      <4>1. main.size = 0 /\ StreamNow(c)
        BY <1>1, <1>2, <2>1, <3>3 DEF Behind, MainOK, Numbering, Unsettled
      <4>2. mem'[c].seq = mem[c].seq
        BY <2>1, <2>2, <2>5, <2>6, <4>1
      <4>3. StreamNow(c)'
        BY <2>2, <2>3, <4>1, <4>2 DEF StreamNow
      <4> QED
        BY <1>2, <2>1, <2>2, <2>3, <2>4, <3>1, <3>3, <4>3
           DEF StreamInv, Behind, Connecting, Entering, Numbering, Unsettled
    <3> QED  BY <3>2, <3>3
  <2>7. CASE main.pc = "finStore"
    <3>1. main'.pc = "idle" /\ main'.op = "none"
      BY <1>15, <2>7 DEF StoreNumber, Idle
    <3>2. main.op = "Disconnect"
      BY <1>1, <2>7 DEF MainOK
    <3>3. mem[c].state \in Finishing /\ StreamNow(c)
      BY <1>2, <2>1, <3>2 DEF Behind, Numbering, Unsettled
    <3>4. mem[c].seq >= dataNext[c] \/ dataNext[c] = 1
      BY <3>3 DEF StreamNow, StreamOf
    <3>5. mem'[c].seq = mem[c].seq + 1 /\ mem'[c].state = mem[c].state
      BY <2>1, <2>2, <2>7
    <3>6. mem'[c].seq >= dataNext'[c] \/ dataNext'[c] = 1
      BY <2>3, <2>5, <3>4, <3>5
    <3>7. StreamNow(c)'
      BY <3>3, <3>5, <3>6 DEF StreamNow, StreamOf, Finishing
    <3> QED
      BY <1>2, <2>3, <2>4, <3>1, <3>7
         DEF StreamInv, Behind, Connecting, Entering, Numbering, Unsettled
  <2> QED  BY <2>1, <2>6, <2>7
<1>16. ~ \E g \in Segments : SegmentArrives(g)
  OBVIOUS
<1> QED
  BY <1>4, <1>5, <1>6, <1>7, <1>8, <1>9, <1>10, <1>11, <1>12, <1>13, <1>14, <1>15,
     <1>16, <1>17 DEF Next

LEMMA StreamSteps ==
  ASSUME TcpTypeOK, StreamInv, [Next]_vars
  PROVE  StreamInv'
<1> HIDE DEF Next
<1>1. CASE UNCHANGED vars
  BY <1>1 DEF vars, tables, history, StreamInv, StreamNow, Behind, Connecting, Entering,
              Numbering, Unsettled
<1>2. CASE \E g \in Segments : SegmentArrives(g)
  BY <1>2, StreamWhenArrives
<1>3. CASE Next /\ ~ \E g \in Segments : SegmentArrives(g)
  <2>1. UNCHANGED raced
    <3>1. CASE Connect \/ Listen
      BY <3>1 DEF Connect, Listen, Opened
    <3>2. CASE Elsewise
      BY <3>2, ElsewiseStores
    <3>3. CASE \/ EnterSynSent \/ FirstNumber \/ StoreNumber \/ Build
               \/ \E c \in Chunks : Disconnect(c) \/ Bind(c)
      BY <3>3 DEF EnterSynSent, FirstNumber, StoreNumber, Build, Disconnect, Bind
    <3> QED  BY <1>3, <3>1, <3>2, <3>3, Steps
  <2>2. CASE raced
    BY <2>1, <2>2 DEF StreamInv
  <2> QED  BY <1>3, <2>1, <2>2, StreamWhenMainRuns
<1> QED  BY <1>1, <1>2, <1>3

(* StreamIntact, for any number of sockets, calls and segments: Send of the
   main loop, Send and Disconnect of the handler that answers a request, and
   the FINs of both sides number one stream of bytes, as long as no segment
   has changed a socket between the segment that Send builds and the addition
   to its number, or between the two stores with which Connect makes it one
   that waits for an answer and numbers it. *)
THEOREM StreamKept == Spec => []StreamIntact
<1>1. Spec => []StreamInv
  BY StreamAtFirst, StreamSteps, TypeAtFirst, TcpTypes, PTL DEF Spec
<1>2. StreamInv => StreamIntact
  BY DEF StreamInv, StreamIntact
<1> QED  BY <1>1, <1>2, PTL

=============================================================================
