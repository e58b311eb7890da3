----------------------------- MODULE Heap_proofs -----------------------------
(***************************************************************************)
(* Proofs about the kernel heap, for every arena, header size and set of   *)
(* request lengths.  The argument is one inductive invariant, HeapInv:     *)
(* the list is well formed, no free chunk has a free neighbour, and the    *)
(* blocks clients hold are exactly the allocated chunks.  Splitting and    *)
(* merging are dealt with once each, on an arbitrary well-formed list.     *)
(***************************************************************************)
EXTENDS Heap, NumberFacts, TLAPS

(* Well-formedness of a list h of chunks: TypeOK, Tiled and ListLinked. *)
Typed(h) ==
  /\ DOMAIN h \subseteq Addr
  /\ h \in [DOMAIN h -> MemoryChunk]
  /\ DOMAIN h # {} => Start \in DOMAIN h

TiledIn(h) ==
  \A c \in DOMAIN h :
    /\ h[c].next = Null => ChunkEnd(h, c) = End
    /\ h[c].next # Null => h[c].next = ChunkEnd(h, c)
    /\ \A d \in DOMAIN h : c < d => ChunkEnd(h, c) <= d

LinkedIn(h) ==
  \A c \in DOMAIN h :
    /\ h[c].next # Null => /\ h[c].next \in DOMAIN h
                           /\ h[h[c].next].prev = c
    /\ h[c].prev # Null => /\ h[c].prev \in DOMAIN h
                           /\ h[h[c].prev].next = c
    /\ h[c].prev = Null <=> c = Start

WellFormed(h) == Typed(h) /\ TiledIn(h) /\ LinkedIn(h)

(* No free chunk other than e is followed by a free chunk. *)
CoalescedExcept(h, e) ==
  \A c \in DOMAIN h \ {e} :
    h[c].next # Null => h[c].allocated \/ h[h[c].next].allocated

(* Every block a client holds is an allocated chunk large enough, no two are
   in the same chunk. *)
HeldIn(h, B) ==
  \A b \in B :
    /\ b.ptr - HeaderSize \in DOMAIN h
    /\ h[b.ptr - HeaderSize].allocated
    /\ b.len <= h[b.ptr - HeaderSize].size
    /\ \A a \in B : a.ptr = b.ptr => a = b

(* Every allocated chunk is held by some client. *)
NoOrphanIn(h, B) ==
  \A c \in DOMAIN h : h[c].allocated => \E b \in B : b.ptr = c + HeaderSize

HeapInv ==
  /\ active \in BOOLEAN
  /\ first \in {Start, Null}
  /\ DOMAIN heap # {} <=> first = Start
  /\ (active /\ HeapSize >= HeaderSize) => DOMAIN heap # {}
  /\ blocks \subseteq [ptr : Nat, len : Requests]
  /\ WellFormed(heap)
  /\ CoalescedExcept(heap, Null)
  /\ HeldIn(heap, blocks)
  /\ active => NoOrphanIn(heap, blocks)

-----------------------------------------------------------------------------

USE StartAssumption, HeapSizeAssumption, HeaderSizeAssumption, RequestsAssumption

(* Addresses are positive integers, and the null pointer is not one. *)
LEMMA AddrFacts ==
  /\ Addr \subseteq Nat
  /\ Null \notin Addr
  /\ End \in Nat
  /\ \A a \in Addr : Start <= a /\ a <= End
BY DEF Addr, Null, End

(* A chunk ends inside the arena. *)
LEMMA ChunkEndInArena ==
  ASSUME NEW h, WellFormed(h), NEW c \in DOMAIN h
  PROVE  /\ ChunkEnd(h, c) \in Nat
         /\ c < ChunkEnd(h, c)
         /\ ChunkEnd(h, c) <= End
         /\ h[c].size \in Nat
         /\ h[c] \in MemoryChunk
<1>1. c \in Addr /\ h[c] \in MemoryChunk
  BY DEF WellFormed, Typed
<1>2. h[c].size \in Nat
  BY <1>1 DEF MemoryChunk
<1>3. h[c].next # Null => h[c].next \in Addr
  BY <1>1 DEF MemoryChunk
<1>4. ChunkEnd(h, c) = End \/ ChunkEnd(h, c) \in Addr
  BY <1>3 DEF WellFormed, TiledIn
<1> QED
  BY <1>1, <1>2, <1>4, AddrFacts DEF ChunkEnd

(* s is list h after chunk c gave up all but n bytes to a new free chunk. *)
SplitOff(h, c, n, s) ==
  LET temp == c + HeaderSize + n
  IN  /\ WellFormed(s)
      /\ DOMAIN s = DOMAIN h \cup {temp}
      /\ temp \notin DOMAIN h
      /\ s[temp].allocated = FALSE /\ s[temp].next = h[c].next
      /\ s[c].size = n /\ s[c].allocated = h[c].allocated
      /\ s[c].next = temp
      /\ \A a \in DOMAIN h \ {c} : /\ s[a].size = h[a].size
                                   /\ s[a].allocated = h[a].allocated
                                   /\ s[a].next = h[a].next

(* Splitting a chunk large enough keeps the list well formed, adds exactly
   the remainder, and leaves every other chunk its size and its flag. *)
LEMMA SplitWellFormed ==
  ASSUME NEW h, WellFormed(h), NEW c, c \in DOMAIN h, NEW n \in Nat,
         Splittable(h, c, n)
  PROVE  SplitOff(h, c, n, Split(h, c, n))
<1> DEFINE s == Split(h, c, n)
           temp == c + HeaderSize + n
           nx == h[c].next
<1>1. /\ c \in Addr /\ h[c] \in MemoryChunk /\ h[c].size \in Nat /\ c \in Nat
      /\ ChunkEnd(h, c) = c + HeaderSize + h[c].size
      /\ ChunkEnd(h, c) <= End
  BY ChunkEndInArena, AddrFacts DEF WellFormed, Typed, ChunkEnd
<1>2. /\ temp \in Addr /\ c < temp /\ temp < ChunkEnd(h, c)
      /\ h[c].size - n - HeaderSize \in Nat
  BY <1>1, AddrFacts DEF Splittable, Addr
<1>3. temp \notin DOMAIN h
  <2>1. ChunkEnd(h, c) \in Nat /\ temp \in Nat
    BY <1>2, ChunkEndInArena, AddrFacts
  <2>2. \A d \in DOMAIN h : c < d => ChunkEnd(h, c) <= d
    BY DEF WellFormed, TiledIn
  <2> QED
    BY <1>2, <2>1, <2>2
<1>4. nx # Null => nx \in DOMAIN h /\ nx # c /\ h[nx].prev = c /\ nx = ChunkEnd(h, c)
  BY <1>1, <1>2 DEF WellFormed, LinkedIn, TiledIn
<1>5. /\ DOMAIN s = DOMAIN h \cup {temp}
      /\ s[temp] = [next |-> nx, prev |-> c, allocated |-> FALSE,
                    size |-> h[c].size - n - HeaderSize]
      /\ s[c] = [h[c] EXCEPT !.size = n, !.next = temp]
      /\ \A a \in DOMAIN h \ {c} :
           s[a] = IF a = nx THEN [h[a] EXCEPT !.prev = temp] ELSE h[a]
      /\ s = [a \in DOMAIN s |-> s[a]]
  BY <1>2, <1>3 DEF Split
<1> HIDE DEF s, nx
<1>6. /\ s[temp].next = nx /\ s[temp].prev = c /\ s[temp].allocated = FALSE
      /\ s[temp].size = h[c].size - n - HeaderSize
      /\ s[c].next = temp /\ s[c].prev = h[c].prev
      /\ s[c].allocated = h[c].allocated /\ s[c].size = n
      /\ \A a \in DOMAIN h \ {c} :
           /\ s[a].size = h[a].size /\ s[a].allocated = h[a].allocated
           /\ s[a].next = h[a].next
           /\ s[a].prev = IF a = nx THEN temp ELSE h[a].prev
  BY <1>1, <1>5 DEF WellFormed, Typed, MemoryChunk
<1>7. Typed(s)
  <2>1. s[temp] \in MemoryChunk
    BY <1>1, <1>2, <1>5, AddrFacts DEF MemoryChunk, nx
  <2>2. s[c] \in MemoryChunk
    BY <1>1, <1>2, <1>5 DEF MemoryChunk
  <2>3. \A a \in DOMAIN h \ {c} : s[a] \in MemoryChunk
    BY <1>2, <1>5 DEF MemoryChunk, WellFormed, Typed
  <2> QED
    BY <1>2, <1>5, <2>1, <2>2, <2>3 DEF WellFormed, Typed
<1>8. /\ ChunkEnd(s, temp) = ChunkEnd(h, c)
      /\ ChunkEnd(s, c) = temp
      /\ \A a \in DOMAIN h \ {c} : ChunkEnd(s, a) = ChunkEnd(h, a)
  BY <1>1, <1>6 DEF ChunkEnd
<1>9. TiledIn(s)
  <2> SUFFICES ASSUME NEW a \in DOMAIN s
               PROVE  /\ s[a].next = Null => ChunkEnd(s, a) = End
                      /\ s[a].next # Null => s[a].next = ChunkEnd(s, a)
                      /\ \A d \in DOMAIN s : a < d => ChunkEnd(s, a) <= d
    BY DEF TiledIn
  <2>0. /\ \A x \in DOMAIN h : x \in Nat /\ ChunkEnd(h, x) \in Nat
        /\ \A x \in DOMAIN h : \A d \in DOMAIN h : x < d => ChunkEnd(h, x) <= d
        /\ \A x \in DOMAIN h : h[x].next = Null => ChunkEnd(h, x) = End
        /\ \A x \in DOMAIN h : h[x].next # Null => h[x].next = ChunkEnd(h, x)
    BY ChunkEndInArena, AddrFacts DEF WellFormed, TiledIn, Typed
  <2>1. CASE a = temp
    BY <2>0, <2>1, <1>2, <1>5, <1>6, <1>8 DEF nx
  <2>2. CASE a = c
    BY <2>0, <2>2, <1>1, <1>2, <1>5, <1>6, <1>8, AddrFacts
  <2>3. CASE a \in DOMAIN h \ {c}
    BY <2>0, <2>3, <1>1, <1>2, <1>5, <1>6, <1>8
  <2> QED
    BY <1>5, <2>1, <2>2, <2>3
<1>10. LinkedIn(s)
  <2>1. \A a \in DOMAIN h : h[a].next = nx /\ nx # Null => a = c
    BY <1>4 DEF WellFormed, LinkedIn, nx
  <2>2. temp # Null /\ temp # Start /\ c # Null /\ Null \notin DOMAIN h
    BY <1>1, <1>2, AddrFacts DEF Addr, WellFormed, Typed
  <2>3. \A a \in DOMAIN h :
          /\ h[a].next # Null => h[a].next \in DOMAIN h /\ h[h[a].next].prev = a
          /\ h[a].prev # Null => h[a].prev \in DOMAIN h /\ h[h[a].prev].next = a
          /\ h[a].prev = Null <=> a = Start
    BY DEF WellFormed, LinkedIn
  <2> SUFFICES ASSUME NEW a \in DOMAIN s
               PROVE  /\ s[a].next # Null => /\ s[a].next \in DOMAIN s
                                             /\ s[s[a].next].prev = a
                      /\ s[a].prev # Null => /\ s[a].prev \in DOMAIN s
                                             /\ s[s[a].prev].next = a
                      /\ s[a].prev = Null <=> a = Start
    BY DEF LinkedIn
  <2>4. CASE a = temp
    BY <2>2, <2>4, <1>3, <1>4, <1>5, <1>6
  <2>5. CASE a = c
    <3>1. h[c].prev # Null => h[c].prev # c
      BY <2>3, <1>4 DEF nx
    <3> QED
      BY <2>2, <2>3, <2>5, <3>1, <1>5, <1>6
  <2>6. CASE a \in DOMAIN h \ {c}
    <3>1. s[a].next # Null => s[a].next \in DOMAIN s /\ s[s[a].next].prev = a
      <4> SUFFICES ASSUME s[a].next # Null
                   PROVE  s[a].next \in DOMAIN s /\ s[s[a].next].prev = a
        OBVIOUS
      <4>1. s[a].next = h[a].next /\ h[a].next \in DOMAIN h
            /\ h[h[a].next].prev = a
        BY <2>3, <2>6, <1>6
      <4>2. h[a].next # nx
        BY <2>1, <2>6, <4>1
      <4>3. s[h[a].next].prev = h[h[a].next].prev
        <5>1. CASE h[a].next = c
          BY <5>1, <1>6
        <5>2. CASE h[a].next # c
          BY <5>2, <4>1, <4>2, <1>6
        <5> QED
          BY <5>1, <5>2
      <4> QED
        BY <4>1, <4>3, <1>5
    <3>2. CASE a = nx
      BY <2>2, <2>3, <2>6, <3>1, <3>2, <1>3, <1>4, <1>5, <1>6
    <3>3. CASE a # nx
      <4>1. h[a].prev # c
        BY <2>2, <2>3, <2>6, <3>3 DEF nx
      <4> QED
        BY <2>3, <2>6, <3>1, <3>3, <4>1, <1>3, <1>5, <1>6
    <3> QED
      BY <3>2, <3>3
  <2> QED
    BY <1>5, <2>4, <2>5, <2>6
<1> QED
  BY <1>3, <1>5, <1>6, <1>7, <1>9, <1>10 DEF WellFormed, SplitOff, s, nx

(* s is list h after chunk c has taken in d, the chunk behind it: that header
   is gone, every other chunk keeps its size, its flag and its successor. *)
Merged(h, c, d, s) ==
  /\ WellFormed(s)
  /\ d \in DOMAIN h /\ c # d
  /\ DOMAIN s = DOMAIN h \ {d}
  /\ s[c].next = h[d].next /\ s[c].prev = h[c].prev
  /\ s[c].allocated = h[c].allocated
  /\ \A a \in DOMAIN s \ {c} : /\ s[a].size = h[a].size
                               /\ s[a].allocated = h[a].allocated
                               /\ s[a].next = h[a].next

(* Merging a chunk with the one behind it keeps the list well formed. *)
LEMMA AbsorbMerges ==
  ASSUME NEW h, WellFormed(h), NEW c, c \in DOMAIN h,
         NEW d, d = h[c].next, d # Null
  PROVE  Merged(h, c, d, Absorb(h, c, d))
<1> DEFINE s == Absorb(h, c, d)
           nx == h[d].next
<1>1. /\ d \in DOMAIN h /\ h[d].prev = c /\ d = ChunkEnd(h, c) /\ c < d
  BY ChunkEndInArena DEF WellFormed, LinkedIn, TiledIn
<1>2. /\ \A x \in DOMAIN h : /\ x \in Addr /\ x \in Nat /\ h[x] \in MemoryChunk
                             /\ h[x].size \in Nat /\ ChunkEnd(h, x) \in Nat
                             /\ x < ChunkEnd(h, x)
                             /\ ChunkEnd(h, x) = x + HeaderSize + h[x].size
      /\ Null \notin DOMAIN h
  BY ChunkEndInArena, AddrFacts DEF WellFormed, Typed, ChunkEnd
<1>3. \A x \in DOMAIN h :
        /\ h[x].next = Null => ChunkEnd(h, x) = End
        /\ h[x].next # Null => h[x].next = ChunkEnd(h, x)
        /\ \A y \in DOMAIN h : x < y => ChunkEnd(h, x) <= y
  BY DEF WellFormed, TiledIn
<1>4. \A x \in DOMAIN h :
        /\ h[x].next # Null => h[x].next \in DOMAIN h /\ h[h[x].next].prev = x
        /\ h[x].prev # Null => h[x].prev \in DOMAIN h /\ h[h[x].prev].next = x
        /\ h[x].prev = Null <=> x = Start
  BY DEF WellFormed, LinkedIn
<1>5. nx # Null => nx \in DOMAIN h /\ nx # c /\ nx # d /\ h[nx].prev = d
  BY <1>1, <1>2, <1>3, <1>4
<1>6. /\ DOMAIN s = DOMAIN h \ {d}
      /\ s[c] = [h[c] EXCEPT !.next = nx, !.size = h[c].size + h[d].size + HeaderSize]
      /\ \A a \in DOMAIN s \ {c} :
           s[a] = IF a = nx THEN [h[a] EXCEPT !.prev = c] ELSE h[a]
      /\ s = [a \in DOMAIN s |-> s[a]]
  <2>1. c # d /\ c \in DOMAIN h \ {d}
    BY <1>1, <1>2
  <2>2. s = [a \in DOMAIN h \ {d} |->
               IF a = c THEN [h[c] EXCEPT !.next = nx,
                                          !.size = h[c].size + h[d].size + HeaderSize]
               ELSE IF a = nx THEN [h[a] EXCEPT !.prev = c] ELSE h[a]]
    BY DEF Absorb
  <2> HIDE DEF s, nx
  <2> QED
    BY <2>1, <2>2
<1> HIDE DEF s, nx
<1>7. /\ s[c].next = nx /\ s[c].prev = h[c].prev
      /\ s[c].allocated = h[c].allocated
      /\ s[c].size = h[c].size + h[d].size + HeaderSize
      /\ \A a \in DOMAIN s \ {c} :
           /\ s[a].size = h[a].size /\ s[a].allocated = h[a].allocated
           /\ s[a].next = h[a].next
           /\ s[a].prev = IF a = nx THEN c ELSE h[a].prev
  <2>1. /\ s[c].next = nx /\ s[c].prev = h[c].prev
        /\ s[c].allocated = h[c].allocated
        /\ s[c].size = h[c].size + h[d].size + HeaderSize
    BY <1>2, <1>6 DEF MemoryChunk
  <2>2. ASSUME NEW a, a \in DOMAIN s \ {c}
        PROVE  /\ s[a].size = h[a].size /\ s[a].allocated = h[a].allocated
               /\ s[a].next = h[a].next
               /\ s[a].prev = IF a = nx THEN c ELSE h[a].prev
    <3>1. h[a] \in MemoryChunk
      BY <2>2, <1>2, <1>6
    <3>2. s[a] = IF a = nx THEN [h[a] EXCEPT !.prev = c] ELSE h[a]
      BY <2>2, <1>6
    <3> QED
      BY <3>1, <3>2 DEF MemoryChunk
  <2> QED
    BY <2>1, <2>2
<1>8. Typed(s)
  <2>1. s[c] \in MemoryChunk
    <3>1. nx \in Addr \cup {Null}
      BY <1>1, <1>2 DEF MemoryChunk, nx
    <3>2. h[c].size + h[d].size + HeaderSize \in Nat
      BY <1>1, <1>2
    <3> QED
      BY <3>1, <3>2, <1>2, <1>6 DEF MemoryChunk
  <2>2. \A a \in DOMAIN s \ {c} : s[a] \in MemoryChunk
    <3> TAKE a \in DOMAIN s \ {c}
    <3>1. h[a] \in MemoryChunk /\ c \in Addr
      BY <1>2, <1>6
    <3>2. s[a] = h[a] \/ s[a] = [h[a] EXCEPT !.prev = c]
      BY <1>6
    <3> QED
      BY <3>1, <3>2 DEF MemoryChunk
  <2>3. Start \in DOMAIN s
    BY <1>1, <1>2, <1>4, <1>6 DEF WellFormed, Typed
  <2> QED
    BY <1>1, <1>2, <1>6, <2>1, <2>2, <2>3 DEF WellFormed, Typed
<1>9. /\ ChunkEnd(s, c) = ChunkEnd(h, d)
      /\ \A a \in DOMAIN s \ {c} : ChunkEnd(s, a) = ChunkEnd(h, a)
  BY <1>1, <1>2, <1>7 DEF ChunkEnd
<1>10. TiledIn(s)
  <2> SUFFICES ASSUME NEW a \in DOMAIN s
               PROVE  /\ s[a].next = Null => ChunkEnd(s, a) = End
                      /\ s[a].next # Null => s[a].next = ChunkEnd(s, a)
                      /\ \A y \in DOMAIN s : a < y => ChunkEnd(s, a) <= y
    BY DEF TiledIn
  <2>1. CASE a = c
    BY <2>1, <1>1, <1>2, <1>3, <1>6, <1>7, <1>9 DEF nx
  <2>2. CASE a # c
    BY <2>2, <1>3, <1>6, <1>7, <1>9
  <2> QED
    BY <2>1, <2>2
<1>11. LinkedIn(s)
  <2>1. \A a \in DOMAIN h : /\ h[a].next = d => a = c
                            /\ h[a].next = nx /\ nx # Null => a = d
                            /\ h[a].prev = d => a = nx /\ nx # Null
    BY <1>1, <1>2, <1>4, <1>5 DEF nx
  <2> SUFFICES ASSUME NEW a \in DOMAIN s
               PROVE  /\ s[a].next # Null => /\ s[a].next \in DOMAIN s
                                             /\ s[s[a].next].prev = a
                      /\ s[a].prev # Null => /\ s[a].prev \in DOMAIN s
                                             /\ s[s[a].prev].next = a
                      /\ s[a].prev = Null <=> a = Start
    BY DEF LinkedIn
  <2>2. CASE a = c
    <3>1. s[c].next # Null => s[c].next \in DOMAIN s /\ s[s[c].next].prev = c
      BY <1>1, <1>5, <1>6, <1>7
    <3>2. h[c].prev # Null =>
            /\ h[c].prev \in DOMAIN h /\ h[c].prev # c /\ h[c].prev # d
            /\ h[h[c].prev].next = c
      BY <1>1, <1>2, <1>3, <1>4, <1>5 DEF nx
    <3> QED
      BY <2>2, <3>1, <3>2, <1>1, <1>4, <1>6, <1>7
  <2>3. CASE a # c
    <3>1. s[a].next # Null => s[a].next \in DOMAIN s /\ s[s[a].next].prev = a
      <4> SUFFICES ASSUME s[a].next # Null
                   PROVE  s[a].next \in DOMAIN s /\ s[s[a].next].prev = a
        OBVIOUS
      <4>0. a \in DOMAIN h /\ a # d /\ s[a].next = h[a].next
        BY <2>3, <1>6, <1>7
      <4>1. /\ h[a].next \in DOMAIN h
            /\ h[h[a].next].prev = a /\ h[a].next # d /\ h[a].next # nx
        BY <4>0, <2>1, <2>3, <1>4
      <4>2. s[h[a].next].prev = h[h[a].next].prev
        <5>1. CASE h[a].next = c
          BY <5>1, <1>7
        <5>2. CASE h[a].next # c
          BY <5>2, <4>1, <1>6, <1>7
        <5> QED
          BY <5>1, <5>2
      <4> QED
        BY <4>0, <4>1, <4>2, <1>6
    <3>2. CASE a = nx
      <4>1. a \in DOMAIN h /\ a # Null /\ nx # Null /\ c # d /\ c # Null /\ d # Null
        BY <2>3, <3>2, <1>1, <1>2, <1>6
      <4>2. s[a].prev = c /\ s[c].next = a
        BY <2>3, <3>2, <1>7
      <4>3. h[a].prev = d
        BY <3>2, <4>1, <1>5
      <4>4. a # Start
        BY <4>1, <4>3, <1>4
      <4> QED
        BY <3>1, <4>1, <4>2, <4>4, <1>6
    <3>3. CASE a # nx
      <4>0. a \in DOMAIN h /\ a # d /\ s[a].prev = h[a].prev
        BY <2>3, <3>3, <1>6, <1>7
      <4>1. h[a].prev # d
        BY <4>0, <2>1, <3>3
      <4>2. h[a].prev # c
        BY <2>3, <1>2, <1>4, <1>6
      <4> QED
        BY <2>3, <3>1, <4>0, <4>1, <4>2, <1>4, <1>6, <1>7
    <3> QED
      BY <3>2, <3>3
  <2> QED
    BY <2>2, <2>3
<1>12. WellFormed(s) /\ c # d
  BY <1>1, <1>2, <1>8, <1>10, <1>11 DEF WellFormed
<1> QED
  BY <1>1, <1>6, <1>7, <1>12 DEF Merged, s, nx

(* Setting the flag of a chunk changes nothing else of the list. *)
LEMMA FlagWellFormed ==
  ASSUME NEW h, WellFormed(h), NEW c \in DOMAIN h, NEW f \in BOOLEAN
  PROVE  LET s == [h EXCEPT ![c].allocated = f]
         IN  /\ WellFormed(s)
             /\ DOMAIN s = DOMAIN h
             /\ s[c].allocated = f
             /\ \A a \in DOMAIN h \ {c} : s[a] = h[a]
             /\ \A a \in DOMAIN h : /\ s[a].next = h[a].next
                                    /\ s[a].prev = h[a].prev
                                    /\ s[a].size = h[a].size
<1> DEFINE s == [h EXCEPT ![c].allocated = f]
<1>1. \A a \in DOMAIN h : h[a] \in MemoryChunk
  BY DEF WellFormed, Typed
<1>2. /\ DOMAIN s = DOMAIN h
      /\ s[c] = [h[c] EXCEPT !.allocated = f]
      /\ \A a \in DOMAIN h \ {c} : s[a] = h[a]
      /\ s = [a \in DOMAIN h |-> s[a]]
  BY <1>1 DEF WellFormed, Typed
<1> HIDE DEF s
<1>3. /\ s[c].allocated = f
      /\ \A a \in DOMAIN h : /\ s[a].next = h[a].next
                             /\ s[a].prev = h[a].prev
                             /\ s[a].size = h[a].size
                             /\ s[a] \in MemoryChunk
  BY <1>1, <1>2 DEF MemoryChunk
<1>4. Typed(s)
  BY <1>2, <1>3 DEF WellFormed, Typed
<1>5. TiledIn(s)
  BY <1>2, <1>3 DEF WellFormed, TiledIn, ChunkEnd
<1>6. LinkedIn(s)
  BY <1>2, <1>3 DEF WellFormed, LinkedIn
<1> QED
  BY <1>2, <1>3, <1>4, <1>5, <1>6 DEF WellFormed, s

(* The allocated chunks of h and of g are the same, at the same size. *)
SameAllocated(h, g) ==
  /\ \A a \in DOMAIN h : h[a].allocated =>
       a \in DOMAIN g /\ g[a].allocated /\ g[a].size = h[a].size
  /\ \A a \in DOMAIN g : g[a].allocated => a \in DOMAIN h /\ h[a].allocated

(* Freeing a chunk of a coalesced list yields a well-formed, coalesced list
   in which every other allocated chunk is as it was. *)
LEMMA FreeChunkFacts ==
  ASSUME NEW h, WellFormed(h), CoalescedExcept(h, Null),
         NEW c \in DOMAIN h, h[c].allocated
  PROVE  LET g == FreeChunk(h, c)
         IN  /\ WellFormed(g)
             /\ CoalescedExcept(g, Null)
             /\ DOMAIN g # {}
             /\ SameAllocated(MarkFree(h, c), g)
<1> DEFINE h1 == MarkFree(h, c)
           h2 == CoalescePrev(h1, c)
           e == Survivor(h1, c)
           h3 == CoalesceNext(h2, e)
<1>1. FreeChunk(h, c) = h3
  BY DEF FreeChunk
<1>2. /\ WellFormed(h1) /\ DOMAIN h1 = DOMAIN h /\ c \in DOMAIN h1
      /\ h1[c].allocated = FALSE
      /\ \A a \in DOMAIN h \ {c} : h1[a] = h[a]
      /\ \A a \in DOMAIN h : h1[a].next = h[a].next
  BY FlagWellFormed DEF MarkFree
<1>3. Null \notin DOMAIN h
  BY AddrFacts DEF WellFormed, Typed
<1>4. \A a \in DOMAIN h1 :
        h1[a].next # Null => /\ h1[a].next \in DOMAIN h1
                             /\ h1[h1[a].next].prev = a
  BY <1>2 DEF WellFormed, LinkedIn
<1>5. \A a \in DOMAIN h1 \ {c} :
        (h1[a].next # Null /\ h1[a].next # c) =>
          h1[a].allocated \/ h1[h1[a].next].allocated
  BY <1>2, <1>3, <1>4 DEF CoalescedExcept
<1> HIDE DEF h1
<1>6. /\ WellFormed(h2) /\ CoalescedExcept(h2, e) /\ e \in DOMAIN h2
      /\ h2[e].allocated = FALSE /\ SameAllocated(h1, h2)
  <2>1. CASE FreePrev(h1, c)
    <3> DEFINE p == h1[c].prev
    <3>1. /\ h2 = Absorb(h1, p, c) /\ e = p
          /\ p \in DOMAIN h1 /\ h1[p].next = c /\ h1[p].next # Null
          /\ h1[p].allocated = FALSE
      <4>1. p \in DOMAIN h1 /\ h1[p].next = c
        BY <2>1, <1>2 DEF FreePrev, WellFormed, LinkedIn
      <4>2. h1[p].allocated = FALSE
        BY <2>1, <4>1, <1>2 DEF FreePrev, WellFormed, Typed, MemoryChunk
      <4> QED
        BY <2>1, <4>1, <4>2, <1>2, <1>3 DEF CoalescePrev, Survivor
    <3> HIDE DEF p, h2, e
    <3>2. /\ WellFormed(h2) /\ p # c
          /\ DOMAIN h2 = DOMAIN h1 \ {c}
          /\ h2[p].allocated = FALSE
          /\ \A a \in DOMAIN h2 \ {p} : /\ h2[a].size = h1[a].size
                                        /\ h2[a].allocated = h1[a].allocated
                                        /\ h2[a].next = h1[a].next
      <4>1. Merged(h1, p, c, Absorb(h1, p, c))
        BY <3>1, <1>2, <1>3, AbsorbMerges
      <4> QED
        BY <3>1, <4>1 DEF Merged
    <3>3. CoalescedExcept(h2, p)
      <4> SUFFICES ASSUME NEW a \in DOMAIN h2 \ {p}, h2[a].next # Null
                   PROVE  h2[a].allocated \/ h2[h2[a].next].allocated
        BY DEF CoalescedExcept
      <4>1. a \in DOMAIN h1 \ {c} /\ h2[a].next = h1[a].next
        BY <3>2
      <4>2. h1[a].next # c
        BY <3>1, <4>1, <1>4
      <4>3. h1[a].next \in DOMAIN h2
        BY <3>2, <4>1, <4>2, <1>4
      <4>4. h1[a].allocated \/ h1[h1[a].next].allocated
        BY <4>1, <4>2, <1>5
      <4>5. h1[h1[a].next].allocated => h2[h1[a].next].allocated
        BY <3>1, <3>2, <4>3
      <4> QED
        BY <3>2, <4>1, <4>4, <4>5
    <3>4. SameAllocated(h1, h2)
      BY <3>1, <3>2, <1>2 DEF SameAllocated
    <3> QED
      BY <3>1, <3>2, <3>3, <3>4
  <2>2. CASE ~ FreePrev(h1, c)
    <3>1. h2 = h1 /\ e = c
      BY <2>2 DEF CoalescePrev, Survivor
    <3>2. \A a \in DOMAIN h1 : h1[a].next = c => h1[a].allocated
      BY <2>2, <1>2, <1>3, <1>4 DEF FreePrev
    <3>3. CoalescedExcept(h1, c)
      BY <3>2, <1>5 DEF CoalescedExcept
    <3> QED
      BY <3>1, <3>3, <1>2 DEF SameAllocated
  <2> QED
    BY <2>1, <2>2
<1> HIDE DEF h2, e
<1>7. \A a \in DOMAIN h2 :
        h2[a].next # Null => /\ h2[a].next \in DOMAIN h2
                             /\ h2[h2[a].next].prev = a
  BY <1>6 DEF WellFormed, LinkedIn
<1>8. /\ WellFormed(h3) /\ CoalescedExcept(h3, Null) /\ DOMAIN h3 # {}
      /\ SameAllocated(h2, h3)
  <2>1. CASE FreeNext(h2, e)
    <3> DEFINE d == h2[e].next
    <3>1. /\ h3 = Absorb(h2, e, d)
          /\ h2[e].next # Null /\ d \in DOMAIN h2 /\ h2[d].allocated = FALSE
      <4>1. d \in DOMAIN h2 /\ h2[e].next # Null
        BY <2>1, <1>6, <1>7 DEF FreeNext
      <4> QED
        BY <2>1, <4>1, <1>6 DEF FreeNext, CoalesceNext, WellFormed, Typed, MemoryChunk
    <3>2. /\ WellFormed(h3) /\ e # d
          /\ DOMAIN h3 = DOMAIN h2 \ {d}
          /\ h3[e].next = h2[d].next /\ h3[e].allocated = FALSE
          /\ \A a \in DOMAIN h3 \ {e} : /\ h3[a].size = h2[a].size
                                        /\ h3[a].allocated = h2[a].allocated
                                        /\ h3[a].next = h2[a].next
      <4>1. Merged(h2, e, d, Absorb(h2, e, d))
        BY <3>1, <1>6, AbsorbMerges
      <4> QED
        BY <3>1, <4>1, <1>6 DEF Merged
    <3> HIDE DEF d, h3
    <3>3. CoalescedExcept(h3, Null)
      <4> SUFFICES ASSUME NEW a \in DOMAIN h3, h3[a].next # Null
                   PROVE  h3[a].allocated \/ h3[h3[a].next].allocated
        BY DEF CoalescedExcept
      <4>1. CASE a = e
        <5>1. /\ h3[a].next = h2[d].next /\ h2[d].next # Null /\ d \in DOMAIN h2 \ {e}
          BY <3>1, <3>2, <4>1
        <5>2. h2[h2[d].next].allocated /\ h2[d].next \in DOMAIN h2
          BY <3>1, <5>1, <1>6, <1>7 DEF CoalescedExcept
        <5>3. h2[d].next # d /\ h2[d].next # e
          BY <3>1, <5>2, <1>6
        <5> QED
          BY <3>2, <5>1, <5>2, <5>3
      <4>2. CASE a # e
        <5>1. a \in DOMAIN h2 \ {e} /\ h3[a].next = h2[a].next
          BY <3>2, <4>2
        <5>2. h2[a].allocated \/ h2[h2[a].next].allocated
          BY <5>1, <1>6 DEF CoalescedExcept
        <5>3. h2[a].next \in DOMAIN h3
          BY <3>1, <3>2, <5>1, <1>6, <1>7 DEF d
        <5>4. h2[h2[a].next].allocated => h3[h2[a].next].allocated
          BY <3>2, <5>3, <1>6
        <5> QED
          BY <3>2, <4>2, <5>1, <5>2, <5>4
      <4> QED
        BY <4>1, <4>2
    <3>4. SameAllocated(h2, h3)
      BY <3>1, <3>2, <1>6 DEF SameAllocated
    <3> QED
      BY <3>2, <3>3, <3>4, <1>6
  <2>2. CASE ~ FreeNext(h2, e)
    <3>1. h3 = h2
      BY <2>2 DEF CoalesceNext
    <3>2. CoalescedExcept(h2, Null)
      BY <2>2, <1>6 DEF CoalescedExcept, FreeNext
    <3> QED
      BY <3>1, <3>2, <1>6 DEF SameAllocated
  <2> QED
    BY <2>1, <2>2
<1> HIDE DEF h3
<1>9. SameAllocated(h1, h3)
  BY <1>6, <1>8 DEF SameAllocated
<1> QED
  BY <1>1, <1>8, <1>9 DEF h1

(* The list the constructor leaves: one free chunk, the whole arena. *)
Fresh == [a \in {Start} |-> [next |-> Null, prev |-> Null, allocated |-> FALSE,
                             size |-> HeapSize - HeaderSize]]

LEMMA FreshWellFormed ==
  ASSUME HeapSize >= HeaderSize
  PROVE  WellFormed(Fresh) /\ DOMAIN Fresh = {Start} /\ CoalescedExcept(Fresh, Null)
         /\ Fresh[Start].allocated = FALSE /\ Fresh[Start].next = Null
<1>1. DOMAIN Fresh = {Start} /\ Start \in Addr /\ Start # Null
  BY DEF Fresh, Addr, End, Null
<1>2. Fresh[Start] = [next |-> Null, prev |-> Null, allocated |-> FALSE,
                      size |-> HeapSize - HeaderSize]
  BY DEF Fresh
<1>3. Fresh[Start] \in MemoryChunk
  BY <1>2 DEF MemoryChunk
<1>4. Typed(Fresh)
  BY <1>1, <1>3 DEF Typed, Fresh
<1>5. TiledIn(Fresh)
  BY <1>1, <1>2 DEF TiledIn, ChunkEnd, End
<1>6. LinkedIn(Fresh)
  BY <1>1, <1>2 DEF LinkedIn
<1> QED
  BY <1>1, <1>2, <1>4, <1>5, <1>6 DEF WellFormed, CoalescedExcept

LEMMA EmptyWellFormed ==
  /\ DOMAIN << >> = {} /\ WellFormed(<< >>) /\ CoalescedExcept(<< >>, Null)
  /\ HeldIn(<< >>, {})
<1>1. DOMAIN << >> = {}
  OBVIOUS
<1>2. Typed(<< >>)
  BY <1>1 DEF Typed
<1> QED
  BY <1>1, <1>2 DEF WellFormed, TiledIn, LinkedIn, CoalescedExcept, HeldIn

(* A malloc that finds a chunk preserves the invariant. *)
LEMMA MallocInv ==
  ASSUME HeapInv, NEW n \in Requests, Malloc(n)
  PROVE  HeapInv'
<1>1. PICK c \in Chunks :
        /\ FirstFit(c, n)
        /\ heap' = MarkAllocated(
                     IF Splittable(heap, c, n) THEN Split(heap, c, n) ELSE heap, c)
        /\ blocks' = blocks \cup {[ptr |-> c + HeaderSize, len |-> n]}
  BY DEF Malloc
<1> DEFINE b == [ptr |-> c + HeaderSize, len |-> n]
           s == IF Splittable(heap, c, n) THEN Split(heap, c, n) ELSE heap
           temp == c + HeaderSize + n
<1>2. /\ n \in Nat /\ c \in DOMAIN heap /\ c \in Nat /\ heap[c].size \in Nat
      /\ heap[c].size > n /\ heap[c].allocated = FALSE /\ active /\ WellFormed(heap)
      /\ Null \notin DOMAIN heap
  BY <1>1, ChunkEndInArena, AddrFacts
     DEF HeapInv, Chunks, FirstFit, Fits, Malloc, WellFormed, Typed, MemoryChunk
<1>3. Splittable(heap, c, n) => SplitOff(heap, c, n, s)
  BY <1>2, SplitWellFormed
<1>4. /\ WellFormed(s) /\ c \in DOMAIN s /\ n <= s[c].size
      /\ DOMAIN heap \subseteq DOMAIN s
      /\ \A a \in DOMAIN s : a # c /\ s[a].allocated => a \in DOMAIN heap
      /\ \A a \in DOMAIN heap \ {c} : /\ s[a].size = heap[a].size
                                      /\ s[a].allocated = heap[a].allocated
  BY <1>2, <1>3 DEF SplitOff
<1>5. heap' = [s EXCEPT ![c].allocated = TRUE]
  BY <1>1 DEF MarkAllocated
<1> HIDE DEF s
<1>6. /\ WellFormed(heap') /\ DOMAIN heap' = DOMAIN s
      /\ heap'[c].allocated = TRUE /\ heap'[c].size = s[c].size
      /\ heap'[c].next = s[c].next
      /\ \A a \in DOMAIN s \ {c} : heap'[a] = s[a]
  BY <1>4, <1>5, FlagWellFormed
<1>7. CoalescedExcept(heap', Null)
  <2> SUFFICES ASSUME NEW a \in DOMAIN heap', heap'[a].next # Null
               PROVE  heap'[a].allocated \/ heap'[heap'[a].next].allocated
    BY DEF CoalescedExcept
  <2>1. CASE a = c
    BY <2>1, <1>6
  <2>2. CASE a # c /\ a \in DOMAIN heap
    <3>1. heap'[a].next = heap[a].next /\ heap[a].next \in DOMAIN heap
      <4>1. heap'[a].next = heap[a].next
        BY <2>2, <1>2, <1>3, <1>6 DEF SplitOff, s
      <4> QED
        BY <2>2, <4>1, <1>2 DEF WellFormed, LinkedIn
    <3>2. heap[a].allocated \/ heap[heap[a].next].allocated
      BY <2>2, <3>1, <1>2 DEF HeapInv, CoalescedExcept
    <3>3. heap[a].next = c \/ heap'[heap[a].next].allocated = heap[heap[a].next].allocated
      BY <3>1, <1>4, <1>6
    <3> QED
      BY <2>2, <3>1, <3>2, <3>3, <1>4, <1>6
  <2>3. CASE a # c /\ a \notin DOMAIN heap
    <3>1. /\ Splittable(heap, c, n) /\ a = temp /\ SplitOff(heap, c, n, s)
      BY <2>3, <1>3, <1>6 DEF SplitOff, s
    <3>2. heap'[a].next = heap[c].next /\ heap[c].next # Null
      BY <2>3, <3>1, <1>6 DEF SplitOff
    <3>3. heap[c].next \in DOMAIN heap /\ heap[heap[c].next].allocated
      BY <3>2, <1>2 DEF HeapInv, CoalescedExcept, WellFormed, LinkedIn
    <3> QED
      BY <3>2, <3>3, <1>2, <1>4, <1>6
  <2> QED
    BY <2>1, <2>2, <2>3
<1>8. HeldIn(heap', blocks')
  <2>1. \A x \in blocks : x.ptr - HeaderSize # c /\ x.ptr # c + HeaderSize
    BY <1>2 DEF HeapInv, HeldIn
  <2>2. \A x \in blocks : /\ x.ptr - HeaderSize \in DOMAIN heap'
                          /\ heap'[x.ptr - HeaderSize].allocated
                          /\ x.len <= heap'[x.ptr - HeaderSize].size
    BY <2>1, <1>4, <1>6 DEF HeapInv, HeldIn
  <2>3. /\ b.ptr - HeaderSize \in DOMAIN heap' /\ b.ptr = c + HeaderSize
        /\ heap'[b.ptr - HeaderSize].allocated
        /\ b.len <= heap'[b.ptr - HeaderSize].size
    BY <1>2, <1>4, <1>6
  <2>4. blocks' = blocks \cup {b}
    BY <1>1
  <2> HIDE DEF b
  <2> QED
    BY <2>1, <2>2, <2>3, <2>4 DEF HeapInv, HeldIn
<1>9. NoOrphanIn(heap', blocks')
  <2> SUFFICES ASSUME NEW a \in DOMAIN heap', heap'[a].allocated
               PROVE  \E x \in blocks' : x.ptr = a + HeaderSize
    BY DEF NoOrphanIn
  <2>1. CASE a = c
    <3>1. b \in blocks' /\ b.ptr = c + HeaderSize
      BY <1>1
    <3> QED
      BY <2>1, <3>1
  <2>2. CASE a # c
    <3>1. a \in DOMAIN heap /\ heap[a].allocated
      BY <2>2, <1>4, <1>6
    <3> QED
      BY <3>1, <1>1, <1>2 DEF HeapInv, NoOrphanIn
  <2> QED
    BY <2>1, <2>2
<1>10. blocks' \subseteq [ptr : Nat, len : Requests]
  BY <1>1, <1>2 DEF HeapInv
<1> QED
  <2>1. active' = active /\ first' = first /\ DOMAIN heap # {}
    BY <1>2 DEF Malloc
  <2> QED
    BY <2>1, <1>4, <1>6, <1>7, <1>8, <1>9, <1>10 DEF HeapInv

(* A free of a block a client holds preserves the invariant. *)
LEMMA FreeInv ==
  ASSUME HeapInv, NEW b \in blocks, Free(b)
  PROVE  HeapInv'
<1> DEFINE c == b.ptr - HeaderSize
           h1 == MarkFree(heap, c)
<1>1. /\ c \in DOMAIN heap /\ heap[c].allocated /\ WellFormed(heap)
      /\ CoalescedExcept(heap, Null) /\ active /\ c \in Nat
      /\ b.ptr = c + HeaderSize
      /\ \A x \in blocks : x # b => x.ptr - HeaderSize # c
  BY AddrFacts DEF HeapInv, HeldIn, Free, WellFormed, Typed
<1>2. heap' = FreeChunk(heap, c) /\ blocks' = blocks \ {b}
  BY DEF Free
<1>3. /\ WellFormed(heap') /\ CoalescedExcept(heap', Null) /\ DOMAIN heap' # {}
      /\ SameAllocated(h1, heap')
  BY <1>1, <1>2, FreeChunkFacts
<1>4. /\ DOMAIN h1 = DOMAIN heap /\ h1[c].allocated = FALSE
      /\ \A a \in DOMAIN heap \ {c} : h1[a] = heap[a]
  BY <1>1, FlagWellFormed DEF MarkFree
<1> HIDE DEF c, h1
<1>5. HeldIn(heap', blocks')
  <2> SUFFICES ASSUME NEW x \in blocks, x # b
               PROVE  /\ x.ptr - HeaderSize \in DOMAIN heap'
                      /\ heap'[x.ptr - HeaderSize].allocated
                      /\ x.len <= heap'[x.ptr - HeaderSize].size
                      /\ \A a \in blocks : a.ptr = x.ptr => a = x
    BY <1>2 DEF HeldIn
  <2> QED
    BY <1>1, <1>3, <1>4 DEF HeapInv, HeldIn, SameAllocated
<1>6. NoOrphanIn(heap', blocks')
  <2> SUFFICES ASSUME NEW a \in DOMAIN heap', heap'[a].allocated
               PROVE  \E x \in blocks' : x.ptr = a + HeaderSize
    BY DEF NoOrphanIn
  <2>1. a \in DOMAIN heap /\ heap[a].allocated /\ a # c
    BY <1>3, <1>4 DEF SameAllocated
  <2>2. PICK x \in blocks : x.ptr = a + HeaderSize
    BY <2>1, <1>1 DEF HeapInv, NoOrphanIn
  <2>3. a \in Nat
    BY <1>3, AddrFacts DEF WellFormed, Typed
  <2>4. x # b
    BY <1>1, <2>1, <2>2, <2>3
  <2> QED
    BY <1>2, <2>2, <2>4
<1> QED
  BY <1>1, <1>2, <1>3, <1>5, <1>6 DEF HeapInv, Free

-----------------------------------------------------------------------------

(* HeapInv holds in every state the kernel's heap reaches. *)
THEOREM Invariance == Spec => []HeapInv
<1>1. Init => HeapInv
  BY EmptyWellFormed DEF Init, HeapInv, Null
<1>2. HeapInv /\ [Next]_vars => HeapInv'
  <2> SUFFICES ASSUME HeapInv, [Next]_vars
               PROVE  HeapInv'
    OBVIOUS
  <2>1. CASE Construct
    <3>1. blocks = {}
      BY <2>1, EmptyWellFormed DEF Construct, HeapInv, HeldIn
    <3>2. CASE HeapSize < HeaderSize
      BY <2>1, <3>1, <3>2, EmptyWellFormed DEF Construct, HeapInv, NoOrphanIn, Null
    <3>3. CASE HeapSize >= HeaderSize
      <4>1. heap' = Fresh /\ active' = TRUE /\ first' = Start /\ blocks' = {}
        BY <2>1, <3>1, <3>3 DEF Construct, Fresh
      <4> QED
        BY <4>1, <3>3, FreshWellFormed DEF HeapInv, HeldIn, NoOrphanIn
    <3> QED
      BY <3>2, <3>3
  <2>2. CASE Destroy
    BY <2>2 DEF Destroy, HeapInv
  <2>3. ASSUME NEW n \in Requests, Malloc(n) PROVE HeapInv'
    BY <2>3, MallocInv
  <2>4. ASSUME NEW n \in Requests, MallocFails(n) PROVE HeapInv'
    BY <2>4 DEF MallocFails, vars, HeapInv
  <2>5. ASSUME NEW b \in blocks, Free(b) PROVE HeapInv'
    BY <2>5, FreeInv
  <2>6. ASSUME NEW b \in blocks, FreeIgnored(b) PROVE HeapInv'
    BY <2>6 DEF FreeIgnored, HeapInv, HeldIn
  <2>7. CASE UNCHANGED vars
    BY <2>7 DEF vars, HeapInv
  <2> QED
    BY <2>1, <2>2, <2>3, <2>4, <2>5, <2>6, <2>7 DEF Next
<1> QED
  BY <1>1, <1>2, PTL DEF Spec

-----------------------------------------------------------------------------

(* Every variable keeps its type: headers hold addresses of the arena. *)
THEOREM TypeCorrect == Spec => []TypeOK
<1>1. HeapInv => TypeOK
  BY DEF HeapInv, TypeOK, WellFormed, Typed, Chunks, Addr, End
<1> QED
  BY <1>1, Invariance, PTL

(* Whatever the order of malloc and free, the chunks tile the arena and their
   next and prev links stay each other's inverse. *)
THEOREM ListSound == Spec => []ListWellFormed
<1>1. HeapInv => Tiled
  BY DEF HeapInv, Tiled, WellFormed, TiledIn, Chunks
<1>2. HeapInv => ListLinked
  BY DEF HeapInv, ListLinked, WellFormed, Typed, LinkedIn, Chunks
<1>3. HeapInv => ListWellFormed
  BY <1>1, <1>2 DEF ListWellFormed
<1> QED
  BY <1>3, Invariance, PTL

(* Two neighbouring chunks are never both free. *)
THEOREM FreeMemoryCoalesced == Spec => []Coalesced
<1>1. HeapInv => Coalesced
  BY AddrFacts DEF HeapInv, Coalesced, CoalescedExcept, WellFormed, Typed, Chunks
<1> QED
  BY <1>1, Invariance, PTL

(* The payload of a chunk clear of the header and payload of another. *)
LEMMA ChunksApart ==
  ASSUME NEW h, WellFormed(h), NEW c \in DOMAIN h, NEW d \in DOMAIN h, c # d
  PROVE  /\ c \in Nat /\ d \in Nat
         /\ ChunkEnd(h, c) <= d \/ ChunkEnd(h, d) <= c
BY ChunkEndInArena, AddrFacts DEF WellFormed, Typed, TiledIn

(* No client can reach a header or another client's block by writing within
   the length it asked for. *)
THEOREM Isolation == Spec => []BlocksIsolated
<1>1. HeapInv => BlocksIsolated
  <2> SUFFICES ASSUME HeapInv, NEW b \in blocks
               PROVE  /\ Payload(b) \subseteq Arena
                      /\ \A c \in Chunks : Payload(b) \cap Header(c) = {}
                      /\ \A a \in blocks :
                           a # b => a.ptr # b.ptr /\ Payload(a) \cap Payload(b) = {}
    BY DEF BlocksIsolated
  <2>1. \A x \in blocks :
          /\ x.ptr \in Nat /\ x.len \in Nat
          /\ x.ptr - HeaderSize \in DOMAIN heap
          /\ x.ptr + x.len <= ChunkEnd(heap, x.ptr - HeaderSize)
    BY ChunkEndInArena, AddrFacts DEF HeapInv, HeldIn, ChunkEnd, WellFormed, Typed
  <2>2. Payload(b) \subseteq Arena
    <3>1. b.ptr - HeaderSize >= Start /\ b.ptr + b.len <= End
      BY <2>1, ChunkEndInArena, AddrFacts DEF HeapInv, WellFormed, Typed
    <3> QED
      BY <2>1, <3>1, AddrFacts DEF Payload, Arena
  <2>3. ASSUME NEW c \in Chunks
        PROVE  Payload(b) \cap Header(c) = {}
    <3>1. CASE c = b.ptr - HeaderSize
      BY <2>1, <3>1 DEF Payload, Header
    <3>2. CASE c # b.ptr - HeaderSize
      <4>1. /\ c \in DOMAIN heap /\ c \in Nat
            /\ \/ ChunkEnd(heap, c) <= b.ptr - HeaderSize
               \/ ChunkEnd(heap, b.ptr - HeaderSize) <= c
        BY <2>1, <3>2, ChunksApart DEF HeapInv, Chunks
      <4>2. ChunkEnd(heap, c) \in Nat /\ c + HeaderSize <= ChunkEnd(heap, c)
        BY <4>1, ChunkEndInArena DEF HeapInv, ChunkEnd
      <4>3. ChunkEnd(heap, b.ptr - HeaderSize) \in Nat
        BY <2>1, ChunkEndInArena DEF HeapInv
      <4> QED
        BY <2>1, <4>1, <4>2, <4>3 DEF Payload, Header
    <3> QED
      BY <3>1, <3>2
  <2>4. ASSUME NEW a \in blocks, a # b
        PROVE  a.ptr # b.ptr /\ Payload(a) \cap Payload(b) = {}
    <3>1. a.ptr # b.ptr
      BY <2>4 DEF HeapInv, HeldIn
    <3> DEFINE ca == a.ptr - HeaderSize
               cb == b.ptr - HeaderSize
    <3>2. ca \in DOMAIN heap /\ cb \in DOMAIN heap /\ ca # cb
      BY <2>1, <3>1
    <3>3. /\ ChunkEnd(heap, ca) \in Nat /\ ChunkEnd(heap, cb) \in Nat
          /\ ChunkEnd(heap, ca) <= cb \/ ChunkEnd(heap, cb) <= ca
      BY <3>2, ChunksApart, ChunkEndInArena DEF HeapInv
    <3> QED
      BY <2>1, <3>1, <3>3 DEF Payload
  <2> QED
    BY <2>2, <2>3, <2>4
<1> QED
  BY <1>1, Invariance, PTL

(* d is the lowest chunk of h, from chunk c on, that fits n bytes. *)
LowestFrom(h, n, c, d) ==
  d \in DOMAIN h /\ c <= d /\ Fits(h, d, n)
    /\ \A e \in DOMAIN h : c <= e /\ Fits(h, e, n) => d <= e

(* Behind a chunk comes the one its next leads to, and none behind the last. *)
LEMMA NextIsLowest ==
  ASSUME NEW h, WellFormed(h), NEW c \in DOMAIN h
  PROVE  /\ h[c].next = Null => \A d \in DOMAIN h : d <= c
         /\ h[c].next # Null => /\ h[c].next \in DOMAIN h /\ c < h[c].next
                                /\ \A d \in DOMAIN h : c < d => h[c].next <= d
<1>1. c \in Nat /\ ChunkEnd(h, c) \in Nat /\ c < ChunkEnd(h, c)
  BY ChunkEndInArena, AddrFacts DEF WellFormed, Typed
<1>2. \A d \in DOMAIN h : d \in Nat /\ d < End
  BY ChunkEndInArena, AddrFacts DEF WellFormed, Typed
<1>3. \A d \in DOMAIN h : c < d => ChunkEnd(h, c) <= d
  BY DEF WellFormed, TiledIn
<1>4. CASE h[c].next = Null
  <2>1. ChunkEnd(h, c) = End
    BY <1>4 DEF WellFormed, TiledIn
  <2>2. \A d \in DOMAIN h : ~ (c < d)
    BY <1>1, <1>2, <1>3, <2>1
  <2> QED
    BY <1>1, <1>2, <1>4, <2>2
<1>5. CASE h[c].next # Null
  BY <1>1, <1>3, <1>5 DEF WellFormed, TiledIn, LinkedIn
<1> QED
  BY <1>4, <1>5

(* The recursion of the scan has a solution, and any solution is the lowest
   chunk that fits: by induction from the end of the arena to its start. *)
LEMMA ScanFinds ==
  ASSUME NEW h, WellFormed(h), NEW n \in Nat, NEW c \in DOMAIN h
  PROVE  IF Scan(h, n, c) = Null
         THEN \A e \in DOMAIN h : c <= e => ~ Fits(h, e, n)
         ELSE LowestFrom(h, n, c, Scan(h, n, c))
<1> DEFINE D == DOMAIN h
           F(s) == [x \in D \cup {Null} |->
                      IF x = Null \/ Fits(h, x, n) THEN x ELSE s[h[x].next]]
           scan == CHOOSE s : s = F(s)
           None(x) == \A e \in D : x <= e => ~ Fits(h, e, n)
           Right(x, y) == IF y = Null THEN None(x) ELSE LowestFrom(h, n, x, y)
<1>1. D \subseteq Nat /\ Null \notin D /\ D \subseteq Addr
  BY AddrFacts DEF WellFormed, Typed
<1>2. \A x \in D : Fits(h, x, n) => Right(x, x)
  BY <1>1 DEF LowestFrom
<1>3. ASSUME NEW x \in D, ~ Fits(h, x, n), h[x].next = Null
      PROVE  Right(x, Null)
  <2>1. \A e \in D : x <= e => e = x
    BY <1>1, <1>3, NextIsLowest
  <2> QED
    BY <1>3, <2>1
<1>4. ASSUME NEW x \in D, ~ Fits(h, x, n), h[x].next # Null, NEW y, Right(h[x].next, y)
      PROVE  Right(x, y)
  <2> DEFINE z == h[x].next
  <2>1. z \in D /\ x < z /\ \A e \in D : x < e => z <= e
    BY <1>4, NextIsLowest
  <2> HIDE DEF z
  <2>2. \A e \in D : x <= e /\ Fits(h, e, n) => z <= e
    BY <1>1, <1>4, <2>1
  <2>3. Right(z, y)
    BY <1>4 DEF z
  <2>4. CASE y = Null
    BY <2>2, <2>3, <2>4
  <2>5. CASE y # Null
    <3>1. LowestFrom(h, n, z, y)
      BY <2>3, <2>5
    <3>2. y \in D /\ x <= y
      BY <1>1, <2>1, <3>1 DEF LowestFrom
    <3> QED
      BY <2>2, <2>5, <3>1, <3>2 DEF LowestFrom
  <2> QED
    BY <2>4, <2>5
<1>5. \A x \in D : \E y : Right(x, y)
  <2> SUFFICES ASSUME NEW x \in D PROVE \E y : Right(x, y)
    OBVIOUS
  <2> DEFINE H == {e \in D : x <= e /\ Fits(h, e, n)}
  <2>1. CASE H = {}
    <3>1. Right(x, Null)
      BY <2>1
    <3> QED
      BY <3>1
  <2>2. CASE H # {}
    <3>1. H \in SUBSET Nat
      BY <1>1
    <3>2. \E d \in H : \A e \in H : d <= e
      <4> HIDE DEF H
      <4> QED
        BY <2>2, <3>1, FirstExists
    <3>3. PICK d \in H : \A e \in H : d <= e
      BY <3>2
    <3>4. LowestFrom(h, n, x, d) /\ d # Null
      BY <1>1, <3>3 DEF LowestFrom
    <3> QED
      BY <3>4
  <2> QED
    BY <2>1, <2>2
<1>6. \A x \in D : \A y, z : Right(x, y) /\ Right(x, z) => y = z
  <2> SUFFICES ASSUME NEW x \in D, NEW y, NEW z, Right(x, y), Right(x, z)
               PROVE  y = z
    OBVIOUS
  <2>1. CASE y = Null \/ z = Null
    BY <2>1 DEF LowestFrom
  <2>2. CASE y # Null /\ z # Null
    <3>1. y \in D /\ z \in D /\ y <= z /\ z <= y
      BY <2>2 DEF LowestFrom
    <3> QED
      BY <1>1, <3>1
  <2> QED
    BY <2>1, <2>2
<1> DEFINE w == [x \in D \cup {Null} |->
                   IF x = Null THEN Null ELSE CHOOSE y : Right(x, y)]
<1>7. w = F(w)
  <2> HIDE DEF Right
  <2>1. \A x \in D : Right(x, w[x])
    BY <1>1, <1>5
  <2>2. w[Null] = Null
    OBVIOUS
  <2>3. ASSUME NEW x \in D \cup {Null}
        PROVE  w[x] = IF x = Null \/ Fits(h, x, n) THEN x ELSE w[h[x].next]
    <3>1. CASE x = Null
      BY <2>2, <3>1
    <3>2. CASE x # Null /\ Fits(h, x, n)
      <4>1. w[x] = x
        BY <1>2, <1>6, <2>1, <3>2
      <4> QED
        BY <3>2, <4>1
    <3>3. CASE x # Null /\ ~ Fits(h, x, n)
      <4>1. CASE h[x].next = Null
        <5>1. w[x] = Null
          BY <1>3, <1>6, <2>1, <3>3, <4>1
        <5> QED
          BY <2>2, <3>3, <4>1, <5>1
      <4>2. CASE h[x].next # Null
        <5>1. h[x].next \in D
          BY <3>3, <4>2, NextIsLowest
        <5>2. Right(x, w[h[x].next])
          BY <1>4, <2>1, <3>3, <4>2, <5>1
        <5>3. w[x] = w[h[x].next]
          BY <1>6, <2>1, <3>3, <5>2
        <5> QED
          BY <3>3, <5>3
      <4> QED
        BY <4>1, <4>2
    <3> QED
      BY <3>1, <3>2, <3>3
  <2>4. w = [x \in D \cup {Null} |-> w[x]]
    OBVIOUS
  <2> HIDE DEF w
  <2> QED
    BY <2>3, <2>4
<1>8. scan = F(scan)
  <2> HIDE DEF F, w
  <2> QED
    BY <1>7
<1>9. Scan(h, n, c) = scan[c]
  BY DEF Scan
<1> HIDE DEF scan, w
<1>10. \A x \in D \cup {Null} :
         scan[x] = IF x = Null \/ Fits(h, x, n) THEN x ELSE scan[h[x].next]
  BY <1>8
<1> DEFINE H == {k \in Nat : \E x \in D : k = End - x /\ ~ Right(x, scan[x])}
<1>11. H = {}
  <2> SUFFICES ASSUME H # {} PROVE FALSE
    OBVIOUS
  <2>1. H \in SUBSET Nat
    OBVIOUS
  <2>2. \E k \in H : \A j \in H : k <= j
    <3> HIDE DEF H
    <3> QED
      BY <2>1, FirstExists
  <2>3. PICK k \in H : \A j \in H : k <= j
    BY <2>2
  <2>4. PICK x \in D : k = End - x /\ ~ Right(x, scan[x])
    OBVIOUS
  <2> HIDE DEF Right
  <2>5. ~ Fits(h, x, n) /\ scan[x] = scan[h[x].next]
    BY <1>1, <1>2, <1>10, <2>4
  <2>6. CASE h[x].next = Null
    <3>1. scan[Null] = Null
      BY <1>10
    <3> QED
      BY <1>3, <2>4, <2>5, <2>6, <3>1
  <2>7. CASE h[x].next # Null
    <3> DEFINE z == h[x].next
    <3>1. z \in D /\ x < z
      BY <2>7, NextIsLowest
    <3>2. ~ Right(z, scan[z])
      BY <1>4, <2>4, <2>5, <2>7
    <3> HIDE DEF z
    <3>3. End - z \in Nat /\ ~ (k <= End - z)
      BY <1>1, <2>4, <3>1, AddrFacts
    <3> QED
      BY <2>3, <3>1, <3>2, <3>3
  <2> QED
    BY <2>6, <2>7
<1>12. Right(c, scan[c])
  <2>1. End - c \in Nat
    BY <1>1, AddrFacts
  <2> HIDE DEF Right
  <2> QED
    BY <1>11, <2>1
<1> QED
  BY <1>9, <1>12

(* The loop of malloc, whatever the arena has become, stops at the lowest
   chunk that fits. *)
THEOREM ScanFindsFirst == Spec => []ScanIsFirstFit
<1>1. HeapInv => ScanIsFirstFit
  <2> SUFFICES ASSUME HeapInv, active, first # Null, NEW n \in Requests
               PROVE  IF Scan(heap, n, first) = Null
                      THEN \A c \in Chunks : ~ Fits(heap, c, n)
                      ELSE FirstFit(Scan(heap, n, first), n)
    BY DEF ScanIsFirstFit
  <2>1. first = Start /\ WellFormed(heap) /\ n \in Nat
    BY DEF HeapInv
  <2>2. Start \in DOMAIN heap
    BY <2>1 DEF HeapInv, WellFormed, Typed
  <2> QED
    <3>1. \A c \in DOMAIN heap : Start <= c
      BY <2>1, AddrFacts DEF WellFormed, Typed
    <3> QED
      BY <2>1, <2>2, <3>1, ScanFinds DEF LowestFrom, FirstFit, Chunks
<1> QED
  BY <1>1, Invariance, PTL

(* When all blocks are back the arena is one free chunk again: repeated
   allocation and release, in any order, never fragments the heap for good. *)
THEOREM NoLeak == Spec => []NothingLeaks
<1>1. HeapInv => NothingLeaks
  <2> SUFFICES ASSUME HeapInv, active, blocks = {}, HeapSize >= HeaderSize
               PROVE  heap = Fresh
    BY DEF NothingLeaks, Fresh
  <2>1. /\ WellFormed(heap) /\ Start \in DOMAIN heap /\ Null \notin DOMAIN heap
        /\ \A a \in DOMAIN heap : heap[a].allocated = FALSE /\ heap[a] \in MemoryChunk
    BY AddrFacts DEF HeapInv, NoOrphanIn, WellFormed, Typed, MemoryChunk
  <2>2. heap[Start].next = Null
    BY <2>1 DEF HeapInv, CoalescedExcept, WellFormed, LinkedIn
  <2>3. ChunkEnd(heap, Start) = End
    BY <2>1, <2>2 DEF WellFormed, TiledIn
  <2>4. heap[Start].size = HeapSize - HeaderSize
    BY <2>1, <2>3, ChunkEndInArena DEF ChunkEnd, End
  <2>5. heap[Start].prev = Null
    BY <2>1 DEF WellFormed, LinkedIn
  <2>6. DOMAIN heap = {Start}
    <3> SUFFICES ASSUME NEW d \in DOMAIN heap, d # Start
                 PROVE  FALSE
      BY <2>1
    <3>1. d \in Nat /\ Start < d
      BY <2>1, AddrFacts DEF WellFormed, Typed
    <3>2. End <= d
      BY <2>1, <2>3, <3>1 DEF WellFormed, TiledIn
    <3> QED
      BY <2>1, <3>1, <3>2, ChunkEndInArena, AddrFacts
  <2>7. heap[Start] = [next |-> Null, prev |-> Null, allocated |-> FALSE,
                       size |-> HeapSize - HeaderSize]
    BY <2>1, <2>2, <2>4, <2>5 DEF MemoryChunk
  <2> QED
    BY <2>1, <2>6, <2>7 DEF Fresh, WellFormed, Typed
<1> QED
  BY <1>1, Invariance, PTL

-----------------------------------------------------------------------------

(* What malloc does to the allocated chunks: one more, the others as before. *)
LEMMA MallocAllocates ==
  ASSUME HeapInv, NEW n \in Requests, Malloc(n)
  PROVE  \E c \in DOMAIN heap :
           /\ ~ heap[c].allocated
           /\ c \in DOMAIN heap' /\ heap'[c].allocated /\ heap'[c].size >= n
           /\ heap'[c].size > 0 \/ heap'[c].next # Null
           /\ \A a \in DOMAIN heap \ {c} :
                /\ a \in DOMAIN heap'
                /\ heap'[a].allocated = heap[a].allocated
                /\ heap'[a].size = heap[a].size
           /\ \A a \in DOMAIN heap' :
                a # c /\ heap'[a].allocated => a \in DOMAIN heap
<1>1. PICK c \in Chunks :
        /\ FirstFit(c, n)
        /\ heap' = MarkAllocated(
                     IF Splittable(heap, c, n) THEN Split(heap, c, n) ELSE heap, c)
  BY DEF Malloc
<1> DEFINE s == IF Splittable(heap, c, n) THEN Split(heap, c, n) ELSE heap
<1>2. /\ n \in Nat /\ c \in DOMAIN heap /\ heap[c].size \in Nat
      /\ heap[c].size > n /\ ~ heap[c].allocated /\ WellFormed(heap)
  BY <1>1, ChunkEndInArena DEF HeapInv, Chunks, FirstFit, Fits
<1>3. Splittable(heap, c, n) => SplitOff(heap, c, n, s)
  BY <1>2, SplitWellFormed
<1>4. /\ WellFormed(s) /\ c \in DOMAIN s /\ s[c].size >= n
      /\ s[c].size > 0 \/ s[c].next # Null
      /\ DOMAIN heap \subseteq DOMAIN s
      /\ \A a \in DOMAIN s : a # c /\ s[a].allocated => a \in DOMAIN heap
      /\ \A a \in DOMAIN heap \ {c} : /\ s[a].size = heap[a].size
                                      /\ s[a].allocated = heap[a].allocated
  BY <1>2, <1>3, AddrFacts DEF SplitOff, WellFormed, Typed
<1>5. heap' = [s EXCEPT ![c].allocated = TRUE]
  BY <1>1 DEF MarkAllocated
<1> HIDE DEF s
<1>6. /\ DOMAIN heap' = DOMAIN s
      /\ heap'[c].allocated = TRUE /\ heap'[c].size = s[c].size
      /\ heap'[c].next = s[c].next
      /\ \A a \in DOMAIN s \ {c} : heap'[a] = s[a]
  BY <1>4, <1>5, FlagWellFormed
<1> QED
  BY <1>2, <1>4, <1>6

(* What free does to the allocated chunks: one less, the others as before. *)
LEMMA FreeReleases ==
  ASSUME HeapInv, NEW b \in blocks, Free(b)
  PROVE  LET c == b.ptr - HeaderSize
         IN  /\ c \in DOMAIN heap /\ heap[c].allocated
             /\ \A a \in DOMAIN heap \ {c} : heap[a].allocated =>
                  a \in DOMAIN heap' /\ heap'[a].allocated
                  /\ heap'[a].size = heap[a].size
             /\ \A a \in DOMAIN heap' : heap'[a].allocated =>
                  a \in DOMAIN heap \ {c} /\ heap[a].allocated
<1> DEFINE c == b.ptr - HeaderSize
<1>1. /\ c \in DOMAIN heap /\ heap[c].allocated /\ WellFormed(heap)
      /\ CoalescedExcept(heap, Null) /\ heap' = FreeChunk(heap, c)
  BY DEF HeapInv, HeldIn, Free
<1>2. SameAllocated(MarkFree(heap, c), heap')
  BY <1>1, FreeChunkFacts
<1>3. /\ DOMAIN MarkFree(heap, c) = DOMAIN heap
      /\ MarkFree(heap, c)[c].allocated = FALSE
      /\ \A a \in DOMAIN heap \ {c} : MarkFree(heap, c)[a] = heap[a]
  BY <1>1, FlagWellFormed DEF MarkFree
<1> QED
  BY <1>1, <1>2, <1>3 DEF SameAllocated

(* No call moves or resizes a block some client still holds. *)
THEOREM BlocksStable == Spec => HeldBlocksStable
<1>1. HeapInv /\ [Next]_vars =>
        [\A b \in blocks \cap blocks' :
           b.ptr - HeaderSize \in DOMAIN heap =>
             /\ b.ptr - HeaderSize \in DOMAIN heap'
             /\ heap'[b.ptr - HeaderSize].size = heap[b.ptr - HeaderSize].size
             /\ heap'[b.ptr - HeaderSize].allocated
                  = heap[b.ptr - HeaderSize].allocated]_vars
  <2> SUFFICES ASSUME HeapInv, Next, NEW x \in blocks \cap blocks'
               PROVE  LET c == x.ptr - HeaderSize
                      IN  /\ c \in DOMAIN heap'
                          /\ heap'[c].size = heap[c].size
                          /\ heap'[c].allocated = heap[c].allocated
    BY DEF vars
  <2> DEFINE c == x.ptr - HeaderSize
  <2>1. c \in DOMAIN heap /\ heap[c].allocated
    BY DEF HeapInv, HeldIn
  <2>2. CASE Construct
    BY <2>1, <2>2, EmptyWellFormed DEF Construct
  <2>3. CASE Destroy
    BY <2>1, <2>3 DEF Destroy
  <2>4. ASSUME NEW n \in Requests, Malloc(n)
        PROVE  c \in DOMAIN heap' /\ heap'[c].size = heap[c].size
               /\ heap'[c].allocated = heap[c].allocated
    BY <2>1, <2>4, MallocAllocates
  <2>5. ASSUME NEW n \in Requests, MallocFails(n)
        PROVE  c \in DOMAIN heap' /\ heap'[c].size = heap[c].size
               /\ heap'[c].allocated = heap[c].allocated
    BY <2>1, <2>5 DEF MallocFails, vars
  <2>6. ASSUME NEW b \in blocks, Free(b)
        PROVE  c \in DOMAIN heap' /\ heap'[c].size = heap[c].size
               /\ heap'[c].allocated = heap[c].allocated
    <3>1. x # b /\ x \in blocks
      BY <2>6 DEF Free
    <3>2. c # b.ptr - HeaderSize
      <4>1. x.ptr # b.ptr
        BY <3>1 DEF HeapInv, HeldIn
      <4>2. x.ptr \in Nat /\ b.ptr \in Nat
        BY DEF HeapInv
      <4> QED
        BY <4>1, <4>2
    <3>3. c \in DOMAIN heap' /\ heap'[c].allocated /\ heap'[c].size = heap[c].size
      BY <2>1, <2>6, <3>2, FreeReleases
    <3>4. WellFormed(heap) /\ WellFormed(heap')
      BY <2>6, FreeInv DEF HeapInv
    <3>5. heap[c].allocated = TRUE /\ heap'[c].allocated = TRUE
      BY <2>1, <3>3, <3>4, ChunkEndInArena DEF MemoryChunk
    <3> QED
      BY <3>3, <3>5
  <2>7. ASSUME NEW b \in blocks, FreeIgnored(b)
        PROVE  c \in DOMAIN heap' /\ heap'[c].size = heap[c].size
               /\ heap'[c].allocated = heap[c].allocated
    BY <2>1, <2>7 DEF FreeIgnored
  <2> QED
    BY <2>2, <2>3, <2>4, <2>5, <2>6, <2>7 DEF Next
<1> QED
  BY <1>1, Invariance, PTL DEF Spec, HeldBlocksStable

-----------------------------------------------------------------------------

(* An allocated chunk, as a block of the abstract allocator. *)
BlockOf(h, c) == [ptr |-> c + HeaderSize, len |-> h[c].size]

(* The block of an allocated chunk lies in the arena and clear of the blocks
   of all others. *)
LEMMA AllocatedBlockFits ==
  ASSUME NEW h, WellFormed(h),
         NEW c \in DOMAIN h, h[c].size > 0 \/ h[c].next # Null
  PROVE  /\ BlockOf(h, c) \in Abstract!Block
         /\ Abstract!Bytes(BlockOf(h, c)) \subseteq Abstract!Arena
         /\ \A d \in DOMAIN h : d # c =>
              /\ BlockOf(h, d).ptr # BlockOf(h, c).ptr
              /\ ~ Abstract!Overlap(BlockOf(h, d), BlockOf(h, c))
<1>1. /\ c \in Nat /\ h[c].size \in Nat /\ ChunkEnd(h, c) <= End
      /\ ChunkEnd(h, c) = c + HeaderSize + h[c].size /\ Start <= c
  BY ChunkEndInArena, AddrFacts DEF WellFormed, Typed, ChunkEnd
<1>2. c + HeaderSize < End
  <2>1. CASE h[c].size > 0
    BY <1>1, <2>1, AddrFacts
  <2>2. CASE h[c].next # Null
    <3>1. h[c].next \in DOMAIN h /\ h[c].next = ChunkEnd(h, c)
      BY <2>2 DEF WellFormed, LinkedIn, TiledIn
    <3>2. ChunkEnd(h, c) < End
      BY <3>1, ChunkEndInArena, AddrFacts DEF WellFormed, Typed
    <3> QED
      BY <1>1, <3>2, AddrFacts
  <2> QED
    BY <2>1, <2>2
<1>3. BlockOf(h, c) \in Abstract!Block
  BY <1>1, <1>2, AddrFacts DEF BlockOf, Abstract!Block, Abstract!Arena
<1>4. Abstract!Bytes(BlockOf(h, c)) \subseteq Abstract!Arena
  BY <1>1, AddrFacts DEF BlockOf, Abstract!Bytes, Abstract!Arena
<1>5. ASSUME NEW d \in DOMAIN h, d # c
      PROVE  /\ BlockOf(h, d).ptr # BlockOf(h, c).ptr
             /\ ~ Abstract!Overlap(BlockOf(h, d), BlockOf(h, c))
  <2>1. /\ d \in Nat /\ h[d].size \in Nat
        /\ ChunkEnd(h, d) = d + HeaderSize + h[d].size
        /\ ChunkEnd(h, c) <= d \/ ChunkEnd(h, d) <= c
    BY <1>5, ChunkEndInArena, ChunksApart DEF ChunkEnd
  <2> QED
    BY <1>1, <1>5, <2>1 DEF BlockOf, Abstract!Overlap, Abstract!Bytes
<1> QED
  BY <1>3, <1>4, <1>5

(* The kernel heap implements the block allocator its clients rely on. *)
THEOREM Implementation == Spec => ImplementsBlockAllocator
<1>1. Init => Abstract!Init
  BY EmptyWellFormed DEF Init, Abstract!Init, AllocatedBlocks, Chunks
<1>2. HeapInv /\ HeapInv' /\ [Next]_vars => [Abstract!Next]_AllocatedBlocks
  <2> SUFFICES ASSUME HeapInv, HeapInv', [Next]_vars
               PROVE  Abstract!Next \/ AllocatedBlocks' = AllocatedBlocks
    OBVIOUS
  <2>0. /\ AllocatedBlocks = {BlockOf(heap, a) : a \in {d \in DOMAIN heap : heap[d].allocated}}
        /\ AllocatedBlocks' = {BlockOf(heap', a) : a \in {d \in DOMAIN heap' : heap'[d].allocated}}
    BY DEF AllocatedBlocks, BlockOf, Chunks
  <2>1. CASE Construct
    <3>1. AllocatedBlocks = {}
      BY <2>0, <2>1, EmptyWellFormed DEF Construct
    <3>2. \A a \in DOMAIN heap' : ~ heap'[a].allocated
      <4>1. CASE HeapSize < HeaderSize
        BY <2>1, <4>1, EmptyWellFormed DEF Construct
      <4>2. CASE HeapSize >= HeaderSize
        <5>1. heap' = Fresh
          BY <2>1, <4>2 DEF Construct, Fresh
        <5> QED
          BY <4>2, <5>1, FreshWellFormed
      <4> QED
        BY <4>1, <4>2
    <3> QED
      BY <2>0, <3>1, <3>2
  <2>2. CASE Destroy
    BY <2>2 DEF Destroy, AllocatedBlocks, Chunks
  <2>3. ASSUME NEW n \in Requests, Malloc(n)
        PROVE  Abstract!Next
    <3>1. PICK c \in DOMAIN heap :
            /\ ~ heap[c].allocated
            /\ c \in DOMAIN heap' /\ heap'[c].allocated /\ heap'[c].size >= n
            /\ heap'[c].size > 0 \/ heap'[c].next # Null
            /\ \A a \in DOMAIN heap \ {c} :
                 /\ a \in DOMAIN heap'
                 /\ heap'[a].allocated = heap[a].allocated
                 /\ heap'[a].size = heap[a].size
            /\ \A a \in DOMAIN heap' :
                 a # c /\ heap'[a].allocated => a \in DOMAIN heap
      BY <2>3, MallocAllocates
    <3>3. /\ BlockOf(heap', c) \in Abstract!Block
          /\ Abstract!Bytes(BlockOf(heap', c)) \subseteq Abstract!Arena
          /\ \A d \in DOMAIN heap' : d # c =>
               /\ BlockOf(heap', d).ptr # BlockOf(heap', c).ptr
               /\ ~ Abstract!Overlap(BlockOf(heap', d), BlockOf(heap', c))
      BY <3>1, AllocatedBlockFits DEF HeapInv
    <3>4. \A a \in DOMAIN heap : heap[a].allocated =>
            /\ a \in DOMAIN heap' \ {c}
            /\ BlockOf(heap', a) = BlockOf(heap, a)
      BY <3>1 DEF BlockOf
    <3>5. AllocatedBlocks' = AllocatedBlocks \cup {BlockOf(heap', c)}
      BY <2>0, <3>1, <3>4
    <3>6. \A a \in AllocatedBlocks :
            /\ a.ptr # BlockOf(heap', c).ptr
            /\ ~ Abstract!Overlap(a, BlockOf(heap', c))
      BY <2>0, <3>3, <3>4
    <3>7. BlockOf(heap', c).len >= n
      BY <3>1 DEF BlockOf
    <3> QED
      BY <3>3, <3>5, <3>6, <3>7 DEF Abstract!Next, Abstract!Alloc
  <2>4. ASSUME NEW n \in Requests, MallocFails(n)
        PROVE  AllocatedBlocks' = AllocatedBlocks
    BY <2>4 DEF MallocFails, vars, AllocatedBlocks, Chunks
  <2>5. ASSUME NEW b \in blocks, Free(b)
        PROVE  Abstract!Next
    <3> DEFINE c == b.ptr - HeaderSize
    <3>1. /\ c \in DOMAIN heap /\ heap[c].allocated
          /\ \A a \in DOMAIN heap \ {c} : heap[a].allocated =>
               a \in DOMAIN heap' /\ heap'[a].allocated
               /\ heap'[a].size = heap[a].size
          /\ \A a \in DOMAIN heap' : heap'[a].allocated =>
               a \in DOMAIN heap \ {c} /\ heap[a].allocated
      BY <2>5, FreeReleases
    <3>2. \A a \in DOMAIN heap : a # c => BlockOf(heap, a) # BlockOf(heap, c)
      BY <3>1, AddrFacts DEF BlockOf, HeapInv, WellFormed, Typed
    <3>3. AllocatedBlocks' = AllocatedBlocks \ {BlockOf(heap, c)}
      <4>1. \A a \in DOMAIN heap' : heap'[a].allocated =>
              BlockOf(heap', a) = BlockOf(heap, a)
        BY <3>1 DEF BlockOf
      <4> QED
        BY <2>0, <3>1, <3>2, <4>1
    <3>4. BlockOf(heap, c) \in AllocatedBlocks
      BY <2>0, <3>1
    <3> QED
      BY <3>3, <3>4 DEF Abstract!Next, Abstract!Release
  <2>6. ASSUME NEW b \in blocks, FreeIgnored(b)
        PROVE  AllocatedBlocks' = AllocatedBlocks
    BY <2>6 DEF FreeIgnored, AllocatedBlocks, Chunks
  <2>7. CASE UNCHANGED vars
    BY <2>7 DEF vars, AllocatedBlocks, Chunks
  <2> QED
    BY <2>1, <2>2, <2>3, <2>4, <2>5, <2>6, <2>7 DEF Next
<1> QED
  BY <1>1, <1>2, Invariance, PTL DEF Spec, ImplementsBlockAllocator, Abstract!Spec
=============================================================================
