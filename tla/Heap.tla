-------------------------------- MODULE Heap --------------------------------
(***************************************************************************)
(* The kernel heap of memorymanagement.cpp: one arena carved into chunks,  *)
(* each a header followed by its payload, kept in a doubly linked list.    *)
(* malloc is first fit with splitting, free coalesces with both            *)
(* neighbours.                                                             *)
(*                                                                         *)
(* The memory that holds headers is `heap', a function from the address of *)
(* every header the list is made of to its MemoryChunk; merging a chunk    *)
(* away removes its address, so that a link left pointing at it dangles.   *)
(* `blocks' is what clients hold: it is never read by the allocator, it    *)
(* only says which pointers may be freed.  Every call runs to completion.  *)
(***************************************************************************)
EXTENDS Integers, FiniteSets

CONSTANTS
  Start,        \* address of the arena (10 MiB in kernelMain)
  HeapSize,     \* its length in bytes
  HeaderSize,   \* sizeof(MemoryChunk)
  Requests      \* the lengths clients ask malloc for

ASSUME StartAssumption == Start \in Nat \ {0}
ASSUME HeapSizeAssumption == HeapSize \in Nat
ASSUME HeaderSizeAssumption == HeaderSize \in Nat \ {0}
ASSUME RequestsAssumption == Requests \subseteq Nat

VARIABLES
  active,       \* activeMemoryManager points at this manager
  first,        \* MemoryManager::first
  heap,         \* header address -> MemoryChunk
  blocks        \* records [ptr, len]: pointers clients hold, length asked for

vars == <<active, first, heap, blocks>>

Null == 0
End == Start + HeapSize
Addr == Start .. End
Arena == Start .. End - 1

MemoryChunk == [next : Addr \cup {Null}, prev : Addr \cup {Null},
                allocated : BOOLEAN, size : Nat]

Chunks == DOMAIN heap

\* first address after the payload of chunk c
ChunkEnd(h, c) == c + HeaderSize + h[c].size

-----------------------------------------------------------------------------

(* Before the constructor runs there is no manager: operator new returns 0. *)
Init ==
  /\ active = FALSE
  /\ first = Null
  /\ heap = << >>
  /\ blocks = {}

(* MemoryManager::MemoryManager; an arena with no room for a header is left
   without a list. *)
Construct ==
  /\ ~ active
  /\ heap = << >>
  /\ active' = TRUE
  /\ \/ /\ HeapSize < HeaderSize
        /\ first' = Null
        /\ heap' = << >>
     \/ /\ HeapSize >= HeaderSize
        /\ first' = Start
        /\ heap' = [a \in {Start} |->
                      [next |-> Null, prev |-> Null, allocated |-> FALSE,
                       size |-> HeapSize - HeaderSize]]
  /\ UNCHANGED blocks

(* MemoryManager::~MemoryManager *)
Destroy ==
  /\ active
  /\ active' = FALSE
  /\ UNCHANGED <<first, heap, blocks>>

-----------------------------------------------------------------------------

\* mutant: the scan forgets to skip allocated chunks
FitsAllocated(h, c, n) == h[c].size > n

Fits(h, c, n) == h[c].size > n /\ ~ h[c].allocated

(* The loop of malloc as it is written: from a chunk, follow next to the first
   chunk that is free and larger than n. *)
Scan(h, n, from) ==
  LET scan[c \in DOMAIN h \cup {Null}] ==
        IF c = Null \/ Fits(h, c, n) THEN c ELSE scan[h[c].next]
  IN  scan[from]

(* The chunk that loop stops at (ScanIsFirstFit): the list is in address
   order, so the first that fits is the lowest one. *)
FirstFit(c, n) ==
  /\ c \in Chunks
  /\ Fits(heap, c, n)
  /\ \A d \in Chunks : Fits(heap, d, n) => c <= d

Splittable(h, c, n) == h[c].size >= n + HeaderSize + 1

\* mutant: the remainder is made but result->next is left alone
SplitUnlinked(h, c, n) ==
  LET temp == c + HeaderSize + n
  IN  [a \in DOMAIN h \cup {temp} |->
         IF a = temp THEN [next |-> h[c].next, prev |-> c, allocated |-> FALSE,
                           size |-> h[c].size - n - HeaderSize]
         ELSE IF a = c THEN [h[c] EXCEPT !.size = n]
         ELSE h[a]]

(* Chunk c keeps n bytes; the rest becomes a free chunk behind it. *)
Split(h, c, n) ==
  LET temp == c + HeaderSize + n
  IN  [a \in DOMAIN h \cup {temp} |->
         IF a = temp THEN [next |-> h[c].next, prev |-> c, allocated |-> FALSE,
                           size |-> h[c].size - n - HeaderSize]
         ELSE IF a = c THEN [h[c] EXCEPT !.size = n, !.next = temp]
         ELSE IF a = h[c].next THEN [h[a] EXCEPT !.prev = temp]
         ELSE h[a]]

MarkAllocated(h, c) == [h EXCEPT ![c].allocated = TRUE]

(* MemoryManager::malloc that finds a chunk, as called by operator new *)
Malloc(n) ==
  /\ active
  /\ \E c \in Chunks :
       /\ FirstFit(c, n)
       /\ heap' = MarkAllocated(
                    IF Splittable(heap, c, n) THEN Split(heap, c, n) ELSE heap, c)
       /\ blocks' = blocks \cup {[ptr |-> c + HeaderSize, len |-> n]}
  /\ UNCHANGED <<active, first>>

(* malloc that finds none, or operator new without a manager: a null pointer *)
MallocFails(n) ==
  /\ active => \A c \in Chunks : ~ Fits(heap, c, n)
  /\ UNCHANGED vars

-----------------------------------------------------------------------------

\* mutant: the chunk behind the merged one keeps its old prev link
AbsorbOneWay(h, c, d) ==
  [a \in DOMAIN h \ {d} |->
     IF a = c THEN [h[c] EXCEPT !.next = h[d].next,
                                !.size = h[c].size + h[d].size + HeaderSize]
     ELSE h[a]]

(* Chunk d, the one behind c, becomes part of c. *)
Absorb(h, c, d) ==
  [a \in DOMAIN h \ {d} |->
     IF a = c THEN [h[c] EXCEPT !.next = h[d].next,
                                !.size = h[c].size + h[d].size + HeaderSize]
     ELSE IF a = h[d].next THEN [h[a] EXCEPT !.prev = c]
     ELSE h[a]]

MarkFree(h, c) == [h EXCEPT ![c].allocated = FALSE]

\* mutants: a neighbour is taken in without looking at its allocated flag
FreePrevUnchecked(h, c) == h[c].prev # Null
FreeNextUnchecked(h, c) == h[c].next # Null

FreePrev(h, c) == h[c].prev # Null /\ ~ h[h[c].prev].allocated

\* mutants: free looks at one neighbour only
CoalescePrevSkipped(h, c) == h
CoalesceNextSkipped(h, c) == h

CoalescePrev(h, c) ==
  IF FreePrev(h, c) THEN Absorb(h, h[c].prev, c) ELSE h

FreeNext(h, c) == h[c].next # Null /\ ~ h[h[c].next].allocated

CoalesceNext(h, c) ==
  IF FreeNext(h, c) THEN Absorb(h, c, h[c].next) ELSE h

(* the chunk free goes on with after it looked at the previous one *)
Survivor(h, c) == IF FreePrev(h, c) THEN h[c].prev ELSE c

(* MemoryManager::free on the header of a block a client holds *)
FreeChunk(h, chunk) ==
  LET freed == MarkFree(h, chunk)
  IN  CoalesceNext(CoalescePrev(freed, chunk), Survivor(freed, chunk))

Free(b) ==
  /\ active
  /\ heap' = FreeChunk(heap, b.ptr - HeaderSize)
  /\ blocks' = blocks \ {b}
  /\ UNCHANGED <<active, first>>

(* operator delete without a manager does nothing: the block is lost *)
FreeIgnored(b) ==
  /\ ~ active
  /\ blocks' = blocks \ {b}
  /\ UNCHANGED <<active, first, heap>>

-----------------------------------------------------------------------------

Next ==
  \/ Construct
  \/ Destroy
  \/ \E n \in Requests : Malloc(n) \/ MallocFails(n)
  \/ \E b \in blocks : Free(b) \/ FreeIgnored(b)

Spec == Init /\ [][Next]_vars

-----------------------------------------------------------------------------

(* Every variable has its type. *)
TypeOK ==
  /\ active \in BOOLEAN
  /\ first \in Addr \cup {Null}
  /\ Chunks \subseteq Addr
  /\ heap \in [Chunks -> MemoryChunk]
  /\ blocks \subseteq [ptr : Nat, len : Requests]

(* The chunks tile the arena: each ends where the next begins and the last
   one ends with the arena, so no byte is lost or shared, however malloc
   splits and free merges. *)
Tiled ==
  \A c \in Chunks :
    /\ IF heap[c].next = Null THEN ChunkEnd(heap, c) = End
                              ELSE heap[c].next = ChunkEnd(heap, c)
    /\ \A d \in Chunks : c < d => ChunkEnd(heap, c) <= d

(* The list is doubly linked: next and prev lead to live headers and undo
   one another, and only the first chunk has no predecessor. *)
ListLinked ==
  /\ Chunks # {} => first = Start /\ first \in Chunks
  /\ \A c \in Chunks :
       /\ heap[c].next # Null => /\ heap[c].next \in Chunks
                                 /\ heap[heap[c].next].prev = c
       /\ heap[c].prev # Null => /\ heap[c].prev \in Chunks
                                 /\ heap[heap[c].prev].next = c
       /\ heap[c].prev = Null <=> c = first

(* The chunk list is sound in both respects at once. *)
ListWellFormed == Tiled /\ ListLinked

(* free leaves no two free neighbours behind: free memory is never split
   into chunks that could be one. *)
Coalesced ==
  \A c \in Chunks :
    heap[c].next # Null => heap[c].allocated \/ heap[heap[c].next].allocated

(* The bytes a client may write, of block b, and those a header takes *)
Payload(b) == b.ptr .. b.ptr + b.len - 1
Header(c) == c .. c + HeaderSize - 1

(* What a client writes into its block reaches no header and no other
   client's block, and stays inside the arena: for the blocks held while
   the manager lives. *)
BlocksIsolated ==
  active => \A b \in blocks :
    /\ Payload(b) \subseteq Arena
    /\ \A c \in Chunks : Payload(b) \cap Header(c) = {}
    /\ \A a \in blocks : a # b => a.ptr # b.ptr /\ Payload(a) \cap Payload(b) = {}

(* Nothing leaks: once every client has freed its blocks, in whatever order,
   the arena is again the single free chunk the constructor made. *)
NothingLeaks ==
  (active /\ blocks = {} /\ HeapSize >= HeaderSize) =>
    heap = [a \in {Start} |-> [next |-> Null, prev |-> Null, allocated |-> FALSE,
                               size |-> HeapSize - HeaderSize]]

(* malloc's walk along the links stops exactly at the lowest chunk that fits,
   and finds none only when none fits. *)
ScanIsFirstFit ==
  (active /\ first # Null) =>
    \A n \in Requests :
      LET found == Scan(heap, n, first)
      IN  IF found = Null THEN \A c \in Chunks : ~ Fits(heap, c, n)
                          ELSE FirstFit(found, n)

(* A block does not shrink or move while it is held: no malloc or free of
   another client changes the size or the allocated flag in its header. *)
HeldBlocksStable ==
  [][\A b \in blocks \cap blocks' :
       b.ptr - HeaderSize \in DOMAIN heap =>
         /\ b.ptr - HeaderSize \in DOMAIN heap'
         /\ heap'[b.ptr - HeaderSize].size = heap[b.ptr - HeaderSize].size
         /\ heap'[b.ptr - HeaderSize].allocated = heap[b.ptr - HeaderSize].allocated]_vars

-----------------------------------------------------------------------------

(* Refinement: an allocated chunk is a block in use of the abstract allocator. *)
AllocatedBlocks ==
  {[ptr |-> c + HeaderSize, len |-> heap[c].size] :
     c \in {d \in Chunks : heap[d].allocated}}

Abstract == INSTANCE BlockAllocator WITH
  ArenaStart <- Start, ArenaEnd <- End, inUse <- AllocatedBlocks

(* Every heap call is a step of the abstract allocator or changes no block. *)
ImplementsBlockAllocator == Abstract!Spec
=============================================================================
