--------------------------- MODULE BlockAllocator ---------------------------
(***************************************************************************)
(* What a client of the kernel heap relies on: it is handed blocks of at   *)
(* least the length it asked for, which lie inside the arena, overlap no   *)
(* other block in use, and stay where they are until they are given back.  *)
(* Nothing is said of chunks, headers, splitting or coalescing: module     *)
(* Heap implements this specification.                                     *)
(***************************************************************************)
EXTENDS Integers

CONSTANTS
  ArenaStart,   \* the heap may hand out ArenaStart .. ArenaEnd - 1
  ArenaEnd,
  Requests      \* the lengths clients ask for

VARIABLE
  inUse         \* blocks held by clients, records [ptr, len]

Arena == ArenaStart .. ArenaEnd - 1
Block == [ptr : Arena, len : 0 .. ArenaEnd - ArenaStart]

Bytes(b) == b.ptr .. b.ptr + b.len - 1

Overlap(a, b) == \E x \in Bytes(a) : x \in Bytes(b)

Init == inUse = {}

(* The allocator may give more than was asked for, never less. *)
Alloc(n) ==
  \E b \in Block :
    /\ b.len >= n
    /\ Bytes(b) \subseteq Arena
    /\ \A a \in inUse : a.ptr # b.ptr /\ ~ Overlap(a, b)
    /\ inUse' = inUse \cup {b}

Release(b) == inUse' = inUse \ {b}

Next ==
  \/ \E n \in Requests : Alloc(n)
  \/ \E b \in inUse : Release(b)

Spec == Init /\ [][Next]_inUse
=============================================================================
