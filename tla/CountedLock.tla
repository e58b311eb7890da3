---------------------------- MODULE CountedLock -----------------------------
(***************************************************************************)
(* The counted lock of spinlock.cpp: readers count up, a writer puts -1.   *)
(* The count is a plain integer: every load and every store is a step of   *)
(* its own (the two 32-bit halves of one access are taken together).       *)
(*                                                                         *)
(* A user is one context of the single processor.  Under the preemptive    *)
(* schedule any user may run next.  Under the nested one a higher user is  *)
(* an interrupt that runs to completion: it may start at any step of the   *)
(* users below it, and these stand still until it is done.                 *)
(***************************************************************************)
EXTENDS Integers, FiniteSets

CONSTANTS
  Users,        \* numbered contexts
  Preemptive    \* TRUE: threads; FALSE: nested interrupts

ASSUME UsersAssumption == Users \subseteq Nat /\ IsFiniteSet(Users)
ASSUME PreemptiveAssumption == Preemptive \in BOOLEAN

VARIABLES
  cnt,          \* SpinlockCnt::cnt
  at,           \* where each user is
  loaded,       \* the count a user has in a register
  reported      \* a release has printed "error"

cntVars == <<cnt, at, loaded, reported>>

CntInit ==
  /\ cnt = 0
  /\ at = [u \in Users |-> "idle"]
  /\ loaded = [u \in Users |-> 0]
  /\ reported = FALSE

MayRun(u) == Preemptive \/ \A v \in Users : v > u => at[v] = "idle"

Move(u, from, to) == MayRun(u) /\ at[u] = from /\ at' = [at EXCEPT ![u] = to]

Stay == UNCHANGED <<cnt, loaded, reported>>
Load(u) == loaded' = [loaded EXCEPT ![u] = cnt] /\ UNCHANGED <<cnt, reported>>
Store(value) == cnt' = value /\ UNCHANGED <<loaded, reported>>
Report(bad) == reported' = (reported \/ bad) /\ UNCHANGED <<cnt, loaded>>

(* spinlockCntReadAcquire: spin while the count is negative, then count up *)
ReadAcquire(u) ==
  \/ Move(u, "idle", "readTest") /\ Stay
  \/ cnt >= 0 /\ Move(u, "readTest", "readLoad") /\ Stay
  \/ Move(u, "readLoad", "readStore") /\ Load(u)
  \/ Move(u, "readStore", "reading") /\ Store(loaded[u] + 1)

(* spinlockCntReadRelease: complain of a negative count, then count down *)
ReadRelease(u) ==
  \/ Move(u, "reading", "leaveLoad") /\ Report(cnt < 0)
  \/ Move(u, "leaveLoad", "leaveStore") /\ Load(u)
  \/ Move(u, "leaveStore", "idle") /\ Store(loaded[u] - 1)

\* mutant: a writer puts its mark without waiting for the readers to leave
WriteAcquireEager(u) ==
  \/ Move(u, "idle", "writeStore") /\ Stay
  \/ Move(u, "writeStore", "writing") /\ Store(-1)

(* spinlockCntWriteAcquire: spin while the count is not zero, then put -1 *)
WriteAcquire(u) ==
  \/ Move(u, "idle", "writeTest") /\ Stay
  \/ cnt = 0 /\ Move(u, "writeTest", "writeStore") /\ Stay
  \/ Move(u, "writeStore", "writing") /\ Store(-1)

(* spinlockCntWriteRelease: complain unless the count is -1, then zero *)
WriteRelease(u) ==
  \/ Move(u, "writing", "writeClear") /\ Report(cnt # -1)
  \/ Move(u, "writeClear", "idle") /\ Store(0)

CntNext ==
  \E u \in Users : ReadAcquire(u) \/ ReadRelease(u) \/ WriteAcquire(u) \/ WriteRelease(u)

CntSpec == CntInit /\ [][CntNext]_cntVars

-----------------------------------------------------------------------------

(* The checks the release functions make of the count never fire when the
   functions are used in pairs. *)
ReleaseChecksHold == ~ reported

(* However acquisitions and releases are nested, the count is the number of
   readers inside or the mark of a writer who is there alone: so nobody reads or
   writes beside a writer, and a lock with nobody inside is free. *)
Readers == {u \in Users : at[u] \in {"reading", "leaveLoad", "leaveStore"}}
Writers == {u \in Users : at[u] \in {"writing", "writeClear"}}
CountTellsWhoIsInside ==
  /\ Writers # {} => Readers = {} /\ Cardinality(Writers) = 1
  /\ cnt = IF Writers = {} THEN Cardinality(Readers) ELSE -1
=============================================================================
