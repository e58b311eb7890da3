---------------------------- MODULE Locks_proofs -----------------------------
(***************************************************************************)
(* Mutual exclusion of the test-and-set lock for any set of threads, with  *)
(* the exact condition under which spinlockWait takes it away; and the     *)
(* soundness of the counted lock for any number of nested interrupts.      *)
(***************************************************************************)
EXTENDS Spinlock, CountedLock, FiniteSetTheorems, TLAPS

-----------------------------------------------------------------------------
(* The test-and-set lock. *)

(* While no holder lost the lock, the flag is set whenever a thread holds. *)
HolderHasFlag == ~ cleared => \A t \in Threads : Holding(t) => flag = 1

Inv == SpinlockTypeOK /\ MutualExclusion /\ HolderHasFlag

THEOREM TypeCorrect == Spec => []SpinlockTypeOK
<1>1. Init => SpinlockTypeOK
  BY DEF Init, SpinlockTypeOK
<1>2. SpinlockTypeOK /\ [Next]_vars => SpinlockTypeOK'
  BY DEF SpinlockTypeOK, Next, vars, Step, WaitStep, CallAcquire, TestAndSet,
         Release, CallWait, WaitTestAndSet, WaitClear, Goto
<1> QED
  BY <1>1, <1>2, PTL DEF Spec

(* spinlockAcquire and spinlockRelease exclude each other's critical sections
   for any number of threads, as long as no spinlockWait has cleared the lock
   under a holder. *)
THEOREM Exclusion == Spec => []MutualExclusion
<1>1. Init => Inv
  BY DEF Init, Inv, SpinlockTypeOK, MutualExclusion, HolderHasFlag, Holding
<1>2. Inv /\ [Next]_vars => Inv'
  <2> SUFFICES ASSUME Inv, [Next]_vars
               PROVE  Inv'
    OBVIOUS
  <2> USE DEF Inv, SpinlockTypeOK, MutualExclusion, HolderHasFlag, Holding, Goto
  <2>1. ASSUME NEW t \in Threads, CallAcquire(t) PROVE Inv'
    BY <2>1 DEF CallAcquire
  <2>2. ASSUME NEW t \in Threads, TestAndSet(t) PROVE Inv'
    <3>1. CASE flag = 0 /\ pc' = [pc EXCEPT ![t] = "critical"]
      <4>1. \A u \in Threads : u # t /\ ~ cleared => ~ Holding(u)'
        BY <2>2, <3>1, ThreadsAssumption DEF TestAndSet
      <4> QED
        BY <2>2, <3>1, <4>1, ThreadsAssumption DEF TestAndSet
    <3>2. CASE flag = 1 /\ pc' = [pc EXCEPT ![t] = "spin"]
      BY <2>2, <3>2 DEF TestAndSet
    <3> QED
      BY <2>2, <3>1, <3>2 DEF TestAndSet
  <2>3. ASSUME NEW t \in Threads, Release(t) PROVE Inv'
    <3>1. \A u \in Threads : u # t /\ ~ cleared => ~ Holding(u)
      BY <2>3 DEF Release
    <3> QED
      BY <2>3, <3>1 DEF Release
  <2>4. ASSUME NEW w \in Waiters, CallWait(w) PROVE Inv'
    BY <2>4, ThreadsAssumption DEF CallWait
  <2>5. ASSUME NEW w \in Waiters, WaitTestAndSet(w) PROVE Inv'
    BY <2>5, ThreadsAssumption DEF WaitTestAndSet
  <2>6. ASSUME NEW w \in Waiters, WaitClear(w) PROVE Inv'
    BY <2>6, ThreadsAssumption DEF WaitClear
  <2>7. CASE UNCHANGED vars
    BY <2>7 DEF vars
  <2> QED
    BY <2>1, <2>2, <2>3, <2>4, <2>5, <2>6, <2>7 DEF Next, Step, WaitStep
<1>3. Inv => MutualExclusion
  BY DEF Inv
<1> QED
  BY <1>1, <1>2, <1>3, PTL DEF Spec

-----------------------------------------------------------------------------
(* The counted lock. *)

Places ==
  {"idle", "readTest", "readLoad", "readStore", "reading", "leaveLoad",
   "leaveStore", "writeTest", "writeStore", "writing", "writeClear"}

CntTypeOK ==
  /\ cnt \in Int
  /\ at \in [Users -> Places]
  /\ loaded \in [Users -> Int]
  /\ reported \in BOOLEAN

ReadersBelow(u) == {v \in Readers : v < u}

(* A context acts on what those below it have left behind: it is past the test
   of a writer only when none of them is inside, and past that of a reader only
   when none of them writes. *)
NestedRightly ==
  \A u, v \in Users : u < v =>
    /\ v \in Writers \/ at[v] = "writeStore" => u \notin Readers \cup Writers
    /\ v \in Readers \/ at[v] \in {"readLoad", "readStore"} => u \notin Writers

(* What a context has loaded is still right when it stores: whoever came in
   between has left again. *)
LoadedRightly ==
  \A u \in Users :
    /\ at[u] = "readStore" => loaded[u] = Cardinality(ReadersBelow(u))
    /\ at[u] = "leaveStore" => loaded[u] = Cardinality(ReadersBelow(u)) + 1

CntInv ==
  /\ CntTypeOK
  /\ CountTellsWhoIsInside
  /\ NestedRightly
  /\ LoadedRightly
  /\ ReleaseChecksHold

ReaderPlaces == {"reading", "leaveLoad", "leaveStore"}
WriterPlaces == {"writing", "writeClear"}

LEMMA ReadersFinite ==
  ASSUME NEW S \in SUBSET Users
  PROVE  IsFiniteSet(S) /\ Cardinality(S) \in Nat
BY UsersAssumption, FS_Subset, FS_CardinalityType

(* Who is inside after a context has moved. *)
LEMMA InsideAfterMove ==
  ASSUME CntTypeOK, NEW u \in Users, NEW from, NEW to \in Places, Move(u, from, to)
  PROVE  /\ at' \in [Users -> Places] /\ at'[u] = to /\ at[u] = from
         /\ \A v \in Users \ {u} : at'[v] = at[v]
         /\ Readers' = IF to \in ReaderPlaces THEN Readers \cup {u} ELSE Readers \ {u}
         /\ Writers' = IF to \in WriterPlaces THEN Writers \cup {u} ELSE Writers \ {u}
<1>1. /\ at' \in [Users -> Places] /\ at'[u] = to /\ at[u] = from
      /\ \A v \in Users \ {u} : at'[v] = at[v]
  BY DEF CntTypeOK, Move
<1> QED
  BY <1>1 DEF Readers, Writers, ReaderPlaces, WriterPlaces

(* A context that runs has nobody above it inside. *)
LEMMA NobodyAbove ==
  ASSUME CntInv, ~ Preemptive, NEW u \in Users, MayRun(u)
  PROVE  /\ \A v \in Users : v > u => at[v] = "idle"
         /\ \A v \in Readers \cup Writers : v \in Users /\ v <= u
         /\ Readers = IF u \in Readers THEN ReadersBelow(u) \cup {u} ELSE ReadersBelow(u)
         /\ u \notin ReadersBelow(u)
<1>1. \A v \in Users : v > u => at[v] = "idle"
  BY DEF MayRun
<1>2. \A v \in Users : v \in Nat
  BY UsersAssumption
<1>3. ASSUME NEW v \in Readers \cup Writers PROVE v \in Users /\ v <= u
  <2>1. v \in Users /\ at[v] # "idle"
    BY DEF Readers, Writers
  <2> QED
    BY <1>1, <1>2, <2>1
<1>4. \A v \in Readers : v \in Nat /\ v <= u
  BY <1>2, <1>3
<1>5. Readers = IF u \in Readers THEN ReadersBelow(u) \cup {u} ELSE ReadersBelow(u)
  BY <1>2, <1>4 DEF ReadersBelow
<1>6. u \notin ReadersBelow(u)
  BY <1>2 DEF ReadersBelow
<1> QED
  BY <1>1, <1>3, <1>5, <1>6

(* A step of the reader's or the writer's code that moves it without anyone
   coming in or going out, and without a load or a store. *)
LEMMA CntQuietStep ==
  ASSUME CntInv, ~ Preemptive, NEW u \in Users, NEW from, NEW to \in Places,
         Move(u, from, to), UNCHANGED <<cnt, loaded, reported>>,
         from \in ReaderPlaces <=> to \in ReaderPlaces,
         from \in WriterPlaces <=> to \in WriterPlaces,
         to \notin {"readStore", "leaveStore"},
         to = "readLoad" => Writers = {},
         to = "writeStore" => Writers = {} /\ Readers = {}
  PROVE  CntInv'
<1>1. /\ Readers' = Readers /\ Writers' = Writers
      /\ at' \in [Users -> Places] /\ at'[u] = to /\ at[u] = from
      /\ \A v \in Users \ {u} : at'[v] = at[v]
  <2>1. CntTypeOK
    BY DEF CntInv
  <2>2. /\ u \in Readers <=> from \in ReaderPlaces
        /\ u \in Writers <=> from \in WriterPlaces
    BY DEF Move, Readers, Writers, ReaderPlaces, WriterPlaces
  <2>3. /\ at' \in [Users -> Places] /\ at'[u] = to /\ at[u] = from
        /\ \A v \in Users \ {u} : at'[v] = at[v]
        /\ Readers' = IF to \in ReaderPlaces THEN Readers \cup {u} ELSE Readers \ {u}
        /\ Writers' = IF to \in WriterPlaces THEN Writers \cup {u} ELSE Writers \ {u}
    BY <2>1, InsideAfterMove
  <2> QED
    BY <2>2, <2>3
<1>2. CntTypeOK' /\ CountTellsWhoIsInside' /\ ReleaseChecksHold'
  BY <1>1 DEF CntInv, CntTypeOK, CountTellsWhoIsInside, ReleaseChecksHold
<1>3. NestedRightly'
  BY <1>1 DEF CntInv, NestedRightly
<1>4. LoadedRightly'
  BY <1>1 DEF CntInv, LoadedRightly, ReadersBelow
<1> QED
  BY <1>2, <1>3, <1>4 DEF CntInv

(* The load of a release or of an acquisition, by a context that has only
   those below it beside itself. *)
LEMMA CntLoadStep ==
  ASSUME CntInv, ~ Preemptive, NEW u \in Users, MayRun(u), Load(u),
         NEW from \in {"readLoad", "leaveLoad"},
         Move(u, from, IF from = "readLoad" THEN "readStore" ELSE "leaveStore")
  PROVE  CntInv'
<1> DEFINE to == IF from = "readLoad" THEN "readStore" ELSE "leaveStore"
<1>1. /\ at' \in [Users -> Places] /\ at'[u] = to /\ at[u] = from
      /\ \A v \in Users \ {u} : at'[v] = at[v]
  BY DEF CntInv, CntTypeOK, Move, Places
<1>2. Readers' = Readers /\ Writers' = Writers
  BY <1>1 DEF Readers, Writers
<1>3. Writers = {}
  <2>1. \A v \in Users : v \in Nat
    BY UsersAssumption
  <2>2. u \notin Writers
    BY <1>1 DEF Writers
  <2>3. from = "readLoad" => \A v \in Writers : ~ v < u
    BY <1>1 DEF CntInv, NestedRightly, Writers
  <2>4. from = "leaveLoad" => \A v \in Writers : FALSE
    BY <1>1 DEF CntInv, CountTellsWhoIsInside, Readers
  <2>5. ASSUME NEW v \in Writers PROVE FALSE
    <3>1. v \in Users /\ v <= u
      BY NobodyAbove
    <3>2. v # u
      BY <2>2, <2>5
    <3>3. v \in Nat /\ u \in Nat
      BY <2>1, <3>1
    <3>4. v < u
      BY <3>1, <3>2, <3>3
    <3> QED
      BY <2>3, <2>4, <2>5, <3>4
  <2> QED
    BY <2>5
<1>4. cnt = Cardinality(Readers)
  BY <1>3 DEF CntInv, CountTellsWhoIsInside
<1>5. Cardinality(Readers) = IF from = "readLoad" THEN Cardinality(ReadersBelow(u))
                             ELSE Cardinality(ReadersBelow(u)) + 1
  <2>1. u \in Readers <=> from = "leaveLoad"
    BY <1>1 DEF Readers
  <2>2. IsFiniteSet(ReadersBelow(u))
    BY ReadersFinite DEF ReadersBelow, Readers
  <2> QED
    BY <2>1, <2>2, NobodyAbove, FS_AddElement
<1>6. loaded' = [loaded EXCEPT ![u] = cnt] /\ UNCHANGED <<cnt, reported>>
  BY DEF Load
<1>7. CntTypeOK' /\ CountTellsWhoIsInside' /\ ReleaseChecksHold'
  BY <1>1, <1>2, <1>6 DEF CntInv, CntTypeOK, CountTellsWhoIsInside, ReleaseChecksHold
<1>8. NestedRightly'
  BY <1>1, <1>2, <1>3 DEF CntInv, NestedRightly
<1>9. LoadedRightly'
  BY <1>1, <1>2, <1>4, <1>5, <1>6 DEF CntInv, CntTypeOK, LoadedRightly, ReadersBelow
<1> QED
  BY <1>7, <1>8, <1>9 DEF CntInv

(* The store that brings a reader in or takes it out. *)
LEMMA CntReaderStore ==
  ASSUME CntInv, ~ Preemptive, NEW u \in Users, MayRun(u),
         \/ Move(u, "readStore", "reading") /\ Store(loaded[u] + 1)
         \/ Move(u, "leaveStore", "idle") /\ Store(loaded[u] - 1)
  PROVE  CntInv'
<1> DEFINE comes == at[u] = "readStore"
<1>1. /\ at' \in [Users -> Places]
      /\ at[u] \in {"readStore", "leaveStore"}
      /\ at'[u] = IF comes THEN "reading" ELSE "idle"
      /\ cnt' = IF comes THEN loaded[u] + 1 ELSE loaded[u] - 1
      /\ UNCHANGED <<loaded, reported>>
      /\ \A v \in Users \ {u} : at'[v] = at[v]
  BY DEF CntInv, CntTypeOK, Move, Store, Places
<1>2. /\ Readers' = IF comes THEN Readers \cup {u} ELSE Readers \ {u}
      /\ Writers' = Writers /\ u \notin Writers
      /\ u \in Readers <=> ~ comes
  BY <1>1 DEF Readers, Writers
<1>3. \A v \in Users : v \in Nat
  BY UsersAssumption
<1>4. Writers = {}
  <2>1. comes => \A v \in Writers : ~ v < u
    BY <1>1 DEF CntInv, NestedRightly, Writers
  <2>2. ~ comes => Writers = {}
    BY <1>2 DEF CntInv, CountTellsWhoIsInside
  <2>3. ASSUME NEW v \in Writers PROVE FALSE
    <3>1. v \in Users /\ v <= u
      BY NobodyAbove
    <3>2. v # u
      BY <1>2, <2>3
    <3>3. v \in Nat /\ u \in Nat
      BY <1>3, <3>1
    <3>4. v < u
      BY <3>1, <3>2, <3>3
    <3> QED
      BY <2>1, <2>2, <2>3, <3>4
  <2> QED
    BY <2>3
<1>5. cnt' = Cardinality(Readers')
  <2>1. IsFiniteSet(ReadersBelow(u)) /\ Cardinality(ReadersBelow(u)) \in Nat
    BY ReadersFinite DEF ReadersBelow, Readers
  <2>2. Readers' = IF comes THEN ReadersBelow(u) \cup {u} ELSE ReadersBelow(u)
    BY <1>2, NobodyAbove
  <2>3. loaded[u] = IF comes THEN Cardinality(ReadersBelow(u))
                    ELSE Cardinality(ReadersBelow(u)) + 1
    BY <1>1 DEF CntInv, LoadedRightly
  <2>4. u \notin ReadersBelow(u)
    BY NobodyAbove
  <2>5. Cardinality(ReadersBelow(u) \cup {u}) = Cardinality(ReadersBelow(u)) + 1
    BY <2>1, <2>4, FS_AddElement
  <2> QED
    BY <1>1, <2>1, <2>2, <2>3, <2>5
<1>6. CntTypeOK' /\ ReleaseChecksHold'
  BY <1>1 DEF CntInv, CntTypeOK, ReleaseChecksHold
<1>7. CountTellsWhoIsInside'
  BY <1>2, <1>4, <1>5 DEF CountTellsWhoIsInside
<1>8. NestedRightly'
  <2>1. \A v \in Users : v > u => at'[v] = "idle"
    BY <1>1, <1>3, NobodyAbove
  <2> QED
    BY <1>1, <1>2, <1>3, <1>4, <2>1 DEF CntInv, NestedRightly, Writers
<1>9. LoadedRightly'
  <2>1. \A v \in Users : v < u => ReadersBelow(v)' = ReadersBelow(v)
    BY <1>2, <1>3 DEF ReadersBelow
  <2>2. \A v \in Users : v > u => at'[v] = "idle"
    BY <1>1, <1>3, NobodyAbove
  <2>3. ASSUME NEW v \in Users, at'[v] \in {"readStore", "leaveStore"}
        PROVE  v < u
    BY <1>1, <1>3, <2>2, <2>3
  <2> QED
    BY <1>1, <2>1, <2>3 DEF CntInv, LoadedRightly
<1> QED
  BY <1>6, <1>7, <1>8, <1>9 DEF CntInv

(* The store of a writer's mark, and the one that takes it away. *)
LEMMA CntWriterStore ==
  ASSUME CntInv, ~ Preemptive, NEW u \in Users, MayRun(u),
         \/ Move(u, "writeStore", "writing") /\ Store(-1)
         \/ Move(u, "writeClear", "idle") /\ Store(0)
  PROVE  CntInv'
<1> DEFINE comes == at[u] = "writeStore"
<1>1. /\ at' \in [Users -> Places]
      /\ at[u] \in {"writeStore", "writeClear"}
      /\ at'[u] = IF comes THEN "writing" ELSE "idle"
      /\ cnt' = IF comes THEN -1 ELSE 0
      /\ UNCHANGED <<loaded, reported>>
      /\ \A v \in Users \ {u} : at'[v] = at[v]
  BY DEF CntInv, CntTypeOK, Move, Store, Places
<1>2. /\ Writers' = IF comes THEN Writers \cup {u} ELSE Writers \ {u}
      /\ Readers' = Readers /\ u \notin Readers
      /\ u \in Writers <=> ~ comes
  BY <1>1 DEF Readers, Writers
<1>3. \A v \in Users : v \in Nat
  BY UsersAssumption
<1>4. \A v \in Users : v > u => at'[v] = "idle"
  BY <1>1, <1>3, NobodyAbove
<1>5. Readers = {} /\ Writers' = IF comes THEN {u} ELSE {}
  <2>1. CASE comes
    <3>1. \A v \in Users : v < u => v \notin Readers \cup Writers
      BY <2>1 DEF CntInv, NestedRightly
    <3>2. ASSUME NEW v \in Readers \cup Writers PROVE FALSE
      <4>1. v \in Users /\ v <= u
        BY NobodyAbove
      <4>2. v # u
        BY <1>2, <2>1, <3>2
      <4>3. v < u
        BY <1>3, <4>1, <4>2
      <4> QED
        BY <3>1, <3>2, <4>1, <4>3
    <3> QED
      BY <1>2, <2>1, <3>2
  <2>2. CASE ~ comes
    <3>1. Readers = {} /\ Cardinality(Writers) = 1 /\ u \in Writers
      BY <1>2, <2>2 DEF CntInv, CountTellsWhoIsInside
    <3>2. IsFiniteSet(Writers)
      BY ReadersFinite DEF Writers
    <3>3. Writers = {u}
      BY <3>1, <3>2, FS_Singleton
    <3> QED
      BY <1>2, <2>2, <3>1, <3>3
  <2> QED
    BY <2>1, <2>2
<1>6. CntTypeOK' /\ ReleaseChecksHold'
  BY <1>1 DEF CntInv, CntTypeOK, ReleaseChecksHold
<1>7. CountTellsWhoIsInside'
  <2>1. Cardinality({}) = 0 /\ Cardinality({u}) = 1
    BY FS_EmptySet, FS_Singleton
  <2> QED
    BY <1>1, <1>2, <1>5, <2>1 DEF CountTellsWhoIsInside
<1>8. NestedRightly'
  <2> SUFFICES ASSUME NEW w \in Users, NEW v \in Users, w < v,
                      w \in Readers' \cup Writers'
               PROVE  ~ (v \in Writers' \/ at'[v] = "writeStore")
                      /\ ~ (v \in Readers' \/ at'[v] \in {"readLoad", "readStore"})
    BY DEF NestedRightly
  <2>1. comes /\ w = u
    BY <1>2, <1>5
  <2>2. at'[v] = "idle"
    BY <1>3, <1>4, <2>1
  <2> QED
    BY <2>2 DEF Readers, Writers
<1>9. LoadedRightly'
  BY <1>1, <1>2 DEF CntInv, LoadedRightly, ReadersBelow
<1> QED
  BY <1>6, <1>7, <1>8, <1>9 DEF CntInv

(* The test of a release finds the count it should: a reader a count that is
   not negative, a writer its own mark. *)
LEMMA CntReleaseTest ==
  ASSUME CntInv, ~ Preemptive, NEW u \in Users,
         \/ Move(u, "reading", "leaveLoad") /\ Report(cnt < 0)
         \/ Move(u, "writing", "writeClear") /\ Report(cnt # -1)
  PROVE  CntInv'
<1>1. CASE Move(u, "reading", "leaveLoad") /\ Report(cnt < 0)
  <2>1. u \in Readers
    BY <1>1 DEF Move, Readers
  <2>2. cnt = Cardinality(Readers)
    BY <2>1 DEF CntInv, CountTellsWhoIsInside
  <2>3. cnt \in Nat
    BY <2>2, ReadersFinite DEF Readers
  <2>4. ~ cnt < 0
    BY <2>3
  <2>5. UNCHANGED <<cnt, loaded, reported>>
    BY <1>1, <2>4, Zenon DEF Report, CntInv, CntTypeOK
  <2> QED
    BY <1>1, <2>5, CntQuietStep DEF Places, ReaderPlaces, WriterPlaces
<1>2. CASE Move(u, "writing", "writeClear") /\ Report(cnt # -1)
  <2>1. u \in Writers
    BY <1>2 DEF Move, Writers
  <2>2. cnt = -1
    BY <2>1 DEF CntInv, CountTellsWhoIsInside
  <2>3. UNCHANGED <<cnt, loaded, reported>>
    BY <1>2, <2>2, Zenon DEF Report, CntInv, CntTypeOK
  <2> QED
    BY <1>2, <2>3, CntQuietStep DEF Places, ReaderPlaces, WriterPlaces
<1> QED
  BY <1>1, <1>2

(* The tests of the acquisitions: a count that is not negative means that
   nobody writes, a count of zero that nobody is inside. *)
LEMMA CntAcquireTest ==
  ASSUME CntInv, ~ Preemptive, NEW u \in Users,
         \/ Move(u, "idle", "readTest") /\ Stay
         \/ cnt >= 0 /\ Move(u, "readTest", "readLoad") /\ Stay
         \/ Move(u, "idle", "writeTest") /\ Stay
         \/ cnt = 0 /\ Move(u, "writeTest", "writeStore") /\ Stay
  PROVE  CntInv'
<1>1. UNCHANGED <<cnt, loaded, reported>>
  BY DEF Stay
<1>2. cnt >= 0 => Writers = {}
  BY DEF CntInv, CountTellsWhoIsInside
<1>3. cnt = 0 => Writers = {} /\ Readers = {}
  <2>1. IsFiniteSet(Readers)
    BY ReadersFinite DEF Readers
  <2> QED
    BY <2>1, FS_EmptySet DEF CntInv, CountTellsWhoIsInside
<1>4. CASE Move(u, "idle", "readTest")
  BY <1>1, <1>4, CntQuietStep DEF Places, ReaderPlaces, WriterPlaces
<1>5. CASE cnt >= 0 /\ Move(u, "readTest", "readLoad")
  BY <1>1, <1>2, <1>5, CntQuietStep DEF Places, ReaderPlaces, WriterPlaces
<1>6. CASE Move(u, "idle", "writeTest")
  BY <1>1, <1>6, CntQuietStep DEF Places, ReaderPlaces, WriterPlaces
<1>7. CASE cnt = 0 /\ Move(u, "writeTest", "writeStore")
  BY <1>1, <1>3, <1>7, CntQuietStep DEF Places, ReaderPlaces, WriterPlaces
<1> QED
  BY <1>4, <1>5, <1>6, <1>7

LEMMA CntInitially == CntInit => CntInv
<1> SUFFICES ASSUME CntInit PROVE CntInv
  OBVIOUS
<1>1. Readers = {} /\ Writers = {}
  BY DEF CntInit, Readers, Writers
<1>2. Cardinality({}) = 0
  BY FS_EmptySet
<1>3. CntTypeOK
  <2>1. cnt \in Int /\ at \in [Users -> Places] /\ loaded \in [Users -> Int]
    BY DEF CntInit, Places
  <2>2. reported \in BOOLEAN
    BY DEF CntInit
  <2> QED
    BY <2>1, <2>2 DEF CntTypeOK
<1>4. CountTellsWhoIsInside
  BY <1>1, <1>2 DEF CntInit, CountTellsWhoIsInside
<1>5. NestedRightly
  BY <1>1 DEF CntInit, NestedRightly
<1>6. LoadedRightly
  BY DEF CntInit, LoadedRightly
<1>7. ReleaseChecksHold
  BY DEF CntInit, ReleaseChecksHold
<1> QED
  BY <1>3, <1>4, <1>5, <1>6, <1>7 DEF CntInv

LEMMA CntStep ==
  ASSUME ~ Preemptive, CntInv, [CntNext]_cntVars
  PROVE  CntInv'
<1>1. CASE UNCHANGED cntVars
  <2>1. UNCHANGED <<cnt, at, loaded, reported>>
    BY <1>1 DEF cntVars
  <2>2. CntTypeOK' /\ ReleaseChecksHold'
    BY <2>1 DEF CntInv, CntTypeOK, ReleaseChecksHold
  <2>3. Readers' = Readers /\ Writers' = Writers
    BY <2>1 DEF Readers, Writers
  <2>4. CountTellsWhoIsInside' /\ NestedRightly'
    BY <2>1, <2>3 DEF CntInv, CountTellsWhoIsInside, NestedRightly
  <2>5. LoadedRightly'
    BY <2>1, <2>3 DEF CntInv, LoadedRightly, ReadersBelow
  <2> QED
    BY <2>2, <2>4, <2>5 DEF CntInv
<1>2. ASSUME NEW u \in Users, ReadAcquire(u) PROVE CntInv'
  <2>1. CASE Move(u, "readLoad", "readStore") /\ Load(u)
    <3>1. MayRun(u)
      BY <2>1 DEF Move
    <3> QED
      BY <2>1, <3>1, CntLoadStep
  <2>2. CASE Move(u, "readStore", "reading") /\ Store(loaded[u] + 1)
    <3>1. MayRun(u)
      BY <2>2 DEF Move
    <3> QED
      BY <2>2, <3>1, CntReaderStore
  <2> QED
    BY <1>2, <2>1, <2>2, CntAcquireTest DEF ReadAcquire
<1>3. ASSUME NEW u \in Users, ReadRelease(u) PROVE CntInv'
  <2>1. CASE Move(u, "leaveLoad", "leaveStore") /\ Load(u)
    <3>1. MayRun(u)
      BY <2>1 DEF Move
    <3> QED
      BY <2>1, <3>1, CntLoadStep
  <2>2. CASE Move(u, "leaveStore", "idle") /\ Store(loaded[u] - 1)
    <3>1. MayRun(u)
      BY <2>2 DEF Move
    <3> QED
      BY <2>2, <3>1, CntReaderStore
  <2> QED
    BY <1>3, <2>1, <2>2, CntReleaseTest DEF ReadRelease
<1>4. ASSUME NEW u \in Users, WriteAcquire(u) PROVE CntInv'
  <2>1. CASE Move(u, "writeStore", "writing") /\ Store(-1)
    <3>1. MayRun(u)
      BY <2>1 DEF Move
    <3> QED
      BY <2>1, <3>1, CntWriterStore
  <2> QED
    BY <1>4, <2>1, CntAcquireTest DEF WriteAcquire
<1>5. ASSUME NEW u \in Users, WriteRelease(u) PROVE CntInv'
  <2>1. CASE Move(u, "writeClear", "idle") /\ Store(0)
    <3>1. MayRun(u)
      BY <2>1 DEF Move
    <3> QED
      BY <2>1, <3>1, CntWriterStore
  <2> QED
    BY <1>5, <2>1, CntReleaseTest DEF WriteRelease
<1> QED
  BY <1>1, <1>2, <1>3, <1>4, <1>5 DEF CntNext

(* Under the schedule of this kernel, where whoever preempts runs to its end,
   the count tells who is inside, however many contexts are nested and although
   no load and store of it is protected. *)
THEOREM CountSound == ~ Preemptive => (CntSpec => []CountTellsWhoIsInside)
<1> SUFFICES ASSUME ~ Preemptive PROVE CntSpec => []CountTellsWhoIsInside
  OBVIOUS
<1>1. CntInv /\ [CntNext]_cntVars => CntInv'
  BY CntStep
<1>2. CntInv => CountTellsWhoIsInside
  BY DEF CntInv
<1> QED
  BY CntInitially, <1>1, <1>2, PTL DEF CntSpec

(* And under that schedule the checks of the release functions stay silent;
   the run with preemptive users shows that they need it. *)
THEOREM ReleasesPass == ~ Preemptive => (CntSpec => []ReleaseChecksHold)
<1> SUFFICES ASSUME ~ Preemptive PROVE CntSpec => []ReleaseChecksHold
  OBVIOUS
<1>1. CntInv /\ [CntNext]_cntVars => CntInv'
  BY CntStep
<1>2. CntInv => ReleaseChecksHold
  BY DEF CntInv
<1> QED
  BY CntInitially, <1>1, <1>2, PTL DEF CntSpec
=============================================================================
