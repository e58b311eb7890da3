------------------------------ MODULE Spinlock ------------------------------
(***************************************************************************)
(* The test-and-set lock of spinlock.h and spinlock.cpp.  A thread takes   *)
(* the lock with spinlockAcquire, works, and gives it back with            *)
(* spinlockRelease; a waiter calls spinlockWait, which is no plain wait:   *)
(* whenever it finds the lock taken it clears it, and it returns with the  *)
(* flag set.  Each exchange and each store is one step; any two threads    *)
(* may be preempted between steps.                                         *)
(***************************************************************************)
EXTENDS Integers

CONSTANTS
  Threads,      \* the threads that use spinlockAcquire and spinlockRelease
  Waiters       \* the threads that use spinlockWait

ASSUME ThreadsAssumption == Threads \cap Waiters = {}

VARIABLES
  flag,         \* Spinlock::flag
  pc,           \* where each thread is in the three functions
  cleared,      \* a spinlockWait has cleared the lock while a thread held it
  waited        \* a spinlockWait has returned, leaving the flag set

vars == <<flag, pc, cleared, waited>>

Init ==
  /\ flag = 0
  /\ pc = [t \in Threads \cup Waiters |-> "out"]
  /\ cleared = FALSE
  /\ waited = FALSE

Holding(t) == pc[t] = "critical"

Goto(t, from, to) == pc[t] = from /\ pc' = [pc EXCEPT ![t] = to]

(* A thread is preempted into, or calls, spinlockAcquire. *)
CallAcquire(t) == Goto(t, "out", "spin") /\ UNCHANGED <<flag, cleared, waited>>

\* mutant: the exchange reads the flag in one step and sets it in another
TestAndSetRacy(t) ==
  /\ \/ flag = 0 /\ Goto(t, "spin", "set") /\ UNCHANGED flag
     \/ Goto(t, "set", "critical") /\ flag' = 1
  /\ UNCHANGED <<cleared, waited>>

(* One round of the loop of spinlockAcquire: lock xchg, and out of the loop
   when the old value was 0. *)
TestAndSet(t) ==
  /\ \/ flag = 0 /\ Goto(t, "spin", "critical")
     \/ flag = 1 /\ Goto(t, "spin", "spin")
  /\ flag' = 1
  /\ UNCHANGED <<cleared, waited>>

\* mutant: spinlockRelease forgets to clear the flag
ReleaseForgotten(t) == Goto(t, "critical", "out") /\ UNCHANGED <<flag, cleared, waited>>

(* spinlockRelease *)
Release(t) ==
  /\ Goto(t, "critical", "out")
  /\ flag' = 0
  /\ UNCHANGED <<cleared, waited>>

CallWait(w) == Goto(w, "out", "wait") /\ UNCHANGED <<flag, cleared, waited>>

(* The exchange of spinlockWait. *)
WaitTestAndSet(w) ==
  /\ \/ flag = 0 /\ Goto(w, "wait", "out") /\ waited' = TRUE
     \/ flag = 1 /\ Goto(w, "wait", "clear") /\ UNCHANGED waited
  /\ flag' = 1
  /\ UNCHANGED cleared

(* Its body: the flag is cleared, whoever set it. *)
WaitClear(w) ==
  /\ Goto(w, "clear", "wait")
  /\ flag' = 0
  /\ cleared' = (cleared \/ \E t \in Threads : Holding(t))
  /\ UNCHANGED waited

Step(t) == TestAndSet(t) \/ Release(t)
WaitStep(w) == WaitTestAndSet(w) \/ WaitClear(w)

Next ==
  \/ \E t \in Threads : CallAcquire(t) \/ Step(t)
  \/ \E w \in Waiters : CallWait(w) \/ WaitStep(w)

(* A thread that runs keeps running: the loops and the critical sections are
   finite, only the lock can hold a thread up. *)
Fairness ==
  /\ \A t \in Threads : WF_vars(Step(t))
  /\ \A w \in Waiters : WF_vars(WaitStep(w))

Spec == Init /\ [][Next]_vars
LiveSpec == Spec /\ Fairness

-----------------------------------------------------------------------------

(* Every variable has its type. *)
SpinlockTypeOK ==
  /\ flag \in {0, 1}
  /\ pc \in [Threads \cup Waiters -> {"out", "spin", "critical", "wait", "clear"}]
  /\ cleared \in BOOLEAN
  /\ waited \in BOOLEAN

(* Two threads are never both between spinlockAcquire and spinlockRelease,
   unless a spinlockWait cleared the lock under a holder or set it and left:
   nothing else can break the exclusion. *)
MutualExclusion ==
  ~ cleared =>
    \A t, u \in Threads : Holding(t) /\ Holding(u) => t = u

(* The lock is never lost: while some thread wants it, some thread gets it,
   unless a spinlockWait returned with the flag set and nobody to clear it. *)
LockNotLost ==
  (\E t \in Threads : pc[t] = "spin") ~> ((\E t \in Threads : Holding(t)) \/ waited)
=============================================================================
