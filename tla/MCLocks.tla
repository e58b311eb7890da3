------------------------------ MODULE MCLocks -------------------------------
(***************************************************************************)
(* The two locks of spinlock.cpp side by side: threads and waiters on the  *)
(* test-and-set lock, preempted anywhere, and contexts on the counted lock *)
(* under the schedule this kernel has, where only interrupts preempt and   *)
(* each runs to completion.                                                *)
(***************************************************************************)
EXTENDS Spinlock, CountedLock

Both == <<vars, cntVars>>

BothInit == Init /\ CntInit

BothNext ==
  \/ Next /\ UNCHANGED cntVars
  \/ CntNext /\ UNCHANGED vars

BothSpec == BothInit /\ [][BothNext]_Both /\ Fairness
=============================================================================
