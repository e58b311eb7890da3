---------------------------- MODULE NumberFacts -----------------------------
(***************************************************************************)
(* Facts about indices that the proofs about several components use: the   *)
(* index that wraps at the end of a ring or of the port numbers, and the   *)
(* first of the entries a search could find.                               *)
(***************************************************************************)
EXTENDS Integers, FiniteSets, FiniteSetTheorems, WellFoundedInduction, TLAPS

(* The index behind i in a ring of a given size. *)
LEMMA Remainder ==
  ASSUME NEW size \in Nat \ {0}, NEW i \in 0 .. size - 1
  PROVE  (i + 1) % size = IF i + 1 = size THEN 0 ELSE i + 1
<1>1. CASE i + 1 = size
  BY <1>1
<1>2. CASE i + 1 < size
  BY <1>2
<1> QED  BY <1>1, <1>2

(* A set of indices has a first one. *)
LEMMA FirstExists ==
  ASSUME NEW H \in SUBSET Nat, H # {}
  PROVE  \E i \in H : \A j \in H : i <= j
<1> DEFINE UpTo(k) == {i \in H : i <= k}
           T == {UpTo(k) : k \in H}
           R == StrictSubsetOrdering(H)
<1>1. T \subseteq FiniteSubsetsOf(H)
  <2> SUFFICES ASSUME NEW k \in H PROVE UpTo(k) \in FiniteSubsetsOf(H)
    OBVIOUS
  <2>1. IsFiniteSet(0 .. k)
    BY FS_Interval
  <2>2. \A i \in H : i <= k => i \in 0 .. k
    OBVIOUS
  <2>3. UpTo(k) \subseteq 0 .. k
    BY <2>2
  <2>4. IsFiniteSet(UpTo(k))
    BY <2>1, <2>3, FS_Subset
  <2> QED  BY <2>4 DEF FiniteSubsetsOf
<1>2. T # {}
  OBVIOUS
<1>3. IsWellFoundedOn(R, FiniteSubsetsOf(H))
  BY FS_StrictSubsetOrderingWellFounded
<1> HIDE DEF T, R
<1>4. PICK X \in T : \A Y \in T : ~ (<<Y, X>> \in R)
  BY <1>1, <1>2, <1>3, WFMin
<1> USE DEF T
<1>5. PICK k \in H : X = UpTo(k)
  BY <1>4
<1>6. ASSUME NEW j \in H, j < k PROVE FALSE
  <2>1. \A i \in H : i <= j => i <= k
    BY <1>6
  <2>2. UpTo(j) \subseteq UpTo(k)
    BY <2>1
  <2>3. k <= k /\ ~ (k <= j)
    BY <1>6
  <2>4. k \in UpTo(k) /\ k \notin UpTo(j)
    BY <2>3
  <2>5. <<UpTo(j), X>> \in R
    BY <1>5, <2>2, <2>4 DEF R, StrictSubsetOrdering
  <2> QED  BY <1>4, <1>6, <2>5
<1> QED  BY <1>6


(* f[i] is what the first i steps, one after the other, make of the start. *)
Follows(f, n, S, a, step) ==
  f \in [0 .. n -> S] /\ f[0] = a /\ \A i \in 1 .. n : f[i] = step[i][f[i-1]]

(* A recursive definition has a value. *)
LEMMA RecursionExists ==
  ASSUME NEW n \in Nat, NEW S, NEW a \in S, NEW step \in [1 .. n -> [S -> S]]
  PROVE  \E f : Follows(f, n, S, a, step)
<1> DEFINE Made(k) == \E f \in [0 .. k -> S] :
                        f[0] = a /\ \A i \in 1 .. k : f[i] = step[i][f[i-1]]
           H == {k \in 0 .. n : ~ Made(k)}
<1>1. ASSUME H # {} PROVE FALSE
  <2>1. PICK k \in H : \A j \in H : k <= j
    <3>1. H \in SUBSET Nat
      OBVIOUS
    <3> HIDE DEF H
    <3> QED  BY <1>1, <3>1, FirstExists
  <2>2. k \in 0 .. n /\ ~ Made(k)
    OBVIOUS
  <2>3. CASE k = 0
    <3> DEFINE f == [i \in 0 .. k |-> a]
    <3>1. f \in [0 .. k -> S] /\ f[0] = a /\ \A i \in 1 .. k : f[i] = step[i][f[i-1]]
      BY <2>3
    <3>2. Made(k)
      BY <3>1
    <3> QED  BY <2>2, <3>2
  <2>4. CASE k > 0
    <3>1. k - 1 \in 0 .. n /\ ~ (k <= k - 1)
      BY <2>2, <2>4
    <3>2. Made(k - 1)
      BY <2>1, <3>1
    <3>3. PICK f \in [0 .. k - 1 -> S] :
            f[0] = a /\ \A i \in 1 .. k - 1 : f[i] = step[i][f[i-1]]
      BY <3>2
    <3>4. step[k] \in [S -> S] /\ f[k-1] \in S
      BY <2>2, <2>4
    <3> DEFINE g == [i \in 0 .. k |-> IF i = k THEN step[k][f[k-1]] ELSE f[i]]
    <3>5. g \in [0 .. k -> S]
      BY <2>2, <2>4, <3>4
    <3>6. g[0] = a
      BY <2>2, <2>4, <3>3
    <3>7. \A i \in 1 .. k : g[i] = step[i][g[i-1]]
      <4> SUFFICES ASSUME NEW i \in 1 .. k PROVE g[i] = step[i][g[i-1]]
        OBVIOUS
      <4>1. CASE i = k
        BY <2>2, <4>1
      <4>2. CASE i # k
        <5>1. i \in 1 .. k - 1 /\ i - 1 \in 0 .. k /\ i - 1 # k
          BY <2>2, <4>2
        <5> QED  BY <2>2, <3>3, <4>2, <5>1
      <4> QED  BY <4>1, <4>2
    <3>8. Made(k)
      <4> HIDE DEF g
      <4> QED  BY <3>5, <3>6, <3>7
    <3> QED  BY <2>2, <3>8
  <2> QED  BY <2>2, <2>3, <2>4
<1>2. n \notin H
  BY <1>1
<1>3. Made(n)
  BY <1>2
<1> QED  BY <1>3 DEF Follows
=============================================================================
