------------------------------- MODULE MCHeap -------------------------------
(***************************************************************************)
(* Heap on an arena of a few bytes with a header of two: small enough for  *)
(* every fragmentation to be reached, large enough for five chunks, for a  *)
(* request that fits a hole without splitting it and for one nothing fits. *)
(***************************************************************************)
EXTENDS Heap
=============================================================================
