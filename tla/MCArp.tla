-------------------------------- MODULE MCArp -------------------------------
(***************************************************************************)
(* Two hosts, two link addresses that differ in both halves, and a cache   *)
(* that two answers fill.                                                  *)
(***************************************************************************)
EXTENDS Arp

MCMacs == {[hi |-> 1, lo |-> 3], [hi |-> 2, lo |-> 4]}
=============================================================================
