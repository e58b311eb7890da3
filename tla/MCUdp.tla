------------------------------- MODULE MCUdp --------------------------------
(* Three chunks and two remote ends, none of them told from another: the
   specification compares them for equality only. *)
EXTENDS Udp, TLC

AnyChunkAnyRemote == Permutations(Chunks) \cup Permutations(Remotes)
=============================================================================
