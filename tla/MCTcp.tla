------------------------------- MODULE MCTcp --------------------------------
(* Two chunks, one remote end, and combinations of flags that take each branch
   of the switch, that of a FIN also with data.  One payload ends in a byte that is not zero,
   one in a zero, one is a request. *)
EXTENDS Tcp, TLC

MCFlagSets == {{"SYN"}, {"SYN", "ACK"}, {"ACK"}, {"PSH", "ACK"}, {"FIN", "ACK"},
               {"PSH", "FIN", "ACK"}, {"RST"}, {"SYN", "FIN"}}
MCPayloads == {[len |-> 2, zeros |-> 0, get |-> FALSE],
               [len |-> 2, zeros |-> 1, get |-> FALSE],
               [len |-> 1, zeros |-> 0, get |-> TRUE]}
\* the chunks are alike: nothing orders them
AnyChunk == Permutations(Chunks)
=============================================================================
