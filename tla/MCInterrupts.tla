---------------------------- MODULE MCInterrupts ----------------------------
(***************************************************************************)
(* Interrupts with the timer and a clock that nobody handles, two network  *)
(* cards that share a line of the slave, and the system call; an exception *)
(* with an error code and one without.                                     *)
(***************************************************************************)
EXTENDS Interrupts

MCHandlers == {"card", "card2", "syscalls"}
MCNumberOf == [card |-> 43, card2 |-> 43, syscalls |-> 160]
MCLines == {0, 8, 11}
MCDevices == {"timer", "clock", "card", "card2"}
MCLineOf == [timer |-> 0, clock |-> 8, card |-> 11, card2 |-> 11]
MCDriverOf == [timer |-> None, clock |-> None, card |-> "card", card2 |-> "card2"]
MCExceptions == {0, 13}
MCSysCalls == {[eax |-> "4", ebx |-> "A"], [eax |-> "1", ebx |-> "A"]}
=============================================================================
