------------------------------ MODULE MCScreen ------------------------------
(***************************************************************************)
(* A screen of five rows: the toolbar with the time in the last one, as in *)
(* kernelMain, and two windows that overlap, each with one widget.         *)
(***************************************************************************)
EXTENDS Screen

MCChildren == <<"toolbar", "upper", "lower">>
MCParts == [toolbar |-> <<"time">>, upper |-> <<"field">>, lower |-> <<"box">>]
MCWindows == {"upper", "lower"}
MCHeight == [toolbar |-> 1, time |-> 1, upper |-> 2, field |-> 1, lower |-> 2, box |-> 1]
MCStart == [toolbar |-> 4, time |-> 4, upper |-> 0, field |-> 1, lower |-> 1, box |-> 1]
MCTimeButton == <<"toolbar", "time">>
MCMovements == {-5, 0, 5}
MCMornings == {<<9, 59>>}
=============================================================================
