---------------------------- MODULE MCWinService ----------------------------
(* Model-checking instance of WinService: a composite device and its       *)
(* interface, which our stub drives; the lists of both have other filters, *)
(* and an earlier installation has left ours on the first.                 *)
EXTENDS WinService

CONSTANTS d1, d2

MCProc == Installer \cup {Service}
MCHardware ==
  [d \in Device |-> [interface |-> d = d2, stub |-> d = d2, product |-> 1]]
MCPreset == [d \in Device |-> IF d = d1 THEN <<Ours, "other">> ELSE <<"other">>]
=============================================================================
