---------------------------- MODULE MCWarmPool ----------------------------
(* Small instances of WarmPool for TLC. *)
EXTENDS WarmPool, TLC

CONSTANTS a, b, none

MCExt == {a, b}
MCExtOne == {a}
MCInProc == {}
MCInProcB == {b}
MCDirect == {}
MCDirectA == {a}

Swap == Permutations(MCExt)
=============================================================================
