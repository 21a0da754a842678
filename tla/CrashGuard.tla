---------------------------- MODULE CrashGuard ----------------------------
(***************************************************************************)
(* The circuit breaker of one extension (CrashGuard in                     *)
(* crates/dd-gui/src/robustness.rs): it counts consecutive crashes and     *)
(* trips at the threshold.  Only a reset closes it again.  An extension    *)
(* without an entry in crash_guards is one whose guard is NewGuard.        *)
(***************************************************************************)
EXTENDS Naturals

CONSTANT MaxConsecutiveCrashes      \* 3 in the code

ASSUME ThresholdAssumption == MaxConsecutiveCrashes \in Nat \ {0}

Guard == {g \in [consecutive : 0 .. MaxConsecutiveCrashes, tripped : BOOLEAN] :
            g.tripped <=> g.consecutive = MaxConsecutiveCrashes}

NewGuard == [consecutive |-> 0, tripped |-> FALSE]

AfterCrashesOrReset(guard, n) ==       \* mutant: a clean exit resets the guard
    LET count == guard.consecutive + n
    IN  IF n = 0 THEN NewGuard
        ELSE IF count < MaxConsecutiveCrashes
             THEN [consecutive |-> count, tripped |-> FALSE]
             ELSE [consecutive |-> MaxConsecutiveCrashes, tripped |-> TRUE]

\* record_crash, called n times in a row: the count stops at the threshold,
\* and a tripped guard does not move.
AfterCrashes(guard, n) ==
    LET count == guard.consecutive + n
    IN  IF guard.tripped THEN guard
        ELSE IF count < MaxConsecutiveCrashes
             THEN [consecutive |-> count, tripped |-> FALSE]
             ELSE [consecutive |-> MaxConsecutiveCrashes, tripped |-> TRUE]
=============================================================================
