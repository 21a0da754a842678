--------------------------- MODULE MCExtProcess ---------------------------
(* Small instances of ExtProcess for TLC, which the configurations give.       *)
EXTENDS ExtProcess

=============================================================================
