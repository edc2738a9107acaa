--------------------------- MODULE MCCommandLine ---------------------------
(* CommandLine on small instances: the second session may outlast the first. *)
EXTENDS CommandLine

CONSTANTS First, Second

MCBudget == [k \in 1 .. 2 |-> IF k = 1 THEN First ELSE Second]
=============================================================================
