---------------------------- MODULE MCLifecycle -----------------------------
(***************************************************************************)
(* Lifecycle with an old binary and a new one that enforces.               *)
(***************************************************************************)
EXTENDS Lifecycle

CONSTANTS old, new

TwoVersions == [p \in Procs |-> IF p = old THEN 1 ELSE 2]
Modes == [p \in Procs |-> IF p = new THEN "enforce" ELSE "permissive"]
=============================================================================
