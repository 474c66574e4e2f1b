-------------------------- MODULE DaemonRefinement --------------------------
(***************************************************************************)
(* The daemon implements Enforcement: a tick is one decision as of the     *)
(* instant it read before it took the locks, a handler one operation, and  *)
(* everything else is invisible.                                           *)
(***************************************************************************)
EXTENDS Daemon

Promise == INSTANCE Enforcement WITH
  clock   <- now,
  serving <- Running,
  reach   <- {c \in Clients : Keyed(c)},
  manual  <- [c \in Clients |-> policies[c].manual],
  auto    <- [c \in Clients |-> policies[c].auto],
  action  <- enforced

\* Every behaviour of the threads, of Redis and of the operators is one that
\* Enforcement allows: whatever falls between the clone of the counters and the
\* locks, the end of tick() enforces for each client what its two policies ask for as
\* of one past instant, ends no manual policy early, and nothing else changes what
\* is enforced (tick, the IPC handlers, hydrate).
ImplementsEnforcement == Promise!Spec
=============================================================================
