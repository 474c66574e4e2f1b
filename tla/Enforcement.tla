---------------------------- MODULE Enforcement -----------------------------
(***************************************************************************)
(* What the daemon promises, without threads, windows, Redis or requests:  *)
(* each client has a manual and an automatic policy, and from time to time *)
(* the daemon decides, for all clients at once and as of one instant of    *)
(* the past, what is enforced.  Module DaemonRefinement shows that Daemon  *)
(* implements this.                                                        *)
(***************************************************************************)
EXTENDS Policy

CONSTANT Clients

VARIABLES clock,    \* the time
          serving,  \* does the daemon run?
          reach,    \* clients its enforcer can act on
          manual,   \* manual policy of each client, or None
          auto,     \* automatic policy of each client, or None
          action    \* what is enforced for each client, or None

vars == <<clock, serving, reach, manual, auto, action>>

Nothing == [c \in Clients |-> None]
Both(c) == [manual |-> manual[c], auto |-> auto[c]]

Init ==
  /\ clock = 0 /\ serving = FALSE
  /\ reach \in SUBSET Clients
  /\ manual = Nothing /\ auto = Nothing /\ action = Nothing

TimePasses ==
  /\ clock' \in Nat /\ clock' > clock
  /\ UNCHANGED <<serving, reach, manual, auto, action>>

\* The manual policies of the last time may be back; nothing is enforced yet.
Start ==
  /\ ~serving /\ serving'
  /\ reach' \in SUBSET Clients
  /\ manual' \in [Clients -> ManualPolicy \cup {None}]
  /\ UNCHANGED <<clock, auto, action>>

\* With the process all policies and measures go.
Stop ==
  /\ serving /\ ~serving'
  /\ manual' = Nothing /\ auto' = Nothing /\ action' = Nothing
  /\ UNCHANGED <<clock, reach>>

\* The operator sets or clears the manual policy of one client; this takes
\* effect with the next decision.
Operate(c) ==
  /\ serving
  /\ manual' \in [Clients -> ManualPolicy \cup {None}]
  /\ \A d \in Clients \ {c} : manual'[d] = manual[d]
  /\ UNCHANGED <<clock, serving, reach, auto, action>>

\* As of instant t: manual policies end with their deadline and not before, an
\* automatic one lasts at least as long as its own, and every client within reach
\* gets what its two policies ask for.
DecideAt(t) ==
  /\ serving
  /\ \A c \in Clients :
       /\ manual'[c] = IF LiveManual(Both(c), t) THEN manual[c] ELSE None
       /\ LiveAuto(Both(c), t) => auto'[c] # None
       /\ IF c \in reach THEN Agrees(action'[c], Both(c)', t) ELSE action'[c] = action[c]
  /\ UNCHANGED <<clock, serving, reach>>

Decide == \E t \in 0 .. clock : DecideAt(t)

Next == TimePasses \/ Start \/ Stop \/ Decide \/ \E c \in Clients : Operate(c)

Spec == Init /\ [][Next]_vars
=============================================================================
