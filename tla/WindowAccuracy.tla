--------------------------- MODULE WindowAccuracy ---------------------------
(***************************************************************************)
(* How well the ring of buckets measures "the last n seconds" when the     *)
(* decision loop does not tick exactly once a second: the pacing of run()  *)
(* and the window part of tick() in microwaf/src/decision.rs, for one      *)
(* client and one rule, over the operators of SlidingWindow.               *)
(***************************************************************************)
EXTENDS SlidingWindow

CONSTANTS MaxUnits,    \* bound: units that arrive in all
          MaxStall,    \* bound: the decision thread is late by no more than this
          MaxTime      \* bound: the clock stops here

\* Less traffic than u64 can count: saturation is in module Daemon.
ASSUME AccuracyAssumption ==
  /\ MaxUnits \in U64 /\ MaxStall \in Nat /\ MaxTime \in Nat
  /\ None \notin Window

VARIABLES
  now,       \* the clock
  arrived,   \* history: units that arrived
  pending,   \* counted by the sniffer, not yet in the window
  pc,        \* the decision thread: "sleep", "started" or "timed"
  wake,      \* when its sleep ends
  at,        \* the instant its current or last tick works with
  win,       \* the SlidingWindow, None until the first delta
  fed        \* history: units fed by the ticks that worked with an instant up to each

vars == <<now, arrived, pending, pc, wake, at, win, fed>>

Times == 0 .. MaxTime

Init == /\ now = 0 /\ arrived = 0 /\ pending = 0
        /\ pc = "sleep" /\ wake = 0 /\ at = 0
        /\ win = None /\ fed = [t \in Times |-> 0]

Due == IF pc = "sleep" THEN wake ELSE wake - Second

Clock == /\ now < MaxTime /\ now < Due + MaxStall
         /\ now' = now + 1
         /\ UNCHANGED <<arrived, pending, pc, wake, at, win, fed>>

Arrive == /\ arrived < MaxUnits
          /\ arrived' = arrived + 1
          /\ pending' = SatAdd(pending, 1)
          /\ UNCHANGED <<now, pc, wake, at, win, fed>>

\* run(): tick_start, a second after the previous one at the earliest.
TickStart == /\ pc = "sleep" /\ now >= wake
             /\ pc' = "started" /\ wake' = now + Second
             /\ UNCHANGED <<now, arrived, pending, at, win, fed>>

\* tick() reads the clock once more.
TickNow == /\ pc = "started"
           /\ pc' = "timed" /\ at' = now
           /\ UNCHANGED <<now, arrived, pending, wake, win, fed>>

\* Mutant: the delta is taken against the start of the process, not the last tick.
TickFeedRepeats ==
  /\ pc = "timed"
  /\ win' = Add(IF win = None THEN NewWindow(at) ELSE win, pending, at)
  /\ fed' = [t \in Times |-> IF t < at THEN fed[t] ELSE fed[t] + pending]
  /\ pc' = "sleep"
  /\ UNCHANGED <<now, arrived, pending, wake, at>>

\* The delta since the last snapshot goes into the bucket under the cursor.
TickFeed ==
  /\ pc = "timed"
  /\ LET w == IF win = None THEN None ELSE Advance(win, at)
     IN win' = IF pending = 0 THEN w
               ELSE Add(IF w = None THEN NewWindow(at) ELSE w, pending, at)
  /\ fed' = [t \in Times |-> IF t < at THEN fed[t] ELSE fed[t] + pending]
  /\ pending' = 0
  /\ pc' = "sleep"
  /\ UNCHANGED <<now, arrived, wake, at>>

Next == Clock \/ Arrive \/ TickStart \/ TickNow \/ TickFeed

Spec == Init /\ [][Next]_vars

-----------------------------------------------------------------------------
\* What the rule engine reads for a window of n seconds.
Measured(n) == IF win = None THEN 0 ELSE SumLast(win, n)

\* Units fed by the ticks that worked with one of the last d instants up to `at'.
FedWithin(d) == fed[at] - (IF at - d < 0 THEN 0 ELSE fed[at - d])

\* The window and its history are well formed, and no unit is lost or duplicated
\* between the sniffer and the window.
TypeOK ==
  /\ win \in Window \cup {None}
  /\ pc \in {"sleep", "started", "timed"}
  /\ now \in Times /\ at <= now
  /\ fed[now] + pending = arrived

\* Nothing recent is missed: what the window of n seconds shows includes the delta
\* of the last tick and every one fed up to n-1 seconds before it, however irregular
\* the ticks are.  (Not n seconds: two ticks less than a second apart share a bucket,
\* which ages from the first of them.)
NothingRecentMissed ==
  pc = "sleep" => \A n \in 1 .. Buckets : Measured(n) >= FedWithin((n - 1) * Second + 1)

\* Nothing old lingers: although each advance drops a fraction of a second, the
\* window of n seconds never shows a delta fed 2n-1 seconds ago or earlier.
NothingOldLingers ==
  pc = "sleep" => \A n \in 1 .. Buckets : Measured(n) <= FedWithin((2 * n - 1) * Second)
=============================================================================
