------------------------------ MODULE MCDaemon ------------------------------
(***************************************************************************)
(* Instances of Daemon for TLC.                                            *)
(***************************************************************************)
EXTENDS DaemonRefinement, TLC

\* Connections are interchangeable.
Symmetry == Permutations(Conns)

NoRules == <<[rules |-> <<>>, cooldown_secs |-> 1]>>

RuleOf(id, secs, limit, block, rate) ==
  [id |-> id, secs |-> secs, limit |-> limit,
   action |-> [block |-> block, drop_rate |-> rate]]

\* One per-second rule.
OneRule == <<[rules |-> <<RuleOf("burst", 1, 1, FALSE, 30)>>, cooldown_secs |-> 1]>>

\* One per-second rule and one rule over the whole ring, which is the stronger;
\* a reload drops both, and back.  cooldown_secs 0 counts as 1.
Reloads == <<[rules |-> <<RuleOf("burst", 1, 1, FALSE, 30), RuleOf("flood", 3, 2, TRUE, 100)>>,
              cooldown_secs |-> 2],
             [rules |-> <<>>, cooldown_secs |-> 0]>>
=============================================================================
