------------------------------- MODULE Policy -------------------------------
(***************************************************************************)
(* Manual and automatic policies of a client and how the daemon combines   *)
(* them: mw-core/src/policy.rs, with the part of mw-core/src/rule.rs that  *)
(* names what a rule may do.  No state of its own.                         *)
(*                                                                         *)
(* Option<T> is T \cup {None}; drop rates are u8 values.                   *)
(***************************************************************************)
EXTENDS Units

CONSTANT RuleIds    \* the rule ids that occur in the rules.d directory

(***************************************************************************)
(* Types                                                                   *)
(***************************************************************************)
ManualPolicy == [throttle : U8 \cup {None},
                 blocked  : BOOLEAN,
                 until    : Instant \cup {None}]

AutoPolicy == [drop_rate : U8, blocked : BOOLEAN, rule_id : RuleIds, until : Instant]

ClientPolicy == [manual : ManualPolicy \cup {None}, auto : AutoPolicy \cup {None}]

\* What a rule does when its limit is exceeded; validate() bounds drop_rate by 100.
Action == {a \in [block : BOOLEAN, drop_rate : 0 .. 100] : a.block => a.drop_rate = 100}

\* What is enforced for a client; drop_rate carries EffectiveAction::drop_rate().
EffectiveAction == [kind : {"none"}, drop_rate : {0}]
                     \cup [kind : {"throttle"}, drop_rate : U8]
                     \cup [kind : {"block"}, drop_rate : {100}]

\* Option::None is none of the payloads it stands beside.
ASSUME NoneAssumption == None \notin EffectiveAction \cup ManualPolicy \cup Nat

ActNone == [kind |-> "none", drop_rate |-> 0]
ActThrottle(rate) == [kind |-> "throttle", drop_rate |-> rate]
ActBlock == [kind |-> "block", drop_rate |-> 100]

NoPolicy == [manual |-> None, auto |-> None]

(***************************************************************************)
(* Expiry.  A deadline that equals the current instant has passed.         *)
(***************************************************************************)
ManualExpired(m, now) == m.until # None /\ now >= m.until
AutoExpired(a, now) == now >= a.until

LiveManual(p, now) == p.manual # None /\ ~ManualExpired(p.manual, now)
LiveAuto(p, now) == p.auto # None /\ ~AutoExpired(p.auto, now)

MaxRate(a, b) == IF a >= b THEN a ELSE b

(***************************************************************************)
(* merge_policy: the early returns of the code, in their order.            *)
(***************************************************************************)
MergeAuto(p, now) ==
  IF LiveAuto(p, now) /\ p.auto.blocked THEN ActBlock
  ELSE IF LiveAuto(p, now) /\ p.auto.drop_rate > 0 THEN ActThrottle(p.auto.drop_rate)
  ELSE ActNone

\* Mutant: a manual throttle returns before the automatic block is looked at.
MergePolicyManualFirst(p, now) ==
  IF LiveManual(p, now) /\ p.manual.blocked THEN ActBlock
  ELSE IF LiveManual(p, now) /\ p.manual.throttle # None THEN ActThrottle(p.manual.throttle)
  ELSE MergeAuto(p, now)

\* A manual throttle still combines with an automatic block.
MergePolicy(p, now) ==
  IF LiveManual(p, now) /\ p.manual.blocked THEN ActBlock
  ELSE IF LiveManual(p, now) /\ p.manual.throttle # None
    THEN IF LiveAuto(p, now) /\ p.auto.blocked THEN ActBlock
         ELSE ActThrottle(MaxRate(p.manual.throttle,
                                  IF LiveAuto(p, now) THEN p.auto.drop_rate ELSE 0))
  ELSE MergeAuto(p, now)

(***************************************************************************)
(* from_action and strongest_auto.  The code folds over the violations in  *)
(* rule order and lets a candidate replace the best one only if it beats   *)
(* it, so the first of the strongest wins; `viol' is the set of indices of *)
(* the violated rules in the sequence `rules'.                             *)
(***************************************************************************)
FromAction(id, action, now, cooldown) ==
  [drop_rate |-> action.drop_rate, blocked |-> action.block,
   rule_id |-> id, until |-> now + cooldown]

Beats(a, b) ==
  \/ a.block /\ ~b.block
  \/ a.block = b.block /\ a.drop_rate > b.drop_rate

Strongest(rules, viol) ==
  CHOOSE i \in viol : \A j \in viol : /\ ~Beats(rules[j].action, rules[i].action)
                                      /\ i <= j \/ Beats(rules[i].action, rules[j].action)

StrongestAuto(rules, viol, now, cooldown) ==
  IF viol = {} THEN None
  ELSE LET r == rules[Strongest(rules, viol)]
       IN FromAction(r.id, r.action, now, cooldown)

(***************************************************************************)
(* The reference the merge is checked against.                             *)
(***************************************************************************)
\* What the architecture document asks of the effective policy: blocked if either
\* source blocks, else the larger of the two rates.
WantBlock(p, t) == \/ LiveManual(p, t) /\ p.manual.blocked
                   \/ LiveAuto(p, t) /\ p.auto.blocked
WantRate(p, t) ==
  MaxRate(IF LiveManual(p, t) /\ p.manual.throttle # None THEN p.manual.throttle ELSE 0,
          IF LiveAuto(p, t) THEN p.auto.drop_rate ELSE 0)

\* `action' is what an enforcer holds for a client, None if nothing.
Agrees(action, p, t) ==
  /\ (action # None /\ action.kind = "block") <=> WantBlock(p, t)
  /\ ~WantBlock(p, t) => (IF action = None THEN 0 ELSE action.drop_rate) = WantRate(p, t)
=============================================================================
