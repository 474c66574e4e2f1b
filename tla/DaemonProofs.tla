---------------------------- MODULE DaemonProofs ----------------------------
(***************************************************************************)
(* The operators that the daemon computes with, for every policy, rule set, *)
(* ring size, clock resolution and counter width; and the types and safety *)
(* properties of the daemon, each with the strengthening it needs, for     *)
(* every set of clients, connections and rules, every sequence of          *)
(* configurations and every bound.  Then what it promises across crashes   *)
(* and restarts: it implements Enforcement, and, for a Redis that never    *)
(* fails, the keys say what is in force and a restart brings back that.    *)
(***************************************************************************)
EXTENDS DaemonRefinement, WellFoundedInduction, TLAPS

(***************************************************************************)
(* merge_policy and strongest_auto                                         *)
(***************************************************************************)

\* merge_policy returns an EffectiveAction.
LEMMA MergeType ==
  ASSUME NEW p \in ClientPolicy, NEW t \in Instant
  PROVE  MergePolicy(p, t) \in EffectiveAction
  <1> DEFINE act == MergePolicy(p, t)
  <1>1. p.manual # None => p.manual \in ManualPolicy
    BY DEF ClientPolicy
  <1>2. p.auto # None => p.auto \in AutoPolicy
    BY DEF ClientPolicy
  <1>3. MergeAuto(p, t) \in EffectiveAction
    BY <1>2 DEF MergeAuto, LiveAuto, AutoPolicy, ActNone, ActBlock, ActThrottle, EffectiveAction, U8
  <1>4. QED
    BY <1>1, <1>2, <1>3 DEF MergePolicy, LiveManual, LiveAuto, ManualPolicy, AutoPolicy, MaxRate,
       ActBlock, ActThrottle, EffectiveAction, U8

\* The merge asks the enforcer for exactly what the two sources ask for: blocked if
\* either blocks, else the larger rate.  `None' stands for a cleared client.
THEOREM MergeAgrees ==
  ASSUME NEW p \in ClientPolicy, NEW t \in Instant
  PROVE  LET action == MergePolicy(p, t)
         IN Agrees(IF action.kind = "none" THEN None ELSE action, p, t)
  <1> DEFINE action == MergePolicy(p, t)
             held == IF action.kind = "none" THEN None ELSE action
  <1>1. p.manual # None => p.manual \in ManualPolicy
    BY DEF ClientPolicy
  <1>2. p.auto # None => p.auto \in AutoPolicy
    BY DEF ClientPolicy
  <1>3. action \in EffectiveAction
    BY MergeType
  <1>4. held # None <=> action.kind # "none"
    BY <1>3, NoneAssumption
  <1>5. (held # None /\ held.kind = "block") <=> action.kind = "block"
    BY <1>3, <1>4 DEF EffectiveAction
  <1>6. (IF held = None THEN 0 ELSE held.drop_rate) = action.drop_rate
    BY <1>3, <1>4 DEF EffectiveAction
  <1>7. action.kind = "block" <=> WantBlock(p, t)
    BY <1>1, <1>2 DEF MergePolicy, MergeAuto, LiveManual, LiveAuto, ManualPolicy, AutoPolicy,
       ActNone, ActBlock, ActThrottle, WantBlock
  <1>8. ~WantBlock(p, t) => action.drop_rate = WantRate(p, t)
    BY <1>1, <1>2 DEF MergePolicy, MergeAuto, LiveManual, LiveAuto, ManualPolicy, AutoPolicy,
       ActNone, ActBlock, ActThrottle, WantBlock, WantRate, MaxRate, U8
  <1>9. QED
    BY <1>5, <1>6, <1>7, <1>8 DEF Agrees

\* A non-empty set of natural numbers has a least element.
LEMMA LeastNat ==
  ASSUME NEW T, T \subseteq Nat, T # {}
  PROVE  \E x \in T : \A y \in T : x <= y
  <1>1. PICK x \in T : \A y \in T : ~(<<y, x>> \in OpToRel(<, Nat))
    BY NatLessThanWellFounded, WFMin, Zenon
  <1>2. ASSUME NEW y \in T PROVE x <= y
    <2>1. x \in Nat /\ y \in Nat
      OBVIOUS
    <2>2. ~(y < x)
      BY <1>1, <2>1 DEF OpToRel
    <2>3. QED BY <2>1, <2>2
  <1>3. QED BY <1>2

\* A number for each action, smaller the stronger it is.
Weakness(a) == IF a.block THEN 0 ELSE 101 - a.drop_rate

\* The order in which strongest_auto replaces one candidate by the next is the order
\* of a natural number.
LEMMA BeatsIsWeaknessOrder ==
  ASSUME NEW a \in Action, NEW b \in Action
  PROVE  /\ Weakness(a) \in Nat
         /\ Beats(a, b) <=> Weakness(a) < Weakness(b)
  <1>1. /\ a.block \in BOOLEAN /\ a.drop_rate \in 0 .. 100
        /\ b.block \in BOOLEAN /\ b.drop_rate \in 0 .. 100
    BY DEF Action
  <1>2. (a.block => a.drop_rate = 100) /\ (b.block => b.drop_rate = 100)
    BY DEF Action
  <1>3. CASE a.block /\ b.block
    <2>1. Weakness(a) = 0 /\ Weakness(b) = 0
      BY <1>3 DEF Weakness
    <2>2. ~Beats(a, b)
      BY <1>1, <1>2, <1>3 DEF Beats
    <2>3. QED BY <2>1, <2>2
  <1>4. CASE a.block /\ ~b.block
    <2>1. Weakness(a) = 0 /\ Weakness(b) = 101 - b.drop_rate
      BY <1>4 DEF Weakness
    <2>2. Beats(a, b)
      BY <1>4 DEF Beats
    <2>3. QED BY <1>1, <2>1, <2>2
  <1>5. CASE ~a.block /\ b.block
    <2>1. Weakness(a) = 101 - a.drop_rate /\ Weakness(b) = 0
      BY <1>5 DEF Weakness
    <2>2. ~Beats(a, b)
      BY <1>5 DEF Beats
    <2>3. QED BY <1>1, <2>1, <2>2
  <1>6. CASE ~a.block /\ ~b.block
    <2>1. Weakness(a) = 101 - a.drop_rate /\ Weakness(b) = 101 - b.drop_rate
      BY <1>6 DEF Weakness
    <2>2. Beats(a, b) <=> a.drop_rate > b.drop_rate
      BY <1>1, <1>6 DEF Beats
    <2>3. a.drop_rate > b.drop_rate <=> Weakness(a) < Weakness(b)
      <3>1. PICK x \in 0 .. 100, y \in 0 .. 100 : x = a.drop_rate /\ y = b.drop_rate
        BY <1>1
      <3>2. Weakness(a) = 101 - x /\ Weakness(b) = 101 - y
        BY <2>1, <3>1, Zenon
      <3>3. x > y <=> 101 - x < 101 - y
        OBVIOUS
      <3>4. QED BY <3>1, <3>2, <3>3
    <2>4. Weakness(a) \in Nat
      BY <1>1, <2>1
    <2>5. QED BY <2>2, <2>3, <2>4, Zenon
  <1>7. QED
    BY <1>3, <1>4, <1>5, <1>6

\* strongest_auto picks one of the violated rules whenever there is one: none of the
\* others beats it, and the earliest of equals wins.
THEOREM StrongestIsViolated ==
  ASSUME NEW rules, NEW viol, viol \subseteq Nat, viol # {},
         \A i \in viol : rules[i].action \in Action
  PROVE  /\ Strongest(rules, viol) \in viol
         /\ \A j \in viol : ~Beats(rules[j].action, rules[Strongest(rules, viol)].action)
  <1> DEFINE weak(i) == Weakness(rules[i].action)
             W == {weak(i) : i \in viol}
  <1>1. \A i \in viol : weak(i) \in Nat
    BY BeatsIsWeaknessOrder
  <1>2. \A i, j \in viol : Beats(rules[i].action, rules[j].action) <=> weak(i) < weak(j)
    BY BeatsIsWeaknessOrder
  <1> HIDE DEF weak
  <1>3. PICK w \in W : \A v \in W : w <= v
    <2>1. W \subseteq Nat /\ W # {}
      BY <1>1
    <2> HIDE DEF W
    <2>2. QED BY <2>1, LeastNat
  <1> DEFINE F == {i \in viol : weak(i) = w}
  <1>4. PICK i \in F : \A j \in F : i <= j
    <2>1. F \subseteq Nat /\ F # {}
      OBVIOUS
    <2> HIDE DEF F
    <2>2. QED BY <2>1, LeastNat
  <1>5. i \in viol /\ weak(i) = w
    BY <1>4
  <1>6. ASSUME NEW j \in viol
        PROVE  /\ ~Beats(rules[j].action, rules[i].action)
               /\ i <= j \/ Beats(rules[i].action, rules[j].action)
    <2>1. weak(i) <= weak(j) /\ weak(i) \in Nat /\ weak(j) \in Nat
      BY <1>1, <1>3, <1>5
    <2>2. ~Beats(rules[j].action, rules[i].action)
      BY <2>1, <1>2, <1>5
    <2>3. CASE weak(j) = w
      BY <2>2, <2>3, <1>4
    <2>4. CASE weak(j) # w
      BY <2>1, <2>2, <2>4, <1>2, <1>5
    <2>5. QED BY <2>3, <2>4
  <1>7. QED
    BY <1>5, <1>6 DEF Strongest

\* strongest_auto returns None or an automatic policy that ends a cooldown from now.
LEMMA StrongestAutoType ==
  ASSUME NEW rules, NEW viol, viol \subseteq Nat,
         \A i \in viol : rules[i].id \in RuleIds /\ rules[i].action \in Action,
         NEW t \in Nat, NEW cooldown \in Nat
  PROVE  StrongestAuto(rules, viol, t, cooldown) \in AutoPolicy \cup {None}
  <1>1. CASE viol = {}
    BY <1>1 DEF StrongestAuto
  <1>2. CASE viol # {}
    <2> DEFINE r == rules[Strongest(rules, viol)]
    <2>1. r.id \in RuleIds /\ r.action \in Action
      BY <1>2, StrongestIsViolated
    <2>2. StrongestAuto(rules, viol, t, cooldown) = FromAction(r.id, r.action, t, cooldown)
      BY <1>2 DEF StrongestAuto
    <2>3. FromAction(r.id, r.action, t, cooldown) \in AutoPolicy
      BY <2>1 DEF FromAction, AutoPolicy, Action, U8, Instant
    <2>4. QED BY <2>2, <2>3
  <1>3. QED BY <1>1, <1>2

(***************************************************************************)
(* The ring of buckets                                                     *)
(***************************************************************************)

\* Saturating arithmetic stays within u64 and never goes backwards.
LEMMA SaturatingArithmetic ==
  ASSUME NEW a \in U64, NEW b \in Nat
  PROVE  /\ SatAdd(a, b) \in U64
         /\ a <= SatAdd(a, b)
         /\ SatSub(b, a) \in Nat /\ SatSub(a, b) \in Nat
         /\ SatSub(b, a) <= b
  BY UnitsAssumption DEF SatAdd, SatSub, U64

\* A remainder is an index into the ring.
LEMMA RemainderIsSlot ==
  ASSUME NEW n \in Int
  PROVE  n % Buckets \in Slots
  BY BucketsAssumption DEF Slots

\* The whole seconds between two instants are a natural number.
LEMMA ElapsedType ==
  ASSUME NEW w \in Window, NEW t \in Instant
  PROVE  Elapsed(w, t) \in Nat
  <1>1. w.last_advance \in Nat /\ t \in Nat
    BY DEF Window, Instant
  <1>2. SatSub(t, w.last_advance) \in Nat
    BY <1>1 DEF SatSub
  <1>3. QED
    BY <1>2, UnitsAssumption DEF Elapsed, AsSecs

\* A new window is a window.
LEMMA NewWindowType ==
  ASSUME NEW t \in Instant
  PROVE  NewWindow(t) \in Window
  BY BucketsAssumption, UnitsAssumption DEF NewWindow, Window, Slots, U64

\* SlidingWindow::advance leaves a ring with the cursor on one of its buckets.
LEMMA AdvanceType ==
  ASSUME NEW w \in Window, NEW t \in Instant
  PROVE  Advance(w, t) \in Window
  <1> DEFINE elapsed == Elapsed(w, t)
             steps == IF elapsed < Buckets THEN elapsed ELSE Buckets
             cleared == [s \in Slots |-> IF Cleared(w, steps, s) THEN 0 ELSE w.buckets[s]]
             cursor == (w.cursor + steps) % Buckets
  <1>1. w.buckets \in [Slots -> U64] /\ w.cursor \in Slots
    BY DEF Window
  <1>2. CASE elapsed = 0
    BY <1>2 DEF Advance
  <1>3. CASE elapsed # 0
    <2>1. Advance(w, t) = [buckets |-> cleared, cursor |-> cursor, last_advance |-> t]
      BY <1>3 DEF Advance
    <2>2. cleared \in [Slots -> U64]
      BY <1>1, UnitsAssumption DEF U64
    <2>3. cursor \in Slots
      <3>1. w.cursor + steps \in Int
        BY <1>1, ElapsedType, BucketsAssumption DEF Slots
      <3>2. QED BY <3>1, RemainderIsSlot
    <2> HIDE DEF cleared, cursor
    <2>4. QED BY <2>1, <2>2, <2>3 DEF Window
  <1>4. QED BY <1>2, <1>3

\* SlidingWindow::add keeps a window a window.
LEMMA AddType ==
  ASSUME NEW w \in Window, NEW delta \in Nat, NEW t \in Instant
  PROVE  Add(w, delta, t) \in Window
  <1> DEFINE v == Advance(w, t)
  <1>1. v \in Window
    BY AdvanceType
  <1> HIDE DEF v
  <1>2. v.buckets \in [Slots -> U64] /\ v.cursor \in Slots
    BY <1>1 DEF Window
  <1>3. SatAdd(v.buckets[v.cursor], delta) \in U64
    BY <1>2, SaturatingArithmetic
  <1>4. [v EXCEPT !.buckets[v.cursor] = SatAdd(@, delta)] \in Window
    BY <1>1, <1>2, <1>3 DEF Window
  <1>5. QED
    BY <1>4 DEF Add, v

(***************************************************************************)
(* Helpers of the actions: what type they return.                          *)
(***************************************************************************)
\* Seconds to clock units.
LEMMA SecondsType ==
  ASSUME NEW n \in Nat
  PROVE  n * Second \in Nat
  BY UnitsAssumption

\* The initial maps and locals are well typed.
LEMMA EmptyTypes ==
  /\ NoCounts \in Counts
  /\ NoWindows \in [Clients -> [RuleIds -> Window \cup {None}]]
  /\ NoPolicies \in [Clients -> ClientPolicy]
  /\ NoActions \in [Clients -> EffectiveAction \cup {None}]
  /\ NoRequests \in [Conns -> Request \cup {None}]
  /\ Asleep \in TickLocals
  <1>1. NoCounts \in Counts
    BY UnitsAssumption DEF NoCounts, Counts, U64
  <1>2. NoPolicies \in [Clients -> ClientPolicy]
    BY DEF NoPolicies, NoPolicy, ClientPolicy
  <1>3. Asleep \in TickLocals
    BY <1>1 DEF Asleep, TickLocals, Instant
  <1>4. QED
    BY <1>1, <1>2, <1>3 DEF NoWindows, NoActions, NoRequests

\* Every configuration has well-typed rules.
LEMMA ConfigType ==
  ASSUME NEW i \in DOMAIN Configs
  PROVE  /\ Configs[i].rules \in Seq(Rule)
         /\ Cooldown(Configs[i]) \in Nat
  <1>1. Configs[i] \in Config
    BY DaemonAssumption
  <1>2. Configs[i].rules \in Seq(Rule) /\ Configs[i].cooldown_secs \in Nat
    BY <1>1 DEF Config
  <1>3. QED
    BY <1>2, SecondsType DEF Cooldown

\* persist_manual writes a well-typed key.
LEMMA PutKeyType ==
  ASSUME NEW m \in ManualPolicy, NEW at \in Instant, NEW t \in Instant
  PROVE  PutKey(FromRuntime(m, at, t), t) \in Key
  <1> DEFINE s == FromRuntime(m, at, t)
  <1>1. m.until # None => SatSub(m.until, at) \in Nat
    BY DEF ManualPolicy, Instant, SatSub
  <1>2. m.until # None => AsSecs(SatSub(m.until, at)) \in Nat
    BY <1>1, UnitsAssumption DEF AsSecs
  <1>3. AsSecs(t) \in Nat
    BY UnitsAssumption DEF AsSecs, Instant
  <1>4. s \in StoredManualPolicy
    BY <1>2, <1>3 DEF FromRuntime, StoredManualPolicy, ManualPolicy
  <1> HIDE DEF s
  <1>5. s.until_unix_secs # None => Ttl(s, t) * Second \in Nat
    <2> HAVE s.until_unix_secs # None
    <2>1. s.until_unix_secs \in Nat
      BY <1>4 DEF StoredManualPolicy
    <2>2. Ttl(s, t) \in Nat
      BY <1>3, <2>1 DEF Ttl, SatSub
    <2>3. QED BY <2>2, SecondsType
  <1>6. QED
    BY <1>4, <1>5 DEF PutKey, Key, Instant, s

\* to_runtime gives a well-typed manual policy.
LEMMA ToRuntimeType ==
  ASSUME NEW s \in StoredManualPolicy, NEW t \in Instant
  PROVE  ToRuntime(s, t) \in ManualPolicy
  <1>1. s.until_unix_secs # None => s.until_unix_secs * Second \in Nat
    BY SecondsType DEF StoredManualPolicy
  <1>2. QED
    BY <1>1 DEF ToRuntime, StoredManualPolicy, ManualPolicy, Instant

\* tick() computes well-typed windows, policies and actions.
LEMMA TickTypes ==
  ASSUME TypeOK, NEW c \in Clients
  PROVE  /\ \A r \in RuleIds : Delta(c, r) \in Nat /\ NextWindow(c, r) \in Window \cup {None}
         /\ NextPolicy(c) \in ClientPolicy
         /\ MergePolicy(NextPolicy(c), tick.now) \in EffectiveAction
  <1>1. /\ tick.now \in Instant /\ tick.cooldown \in Nat /\ tick.snapshot \in Counts
        /\ tick.rules \in {Configs[i].rules : i \in DOMAIN Configs} \cup {<<>>}
    BY DEF TypeOK, TickLocals
  <1>2. ASSUME NEW r \in RuleIds
        PROVE  Delta(c, r) \in Nat /\ NextWindow(c, r) \in Window \cup {None}
    <2>1. last[c][r] \in U64 /\ tick.snapshot[c][r] \in U64
      BY <1>1 DEF TypeOK, Counts
    <2>2. Delta(c, r) \in Nat
      BY <2>1 DEF Delta, SatSub, U64
    <2>3. windows[c][r] \in Window \cup {None}
      BY DEF TypeOK
    <2> DEFINE v == IF windows[c][r] = None THEN None ELSE Advance(windows[c][r], tick.now)
               v2 == IF v = None THEN NewWindow(tick.now) ELSE v
    <2>4. v \in Window \cup {None}
      BY <1>1, <2>3, AdvanceType
    <2>5. v2 \in Window
      BY <1>1, <2>4, NewWindowType
    <2>6. Add(v2, Delta(c, r), tick.now) \in Window
      <3> HIDE DEF v2
      <3>1. QED BY <1>1, <2>2, <2>5, AddType
    <2>7. NextWindow(c, r) = IF Delta(c, r) = 0 THEN v ELSE Add(v2, Delta(c, r), tick.now)
      BY DEF NextWindow
    <2> HIDE DEF v, v2
    <2>8. QED BY <2>2, <2>4, <2>6, <2>7
  <1>3. NextAuto(c) \in AutoPolicy \cup {None}
    <2> DEFINE viol == Violated([r \in RuleIds |-> NextWindow(c, r)])
               strongest == StrongestAuto(tick.rules, viol, tick.now, tick.cooldown)
    <2>1. tick.rules \in Seq(Rule)
      <3>1. CASE tick.rules = <<>>
        BY <3>1
      <3>2. CASE \E i \in DOMAIN Configs : tick.rules = Configs[i].rules
        BY <3>2, ConfigType, Zenon
      <3>3. QED BY <1>1, <3>1, <3>2
    <2>2. viol \subseteq DOMAIN tick.rules
      BY DEF Violated
    <2> HIDE DEF viol
    <2>3. viol \subseteq Nat
      BY <2>1, <2>2
    <2>4. \A i \in viol : tick.rules[i].id \in RuleIds /\ tick.rules[i].action \in Action
      <3>1. \A i \in viol : tick.rules[i] \in Rule
        BY <2>1, <2>2
      <3>2. QED BY <3>1 DEF Rule
    <2>5. strongest \in AutoPolicy \cup {None}
      BY <1>1, <2>3, <2>4, StrongestAutoType DEF Instant
    <2>6. policies[c].auto \in AutoPolicy \cup {None}
      BY DEF TypeOK, ClientPolicy
    <2>7. NextAuto(c) \in {strongest, None, policies[c].auto}
      BY DEF NextAuto, viol
    <2>8. QED BY <2>5, <2>6, <2>7
  <1>4. NextManual(c) \in ManualPolicy \cup {None}
    BY DEF NextManual, TypeOK, ClientPolicy
  <1>5. NextPolicy(c) \in ClientPolicy
    BY <1>3, <1>4 DEF NextPolicy, ClientPolicy
  <1>6. QED
    BY <1>1, <1>2, <1>5, MergeType

\* The manual policy a request produces, and what is written for it, is well typed.
LEMMA SetManualType ==
  ASSUME TypeOK, NEW k \in Conns, reqs[k] # None, NEW m \in ManualPolicy \cup {None},
         SetManual(k, m)
  PROVE  TypeOK'
  <1>1. reqs[k] \in Request
    BY DEF TypeOK
  <1>2. reqs[k].client \in Clients /\ reqs[k].at \in Instant
    BY <1>1 DEF Request
  <1>3. policies' \in [Clients -> ClientPolicy]
    BY <1>2 DEF SetManual, TypeOK, ClientPolicy
  <1>4. reqs' \in [Conns -> Request \cup {None}]
    BY DEF SetManual, PersistManual, Reply, TypeOK
  <1>5. answered' \in [Clients -> Answer \cup {None}]
    <2>1. [op |-> reqs[k].op, ok |-> TRUE] \in Answer /\ [op |-> reqs[k].op, ok |-> FALSE] \in Answer
      BY <1>1 DEF Request, Answer
    <2>2. Reply(k, TRUE) \/ Reply(k, FALSE)
      BY DEF SetManual, PersistManual
    <2>3. QED BY <1>2, <2>1, <2>2 DEF Reply, TypeOK
  <1>6. redis' \in [Clients -> Key \cup {None}]
    <2> DEFINE key == IF m = None THEN None ELSE PutKey(FromRuntime(m, reqs[k].at, now), now)
    <2>1. key \in Key \cup {None}
      BY <1>2, PutKeyType DEF TypeOK
    <2>2. redis' \in {redis, [redis EXCEPT ![reqs[k].client] = key]}
      BY DEF SetManual, PersistManual
    <2> HIDE DEF key
    <2>3. QED BY <1>2, <2>1, <2>2 DEF TypeOK
  <1>7. QED
    BY <1>3, <1>4, <1>5, <1>6 DEF SetManual, TypeOK, bootVars, TickLocals

\* Launch() starts the worker threads in a well-typed state.
LEMMA LaunchType ==
  ASSUME TypeOK, NEW hydrated \in [Clients -> ClientPolicy], Launch(hydrated),
         UNCHANGED <<now, redis, answered>>, backend' \in {"redis", "memory"},
         live' \in DOMAIN Configs
  PROVE  TypeOK'
  <1>1. tick' \in TickLocals
    BY EmptyTypes DEF Launch, TypeOK, TickLocals
  <1>2. enforcer' \in {"bpf", "permissive"}
    BY DEF Launch, Enforcers
  <1>3. QED
    BY <1>1, <1>2 DEF Launch, TypeOK

\* Every step keeps the types.
LEMMA TypeStep ==
  TypeOK /\ [Next]_vars => TypeOK'
  <1> SUFFICES ASSUME TypeOK, [Next]_vars PROVE TypeOK'
    OBVIOUS
  <1>1. CASE Clock
    BY <1>1 DEF Clock, TypeOK, bootVars, daemonVars, Instant
  <1>2. CASE StartKeys
    <2>1. keys' \in SUBSET Clients
      BY <1>2 DEF StartKeys
    <2>2. live' \in DOMAIN Configs
      BY <1>2, DaemonAssumption DEF StartKeys
    <2>3. QED BY <1>2, <2>1, <2>2 DEF StartKeys, TypeOK
  <1>3. CASE StartWithoutRedis
    <2>1. live' \in DOMAIN Configs
      BY <1>3, DaemonAssumption DEF StartWithoutRedis
    <2>2. QED BY <1>3, <2>1, EmptyTypes, LaunchType DEF StartWithoutRedis
  <1>4. CASE Hydrate
    <2> DEFINE hydrated == [c \in Clients |->
                              IF c \in keys
                                THEN [manual |-> ToRuntime(redis[c].policy, now), auto |-> None]
                                ELSE NoPolicy]
    <2>1. hydrated \in [Clients -> ClientPolicy]
      <3>1. ASSUME NEW c \in keys, c \in Clients
            PROVE  [manual |-> ToRuntime(redis[c].policy, now), auto |-> None] \in ClientPolicy
        <4>1. redis[c] \in Key
          BY <1>4, <3>1 DEF Hydrate, Present, TypeOK
        <4>2. ToRuntime(redis[c].policy, now) \in ManualPolicy
          BY <4>1, ToRuntimeType DEF Key, TypeOK
        <4>3. QED BY <4>2 DEF ClientPolicy
      <3>2. NoPolicy \in ClientPolicy
        BY DEF NoPolicy, ClientPolicy
      <3>3. QED BY <3>1, <3>2
    <2>2. Launch(hydrated) /\ UNCHANGED <<now, backend, live, redis, answered>>
      BY <1>4 DEF Hydrate
    <2> HIDE DEF hydrated
    <2>3. backend' \in {"redis", "memory"} /\ live' \in DOMAIN Configs
      BY <2>2 DEF TypeOK
    <2>4. QED BY <2>1, <2>2, <2>3, LaunchType
  <1>5. CASE HydrateFails
    BY <1>5 DEF HydrateFails, TypeOK, daemonVars
  <1>6. CASE Crash
    <2>1. NoCounts \in [Clients -> [RuleIds -> Nat]]
      BY DEF NoCounts
    <2>2. QED BY <1>6, <2>1, EmptyTypes DEF Crash, TypeOK
  <1>7. CASE Reload
    <2>1. live' \in DOMAIN Configs
      BY <1>7, DaemonAssumption DEF Reload
    <2>2. QED BY <1>7, <2>1 DEF Reload, TypeOK, bootVars
  <1>8. CASE Sniffer
    <2>1. PICK c \in Clients, r \in RuleIds, n \in Amounts : Count(c, r, n)
      BY <1>8 DEF Sniffer
    <2>2. counters' \in Counts
      <3>1. counters[c][r] \in U64 /\ n \in Nat
        BY DaemonAssumption DEF TypeOK, Counts
      <3>2. SatAdd(counters[c][r], n) \in U64
        BY <3>1, SaturatingArithmetic
      <3>3. QED BY <2>1, <3>2 DEF Count, TypeOK, Counts
    <2>3. QED BY <2>1, <2>2 DEF Count, TypeOK, bootVars
  <1>9. CASE TickStart
    <2>1. now + Second \in Instant
      BY UnitsAssumption DEF TypeOK, Instant
    <2>2. tick' \in TickLocals
      BY <1>9, <2>1 DEF TickStart, TypeOK, TickLocals
    <2>3. QED BY <1>9, <2>2 DEF TickStart, TypeOK, bootVars
  <1>10. CASE TickLoadRules
    <2>1. tick' \in TickLocals
      BY <1>10 DEF TickLoadRules, TypeOK, TickLocals
    <2>2. QED BY <1>10, <2>1 DEF TickLoadRules, TypeOK, bootVars
  <1>11. CASE TickSnapshot
    <2>1. tick' \in TickLocals
      BY <1>11, ConfigType DEF TickSnapshot, TypeOK, TickLocals
    <2>2. QED BY <1>11, <2>1 DEF TickSnapshot, TypeOK, bootVars
  <1>12. CASE TickCommit
    <2>1. windows' \in [Clients -> [RuleIds -> Window \cup {None}]]
      BY <1>12, TickTypes DEF TickCommit
    <2>2. policies' \in [Clients -> ClientPolicy]
      BY <1>12, TickTypes DEF TickCommit
    <2>3. would_be' \in [Clients -> EffectiveAction \cup {None}]
      <3>1. \A c \in Clients :
              NextWouldBe(c, MergePolicy(NextPolicy(c), tick.now)) \in EffectiveAction \cup {None}
        BY TickTypes DEF NextWouldBe, TypeOK
      <3>2. QED BY <1>12, <3>1 DEF TickCommit
    <2>4. enforced' \in [Clients -> EffectiveAction \cup {None}]
      <3>1. \A c \in Clients :
              NextEnforced(c, MergePolicy(NextPolicy(c), tick.now)) \in EffectiveAction \cup {None}
        BY TickTypes DEF NextEnforced, Recorded, TypeOK
      <3>2. QED BY <1>12, <3>1 DEF TickCommit
    <2>5. last' \in Counts
      BY <1>12 DEF TickCommit, NextLast, TypeOK, TickLocals
    <2>6. fed' \in [Clients -> [RuleIds -> Nat]]
      <3>1. \A c \in Clients, r \in RuleIds : fed[c][r] \in Nat /\ Delta(c, r) \in Nat
        BY TickTypes DEF TypeOK
      <3>2. \A c \in Clients, r \in RuleIds : fed[c][r] + Delta(c, r) \in Nat
        BY <3>1
      <3>3. QED BY <1>12, <3>2 DEF TickCommit
    <2>7. tick' \in TickLocals
      BY <1>12, EmptyTypes DEF TickCommit, TypeOK, TickLocals
    <2>8. QED
      BY <1>12, <2>1, <2>2, <2>3, <2>4, <2>5, <2>6, <2>7 DEF TickCommit, TypeOK, bootVars
  <1>13. CASE Arrival
    <2>1. PICK k \in Conns, c \in Clients, call \in Calls : Receive(k, c, call)
      BY <1>13 DEF Arrival
    <2>2. /\ call.op \in {"throttle", "block", "unthrottle", "unblock"}
          /\ call.rate \in U8 /\ call.secs \in Nat \cup {None}
      <3>0. 0 \in U8
        BY DEF U8
      <3>1. /\ Ops \subseteq {"throttle", "block", "unthrottle", "unblock"}
            /\ Rates \subseteq U8 /\ Durations \subseteq Nat \cup {None}
        BY DaemonAssumption
      <3>2. CASE call \in [op : Ops \cap {"throttle"}, rate : Rates, secs : Durations]
        BY <3>1, <3>2
      <3>3. CASE call \in [op : Ops \cap {"block"}, rate : {0}, secs : Durations]
        BY <3>1, <3>3, <3>0
      <3>4. CASE call \in [op : Ops \cap {"unthrottle", "unblock"}, rate : {0}, secs : {None}]
        BY <3>1, <3>4, <3>0
      <3>5. QED BY <3>2, <3>3, <3>4 DEF Calls
    <2>3. call.secs # None => now + call.secs * Second \in Instant
      BY <2>2, SecondsType DEF TypeOK, Instant
    <2>4. [op |-> call.op, client |-> c, rate |-> call.rate, at |-> now,
           until |-> IF call.secs = None THEN None ELSE now + call.secs * Second] \in Request
      BY <2>2, <2>3 DEF Request, TypeOK
    <2>5. QED BY <2>1, <2>4 DEF Receive, TypeOK, bootVars
  <1>14. ASSUME NEW k \in Conns, Handler(k) PROVE TypeOK'
    <2>1. reqs[k] # None
      BY <1>14 DEF Handler, ThrottleClient, BlockClient, ClearManualThrottle, ClearManualBlock,
         ClearNothing, Serving
    <2>2. reqs[k] \in Request
      BY <2>1 DEF TypeOK
    <2>3. ManualOrDefault(reqs[k].client) \in ManualPolicy
      BY <2>2 DEF ManualOrDefault, TypeOK, ClientPolicy, ManualPolicy, Request
    <2>4. policies[reqs[k].client].manual \in ManualPolicy \cup {None}
      BY <2>2 DEF TypeOK, ClientPolicy, Request
    <2>5. CASE ThrottleClient(k)
      <3>1. [ManualOrDefault(reqs[k].client) EXCEPT !.throttle = reqs[k].rate,
                                                    !.until = reqs[k].until] \in ManualPolicy
        BY <2>2, <2>3 DEF ManualPolicy, Request
      <3>2. QED BY <2>1, <2>5, <3>1, SetManualType DEF ThrottleClient
    <2>6. CASE BlockClient(k)
      <3>1. [ManualOrDefault(reqs[k].client) EXCEPT !.blocked = TRUE,
                                                    !.until = reqs[k].until] \in ManualPolicy
        BY <2>2, <2>3 DEF ManualPolicy, Request
      <3>2. QED BY <2>1, <2>6, <3>1, SetManualType DEF BlockClient
    <2>7. CASE ClearManualThrottle(k)
      <3> DEFINE m == policies[reqs[k].client].manual
                 rest == IF m.blocked THEN [m EXCEPT !.throttle = None] ELSE None
      <3>1. SetManual(k, rest) /\ m # None
        BY <2>7 DEF ClearManualThrottle
      <3>2. rest \in ManualPolicy \cup {None}
        BY <2>4, <3>1 DEF ManualPolicy
      <3> HIDE DEF rest, m
      <3>3. QED BY <2>1, <3>1, <3>2, SetManualType
    <2>8. CASE ClearManualBlock(k)
      <3> DEFINE m == policies[reqs[k].client].manual
                 rest == IF m.throttle # None THEN [m EXCEPT !.blocked = FALSE] ELSE None
      <3>1. SetManual(k, rest) /\ m # None
        BY <2>8 DEF ClearManualBlock
      <3>2. rest \in ManualPolicy \cup {None}
        BY <2>4, <3>1 DEF ManualPolicy
      <3> HIDE DEF rest, m
      <3>3. QED BY <2>1, <3>1, <3>2, SetManualType
    <2>9. CASE ClearNothing(k)
      <3>1. [op |-> reqs[k].op, ok |-> TRUE] \in Answer
        BY <2>2 DEF Request, Answer
      <3>2. QED BY <2>2, <2>9, <3>1 DEF ClearNothing, Reply, TypeOK, bootVars, Request
    <2>10. QED BY <1>14, <2>5, <2>6, <2>7, <2>8, <2>9 DEF Handler
  <1>15. CASE UNCHANGED vars
    BY <1>15 DEF TypeOK, vars, bootVars, daemonVars
  <1>16. QED
    BY <1>1, <1>2, <1>3, <1>4, <1>5, <1>6, <1>7, <1>8, <1>9, <1>10, <1>11, <1>12, <1>13,
       <1>14, <1>15 DEF Next, Startup, Decision

\* The initial state is well typed.
LEMMA TypeInit == Init => TypeOK
  <1> SUFFICES ASSUME Init PROVE TypeOK
    OBVIOUS
  <1>1. live \in DOMAIN Configs
    BY DaemonAssumption DEF Init
  <1>2. NoCounts \in [Clients -> [RuleIds -> Nat]]
    BY DEF NoCounts
  <1>3. QED
    BY <1>1, <1>2, EmptyTypes DEF Init, TypeOK, Instant

\* Every variable of the daemon keeps the type of its Rust counterpart: counters stay
\* within u64, cursors inside their ring, drop rates within u8.
THEOREM TypeCorrect == Spec => []TypeOK
  BY TypeInit, TypeStep, PTL DEF Spec

(***************************************************************************)
(* CountedOnce                                                             *)
(***************************************************************************)
\* tick() moves exactly the difference between the clone and last_counters.
LEMMA CountedOnceStep ==
  TypeOK /\ CountedOnce /\ [Next]_vars => CountedOnce'
  <1> SUFFICES ASSUME TypeOK, CountedOnce, [Next]_vars,
                      NEW c \in Clients, NEW r \in RuleIds
               PROVE  (/\ fed[c][r] = last[c][r]
                       /\ last[c][r] <= counters[c][r]
                       /\ tick.pc = "locking" => /\ last[c][r] <= tick.snapshot[c][r]
                                                 /\ tick.snapshot[c][r] <= counters[c][r])'
    BY DEF CountedOnce
  <1> USE DEF CountedOnce
  <1>1. /\ counters[c][r] \in Nat /\ last[c][r] \in Nat /\ fed[c][r] \in Nat
        /\ tick.snapshot[c][r] \in Nat
    BY DEF TypeOK, Counts, TickLocals, U64
  <1>2. CASE UNCHANGED <<counters, last, fed, tick>>
    BY <1>2
  <1>3. CASE Crash
    BY <1>3 DEF Crash, NoCounts, Asleep
  <1>4. CASE UNCHANGED <<counters, last, fed>> /\ tick'.pc # "locking"
    BY <1>4
  <1>5. CASE Sniffer
    <2>1. PICK d \in Clients, q \in RuleIds, n \in Amounts : Count(d, q, n)
      BY <1>5 DEF Sniffer
    <2>2. counters[d][q] \in U64 /\ n \in Nat
      BY DaemonAssumption DEF TypeOK, Counts
    <2>3. counters[d][q] <= SatAdd(counters[d][q], n) /\ SatAdd(counters[d][q], n) \in Nat
      BY <2>2, SaturatingArithmetic DEF U64
    <2>4. counters[c][r] <= counters'[c][r] /\ counters'[c][r] \in Nat
      BY <1>1, <2>1, <2>3 DEF Count, TypeOK, Counts
    <2>5. UNCHANGED <<last, fed, tick>>
      BY <2>1 DEF Count
    <2>6. QED BY <1>1, <2>4, <2>5
  <1>6. CASE TickSnapshot
    <2>1. tick'.snapshot = counters
      BY <1>6 DEF TickSnapshot, TypeOK, TickLocals
    <2>2. UNCHANGED <<counters, last, fed>>
      BY <1>6 DEF TickSnapshot
    <2>3. QED BY <1>1, <2>1, <2>2
  <1>7. CASE TickCommit
    <2>1. tick.pc = "locking" /\ tick'.pc = "sleep"
      BY <1>7 DEF TickCommit, Asleep
    <2>2. last' = tick.snapshot /\ UNCHANGED counters
      BY <1>7 DEF TickCommit, NextLast
    <2>3. fed'[c][r] = fed[c][r] + Delta(c, r)
      BY <1>7 DEF TickCommit
    <2>4. fed[c][r] + Delta(c, r) = tick.snapshot[c][r]
      BY <1>1, <2>1 DEF Delta, SatSub
    <2>5. QED BY <1>1, <2>1, <2>2, <2>3, <2>4
  <1>8. CASE StartKeys \/ HydrateFails
    BY <1>2, <1>8 DEF StartKeys, HydrateFails, daemonVars
  <1>9. CASE StartWithoutRedis \/ Hydrate
    BY <1>4, <1>9 DEF StartWithoutRedis, Hydrate, Launch, Asleep
  <1>10. CASE Clock \/ Reload \/ Arrival
    BY <1>2, <1>10 DEF Clock, daemonVars, Reload, Arrival, Receive
  <1>11. CASE TickStart \/ TickLoadRules
    BY <1>4, <1>11 DEF TickStart, TickLoadRules, TypeOK, TickLocals
  <1>12. ASSUME NEW k \in Conns, Handler(k)
         PROVE  UNCHANGED <<counters, last, fed, tick>>
    BY <1>12 DEF Handler, ThrottleClient, BlockClient, ClearManualThrottle, ClearManualBlock,
       ClearNothing, SetManual
  <1>13. CASE UNCHANGED vars
    BY <1>2, <1>13 DEF vars, daemonVars
  <1>14. QED
    BY <1>2, <1>3, <1>5, <1>6, <1>7, <1>8, <1>9, <1>10, <1>11, <1>12, <1>13
       DEF Next, Startup, Decision

\* However the sniffer's additions fall between the clone and the end of tick(), every
\* unit enters the windows exactly once: what was fed is what last_counters says.
THEOREM EveryUnitCountedOnce == Spec => []CountedOnce
  <1>1. Init => CountedOnce
    BY DEF Init, CountedOnce, NoCounts, Asleep
  <1>2. QED
    BY <1>1, CountedOnceStep, TypeCorrect, PTL DEF Spec

(***************************************************************************)
(* NoEmptyManual                                                           *)
(***************************************************************************)
\* A manual policy that says something.
Says(m) == m.blocked \/ m.throttle # None

\* Storing such a policy, under any outcome of the Redis command, keeps the invariant.
LEMMA SetManualSays ==
  ASSUME TypeOK, NoEmptyManual, NEW k \in Conns, reqs[k] # None, NEW m,
         m # None => Says(m), SetManual(k, m)
  PROVE  NoEmptyManual'
  <1>1. reqs[k].client \in Clients
    BY DEF TypeOK, Request
  <1> DEFINE key == IF m = None THEN None ELSE PutKey(FromRuntime(m, reqs[k].at, now), now)
  <1>2. key # None => key.policy.blocked \/ key.policy.throttle # None
    BY DEF Says, PutKey, FromRuntime
  <1>3. redis' \in {redis, [redis EXCEPT ![reqs[k].client] = key]}
    BY DEF SetManual, PersistManual
  <1>4. policies' = [policies EXCEPT ![reqs[k].client].manual = m]
    BY DEF SetManual
  <1> HIDE DEF key
  <1>5. ASSUME NEW c \in Clients
        PROVE  policies'[c].manual # None =>
                 policies'[c].manual.blocked \/ policies'[c].manual.throttle # None
    BY <1>1, <1>4 DEF NoEmptyManual, Says, TypeOK, ClientPolicy
  <1>6. ASSUME NEW c \in Clients
        PROVE  redis'[c] # None =>
                 redis'[c].policy.blocked \/ redis'[c].policy.throttle # None
    BY <1>1, <1>2, <1>3 DEF NoEmptyManual, TypeOK
  <1>7. QED BY <1>5, <1>6 DEF NoEmptyManual

\* No step leaves an empty manual policy behind.
LEMMA NoEmptyManualStep ==
  TypeOK /\ NoEmptyManual /\ [Next]_vars => NoEmptyManual'
  <1> SUFFICES ASSUME TypeOK, NoEmptyManual, [Next]_vars PROVE NoEmptyManual'
    OBVIOUS
  <1>1. CASE UNCHANGED <<policies, redis>>
    BY <1>1 DEF NoEmptyManual
  <1>2. CASE policies' = NoPolicies /\ UNCHANGED redis
    BY <1>2 DEF NoEmptyManual, NoPolicies, NoPolicy
  <1>3. CASE Hydrate
    <2>1. UNCHANGED redis
      BY <1>3 DEF Hydrate
    <2>2. ASSUME NEW c \in Clients, policies'[c].manual # None
          PROVE  policies'[c].manual.blocked \/ policies'[c].manual.throttle # None
      <3>1. c \in keys /\ policies'[c].manual = ToRuntime(redis[c].policy, now)
        BY <1>3, <2>2 DEF Hydrate, Launch, NoPolicy
      <3>2. redis[c] # None
        BY <1>3, <3>1 DEF Hydrate, Present
      <3>3. redis[c].policy.blocked \/ redis[c].policy.throttle # None
        BY <3>2 DEF NoEmptyManual
      <3>4. QED BY <3>1, <3>3 DEF ToRuntime
    <2>3. QED BY <2>1, <2>2 DEF NoEmptyManual
  <1>4. CASE TickCommit
    <2>1. UNCHANGED redis
      BY <1>4 DEF TickCommit
    <2>2. \A c \in Clients : policies'[c].manual \in {None, policies[c].manual}
      BY <1>4 DEF TickCommit, NextPolicy, NextManual
    <2>3. QED BY <2>1, <2>2 DEF NoEmptyManual
  <1>5. ASSUME NEW k \in Conns, Handler(k) PROVE NoEmptyManual'
    <2>1. reqs[k] # None
      BY <1>5 DEF Handler, ThrottleClient, BlockClient, ClearManualThrottle, ClearManualBlock,
         ClearNothing, Serving
    <2>2. reqs[k] \in Request
      BY <2>1 DEF TypeOK
    <2>3. ManualOrDefault(reqs[k].client) \in ManualPolicy
      BY <2>2 DEF ManualOrDefault, TypeOK, ClientPolicy, ManualPolicy, Request
    <2>4. policies[reqs[k].client].manual \in ManualPolicy \cup {None}
      BY <2>2 DEF TypeOK, ClientPolicy, Request
    <2>5. CASE ThrottleClient(k)
      <3> DEFINE m == [ManualOrDefault(reqs[k].client) EXCEPT !.throttle = reqs[k].rate,
                                                              !.until = reqs[k].until]
      <3>1. m.throttle # None
        BY <2>2, <2>3, NoneAssumption DEF ManualPolicy, Request, U8
      <3>2. Says(m) /\ SetManual(k, m)
        BY <2>5, <3>1 DEF ThrottleClient, Says
      <3> HIDE DEF m
      <3>3. QED BY <2>1, <3>2, SetManualSays
    <2>6. CASE BlockClient(k)
      <3> DEFINE m == [ManualOrDefault(reqs[k].client) EXCEPT !.blocked = TRUE,
                                                              !.until = reqs[k].until]
      <3>1. m.blocked
        BY <2>3 DEF ManualPolicy
      <3>2. Says(m) /\ SetManual(k, m)
        BY <2>6, <3>1 DEF BlockClient, Says
      <3> HIDE DEF m
      <3>3. QED BY <2>1, <3>2, SetManualSays
    <2>7. CASE ClearManualThrottle(k)
      <3> DEFINE m == policies[reqs[k].client].manual
                 rest == IF m.blocked THEN [m EXCEPT !.throttle = None] ELSE None
      <3>1. SetManual(k, rest) /\ m # None
        BY <2>7 DEF ClearManualThrottle
      <3>2. rest # None => Says(rest)
        BY <2>4, <3>1 DEF ManualPolicy, Says
      <3> HIDE DEF rest, m
      <3>3. QED BY <2>1, <3>1, <3>2, SetManualSays
    <2>8. CASE ClearManualBlock(k)
      <3> DEFINE m == policies[reqs[k].client].manual
                 rest == IF m.throttle # None THEN [m EXCEPT !.blocked = FALSE] ELSE None
      <3>1. SetManual(k, rest) /\ m # None
        BY <2>8 DEF ClearManualBlock
      <3>2. rest # None => Says(rest)
        BY <2>4, <3>1 DEF ManualPolicy, Says
      <3> HIDE DEF rest, m
      <3>3. QED BY <2>1, <3>1, <3>2, SetManualSays
    <2>9. CASE ClearNothing(k)
      BY <2>9, <1>1 DEF ClearNothing
    <2>10. QED BY <1>5, <2>5, <2>6, <2>7, <2>8, <2>9 DEF Handler
  <1>6. CASE Clock \/ StartKeys \/ HydrateFails \/ Reload \/ Arrival \/ UNCHANGED vars
    BY <1>1, <1>6 DEF Clock, StartKeys, HydrateFails, Reload, Arrival, Receive, vars, daemonVars
  <1>7. CASE Sniffer \/ TickStart \/ TickLoadRules \/ TickSnapshot
    BY <1>1, <1>7 DEF Sniffer, Count, TickStart, TickLoadRules, TickSnapshot
  <1>8. CASE Crash \/ StartWithoutRedis
    BY <1>2, <1>8 DEF Crash, StartWithoutRedis, Launch
  <1>9. QED
    BY <1>3, <1>4, <1>5, <1>6, <1>7, <1>8 DEF Next, Startup, Decision

\* A manual policy, in memory or in Redis, always throttles or blocks, whatever the
\* order of throttle, block, unthrottle and unblock, failed writes and restarts.
THEOREM ManualNeverEmpty == Spec => []NoEmptyManual
  <1>1. Init => NoEmptyManual
    BY DEF Init, NoEmptyManual, NoPolicies, NoPolicy
  <1>2. QED
    BY <1>1, NoEmptyManualStep, TypeCorrect, PTL DEF Spec

(***************************************************************************)
(* WouldBeOnlyPermissive, with the enforcer that permissive mode installs. *)
(***************************************************************************)
ModeInv == /\ WouldBeOnlyPermissive
           /\ Mode = "permissive" => enforcer = "permissive"

\* apply() and clear() treat would_be and the permissive log alike.
LEMMA ModeInvStep ==
  TypeOK /\ ModeInv /\ [Next]_vars => ModeInv'
  <1> SUFFICES ASSUME TypeOK, ModeInv, [Next]_vars PROVE ModeInv'
    OBVIOUS
  <1>1. CASE UNCHANGED <<would_be, enforced, enforcer>>
    BY <1>1 DEF ModeInv, WouldBeOnlyPermissive
  <1>2. CASE Crash
    BY <1>2 DEF Crash, ModeInv, WouldBeOnlyPermissive
  <1>3. CASE StartWithoutRedis \/ Hydrate
    <2>1. UNCHANGED <<would_be, enforced>> /\ enforcer' \in Enforcers
      BY <1>3 DEF StartWithoutRedis, Hydrate, Launch
    <2>2. QED BY <2>1 DEF Enforcers, ModeInv, WouldBeOnlyPermissive
  <1>4. CASE TickCommit
    <2> DEFINE act(c) == MergePolicy(NextPolicy(c), tick.now)
    <2>1. /\ would_be' = [c \in Clients |-> NextWouldBe(c, act(c))]
          /\ enforced' = [c \in Clients |-> NextEnforced(c, act(c))]
          /\ UNCHANGED enforcer
      BY <1>4 DEF TickCommit, bootVars
    <2> HIDE DEF act
    <2>2. CASE Mode = "permissive"
      <3>1. \A c \in Clients : NextWouldBe(c, act(c)) = NextEnforced(c, act(c))
        BY <2>2 DEF NextWouldBe, NextEnforced, Recorded, Keyed, ModeInv
      <3>2. would_be' = enforced'
        BY <2>1, <3>1
      <3>3. QED BY <2>1, <2>2, <3>2 DEF ModeInv, WouldBeOnlyPermissive
    <2>3. CASE Mode # "permissive"
      <3>1. \A c \in Clients : NextWouldBe(c, act(c)) = None
        BY <2>3 DEF NextWouldBe, ModeInv, WouldBeOnlyPermissive, NoActions
      <3>2. would_be' = NoActions
        BY <2>1, <3>1 DEF NoActions
      <3>3. QED BY <2>3, <3>2 DEF ModeInv, WouldBeOnlyPermissive
    <2>4. QED BY <2>2, <2>3
  <1>5. ASSUME NEW k \in Conns, Handler(k)
        PROVE  UNCHANGED <<would_be, enforced, enforcer>>
    BY <1>5 DEF Handler, ThrottleClient, BlockClient, ClearManualThrottle, ClearManualBlock,
       ClearNothing, SetManual, bootVars
  <1>6. CASE Clock \/ StartKeys \/ HydrateFails \/ Reload \/ Arrival \/ UNCHANGED vars
    BY <1>1, <1>6 DEF Clock, StartKeys, HydrateFails, Reload, Arrival, Receive, vars, daemonVars,
       bootVars
  <1>7. CASE Sniffer \/ TickStart \/ TickLoadRules \/ TickSnapshot
    BY <1>1, <1>7 DEF Sniffer, Count, TickStart, TickLoadRules, TickSnapshot, bootVars
  <1>8. QED
    BY <1>1, <1>2, <1>3, <1>4, <1>5, <1>6, <1>7 DEF Next, Startup, Decision

\* In enforce mode no client ever has a would-be action, whichever enforcer runs; in
\* permissive mode would_be and the enforcer's log never disagree.
THEOREM WouldBeFollowsMode == Spec => []WouldBeOnlyPermissive
  <1>1. Init => ModeInv
    BY DEF Init, ModeInv, WouldBeOnlyPermissive, NoActions
  <1>2. ModeInv => WouldBeOnlyPermissive
    BY DEF ModeInv
  <1>3. QED
    BY <1>1, <1>2, ModeInvStep, TypeCorrect, PTL DEF Spec

(***************************************************************************)
(* What one tick does                                                      *)
(***************************************************************************)
\* TickCommit is the only step that ends a tick of a running daemon.
LEMMA DecidesIsCommit ==
  TypeOK /\ [Next]_vars /\ Decides => TickCommit
  <1> SUFFICES ASSUME TypeOK, [Next]_vars, Decides PROVE TickCommit
    OBVIOUS
  <1>1. Running /\ Running' /\ tick' # tick /\ tick'.pc = "sleep" /\ tick.pc = "locking"
    BY DEF Decides
  <1>2. ~Startup /\ ~Crash
    BY <1>1 DEF Startup, StartKeys, StartWithoutRedis, Hydrate, HydrateFails, Crash, Running
  <1>3. ~Clock /\ ~Reload /\ ~Sniffer /\ ~Arrival /\ ~UNCHANGED vars
    BY <1>1 DEF Clock, Reload, Sniffer, Count, Arrival, Receive, vars, daemonVars
  <1>4. ~TickStart /\ ~TickLoadRules /\ ~TickSnapshot
    BY <1>1 DEF TickStart, TickLoadRules, TickSnapshot
  <1>5. \A k \in Conns : ~Handler(k)
    BY <1>1 DEF Handler, ThrottleClient, BlockClient, ClearManualThrottle, ClearManualBlock,
       ClearNothing, SetManual
  <1>6. QED
    BY <1>2, <1>3, <1>4, <1>5 DEF Next, Decision

\* After every tick the enforcer holds for each client it can key exactly what the two
\* policy sources ask for at the tick's instant, and so does would_be in permissive
\* mode.
THEOREM TickEnforcesPolicy == Spec => DecisionMatchesPolicy
  <1> DEFINE Matches ==
        Decides => \A c \in Clients :
          /\ Keyed(c) => Agrees(enforced'[c], policies'[c], tick.now)
          /\ Mode = "permissive" => Agrees(would_be'[c], policies'[c], tick.now)
  <1>1. TypeOK /\ [Next]_vars => [Matches]_vars
    <2> SUFFICES ASSUME TypeOK, [Next]_vars, Decides, NEW c \in Clients
                 PROVE  /\ Keyed(c) => Agrees(enforced'[c], policies'[c], tick.now)
                        /\ Mode = "permissive" => Agrees(would_be'[c], policies'[c], tick.now)
      OBVIOUS
    <2> DEFINE act == MergePolicy(NextPolicy(c), tick.now)
    <2>1. /\ policies'[c] = NextPolicy(c)
          /\ enforced'[c] = NextEnforced(c, act)
          /\ would_be'[c] = NextWouldBe(c, act)
      BY DecidesIsCommit DEF TickCommit
    <2>2. NextPolicy(c) \in ClientPolicy /\ tick.now \in Instant
      BY TickTypes DEF TypeOK, TickLocals
    <2>3. Agrees(Recorded(act), NextPolicy(c), tick.now)
      BY <2>2, MergeAgrees DEF Recorded
    <2> HIDE DEF act
    <2>4. Keyed(c) => enforced'[c] = Recorded(act)
      BY <2>1 DEF NextEnforced
    <2>5. Mode = "permissive" => would_be'[c] = Recorded(act)
      BY <2>1 DEF NextWouldBe, Recorded
    <2>6. QED BY <2>1, <2>3, <2>4, <2>5
  <1>2. QED
    BY <1>1, TypeCorrect, PTL DEF Spec, DecisionMatchesPolicy

\* While its cooldown runs an automatic policy stays in place, even when the measured
\* value has dropped below the limit or its rule is gone after a reload.
THEOREM AutoPolicyStaysInCooldown == Spec => CooldownHolds
  <1> DEFINE Holds == Decides => \A c \in Clients :
                        LiveAuto(policies[c], tick.now) => policies'[c].auto # None
  <1>1. TypeOK /\ [Next]_vars => [Holds]_vars
    <2> SUFFICES ASSUME TypeOK, [Next]_vars, Decides, NEW c \in Clients,
                        LiveAuto(policies[c], tick.now)
                 PROVE  policies'[c].auto # None
      OBVIOUS
    <2>1. policies'[c].auto = NextAuto(c)
      BY DecidesIsCommit DEF TickCommit, NextPolicy
    <2>2. NextAuto(c) # None
      BY DEF NextAuto, LiveAuto
    <2>3. QED BY <2>1, <2>2
  <1>2. QED
    BY <1>1, TypeCorrect, PTL DEF Spec, CooldownHolds

(***************************************************************************)
(* ManualNotLost: the tick works with an instant of the past, and a daemon *)
(* that is down has no policies in memory.                                 *)
(***************************************************************************)
ClockInv == /\ tick.pc \in {"rules", "locking"} => tick.now <= now
            /\ phase # "up" => policies = NoPolicies

\* The clock does not run backwards and a dead process has no memory.
LEMMA ClockInvStep ==
  TypeOK /\ ClockInv /\ [Next]_vars => ClockInv'
  <1> SUFFICES ASSUME TypeOK, ClockInv, [Next]_vars PROVE ClockInv'
    OBVIOUS
  <1>1. now \in Nat /\ tick.now \in Nat
    BY DEF TypeOK, TickLocals, Instant
  <1>2. CASE UNCHANGED <<now, tick, phase, policies>>
    BY <1>2 DEF ClockInv
  <1>3. CASE Clock
    BY <1>1, <1>3 DEF Clock, ClockInv, bootVars, daemonVars
  <1>4. CASE StartKeys \/ HydrateFails
    BY <1>4 DEF StartKeys, HydrateFails, ClockInv, daemonVars
  <1>5. CASE StartWithoutRedis \/ Hydrate
    BY <1>5 DEF StartWithoutRedis, Hydrate, Launch, Asleep, ClockInv
  <1>6. CASE Crash
    BY <1>6 DEF Crash, Asleep, ClockInv
  <1>7. CASE TickStart
    BY <1>7 DEF TickStart, ClockInv, bootVars, TypeOK, TickLocals
  <1>8. CASE TickLoadRules
    BY <1>1, <1>8 DEF TickLoadRules, ClockInv, bootVars, TypeOK, TickLocals
  <1>9. CASE TickSnapshot
    BY <1>9 DEF TickSnapshot, ClockInv, bootVars, TypeOK, TickLocals
  <1>10. CASE TickCommit
    BY <1>10 DEF TickCommit, ClockInv, bootVars, Asleep, Running
  <1>11. ASSUME NEW k \in Conns, Handler(k) PROVE ClockInv'
    <2>1. UNCHANGED <<now, tick, phase>> /\ phase = "up"
      BY <1>11 DEF Handler, ThrottleClient, BlockClient, ClearManualThrottle, ClearManualBlock,
         ClearNothing, SetManual, bootVars, Serving, Running
    <2>2. QED BY <2>1 DEF ClockInv
  <1>12. CASE Reload \/ Sniffer \/ Arrival \/ UNCHANGED vars
    BY <1>2, <1>12 DEF Reload, Sniffer, Count, Arrival, Receive, vars, bootVars, daemonVars
  <1>13. QED
    BY <1>3, <1>4, <1>5, <1>6, <1>7, <1>8, <1>9, <1>10, <1>11, <1>12 DEF Next, Startup, Decision

\* A manual policy that has not expired leaves memory only through unthrottle or
\* unblock for that client, or with the process.
THEOREM ManualOnlyClearedOnRequest == Spec => ManualNotLost
  <1> DEFINE Kept == \A c \in Clients :
        LiveManual(policies[c], now) /\ policies'[c].manual = None
          => Served("unthrottle", c) \/ Served("unblock", c) \/ ~Running'
  <1>1. TypeOK /\ ClockInv /\ [Next]_vars => [Kept]_vars
    <2> SUFFICES ASSUME TypeOK, ClockInv, [Next]_vars, NEW c \in Clients,
                        LiveManual(policies[c], now), policies'[c].manual = None, Running'
                 PROVE  Served("unthrottle", c) \/ Served("unblock", c)
      OBVIOUS
    <2>1. policies' # policies
      BY DEF LiveManual
    <2>2. ~Startup /\ ~Crash
      <3>1. phase = "up"
        BY DEF ClockInv, NoPolicies, NoPolicy, LiveManual
      <3>2. QED
        BY <3>1 DEF Startup, StartKeys, StartWithoutRedis, Hydrate, HydrateFails, Crash, Running
    <2>3. ~TickCommit
      <3> SUFFICES ASSUME TickCommit PROVE FALSE
        OBVIOUS
      <3>1. policies'[c].manual = NextManual(c)
        BY DEF TickCommit, NextPolicy
      <3>2. policies[c].manual # None /\ ManualExpired(policies[c].manual, tick.now)
        BY <3>1 DEF NextManual, LiveManual
      <3>3. tick.now <= now /\ tick.now \in Nat /\ now \in Nat
        BY DEF TickCommit, ClockInv, TypeOK, TickLocals, Instant
      <3>4. policies[c].manual.until \in Nat
        BY <3>2 DEF ManualExpired, TypeOK, ClientPolicy, ManualPolicy, Instant
      <3>5. ManualExpired(policies[c].manual, now)
        BY <3>2, <3>3, <3>4 DEF ManualExpired
      <3>6. QED BY <3>5 DEF LiveManual
    <2>4. ~Clock /\ ~Reload /\ ~Sniffer /\ ~Arrival /\ ~UNCHANGED vars
      BY <2>1 DEF Clock, Reload, Sniffer, Count, Arrival, Receive, vars, daemonVars
    <2>5. ~TickStart /\ ~TickLoadRules /\ ~TickSnapshot
      BY <2>1 DEF TickStart, TickLoadRules, TickSnapshot
    <2>6. PICK k \in Conns : Handler(k)
      BY <2>2, <2>3, <2>4, <2>5 DEF Next, Decision
    <2>7. reqs[k] # None
      BY <2>6 DEF Handler, ThrottleClient, BlockClient, ClearManualThrottle, ClearManualBlock,
         ClearNothing, Serving
    <2>8. reqs[k] \in Request /\ reqs[k].client \in Clients
      BY <2>7 DEF TypeOK, Request
    <2>9. ManualOrDefault(reqs[k].client) \in ManualPolicy
      BY <2>8 DEF ManualOrDefault, TypeOK, ClientPolicy, ManualPolicy
    <2>10. ASSUME NEW m, SetManual(k, m)
           PROVE  /\ reqs[k].client = c /\ m = None
                  /\ reqs'[k] = None
      <3>1. policies' = [policies EXCEPT ![reqs[k].client].manual = m]
        BY <2>10 DEF SetManual
      <3>2. reqs[k].client = c
        BY <2>8, <3>1 DEF LiveManual, TypeOK
      <3>3. m = None
        BY <2>8, <3>1, <3>2 DEF TypeOK, ClientPolicy
      <3>4. reqs'[k] = None
        BY <2>10 DEF SetManual, PersistManual, Reply, TypeOK
      <3>5. QED BY <3>2, <3>3, <3>4
    <2>11. ~ThrottleClient(k)
      <3>1. [ManualOrDefault(reqs[k].client) EXCEPT !.throttle = reqs[k].rate,
                                                    !.until = reqs[k].until] \in ManualPolicy
        BY <2>8, <2>9 DEF ManualPolicy, Request
      <3>2. QED BY <2>10, <3>1, NoneAssumption DEF ThrottleClient
    <2>12. ~BlockClient(k)
      <3>1. [ManualOrDefault(reqs[k].client) EXCEPT !.blocked = TRUE,
                                                    !.until = reqs[k].until] \in ManualPolicy
        BY <2>8, <2>9 DEF ManualPolicy, Request
      <3>2. QED BY <2>10, <3>1, NoneAssumption DEF BlockClient
    <2>13. ~ClearNothing(k)
      BY <2>1 DEF ClearNothing
    <2>14. CASE ClearManualThrottle(k)
      BY <2>7, <2>10, <2>14 DEF ClearManualThrottle, Serving, Served
    <2>15. CASE ClearManualBlock(k)
      BY <2>7, <2>10, <2>15 DEF ClearManualBlock, Serving, Served
    <2>16. QED
      BY <2>6, <2>11, <2>12, <2>13, <2>14, <2>15 DEF Handler
  <1>2. Init => ClockInv
    BY DEF Init, ClockInv, Asleep
  <1>3. QED
    BY <1>1, <1>2, ClockInvStep, TypeCorrect, PTL DEF Spec, ManualNotLost

-----------------------------------------------------------------------------
(***************************************************************************)
(* What the mapping needs besides types and ClockInv: while the process is *)
(* not up nothing is enforced, so that a start shows no measure of before. *)
(***************************************************************************)
DownInv == phase # "up" => enforced = NoActions

\* Only tick() tells the enforcer anything, and only while the process is up.
LEMMA DownInvStep == DownInv /\ [Next]_vars => DownInv'
  <1> SUFFICES ASSUME DownInv, [Next]_vars PROVE DownInv'
    OBVIOUS
  <1>1. CASE UNCHANGED <<phase, enforced>>
    BY <1>1 DEF DownInv
  <1>2. CASE Startup
    BY <1>2 DEF Startup, StartKeys, StartWithoutRedis, Hydrate, HydrateFails, Launch, daemonVars,
       DownInv
  <1>3. CASE Crash
    BY <1>3 DEF Crash, DownInv
  <1>4. CASE Clock \/ Reload \/ Sniffer \/ Arrival \/ UNCHANGED vars
    BY <1>1, <1>4 DEF Clock, Reload, Sniffer, Count, Arrival, Receive, vars, bootVars, daemonVars
  <1>5. CASE Decision
    BY <1>5 DEF Decision, TickStart, TickLoadRules, TickSnapshot, TickCommit, bootVars, Running,
       DownInv
  <1>6. ASSUME NEW k \in Conns, Handler(k) PROVE DownInv'
    <2>1. UNCHANGED <<phase, enforced>>
      BY <1>6 DEF Handler, ThrottleClient, BlockClient, ClearManualThrottle, ClearManualBlock,
         ClearNothing, SetManual, bootVars
    <2>2. QED BY <1>1, <2>1
  <1>7. QED
    BY <1>2, <1>3, <1>4, <1>5, <1>6 DEF Next

(***************************************************************************)
(* The mapped state, and the steps that leave it alone.                    *)
(***************************************************************************)
Manuals == [c \in Clients |-> policies[c].manual]
Autos == [c \in Clients |-> policies[c].auto]
Reach == {c \in Clients : Keyed(c)}

\* What the mapping does not look at may change freely.
LEMMA Invisible ==
  ASSUME UNCHANGED <<now, enforcer, policies, enforced>>, phase = "up" <=> phase' = "up"
  PROVE  UNCHANGED Promise!vars
  BY DEF Promise!vars, Running, Keyed

\* Storing or clearing the manual policy of one client is one Operate.
LEMMA SetManualOperates ==
  ASSUME TypeOK, NEW k \in Conns, reqs[k] # None, Running,
         NEW m \in ManualPolicy \cup {None}, SetManual(k, m)
  PROVE  \E c \in Clients : Promise!Operate(c)
  <1>1. PICK c \in Clients : c = reqs[k].client
    BY DEF TypeOK, Request
  <1>2. policies' = [policies EXCEPT ![c].manual = m]
    BY <1>1 DEF SetManual
  <1>3. \A d \in Clients : /\ policies'[d].auto = policies[d].auto
                           /\ policies'[d].manual \in ManualPolicy \cup {None}
                           /\ d # c => policies'[d].manual = policies[d].manual
    BY <1>2 DEF TypeOK, ClientPolicy
  <1>4. Manuals' \in [Clients -> ManualPolicy \cup {None}]
    BY <1>3 DEF Manuals
  <1>5. \A d \in Clients \ {c} : Manuals'[d] = Manuals[d]
    BY <1>3 DEF Manuals
  <1>6. UNCHANGED <<now, phase, enforcer, enforced>>
    BY DEF SetManual, bootVars
  <1>7. UNCHANGED <<Running, Autos, Reach>>
    BY <1>3, <1>6 DEF Running, Autos, Reach, Keyed
  <1>8. Promise!Operate(c)
    BY <1>4, <1>5, <1>6, <1>7
       DEF Promise!Operate, Promise!ManualPolicy, Promise!U8, Promise!Instant,
           ManualPolicy, U8, Instant, Manuals, Autos, Reach
  <1>9. QED BY <1>8

\* Every handler is one Operate or, with nothing to clear, invisible.
LEMMA HandlerOperates ==
  ASSUME TypeOK, NEW k \in Conns, Handler(k)
  PROVE  (\E c \in Clients : Promise!Operate(c)) \/ UNCHANGED Promise!vars
  <1>1. reqs[k] # None /\ Running
    BY DEF Handler, ThrottleClient, BlockClient, ClearManualThrottle, ClearManualBlock,
       ClearNothing, Serving
  <1>2. reqs[k] \in Request
    BY <1>1 DEF TypeOK
  <1>3. ManualOrDefault(reqs[k].client) \in ManualPolicy
    BY <1>2 DEF ManualOrDefault, TypeOK, ClientPolicy, ManualPolicy, Request
  <1>4. policies[reqs[k].client].manual \in ManualPolicy \cup {None}
    BY <1>2 DEF TypeOK, ClientPolicy, Request
  <1>5. CASE ThrottleClient(k)
    <2>1. [ManualOrDefault(reqs[k].client) EXCEPT !.throttle = reqs[k].rate,
                                                  !.until = reqs[k].until] \in ManualPolicy
      BY <1>2, <1>3 DEF ManualPolicy, Request
    <2>2. QED BY <1>1, <1>5, <2>1, SetManualOperates DEF ThrottleClient
  <1>6. CASE BlockClient(k)
    <2>1. [ManualOrDefault(reqs[k].client) EXCEPT !.blocked = TRUE,
                                                  !.until = reqs[k].until] \in ManualPolicy
      BY <1>2, <1>3 DEF ManualPolicy, Request
    <2>2. QED BY <1>1, <1>6, <2>1, SetManualOperates DEF BlockClient
  <1>7. CASE ClearManualThrottle(k)
    <2> DEFINE m == policies[reqs[k].client].manual
               rest == IF m.blocked THEN [m EXCEPT !.throttle = None] ELSE None
    <2>1. SetManual(k, rest) /\ m # None
      BY <1>7 DEF ClearManualThrottle
    <2>2. rest \in ManualPolicy \cup {None}
      BY <1>4, <2>1 DEF ManualPolicy
    <2> HIDE DEF rest, m
    <2>3. QED BY <1>1, <2>1, <2>2, SetManualOperates
  <1>8. CASE ClearManualBlock(k)
    <2> DEFINE m == policies[reqs[k].client].manual
               rest == IF m.throttle # None THEN [m EXCEPT !.blocked = FALSE] ELSE None
    <2>1. SetManual(k, rest) /\ m # None
      BY <1>8 DEF ClearManualBlock
    <2>2. rest \in ManualPolicy \cup {None}
      BY <1>4, <2>1 DEF ManualPolicy
    <2> HIDE DEF rest, m
    <2>3. QED BY <1>1, <2>1, <2>2, SetManualOperates
  <1>9. CASE ClearNothing(k)
    <2>1. UNCHANGED <<now, phase, enforcer, policies, enforced>>
      BY <1>9 DEF ClearNothing, bootVars
    <2>2. QED BY <2>1, Invisible
  <1>10. QED
    BY <1>5, <1>6, <1>7, <1>8, <1>9 DEF Handler

\* The locked part of tick() is one decision, as of the instant read before the lock.
LEMMA CommitDecides ==
  ASSUME TypeOK, ClockInv, TickCommit
  PROVE  Promise!Decide
  <1>1. PICK t \in 0 .. now : t = tick.now
    BY DEF TickCommit, ClockInv, TypeOK, TickLocals, Instant
  <1>2. ASSUME NEW c \in Clients
        PROVE  /\ policies'[c].manual = (IF LiveManual(policies[c], t) THEN policies[c].manual
                                                                      ELSE None)
               /\ LiveAuto(policies[c], t) => policies'[c].auto # None
    BY <1>1 DEF TickCommit, NextPolicy, NextManual, NextAuto, LiveManual, LiveAuto
  <1>3. ASSUME NEW c \in Clients
        PROVE  IF Keyed(c) THEN Agrees(enforced'[c], policies'[c], t)
                           ELSE enforced'[c] = enforced[c]
    <2> DEFINE act == MergePolicy(NextPolicy(c), tick.now)
    <2>1. policies'[c] = NextPolicy(c) /\ enforced'[c] = NextEnforced(c, act)
      BY DEF TickCommit
    <2>2. NextPolicy(c) \in ClientPolicy /\ tick.now \in Instant
      BY TickTypes DEF TypeOK, TickLocals
    <2>3. Agrees(Recorded(act), NextPolicy(c), tick.now)
      BY <2>2, MergeAgrees DEF Recorded
    <2> HIDE DEF act
    <2>4. QED BY <1>1, <2>1, <2>3 DEF NextEnforced
  <1>4. UNCHANGED <<now, phase, enforcer>> /\ Running
    BY DEF TickCommit, bootVars
  <1>5. UNCHANGED <<Running, Reach>>
    BY <1>4 DEF Running, Reach, Keyed
  <1>6. ASSUME NEW c \in Clients
        PROVE  /\ LiveManual([manual |-> Manuals[c], auto |-> Autos[c]], t)
                    <=> LiveManual(policies[c], t)
               /\ LiveAuto([manual |-> Manuals[c], auto |-> Autos[c]], t)
                    <=> LiveAuto(policies[c], t)
               /\ [manual |-> Manuals'[c], auto |-> Autos'[c]] = policies'[c]
    <2>1. policies'[c] = [manual |-> NextManual(c), auto |-> NextAuto(c)]
      BY DEF TickCommit, NextPolicy
    <2>2. QED BY <2>1 DEF Manuals, Autos, LiveManual, LiveAuto
  <1>7. ASSUME NEW c \in Clients
        PROVE  /\ Manuals'[c] = IF LiveManual([manual |-> Manuals[c], auto |-> Autos[c]], t)
                                  THEN Manuals[c] ELSE None
               /\ LiveAuto([manual |-> Manuals[c], auto |-> Autos[c]], t) => Autos'[c] # None
               /\ IF c \in Reach
                    THEN Agrees(enforced'[c], [manual |-> Manuals'[c], auto |-> Autos'[c]], t)
                    ELSE enforced'[c] = enforced[c]
    BY <1>2, <1>3, <1>6 DEF Manuals, Autos, Reach
  <1>8. Promise!DecideAt(t)
    BY <1>4, <1>5, <1>7
       DEF Promise!DecideAt, Promise!Both, Promise!LiveManual, Promise!LiveAuto, Promise!Agrees,
           Promise!ManualExpired, Promise!AutoExpired, Promise!WantBlock, Promise!WantRate,
           Promise!MaxRate, Agrees, WantBlock, WantRate, MaxRate, LiveManual, LiveAuto,
           ManualExpired, AutoExpired, Manuals, Autos, Reach
  <1>9. QED BY <1>8 DEF Promise!Decide

\* The worker threads begin with the hydrated manual policies and nothing enforced.
LEMMA LaunchStarts ==
  ASSUME TypeOK, ClockInv, TypeOK', StartWithoutRedis \/ Hydrate
  PROVE  Promise!Start
  <1>1. ~Running /\ Running' /\ UNCHANGED <<now, enforced>>
    BY DEF StartWithoutRedis, Hydrate, Launch, Running
  <1>2. \A c \in Clients : policies[c].auto = None
    BY <1>1 DEF ClockInv, Running, NoPolicies, NoPolicy
  <1>3. \A c \in Clients : policies'[c].auto = None
    BY DEF StartWithoutRedis, Hydrate, Launch, NoPolicies, NoPolicy
  <1>4. UNCHANGED Autos
    BY <1>2, <1>3 DEF Autos
  <1>5. Manuals' \in [Clients -> ManualPolicy \cup {None}]
    BY DEF Manuals, TypeOK, ClientPolicy
  <1>6. Reach' \in SUBSET Clients
    BY DEF Reach
  <1>7. QED
    BY <1>1, <1>4, <1>5, <1>6
       DEF Promise!Start, Promise!ManualPolicy, Promise!U8, Promise!Instant, ManualPolicy, U8,
           Instant, Manuals, Autos, Reach

\* The death of a running process is Stop; of one that never came up, invisible.
LEMMA CrashStops ==
  ASSUME ClockInv, DownInv, Crash
  PROVE  Promise!Stop \/ UNCHANGED Promise!vars
  <1>1. CASE Running
    <2>1. Running /\ ~Running' /\ UNCHANGED <<now, enforcer>>
      BY <1>1 DEF Crash, Running
    <2>2. Manuals' = NoActions /\ Autos' = NoActions /\ enforced' = NoActions
      BY DEF Crash, Manuals, Autos, NoPolicies, NoPolicy, NoActions
    <2>3. UNCHANGED Reach
      BY <2>1 DEF Reach, Keyed
    <2>4. Promise!Stop
      BY <2>1, <2>2, <2>3 DEF Promise!Stop, Promise!Nothing, NoActions, Manuals, Autos, Reach
    <2>5. QED BY <2>4
  <1>2. CASE ~Running
    <2>1. UNCHANGED <<now, enforcer, policies, enforced>> /\ phase # "up" /\ phase' # "up"
      BY <1>2 DEF Crash, ClockInv, DownInv, Running
    <2>2. QED BY <2>1, Invisible
  <1>3. QED BY <1>1, <1>2

\* Every step of the daemon is a step of the promise or invisible.
LEMMA StepImplements ==
  TypeOK /\ TypeOK' /\ ClockInv /\ DownInv /\ [Next]_vars => [Promise!Next]_(Promise!vars)
  <1> SUFFICES ASSUME TypeOK, TypeOK', ClockInv, DownInv, [Next]_vars
               PROVE  Promise!Next \/ UNCHANGED Promise!vars
    OBVIOUS
  <1>1. CASE UNCHANGED <<now, phase, enforcer, policies, enforced>>
    BY <1>1, Invisible
  <1>2. CASE Clock
    <2>1. now' \in Nat /\ now' > now
      BY <1>2 DEF Clock, TypeOK, Instant
    <2>2. UNCHANGED <<phase, enforcer, policies, enforced>>
      BY <1>2 DEF Clock, bootVars, daemonVars
    <2>3. UNCHANGED <<Running, Manuals, Autos, Reach>>
      BY <2>2 DEF Running, Manuals, Autos, Reach, Keyed
    <2>4. Promise!TimePasses
      BY <2>1, <2>2, <2>3 DEF Promise!TimePasses, Manuals, Autos, Reach
    <2>5. QED BY <2>4 DEF Promise!Next
  <1>3. CASE StartWithoutRedis \/ Hydrate
    BY <1>3, LaunchStarts DEF Promise!Next
  <1>4. CASE StartKeys \/ HydrateFails
    <2>1. UNCHANGED <<now, enforcer, policies, enforced>> /\ phase # "up" /\ phase' # "up"
      BY <1>4 DEF StartKeys, HydrateFails, daemonVars
    <2>2. QED BY <2>1, Invisible
  <1>5. CASE Crash
    BY <1>5, CrashStops DEF Promise!Next
  <1>6. CASE TickCommit
    BY <1>6, CommitDecides DEF Promise!Next
  <1>7. CASE TickStart \/ TickLoadRules \/ TickSnapshot
    BY <1>1, <1>7 DEF TickStart, TickLoadRules, TickSnapshot, bootVars
  <1>8. CASE Reload \/ Sniffer \/ Arrival \/ UNCHANGED vars
    BY <1>1, <1>8 DEF Reload, Sniffer, Count, Arrival, Receive, vars, bootVars, daemonVars
  <1>9. ASSUME NEW k \in Conns, Handler(k) PROVE Promise!Next \/ UNCHANGED Promise!vars
    BY <1>9, HandlerOperates DEF Promise!Next
  <1>10. QED
    BY <1>2, <1>3, <1>4, <1>5, <1>6, <1>7, <1>8, <1>9 DEF Next, Startup, Decision

\* The daemon starts where the promise does.
LEMMA InitImplements == Init => Promise!Init
  BY DEF Init, Promise!Init, Promise!Nothing, Running, NoPolicies, NoPolicy, NoActions

\* The daemon implements Enforcement: whatever falls between the clone of the counters
\* and the locks, the end of tick() enforces for each client what its two policies ask
\* for as of one past instant, ends no manual policy early, and nothing but tick() and
\* the death of the process changes what is enforced.
THEOREM DaemonImplementsEnforcement == Spec => ImplementsEnforcement
  <1>1. Init => ClockInv /\ DownInv
    BY DEF Init, ClockInv, DownInv, Asleep
  <1>2. Spec => [](TypeOK /\ ClockInv /\ DownInv)
    BY <1>1, TypeCorrect, ClockInvStep, DownInvStep, PTL DEF Spec
  <1>3. QED
    BY <1>2, InitImplements, StepImplements, PTL DEF Spec, ImplementsEnforcement, Promise!Spec

-----------------------------------------------------------------------------
(***************************************************************************)
(* The inductive invariant                                                 *)
(***************************************************************************)
\* Client c has a key without a deadline.
Permanent(c) == redis[c] # None /\ redis[c].policy.until_unix_secs = None

\* What StoreMirrorsMemory says of client c; but a key without a deadline belongs to
\* a policy without one, or the end of a temporary policy would leave the key alone.
Mirrored(c) ==
  LET m == policies[c].manual
      k == redis[c]
  IN /\ LiveManual(policies[c], now) =>
          /\ k # None
          /\ k.policy.throttle = m.throttle /\ k.policy.blocked = m.blocked
          /\ (k.policy.until_unix_secs = None) <=> (m.until = None)
          /\ m.until # None => k.policy.until_unix_secs * Second > m.until - 2 * Second
     /\ Permanent(c) => m # None /\ m.until = None

\* An Ok answer to the last request for client c is true of its permanent key.
AnswerKept(c) ==
  Permanent(c) =>
    /\ answered[c] = [op |-> "unblock", ok |-> TRUE] => ~redis[c].policy.blocked
    /\ answered[c] = [op |-> "unthrottle", ok |-> TRUE] => redis[c].policy.throttle = None

StoreInv ==
  /\ backend = "redis"
  /\ \A k \in Conns : reqs[k] # None => reqs[k].at <= now
  /\ \A c \in Clients : Permanent(c) => redis[c].gone_at = None
  /\ phase = "hydrating" => \A c \in Clients : Permanent(c) => c \in keys
  /\ Running => \A c \in Clients : Mirrored(c)
  /\ \A c \in Clients : AnswerKept(c)

(***************************************************************************)
(* Writing a key                                                           *)
(***************************************************************************)
\* Whole seconds of a number of clock units: less than a second is lost.
LEMMA AsSecsLoss ==
  ASSUME NEW d \in Nat
  PROVE  AsSecs(d) \in Nat /\ AsSecs(d) * Second > d - Second
  BY UnitsAssumption DEF AsSecs

\* The deadline a handler writes, rounded twice, is less than two seconds early.
LEMMA DeadlineRounding ==
  ASSUME NEW t \in Nat, NEW at \in Nat, NEW until \in Nat, at <= t, t < until
  PROVE  (AsSecs(t) + AsSecs(SatSub(until, at))) * Second > until - 2 * Second
  <1>1. SatSub(until, at) = until - at /\ until - at \in Nat
    BY DEF SatSub
  <1>2. PICK a \in Nat, b \in Nat : a = AsSecs(t) /\ b = AsSecs(until - at)
    BY <1>1, AsSecsLoss
  <1>3. a * Second > t - Second /\ b * Second > until - at - Second
    BY <1>1, <1>2, AsSecsLoss
  <1>4. (a + b) * Second = a * Second + b * Second
    BY UnitsAssumption
  <1>5. PICK x \in Int, y \in Int : x = a * Second /\ y = b * Second
    BY UnitsAssumption
  <1>6. x + y > until - 2 * Second
    BY <1>3, <1>5, UnitsAssumption
  <1>7. QED BY <1>1, <1>2, <1>4, <1>5, <1>6

\* The key of a policy says what the policy says.
LEMMA KeySays ==
  ASSUME NEW m \in ManualPolicy, NEW t \in Instant, NEW at \in Instant, at <= t
  PROVE  LET key == PutKey(FromRuntime(m, at, t), t)
         IN /\ key # None
            /\ key.policy.throttle = m.throttle /\ key.policy.blocked = m.blocked
            /\ (key.policy.until_unix_secs = None) <=> (m.until = None)
            /\ key.policy.until_unix_secs = None => key.gone_at = None
            /\ ~ManualExpired(m, t) /\ m.until # None =>
                 key.policy.until_unix_secs * Second > m.until - 2 * Second
  <1> DEFINE key == PutKey(FromRuntime(m, at, t), t)
             uu == AsSecs(t) + AsSecs(SatSub(m.until, at))
  <1>1. m.until # None => m.until \in Nat
    BY DEF ManualPolicy, Instant
  <1>2. m.until # None => uu \in Nat
    <2>1. m.until # None => SatSub(m.until, at) \in Nat
      BY <1>1 DEF SatSub, Instant
    <2>2. QED BY <2>1, AsSecsLoss DEF Instant
  <1>3. m.until # None => uu # None
    BY <1>2, NoneAssumption
  <1>4. ~ManualExpired(m, t) /\ m.until # None => uu * Second > m.until - 2 * Second
    BY <1>1, DeadlineRounding DEF ManualExpired, Instant
  <1>5. key.policy.until_unix_secs = IF m.until = None THEN None ELSE uu
    BY DEF PutKey, FromRuntime
  <1>6. /\ key.policy.throttle = m.throttle /\ key.policy.blocked = m.blocked
        /\ key.policy.until_unix_secs = None => key.gone_at = None
    BY DEF PutKey, FromRuntime
  <1>7. key # None
    BY PutKeyType, KeyAssumption
  <1> HIDE DEF key, uu
  <1>8. QED BY <1>3, <1>4, <1>5, <1>6, <1>7 DEF key

\* A handler writes memory and key together.
LEMMA SetManualStore ==
  ASSUME TypeOK, StoreInv, ~StoreMayFail, NEW k \in Conns, reqs[k] # None, Running,
         NEW m \in ManualPolicy \cup {None}, SetManual(k, m),
         m # None /\ reqs[k].op = "unblock" => ~m.blocked,
         m # None /\ reqs[k].op = "unthrottle" => m.throttle = None
  PROVE  StoreInv'
  <1>1. reqs[k] \in Request
    BY DEF TypeOK
  <1>2. PICK c \in Clients : c = reqs[k].client
    BY <1>1 DEF Request
  <1> DEFINE key == IF m = None THEN None ELSE PutKey(FromRuntime(m, reqs[k].at, now), now)
  <1>3. /\ policies' = [policies EXCEPT ![c].manual = m]
        /\ redis' = [redis EXCEPT ![c] = key]
        /\ reqs' = [reqs EXCEPT ![k] = None]
        /\ answered' = [answered EXCEPT ![c] = [op |-> reqs[k].op, ok |-> TRUE]]
    BY <1>2 DEF SetManual, PersistManual, Reply, StoreInv
  <1>4. UNCHANGED <<now, phase, keys, backend>> /\ Running'
    BY DEF SetManual, bootVars, Running
  <1>5. reqs[k].at \in Instant /\ reqs[k].at <= now /\ now \in Instant
    BY <1>1 DEF Request, StoreInv, TypeOK
  <1>6. key = None <=> m = None
    BY <1>5, KeySays
  <1>7. m # None => /\ key.policy.throttle = m.throttle /\ key.policy.blocked = m.blocked
                    /\ (key.policy.until_unix_secs = None) <=> (m.until = None)
                    /\ key.policy.until_unix_secs = None => key.gone_at = None
                    /\ ~ManualExpired(m, now) /\ m.until # None =>
                         key.policy.until_unix_secs * Second > m.until - 2 * Second
    BY <1>5, KeySays
  <1> HIDE DEF key
  <1>8. /\ policies'[c].manual = m /\ redis'[c] = key
        /\ answered'[c] = [op |-> reqs[k].op, ok |-> TRUE]
    BY <1>3 DEF TypeOK, ClientPolicy
  <1>9. \A d \in Clients \ {c} : /\ policies'[d] = policies[d] /\ redis'[d] = redis[d]
                                 /\ answered'[d] = answered[d]
    BY <1>3 DEF TypeOK
  <1>10. ASSUME NEW d \in Clients
         PROVE  Mirrored(d)' /\ AnswerKept(d)' /\ (Permanent(d) => redis[d].gone_at = None)'
    <2>1. CASE d = c
      <3>1. Mirrored(d)'
        BY <1>4, <1>6, <1>7, <1>8, <2>1 DEF Mirrored, Permanent, LiveManual
      <3>2. AnswerKept(d)'
        BY <1>6, <1>7, <1>8, <2>1 DEF AnswerKept, Permanent
      <3>3. (Permanent(d) => redis[d].gone_at = None)'
        BY <1>6, <1>7, <1>8, <2>1 DEF Permanent
      <3>4. QED BY <3>1, <3>2, <3>3
    <2>2. CASE d # c
      BY <1>4, <1>9, <2>2 DEF StoreInv, Mirrored, AnswerKept, Permanent, LiveManual
    <2>3. QED BY <2>1, <2>2
  <1>11. \A j \in Conns : reqs'[j] # None => reqs'[j].at <= now'
    BY <1>3, <1>4 DEF StoreInv, TypeOK
  <1>12. QED
    BY <1>4, <1>10, <1>11 DEF StoreInv, Running

\* hydrate() brings back every key that load_all() listed, and it listed every
\* permanent one.
LEMMA HydrateStore ==
  ASSUME TypeOK, StoreInv, Hydrate
  PROVE  \A c \in Clients : Mirrored(c)'
  <1> SUFFICES ASSUME NEW c \in Clients PROVE Mirrored(c)'
    OBVIOUS
  <1>1. phase = "hydrating" /\ UNCHANGED <<now, redis>>
    BY DEF Hydrate
  <1>2. CASE c \notin keys
    <2>1. policies'[c] = NoPolicy
      BY <1>2 DEF Hydrate, Launch
    <2>2. ~Permanent(c)'
      BY <1>1, <1>2 DEF StoreInv, Permanent
    <2>3. QED BY <2>1, <2>2 DEF Mirrored, LiveManual, NoPolicy
  <1>3. CASE c \in keys
    <2> DEFINE s == redis[c].policy
               m == ToRuntime(s, now)
    <2>1. policies'[c] = [manual |-> m, auto |-> None] /\ redis[c] # None
      BY <1>3 DEF Hydrate, Launch, Present
    <2>2. s \in StoredManualPolicy /\ now \in Nat
      BY <2>1 DEF TypeOK, Key, Instant
    <2>3. /\ m.throttle = s.throttle /\ m.blocked = s.blocked
          /\ s.until_unix_secs = None => m.until = None
      BY DEF ToRuntime
    <2>4. ASSUME s.until_unix_secs # None
          PROVE  /\ m.until # None
                 /\ m.until > now => s.until_unix_secs * Second > m.until - 2 * Second
      <3>1. PICK u \in Nat : u = s.until_unix_secs * Second
        BY <2>2, <2>4, SecondsType DEF StoredManualPolicy
      <3>2. m.until = IF u >= now THEN u ELSE now
        BY <2>4, <3>1 DEF ToRuntime
      <3>3. QED BY <2>2, <3>1, <3>2, UnitsAssumption, NoneAssumption
    <2>5. m # None
      BY <2>2, ToRuntimeType, NoneAssumption DEF Instant
    <2>6. m.until # None => m.until \in Nat
      BY <2>2, ToRuntimeType DEF ManualPolicy, Instant
    <2> HIDE DEF m
    <2>7. QED
      BY <1>1, <2>1, <2>2, <2>3, <2>4, <2>5, <2>6
         DEF Mirrored, Permanent, LiveManual, ManualExpired
  <1>4. QED BY <1>2, <1>3

\* Every step keeps memory and keys in line.
LEMMA StoreInvStep ==
  ASSUME ~StoreMayFail, ~RedisMayBeDown
  PROVE  TypeOK /\ StoreInv /\ [Next]_vars => StoreInv'
  <1> SUFFICES ASSUME TypeOK, StoreInv, [Next]_vars PROVE StoreInv'
    OBVIOUS
  <1>1. now \in Nat
    BY DEF TypeOK, Instant
  <1>2. CASE UNCHANGED <<now, phase, keys, backend, reqs, redis, policies, answered>>
    BY <1>2 DEF StoreInv, Running, Mirrored, AnswerKept, Permanent, LiveManual
  <1>3. CASE Clock
    <2>1. /\ now' = now + 1
          /\ UNCHANGED <<phase, keys, backend, reqs, redis, policies, answered>>
      BY <1>3 DEF Clock, bootVars, daemonVars
    <2>2. \A c \in Clients : LiveManual(policies[c], now)' => LiveManual(policies[c], now)
      BY <1>1, <2>1 DEF LiveManual, ManualExpired, TypeOK, ClientPolicy, ManualPolicy, Instant
    <2>3. \A c \in Clients : Mirrored(c) => Mirrored(c)'
      BY <2>1, <2>2 DEF Mirrored, Permanent
    <2>4. \A j \in Conns : reqs'[j] # None => reqs'[j].at <= now'
      BY <1>1, <2>1 DEF StoreInv, TypeOK, Request, Instant
    <2>5. QED BY <2>1, <2>3, <2>4 DEF StoreInv, Running, AnswerKept, Permanent
  <1>4. CASE StartKeys
    <2>1. /\ phase' = "hydrating" /\ backend' = "redis"
          /\ keys' = {c \in Clients : Present(redis[c], now)}
          /\ UNCHANGED <<now, reqs, redis, answered>>
      BY <1>4 DEF StartKeys
    <2>2. \A c \in Clients : Permanent(c)' => c \in keys'
      BY <2>1 DEF StoreInv, Permanent, Present
    <2>3. QED BY <2>1, <2>2 DEF StoreInv, Running, AnswerKept, Permanent
  <1>5. CASE Hydrate
    <2>1. phase' = "up" /\ UNCHANGED <<now, backend, reqs, redis, answered>>
      BY <1>5 DEF Hydrate, Launch
    <2>2. QED BY <1>5, <2>1, HydrateStore DEF StoreInv, AnswerKept, Permanent
  <1>6. CASE HydrateFails
    <2>1. phase' = "down" /\ UNCHANGED <<now, backend, reqs, redis, answered>>
      BY <1>6 DEF HydrateFails, daemonVars
    <2>2. QED BY <2>1 DEF StoreInv, Running, AnswerKept, Permanent
  <1>7. CASE Crash
    <2>1. /\ phase' = "down" /\ UNCHANGED <<now, backend, redis, answered>>
          /\ \A j \in Conns : reqs'[j] = None
      BY <1>7 DEF Crash, NoRequests
    <2>2. QED BY <2>1 DEF StoreInv, Running, AnswerKept, Permanent
  <1>8. CASE TickCommit
    <2>1. /\ UNCHANGED <<now, phase, keys, backend, reqs, redis, answered>> /\ Running
          /\ \A c \in Clients : policies'[c].manual = NextManual(c)
      BY <1>8 DEF TickCommit, bootVars, NextPolicy
    <2>2. ASSUME NEW c \in Clients PROVE Mirrored(c)'
      <3>1. Mirrored(c)
        BY <2>1 DEF StoreInv
      <3>2. LiveManual(policies[c], now)' =>
              LiveManual(policies[c], now) /\ policies'[c].manual = policies[c].manual
        BY <2>1 DEF NextManual, LiveManual
      <3>3. policies[c].manual # None /\ policies[c].manual.until = None =>
              policies'[c].manual = policies[c].manual
        BY <2>1 DEF NextManual, ManualExpired
      <3>4. QED BY <2>1, <3>1, <3>2, <3>3 DEF Mirrored, Permanent
    <2>3. QED BY <2>1, <2>2 DEF StoreInv, Running, AnswerKept, Permanent
  <1>9. CASE Arrival
    <2>1. PICK k \in Conns, c \in Clients, call \in Calls : Receive(k, c, call)
      BY <1>9 DEF Arrival
    <2>2. UNCHANGED <<now, phase, keys, backend, redis, policies, answered>>
      BY <2>1 DEF Receive, bootVars
    <2>3. \A j \in Conns : reqs'[j] # None => reqs'[j].at <= now'
      BY <1>1, <2>1, <2>2 DEF Receive, StoreInv, TypeOK
    <2>4. QED
      BY <2>2, <2>3 DEF StoreInv, Running, Mirrored, AnswerKept, Permanent, LiveManual
  <1>10. ASSUME NEW k \in Conns, Handler(k) PROVE StoreInv'
    <2>1. reqs[k] # None /\ Running
      BY <1>10 DEF Handler, ThrottleClient, BlockClient, ClearManualThrottle, ClearManualBlock,
         ClearNothing, Serving
    <2>2. reqs[k] \in Request
      BY <2>1 DEF TypeOK
    <2>3. ManualOrDefault(reqs[k].client) \in ManualPolicy
      BY <2>2 DEF ManualOrDefault, TypeOK, ClientPolicy, ManualPolicy, Request
    <2>4. policies[reqs[k].client].manual \in ManualPolicy \cup {None}
      BY <2>2 DEF TypeOK, ClientPolicy, Request
    <2>5. CASE ThrottleClient(k)
      <3>1. [ManualOrDefault(reqs[k].client) EXCEPT !.throttle = reqs[k].rate,
                                                    !.until = reqs[k].until] \in ManualPolicy
        BY <2>2, <2>3 DEF ManualPolicy, Request
      <3>2. QED BY <2>1, <2>5, <3>1, SetManualStore DEF ThrottleClient, Serving
    <2>6. CASE BlockClient(k)
      <3>1. [ManualOrDefault(reqs[k].client) EXCEPT !.blocked = TRUE,
                                                    !.until = reqs[k].until] \in ManualPolicy
        BY <2>2, <2>3 DEF ManualPolicy, Request
      <3>2. QED BY <2>1, <2>6, <3>1, SetManualStore DEF BlockClient, Serving
    <2>7. CASE ClearManualThrottle(k)
      <3> DEFINE m == policies[reqs[k].client].manual
                 rest == IF m.blocked THEN [m EXCEPT !.throttle = None] ELSE None
      <3>1. SetManual(k, rest) /\ m # None /\ reqs[k].op = "unthrottle"
        BY <2>7 DEF ClearManualThrottle, Serving
      <3>2. rest \in ManualPolicy \cup {None} /\ (rest # None => rest.throttle = None)
        BY <2>4, <3>1 DEF ManualPolicy
      <3> HIDE DEF rest, m
      <3>3. QED BY <2>1, <3>1, <3>2, SetManualStore
    <2>8. CASE ClearManualBlock(k)
      <3> DEFINE m == policies[reqs[k].client].manual
                 rest == IF m.throttle # None THEN [m EXCEPT !.blocked = FALSE] ELSE None
      <3>1. SetManual(k, rest) /\ m # None /\ reqs[k].op = "unblock"
        BY <2>8 DEF ClearManualBlock, Serving
      <3>2. rest \in ManualPolicy \cup {None} /\ (rest # None => ~rest.blocked)
        BY <2>4, <3>1 DEF ManualPolicy
      <3> HIDE DEF rest, m
      <3>3. QED BY <2>1, <3>1, <3>2, SetManualStore
    <2>9. CASE ClearNothing(k)
      <3>1. PICK c \in Clients : c = reqs[k].client
        BY <2>2 DEF Request
      <3>2. /\ UNCHANGED <<now, phase, keys, backend, redis, policies>>
            /\ reqs' = [reqs EXCEPT ![k] = None]
            /\ answered' = [answered EXCEPT ![c] = [op |-> reqs[k].op, ok |-> TRUE]]
            /\ policies[c].manual = None
        BY <2>9, <3>1 DEF ClearNothing, Reply, bootVars
      <3>3. ~Permanent(c)'
        BY <2>1, <3>2 DEF StoreInv, Mirrored, Permanent
      <3>4. \A d \in Clients : AnswerKept(d)'
        BY <3>2, <3>3 DEF StoreInv, AnswerKept, Permanent, TypeOK
      <3>5. \A j \in Conns : reqs'[j] # None => reqs'[j].at <= now'
        BY <3>2 DEF StoreInv, TypeOK
      <3>6. QED
        BY <3>2, <3>4, <3>5 DEF StoreInv, Running, Mirrored, Permanent, LiveManual
    <2>10. QED BY <1>10, <2>5, <2>6, <2>7, <2>8, <2>9 DEF Handler
  <1>11. ~StartWithoutRedis
    BY DEF StartWithoutRedis
  <1>12. CASE Reload \/ Sniffer \/ UNCHANGED vars
    BY <1>2, <1>12 DEF Reload, Sniffer, Count, vars, bootVars, daemonVars
  <1>13. CASE TickStart \/ TickLoadRules \/ TickSnapshot
    BY <1>2, <1>13 DEF TickStart, TickLoadRules, TickSnapshot, bootVars
  <1>14. QED
    BY <1>3, <1>4, <1>5, <1>6, <1>7, <1>8, <1>9, <1>10, <1>11, <1>12, <1>13
       DEF Next, Startup, Decision

(***************************************************************************)
(* The theorems                                                            *)
(***************************************************************************)
\* The invariant holds throughout, for a Redis that is there and answers.
LEMMA StoreInvHolds ==
  ASSUME ~StoreMayFail, ~RedisMayBeDown
  PROVE  Spec => [](TypeOK /\ StoreInv)
  <1>1. Init => StoreInv
    BY DEF Init, StoreInv, NoRequests, Permanent, AnswerKept, Running
  <1>2. QED
    BY <1>1, TypeCorrect, StoreInvStep, PTL DEF Spec

\* Unless Redis fails, the key of a client says what memory says: a policy in force has
\* a key with the same throttle and block whose deadline is less than two seconds early,
\* and a key without a deadline belongs to a policy in memory (persist_manual, hydrate).
THEOREM StoreMirrored ==
  ASSUME ~StoreMayFail, ~RedisMayBeDown
  PROVE  Spec => []StoreMirrorsMemory
  <1>1. StoreInv => StoreMirrorsMemory
    BY DEF StoreInv, Mirrored, Permanent, StoreMirrorsMemory
  <1>2. QED
    BY <1>1, StoreInvHolds, PTL

\* A restart does not bring back, as a permanent policy, what an Ok answer of
\* unthrottle or unblock said was cleared (clear_manual_*, hydrate).
THEOREM ClearedNeverReturns ==
  ASSUME ~StoreMayFail, ~RedisMayBeDown
  PROVE  Spec => ClearedStaysCleared
  <1> DEFINE Truthful(c) ==
        LET m == policies'[c].manual
        IN m # None /\ m.until = None =>
             /\ answered[c] = [op |-> "unblock", ok |-> TRUE] => ~m.blocked
             /\ answered[c] = [op |-> "unthrottle", ok |-> TRUE] => m.throttle = None
      Kept == phase = "hydrating" /\ Running' => \A c \in Clients : Truthful(c)
  <1>1. TypeOK /\ StoreInv /\ [Next]_vars => [Kept]_vars
    <2> SUFFICES ASSUME TypeOK, StoreInv, Next, phase = "hydrating", Running', NEW c \in Clients
                 PROVE  Truthful(c)
      BY DEF vars, bootVars, Running
    <2>1. Hydrate
      BY DEF Next, Startup, Decision, Sniffer, Arrival, Handler, Running, Clock, StartKeys,
         StartWithoutRedis, HydrateFails, Crash, Reload, Count, TickStart, TickLoadRules,
         TickSnapshot, TickCommit, Receive, ThrottleClient, BlockClient, ClearNothing,
         ClearManualThrottle, ClearManualBlock, Serving, bootVars
    <2>2. CASE c \notin keys
      BY <2>1, <2>2 DEF Hydrate, Launch, NoPolicy
    <2>3. CASE c \in keys
      <3> DEFINE s == redis[c].policy
      <3>1. policies'[c].manual = ToRuntime(s, now) /\ redis[c] # None
        BY <2>1, <2>3 DEF Hydrate, Launch, Present
      <3>2. s.until_unix_secs # None => ToRuntime(s, now).until \in Nat
        BY <3>1, SecondsType DEF ToRuntime, TypeOK, Key, StoredManualPolicy, Instant
      <3>3. ToRuntime(s, now).until = None => Permanent(c)
        BY <3>1, <3>2, NoneAssumption DEF Permanent
      <3>4. ToRuntime(s, now).throttle = s.throttle /\ ToRuntime(s, now).blocked = s.blocked
        BY DEF ToRuntime
      <3>5. AnswerKept(c)
        BY DEF StoreInv
      <3>6. QED BY <3>1, <3>3, <3>4, <3>5 DEF AnswerKept
    <2>4. QED BY <2>2, <2>3
  <1>2. QED
    BY <1>1, StoreInvHolds, PTL DEF Spec, ClearedStaysCleared
=============================================================================
