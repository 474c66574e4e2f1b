------------------------------- MODULE Daemon -------------------------------
(***************************************************************************)
(* The MicroWAF daemon: the sniffer's counters, the decision loop that     *)
(* turns them into policies and enforcement, the IPC handlers that set and *)
(* clear manual policies, their Redis copy, and crash and restart.         *)
(*                                                                         *)
(*   microwaf/src/decision.rs   tick(), the pacing of run()                *)
(*   microwaf/src/state.rs      DaemonState                                *)
(*   microwaf/src/ipc.rs        throttle, block, clear_manual_*            *)
(*   microwaf/src/store.rs      hydrate, persist_manual                    *)
(*   microwaf/src/cli/daemon.rs start-up order and fallbacks               *)
(*                                                                         *)
(* The threads interleave at the points where the code reads a clock,      *)
(* loads the live configuration, clones a map or takes the `policies'      *)
(* lock; what runs under that lock is one step.  A client without an entry *)
(* in a HashMap of the code has NoPolicy, zero counters, or None here.     *)
(***************************************************************************)
EXTENDS ManualStore, SlidingWindow, Sequences

CONSTANTS Clients,       \* ClientId values
          V4Clients,     \* those with an IPv4 address, the only ones the BPF map can key
          Conns,         \* IPC connections, each served by its own thread
          Configs,       \* sequence of the configurations a reload may install
          Mode,          \* "enforce" or "permissive", fixed at start-up
          Ops,           \* handlers that requests reach (module Ipc: which bodies do)
          Rates,         \* drop rates it asks for
          Durations,     \* durations it asks for: seconds, or None for permanent
          Amounts,       \* units one observed frame adds to a counter
          MayCrash,      \* may the daemon be killed and restarted?
          StoreMayFail,  \* may Redis refuse or lose a command?
          RedisMayBeDown,\* may Redis be unreachable when the daemon starts?
          QuietAfter,    \* bound: no traffic or request from this instant on
          MaxStall,      \* bound: the decision thread is late by no more than this
          MaxTime        \* bound: the clock stops here

VARIABLES
  now,         \* the clock (wall clock and monotonic clock agree)
  phase,       \* "down", "hydrating" or "up"
  keys,        \* keys that load_all listed and has yet to GET
  backend,     \* StoreBackend: "redis" or "memory"
  enforcer,    \* the Enforcer installed at start-up: "bpf" or "permissive"
  live,        \* index of the configuration in the ArcSwap
  counters,    \* CounterStore.by_rule
  last,        \* last_counters
  windows,     \* windows, per client and rule
  policies,    \* policies
  would_be,    \* would_be, the action recorded in permissive mode
  enforced,    \* the map of the active Enforcer
  tick,        \* locals of the decision thread
  reqs,        \* the request each IPC thread is serving
  redis,       \* Redis: the manual policy key of each client
  fed,         \* history: units this process moved from counters into windows
  answered     \* history: the last mutation of each client, and its answer

daemonVars == <<live, counters, last, windows, policies, would_be, enforced, tick, reqs, fed>>
bootVars == <<phase, keys, backend, enforcer>>
vars == <<now, bootVars, daemonVars, redis, answered>>

(***************************************************************************)
(* Configurations: rules in load order and the cooldown in seconds.        *)
(***************************************************************************)
Rule == [id : RuleIds, secs : Nat, limit : Nat, action : Action]
Config == [rules : Seq(Rule), cooldown_secs : Nat]

ASSUME DaemonAssumption ==
  /\ V4Clients \subseteq Clients
  /\ Configs \in Seq(Config) /\ Configs # <<>>
  /\ Mode \in {"enforce", "permissive"}
  /\ Ops \subseteq {"throttle", "block", "unthrottle", "unblock"}
  /\ Rates \subseteq U8
  /\ Durations \subseteq Nat \cup {None}
  /\ Amounts \subseteq Nat
  /\ MayCrash \in BOOLEAN /\ StoreMayFail \in BOOLEAN /\ RedisMayBeDown \in BOOLEAN
  /\ QuietAfter \in Nat /\ MaxStall \in Nat /\ MaxTime \in Nat

Request == [op : {"throttle", "block", "unthrottle", "unblock"},
            client : Clients, rate : U8, until : Instant \cup {None}, at : Instant]

Answer == [op : {"throttle", "block", "unthrottle", "unblock"}, ok : BOOLEAN]

Counts == [Clients -> [RuleIds -> U64]]

(***************************************************************************)
(* DaemonState::new: every map empty.                                      *)
(***************************************************************************)
NoCounts == [c \in Clients |-> [r \in RuleIds |-> 0]]
NoWindows == [c \in Clients |-> [r \in RuleIds |-> None]]
NoPolicies == [c \in Clients |-> NoPolicy]
NoActions == [c \in Clients |-> None]
NoRequests == [k \in Conns |-> None]
Asleep == [pc |-> "sleep", wake |-> 0, now |-> 0, rules |-> <<>>,
           cooldown |-> 0, snapshot |-> NoCounts]

Init ==
  /\ now = 0
  /\ phase = "down" /\ keys = {} /\ backend = "redis" /\ enforcer = "permissive"
  /\ live = 1
  /\ counters = NoCounts /\ last = NoCounts /\ windows = NoWindows
  /\ policies = NoPolicies /\ would_be = NoActions /\ enforced = NoActions
  /\ tick = Asleep
  /\ reqs = NoRequests
  /\ redis = [c \in Clients |-> None]
  /\ fed = NoCounts
  /\ answered = [c \in Clients |-> None]

(***************************************************************************)
(* Time                                                                    *)
(***************************************************************************)
Running == phase = "up"

\* Since when the decision thread has been due to run.
Due == IF tick.pc = "sleep" THEN tick.wake ELSE tick.wake - Second

Clock ==
  /\ now < MaxTime
  /\ Running => now < Due + MaxStall
  /\ now' = now + 1
  /\ UNCHANGED <<bootVars, daemonVars, redis, answered>>

(***************************************************************************)
(* Start-up.  open_redis() and the KEYS command of load_all(); if Redis is *)
(* unreachable the daemon runs on a MemoryStore, which starts empty.       *)
(***************************************************************************)
\* Enforce mode falls back to the permissive enforcer if eBPF does not load.
Enforcers == IF Mode = "enforce" THEN {"bpf", "permissive"} ELSE {"permissive"}

\* The state the worker threads start from, with the hydrated policies.
Launch(hydrated) ==
  /\ phase' = "up" /\ keys' = {}
  /\ enforcer' \in Enforcers
  /\ policies' = hydrated
  /\ tick' = [Asleep EXCEPT !.wake = now]
  /\ UNCHANGED <<counters, last, windows, would_be, enforced, reqs, fed>>

StartKeys ==
  /\ phase = "down"
  /\ phase' = "hydrating" /\ backend' = "redis"
  /\ keys' = {c \in Clients : Present(redis[c], now)}
  /\ live' \in 1 .. Len(Configs)
  /\ UNCHANGED <<now, enforcer, counters, last, windows, policies, would_be, enforced,
                 tick, reqs, fed, redis, answered>>

StartWithoutRedis ==
  /\ phase = "down" /\ RedisMayBeDown
  /\ backend' = "memory"
  /\ live' \in 1 .. Len(Configs)
  /\ Launch(NoPolicies)
  /\ UNCHANGED <<now, redis, answered>>

\* The GETs of load_all() and hydrate(): each listed key is still there.
Hydrate ==
  /\ phase = "hydrating"
  /\ \A c \in keys : Present(redis[c], now)
  /\ Launch([c \in Clients |->
               IF c \in keys
                 THEN [manual |-> ToRuntime(redis[c].policy, now), auto |-> None]
                 ELSE NoPolicy])
  /\ UNCHANGED <<now, backend, live, redis, answered>>

\* A listed key expired before its GET (nil is no String), or Redis failed: hydrate()?
\* ends main().
HydrateFails ==
  /\ phase = "hydrating"
  /\ StoreMayFail \/ \E c \in keys : ~Present(redis[c], now)
  /\ phase' = "down" /\ keys' = {}
  /\ UNCHANGED <<now, backend, enforcer, daemonVars, redis, answered>>

\* The process dies; only Redis survives.
Crash ==
  /\ MayCrash /\ phase # "down"
  /\ phase' = "down" /\ keys' = {}
  /\ counters' = NoCounts /\ last' = NoCounts /\ windows' = NoWindows
  /\ policies' = NoPolicies /\ would_be' = NoActions /\ enforced' = NoActions
  /\ tick' = Asleep /\ reqs' = NoRequests /\ fed' = NoCounts
  /\ UNCHANGED <<now, backend, enforcer, live, redis, answered>>

(***************************************************************************)
(* Configuration watcher: swap_live().                                     *)
(***************************************************************************)
Reload ==
  /\ Running
  /\ live' \in 1 .. Len(Configs) \ {live}
  /\ UNCHANGED <<now, bootVars, counters, last, windows, policies, would_be, enforced,
                 tick, reqs, fed, redis, answered>>

(***************************************************************************)
(* Sniffer thread: a frame of client c that rule r counts.  The frame may  *)
(* still be matched with the rule set of before a reload.                  *)
(***************************************************************************)
Count(c, r, n) ==
  /\ Running /\ now < QuietAfter
  /\ counters' = [counters EXCEPT ![c][r] = SatAdd(@, n)]
  /\ UNCHANGED <<now, bootVars, live, last, windows, policies, would_be, enforced,
                 tick, reqs, fed, redis, answered>>

(***************************************************************************)
(* Decision thread                                                         *)
(***************************************************************************)
\* run(): a tick starts no earlier than a second after the previous one did.
TickStart ==
  /\ Running /\ tick.pc = "sleep" /\ now >= tick.wake
  /\ tick' = [tick EXCEPT !.pc = "started", !.wake = now + Second]
  /\ UNCHANGED <<now, bootVars, live, counters, last, windows, policies, would_be,
                 enforced, reqs, fed, redis, answered>>

TickLoadRules ==
  /\ Running /\ tick.pc = "started"
  /\ tick' = [tick EXCEPT !.pc = "rules", !.now = now, !.rules = Configs[live].rules]
  /\ UNCHANGED <<now, bootVars, live, counters, last, windows, policies, would_be,
                 enforced, reqs, fed, redis, answered>>

\* daemon_cfg() loads the ArcSwap again, then the counters are cloned.
Cooldown(config) ==
  (IF config.cooldown_secs < 1 THEN 1 ELSE config.cooldown_secs) * Second

TickSnapshot ==
  /\ Running /\ tick.pc = "rules"
  /\ tick' = [tick EXCEPT !.pc = "locking", !.cooldown = Cooldown(Configs[live]),
                          !.snapshot = counters]
  /\ UNCHANGED <<now, bootVars, live, counters, last, windows, policies, would_be,
                 enforced, reqs, fed, redis, answered>>

Delta(c, r) == SatSub(tick.snapshot[c][r], last[c][r])

\* advance_all(), then the deltas; a window is created by the first delta.
NextWindow(c, r) ==
  LET w == windows[c][r]
      v == IF w = None THEN None ELSE Advance(w, tick.now)
  IN IF Delta(c, r) = 0 THEN v
     ELSE Add(IF v = None THEN NewWindow(tick.now) ELSE v, Delta(c, r), tick.now)

\* RuleEngine::evaluate over the windows of one client.
Violated(wins) ==
  {i \in DOMAIN tick.rules :
     LET w == wins[tick.rules[i].id]
     IN (IF w = None THEN 0 ELSE SumLast(w, tick.rules[i].secs)) > tick.rules[i].limit}

\* Mutant: no hysteresis, the policy goes as soon as no rule is violated.
NextAutoFlapping(c) ==
  StrongestAuto(tick.rules, Violated([r \in RuleIds |-> NextWindow(c, r)]),
                tick.now, tick.cooldown)

NextAuto(c) ==
  LET old == policies[c].auto
      strongest == StrongestAuto(tick.rules, Violated([r \in RuleIds |-> NextWindow(c, r)]),
                                 tick.now, tick.cooldown)
  IN IF strongest # None THEN strongest
     ELSE IF old # None /\ AutoExpired(old, tick.now) THEN None ELSE old

\* Mutant: any manual policy with a deadline is dropped at the next tick.
NextManualHasty(c) ==
  LET old == policies[c].manual
  IN IF old # None /\ old.until # None THEN None ELSE old

NextManual(c) ==
  LET old == policies[c].manual
  IN IF old # None /\ ManualExpired(old, tick.now) THEN None ELSE old

NextPolicy(c) == [manual |-> NextManual(c), auto |-> NextAuto(c)]

\* DaemonState::apply and clear.  BpfHandle::key skips clients without an IPv4 address.
Keyed(c) == enforcer = "permissive" \/ c \in V4Clients

Recorded(action) == IF action.kind = "none" THEN None ELSE action

\* Mutant: clear() leaves the record.
NextWouldBeSticky(c, action) ==
  IF action.kind # "none" /\ Mode = "permissive" THEN action ELSE would_be[c]

NextWouldBe(c, action) ==
  IF action.kind = "none" THEN None
  ELSE IF Mode = "permissive" THEN action ELSE would_be[c]

\* Mutant: the enforcer is never told to clear a client.
NextEnforcedSticky(c, action) ==
  IF Keyed(c) /\ action.kind # "none" THEN action ELSE enforced[c]

\* Mutant: the entry is merged before the new policies are stored in it.
NextEnforcedStale(c, action) ==
  IF Keyed(c) THEN Recorded(MergePolicy(policies[c], tick.now)) ELSE enforced[c]

NextEnforced(c, action) ==
  IF Keyed(c) THEN Recorded(action) ELSE enforced[c]

\* Mutant: last_counters remembers the live counters instead of the clone.
NextLastLive == counters

NextLast == tick.snapshot

\* The rest of tick(), under the locks of last_counters, windows and policies.
TickCommit ==
  /\ Running /\ tick.pc = "locking"
  /\ windows' = [c \in Clients |-> [r \in RuleIds |-> NextWindow(c, r)]]
  /\ policies' = [c \in Clients |-> NextPolicy(c)]
  /\ would_be' = [c \in Clients |-> NextWouldBe(c, MergePolicy(NextPolicy(c), tick.now))]
  /\ enforced' = [c \in Clients |-> NextEnforced(c, MergePolicy(NextPolicy(c), tick.now))]
  /\ last' = NextLast
  /\ fed' = [c \in Clients |-> [r \in RuleIds |-> fed[c][r] + Delta(c, r)]]
  /\ tick' = [Asleep EXCEPT !.wake = tick.wake]
  /\ UNCHANGED <<now, bootVars, live, counters, reqs, redis, answered>>

(***************************************************************************)
(* IPC threads.  A handler reads the clock, then takes the policies lock.  *)
(***************************************************************************)
\* ThrottleParams, BlockParams and ClientParams.
Calls == [op : Ops \cap {"throttle"}, rate : Rates, secs : Durations]
           \cup [op : Ops \cap {"block"}, rate : {0}, secs : Durations]
           \cup [op : Ops \cap {"unthrottle", "unblock"}, rate : {0}, secs : {None}]

Receive(k, c, call) ==
  /\ Running /\ now < QuietAfter
  /\ reqs[k] = None
  /\ reqs' = [reqs EXCEPT ![k] =
       [op |-> call.op, client |-> c, rate |-> call.rate, at |-> now,
        until |-> IF call.secs = None THEN None ELSE now + call.secs * Second]]
  /\ UNCHANGED <<now, bootVars, live, counters, last, windows, policies, would_be,
                 enforced, tick, fed, redis, answered>>

Serving(k, op) == Running /\ reqs[k] # None /\ reqs[k].op = op

Reply(k, ok) ==
  /\ reqs' = [reqs EXCEPT ![k] = None]
  /\ answered' = [answered EXCEPT ![reqs[k].client] = [op |-> reqs[k].op, ok |-> ok]]

\* Mutant: only put, never remove.
PersistManualPutOnly(k, manual) ==
  /\ redis' = IF manual = None THEN redis
              ELSE [redis EXCEPT ![reqs[k].client] =
                      PutKey(FromRuntime(manual, reqs[k].at, now), now)]
  /\ Reply(k, TRUE)

\* persist_manual(): put or remove the key, and the handler's answer.  A Redis
\* error reaches the caller whether or not the server ran the command.
PersistManual(k, manual) ==
  LET key == IF manual = None THEN None
             ELSE PutKey(FromRuntime(manual, reqs[k].at, now), now)
      written == [redis EXCEPT ![reqs[k].client] = key]
  IN \/ backend = "memory" /\ redis' = redis /\ Reply(k, TRUE)
     \/ backend = "redis" /\ redis' = written /\ Reply(k, TRUE)
     \/ backend = "redis" /\ StoreMayFail /\ redis' \in {redis, written} /\ Reply(k, FALSE)

SetManual(k, manual) ==
  /\ policies' = [policies EXCEPT ![reqs[k].client].manual = manual]
  /\ PersistManual(k, manual)
  /\ UNCHANGED <<now, bootVars, live, counters, last, windows, would_be, enforced, tick, fed>>

\* entry(client).or_default() and the clone the handlers start from.
ManualOrDefault(c) ==
  IF policies[c].manual # None THEN policies[c].manual
  ELSE [throttle |-> None, blocked |-> FALSE, until |-> None]

ThrottleClient(k) ==
  /\ Serving(k, "throttle")
  /\ SetManual(k, [ManualOrDefault(reqs[k].client) EXCEPT
                     !.throttle = reqs[k].rate, !.until = reqs[k].until])

BlockClient(k) ==
  /\ Serving(k, "block")
  /\ SetManual(k, [ManualOrDefault(reqs[k].client) EXCEPT
                     !.blocked = TRUE, !.until = reqs[k].until])

\* Nothing to clear: answered Ok without touching the store.
ClearNothing(k) ==
  /\ Serving(k, "unthrottle") \/ Serving(k, "unblock")
  /\ policies[reqs[k].client].manual = None
  /\ Reply(k, TRUE)
  /\ UNCHANGED <<now, bootVars, live, counters, last, windows, policies, would_be,
                 enforced, tick, fed, redis>>

ClearManualThrottle(k) ==
  /\ Serving(k, "unthrottle")
  /\ LET m == policies[reqs[k].client].manual
     IN /\ m # None
        /\ SetManual(k, IF m.blocked THEN [m EXCEPT !.throttle = None] ELSE None)

\* Mutant: the entry stays when its last part is cleared.
ClearManualBlockKeepsEntry(k) ==
  /\ Serving(k, "unblock")
  /\ policies[reqs[k].client].manual # None
  /\ SetManual(k, [policies[reqs[k].client].manual EXCEPT !.blocked = FALSE])

ClearManualBlock(k) ==
  /\ Serving(k, "unblock")
  /\ LET m == policies[reqs[k].client].manual
     IN /\ m # None
        /\ SetManual(k, IF m.throttle # None THEN [m EXCEPT !.blocked = FALSE] ELSE None)

-----------------------------------------------------------------------------
Startup == StartKeys \/ StartWithoutRedis \/ Hydrate \/ HydrateFails

Sniffer == \E c \in Clients, r \in RuleIds, n \in Amounts : Count(c, r, n)

Decision == TickStart \/ TickLoadRules \/ TickSnapshot \/ TickCommit

Arrival == \E k \in Conns, c \in Clients, call \in Calls : Receive(k, c, call)

Handler(k) == \/ ThrottleClient(k) \/ BlockClient(k)
              \/ ClearManualThrottle(k) \/ ClearManualBlock(k) \/ ClearNothing(k)

Next == \/ Clock \/ Startup \/ Crash \/ Reload
        \/ Sniffer \/ Decision
        \/ Arrival \/ (\E k \in Conns : Handler(k))

Spec == Init /\ [][Next]_vars

(***************************************************************************)
(* Fairness: time passes, the process is started, and std::thread gives    *)
(* the decision thread and every IPC thread its turn.  Nothing makes a     *)
(* client send a frame or a request, a reload happen, or the process die.  *)
(***************************************************************************)
FairSpec == /\ Spec
            /\ WF_vars(Clock) /\ WF_vars(Startup) /\ WF_vars(Decision)
            /\ \A k \in Conns : WF_vars(Handler(k))

-----------------------------------------------------------------------------
(***************************************************************************)
(* Types                                                                   *)
(***************************************************************************)
TickLocals == [pc : {"sleep", "started", "rules", "locking"}, wake : Instant, now : Instant,
               rules : {Configs[i].rules : i \in DOMAIN Configs} \cup {<<>>},
               cooldown : Nat, snapshot : Counts]

\* Every variable keeps the type its Rust counterpart has.
TypeOK ==
  /\ now \in Instant
  /\ phase \in {"down", "hydrating", "up"}
  /\ keys \in SUBSET Clients
  /\ backend \in {"redis", "memory"}
  /\ enforcer \in {"bpf", "permissive"}
  /\ live \in DOMAIN Configs
  /\ counters \in Counts /\ last \in Counts
  /\ windows \in [Clients -> [RuleIds -> Window \cup {None}]]
  /\ policies \in [Clients -> ClientPolicy]
  /\ would_be \in [Clients -> EffectiveAction \cup {None}]
  /\ enforced \in [Clients -> EffectiveAction \cup {None}]
  /\ tick \in TickLocals
  /\ reqs \in [Conns -> Request \cup {None}]
  /\ redis \in [Clients -> Key \cup {None}]
  /\ fed \in [Clients -> [RuleIds -> Nat]]
  /\ answered \in [Clients -> Answer \cup {None}]

(***************************************************************************)
(* Properties                                                              *)
(***************************************************************************)
\* Every unit the sniffer counted reaches a window exactly once: what was fed is
\* what last_counters says, and no clone runs ahead of the live counters, however
\* the sniffer's additions fall between the clone and the end of tick().
CountedOnce ==
  \A c \in Clients, r \in RuleIds :
    /\ fed[c][r] = last[c][r]
    /\ last[c][r] <= counters[c][r]
    /\ tick.pc = "locking" => /\ last[c][r] <= tick.snapshot[c][r]
                              /\ tick.snapshot[c][r] <= counters[c][r]

\* The step in which tick() releases the policies lock.
Decides == Running /\ Running' /\ tick.pc = "locking" /\ tick'.pc = "sleep"

\* After every tick the enforcer holds, for each client it can key, exactly what the
\* two policy sources ask for at the instant of that tick, and so does would_be in
\* permissive mode; no requests, reloads or frames in between make them differ.
DecisionMatchesPolicy ==
  [][Decides => \A c \in Clients :
        /\ Keyed(c) => Agrees(enforced'[c], policies'[c], tick.now)
        /\ Mode = "permissive" => Agrees(would_be'[c], policies'[c], tick.now)]_vars

\* In enforce mode no client ever has a would-be action, whichever enforcer runs; in
\* permissive mode would_be and the enforcer's log never disagree.
WouldBeOnlyPermissive ==
  IF Mode = "permissive" THEN would_be = enforced ELSE would_be = NoActions

\* While its cooldown runs an automatic policy stays in place, even when the
\* measured value has dropped below the limit or its rule is gone after a reload.
CooldownHolds ==
  [][Decides => \A c \in Clients :
        LiveAuto(policies[c], tick.now) => policies'[c].auto # None]_vars

\* An IPC thread answered an `op' request for client c in this step.
Served(op, c) ==
  \E k \in Conns : /\ reqs[k] # None /\ reqs[k].op = op /\ reqs[k].client = c
                   /\ reqs'[k] = None

\* A manual policy that has not expired leaves memory only through unthrottle or
\* unblock for that client, or with the process.
ManualNotLost ==
  [][\A c \in Clients :
       LiveManual(policies[c], now) /\ policies'[c].manual = None
         => Served("unthrottle", c) \/ Served("unblock", c) \/ ~Running']_vars

\* A manual policy, in memory or in Redis, always throttles or blocks: however the
\* requests interleave, clearing the last part of it removes it whole.
NoEmptyManual ==
  \A c \in Clients :
    /\ policies[c].manual # None =>
         policies[c].manual.blocked \/ policies[c].manual.throttle # None
    /\ redis[c] # None =>
         redis[c].policy.blocked \/ redis[c].policy.throttle # None

\* Unless Redis fails, the key of a client says what memory says: a policy in force
\* has a key with the same throttle and block whose deadline is less than two
\* seconds early, and a key without a deadline belongs to a policy in memory.
StoreMirrorsMemory ==
  Running => \A c \in Clients :
    LET m == policies[c].manual
        k == redis[c]
    IN /\ LiveManual(policies[c], now) =>
            /\ k # None
            /\ k.policy.throttle = m.throttle /\ k.policy.blocked = m.blocked
            /\ (k.policy.until_unix_secs = None) <=> (m.until = None)
            /\ m.until # None => k.policy.until_unix_secs * Second > m.until - 2 * Second
       /\ k # None /\ k.policy.until_unix_secs = None => m # None

\* A restart does not bring back, as a permanent policy, what an Ok answer said was
\* cleared.  (A temporary one can come back: its key is given the time the handler
\* waited for the policies lock on top of the requested duration.)
ClearedStaysCleared ==
  [][phase = "hydrating" /\ Running' => \A c \in Clients :
       LET m == policies'[c].manual
       IN m # None /\ m.until = None =>
            /\ answered[c] = [op |-> "unblock", ok |-> TRUE] => ~m.blocked
            /\ answered[c] = [op |-> "unthrottle", ok |-> TRUE] => m.throttle = None]_vars

\* Once clients stop sending and asking, every temporary measure is lifted for good.
QuietClientsReleased == <>[](\A c \in Clients : enforced[c] = None /\ would_be[c] = None)
=============================================================================
