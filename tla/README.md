# MicroWAF: TLA+ models and proofs

MicroWAF is a small firewall daemon: a sniffer thread counts what each client
sends, a decision loop compares the counts with rules and throttles or blocks
clients, operators add manual policies over a Unix socket, and Redis carries
the manual policies across restarts. This directory models those parts in TLA+,
checks them with TLC on small instances, shows that the daemon implements an
abstract specification of enforcement, and proves that refinement and every
safety property that a passing run checks with TLAPS, for every value of the constants. `PROJECT.json` maps each
definition to the source lines it stands for and lists runs, mutants, findings,
hazards and theorems.

## 1. The system

Threads (std threads, no async): one sniffer, one decision loop, one
configuration watcher with a SIGHUP bridge and a debouncer, and one thread per
IPC connection. They share `DaemonState`: `counters`, `last_counters`,
`windows`, `policies`, `would_be` and the enforcer, each behind its own mutex, and
the live configuration in an `ArcSwap`.

| component | state | operations | used by / uses |
|---|---|---|---|
| sniffer (`sniffer.rs`, `mw-sniffer`) | flow table, upgraded connections | capture, dispatch by protocol, observe a flow | live rules and sets; adds to the counters |
| counters (`counters.rs`) | per client and rule, per client | add (saturating), clone | sniffer, decision loop, listings |
| sliding windows (`window.rs`) | ring of one-second buckets | advance, add, sum | decision loop |
| policies (`policy.rs`) | none | expiry, merge, strongest violation, stored form | decision loop, handlers, store |
| decision loop (`decision.rs`) | previous counters, locals of a tick | one tick a second: snapshot, windows, policies, enforcement; statistics | everything in `DaemonState` |
| enforcers (`state.rs`, `enforcer.rs`, `ebpf.rs`) | action per client | apply, clear | decision loop |
| IPC (`ipc.rs`, `wire.rs`, the Rust and Go clients) | a request per connection | admit, decode, dispatch, four mutations, four queries | `policies`, the store |
| store (`store.rs`, `mw-store`) | one Redis key per manual policy, with a TTL; one per client's statistics; the schema version | check the schema, put, remove, load all, put statistics | handlers, decision loop, start-up |
| configuration (`config.rs`) | files, `LiveConfig`, signal flags | seed, load, reject, swap | operator; all other threads |
| start-up (`cli/daemon.rs`) | the socket path | claim and bind, open the store or fall back, hydrate, attach XDP or fall back, start the threads | all of the above |
| command line (`cli/client.rs`, `cli/top.rs`) | the terminal, typed keys | one call per command; `top` repeats it until q | IPC |

What is hard about it, and therefore what the models are about:

* **interleavings**: the tick clones counters, reads the clock and loads the
  configuration twice before it takes the locks; handlers read the clock before they
  wait for `policies`; frames, requests and reloads come in between;
* **lock order**: `tick`, `listClients` and `top` take three mutexes in three
  different orders;
* **crash and partial failure**: memory is changed before Redis, a command may
  fail before or after it took effect, Redis may be absent at start-up;
* **time**: ticks that are late or less than a second apart, deadlines rounded to
  seconds, TTLs, idle times, the client's read timeout;
* **several processes**: two start-ups that probe, remove and bind the same path, an
  upgrade on the same database, a death at any point of either's start-up;
* **decoding**: requests and answers are untagged enums, distinguished only by the
  order of their variants;
* **limits**: a full flow table, saturating counters, a full turn of the ring;
* **reloads**: edits and signals during a load, loads that write into the directory
  they are triggered by, a watcher or signal handler that fails, rule files listed first and read one by one later, a frame matched with the rules of one configuration and
  the sets of the next.

What makes each component correct: every unit counted once and measured in a
window that neither misses the recent nor keeps the old; each tick enforcing
exactly what the two policy sources ask for; cooldowns respected; manual policies
lost only on request; the store following memory; every connection counted once;
requests having their own effect and no other; the last valid configuration
becoming live; a running daemon keeping others off its path and none reading
another version's data; the
terminal left as it was found; nobody waiting for ever.

## 2. Modules

| module | stands for |
|---|---|
| `Units` | u64/u8 ranges, saturating arithmetic, whole seconds of an instant |
| `Policy` | `policy.rs` and rule actions: expiry, `merge_policy`, `strongest_auto`, and the reference `Agrees` they are held against |
| `SlidingWindow` | the ring of `window.rs`: `advance`, `add`, `sum` |
| `ManualStore` | `StoredManualPolicy` (rounding to seconds both ways) and Redis keys with TTL |
| `Daemon` | composition of the above: sniffer counts, decision loop, handlers, Redis, start-up, crash, reload |
| `Enforcement` | what the daemon promises: two policies per client, one action, decisions as of a past instant |
| `DaemonRefinement` | the refinement mapping from `Daemon` to `Enforcement` |
| `Lifecycle` | daemon processes on one socket path and one database: probe and bind, schema check, hydrate, attach, statistics, death |
| `WindowAccuracy` | one window under irregular ticks, against a history of how much was fed up to which instant |
| `Locks` | the lock program of every operation of every thread |
| `Ipc` | one call from client to handler and back: peer check, decoding, dispatch, answer, timeout, abort |
| `Sniffer` | flow table, WebSocket marking, selection of rules, amounts |
| `ConfigWatch` | files, debouncer, SIGHUP, seeding, load in steps, compilation, rejection, swap |
| `TopView` | the live view of `microwaf top`: calls, terminal, keys |
| `MCDaemon`, `MCIpc`, `MCSniffer`, `MCConfigWatch`, `MCLifecycle` | instances: rule sets, bodies, flows, rule ids, processes |
| `DaemonProofs` | what the operators of `Policy` and `SlidingWindow` return; types and safety of `Daemon`; `Daemon` implements `Enforcement`; memory and Redis |
| `WindowProofs` | what the ring of buckets shows: safety of `WindowAccuracy` |
| `SnifferProofs` | sums over finite sets; safety of `Sniffer` |
| `LifecycleProofs`, `ConfigProofs`, `ClientProofs` (of `Ipc`), `TopViewProofs`, `LocksProofs` | safety of the modules they extend |

**Daemon.** A thread is split where the code reads a clock, loads the `ArcSwap`,
clones a map or takes the `policies` lock; what runs under that lock is one action
(its mutual exclusion is what `Locks` is about). A tick is `TickStart` (pacing
of `run`), `TickLoadRules` (clock and rules), `TickSnapshot` (cooldown, clone
of the counters) and `TickCommit` (the rest of `tick()`). A handler is `Receive`
(clock) and one of `ThrottleClient`, `BlockClient`, `ClearManualThrottle`,
`ClearManualBlock`, `ClearNothing`, each including `persist_manual` and the answer. A
Redis error comes with or without the effect of the command. Start-up is `StartKeys`
(KEYS), then `Hydrate` or `HydrateFails` (GETs), or `StartWithoutRedis`; a crash keeps only
Redis. A client without an entry in one of the code's maps has zero counters,
`NoPolicy` or `None`. Wall clock and monotonic clock agree. `enforced` is the map of
the active enforcer; for eBPF that is the user-space mirror, which is all the
daemon writes at this commit.

`Ops` is the set of handlers that requests reach. Which bodies reach them is the
subject of `Ipc`: at this commit the repository's own unthrottle, block and unblock
requests are rejected by the decoding (finding `ipc_own_calls`). Other bodies, such
as one whose `rate` is ill typed, decode to `Params::Client` and reach unthrottle
and unblock. No body reaches `block`: `Client` is tried before `Block` and accepts
whatever `Block` accepts. The runs and proofs of `Daemon` cover all four handlers, so
its `BlockClient` stands for a handler that exists but is not reached over the
wire, and the block case of `EffectsMatchRequests` in `Ipc` is vacuous.

**Enforcement and DaemonRefinement.** The abstract specification knows the clock,
whether the daemon serves, whom its enforcer can reach, the two policies of each
client and the action in force. A decision is taken for all clients at once, as
of one past instant: manual policies end with their deadline and not before,
automatic ones last at least as long as theirs, and every client within reach gets
what its policies ask for. The mapping takes these straight from `Daemon`'s variables;
`TickCommit` is a decision as of `tick.now`, a handler is an operation, `Hydrate`
or `StartWithoutRedis` a start, `Crash` a stop. Ticks, windows, counters, rules,
requests and Redis are hidden.

**Lifecycle.** Each process runs `run()` of `cli/daemon.rs` step by step: `Probe`,
`Unlink`, `Bind` and `Listen`, the commands of `ensure_schema` one at a time, `Hydrate`,
`Attach` per interface, then the running daemon with requests, counting and snapshots.
Any Redis command may fail with or without its effect and a process may die anywhere;
binaries have different schema versions. `claim()` and `bind()` belong to a library
that is not in the repository. The tests at `ipc.rs:583-613` show that a path that
answers is refused and one that does not is removed; nothing shows that the two are
one step, so the model takes them as separate calls: a start-up that found the path dead
removes whatever is there when it gets to it, and a socket that is bound but does not
listen yet looks dead. Two start-ups can therefore remove each other's socket and both
run. The history `raced` has the processes to which this may happen (another start-up
had found the path dead and not yet removed it when they bound, or took their socket
for dead before they listened), `alone` says that no two processes were past
`bind_listener` at once so far. Frames are counted by every process that runs. The build
has the `ebpf` feature. Deadlines are in `Daemon`; here a policy is known by the version
that wrote it.

**TopView.** The guards of `run_live` are flags that are set and dropped in order; a
call returns or fails; `poll` sees what the terminal holds but not what the reader
has buffered, and one `read` takes `Chunk` bytes (32 in the code). The drawn frame is
left out.

**Ipc.** A JSON object maps field names to absent, ill typed, valid, or valid with a
value that a later step rejects (a client reference, a duration). `Decode` takes the first variant that accepts.
The manual policy is reduced to its two parts.

**Sniffer.** A payload is known by what the detectors find in it, including that a POST
passes for a WebSocket header once a connection is marked. A frame is `Capture`
(frame and rules) and `Dispatch` (sets, flow table, counters), so that a reload can
fall in between.

**ConfigWatch.** A file holds a version, an invalid text or is missing. A load is
`Wake`, `CheckSeed`/`WriteSeed` for the three seeded files, the reads of daemon.yaml
and sets.yaml, `ListRules`, one `ReadRules` per listed file (or `RuleFileGone`),
`Compile` and `Install`; the operator may edit between any two of these. A rule file
is known by the ids of its rules: two files that share one, or have too many
together, are rejected although each is valid. It begins after the first load;
edits before the watch raise no event. An error that a step returns rejects the load
(`LoadFails`); one that `exists()` or `read_dir` swallows makes a file look missing, to
the seeding (`OverlookSeed`) or to the load (`OverlookDaemon`, `OverlookSets`,
`OverlookRules`). `SetupSighup` may leave no handler (then a SIGHUP ends the process) or a
handler without its bridge thread; `WatchEnds` is the return of the watcher when
`spawn_signal` fails or its channel closes, after which nothing is ever loaded
(`pc = "gone"`).

**Locks.** A job is a sequence of acquisitions and releases; guards held to the end
of a function are released in reverse order. IPC connections each have a thread.

## 3. Runs

| run | question | bounds |
|---|---|---|
| `reload` | traffic over two rules, manual throttles, reloads, permissive mode: `TypeOK`, `CountedOnce`, `WouldBeOnlyPermissive`, `ImplementsEnforcement`, `DecisionMatchesPolicy`, `CooldownHolds` | one client; per-second rule and rule over a ring of 3 buckets; `U64Max` 3, so counters saturate; 4 s, ticks at most 2 s late, cooldowns of 2 s and of 0 (taken as 1) |
| `restart` | two operators, crashes: `NoEmptyManual`, `StoreMirrorsMemory`, `ImplementsEnforcement`, `ClearedStaysCleared`, `ManualNotLost` | half-second clock, so that rounding matters; permanent and 1 s policies; a client that eBPF cannot key; 3 half seconds, no request in the last one; connections are symmetric |
| `release` | Redis failing and absent, enforce mode: `ImplementsEnforcement`, `DecisionMatchesPolicy` and the liveness `QuietClientsReleased` | silence after 2 s, ticks at most 1 s late, 6 s: window, cooldown and deadline all run out |
| `lifecycle` | `OneDaemon`, `NeverMisreads`, `DiscardsOnlyForeign`, `AttachedWhole`, `StatsWithinTraffic` and the liveness `StatsCatchUp` | two processes of two versions, one in enforce mode, that start again and again; two clients, two interfaces; 2 deaths, 1 failure, 2 units, 1 request |
| `window` | `TypeOK`, `NothingRecentMissed`, `NothingOldLingers` | half-second clock, ring of 3, three units, ticks up to 1.5 s late, 13 half seconds: more than a full turn of the ring |
| `locks` | one connection: `NoCircularWait`, `EveryJobEnds` | no bound: the state space is finite |
| `ipc` | `AnswersUnderstood`, `EffectsMatchRequests`, `CallsReturn` | an admitted connection with a read timeout and one that is not admitted; bodies of the commands and libraries, and foreign bodies with at most one ill typed field |
| `view` | `TerminalRestored`, `QuitHeeded` | reads of 2 bytes, 4 keys: a q can be first, last, or beyond the read |
| `sniffer` | `TableBounded`, `EvictsOldest`, `NewWhenSilent`, `ConnectionsCountedOnce`, `WsFramesCounted` | three TCP flows and one UDP flow on a table of 2, idle time 2, 4 frames, 3 time units, two configurations |
| `config` | `InstallsWhatWasThere`, `SeedsOnlyMissing` and the liveness `EditsBecomeLive`, `SighupServed`, `ReloadsSettle` | 2 edits, 1 signal, returned I/O errors anywhere and one that is swallowed, a handler, bridge or watch that may fail; contents of one and of two rules, at most 3 in all |
| `locks_two` | violated: two connections, `listClients` against `top` | |
| `ipc_own_calls` | violated: the clients' own mutations are served | |

Why these are enough. The properties concern one client at a time, and the
daemon's maps never relate two clients, so one client suffices in `Daemon`; two
rules are needed for the choice of the strongest, and one deadline before and one
after a tick for expiry. The flow table needs one flow more than its size. The
lost wake-ups of `ConfigWatch` need an edit before and one during a load, one of
which may break a file or repair it; moving a rule between files takes two as well.
`Lifecycle` needs a process of each version, since a version meets its own data, the
other's and half discarded data; one that died leaves a dead path for which its next
start-up and that of the other then race. A death and a failure can fall into the same
start-up, and a batch of two clients can be written in part. Redis that
fails while processes die is left out of `restart` to keep what it promises strong;
`NoEmptyManual` and `DecisionMatchesPolicy` are proved for that case. Where the argument is not obvious (policies,
counters, ticks) the theorems remove the bound.

Most runs switch the deadlock check off because clock, frames or edits are
bounded and the models come to a stop there; `locks` and `locks_two` keep it.

**Fairness.** `Daemon!FairSpec`: time passes, start-up proceeds, the decision thread
and each handler run. `Clock` waits for a decision thread that is late by
`MaxStall`, which is the assumption that the scheduler does not suspend it for ever.
Clients, operators, reloads and crashes are under no obligation. `Locks`: strong
fairness of acquisition (a mutex free again and again is obtained; the mutexes are
those of `parking_lot`, which hands a mutex to a waiter from time to time), weak
fairness of release and of the decision loop. `Ipc`: only the
callers, which wake on data, end of file or their read timeout; nothing of the
daemon. `ConfigWatch`: the watcher, the debouncer and the bridge, which sleep for
bounded times; `WatchEnds` may happen but does not have to. `Lifecycle`: a running process takes its snapshots again and again and
Redis answers (failures are bounded); nobody has to start, die or ask. `TopView`: the
command itself, which `poll` and the socket wake up at the latest with their timeouts;
neither the user nor the daemon. `Sniffer` and `WindowAccuracy` have only safety properties.

**Mutants.** Each property is violated by at least one plausible fault, written
next to the definition it replaces.

## 4. Proofs

Assumptions are the named `ASSUME`s on constants: types and ranges,
`None` distinct from payloads, at least one configuration, a positive second
and ring. No bound (`MaxTime`, `QuietAfter`, `MaxEdits`, ...) is used beyond its being a
number, except that the units of `WindowAccuracy` fit a u64; and no set of clients,
connections, processes or contents has to be finite.
The safety invariants were checked with TLC on the instance of the run before they
were proved. Some theorems have hypotheses of their own, which the instances of their runs
satisfy: `StoreMirrored` / `ClearedNeverReturns`, `NoDeadlock`, `ConnectionsOnce` and
`WsFramesNeverMissed`; they are explained below.

**Induction.** The provers cannot instantiate the library's induction schemes, so
induction is by least counterexample: a set of natural numbers that is not empty has a least
element (`LeastNat`, from the library's well-founded ordering), the set of the
inputs for which a claim fails is described as a set, and its least member contradicts the
definition. In the same way a family of finite sets has a smallest member. That a recursive
function satisfies its equation is itself proved like this, since tlapm knows it only as a
`CHOOSE`: a function that satisfies the equation exists and is the only one (`TotalsExist`,
`SolutionUnique`, `UpToIs` for the running totals of a window; `SumExists`, `SumUnique`,
`SumDef` for the sums over sets of the community modules).

**DaemonProofs.** `MergeAgrees`: `merge_policy` with its early returns asks for
exactly what the two sources ask for. `StrongestIsViolated`: the policy that
`strongest_auto` builds comes from a violated rule that no other violated rule beats; it
needs a least element of a set of numbers and a numeric weakness that `Beats` orders by. Advance
and add stay within the ring and u64. `TypeCorrect`: `TypeOK` is inductive as it
stands; the work is in the tick (`TickTypes`), the key (`PutKeyType`), and `Launch`.

The safety properties:
* `EveryUnitCountedOnce`: `CountedOnce` is inductive with `TypeOK`; it includes
  that the clone of a tick lies between the previous counters and the live ones,
  without which saturating subtraction would lose units.
* `ManualNeverEmpty`: memory and Redis must be in one invariant, since hydration copies
  one to the other.
* `WouldBeFollowsMode`: strengthened to `ModeInv`, which adds that permissive
  mode installs the permissive enforcer.
* `TickEnforcesPolicy`: the step that ends a tick is `TickCommit`
  (`DecidesIsCommit`); the merged policy of the step agrees by `MergeAgrees`.
* `AutoPolicyStaysInCooldown`: from the same lemma and the definition of
  `NextAuto`; reloads cannot shorten a cooldown.
* `ManualOnlyClearedOnRequest`: needs `ClockInv`: the instant of a tick
  is not in the future, so what it drops has expired by the clock too, and a process
  that does not run has no policies.

Crashes and restarts. `DaemonImplementsEnforcement`: initial states map to initial states and
each action to the abstract step named in section 2 or to a stutter (one lemma
per kind of step: `Invisible`, `HandlerOperates`, `CommitDecides`, `LaunchStarts`, `CrashStops`).
It rests on `TypeOK`, `ClockInv` and `DownInv` (a process that does not run enforces
nothing). `StoreMirrored` and `ClearedNeverReturns` assume a Redis that never fails and
is there at start-up, as the run `restart` does: with a failing Redis both are
false (section 5). Their invariant `StoreInv` says more than the property: a key without
a deadline belongs to a policy without one, since otherwise the end of a temporary
policy would leave the key alone; and of each Ok answer that is remembered, that neither
memory nor Redis has what it cleared. The rounding of deadlines to seconds and back is
`DeadlineRounding`.

**WindowProofs.** The claim about sums becomes inductive as `Fits`: for every n up to the size of the
ring, the n buckets that end at the cursor hold at least what was fed since n-1 seconds
before the last advance and nothing fed earlier than 2(n-1) seconds before it, and whatever
was fed after that advance came less than a second after it. An advance by k seconds moves the
claim for n-k to n (`AdvanceTotals`: its running totals are those of before, shifted by the
steps of the cursor, or zero after a full turn); the doubled distance is what pays for the dropped
fractions: an advance of k whole seconds takes less than k+1, hence at most 2k. An add raises all
totals and the history alike (`AddTotals`, `AddFits`). No total saturates because the
fed units fit a u64. At the end of a tick this gives `RecentCounted` and `OldForgotten`,
the two bounds of the run for any ring, clock and pattern of ticks; with the history's
bookkeeping it gives `UnitsConserved`.

**LifecycleProofs.** `OnlyOneDaemon`: by `HoldsSocket` a process that is past `Bind` and
not `raced` is what the path answers for. It is inductive because whoever is at `Unlink`
either found the path dead before that process bound it or took its socket for dead, and
both put the process into `raced`; so no `Unlink` can meet an unraced socket. While no two
daemons ran at once (`alone`) there is one process in `ensure_schema` (`AtMostOne`), which
makes the other invariants inductive: `SchemaDescribes` (the stored version is that of every
stored policy) and `SchemaStep` (at `delete` the list holds all keys; at `stamp` no
policy is left; after it the version is one's own) give `PoliciesOfOwnVersion` and
`OnlyForeignPoliciesDiscarded`. Two daemons at once do misread and discard each other's
keys, so the condition is needed. `CountsPart` (a snapshot is part of the counters, these are
part of the traffic) gives `StatsNeverOvercount`, without the condition.
`AttachedToAllOrNone` is inductive with the types.

**ConfigProofs.** The history `since` only grows during a load and contains the disk
(`HistoryStep`), so what a step read or saw missing stays in it; a file that an I/O error
hides enters it as missing. `LoadSoFar` says which
files each step has fetched, that a rule file that was not listed was missing, and that one
that was listed has been read or is still to come; at the swap this is
`ReloadInstallsWhatWasThere`. `SeedsMissing` carries the decision of `CheckSeed` to the write, over the
operator's edits in between: `ReloadSeedsOnlyMissing`.

**ClientProofs.** `AnswerDecodes` evaluates the untagged `ResultBody` for the answer of each
method; with the invariant that an answered call has an error or the answer to its own
method this is `ClientsUnderstandAnswers`. `RequestsDoWhatTheySay` needs that a variant is
chosen only if it accepts (`ChosenAccepts`), so a served body names a client, and that each
handler's effect is the promised one. Both hold for any set `Foreign` of bodies.

**TopViewProofs.** `TopRestoresTerminal`: `Guarded` says at which steps which guard lives.

**SnifferProofs.** `FlowTableBounded` and `OnlyOldestEvicted` from `ObserveShape`: `observe` adds
or refreshes one flow and drops at most one, the oldest of a full table. Flows may
be infinitely many; the invariant carries the finiteness of the table. `NewAfterSilence`:
by `HeardInv` a flow in the table has the time it was last heard, and one that was pruned has
been silent for the idle time, since frames are handled in the order of their capture
(`ReachedGrows`). `ConnectionsOnce` adds the counters to that: a frame raises the counter of one
connection rule by one exactly if the first rule that observes its flow finds it new and
its match expression holds (`AddedConnections`), and it raises `lives` exactly if the
flow is new; so both sums move together (`DispatchCounts`). It assumes finite sets of flows and
rule ids, and `StableRules`: a reload does not turn the id of a connection rule into a rule of
another metric or protocol; otherwise one counter holds connections and bytes alike.
`WsFramesNeverMissed`: by `WsInv` every connection that its end points have upgraded is in
`ws_conns`, or the handshake is the frame in hand, so a WebSocket frame always finds its
connection marked and adds to each rule (`AddedWs`). It assumes `WsRules`: every
configuration has the WebSocket rules that some configuration has, for all clients. TLC
evaluates both hypotheses for the instance (`StableReloads` in `MCSniffer`).

**LocksProofs.** `Holds` is a table of the critical sections of the operations, checked
against every step of every program (`ProgramsWellLocked`); `Owned` says that a mutex is
owned by the thread in its section. All acquisitions go upwards in `Rank` except that of
`policies` by `top`, which holds `would_be` already. Among threads waiting in a circle take
one that waits for the highest rank: the thread it waits for must be that `top`; it holds
`windows`, so neither `tick` nor another `top` can be the waiter (`WaitsUpwards`), and
what is left is `listClients`. Hence `NoDeadlock` under the hypothesis `Gated`: at most
one connection, or not both requests. `locks_two` shows that it is needed.

**Only model-checked.** Everything under fairness (`QuietClientsReleased`,
`EveryJobEnds`, `CallsReturn`, `EditsBecomeLive`, `SighupServed`, `ReloadsSettle`,
`StatsCatchUp`, `QuitHeeded`): TLAPS does not reach liveness. All other properties of the
passing runs have a theorem.

## 5. Where code and documentation disagree

Shown by runs (quotations in `PROJECT.json`):

* `ipc_own_calls`: `Params` tries `Throttle`, whose only required field is
  `client`, before `Client` and `Block`; the clients' unthrottle, block and unblock
  are always rejected (`wire.rs:140`).
* `locks_two`: `listClients` locks `policies` then `would_be`, `top` the other way
  round; two connections can block each other and then the decision loop.
  Against `tick` alone `top` is safe because it takes `windows` first.

Visible in the models, without a run of their own:

* connection rules share a flow table, so only the first rule that selects a flow can
  count it (`sniffer.rs:230`, `Opens` in `Sniffer`; ARCHITECTURE.md:275: "**Each rule is
  counted independently**");
* a start-up that found the path dead removes it later, and may remove what another has
  just bound: both daemons then run (`ipc.rs:34`, `raced` in `Lifecycle`; comment at 32:
  "refusing to start if another daemon is already live"). Whether the library excludes
  this is not visible in the repository, so no run claims it;
* statistics are never read back, and after a restart smaller totals overwrite larger
  ones (`store.rs:49`, `Hydrate` and `PutStats` in `Lifecycle`: two units, a snapshot, a
  death, a start, one unit and a snapshot leave 1; ARCHITECTURE.md:354-355: "persisted to
  Redis (~`statsSnapshotSecs`) so a restart does not lose stats"; 525-528 has them reloaded
  and added to). `StatsCatchUp` is stated so that it holds either way;
* if the watch cannot be set up, the watcher returns with the signal handler installed
  and every later SIGHUP is swallowed (`config.rs:322`, `WatchEnds` then `Signal` and `Bridge`
  in `ConfigWatch`; comment at 308: "reload on change / SIGHUP"); the same follows if
  the bridge thread does not start (292), and if the handler cannot be installed (280) a
  SIGHUP ends the daemon. What holds is `SighupServed`;
* the eBPF policy map is taken out of the loaded object and dropped; `apply` and
  `clear` write only the user-space mirror, so the XDP program passes every packet
  (`ebpf.rs:126`; comment at 136: "Enforcer that writes the BPF policy map");
* in raw mode Ctrl+C still is a signal (ISIG is kept, `top.rs:309`): it ends `top`
  without restoring the terminal, and the byte 0x03 is never read (`top.rs:275`; comment at
  249: "or the user presses q / Ctrl+C");
* a q beyond the 32 bytes of one read waits in the reader's buffer, which `poll` does
  not see, for the next key (`top.rs:263`, `QuitHeeded` names the exception);
* a file created between the test and the write of `seed_if_missing` is overwritten
  (`config.rs:131`; a test at 373 says: "Live file must not be overwritten on second
  ensure"; `SeedsOnlyMissing` is what holds);
* a file that an I/O error hides from `exists()` or `read_dir` counts as missing and may be
  overwritten with defaults or left out of what becomes live (`config.rs:131`, `139`, `202`,
  `211`, `237`);
* `allowUsers` is read once, when the server starts (`cli/daemon.rs:140`;
  ARCHITECTURE.md:570-571: "`allowUsers` are hot-reloadable");
* with `--timeout 0s` `set_read_timeout` fails, which is ignored, and the call has no
  timeout at all (`mw-client/src/client.rs:66`; `CallsReturn` is about calls that have one);
* a weaker violation during a cooldown replaces the stronger policy
  (`decision.rs:75`; ARCHITECTURE.md:418: "While in cooldown the throttle stays");
* if the remove of a key fails, the repeated unthrottle finds nothing in memory, answers Ok
  and a restart restores the policy (`ipc.rs:540`; ARCHITECTURE.md:492: "a daemon
  restart must not lose manual throttle/block decisions");
* a key that expires between KEYS and GET ends the start-up (`redis_store.rs:100`;
  ARCHITECTURE.md:523: "A temporary policy whose TTL already expired is dropped on load.");
* a failed write is returned to the client (`ipc.rs:500`; ARCHITECTURE.md:536:
  "a write failure is logged but does not reject the request");
* `advance` drops fractions of a second, so a window of n seconds may show almost
  2n-1, and a late tick feeds several seconds into one bucket (`window.rs:73`;
  ARCHITECTURE.md:377: "`sum(1)` = per-second, `sum(60)` = per-minute"); what does
  hold are the two bounds of the run `window`;
* a request whose parameters do not decode is answered with kind `info` (`ipc.rs:96`;
  `wire.rs:38`: "Method selector mirrored from the request.");
* nothing leaves `ws_conns`, so HTTP on a reused 4-tuple is not counted as such
  (`sniffer.rs:245`);
* an edit between the first load and the start of the watcher waits for the next
  load (`cli/daemon.rs:114`; ARCHITECTURE.md:577);
* deleting the last rule file brings the baseline back (`config.rs:189`, comment
  at 188: "an intentionally empty rules.d stays empty").

## 6. Not modelled, and why

Frame and protocol parsing at the level of bytes, YAML and CEL evaluation, framing
of messages, argument parsing and output: stateless conversions, reduced to what
they find. The contents of `listClients`, `top` and `listRules`: they read under
locks (`Locks`) and change nothing. The XDP program: per-packet lookup and a random
drop in the kernel, over a map that stays empty at this commit. The raw socket and
the enumeration of interfaces: system I/O. A Redis connection that is lost for good
(`redis_store.rs:18` never reconnects, and its commands have no timeout while `policies`
is held): as failures of single commands in `Daemon` and `Lifecycle`, not as a
command that never returns.

## 7. Plan

Done, in this order: policies and windows; the daemon with its store; locks; the
window's accuracy; IPC; sniffer; configuration; type and safety proofs of the
daemon; abstract specification and refinement; life cycle of the processes with
schema and statistics; the live view; rule files read one by one; the proof of the
refinement; the store; the safety proofs of life cycle, configuration, clients,
sniffer and locks; the accuracy of the windows; what the sniffer counts.

Next: the part of `StoreMirrorsMemory` that survives a Redis that fails (what a key says
was in memory when it was written), as a property with a theorem of its own.

Possible extensions of the models: the composition of `Sniffer` with the counting of
`Daemon`; reference checks of `strongest_auto` as a fold.
