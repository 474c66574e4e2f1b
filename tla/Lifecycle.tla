----------------------------- MODULE Lifecycle ------------------------------
(***************************************************************************)
(* Daemon processes that start, run, die and start again on one socket     *)
(* path and one Redis database, possibly of different schema versions.     *)
(*                                                                         *)
(*   microwaf/src/cli/daemon.rs     run(): the order of start-up           *)
(*   microwaf/src/ipc.rs            bind_listener, claim_socket_path       *)
(*   mw-store/src/redis_store.rs    connect, ensure_schema, load_all,      *)
(*                                  put_batch                              *)
(*   microwaf/src/store.rs          hydrate, snapshot_stats                *)
(*   microwaf/src/ebpf.rs           load_and_attach                        *)
(*                                                                         *)
(* A manual policy is known by the schema version of the process that      *)
(* wrote it; deadlines and TTLs are in module Daemon.  The statistics of a *)
(* client are one number.                                                  *)
(***************************************************************************)
EXTENDS Naturals, FiniteSets, FiniteSetsExt

CONSTANTS Procs,        \* daemon processes
          Version,      \* Version[p]: SCHEMA_VERSION of its binary
          Mode,         \* Mode[p]: "enforce" or "permissive"
          Clients,      \* ClientId values
          Ifaces,       \* attachable network interfaces
          None,         \* Option::None, a missing key
          MaxCrashes,   \* bound: processes killed
          MaxFailures,  \* bound: Redis commands and attachments that fail
          MaxUnits,     \* bound: units the sniffers count
          MaxRequests   \* bound: manual policies set or cleared

VARIABLES socket,    \* the path: None, "stale", or the process that listens on it
          pc,        \* step of each process
          listed,    \* keys that KEYS microwaf:* returned to ensure_schema
          backend,   \* StoreBackend
          attached,  \* interfaces that carry the process's XDP program
          enforcer,  \* the Enforcer it chose
          policies,  \* manual policies in its memory, by version
          counted,   \* CounterStore.by_client
          batch,     \* snapshot_stats: what put_batch has yet to write
          redis,     \* the microwaf:* keys
          traffic,   \* history: units of each client since the beginning
          raced,     \* history: processes whose socket another start-up may take for dead
          alone,     \* history: no two processes were past bind_listener() at once
          crashes, failures, requests

process == <<pc, listed, backend, attached, enforcer, policies, counted, batch>>
bounds == <<crashes, failures, requests>>
history == <<raced, alone>>
vars == <<socket, process, redis, traffic, history, bounds>>

Versions == {Version[p] : p \in Procs}

ASSUME LifecycleAssumption ==
  /\ None \notin Procs \cup Versions
  /\ "stale" \notin Procs
  /\ Mode \in [Procs -> {"enforce", "permissive"}]
  /\ Ifaces # {}
  /\ MaxCrashes \in Nat /\ MaxFailures \in Nat /\ MaxUnits \in Nat /\ MaxRequests \in Nat

NoPolicies == [c \in Clients |-> None]
NoUnits == [c \in Clients |-> 0]

\* The steps of run() between the claim and the first worker thread.
Opening == {"get_schema", "discard", "delete", "stamp"}
Bound == Opening \cup {"hydrate", "attach", "up"}

Init ==
  /\ socket = None
  /\ pc = [p \in Procs |-> "off"]
  /\ listed = [p \in Procs |-> {}]
  /\ backend = [p \in Procs |-> "redis"]
  /\ attached = [p \in Procs |-> {}]
  /\ enforcer = [p \in Procs |-> "permissive"]
  /\ policies = [p \in Procs |-> NoPolicies]
  /\ counted = [p \in Procs |-> NoUnits]
  /\ batch = [p \in Procs |-> NoPolicies]
  /\ redis = [schema |-> None, policy |-> NoPolicies, stats |-> NoPolicies]
  /\ traffic = NoUnits
  /\ raced = {} /\ alone = TRUE
  /\ crashes = 0 /\ failures = 0 /\ requests = 0

Goto(p, step) == pc' = [pc EXCEPT ![p] = step]

\* The process ends, by `?' in main() or by a signal: its memory and its XDP links go,
\* the path of its socket stays.
Exit(p) ==
  /\ Goto(p, "off")
  /\ socket' = IF socket = p THEN "stale" ELSE socket
  /\ listed' = [listed EXCEPT ![p] = {}]
  /\ attached' = [attached EXCEPT ![p] = {}]
  /\ policies' = [policies EXCEPT ![p] = NoPolicies]
  /\ counted' = [counted EXCEPT ![p] = NoUnits]
  /\ batch' = [batch EXCEPT ![p] = NoPolicies]
  /\ raced' = raced \ {p}
  /\ UNCHANGED <<backend, enforcer, alone>>

Crash(p) ==
  /\ crashes < MaxCrashes /\ pc[p] # "off"
  /\ Exit(p)
  /\ crashes' = crashes + 1
  /\ UNCHANGED <<redis, traffic, failures, requests>>

Failure == failures < MaxFailures /\ failures' = failures + 1

(***************************************************************************)
(* bind_listener().  The library connects to the path: one that answers is *)
(* refused, one that does not is removed, and the path is bound, which     *)
(* fails if it exists again.  Between any two of these calls other start-  *)
(* ups make theirs; a socket answers once it listens.                      *)
(***************************************************************************)
rest == <<listed, backend, attached, enforcer, policies, counted, batch, redis, traffic, bounds>>

Unanswered == socket = "stale" \/ \E r \in Procs : socket = r /\ pc[r] = "listen"

Probe(p) ==
  /\ pc[p] = "off"
  /\ \/ socket = None /\ Goto(p, "bind") /\ UNCHANGED raced
     \/ Unanswered /\ Goto(p, "unlink") /\ raced' = raced \cup ({socket} \cap Procs)
  /\ UNCHANGED <<socket, alone, rest>>

\* Whatever is at the path now is removed.  If another start-up was quicker there is
\* nothing: the library may go on or give up.
Unlink(p) ==
  /\ pc[p] = "unlink"
  /\ socket' = None
  /\ Goto(p, "bind") \/ (socket = None /\ Goto(p, "off"))
  /\ UNCHANGED <<history, rest>>

\* Mutant: whatever is at the path is replaced.
BindReplaces(p) ==
  /\ pc[p] = "bind"
  /\ socket' = p
  /\ Goto(p, "listen")
  /\ UNCHANGED <<history, rest>>

\* A start-up that has yet to unlink found the path dead before this process bound it.
Bind(p) ==
  /\ pc[p] = "bind"
  /\ IF socket = None
     THEN /\ socket' = p /\ Goto(p, "listen")
          /\ raced' = IF \E q \in Procs : pc[q] = "unlink" THEN raced \cup {p} ELSE raced
     ELSE Goto(p, "off") /\ UNCHANGED <<socket, raced>>
  /\ UNCHANGED <<alone, rest>>

Listen(p) ==
  /\ pc[p] = "listen"
  /\ Goto(p, "get_schema")
  /\ alone' = (alone /\ \A q \in Procs : pc[q] \notin Bound)
  /\ UNCHANGED <<socket, raced, rest>>

(***************************************************************************)
(* open_redis(): the commands of ensure_schema().                          *)
(***************************************************************************)
Command(p, to, keys, db) ==
  /\ Goto(p, to)
  /\ listed' = [listed EXCEPT ![p] = keys]
  /\ redis' = db
  /\ UNCHANGED <<socket, backend, attached, enforcer, policies, counted, batch, traffic, history, bounds>>

\* Mutant: the stored text never equals the number.
AfterGetNeverEqual(p) == IF redis.schema = None THEN "stamp" ELSE "discard"

AfterGet(p) == IF redis.schema = None THEN "stamp"
               ELSE IF redis.schema = Version[p] THEN "hydrate" ELSE "discard"

GetSchema(p) == pc[p] = "get_schema" /\ Command(p, AfterGet(p), {}, redis)

\* A key of the database: its kind and, except for the schema version, its client.
Keys(db) ==
  {<<"policy", c>> : c \in {d \in Clients : db.policy[d] # None}}
    \cup {<<"stats", c>> : c \in {d \in Clients : db.stats[d] # None}}
    \cup (IF db.schema # None THEN {<<"schema", None>>} ELSE {})

Without(db, keys) ==
  [schema |-> IF <<"schema", None>> \in keys THEN None ELSE db.schema,
   policy |-> [c \in Clients |-> IF <<"policy", c>> \in keys THEN None ELSE db.policy[c]],
   stats  |-> [c \in Clients |-> IF <<"stats", c>> \in keys THEN None ELSE db.stats[c]]]

\* Mutant: the new version is written before the old keys are gone.
ListAllStamped(p) ==
  pc[p] = "discard" /\ Command(p, "delete", Keys(redis) \ {<<"schema", None>>},
                               [redis EXCEPT !.schema = Version[p]])

ListAll(p) == pc[p] = "discard" /\ Command(p, "delete", Keys(redis), redis)

Delete(p) == pc[p] = "delete" /\ Command(p, "stamp", {}, Without(redis, listed[p]))

Stamp(p) == pc[p] = "stamp" /\ Command(p, "hydrate", {}, [redis EXCEPT !.schema = Version[p]])

\* What Redis holds after the command the process is about to send.
Effect(p) == IF pc[p] = "delete" THEN Without(redis, listed[p])
             ELSE IF pc[p] = "stamp" THEN [redis EXCEPT !.schema = Version[p]]
             ELSE redis

\* No connection, or any command failing with or without its effect: the daemon
\* goes on with a MemoryStore and nothing to hydrate.
OpenFails(p) ==
  /\ pc[p] \in Opening /\ Failure
  /\ Goto(p, "attach")
  /\ backend' = [backend EXCEPT ![p] = "memory"]
  /\ listed' = [listed EXCEPT ![p] = {}]
  /\ redis' \in {redis, Effect(p)}
  /\ UNCHANGED <<socket, attached, enforcer, policies, counted, batch, traffic, history, crashes, requests>>

Hydrate(p) ==
  /\ pc[p] = "hydrate"
  /\ Goto(p, "attach")
  /\ backend' = [backend EXCEPT ![p] = "redis"]
  /\ policies' = [policies EXCEPT ![p] = redis.policy]
  /\ UNCHANGED <<socket, listed, attached, enforcer, counted, batch, redis, traffic, history, bounds>>

\* Once Redis is open its errors end the start-up.
HydrateFails(p) ==
  /\ pc[p] = "hydrate" /\ Failure
  /\ Exit(p)
  /\ UNCHANGED <<redis, traffic, crashes, requests>>

(***************************************************************************)
(* load_and_attach() of a build with eBPF: one interface after the other.  *)
(***************************************************************************)
Attach(p, i) ==
  /\ pc[p] = "attach" /\ Mode[p] = "enforce"
  /\ i \in Ifaces \ attached[p]
  /\ attached' = [attached EXCEPT ![p] = @ \cup {i}]
  /\ UNCHANGED <<socket, pc, listed, backend, enforcer, policies, counted, batch, redis,
                 traffic, history, bounds>>

LaunchBpf(p) ==
  /\ pc[p] = "attach" /\ Mode[p] = "enforce"
  /\ attached[p] = Ifaces
  /\ enforcer' = [enforcer EXCEPT ![p] = "bpf"]
  /\ Goto(p, "up")
  /\ UNCHANGED <<socket, listed, backend, attached, policies, counted, batch, redis,
                 traffic, history, bounds>>

\* Mutant: the object is forgotten before the loop is through.
LaunchPermissiveLeaks(p) ==
  /\ pc[p] = "attach"
  /\ IF Mode[p] = "enforce" THEN Failure ELSE UNCHANGED failures
  /\ enforcer' = [enforcer EXCEPT ![p] = "permissive"]
  /\ Goto(p, "up")
  /\ UNCHANGED <<socket, listed, backend, attached, policies, counted, batch, redis,
                 traffic, history, crashes, requests>>

\* Permissive mode, or a program, attachment or map that fails: the object is
\* dropped and with it the links made so far.
LaunchPermissive(p) ==
  /\ pc[p] = "attach"
  /\ IF Mode[p] = "enforce" THEN Failure ELSE UNCHANGED failures
  /\ attached' = [attached EXCEPT ![p] = {}]
  /\ enforcer' = [enforcer EXCEPT ![p] = "permissive"]
  /\ Goto(p, "up")
  /\ UNCHANGED <<socket, listed, backend, policies, counted, batch, redis, traffic,
                 history, crashes, requests>>

Startup(p) == \/ Probe(p) \/ Unlink(p) \/ Bind(p) \/ Listen(p)
              \/ GetSchema(p) \/ ListAll(p) \/ Delete(p) \/ Stamp(p) \/ OpenFails(p)
              \/ Hydrate(p) \/ HydrateFails(p)
              \/ (\E i \in Ifaces : Attach(p, i)) \/ LaunchBpf(p) \/ LaunchPermissive(p)

(***************************************************************************)
(* The running daemon                                                      *)
(***************************************************************************)
\* A request that sets (value: this version) or clears (None) a manual policy:
\* memory first, then the key, which may fail with or without effect.
Request(p, c, value) ==
  /\ pc[p] = "up" /\ requests < MaxRequests
  /\ requests' = requests + 1
  /\ policies' = [policies EXCEPT ![p][c] = value]
  /\ LET written == [redis EXCEPT !.policy[c] = value]
     IN \/ backend[p] = "memory" /\ UNCHANGED <<redis, failures>>
        \/ backend[p] = "redis" /\ redis' = written /\ UNCHANGED failures
        \/ backend[p] = "redis" /\ redis' \in {redis, written} /\ Failure
  /\ UNCHANGED <<socket, pc, listed, backend, attached, enforcer, counted, batch, traffic,
                 history, crashes>>

Total(units) == LET Of(c) == units[c] IN MapThenSumSet(Of, Clients)

\* A frame is counted by the sniffer of every process that runs.
Count(c) ==
  /\ Total(traffic) < MaxUnits
  /\ \E p \in Procs : pc[p] = "up"
  /\ counted' = [p \in Procs |-> IF pc[p] = "up" THEN [counted[p] EXCEPT ![c] = @ + 1] ELSE counted[p]]
  /\ traffic' = [traffic EXCEPT ![c] = @ + 1]
  /\ UNCHANGED <<socket, pc, listed, backend, attached, enforcer, policies, batch, redis, history, bounds>>

Writing(p) == {c \in Clients : batch[p][c] # None}

\* Mutant: only what no snapshot has written yet.
SnapshotChanged(p) ==
  [c \in Clients |-> IF counted[p][c] = 0 \/ redis.stats[c] # None THEN None ELSE counted[p][c]]

\* snapshot_clients(): the clients with an entry.
Snapshot(p) == [c \in Clients |-> IF counted[p][c] = 0 THEN None ELSE counted[p][c]]

\* run(): every stats_snapshot_secs the totals are cloned; equal ones are written again.
SnapshotStats(p) ==
  /\ pc[p] = "up" /\ Writing(p) = {}
  /\ batch' = [batch EXCEPT ![p] = Snapshot(p)]
  /\ UNCHANGED <<socket, pc, listed, backend, attached, enforcer, policies, counted, redis,
                 traffic, history, bounds>>

\* Mutant: totals are added to the stored ones.
StoredAdded(p, c) == batch[p][c] + IF redis.stats[c] = None THEN 0 ELSE redis.stats[c]

Stored(p, c) == batch[p][c]

\* One SET of put_batch(), in the order of a HashMap.
PutStats(p, c) ==
  /\ pc[p] = "up" /\ c \in Writing(p)
  /\ redis' = IF backend[p] = "redis" THEN [redis EXCEPT !.stats[c] = Stored(p, c)] ELSE redis
  /\ batch' = [batch EXCEPT ![p][c] = None]
  /\ UNCHANGED <<socket, pc, listed, backend, attached, enforcer, policies, counted, traffic, history, bounds>>

\* A SET fails: the rest of the batch is given up until the next snapshot.
PutFails(p) ==
  /\ pc[p] = "up" /\ Writing(p) # {} /\ backend[p] = "redis" /\ Failure
  /\ batch' = [batch EXCEPT ![p] = NoPolicies]
  /\ UNCHANGED <<socket, pc, listed, backend, attached, enforcer, policies, counted, redis,
                 traffic, history, crashes, requests>>

Put(p) == \E c \in Clients : PutStats(p, c)

Step(p) ==
  \/ Startup(p) \/ Crash(p)
  \/ \E c \in Clients, v \in {Version[p], None} : Request(p, c, v)
  \/ SnapshotStats(p) \/ Put(p) \/ PutFails(p)

Next == (\E p \in Procs : Step(p)) \/ (\E c \in Clients : Count(c))

Spec == Init /\ [][Next]_vars

\* The decision loop takes its snapshots again and again and Redis answers; whether
\* a process is started, killed or asked for anything is open.
FairSpec == Spec /\ \A p \in Procs : WF_vars(SnapshotStats(p)) /\ WF_vars(Put(p))

-----------------------------------------------------------------------------
(***************************************************************************)
(* Properties                                                              *)
(***************************************************************************)

\* A process that is past bind_listener() answers at the path until it ends, so that
\* every other start-up is refused ("refuse if another daemon is already live"), unless
\* a start-up that had found the path dead was still about to remove it.
OneDaemon == \A p \in Procs \ raced : pc[p] \in Bound => socket = p

\* As long as no two daemons ran at once, a process holds only policies of its own
\* schema version, whatever processes of other versions left in Redis and wherever in
\* ensure_schema() they died.
NeverMisreads ==
  alone => \A p \in Procs, c \in Clients : policies[p][c] \in {None, Version[p]}

\* As long as no two daemons ran at once, a policy key leaves Redis only on request or
\* because a process of another version than the one that wrote it starts: a restart of
\* the same version, also one that dies during the start-up, keeps it.
DiscardsOnlyForeign ==
  [][\A c \in Clients : alone /\ redis.policy[c] # None /\ redis'.policy[c] = None =>
       \/ requests' = requests + 1
       \/ \E p \in Procs : pc[p] = "delete" /\ Version[p] # redis.policy[c]]_vars

\* The XDP program is on all interfaces or on none, and there only with the
\* enforcer that knows of it: an attachment that fails midway takes the others back.
AttachedWhole ==
  \A p \in Procs :
    /\ pc[p] = "up" => attached[p] = IF enforcer[p] = "bpf" THEN Ifaces ELSE {}
    /\ pc[p] \notin {"attach", "up"} => attached[p] = {}

\* Stored totals never exceed what the client really sent, over all lives of the
\* daemon: no snapshot is counted twice (snapshot_stats, put_batch).
StatsWithinTraffic ==
  \A c \in Clients : redis.stats[c] # None => redis.stats[c] <= traffic[c]

\* As long as a process keeps running on Redis and is the only one, what is stored for
\* a client comes to include what this process counted, although a failed snapshot is
\* not repeated and may have been written in part (run, put_batch).  Nothing is said of
\* the totals of earlier lives: the documentation adds them, the code overwrites them.
StatsCatchUp ==
  \A p \in Procs :
    <>[](pc[p] = "up" /\ backend[p] = "redis" /\ alone)
      => <>[](\A c \in Clients :
                counted[p][c] # 0 => redis.stats[c] # None /\ redis.stats[c] >= counted[p][c])
=============================================================================
