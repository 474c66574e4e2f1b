-------------------------- MODULE LifecycleProofs ---------------------------
(***************************************************************************)
(* Start-up, death and restart for any number of processes, versions,      *)
(* clients and interfaces.                                                 *)
(***************************************************************************)
EXTENDS Lifecycle, TLAPS

(***************************************************************************)
(* The inductive invariant                                                 *)
(***************************************************************************)
Database == [schema : Versions \cup {None},
             policy : [Clients -> Versions \cup {None}],
             stats  : [Clients -> Nat \cup {None}]]

TypeOK ==
  /\ socket \in Procs \cup {None, "stale"}
  /\ pc \in [Procs -> Bound \cup {"off", "unlink", "bind", "listen"}]
  /\ listed \in [Procs -> SUBSET ({"policy", "stats", "schema"} \X (Clients \cup {None}))]
  /\ backend \in [Procs -> {"redis", "memory"}]
  /\ attached \in [Procs -> SUBSET Ifaces]
  /\ enforcer \in [Procs -> {"bpf", "permissive"}]
  /\ policies \in [Procs -> [Clients -> Versions \cup {None}]]
  /\ counted \in [Procs -> [Clients -> Nat]]
  /\ batch \in [Procs -> [Clients -> Nat \cup {None}]]
  /\ redis \in Database
  /\ traffic \in [Clients -> Nat]
  /\ raced \in SUBSET Procs /\ alone \in BOOLEAN
  /\ crashes \in Nat /\ failures \in Nat /\ requests \in Nat

\* A process that bound the path while no start-up was about to remove it holds it, and
\* no start-up comes to the point of removing it.
HoldsSocket ==
  \A p \in Procs \ raced :
    pc[p] \in Bound \cup {"listen"} => socket = p /\ \A q \in Procs : pc[q] # "unlink"

\* At most one process is past bind_listener().
AtMostOne == \A p, q \in Procs : pc[p] \in Bound /\ pc[q] \in Bound => p = q

\* The stored version is the version of every stored policy.
SchemaDescribes ==
  \A c \in Clients : redis.policy[c] # None => redis.schema = redis.policy[c]

\* What a process that is at a step of ensure_schema(), or past it on Redis, may
\* rely on.
SchemaStep(p) ==
  /\ pc[p] \in {"discard", "delete"} => redis.schema # Version[p]
  /\ pc[p] = "delete" => listed[p] = Keys(redis)
  /\ pc[p] = "stamp" => \A c \in Clients : redis.policy[c] = None
  /\ pc[p] = "hydrate" => redis.schema = Version[p]
  /\ pc[p] \in {"attach", "up"} /\ backend[p] = "redis" => redis.schema = Version[p]

\* Counters of a process are part of the traffic, and a snapshot is part of the counters.
CountsPart ==
  \A p \in Procs, c \in Clients :
    /\ counted[p][c] <= traffic[c]
    /\ batch[p][c] # None => batch[p][c] <= counted[p][c]

OwnPolicies == \A p \in Procs, c \in Clients : policies[p][c] \in {None, Version[p]}

\* What the version key promises as long as the commands of one process are not mixed
\* with those of another.
SchemaInv == SchemaDescribes /\ (\A p \in Procs : SchemaStep(p)) /\ OwnPolicies

Inv ==
  /\ TypeOK
  /\ HoldsSocket
  /\ alone => AtMostOne /\ SchemaInv
  /\ AttachedWhole
  /\ CountsPart
  /\ StatsWithinTraffic

(***************************************************************************)
(* Types                                                                   *)
(***************************************************************************)
\* What the commands of ensure_schema() and a request make of the database.
LEMMA DatabaseTypes ==
  ASSUME TypeOK, NEW p \in Procs
  PROVE  /\ Version[p] \in Versions
         /\ Keys(redis) \in SUBSET ({"policy", "stats", "schema"} \X (Clients \cup {None}))
         /\ \A keys : Without(redis, keys) \in Database
         /\ [redis EXCEPT !.schema = Version[p]] \in Database
         /\ Effect(p) \in Database
  <1>1. Version[p] \in Versions
    BY DEF Versions
  <1>2. Keys(redis) \in SUBSET ({"policy", "stats", "schema"} \X (Clients \cup {None}))
    BY DEF Keys
  <1>3. \A keys : Without(redis, keys) \in Database
    BY DEF Without, TypeOK, Database
  <1>4. [redis EXCEPT !.schema = Version[p]] \in Database
    BY <1>1 DEF TypeOK, Database
  <1>5. Effect(p) \in Database
    BY <1>3, <1>4 DEF Effect, TypeOK
  <1>6. QED BY <1>1, <1>2, <1>3, <1>4, <1>5

\* A dead process has the memory of one that never ran.
LEMMA ExitTypes ==
  ASSUME TypeOK, NEW p \in Procs, Exit(p), UNCHANGED <<redis, traffic>>,
         crashes' \in Nat, failures' \in Nat, requests' \in Nat
  PROVE  TypeOK'
  <1>1. /\ NoPolicies \in [Clients -> Versions \cup {None}]
        /\ NoPolicies \in [Clients -> Nat \cup {None}]
        /\ NoUnits \in [Clients -> Nat]
    BY DEF NoPolicies, NoUnits
  <1>2. QED BY <1>1 DEF Exit, Goto, TypeOK

\* Every variable keeps its type.
LEMMA TypeStep == TypeOK /\ [Next]_vars => TypeOK'
  <1> SUFFICES ASSUME TypeOK, Next PROVE TypeOK'
    BY DEF TypeOK, vars, process, bounds, history
  <1>count. ASSUME NEW c \in Clients, Count(c) PROVE TypeOK'
    <2>1. \A q \in Procs : [counted[q] EXCEPT ![c] = @ + 1] \in [Clients -> Nat]
      BY DEF TypeOK
    <2>2. counted' \in [Procs -> [Clients -> Nat]]
      BY <1>count, <2>1 DEF Count, TypeOK
    <2>3. traffic' \in [Clients -> Nat]
      BY <1>count DEF Count, TypeOK
    <2>4. QED BY <1>count, <2>2, <2>3 DEF Count, TypeOK, bounds, history
  <1>1. SUFFICES ASSUME NEW p \in Procs, Step(p) PROVE TypeOK'
    BY <1>count DEF Next
  <1>2. CASE Probe(p) \/ Unlink(p) \/ Bind(p) \/ Listen(p)
    <2>1. /\ UNCHANGED rest
          /\ pc' \in [Procs -> Bound \cup {"off", "unlink", "bind", "listen"}]
      BY <1>2 DEF Probe, Unlink, Bind, Listen, Goto, TypeOK, Bound, Opening
    <2>2. socket' \in Procs \cup {None, "stale"} /\ raced' \in SUBSET Procs
      BY <1>2 DEF Probe, Unlink, Bind, Listen, TypeOK, history
    <2>3. alone' \in BOOLEAN
      BY <1>2 DEF Probe, Unlink, Bind, Listen, TypeOK, history
    <2>4. QED BY <2>1, <2>2, <2>3 DEF rest, TypeOK, bounds
  <1>3. CASE GetSchema(p)
    <2>1. AfterGet(p) \in Bound
      BY DEF AfterGet, Bound, Opening
    <2>2. QED BY <1>3, <2>1 DEF GetSchema, Command, Goto, TypeOK, bounds, history
  <1>4. CASE ListAll(p) \/ Delete(p) \/ Stamp(p)
    <2>1. {"delete", "stamp", "hydrate"} \subseteq Bound
      BY DEF Bound, Opening
    <2>2. \A to \in Bound, keys \in SUBSET ({"policy", "stats", "schema"} \X (Clients \cup {None})),
             db \in Database : Command(p, to, keys, db) => TypeOK'
      BY DEF Command, Goto, TypeOK, bounds, history
    <2>3. QED BY <1>4, <2>1, <2>2, DatabaseTypes DEF ListAll, Delete, Stamp, TypeOK
  <1>5. CASE OpenFails(p)
    <2>1. "attach" \in Bound
      BY DEF Bound
    <2>2. redis' \in Database
      BY <1>5, DatabaseTypes DEF OpenFails, TypeOK
    <2>3. QED BY <1>5, <2>1, <2>2 DEF OpenFails, Goto, Failure, TypeOK, history
  <1>6. CASE Hydrate(p)
    BY <1>6 DEF Hydrate, Goto, TypeOK, Database, bounds, history, Bound
  <1>7. CASE HydrateFails(p)
    <2>1. crashes' \in Nat /\ failures' \in Nat /\ requests' \in Nat
      BY <1>7 DEF HydrateFails, Failure, TypeOK
    <2>2. QED BY <1>7, <2>1, ExitTypes DEF HydrateFails
  <1>8. CASE Crash(p)
    <2>1. crashes' \in Nat /\ failures' \in Nat /\ requests' \in Nat
      BY <1>8 DEF Crash, TypeOK
    <2>2. QED BY <1>8, <2>1, ExitTypes DEF Crash
  <1>9. ASSUME NEW i \in Ifaces, Attach(p, i) PROVE TypeOK'
    BY <1>9 DEF Attach, TypeOK, bounds, history
  <1>10. CASE LaunchBpf(p)
    BY <1>10 DEF LaunchBpf, Goto, TypeOK, bounds, history, Bound
  <1>11. CASE LaunchPermissive(p)
    BY <1>11 DEF LaunchPermissive, Goto, Failure, TypeOK, Bound, history
  <1>13. ASSUME NEW c \in Clients, NEW v \in {Version[p], None}, Request(p, c, v) PROVE TypeOK'
    <2>1. v \in Versions \cup {None}
      BY DatabaseTypes
    <2>2. policies' \in [Procs -> [Clients -> Versions \cup {None}]]
      BY <1>13, <2>1 DEF Request, TypeOK
    <2>3. redis' \in Database
      <3>1. redis' \in {redis, [redis EXCEPT !.policy[c] = v]}
        BY <1>13 DEF Request
      <3>2. [redis EXCEPT !.policy[c] = v] \in Database
        BY <2>1 DEF TypeOK, Database
      <3>3. QED BY <3>1, <3>2 DEF TypeOK
    <2>4. requests' \in Nat /\ failures' \in Nat
      BY <1>13 DEF Request, Failure, TypeOK
    <2>5. QED BY <1>13, <2>2, <2>3, <2>4 DEF Request, TypeOK, history
  <1>14. CASE SnapshotStats(p)
    <2>1. Snapshot(p) \in [Clients -> Nat \cup {None}]
      BY DEF Snapshot, TypeOK
    <2>2. QED BY <1>14, <2>1 DEF SnapshotStats, TypeOK, bounds, history
  <1>15. CASE Put(p)
    <2>1. PICK c \in Clients : PutStats(p, c)
      BY <1>15 DEF Put
    <2>2. redis' \in Database
      <3>1. batch[p][c] \in Nat \cup {None}
        BY DEF TypeOK
      <3>2. [redis EXCEPT !.stats[c] = batch[p][c]] \in Database
        BY <3>1 DEF TypeOK, Database
      <3>3. QED BY <2>1, <3>2 DEF PutStats, Stored, TypeOK
    <2>3. batch' \in [Procs -> [Clients -> Nat \cup {None}]]
      BY <2>1 DEF PutStats, TypeOK
    <2>4. QED BY <2>1, <2>2, <2>3 DEF PutStats, TypeOK, bounds, history
  <1>16. CASE PutFails(p)
    <2>1. NoPolicies \in [Clients -> Nat \cup {None}]
      BY DEF NoPolicies
    <2>2. QED BY <1>16, <2>1 DEF PutFails, Failure, TypeOK, history
  <1>17. QED
    BY <1>1, <1>2, <1>3, <1>4, <1>5, <1>6, <1>7, <1>8, <1>9, <1>10, <1>11, <1>13, <1>14,
       <1>15, <1>16 DEF Step, Startup

(***************************************************************************)
(* The socket path is the lock that keeps the processes apart, except for  *)
(* the start-ups that race.                                                *)
(***************************************************************************)
\* A start-up refuses a path that answers, so nobody comes to remove the path of a
\* process that bound it undisturbed.
LEMMA SocketStep ==
  ASSUME TypeOK, HoldsSocket, Next
  PROVE  HoldsSocket'
  <1>1. ASSUME UNCHANGED <<socket, pc, raced>> PROVE HoldsSocket'
    BY <1>1 DEF HoldsSocket
  <1>2. SUFFICES ASSUME NEW p \in Procs, Step(p) PROVE HoldsSocket'
    BY <1>1 DEF Next, Count, history
  <1> DEFINE Holder(q) == q \in Procs \ raced /\ pc[q] \in Bound \cup {"listen"}
  <1>3. \A q : Holder(q) => socket = q /\ \A r \in Procs : pc[r] # "unlink"
    BY DEF HoldsSocket
  <1>4. CASE Exit(p)
    <2>1. /\ pc' = [pc EXCEPT ![p] = "off"] /\ raced' = raced \ {p}
          /\ socket # p => socket' = socket
      BY <1>4 DEF Exit, Goto
    <2>2. ASSUME NEW q \in Procs \ raced', pc'[q] \in Bound \cup {"listen"}
          PROVE  socket' = q /\ \A r \in Procs : pc'[r] # "unlink"
      <3>1. q # p /\ Holder(q)
        BY <2>1, <2>2 DEF TypeOK, Bound, Opening
      <3>2. QED BY <1>3, <2>1, <3>1 DEF TypeOK
    <2>3. QED BY <2>2 DEF HoldsSocket
  <1>5. CASE Probe(p)
    <2>1. CASE socket = None /\ Goto(p, "bind") /\ UNCHANGED raced
      <3>1. \A q : ~Holder(q)
        BY <1>3, <2>1, LifecycleAssumption
      <3>2. raced' = raced /\ pc' = [pc EXCEPT ![p] = "bind"]
        BY <2>1 DEF Goto
      <3>3. QED BY <3>1, <3>2 DEF HoldsSocket, TypeOK, Bound, Opening
    <2>2. CASE Goto(p, "unlink") /\ raced' = raced \cup ({socket} \cap Procs)
      <3>1. /\ pc' = [pc EXCEPT ![p] = "unlink"] /\ raced' = raced \cup ({socket} \cap Procs)
        BY <2>2 DEF Goto
      <3>2. \A q : Holder(q) => q \in raced'
        BY <1>3, <3>1
      <3>3. QED BY <3>1, <3>2 DEF HoldsSocket, TypeOK, Bound, Opening
    <2>3. QED BY <1>5, <2>1, <2>2 DEF Probe
  <1>6. CASE Unlink(p)
    <2>1. \A q : ~Holder(q)
      BY <1>3, <1>6 DEF Unlink
    <2>2. raced' = raced /\ \E s \in {"bind", "off"} : pc' = [pc EXCEPT ![p] = s]
      BY <1>6 DEF Unlink, Goto, history
    <2>3. QED BY <2>1, <2>2 DEF HoldsSocket, TypeOK, Bound, Opening
  <1>7. CASE Bind(p)
    <2>1. CASE socket = None
      <3>1. \A q : ~Holder(q)
        BY <1>3, <2>1, LifecycleAssumption
      <3>2. /\ socket' = p /\ pc' = [pc EXCEPT ![p] = "listen"]
            /\ raced' = IF \E q \in Procs : pc[q] = "unlink" THEN raced \cup {p} ELSE raced
        BY <1>7, <2>1 DEF Bind, Goto
      <3>3. ASSUME NEW q \in Procs \ raced', pc'[q] \in Bound \cup {"listen"}
            PROVE  socket' = q /\ \A r \in Procs : pc'[r] # "unlink"
        <4>1. q = p
          BY <3>1, <3>2, <3>3 DEF TypeOK
        <4>2. QED BY <3>2, <3>3, <4>1 DEF TypeOK
      <3>4. QED BY <3>3 DEF HoldsSocket
    <2>2. CASE socket # None
      <3>1. UNCHANGED <<socket, raced>> /\ pc' = [pc EXCEPT ![p] = "off"]
        BY <1>7, <2>2 DEF Bind, Goto
      <3>2. QED BY <3>1 DEF HoldsSocket, TypeOK, Bound, Opening
    <2>3. QED BY <2>1, <2>2
  <1>8. ASSUME UNCHANGED <<socket, raced>>, pc[p] \in Bound \cup {"listen"},
               NEW s, s # "unlink", Goto(p, s)
        PROVE  HoldsSocket'
    <2>1. /\ \A q \in Procs : pc'[q] \in Bound \cup {"listen"} => pc[q] \in Bound \cup {"listen"}
          /\ \A q \in Procs : pc'[q] = "unlink" => pc[q] = "unlink"
      BY <1>8 DEF Goto, TypeOK
    <2>2. QED BY <1>8, <2>1 DEF HoldsSocket
  <1>9. CASE Listen(p) \/ GetSchema(p) \/ ListAll(p) \/ Delete(p) \/ Stamp(p) \/ OpenFails(p)
               \/ Hydrate(p) \/ LaunchBpf(p) \/ LaunchPermissive(p)
    <2>1. AfterGet(p) # "unlink"
      BY DEF AfterGet
    <2>2. QED
      BY <1>8, <1>9, <2>1 DEF Listen, GetSchema, ListAll, Delete, Stamp, Command, OpenFails, Hydrate,
         LaunchBpf, LaunchPermissive, Bound, Opening, history
  <1>10. QED
    BY <1>1, <1>2, <1>4, <1>5, <1>6, <1>7, <1>9
       DEF Step, Startup, Crash, HydrateFails, Attach, Request, SnapshotStats, Put, PutStats,
           PutFails, history

\* Listen is the only way past bind_listener(), and it notes whether somebody is there.
LEMMA AloneStep ==
  ASSUME TypeOK, alone => AtMostOne, Next, alone'
  PROVE  alone /\ AtMostOne /\ AtMostOne'
  <1>1. ASSUME UNCHANGED <<pc, alone>> PROVE alone /\ AtMostOne /\ AtMostOne'
    BY <1>1 DEF AtMostOne
  <1>2. SUFFICES ASSUME NEW p \in Procs, Step(p) PROVE alone /\ AtMostOne /\ AtMostOne'
    BY <1>1 DEF Next, Count, history
  <1>3. CASE Listen(p)
    <2>1. alone /\ (\A q \in Procs : pc[q] \notin Bound) /\ pc' = [pc EXCEPT ![p] = "get_schema"]
      BY <1>3 DEF Listen, Goto
    <2>2. QED BY <2>1 DEF AtMostOne, TypeOK
  <1>4. ASSUME UNCHANGED alone, NEW s, Goto(p, s), s \notin Bound \/ pc[p] \in Bound
        PROVE  alone /\ AtMostOne /\ AtMostOne'
    <2>1. \A q \in Procs : pc'[q] \in Bound => pc[q] \in Bound
      BY <1>4 DEF Goto, TypeOK
    <2>2. QED BY <1>4, <2>1 DEF AtMostOne
  <1>5. CASE Exit(p) \/ Probe(p) \/ Unlink(p) \/ Bind(p)
    BY <1>4, <1>5 DEF Exit, Probe, Unlink, Bind, history, Bound, Opening
  <1>6. CASE GetSchema(p) \/ ListAll(p) \/ Delete(p) \/ Stamp(p) \/ OpenFails(p)
               \/ Hydrate(p) \/ LaunchBpf(p) \/ LaunchPermissive(p)
    BY <1>4, <1>6 DEF GetSchema, ListAll, Delete, Stamp, Command, OpenFails, Hydrate,
       LaunchBpf, LaunchPermissive, Bound, Opening, history
  <1>7. QED
    BY <1>1, <1>2, <1>3, <1>5, <1>6
       DEF Step, Startup, Crash, HydrateFails, Attach, Request, SnapshotStats, Put, PutStats,
           PutFails, history

(***************************************************************************)
(* The schema version                                                      *)
(***************************************************************************)
\* A step of process p: the memory of the others stays as it is.
Only(p) ==
  \A q \in Procs \ {p} : /\ pc'[q] = pc[q] /\ listed'[q] = listed[q]
                         /\ backend'[q] = backend[q] /\ policies'[q] = policies[q]

\* Only a process past bind_listener() sends commands, so as long as there is one at most
\* what the others rely on stays true: nobody else is at a step that relies on anything.
LEMMA SchemaFrame ==
  ASSUME AtMostOne, SchemaInv, NEW p \in Procs, Only(p),
         UNCHANGED redis \/ pc[p] \in Bound,
         SchemaDescribes', SchemaStep(p)',
         \A c \in Clients : policies'[p][c] \in {None, Version[p]}
  PROVE  SchemaInv'
  <1>1. ASSUME NEW q \in Procs, q # p PROVE SchemaStep(q)'
    <2>1. CASE UNCHANGED redis
      BY <1>1, <2>1 DEF Only, SchemaInv, SchemaStep, Keys
    <2>2. CASE pc[p] \in Bound
      <3>1. pc'[q] \notin Bound
        BY <1>1, <2>2 DEF Only, AtMostOne
      <3>2. QED BY <3>1 DEF SchemaStep, Bound, Opening
    <2>3. QED BY <2>1, <2>2
  <1>2. OwnPolicies'
    BY DEF OwnPolicies, SchemaInv, Only
  <1>3. QED BY <1>1, <1>2 DEF SchemaInv

\* ensure_schema() and what runs on top of it keep the promise of the version key,
\* wherever a process stops.
LEMMA SchemaInvStep ==
  ASSUME TypeOK, AtMostOne, SchemaInv, Next
  PROVE  SchemaInv'
  <1>idle. ASSUME UNCHANGED <<pc, listed, backend, policies, redis>> PROVE SchemaInv'
    BY <1>idle DEF SchemaInv, SchemaDescribes, SchemaStep, OwnPolicies, Keys
  <1>1. SUFFICES ASSUME NEW p \in Procs, Step(p) PROVE SchemaInv'
    BY <1>idle DEF Next, Count
  <1> DEFINE Own == \A c \in Clients : policies[p][c] \in {None, Version[p]}
  <1>2. Own /\ SchemaStep(p) /\ SchemaDescribes
    BY DEF SchemaInv, OwnPolicies
  <1>3. CASE Exit(p) /\ UNCHANGED redis
    <2>1. Only(p) /\ pc'[p] = "off" /\ policies'[p] = NoPolicies
      BY <1>3 DEF Exit, Goto, Only, TypeOK
    <2>2. SchemaStep(p)' /\ SchemaDescribes'
      BY <1>2, <1>3, <2>1 DEF SchemaStep, SchemaDescribes
    <2>3. Own'
      BY <2>1 DEF NoPolicies
    <2>4. QED BY <1>3, <2>1, <2>2, <2>3, SchemaFrame
  <1>4. CASE Probe(p) \/ Unlink(p) \/ Bind(p) \/ Listen(p)
    <2>1. /\ Only(p) /\ pc'[p] \in {"off", "unlink", "bind", "listen", "get_schema"}
          /\ UNCHANGED <<redis, policies>>
      BY <1>4 DEF Probe, Unlink, Bind, Listen, rest, Goto, Only, TypeOK
    <2>2. SchemaStep(p)' /\ SchemaDescribes' /\ Own'
      BY <1>2, <2>1 DEF SchemaStep, SchemaDescribes
    <2>3. QED BY <2>1, <2>2, SchemaFrame
  <1>5. CASE GetSchema(p)
    <2>1. Only(p) /\ pc'[p] = AfterGet(p) /\ UNCHANGED <<redis, policies>>
      BY <1>5 DEF GetSchema, Command, Goto, Only, TypeOK
    <2>2. redis.schema = None => \A c \in Clients : redis.policy[c] = None
      BY <1>2 DEF SchemaDescribes
    <2>3. SchemaStep(p)'
      BY <2>1, <2>2 DEF AfterGet, SchemaStep
    <2>4. SchemaDescribes' /\ Own'
      BY <1>2, <2>1 DEF SchemaDescribes
    <2>5. QED BY <2>1, <2>3, <2>4, SchemaFrame
  <1>6. CASE ListAll(p)
    <2>1. /\ Only(p) /\ pc[p] = "discard" /\ pc'[p] = "delete" /\ listed'[p] = Keys(redis)
          /\ UNCHANGED <<redis, policies>>
      BY <1>6 DEF ListAll, Command, Goto, Only, TypeOK
    <2>2. SchemaStep(p)'
      BY <1>2, <2>1 DEF SchemaStep, Keys
    <2>3. SchemaDescribes' /\ Own'
      BY <1>2, <2>1 DEF SchemaDescribes
    <2>4. QED BY <2>1, <2>2, <2>3, SchemaFrame
  <1>7. pc[p] = "delete" => \A c \in Clients : Without(redis, listed[p]).policy[c] = None
    BY <1>2 DEF SchemaStep, Without, Keys
  <1>8. CASE Delete(p)
    <2>1. /\ Only(p) /\ pc[p] = "delete" /\ pc'[p] = "stamp" /\ UNCHANGED policies
          /\ redis' = Without(redis, listed[p])
      BY <1>8 DEF Delete, Command, Goto, Only, TypeOK
    <2>2. \A c \in Clients : redis'.policy[c] = None
      BY <1>7, <2>1
    <2>3. SchemaStep(p)' /\ SchemaDescribes' /\ Own'
      BY <1>2, <2>1, <2>2 DEF SchemaStep, SchemaDescribes
    <2>4. pc[p] \in Bound
      BY <2>1 DEF Bound, Opening
    <2>5. QED BY <2>1, <2>3, <2>4, SchemaFrame
  <1>9. CASE Stamp(p)
    <2>1. /\ Only(p) /\ pc[p] = "stamp" /\ pc'[p] = "hydrate" /\ UNCHANGED policies
          /\ redis' = [redis EXCEPT !.schema = Version[p]]
      BY <1>9 DEF Stamp, Command, Goto, Only, TypeOK
    <2>2. redis'.schema = Version[p] /\ \A c \in Clients : redis'.policy[c] = None
      BY <1>2, <2>1 DEF SchemaStep, TypeOK, Database
    <2>3. SchemaStep(p)' /\ SchemaDescribes' /\ Own'
      BY <1>2, <2>1, <2>2 DEF SchemaStep, SchemaDescribes
    <2>4. pc[p] \in Bound
      BY <2>1 DEF Bound, Opening
    <2>5. QED BY <2>1, <2>3, <2>4, SchemaFrame
  <1>10. CASE OpenFails(p)
    <2>1. /\ Only(p) /\ pc[p] \in Bound /\ pc'[p] = "attach" /\ backend'[p] = "memory"
          /\ redis' \in {redis, Effect(p)} /\ UNCHANGED policies
      BY <1>10 DEF OpenFails, Goto, Only, TypeOK, Bound
    <2>2. pc[p] = "stamp" => \A c \in Clients : Effect(p).policy[c] = None
      BY <1>2 DEF Effect, SchemaStep, TypeOK, Database
    <2>3. pc[p] = "delete" => \A c \in Clients : Effect(p).policy[c] = None
      BY <1>7 DEF Effect
    <2>4. pc[p] \notin {"delete", "stamp"} => Effect(p) = redis
      BY DEF Effect
    <2>5. SchemaDescribes'
      BY <1>2, <2>1, <2>2, <2>3, <2>4 DEF SchemaDescribes
    <2>6. SchemaStep(p)' /\ Own'
      BY <1>2, <2>1 DEF SchemaStep
    <2>7. QED BY <2>1, <2>5, <2>6, SchemaFrame
  <1>11. CASE Hydrate(p)
    <2>1. /\ Only(p) /\ pc[p] = "hydrate" /\ pc'[p] = "attach" /\ policies'[p] = redis.policy
          /\ UNCHANGED redis
      BY <1>11 DEF Hydrate, Goto, Only, TypeOK
    <2>2. redis.schema = Version[p]
      BY <1>2, <2>1 DEF SchemaStep
    <2>3. SchemaStep(p)' /\ SchemaDescribes' /\ Own'
      BY <1>2, <2>1, <2>2 DEF SchemaStep, SchemaDescribes
    <2>4. QED BY <2>1, <2>3, SchemaFrame
  <1>12. CASE LaunchBpf(p) \/ LaunchPermissive(p)
    <2>1. /\ Only(p) /\ pc[p] = "attach" /\ pc'[p] = "up" /\ UNCHANGED <<backend, policies, redis>>
      BY <1>12 DEF LaunchBpf, LaunchPermissive, Goto, Only, TypeOK
    <2>2. SchemaStep(p)' /\ SchemaDescribes' /\ Own'
      BY <1>2, <2>1 DEF SchemaStep, SchemaDescribes
    <2>3. QED BY <2>1, <2>2, SchemaFrame
  <1>14. ASSUME NEW c \in Clients, NEW v \in {Version[p], None}, Request(p, c, v)
         PROVE  SchemaInv'
    <2>1. /\ Only(p) /\ pc[p] = "up" /\ UNCHANGED <<pc, backend>>
          /\ policies' = [policies EXCEPT ![p][c] = v]
          /\ redis' \in {redis, [redis EXCEPT !.policy[c] = v]}
          /\ backend[p] # "redis" => UNCHANGED redis
      BY <1>14 DEF Request, Only, TypeOK
    <2>2. Own'
      BY <1>2, <2>1 DEF TypeOK
    <2>3. redis'.schema = redis.schema
      BY <2>1 DEF TypeOK, Database
    <2>4. ASSUME NEW d \in Clients, redis'.policy[d] # None PROVE redis'.schema = redis'.policy[d]
      <3>1. CASE redis'.policy[d] = redis.policy[d]
        BY <1>2, <2>3, <2>4, <3>1 DEF SchemaDescribes
      <3>2. CASE redis'.policy[d] # redis.policy[d]
        <4>1. backend[p] = "redis" /\ redis'.policy[d] = v
          BY <2>1, <3>2 DEF TypeOK, Database
        <4>2. redis.schema = Version[p]
          BY <1>2, <2>1, <4>1 DEF SchemaStep
        <4>3. QED BY <2>3, <2>4, <4>1, <4>2
      <3>3. QED BY <3>1, <3>2
    <2>5. SchemaStep(p)' /\ SchemaDescribes'
      BY <1>2, <2>1, <2>3, <2>4 DEF SchemaStep, SchemaDescribes
    <2>6. pc[p] \in Bound
      BY <2>1 DEF Bound
    <2>7. QED BY <2>1, <2>2, <2>5, <2>6, SchemaFrame
  <1>15. CASE Put(p)
    <2>1. PICK c \in Clients : PutStats(p, c)
      BY <1>15 DEF Put
    <2>2. /\ Only(p) /\ pc[p] = "up" /\ UNCHANGED <<pc, backend, policies>>
          /\ redis' \in {redis, [redis EXCEPT !.stats[c] = Stored(p, c)]}
      BY <2>1 DEF PutStats, Only, TypeOK
    <2>3. redis'.schema = redis.schema /\ redis'.policy = redis.policy
      BY <2>2 DEF TypeOK, Database
    <2>4. SchemaStep(p)' /\ SchemaDescribes' /\ Own'
      BY <1>2, <2>2, <2>3 DEF SchemaStep, SchemaDescribes
    <2>5. pc[p] \in Bound
      BY <2>2 DEF Bound
    <2>6. QED BY <2>2, <2>4, <2>5, SchemaFrame
  <1>16. CASE Crash(p) \/ HydrateFails(p)
    BY <1>3, <1>16 DEF Crash, HydrateFails
  <1>17. ASSUME NEW i \in Ifaces, Attach(p, i) PROVE SchemaInv'
    BY <1>idle, <1>17 DEF Attach
  <1>19. CASE SnapshotStats(p) \/ PutFails(p)
    BY <1>idle, <1>19 DEF SnapshotStats, PutFails
  <1>20. QED
    BY <1>1, <1>4, <1>5, <1>6, <1>8, <1>9, <1>10, <1>11, <1>12, <1>14, <1>15, <1>16, <1>17, <1>19
       DEF Step, Startup

(***************************************************************************)
(* Attachment and statistics                                               *)
(***************************************************************************)
\* load_and_attach() returns with all links or without any.
LEMMA AttachedStep ==
  ASSUME TypeOK, AttachedWhole, Next
  PROVE  AttachedWhole'
  <1>idle. ASSUME UNCHANGED <<pc, attached, enforcer>> PROVE AttachedWhole'
    BY <1>idle DEF AttachedWhole
  <1>1. SUFFICES ASSUME NEW p \in Procs, Step(p) PROVE AttachedWhole'
    BY <1>idle DEF Next, Count
  <1>2. CASE Exit(p)
    BY <1>2 DEF Exit, Goto, AttachedWhole, TypeOK
  <1>4. ASSUME UNCHANGED <<attached, enforcer>>, pc[p] \notin {"attach", "up"},
               NEW s, s # "up", Goto(p, s)
        PROVE  AttachedWhole'
    BY <1>4 DEF AttachedWhole, Goto, TypeOK
  <1>5. CASE Probe(p) \/ Unlink(p) \/ Bind(p) \/ Listen(p) \/ OpenFails(p) \/ Hydrate(p)
    BY <1>4, <1>5 DEF Probe, Unlink, Bind, Listen, rest, OpenFails, Hydrate, Opening
  <1>6. CASE GetSchema(p) \/ ListAll(p) \/ Delete(p) \/ Stamp(p)
    <2>1. AfterGet(p) # "up"
      BY DEF AfterGet
    <2>2. QED BY <1>4, <1>6, <2>1 DEF GetSchema, ListAll, Delete, Stamp, Command
  <1>7. ASSUME NEW i \in Ifaces, Attach(p, i) PROVE AttachedWhole'
    BY <1>7 DEF Attach, AttachedWhole, TypeOK
  <1>8. CASE LaunchBpf(p) \/ LaunchPermissive(p)
    BY <1>8 DEF LaunchBpf, LaunchPermissive, Goto, AttachedWhole, TypeOK
  <1>9. QED
    BY <1>1, <1>2, <1>idle, <1>5, <1>6, <1>7, <1>8
       DEF Step, Startup, Crash, HydrateFails, Request, SnapshotStats, Put, PutStats, PutFails

\* Totals are copied, never added up: each copy is part of what it was copied from.
LEMMA StatsStep ==
  ASSUME TypeOK, CountsPart, StatsWithinTraffic, Next
  PROVE  CountsPart' /\ StatsWithinTraffic'
  <1>0. \A q \in Procs, d \in Clients : /\ counted[q][d] \in Nat /\ traffic[d] \in Nat
                                        /\ batch[q][d] # None => batch[q][d] \in Nat
                                        /\ redis.stats[d] # None => redis.stats[d] \in Nat
    BY DEF TypeOK, Database
  <1>count. ASSUME NEW c \in Clients, Count(c)
        PROVE  CountsPart' /\ StatsWithinTraffic'
    <2>1. UNCHANGED <<batch, redis>> /\ traffic' = [traffic EXCEPT ![c] = @ + 1]
      BY <1>count DEF Count
    <2>2. \A d \in Clients : traffic'[d] = IF d = c THEN traffic[d] + 1 ELSE traffic[d]
      BY <2>1 DEF TypeOK
    <2>3. ASSUME NEW q \in Procs, NEW d \in Clients
          PROVE  counted'[q][d] \in {counted[q][d], IF d = c THEN counted[q][d] + 1 ELSE counted[q][d]}
      <3>1. counted'[q] \in {counted[q], [counted[q] EXCEPT ![c] = @ + 1]}
        BY <1>count DEF Count
      <3>2. counted[q] \in [Clients -> Nat]
        BY DEF TypeOK
      <3>3. QED BY <3>1, <3>2
    <2>4. ASSUME NEW q \in Procs, NEW d \in Clients
          PROVE  /\ counted'[q][d] <= traffic'[d]
                 /\ batch[q][d] # None => batch[q][d] <= counted'[q][d]
      <3>1. /\ counted[q][d] <= traffic[d]
            /\ batch[q][d] # None => batch[q][d] <= counted[q][d]
        BY DEF CountsPart
      <3>2. QED BY <1>0, <2>2, <2>3, <3>1
    <2>5. ASSUME NEW d \in Clients, redis.stats[d] # None PROVE redis.stats[d] <= traffic'[d]
      <3>1. /\ redis.stats[d] \in Nat /\ traffic[d] \in Nat /\ redis.stats[d] <= traffic[d]
        BY <2>5 DEF StatsWithinTraffic, TypeOK, Database
      <3>2. QED BY <2>2, <3>1
    <2>6. StatsWithinTraffic'
      BY <2>1, <2>5 DEF StatsWithinTraffic
    <2>7. CountsPart'
      BY <2>1, <2>4 DEF CountsPart
    <2>8. QED BY <2>6, <2>7
  <1>1. SUFFICES ASSUME NEW p \in Procs, Step(p) PROVE CountsPart' /\ StatsWithinTraffic'
    BY <1>count DEF Next
  <1>3. ASSUME UNCHANGED traffic, \A d \in Clients : redis'.stats[d] \in {redis.stats[d], None}
        PROVE  StatsWithinTraffic'
    BY <1>3 DEF StatsWithinTraffic
  <1>4. ASSUME UNCHANGED <<counted, batch, traffic>> PROVE CountsPart'
    BY <1>4 DEF CountsPart
  <1>5. CASE Exit(p) /\ UNCHANGED <<redis, traffic>>
    <2>1. /\ counted' = [counted EXCEPT ![p] = NoUnits]
          /\ batch' = [batch EXCEPT ![p] = NoPolicies]
      BY <1>5 DEF Exit
    <2>2. CountsPart'
      BY <1>0, <1>5, <2>1 DEF CountsPart, NoUnits, NoPolicies, TypeOK
    <2>3. QED BY <1>3, <1>5, <2>2
  <1>6. CASE Probe(p) \/ Unlink(p) \/ Bind(p) \/ Listen(p) \/ Hydrate(p) \/ GetSchema(p) \/ ListAll(p)
               \/ LaunchBpf(p) \/ LaunchPermissive(p) \/ \E i \in Ifaces : Attach(p, i)
    BY <1>3, <1>4, <1>6 DEF Probe, Unlink, Bind, Listen, rest, Hydrate, GetSchema, ListAll, Command, LaunchBpf,
       LaunchPermissive, Attach
  <1>7. CASE Delete(p) \/ Stamp(p) \/ OpenFails(p)
    <2>1. UNCHANGED <<counted, batch, traffic>> /\ redis' \in {redis, Effect(p)}
      BY <1>7 DEF Delete, Stamp, Command, OpenFails, Effect
    <2>2. \A d \in Clients : Effect(p).stats[d] \in {redis.stats[d], None}
      BY DEF Effect, Without, TypeOK, Database
    <2>3. QED BY <1>3, <1>4, <2>1, <2>2
  <1>8. ASSUME NEW c \in Clients, NEW v \in {Version[p], None}, Request(p, c, v)
        PROVE  CountsPart' /\ StatsWithinTraffic'
    <2>1. /\ UNCHANGED <<counted, batch, traffic>>
          /\ redis' \in {redis, [redis EXCEPT !.policy[c] = v]}
      BY <1>8 DEF Request
    <2>2. redis'.stats = redis.stats
      BY <2>1 DEF TypeOK, Database
    <2>3. QED BY <1>3, <1>4, <2>1, <2>2
  <1>10. CASE SnapshotStats(p)
    <2>1. batch' = [batch EXCEPT ![p] = Snapshot(p)] /\ UNCHANGED <<counted, traffic, redis>>
      BY <1>10 DEF SnapshotStats
    <2>2. CountsPart'
      BY <1>0, <2>1 DEF CountsPart, Snapshot, TypeOK
    <2>3. QED BY <1>3, <2>1, <2>2
  <1>11. CASE Put(p)
    <2>1. PICK c \in Clients : PutStats(p, c)
      BY <1>11 DEF Put
    <2>2. /\ batch[p][c] # None
          /\ batch' = [batch EXCEPT ![p][c] = None]
          /\ UNCHANGED <<counted, traffic>>
          /\ redis' \in {redis, [redis EXCEPT !.stats[c] = batch[p][c]]}
      BY <2>1 DEF PutStats, Writing, Stored
    <2>3. CountsPart'
      BY <2>2 DEF CountsPart, TypeOK
    <2>4. \A d \in Clients : \/ redis'.stats[d] = redis.stats[d]
                             \/ d = c /\ redis'.stats[d] = batch[p][c]
      BY <2>2 DEF TypeOK, Database
    <2>5. batch[p][c] <= traffic[c]
      BY <1>0, <2>2 DEF CountsPart
    <2>6. StatsWithinTraffic'
      BY <2>2, <2>4, <2>5 DEF StatsWithinTraffic
    <2>7. QED BY <2>3, <2>6
  <1>12. CASE PutFails(p)
    <2>1. batch' = [batch EXCEPT ![p] = NoPolicies] /\ UNCHANGED <<counted, traffic, redis>>
      BY <1>12 DEF PutFails
    <2>2. CountsPart'
      BY <2>1 DEF CountsPart, NoPolicies, TypeOK
    <2>3. QED BY <1>3, <2>1, <2>2
  <1>13. CASE Crash(p) \/ HydrateFails(p)
    BY <1>5, <1>13 DEF Crash, HydrateFails
  <1>14. QED
    BY <1>1, <1>6, <1>7, <1>8, <1>10, <1>11, <1>12, <1>13 DEF Step, Startup

(***************************************************************************)
(* The theorems                                                            *)
(***************************************************************************)
\* The invariant holds before the first process is started.
LEMMA InvInit == Init => Inv
  <1> SUFFICES ASSUME Init PROVE Inv
    OBVIOUS
  <1>1. TypeOK
    BY DEF Init, TypeOK, Database, NoPolicies, NoUnits
  <1>2. HoldsSocket /\ AtMostOne /\ SchemaDescribes /\ \A p \in Procs : SchemaStep(p)
    BY DEF Init, HoldsSocket, AtMostOne, SchemaDescribes, SchemaStep, NoPolicies, Bound, Opening
  <1>3. OwnPolicies /\ AttachedWhole /\ CountsPart /\ StatsWithinTraffic
    BY DEF Init, OwnPolicies, AttachedWhole, CountsPart, StatsWithinTraffic, NoPolicies, NoUnits
  <1>4. QED BY <1>1, <1>2, <1>3 DEF Inv, SchemaInv

\* The invariant is inductive.
LEMMA InvStep == Inv /\ [Next]_vars => Inv'
  <1> SUFFICES ASSUME Inv, [Next]_vars PROVE Inv'
    OBVIOUS
  <1>1. CASE Next
    <2>1. TypeOK'
      BY TypeStep DEF Inv
    <2>2. HoldsSocket'
      BY <1>1, SocketStep DEF Inv
    <2>3. ASSUME alone' PROVE AtMostOne' /\ SchemaInv'
      <3>1. alone /\ AtMostOne /\ AtMostOne'
        BY <1>1, <2>3, AloneStep DEF Inv
      <3>2. QED BY <1>1, <3>1, SchemaInvStep DEF Inv
    <2>4. AttachedWhole'
      BY <1>1, AttachedStep DEF Inv
    <2>5. CountsPart' /\ StatsWithinTraffic'
      BY <1>1, StatsStep DEF Inv
    <2>6. QED BY <2>1, <2>2, <2>3, <2>4, <2>5 DEF Inv
  <1>2. CASE UNCHANGED vars
    BY <1>2 DEF vars, process, bounds, history, Inv, TypeOK, HoldsSocket, AtMostOne, SchemaInv,
       SchemaDescribes, SchemaStep, Keys, OwnPolicies, AttachedWhole, CountsPart, StatsWithinTraffic
  <1>3. QED BY <1>1, <1>2

\* The inductive invariant holds throughout.
LEMMA InvHolds == Spec => []Inv
  BY InvInit, InvStep, PTL DEF Spec

\* However many start-ups and deaths interleave between the calls of bind_listener(): a
\* process that bound the path while no start-up was about to remove it answers there
\* until it ends, so no two such processes run.
THEOREM OnlyOneDaemon == Spec => []OneDaemon
  <1>1. Inv => OneDaemon
    BY DEF Inv, HoldsSocket, OneDaemon
  <1>2. QED BY <1>1, InvHolds, PTL

\* As long as no two daemons ran at once, a process never holds a policy of another
\* schema version, wherever in ensure_schema() the processes before it died.
THEOREM PoliciesOfOwnVersion == Spec => []NeverMisreads
  <1>1. Inv => NeverMisreads
    BY DEF Inv, SchemaInv, OwnPolicies, NeverMisreads
  <1>2. QED BY <1>1, InvHolds, PTL

\* The XDP program is on all interfaces or on none, and there only with the enforcer
\* that knows of it.
THEOREM AttachedToAllOrNone == Spec => []AttachedWhole
  BY InvHolds, PTL DEF Inv

\* Stored totals never exceed what the client sent over all lives of the daemon.
THEOREM StatsNeverOvercount == Spec => []StatsWithinTraffic
  BY InvHolds, PTL DEF Inv

\* As long as no two daemons ran at once, a policy key leaves Redis only on request or
\* because a process of another version than the one that wrote it starts.
THEOREM OnlyForeignPoliciesDiscarded == Spec => DiscardsOnlyForeign
  <1> DEFINE Keeps == \A c \in Clients : alone /\ redis.policy[c] # None /\ redis'.policy[c] = None =>
                        \/ requests' = requests + 1
                        \/ \E p \in Procs : pc[p] = "delete" /\ Version[p] # redis.policy[c]
  <1>1. Inv /\ [Next]_vars => [Keeps]_vars
    <2> SUFFICES ASSUME Inv, Next, NEW c \in Clients, alone, redis.policy[c] # None,
                        redis'.policy[c] = None, requests' # requests + 1
                 PROVE  \E p \in Procs : pc[p] = "delete" /\ Version[p] # redis.policy[c]
      BY DEF vars
    <2>1. redis.policy' # redis.policy
      OBVIOUS
    <2>2. PICK p \in Procs : Step(p)
      BY <2>1 DEF Next, Count
    <2>3. ~Put(p)
      BY <2>1 DEF Put, PutStats, Inv, TypeOK, Database
    <2>4. Delete(p) \/ Stamp(p) \/ OpenFails(p)
      BY <2>2, <2>1, <2>3 DEF Step, Startup, Probe, Unlink, Bind, Listen, rest, GetSchema,
         ListAll, Command, Hydrate, HydrateFails, Attach, LaunchBpf, LaunchPermissive, Crash,
         Request, SnapshotStats, PutFails
    <2>5. redis' \in {redis, Effect(p)}
      BY <2>4 DEF Delete, Stamp, Command, OpenFails, Effect
    <2>6. pc[p] = "delete"
      BY <2>1, <2>5 DEF Effect, Inv, TypeOK, Database
    <2>7. redis.schema # Version[p] /\ redis.schema = redis.policy[c]
      BY <2>6 DEF Inv, SchemaInv, SchemaStep, SchemaDescribes
    <2>8. QED BY <2>6, <2>7
  <1>2. QED
    BY <1>1, InvHolds, PTL DEF Spec, DiscardsOnlyForeign
=============================================================================
