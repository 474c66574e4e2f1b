------------------------------- MODULE Locks --------------------------------
(***************************************************************************)
(* The mutexes of DaemonState, CounterStore, the enforcers and RedisStore, *)
(* and the order in which each operation of each thread takes them:        *)
(* microwaf/src/{decision,ipc,state,store,ebpf}.rs, mw-core/src/           *)
(* {counters,enforcer}.rs, mw-store/src/redis_store.rs.  What is done      *)
(* under the locks is modelled in Daemon; here only who waits for whom.    *)
(***************************************************************************)
EXTENDS Naturals, Sequences, FiniteSets

CONSTANTS Conns,     \* IPC connections, each served by its own thread (external)
          IpcJobs,   \* the requests they send
          NoOne      \* the owner of a free mutex

Threads == Conns \cup {"sniffer", "decision"}

ASSUME LocksAssumption ==
  /\ NoOne \notin Threads
  /\ IpcJobs \subseteq {"mutate", "clear_nothing", "list_clients", "top"}

Mutexes == {"by_rule", "by_client", "last_counters", "windows", "policies",
            "would_be", "enforcer", "enforcer_map", "redis"}

(***************************************************************************)
(* Lock programs: a sequence of acquisitions and releases.                 *)
(***************************************************************************)
Acq(l) == [do |-> "acquire", lock |-> l]
Rel(l) == [do |-> "release", lock |-> l]
Brief(l) == <<Acq(l), Rel(l)>>

\* CounterStore::add: two critical sections, one after the other.
AddProgram == Brief("by_rule") \o Brief("by_client")

\* DaemonState::clear (apply differs in the would_be lock of permissive mode only);
\* the enforcer guard lives while the enforcer's own map is locked.
EnforceProgram == Brief("would_be") \o <<Acq("enforcer")>> \o Brief("enforcer_map") \o <<Rel("enforcer")>>

\* tick(): the counters are cloned first; locals drop in reverse order at its end.
TickProgram == Brief("by_rule")
                 \o <<Acq("last_counters"), Acq("windows"), Acq("policies")>>
                 \o EnforceProgram
                 \o <<Rel("policies"), Rel("windows"), Rel("last_counters")>>

\* snapshot_stats(): clone, then the batch is written.
StatsProgram == Brief("by_client") \o Brief("redis")

\* Mutant: an early return leaves the connection mutex locked.
MutateProgramLeaks == <<Acq("policies"), Acq("redis"), Rel("policies")>>

\* throttle, block, clear_manual_*: Redis is written with policies held.
MutateProgram == <<Acq("policies")>> \o Brief("redis") \o <<Rel("policies")>>
ClearNothingProgram == Brief("policies")

ListClientsProgram == <<Acq("policies"), Acq("would_be")>> \o Brief("by_client")
                        \o <<Rel("would_be"), Rel("policies")>>

\* Mutant: the windows mutex is taken last.
TopProgramUngated == <<Acq("would_be"), Acq("policies"), Acq("windows")>> \o Brief("by_client")
                       \o <<Rel("windows"), Rel("policies"), Rel("would_be")>>

TopProgram == <<Acq("windows"), Acq("would_be"), Acq("policies")>> \o Brief("by_client")
                \o <<Rel("policies"), Rel("would_be"), Rel("windows")>>

Program == [add |-> AddProgram,
            tick |-> TickProgram,
            tick_stats |-> TickProgram \o StatsProgram,
            mutate |-> MutateProgram,
            clear_nothing |-> ClearNothingProgram,
            list_clients |-> ListClientsProgram,
            top |-> TopProgram]

Jobs(t) == CASE t = "sniffer" -> {"add"}
             [] t = "decision" -> {"tick", "tick_stats"}
             [] OTHER -> IpcJobs

VARIABLES job,    \* what each thread is doing; "idle" between operations
          pc,     \* the next step of its program
          owner   \* who holds each mutex

vars == <<job, pc, owner>>

Init == /\ job = [t \in Threads |-> "idle"]
        /\ pc = [t \in Threads |-> 1]
        /\ owner = [l \in Mutexes |-> NoOne]

Step(t) == Program[job[t]][pc[t]]

Begin(t) == /\ job[t] = "idle"
            /\ \E j \in Jobs(t) : job' = [job EXCEPT ![t] = j]
            /\ UNCHANGED <<pc, owner>>

Acquire(t) == /\ job[t] # "idle" /\ Step(t).do = "acquire"
              /\ owner[Step(t).lock] = NoOne
              /\ owner' = [owner EXCEPT ![Step(t).lock] = t]
              /\ pc' = [pc EXCEPT ![t] = @ + 1]
              /\ UNCHANGED job

\* Every program ends with a release; after it the thread is idle again.
Release(t) == /\ job[t] # "idle" /\ Step(t).do = "release"
              /\ owner' = [owner EXCEPT ![Step(t).lock] = NoOne]
              /\ IF pc[t] = Len(Program[job[t]])
                   THEN job' = [job EXCEPT ![t] = "idle"] /\ pc' = [pc EXCEPT ![t] = 1]
                   ELSE job' = job /\ pc' = [pc EXCEPT ![t] = @ + 1]

Next == \E t \in Threads : Begin(t) \/ Acquire(t) \/ Release(t)

Spec == Init /\ [][Next]_vars

\* A thread that has begun keeps running; a mutex that is free again and again is
\* obtained in the end.  Nothing makes a client send a request or a frame.
FairSpec == /\ Spec
            /\ \A t \in Threads : SF_vars(Acquire(t)) /\ WF_vars(Release(t))
            /\ WF_vars(Begin("decision"))

-----------------------------------------------------------------------------
WaitsFor(t, u) == /\ job[t] # "idle" /\ Step(t).do = "acquire"
                  /\ owner[Step(t).lock] = u

\* No group of threads waits in a circle: decision loop, sniffer and IPC handlers
\* take the mutexes in orders that cannot block each other for ever.
NoCircularWait ==
  ~ \E S \in SUBSET Threads : S # {} /\ \A t \in S : \E u \in S : WaitsFor(t, u)

\* Every tick ends and every request gets to its answer, even when `top', which takes
\* would_be before policies, meets tick(), which takes them the other way round.
EveryJobEnds == \A t \in Threads : job[t] # "idle" ~> job[t] = "idle"
=============================================================================
