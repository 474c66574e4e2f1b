----------------------------- MODULE LocksProofs ----------------------------
(***************************************************************************)
(* No circular wait, for any number of connections of which at most one    *)
(* sends requests at a time, or which do not send both `top' and           *)
(* `listClients'.  All operations take the mutexes in the order of Rank,   *)
(* but for one step of `top', which the mutex windows protects.            *)
(***************************************************************************)
EXTENDS Locks, TLAPS

Rank == [last_counters |-> 1, windows |-> 2, policies |-> 3, would_be |-> 4, by_client |-> 5,
         redis |-> 6, by_rule |-> 7, enforcer |-> 8, enforcer_map |-> 9]

JobNames == {"add", "tick", "tick_stats", "mutate", "clear_nothing", "list_clients", "top"}

\* The critical sections: operation j holds mutex l when its step i is next.
Holds(j, l, i) ==
  \/ j \in {"tick", "tick_stats"} /\ \/ l = "by_rule" /\ i = 2
                                     \/ l = "last_counters" /\ i \in 4..14
                                     \/ l = "windows" /\ i \in 5..13
                                     \/ l = "policies" /\ i \in 6..12
                                     \/ l = "would_be" /\ i = 7
                                     \/ l = "enforcer" /\ i \in 9..11
                                     \/ l = "enforcer_map" /\ i = 10
  \/ j = "tick_stats" /\ ((l = "by_client" /\ i = 16) \/ (l = "redis" /\ i = 18))
  \/ j = "add" /\ ((l = "by_rule" /\ i = 2) \/ (l = "by_client" /\ i = 4))
  \/ j = "mutate" /\ ((l = "policies" /\ i \in 2..4) \/ (l = "redis" /\ i = 3))
  \/ j = "clear_nothing" /\ l = "policies" /\ i = 2
  \/ j = "list_clients" /\ \/ l = "policies" /\ i \in 2..6
                           \/ l = "would_be" /\ i \in 3..5
                           \/ l = "by_client" /\ i = 4
  \/ j = "top" /\ \/ l = "windows" /\ i \in 2..8
                  \/ l = "would_be" /\ i \in 3..7
                  \/ l = "policies" /\ i \in 4..6
                  \/ l = "by_client" /\ i = 5

(***************************************************************************)
(* The inductive invariant                                                 *)
(***************************************************************************)
TypeOK ==
  /\ job \in [Threads -> JobNames \cup {"idle"}]
  /\ pc \in [Threads -> Nat]
  /\ owner \in [Mutexes -> Threads \cup {NoOne}]
  /\ \A t \in Threads : /\ job[t] \in Jobs(t) \cup {"idle"}
                        /\ IF job[t] = "idle" THEN pc[t] = 1 ELSE pc[t] \in 1..Len(Program[job[t]])

\* A mutex is owned by the thread that is in its critical section.
Owned ==
  \A l \in Mutexes, t \in Threads : owner[l] = t <=> (job[t] # "idle" /\ Holds(job[t], l, pc[t]))

Inv == TypeOK /\ Owned

(***************************************************************************)
(* The programs                                                            *)
(***************************************************************************)

\* What step i of a program p of n steps does to the mutexes that operation j holds, and in
\* which order it takes them.
WellLocked(j, p, i) ==
  LET l == p[i].lock IN
  /\ l \in Mutexes
  /\ \/ /\ p[i].do = "acquire" /\ i < Len(p)
        /\ \A m \in Mutexes : Holds(j, m, i + 1) <=> (Holds(j, m, i) \/ m = l)
        /\ \A m \in Mutexes : Holds(j, m, i) => \/ Rank[m] < Rank[l]
                                                \/ /\ j = "top" /\ m = "would_be" /\ l = "policies"
                                                   /\ Holds(j, "windows", i)
        /\ l = "would_be" => j = "list_clients" \/ Holds(j, "windows", i)
     \/ /\ p[i].do = "release" /\ Holds(j, l, i)
        /\ \A m \in Mutexes : IF i = Len(p) THEN (Holds(j, m, i) => m = l)
                              ELSE (Holds(j, m, i + 1) <=> (Holds(j, m, i) /\ m # l))

TickStatsProgram == TickProgram \o StatsProgram

\* The critical sections of CounterStore::add.
LEMMA AddLocked ==
  ASSUME NEW i \in 1..Len(AddProgram)
  PROVE  WellLocked("add", AddProgram, i)
  <1>1. /\ Len(AddProgram) = 4
        /\ AddProgram[1] = Acq("by_rule") /\ AddProgram[2] = Rel("by_rule")
        /\ AddProgram[3] = Acq("by_client") /\ AddProgram[4] = Rel("by_client")
    BY DEF AddProgram, Brief
  <1>2. QED
    BY <1>1 DEF WellLocked, Acq, Rel, Rank, Holds, Mutexes

\* The critical sections of tick().
LEMMA TickLocked ==
  ASSUME NEW i \in 1..Len(TickProgram)
  PROVE  WellLocked("tick", TickProgram, i)
  <1>1. /\ Len(TickProgram) = 14
        /\ TickProgram[1] = Acq("by_rule") /\ TickProgram[2] = Rel("by_rule")
        /\ TickProgram[3] = Acq("last_counters") /\ TickProgram[4] = Acq("windows")
        /\ TickProgram[5] = Acq("policies") /\ TickProgram[6] = Acq("would_be")
        /\ TickProgram[7] = Rel("would_be") /\ TickProgram[8] = Acq("enforcer")
        /\ TickProgram[9] = Acq("enforcer_map") /\ TickProgram[10] = Rel("enforcer_map")
        /\ TickProgram[11] = Rel("enforcer") /\ TickProgram[12] = Rel("policies")
        /\ TickProgram[13] = Rel("windows") /\ TickProgram[14] = Rel("last_counters")
    BY DEF TickProgram, EnforceProgram, Brief
  <1>2. QED
    BY <1>1 DEF WellLocked, Acq, Rel, Rank, Holds, Mutexes

\* The critical sections of tick() and snapshot_stats().
LEMMA TickStatsLocked ==
  ASSUME NEW i \in 1..Len(TickStatsProgram)
  PROVE  WellLocked("tick_stats", TickStatsProgram, i)
  <1>1. /\ Len(TickStatsProgram) = 18
        /\ TickStatsProgram[1] = Acq("by_rule") /\ TickStatsProgram[2] = Rel("by_rule")
        /\ TickStatsProgram[3] = Acq("last_counters") /\ TickStatsProgram[4] = Acq("windows")
        /\ TickStatsProgram[5] = Acq("policies") /\ TickStatsProgram[6] = Acq("would_be")
        /\ TickStatsProgram[7] = Rel("would_be") /\ TickStatsProgram[8] = Acq("enforcer")
        /\ TickStatsProgram[9] = Acq("enforcer_map") /\ TickStatsProgram[10] = Rel("enforcer_map")
        /\ TickStatsProgram[11] = Rel("enforcer") /\ TickStatsProgram[12] = Rel("policies")
        /\ TickStatsProgram[13] = Rel("windows") /\ TickStatsProgram[14] = Rel("last_counters")
        /\ TickStatsProgram[15] = Acq("by_client") /\ TickStatsProgram[16] = Rel("by_client")
        /\ TickStatsProgram[17] = Acq("redis") /\ TickStatsProgram[18] = Rel("redis")
    BY DEF TickStatsProgram, TickProgram, EnforceProgram, StatsProgram, Brief
  <1>2. QED
    BY <1>1 DEF WellLocked, Acq, Rel, Rank, Holds, Mutexes

\* The critical sections of throttle(), block() and the clears.
LEMMA MutateLocked ==
  ASSUME NEW i \in 1..Len(MutateProgram)
  PROVE  WellLocked("mutate", MutateProgram, i)
  <1>1. /\ Len(MutateProgram) = 4
        /\ MutateProgram[1] = Acq("policies") /\ MutateProgram[2] = Acq("redis")
        /\ MutateProgram[3] = Rel("redis") /\ MutateProgram[4] = Rel("policies")
    BY DEF MutateProgram, Brief
  <1>2. QED
    BY <1>1 DEF WellLocked, Acq, Rel, Rank, Holds, Mutexes

\* The critical sections of a clear that finds nothing.
LEMMA ClearNothingLocked ==
  ASSUME NEW i \in 1..Len(ClearNothingProgram)
  PROVE  WellLocked("clear_nothing", ClearNothingProgram, i)
  <1>1. /\ Len(ClearNothingProgram) = 2
        /\ ClearNothingProgram[1] = Acq("policies") /\ ClearNothingProgram[2] = Rel("policies")
    BY DEF ClearNothingProgram, Brief
  <1>2. QED
    BY <1>1 DEF WellLocked, Acq, Rel, Rank, Holds, Mutexes

\* The critical sections of listClients.
LEMMA ListClientsLocked ==
  ASSUME NEW i \in 1..Len(ListClientsProgram)
  PROVE  WellLocked("list_clients", ListClientsProgram, i)
  <1>1. /\ Len(ListClientsProgram) = 6
        /\ ListClientsProgram[1] = Acq("policies") /\ ListClientsProgram[2] = Acq("would_be")
        /\ ListClientsProgram[3] = Acq("by_client") /\ ListClientsProgram[4] = Rel("by_client")
        /\ ListClientsProgram[5] = Rel("would_be") /\ ListClientsProgram[6] = Rel("policies")
    BY DEF ListClientsProgram, Brief
  <1>2. QED
    BY <1>1 DEF WellLocked, Acq, Rel, Rank, Holds, Mutexes

\* The critical sections of top.
LEMMA TopLocked ==
  ASSUME NEW i \in 1..Len(TopProgram)
  PROVE  WellLocked("top", TopProgram, i)
  <1>1. /\ Len(TopProgram) = 8
        /\ TopProgram[1] = Acq("windows") /\ TopProgram[2] = Acq("would_be")
        /\ TopProgram[3] = Acq("policies") /\ TopProgram[4] = Acq("by_client")
        /\ TopProgram[5] = Rel("by_client") /\ TopProgram[6] = Rel("policies")
        /\ TopProgram[7] = Rel("would_be") /\ TopProgram[8] = Rel("windows")
    BY DEF TopProgram, Brief
  <1>2. QED
    BY <1>1 DEF WellLocked, Acq, Rel, Rank, Holds, Mutexes

\* Every operation holds what the table of critical sections says, and takes the mutexes in
\* the order of Rank, but for `top', which takes policies under windows and would_be.
LEMMA ProgramsWellLocked ==
  ASSUME NEW j \in JobNames, NEW i \in 1..Len(Program[j])
  PROVE  WellLocked(j, Program[j], i)
  <1>1. CASE j = "add"
    <2>1. Program[j] = AddProgram
      BY <1>1 DEF Program
    <2>2. QED
      BY <1>1, <2>1, AddLocked
  <1>2. CASE j = "tick"
    <2>1. Program[j] = TickProgram
      BY <1>2 DEF Program
    <2>2. QED
      BY <1>2, <2>1, TickLocked
  <1>3. CASE j = "tick_stats"
    <2>1. Program[j] = TickStatsProgram
      BY <1>3 DEF Program, TickStatsProgram
    <2>2. QED
      BY <1>3, <2>1, TickStatsLocked
  <1>4. CASE j = "mutate"
    <2>1. Program[j] = MutateProgram
      BY <1>4 DEF Program
    <2>2. QED
      BY <1>4, <2>1, MutateLocked
  <1>5. CASE j = "clear_nothing"
    <2>1. Program[j] = ClearNothingProgram
      BY <1>5 DEF Program
    <2>2. QED
      BY <1>5, <2>1, ClearNothingLocked
  <1>6. CASE j = "list_clients"
    <2>1. Program[j] = ListClientsProgram
      BY <1>6 DEF Program
    <2>2. QED
      BY <1>6, <2>1, ListClientsLocked
  <1>7. CASE j = "top"
    <2>1. Program[j] = TopProgram
      BY <1>7 DEF Program
    <2>2. QED
      BY <1>7, <2>1, TopLocked
  <1>8. QED
    BY <1>1, <1>2, <1>3, <1>4, <1>5, <1>6, <1>7 DEF JobNames

\* Nothing is held before the first step, and every program has one.
LEMMA FirstStep ==
  ASSUME NEW j \in JobNames
  PROVE  1 \in 1..Len(Program[j]) /\ \A l \in Mutexes : ~Holds(j, l, 1)
  <1>1. Len(AddProgram) = 4 /\ Len(MutateProgram) = 4 /\ Len(ClearNothingProgram) = 2
    BY DEF AddProgram, MutateProgram, ClearNothingProgram, Brief
  <1>2. Len(ListClientsProgram) = 6 /\ Len(TopProgram) = 8
    BY DEF ListClientsProgram, TopProgram, Brief
  <1>3. Len(TickProgram) = 14
    BY DEF TickProgram, EnforceProgram, Brief
  <1>4. Len(TickStatsProgram) = 18
    BY DEF TickStatsProgram, TickProgram, EnforceProgram, StatsProgram, Brief
  <1>5. 1 \in 1..Len(Program[j])
    <2>1. \/ Len(Program[j]) = Len(AddProgram) \/ Len(Program[j]) = Len(TickProgram)
          \/ Len(Program[j]) = Len(TickStatsProgram) \/ Len(Program[j]) = Len(MutateProgram)
          \/ Len(Program[j]) = Len(ClearNothingProgram) \/ Len(Program[j]) = Len(ListClientsProgram)
          \/ Len(Program[j]) = Len(TopProgram)
      BY DEF Program, JobNames, TickStatsProgram
    <2>2. \E n \in {2, 4, 6, 8, 14, 18} : Len(Program[j]) = n
      BY <1>1, <1>2, <1>3, <1>4, <2>1
    <2>3. QED
      BY <2>2
  <1>6. \A l \in Mutexes : ~Holds(j, l, 1)
    BY DEF Holds
  <1>7. QED
    BY <1>5, <1>6, Zenon

(***************************************************************************)
(* The steps                                                               *)
(***************************************************************************)

\* What a thread may do is one of the operations.
LEMMA JobsAreNames == \A t \in Threads : Jobs(t) \subseteq JobNames
  BY LocksAssumption DEF Jobs, JobNames

\* A thread that begins holds nothing.
LEMMA BeginStep ==
  ASSUME Inv, NEW t \in Threads, Begin(t)
  PROVE  Inv'
  <1>1. PICK j \in Jobs(t) : job' = [job EXCEPT ![t] = j]
    BY DEF Begin
  <1>2. job[t] = "idle" /\ pc' = pc /\ owner' = owner /\ TypeOK /\ Owned
    BY DEF Begin, Inv
  <1>3. j \in JobNames /\ pc[t] = 1 /\ j # "idle"
    BY <1>2, JobsAreNames DEF TypeOK, JobNames
  <1>4. /\ job' \in [Threads -> JobNames \cup {"idle"}] /\ job'[t] = j
        /\ \A u \in Threads \ {t} : job'[u] = job[u]
    BY <1>1, <1>2, <1>3 DEF TypeOK
  <1>5. 1 \in 1..Len(Program[j]) /\ \A l \in Mutexes : ~Holds(j, l, 1)
    BY <1>3, FirstStep
  <1>6. TypeOK'
    BY <1>2, <1>3, <1>4, <1>5 DEF TypeOK, Jobs
  <1>7. Owned'
    BY <1>2, <1>3, <1>4, <1>5 DEF Owned
  <1>8. QED
    BY <1>6, <1>7 DEF Inv

\* What the next step of a thread at work does.
LEMMA StepWellLocked ==
  ASSUME TypeOK, NEW t \in Threads, job[t] # "idle"
  PROVE  /\ job[t] \in JobNames /\ pc[t] \in 1..Len(Program[job[t]])
         /\ WellLocked(job[t], Program[job[t]], pc[t])
  <1>1. job[t] \in JobNames /\ pc[t] \in 1..Len(Program[job[t]])
    BY DEF TypeOK
  <1>2. QED
    BY <1>1, ProgramsWellLocked

\* A thread that obtains a mutex enters its critical section.
LEMMA AcquireStep ==
  ASSUME Inv, NEW t \in Threads, Acquire(t)
  PROVE  Inv'
  <1> DEFINE j == job[t]
             l == Step(t).lock
  <1>1. /\ TypeOK /\ Owned /\ j # "idle" /\ owner[l] = NoOne /\ Step(t).do = "acquire"
        /\ owner' = [owner EXCEPT ![l] = t] /\ pc' = [pc EXCEPT ![t] = @ + 1] /\ job' = job
    BY DEF Inv, Acquire
  <1>2. /\ j \in JobNames /\ pc[t] \in 1..Len(Program[j]) /\ l \in Mutexes
        /\ pc[t] < Len(Program[j])
        /\ \A m \in Mutexes : Holds(j, m, pc[t] + 1) <=> (Holds(j, m, pc[t]) \/ m = l)
    BY <1>1, StepWellLocked DEF WellLocked, Step
  <1> HIDE DEF l
  <1>3. /\ pc'[t] = pc[t] + 1 /\ \A u \in Threads \ {t} : pc'[u] = pc[u]
        /\ owner'[l] = t /\ \A m \in Mutexes \ {l} : owner'[m] = owner[m]
    BY <1>1, <1>2 DEF TypeOK
  <1>4. TypeOK'
    <2>1. pc[t] \in Nat /\ pc[t] + 1 \in Nat /\ pc[t] + 1 \in 1..Len(Program[j])
      BY <1>1, <1>2 DEF TypeOK
    <2>2. pc' \in [Threads -> Nat] /\ owner' \in [Mutexes -> Threads \cup {NoOne}]
      BY <1>1, <2>1 DEF TypeOK
    <2>3. ASSUME NEW u \in Threads
          PROVE  (/\ job[u] \in Jobs(u) \cup {"idle"}
                  /\ IF job[u] = "idle" THEN pc[u] = 1 ELSE pc[u] \in 1..Len(Program[job[u]]))'
      BY <1>1, <1>3, <2>1 DEF TypeOK, Jobs
    <2>4. QED
      BY <1>1, <2>2, <2>3 DEF TypeOK
  <1>5. Owned'
    <2>1. ASSUME NEW m \in Mutexes
          PROVE  (owner[m] = t <=> (job[t] # "idle" /\ Holds(job[t], m, pc[t])))'
      BY <1>1, <1>2, <1>3 DEF Owned
    <2>2. ASSUME NEW m \in Mutexes, NEW u \in Threads, u # t
          PROVE  (owner[m] = u <=> (job[u] # "idle" /\ Holds(job[u], m, pc[u])))'
      <3>1. owner[l] # u /\ pc'[u] = pc[u]
        BY <1>1, <1>3, <2>2, LocksAssumption
      <3>2. (owner[m] = u <=> (job[u] # "idle" /\ Holds(job[u], m, pc[u])))
        BY <1>1 DEF Owned
      <3>3. owner'[m] = u <=> owner[m] = u
        BY <1>3, <2>2, <3>1
      <3>4. QED
        BY <1>1, <3>1, <3>2, <3>3
    <2>3. QED
      BY <2>1, <2>2 DEF Owned
  <1>6. QED
    BY <1>4, <1>5 DEF Inv

\* A thread that releases a mutex leaves its critical section; the last step leaves the last.
LEMMA ReleaseStep ==
  ASSUME Inv, NEW t \in Threads, Release(t)
  PROVE  Inv'
  <1> DEFINE j == job[t]
             l == Step(t).lock
             last == pc[t] = Len(Program[j])
  <1>1. /\ TypeOK /\ Owned /\ j # "idle" /\ Step(t).do = "release"
        /\ owner' = [owner EXCEPT ![l] = NoOne]
    BY DEF Inv, Release
  <1>2. /\ j \in JobNames /\ pc[t] \in 1..Len(Program[j]) /\ l \in Mutexes /\ Holds(j, l, pc[t])
        /\ \A m \in Mutexes : IF last THEN (Holds(j, m, pc[t]) => m = l)
                              ELSE (Holds(j, m, pc[t] + 1) <=> (Holds(j, m, pc[t]) /\ m # l))
    BY <1>1, StepWellLocked DEF WellLocked, Step
  <1>3. /\ last => job' = [job EXCEPT ![t] = "idle"] /\ pc' = [pc EXCEPT ![t] = 1]
        /\ ~last => job' = job /\ pc' = [pc EXCEPT ![t] = @ + 1]
    BY DEF Release
  <1> HIDE DEF l
  <1>4. /\ owner[l] = t /\ owner'[l] = NoOne /\ \A m \in Mutexes \ {l} : owner'[m] = owner[m]
        /\ \A u \in Threads \ {t} : job'[u] = job[u] /\ pc'[u] = pc[u]
        /\ IF last THEN job'[t] = "idle" /\ pc'[t] = 1 ELSE job'[t] = j /\ pc'[t] = pc[t] + 1
    <2>1. owner[l] = t
      BY <1>1, <1>2 DEF Owned
    <2>2. QED
      BY <1>1, <1>2, <1>3, <2>1 DEF TypeOK
  <1>5. TypeOK'
    <2>1. ~last => pc[t] + 1 \in 1..Len(Program[j])
      BY <1>2 DEF TypeOK
    <2>2. /\ job' \in [Threads -> JobNames \cup {"idle"}] /\ pc' \in [Threads -> Nat]
          /\ owner' \in [Mutexes -> Threads \cup {NoOne}]
      <3>1. owner' \in [Mutexes -> Threads \cup {NoOne}]
        BY <1>1 DEF TypeOK
      <3>2. CASE last
        BY <1>1, <1>3, <3>1, <3>2 DEF TypeOK
      <3>3. CASE ~last
        BY <1>1, <1>3, <3>1, <3>3 DEF TypeOK
      <3>4. QED
        BY <3>2, <3>3
    <2>3. ASSUME NEW u \in Threads
          PROVE  (/\ job[u] \in Jobs(u) \cup {"idle"}
                  /\ IF job[u] = "idle" THEN pc[u] = 1 ELSE pc[u] \in 1..Len(Program[job[u]]))'
      BY <1>1, <1>4, <2>1 DEF TypeOK, Jobs
    <2>4. QED
      BY <2>2, <2>3 DEF TypeOK
  <1>6. Owned'
    <2>1. ASSUME NEW m \in Mutexes
          PROVE  (owner[m] = t <=> (job[t] # "idle" /\ Holds(job[t], m, pc[t])))'
      <3>1. owner[m] = t <=> Holds(j, m, pc[t])
        BY <1>1 DEF Owned
      <3>2. NoOne # t
        BY LocksAssumption
      <3>3. CASE last
        BY <1>2, <1>4, <3>1, <3>2, <3>3
      <3>4. CASE ~last
        BY <1>1, <1>2, <1>4, <3>1, <3>2, <3>4
      <3>5. QED
        BY <3>3, <3>4
    <2>2. ASSUME NEW m \in Mutexes, NEW u \in Threads, u # t
          PROVE  (owner[m] = u <=> (job[u] # "idle" /\ Holds(job[u], m, pc[u])))'
      <3>1. owner'[m] = u <=> owner[m] = u
        BY <1>4, <2>2, LocksAssumption
      <3>2. owner[m] = u <=> (job[u] # "idle" /\ Holds(job[u], m, pc[u]))
        BY <1>1 DEF Owned
      <3>3. QED
        BY <1>4, <2>2, <3>1, <3>2
    <2>3. QED
      BY <2>1, <2>2 DEF Owned
  <1>7. QED
    BY <1>5, <1>6 DEF Inv

\* The invariant holds of every behaviour.
LEMMA InvHolds == Spec => []Inv
  <1>1. ASSUME Init PROVE Inv
    BY <1>1, LocksAssumption DEF Init, Inv, TypeOK, Owned
  <1>2. ASSUME Inv, [Next]_vars PROVE Inv'
    <2>1. CASE UNCHANGED vars
      BY <1>2, <2>1 DEF vars, Inv, TypeOK, Owned, Jobs
    <2>2. CASE Next
      BY <1>2, <2>2, BeginStep, AcquireStep, ReleaseStep DEF Next
    <2>3. QED
      BY <1>2, <2>1, <2>2
  <1>3. QED
    BY <1>1, <1>2, PTL DEF Spec

(***************************************************************************)
(* The theorem                                                             *)
(***************************************************************************)

\* Among threads that wait for mutexes, one waits for a mutex of the highest rank.
LEMMA HighestRank ==
  ASSUME NEW S, S # {}, NEW w \in [S -> 1..9]
  PROVE  \E t \in S : \A u \in S : w[u] <= w[t]
  <1> DEFINE Some(n) == \E t \in S : w[t] >= n
  <1>1. Some(1) /\ ~Some(10)
    OBVIOUS
  <1> HIDE DEF Some
  <1>2. \E n \in 1..9 : Some(n) /\ ~Some(n + 1)
    BY <1>1
  <1>3. QED
    BY <1>2 DEF Some

\* Two threads that both wait for mutexes and hold what the other one needs would have to take
\* them against Rank, which only `top' does, and then only `listClients' can stand against it.
LEMMA WaitsUpwards ==
  ASSUME Inv, NEW t \in Threads, NEW u \in Threads, WaitsFor(t, u),
         job[u] # "idle", Step(u).do = "acquire"
  PROVE  \/ Rank[Step(t).lock] < Rank[Step(u).lock]
         \/ job[t] = "list_clients" /\ job[u] = "top" /\ t # u
  <1> DEFINE l == Step(t).lock
             k == Step(u).lock
  <1>1. /\ TypeOK /\ Owned /\ job[t] # "idle" /\ Step(t).do = "acquire" /\ owner[l] = u
    BY DEF Inv, WaitsFor
  <1>2. l \in Mutexes /\ (l = "would_be" => job[t] = "list_clients" \/ Holds(job[t], "windows", pc[t]))
    BY <1>1, StepWellLocked DEF WellLocked, Step
  <1>3. /\ k \in Mutexes
        /\ \A m \in Mutexes : Holds(job[u], m, pc[u]) =>
             \/ Rank[m] < Rank[k]
             \/ job[u] = "top" /\ m = "would_be" /\ k = "policies" /\ Holds(job[u], "windows", pc[u])
    BY <1>1, StepWellLocked DEF WellLocked, Step
  <1>4. Holds(job[u], l, pc[u])
    BY <1>1, <1>2 DEF Owned
  <1>5. CASE Rank[l] < Rank[k]
    BY <1>5
  <1>6. CASE job[u] = "top" /\ l = "would_be" /\ k = "policies" /\ Holds(job[u], "windows", pc[u])
    <2>1. t # u
      BY <1>6
    <2>2. "windows" \in Mutexes
      BY DEF Mutexes
    <2>3. owner["windows"] = u
      BY <1>1, <1>6, <2>2 DEF Owned
    <2>4. ~Holds(job[t], "windows", pc[t])
      BY <1>1, <2>1, <2>2, <2>3 DEF Owned
    <2>5. QED
      BY <1>2, <1>6, <2>1, <2>4
  <1>7. QED
    BY <1>2, <1>3, <1>4, <1>5, <1>6

\* At most one connection at a time sends requests, or `top' and `listClients' are not both sent.
Gated == \/ \A k1, k2 \in Conns : k1 = k2
         \/ ~({"list_clients", "top"} \subseteq IpcJobs)

\* Decision loop, sniffer and IPC threads never wait in a circle for the mutexes, if there is
\* one connection at a time or if no connection sends `listClients' while another sends
\* `top' (tick, dispatch, DaemonState, CounterStore, RedisStore).
THEOREM NoDeadlock ==
  ASSUME Gated
  PROVE  Spec => []NoCircularWait
  <1>1. ASSUME Inv PROVE NoCircularWait
    <2>1. SUFFICES ASSUME NEW S \in SUBSET Threads, S # {}, \A t \in S : \E u \in S : WaitsFor(t, u)
                   PROVE  FALSE
      BY DEF NoCircularWait
    <2> DEFINE w == [t \in S |-> Rank[Step(t).lock]]
    <2>2. \A t \in S : job[t] # "idle" /\ Step(t).do = "acquire" /\ Step(t).lock \in Mutexes
      BY <1>1, <2>1, StepWellLocked DEF Inv, WaitsFor, WellLocked, Step
    <2>3. \A l \in Mutexes : Rank[l] \in 1..9
      BY DEF Mutexes, Rank
    <2>4. w \in [S -> 1..9]
      BY <2>2, <2>3
    <2> HIDE DEF w
    <2>5. PICK t \in S : \A u \in S : w[u] <= w[t]
      BY <2>1, <2>4, HighestRank
    <2>6. PICK u \in S : WaitsFor(t, u)
      BY <2>1
    <2>7. ~(Rank[Step(t).lock] < Rank[Step(u).lock])
      BY <2>4, <2>5 DEF w
    <2>8. job[t] = "list_clients" /\ job[u] = "top" /\ t # u
      BY <1>1, <2>1, <2>2, <2>6, <2>7, WaitsUpwards
    <2>9. job[t] \in Jobs(t) /\ job[u] \in Jobs(u)
      BY <1>1, <2>1, <2>2 DEF Inv, TypeOK
    <2>10. /\ t \notin {"sniffer", "decision"} /\ u \notin {"sniffer", "decision"}
           /\ Jobs(t) = IpcJobs /\ Jobs(u) = IpcJobs
      BY <2>8, <2>9 DEF Jobs
    <2>11. t \in Conns /\ u \in Conns
      BY <2>1, <2>10 DEF Threads
    <2>12. QED
      BY <2>8, <2>9, <2>10, <2>11 DEF Gated
  <1>2. QED
    BY <1>1, InvHolds, PTL
=============================================================================
