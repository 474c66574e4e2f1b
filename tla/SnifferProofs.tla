---------------------------- MODULE SnifferProofs ---------------------------
(***************************************************************************)
(* The flow table, for any flows, rules, configurations and any order of   *)
(* frames, reloads and pauses.                                             *)
(***************************************************************************)
EXTENDS Sniffer, FiniteSetTheorems, WellFoundedInduction, TLAPS

(***************************************************************************)
(* The inductive invariant                                                 *)
(***************************************************************************)
TypeOK ==
  /\ now \in Nat
  /\ flows \in [Flows -> Nat \cup {None}]
  /\ frame # None => frame.flow \in Flows /\ frame.at \in Nat

\* The bound, which is about a finite table however many flows there are.
Inv == TypeOK /\ IsFiniteSet(Present(flows)) /\ TableBounded

(***************************************************************************)
(* FlowTable::observe                                                      *)
(***************************************************************************)

\* retain() keeps times and only removes flows.
LEMMA RetainedType ==
  ASSUME TypeOK, NEW at \in Nat
  PROVE  /\ Retained(at) \in [Flows -> Nat \cup {None}]
         /\ Present(Retained(at)) = {f \in Present(flows) : at - flows[f] < Idle}
  BY DEF TypeOK, Retained, Present

\* The tables observe() may leave: the flow is added or refreshed, at most one flow is
\* dropped, and only one that is the oldest in a full table.
LEMMA ObserveShape ==
  ASSUME TypeOK, NEW f \in Flows, NEW at \in Nat, NEW table \in Observe(f, at)
  PROVE  LET kept == Retained(at) IN
         /\ table \in [Flows -> Nat \cup {None}]
         /\ \/ Present(table) = Present(kept) \cup {f} /\ (f \in Present(kept) \/ ~Full(kept))
            \/ /\ f \notin Present(kept) /\ Full(kept)
               /\ \E old \in Oldest(kept) : Present(table) = (Present(kept) \ {old}) \cup {f}
  <1> DEFINE kept == Retained(at)
  <1>1. kept \in [Flows -> Nat \cup {None}] /\ at # None
    BY RetainedType, SnifferAssumption
  <1> HIDE DEF kept
  <1>2. CASE kept[f] = None /\ Full(kept)
    <2>1. PICK old \in Oldest(kept) : table = [kept EXCEPT ![old] = None, ![f] = at]
      BY <1>2 DEF Observe, kept
    <2>2. old \in Flows /\ old # f /\ kept[old] # None
      BY <1>2, <2>1 DEF Oldest, Present
    <2>3. table \in [Flows -> Nat \cup {None}]
      BY <1>1, <2>1
    <2>4. \A g \in Flows : table[g] = IF g = f THEN at ELSE IF g = old THEN None ELSE kept[g]
      BY <1>1, <2>1, <2>2
    <2>5. Present(table) = (Present(kept) \ {old}) \cup {f}
      BY <1>1, <2>4 DEF Present
    <2>6. f \notin Present(kept)
      BY <1>2 DEF Present
    <2>7. QED
      BY <1>2, <2>1, <2>3, <2>5, <2>6 DEF kept
  <1>3. CASE ~(kept[f] = None /\ Full(kept))
    <2>1. table = [kept EXCEPT ![f] = at]
      BY <1>3 DEF Observe, kept
    <2>2. table \in [Flows -> Nat \cup {None}] /\ Present(table) = Present(kept) \cup {f}
      BY <1>1, <2>1 DEF Present
    <2>3. f \in Present(kept) \/ ~Full(kept)
      BY <1>3 DEF Present
    <2>4. QED
      BY <2>2, <2>3 DEF kept
  <1>4. QED
    BY <1>2, <1>3

\* observe() keeps the table within its maximum.
LEMMA ObserveBounded ==
  ASSUME Inv, NEW f \in Flows, NEW at \in Nat, NEW table \in Observe(f, at)
  PROVE  IsFiniteSet(Present(table)) /\ Cardinality(Present(table)) <= MaxFlows
  <1> DEFINE kept == Present(Retained(at))
  <1>1. kept \subseteq Present(flows)
    BY RetainedType DEF Inv
  <1>2. IsFiniteSet(kept) /\ Cardinality(kept) <= Cardinality(Present(flows))
    BY <1>1, FS_Subset DEF Inv
  <1>3. Cardinality(kept) \in Nat /\ Cardinality(kept) <= MaxFlows /\ MaxFlows \in Nat
    BY <1>2, FS_CardinalityType, SnifferAssumption DEF Inv, TableBounded
  <1> HIDE DEF kept
  <1>4. CASE Present(table) = kept \cup {f} /\ f \in kept
    <2>1. Present(table) = kept
      BY <1>4
    <2>2. QED
      BY <1>2, <1>3, <2>1
  <1>5. CASE Present(table) = kept \cup {f} /\ f \notin kept /\ ~Full(Retained(at))
    <2>1. Cardinality(kept) < MaxFlows
      BY <1>3, <1>5 DEF Full, kept
    <2>2. IsFiniteSet(kept \cup {f}) /\ Cardinality(kept \cup {f}) = Cardinality(kept) + 1
      BY <1>2, <1>5, FS_AddElement
    <2>3. QED
      BY <1>3, <1>5, <2>1, <2>2
  <1>6. ASSUME NEW old \in Oldest(Retained(at)), f \notin kept, Present(table) = (kept \ {old}) \cup {f}
        PROVE  IsFiniteSet(Present(table)) /\ Cardinality(Present(table)) <= MaxFlows
    <2>1. old \in kept
      BY DEF Oldest, kept
    <2>2. IsFiniteSet(kept \ {old}) /\ Cardinality(kept \ {old}) = Cardinality(kept) - 1
      BY <1>2, <2>1, FS_RemoveElement
    <2>3. f \notin kept \ {old}
      BY <1>6
    <2>4. /\ IsFiniteSet((kept \ {old}) \cup {f})
          /\ Cardinality((kept \ {old}) \cup {f}) = Cardinality(kept \ {old}) + 1
      BY <2>2, <2>3, FS_AddElement
    <2>5. QED
      BY <1>3, <1>6, <2>2, <2>4
  <1>7. QED
    BY <1>4, <1>5, <1>6, ObserveShape DEF Inv, kept

(***************************************************************************)
(* The theorems                                                            *)
(***************************************************************************)

\* Only the dispatch of a frame changes the table, and only through observe().
LEMMA TableStep ==
  ASSUME Inv, [Next]_vars
  PROVE  \/ flows' = flows
         \/ frame # None /\ flows' \in Observe(frame.flow, frame.at)
  BY DEF Next, vars, Clock, Reload, Dispatch, Track, Capture

\* The invariant holds of every behaviour.
LEMMA InvHolds == Spec => []Inv
  <1>1. ASSUME Init PROVE Inv
    <2>1. Present(flows) = {} /\ TypeOK
      BY <1>1 DEF Init, Present, TypeOK
    <2>2. IsFiniteSet(Present(flows)) /\ Cardinality(Present(flows)) = 0
      BY <2>1, FS_EmptySet
    <2>3. QED
      BY <2>1, <2>2, SnifferAssumption DEF Inv, TableBounded
  <1>2. ASSUME Inv, [Next]_vars PROVE Inv'
    <2>0. TypeOK
      BY <1>2 DEF Inv
    <2>1. (now \in Nat)' /\ (frame # None => frame.flow \in Flows /\ frame.at \in Nat)'
      BY <1>2, <2>0 DEF Next, vars, Clock, Reload, Dispatch, Capture, TypeOK
    <2>2. CASE flows' = flows
      BY <1>2, <2>0, <2>1, <2>2 DEF Inv, TypeOK, TableBounded, Present
    <2>3. CASE frame # None /\ flows' \in Observe(frame.flow, frame.at)
      <3>1. frame.flow \in Flows /\ frame.at \in Nat
        BY <2>0, <2>3 DEF TypeOK
      <3>2. (flows \in [Flows -> Nat \cup {None}])'
        BY <2>0, <2>3, <3>1, ObserveShape
      <3>3. IsFiniteSet(Present(flows')) /\ Cardinality(Present(flows')) <= MaxFlows
        BY <1>2, <2>3, <3>1, ObserveBounded
      <3>4. QED
        BY <2>1, <3>2, <3>3 DEF Inv, TypeOK, TableBounded, Present
    <2>4. QED
      BY <1>2, <2>2, <2>3, TableStep
  <1>3. QED
    BY <1>1, <1>2, PTL DEF Spec

\* The flow table never outgrows its maximum, whatever traffic comes (FlowTable::observe).
THEOREM FlowTableBounded == Spec => []TableBounded
  <1>1. Inv => TableBounded
    BY DEF Inv
  <1>2. QED
    BY <1>1, InvHolds, PTL

\* A flow that is not idle leaves the table only for a new one, when the table is full
\* of flows that are not idle, and only if none was heard longer ago
\* (retain and min_by_key in FlowTable::observe).
THEOREM OnlyOldestEvicted == Spec => EvictsOldest
  <1>1. ASSUME Inv, [Next]_vars, NEW f \in Present(flows),
               flows'[f] = None, frame.at - flows[f] < Idle
        PROVE  LET active == {g \in Present(flows) : frame.at - flows[g] < Idle} IN
               /\ Cardinality(active) = MaxFlows /\ frame.flow \notin active
               /\ \A g \in active : flows[f] <= flows[g]
    <2> DEFINE active == {g \in Present(flows) : frame.at - flows[g] < Idle}
               kept == Retained(frame.at)
    <2>0. TypeOK /\ f \in Flows /\ flows[f] # None /\ f \in active
      BY <1>1 DEF Inv, Present
    <2>1. frame # None /\ flows' \in Observe(frame.flow, frame.at)
      BY <1>1, <2>0, TableStep
    <2>2. frame.flow \in Flows /\ frame.at \in Nat
      BY <2>0, <2>1 DEF TypeOK
    <2>3. Present(kept) = active /\ kept \in [Flows -> Nat \cup {None}]
      BY <2>0, <2>2, RetainedType
    <2>4. f \notin Present(flows')
      BY <1>1 DEF Present
    <2>5. /\ frame.flow \notin Present(kept) /\ Full(kept)
          /\ \E old \in Oldest(kept) : Present(flows') = (Present(kept) \ {old}) \cup {frame.flow}
      BY <2>0, <2>1, <2>2, <2>3, <2>4, ObserveShape
    <2>6. f \in Oldest(kept)
      BY <2>0, <2>3, <2>4, <2>5
    <2>7. \A g \in active : kept[g] = flows[g]
      BY <2>2 DEF Retained, Present
    <2>8. \A g \in active : flows[f] <= flows[g]
      BY <2>0, <2>3, <2>6, <2>7 DEF Oldest
    <2>9. Cardinality(active) = MaxFlows
      <3>1. IsFiniteSet(Present(flows)) /\ active \subseteq Present(flows)
        BY <1>1 DEF Inv
      <3>2. Cardinality(active) \in Nat /\ Cardinality(active) <= Cardinality(Present(flows))
        BY <3>1, FS_Subset, FS_CardinalityType
      <3>3. Cardinality(Present(flows)) \in Nat /\ Cardinality(Present(flows)) <= MaxFlows
        BY <1>1, <3>1, FS_CardinalityType DEF Inv, TableBounded
      <3>4. Cardinality(active) >= MaxFlows
        BY <2>3, <2>5 DEF Full
      <3>5. QED
        BY <3>2, <3>3, <3>4, SnifferAssumption
    <2>10. QED
      BY <2>3, <2>5, <2>8, <2>9
  <1>2. ASSUME Inv, [Next]_vars
        PROVE  \A f \in Present(flows) :
                 flows'[f] = None /\ frame.at - flows[f] < Idle =>
                   LET active == {g \in Present(flows) : frame.at - flows[g] < Idle} IN
                   /\ Cardinality(active) = MaxFlows /\ frame.flow \notin active
                   /\ \A g \in active : flows[f] <= flows[g]
    BY <1>1, <1>2
  <1>3. QED
    BY <1>2, InvHolds, PTL DEF Spec, EvictsOldest

(***************************************************************************)
(* When a flow counts as a new connection                                  *)
(***************************************************************************)

\* The time the table has been brought up to, at the latest: frames are handled in
\* the order of their capture.
Reached == IF frame = None THEN now ELSE frame.at

\* A flow in the table has the time it was last heard; one that was heard and is
\* not in the table has been silent for the idle time.
HeardInv ==
  /\ heard \in [Flows -> Nat \cup {None}]
  /\ frame # None => frame.at <= now
  /\ \A f \in Flows :
       /\ flows[f] # None => heard[f] = flows[f] /\ flows[f] <= Reached
       /\ flows[f] = None /\ heard[f] # None => Reached - heard[f] >= Idle

\* The clock and the captures only move Reached forward.
LEMMA ReachedGrows ==
  ASSUME TypeOK, HeardInv, [Next]_vars
  PROVE  /\ Reached \in Nat /\ Reached' \in Nat /\ Reached <= Reached'
         /\ (frame # None => frame.at <= now)'
  <1>1. now \in Nat /\ now' \in Nat /\ now <= now'
    BY DEF TypeOK, Next, vars, Clock, Reload, Dispatch, Capture
  <1>2. frame # None => frame.at \in Nat /\ frame.at <= now
    BY DEF TypeOK, HeardInv
  <1>3. CASE frame' = frame
    BY <1>1, <1>2, <1>3 DEF Reached
  <1>4. CASE frame # None /\ frame' = None
    BY <1>1, <1>2, <1>4 DEF Reached
  <1>5. CASE frame = None /\ frame'.at = now /\ now' = now
    BY <1>1, <1>5 DEF Reached
  <1>6. QED
    BY <1>3, <1>4, <1>5 DEF Next, vars, Clock, Reload, Dispatch, Capture

\* Every step preserves HeardInv: a frame that removes a flow for its silence keeps
\* the time it was heard, one that evicts it forgets it.
LEMMA HeardStep ==
  ASSUME TypeOK, HeardInv, [Next]_vars
  PROVE  HeardInv'
  <1>1. /\ Reached \in Nat /\ Reached' \in Nat /\ Reached <= Reached'
        /\ (frame # None => frame.at <= now)'
    BY ReachedGrows
  <1>2. CASE flows' = flows /\ heard' = heard
    BY <1>1, <1>2, SnifferAssumption DEF HeardInv, TypeOK
  <1>3. CASE Dispatch /\ Observers # {}
    <2> DEFINE f == frame.flow
               at == frame.at
               kept == Retained(at)
    <2>1. f \in Flows /\ at \in Nat /\ at # None /\ frame # None /\ Reached = at
      BY <1>3, SnifferAssumption DEF Dispatch, TypeOK, Reached
    <2>2. /\ flows' \in Observe(f, at)
          /\ heard' = [g \in Flows |->
               IF g = f THEN at
               ELSE IF flows'[g] = None /\ kept[g] # None THEN None ELSE heard[g]]
      BY <1>3 DEF Dispatch, Track
    <2>3. kept = [g \in Flows |-> IF flows[g] # None /\ at - flows[g] < Idle THEN flows[g] ELSE None]
      BY DEF Retained
    <2>4. kept \in [Flows -> Nat \cup {None}]
      BY <2>1, RetainedType
    <2> HIDE DEF kept
    <2>5. flows' \in [Flows -> Nat \cup {None}] /\ flows'[f] = at
          /\ \A g \in Flows \ {f} : flows'[g] = kept[g] \/ flows'[g] = None
      BY <2>1, <2>2, <2>4 DEF Observe, kept, Oldest, Present
    <2>6. heard' \in [Flows -> Nat \cup {None}]
      BY <2>1, <2>2 DEF HeardInv
    <2>7. ASSUME NEW g \in Flows
          PROVE  /\ flows'[g] # None => heard'[g] = flows'[g] /\ flows'[g] <= Reached'
                 /\ flows'[g] = None /\ heard'[g] # None => Reached' - heard'[g] >= Idle
      <3>1. CASE g = f
        BY <1>1, <2>1, <2>2, <2>5, <3>1
      <3>2. CASE g # f /\ flows'[g] # None
        <4>1. flows'[g] = flows[g] /\ flows[g] # None
          BY <2>3, <2>5, <3>2
        <4>2. heard'[g] = heard[g]
          BY <2>2, <3>2
        <4>3. heard[g] = flows[g] /\ flows[g] <= Reached /\ flows[g] \in Nat
          BY <4>1 DEF HeardInv, TypeOK
        <4>4. QED
          BY <1>1, <3>2, <4>1, <4>2, <4>3
      <3>3. CASE g # f /\ flows'[g] = None /\ heard'[g] # None
        <4>1. kept[g] = None /\ heard'[g] = heard[g]
          BY <2>2, <3>3
        <4>2. flows[g] = None \/ at - flows[g] >= Idle
          BY <2>1, <2>3, <4>1, SnifferAssumption DEF TypeOK
        <4>3. heard[g] \in Nat /\ Reached - heard[g] >= Idle
          BY <2>1, <3>3, <4>1, <4>2 DEF HeardInv
        <4>4. QED
          BY <1>1, <3>3, <4>1, <4>3, SnifferAssumption
      <3>4. QED
        BY <3>1, <3>2, <3>3
    <2>8. QED
      BY <1>1, <2>6, <2>7 DEF HeardInv
  <1>4. QED
    BY <1>2, <1>3 DEF Next, vars, Clock, Reload, Dispatch, Track, Capture

\* The invariants of the flow table hold of every behaviour.
LEMMA TableInvHolds == Spec => [](Inv /\ HeardInv)
  <1>1. Init => HeardInv
    BY SnifferAssumption DEF Init, HeardInv
  <1>2. Inv /\ HeardInv /\ [Next]_vars => HeardInv'
    BY HeardStep DEF Inv
  <1>3. QED
    BY <1>1, <1>2, InvHolds, PTL DEF Spec

\* What they say about the flow of the frame in hand.
LEMMA NewIfSilent == Inv /\ HeardInv => NewWhenSilent
  <1> SUFFICES ASSUME TypeOK, HeardInv, frame # None
               PROVE  IsNew(frame.flow, frame.at) <=>
                        (heard[frame.flow] = None \/ frame.at - heard[frame.flow] >= Idle)
    BY DEF Inv, NewWhenSilent
  <1>1. frame.flow \in Flows /\ frame.at \in Nat /\ Reached = frame.at
    BY DEF TypeOK, Reached
  <1>2. IsNew(frame.flow, frame.at) <=>
          (flows[frame.flow] = None \/ frame.at - flows[frame.flow] >= Idle)
    BY <1>1, SnifferAssumption DEF IsNew, Retained, TypeOK
  <1>3. QED
    BY <1>1, <1>2 DEF HeardInv, TypeOK

\* observe() finds a flow new exactly when no connection rule has seen it for the
\* idle time or since its eviction, whatever other flows do to the table in between
\* (retain in FlowTable::observe).
THEOREM NewAfterSilence == Spec => []NewWhenSilent
  BY TableInvHolds, NewIfSilent, PTL

(***************************************************************************)
(* Sums over finite sets                                                   *)
(***************************************************************************)

\* A non-empty set of natural numbers has a least element: the form in which the
\* proofs below use induction.
LEMMA LeastNat ==
  ASSUME NEW T, T \subseteq Nat, T # {}
  PROVE  \E x \in T : \A y \in T : x <= y
  <1>1. PICK x \in T : \A y \in T : ~(<<y, x>> \in OpToRel(<, Nat))
    BY NatLessThanWellFounded, WFMin, Zenon
  <1>2. ASSUME NEW y \in T PROVE x <= y
    <2>1. x \in Nat /\ y \in Nat
      OBVIOUS
    <2>2. ~(y < x)
      BY <1>1, <2>1 DEF OpToRel
    <2>3. QED BY <2>1, <2>2
  <1>3. QED BY <1>2

\* A non-empty family of finite sets has a smallest member.
LEMMA Smallest ==
  ASSUME NEW B, B # {}, \A s \in B : IsFiniteSet(s)
  PROVE  \E s \in B : \A u \in B : Cardinality(s) <= Cardinality(u)
  <1> DEFINE T == {Cardinality(s) : s \in B}
  <1>1. T \subseteq Nat /\ T # {}
    BY FS_CardinalityType
  <1>2. PICK x \in T : \A y \in T : x <= y
    <2> HIDE DEF T
    <2>1. QED BY <1>1, LeastNat
  <1>3. QED BY <1>2

\* One element less.
LEMMA OneLess ==
  ASSUME NEW s, IsFiniteSet(s), NEW x \in s
  PROVE  /\ IsFiniteSet(s \ {x})
         /\ Cardinality(s \ {x}) \in Nat /\ Cardinality(s) \in Nat
         /\ Cardinality(s \ {x}) = Cardinality(s) - 1
  BY FS_RemoveElement, FS_CardinalityType

\* The element that a sum takes from a set.
Taken(s) == CHOOSE x \in s : TRUE

\* The equation that defines the sum of f over the members of a family of sets.
SumsUp(f, D, g) ==
  g = [s \in D |-> IF s = {} THEN 0 ELSE f[Taken(s)] + g[s \ {Taken(s)}]]

\* It has one solution on a family that is closed under taking elements.
LEMMA SumUnique ==
  ASSUME NEW f, NEW D, NEW g, NEW h, SumsUp(f, D, g), SumsUp(f, D, h),
         \A s \in D : IsFiniteSet(s) /\ s \ {Taken(s)} \in D
  PROVE  g = h
  <1> DEFINE B == {s \in D : g[s] # h[s]}
  <1>0. g = [s \in D |-> g[s]] /\ h = [s \in D |-> h[s]]
    BY DEF SumsUp
  <1>1. SUFFICES ASSUME B # {} PROVE FALSE
    BY <1>0
  <1>2. PICK s \in B : \A u \in B : Cardinality(s) <= Cardinality(u)
    <2>1. \A u \in B : IsFiniteSet(u)
      OBVIOUS
    <2> HIDE DEF B
    <2>2. QED BY <1>1, <2>1, Smallest
  <1>3. s # {} /\ Taken(s) \in s
    BY <1>2 DEF SumsUp, Taken
  <1> DEFINE u == s \ {Taken(s)}
  <1>4. u \in D /\ ~(Cardinality(s) <= Cardinality(u))
    BY <1>3, OneLess
  <1>5. g[u] = h[u]
    BY <1>2, <1>4
  <1>6. g[s] = h[s]
    BY <1>3, <1>5 DEF SumsUp
  <1>7. QED BY <1>6

\* It has a solution on the subsets of a finite set.
LEMMA SumExists ==
  ASSUME NEW f, NEW S, IsFiniteSet(S)
  PROVE  \E g : SumsUp(f, SUBSET S, g)
  <1> DEFINE D(n) == {s \in SUBSET S : Cardinality(s) < n}
             B == {n \in Nat : ~ \E g : SumsUp(f, D(n), g)}
  <1>0. \A s \in SUBSET S : IsFiniteSet(s) /\ Cardinality(s) \in Nat
                            /\ Cardinality(s) < Cardinality(S) + 1
    BY FS_Subset, FS_CardinalityType
  <1>1. SUBSET S = D(Cardinality(S) + 1) /\ Cardinality(S) + 1 \in Nat
    BY <1>0, FS_CardinalityType
  <1>2. SUFFICES ASSUME B # {} PROVE FALSE
    BY <1>1
  <1>3. PICK n \in B : \A m \in B : n <= m
    <2>1. B \subseteq Nat
      OBVIOUS
    <2> HIDE DEF B
    <2>2. QED BY <1>2, <2>1, LeastNat
  <1>4. CASE n = 0
    <2>1. D(0) = {}
      BY <1>0
    <2>2. SumsUp(f, D(0), [s \in D(0) |-> 0])
      BY <2>1 DEF SumsUp
    <2>3. QED BY <1>3, <1>4, <2>2
  <1>5. CASE n # 0
    <2>1. n \in Nat /\ n - 1 \in Nat /\ n - 1 \notin B
      <3>1. n \in Nat
        OBVIOUS
      <3> HIDE DEF B
      <3>2. QED BY <1>3, <1>5, <3>1
    <2>2. PICK g : SumsUp(f, D(n - 1), g)
      BY <2>1
    <2> DEFINE h == [s \in D(n) |-> IF s = {} THEN 0 ELSE f[Taken(s)] + g[s \ {Taken(s)}]]
    <2>3. ASSUME NEW s \in D(n - 1) PROVE s \in D(n) /\ h[s] = g[s]
      <3>1. s \in D(n)
        BY <1>0, <2>1
      <3>2. g[s] = IF s = {} THEN 0 ELSE f[Taken(s)] + g[s \ {Taken(s)}]
        BY <2>2 DEF SumsUp
      <3> HIDE DEF D
      <3>3. QED BY <3>1, <3>2
    <2>4. ASSUME NEW s \in D(n), s # {} PROVE s \ {Taken(s)} \in D(n - 1)
      <3>1. Taken(s) \in s
        BY <2>4 DEF Taken
      <3>2. Cardinality(s \ {Taken(s)}) = Cardinality(s) - 1 /\ Cardinality(s) \in Nat
        BY <1>0, <3>1, OneLess
      <3>3. QED BY <2>1, <3>2
    <2>5. SumsUp(f, D(n), h)
      BY <2>3, <2>4 DEF SumsUp
    <2>6. QED BY <1>3, <2>5
  <1>6. QED BY <1>4, <1>5

\* The sum over a finite set takes its elements one by one.
LEMMA SumDef ==
  ASSUME NEW f, NEW S, IsFiniteSet(S)
  PROVE  SumFunctionOnSet(f, S) =
           IF S = {} THEN 0 ELSE f[Taken(S)] + SumFunctionOnSet(f, S \ {Taken(S)})
  <1> DEFINE G(T) == CHOOSE g : SumsUp(f, SUBSET T, g)
  <1>1. \A T : SumFunctionOnSet(f, T) = G(T)[T]
    BY DEF SumFunctionOnSet, FoldFunctionOnSet, MapThenFoldSet, SumsUp, Taken
  <1>2. \A T : IsFiniteSet(T) => SumsUp(f, SUBSET T, G(T))
    BY SumExists
  <1> HIDE DEF G
  <1>3. CASE S = {}
    BY <1>1, <1>2, <1>3 DEF SumsUp
  <1>4. CASE S # {}
    <2> DEFINE T == S \ {Taken(S)}
               g == G(S)
               h == [s \in SUBSET T |-> g[s]]
    <2>1. Taken(S) \in S
      BY <1>4 DEF Taken
    <2>2. IsFiniteSet(T) /\ T \in SUBSET S
      BY <2>1, OneLess
    <2>3. SumsUp(f, SUBSET S, g)
      BY <1>2
    <2>4. SumsUp(f, SUBSET T, h)
      <3> HIDE DEF g
      <3>1. QED BY <2>2, <2>3 DEF SumsUp
    <2>5. \A s \in SUBSET T : IsFiniteSet(s) /\ s \ {Taken(s)} \in SUBSET T
      BY <2>2, FS_Subset
    <2>6. G(T) = h
      <3>1. SumsUp(f, SUBSET T, G(T))
        BY <1>2, <2>2
      <3> HIDE DEF h, T
      <3>2. QED BY <2>4, <2>5, <3>1, SumUnique
    <2>7. G(T)[T] = g[T]
      BY <2>6
    <2>8. g[S] = f[Taken(S)] + g[T]
      BY <1>4, <2>3 DEF SumsUp
    <2>9. QED
      BY <1>1, <1>4, <2>7, <2>8
  <1>5. QED BY <1>3, <1>4

\* A sum of natural numbers is one.
LEMMA SumNat ==
  ASSUME NEW f, NEW S, IsFiniteSet(S), \A x \in S : f[x] \in Nat
  PROVE  SumFunctionOnSet(f, S) \in Nat
  <1> DEFINE B == {s \in SUBSET S : SumFunctionOnSet(f, s) \notin Nat}
  <1>0. \A s \in SUBSET S : IsFiniteSet(s)
    BY FS_Subset
  <1>1. SUFFICES ASSUME B # {} PROVE FALSE
    OBVIOUS
  <1>2. PICK s \in B : \A u \in B : Cardinality(s) <= Cardinality(u)
    <2>1. \A u \in B : IsFiniteSet(u)
      BY <1>0
    <2> HIDE DEF B
    <2>2. QED BY <1>1, <2>1, Smallest
  <1>3. SumFunctionOnSet(f, s) =
          IF s = {} THEN 0 ELSE f[Taken(s)] + SumFunctionOnSet(f, s \ {Taken(s)})
    BY <1>0, SumDef
  <1>4. s # {} /\ Taken(s) \in s /\ f[Taken(s)] \in Nat
    BY <1>2, <1>3 DEF Taken
  <1>5. s \ {Taken(s)} \in SUBSET S /\ ~(Cardinality(s) <= Cardinality(s \ {Taken(s)}))
    BY <1>0, <1>4, OneLess
  <1>6. SumFunctionOnSet(f, s \ {Taken(s)}) \in Nat
    BY <1>2, <1>5
  <1>7. QED
    BY <1>3, <1>4, <1>6

\* A sum does not depend on which element it takes first.
LEMMA SumRemove ==
  ASSUME NEW f, NEW S, IsFiniteSet(S), \A x \in S : f[x] \in Nat, NEW x \in S
  PROVE  SumFunctionOnSet(f, S) = f[x] + SumFunctionOnSet(f, S \ {x})
  <1> DEFINE B == {s \in SUBSET S : \E y \in s :
                     SumFunctionOnSet(f, s) # f[y] + SumFunctionOnSet(f, s \ {y})}
  <1>0. \A s \in SUBSET S : IsFiniteSet(s) /\ SumFunctionOnSet(f, s) \in Nat
    BY FS_Subset, SumNat
  <1>1. SUFFICES ASSUME B # {} PROVE FALSE
    OBVIOUS
  <1>2. PICK s \in B : \A u \in B : Cardinality(s) <= Cardinality(u)
    <2>1. \A u \in B : IsFiniteSet(u)
      BY <1>0
    <2> HIDE DEF B
    <2>2. QED BY <1>1, <2>1, Smallest
  <1>3. PICK y \in s : SumFunctionOnSet(f, s) # f[y] + SumFunctionOnSet(f, s \ {y})
    BY <1>2
  <1>4. PICK z \in s : z = Taken(s)
    BY <1>3 DEF Taken
  <1>5. SumFunctionOnSet(f, s) = f[z] + SumFunctionOnSet(f, s \ {z})
    BY <1>0, <1>3, <1>4, SumDef
  <1>6. z # y
    BY <1>3, <1>5
  <1>7. ASSUME NEW u \in s, NEW v \in s \ {u}
        PROVE  SumFunctionOnSet(f, s \ {u}) = f[v] + SumFunctionOnSet(f, (s \ {u}) \ {v})
    <2>1. s \ {u} \in SUBSET S /\ ~(Cardinality(s) <= Cardinality(s \ {u}))
      BY <1>0, OneLess
    <2>2. s \ {u} \notin B
      BY <1>2, <2>1
    <2>3. QED BY <2>1, <2>2
  <1>8. (s \ {y}) \ {z} = (s \ {z}) \ {y}
    OBVIOUS
  <1>9. PICK w \in Nat : w = SumFunctionOnSet(f, (s \ {z}) \ {y})
    BY <1>0
  <1>10. SumFunctionOnSet(f, s \ {z}) = f[y] + w /\ SumFunctionOnSet(f, s \ {y}) = f[z] + w
    BY <1>6, <1>7, <1>8, <1>9
  <1>11. f[y] \in Nat /\ f[z] \in Nat
    OBVIOUS
  <1>12. QED
    BY <1>3, <1>5, <1>9, <1>10, <1>11

\* A sum depends only on the values it adds.
LEMMA SumSame ==
  ASSUME NEW f, NEW g, NEW S, IsFiniteSet(S), \A x \in S : f[x] = g[x]
  PROVE  SumFunctionOnSet(f, S) = SumFunctionOnSet(g, S)
  <1> DEFINE B == {s \in SUBSET S : SumFunctionOnSet(f, s) # SumFunctionOnSet(g, s)}
  <1>0. \A s \in SUBSET S : IsFiniteSet(s)
    BY FS_Subset
  <1>1. SUFFICES ASSUME B # {} PROVE FALSE
    OBVIOUS
  <1>2. PICK s \in B : \A u \in B : Cardinality(s) <= Cardinality(u)
    <2>1. \A u \in B : IsFiniteSet(u)
      BY <1>0
    <2> HIDE DEF B
    <2>2. QED BY <1>1, <2>1, Smallest
  <1>3. \A h : SumFunctionOnSet(h, s) =
                  IF s = {} THEN 0 ELSE h[Taken(s)] + SumFunctionOnSet(h, s \ {Taken(s)})
    BY <1>0, SumDef
  <1>4. s # {} /\ Taken(s) \in s /\ f[Taken(s)] = g[Taken(s)]
    BY <1>2, <1>3 DEF Taken
  <1>5. s \ {Taken(s)} \in SUBSET S /\ ~(Cardinality(s) <= Cardinality(s \ {Taken(s)}))
    BY <1>0, <1>4, OneLess
  <1>6. SumFunctionOnSet(f, s \ {Taken(s)}) = SumFunctionOnSet(g, s \ {Taken(s)})
    BY <1>2, <1>5
  <1>7. QED
    BY <1>2, <1>3, <1>4, <1>6

\* A sum of which one summand changes.
LEMMA SumUpdate ==
  ASSUME NEW f, NEW g, NEW S, IsFiniteSet(S), NEW x \in S, NEW d \in Nat,
         \A y \in S : f[y] \in Nat,
         \A y \in S : g[y] = IF y = x THEN f[y] + d ELSE f[y]
  PROVE  SumFunctionOnSet(g, S) = SumFunctionOnSet(f, S) + d
  <1>1. \A y \in S : g[y] \in Nat
    OBVIOUS
  <1>2. /\ SumFunctionOnSet(f, S) = f[x] + SumFunctionOnSet(f, S \ {x})
        /\ SumFunctionOnSet(g, S) = g[x] + SumFunctionOnSet(g, S \ {x})
    BY <1>1, SumRemove
  <1>3. IsFiniteSet(S \ {x}) /\ \A y \in S \ {x} : f[y] = g[y] /\ f[y] \in Nat
    BY OneLess
  <1>4. SumFunctionOnSet(f, S \ {x}) = SumFunctionOnSet(g, S \ {x})
    BY <1>3, SumSame
  <1>5. SumFunctionOnSet(f, S \ {x}) \in Nat /\ f[x] \in Nat /\ g[x] = f[x] + d
    BY <1>3, SumNat
  <1>6. QED BY <1>2, <1>4, <1>5

\* A sum of zeros.
LEMMA SumZero ==
  ASSUME NEW f, NEW S, IsFiniteSet(S), \A x \in S : f[x] = 0
  PROVE  SumFunctionOnSet(f, S) = 0
  <1> DEFINE B == {s \in SUBSET S : SumFunctionOnSet(f, s) # 0}
  <1>0. \A s \in SUBSET S : IsFiniteSet(s)
    BY FS_Subset
  <1>1. SUFFICES ASSUME B # {} PROVE FALSE
    OBVIOUS
  <1>2. PICK s \in B : \A u \in B : Cardinality(s) <= Cardinality(u)
    <2>1. \A u \in B : IsFiniteSet(u)
      BY <1>0
    <2> HIDE DEF B
    <2>2. QED BY <1>1, <2>1, Smallest
  <1>3. SumFunctionOnSet(f, s) =
          IF s = {} THEN 0 ELSE f[Taken(s)] + SumFunctionOnSet(f, s \ {Taken(s)})
    BY <1>0, SumDef
  <1>4. s # {} /\ Taken(s) \in s /\ f[Taken(s)] = 0
    BY <1>2, <1>3 DEF Taken
  <1>5. s \ {Taken(s)} \in SUBSET S /\ ~(Cardinality(s) <= Cardinality(s \ {Taken(s)}))
    BY <1>0, <1>4, OneLess
  <1>6. SumFunctionOnSet(f, s \ {Taken(s)}) = 0
    BY <1>2, <1>5
  <1>7. QED
    BY <1>2, <1>3, <1>4, <1>6

(***************************************************************************)
(* How often a connection is counted                                       *)
(***************************************************************************)

\* The types of what is counted; the rules of a frame are those of a configuration.
CountTypes ==
  /\ live \in DOMAIN Configs
  /\ counters \in [Clients -> [RuleIds -> Nat]]
  /\ lives \in [Flows -> Nat]
  /\ frame # None => \E k \in DOMAIN Configs : frame.rules = Configs[k].rules

\* The ids of some rules are ids of rules.
LEMMA IdsAreRuleIds ==
  ASSUME NEW metric, NEW protocol
  PROVE  IdsWhere(metric, protocol) \subseteq RuleIds
  <1> SUFFICES ASSUME NEW x \in AllRules PROVE x.id \in RuleIds
    BY DEF IdsWhere
  <1>1. PICK k \in DOMAIN Configs :
          \E j \in DOMAIN Configs[k].rules : x = Configs[k].rules[j]
    BY DEF AllRules, RulesOf
  <1>2. Configs[k].rules \in Seq(Rule)
    BY SnifferAssumption
  <1>3. x \in Rule
    BY <1>1, <1>2
  <1>4. QED BY <1>3 DEF Rule

\* The rules of a frame are finitely many known rules.
LEMMA FrameRules ==
  ASSUME CountTypes, frame # None
  PROVE  /\ IsFiniteSet(DOMAIN frame.rules) /\ DOMAIN frame.rules \subseteq Nat
         /\ \A i \in DOMAIN frame.rules :
              frame.rules[i] \in AllRules /\ frame.rules[i].id \in RuleIds
  <1>1. PICK k \in DOMAIN Configs : frame.rules = Configs[k].rules
    BY DEF CountTypes
  <1>2. frame.rules \in Seq(Rule)
    BY <1>1, SnifferAssumption
  <1>3. PICK n \in Nat : DOMAIN frame.rules = 1 .. n
    BY <1>2
  <1>4. IsFiniteSet(DOMAIN frame.rules) /\ DOMAIN frame.rules \subseteq Nat
    BY <1>3, FS_Interval
  <1>5. \A i \in DOMAIN frame.rules : frame.rules[i] \in AllRules
    BY <1>1 DEF AllRules, RulesOf
  <1>6. \A i \in DOMAIN frame.rules : frame.rules[i].id \in RuleIds
    <2>1. \A i \in DOMAIN frame.rules : frame.rules[i] \in Rule
      BY <1>2
    <2>2. \A x \in Rule : x.id \in RuleIds
      BY DEF Rule
    <2>3. QED BY <2>1, <2>2
  <1>7. QED BY <1>4, <1>5, <1>6

\* A frame adds natural numbers.
LEMMA AddedType ==
  ASSUME CountTypes, frame # None
  PROVE  /\ \A i : Amount(i) \in Nat
         /\ Added \in [RuleIds -> Nat]
  <1>1. \A i : Amount(i) \in Nat
    BY DEF Amount, Units, Bytes, UnitBytes
  <1> DEFINE amounts == [i \in DOMAIN frame.rules |-> Amount(i)]
             Places(r) == {i \in DOMAIN frame.rules : frame.rules[i].id = r}
  <1>2. ASSUME NEW r \in RuleIds PROVE SumFunctionOnSet(amounts, Places(r)) \in Nat
    <2>1. IsFiniteSet(Places(r)) /\ \A i \in Places(r) : amounts[i] \in Nat
      BY <1>1, FrameRules, FS_Subset
    <2> HIDE DEF amounts, Places
    <2>2. QED BY <2>1, SumNat
  <1>3. Added = [r \in RuleIds |-> SumFunctionOnSet(amounts, Places(r))]
    BY DEF Added
  <1>4. QED
    BY <1>1, <1>2, <1>3

\* The rule at place i counts the frame as a connection.
Counts(i) ==
  /\ i \in DOMAIN frame.rules /\ Opens(i)
  /\ MatchOk(frame.rules[i], Client[frame.flow])

\* A connection rule adds one if it is the first to observe a new flow and its match
\* expression holds, and nothing otherwise.
LEMMA ConnectionAmount ==
  ASSUME NEW i \in DOMAIN frame.rules, frame.rules[i].metric = "connections"
  PROVE  Amount(i) = IF Counts(i) THEN 1 ELSE 0
  <1>1. Opens(i) => Selects(frame.rules[i], L4(frame.flow), Port[frame.flow])
    BY DEF Opens, Observers
  <1>2. QED
    BY <1>1 DEF Amount, Counts

\* What a frame adds to the counter of connection rules.
LEMMA AddedConnections ==
  ASSUME CountTypes, StableRules, frame # None, NEW l4, NEW r \in IdsWhere("connections", l4)
  PROVE  /\ r \in RuleIds
         /\ \A i : Counts(i) /\ frame.rules[i].id = r =>
              Added[r] = 1 /\ frame.rules[i].protocol = l4
         /\ (\A i : Counts(i) => frame.rules[i].id # r) => Added[r] = 0
  <1> DEFINE amounts == [i \in DOMAIN frame.rules |-> Amount(i)]
             P == {i \in DOMAIN frame.rules : frame.rules[i].id = r}
  <1>1. PICK x \in AllRules : x.id = r /\ x.metric = "connections" /\ x.protocol = l4
    BY DEF IdsWhere
  <1>2. r \in RuleIds
    BY IdsAreRuleIds
  <1>3. Added[r] = SumFunctionOnSet(amounts, P)
    BY <1>2 DEF Added
  <1>4. IsFiniteSet(P)
    BY FrameRules, FS_Subset
  <1>5. \A i \in P : /\ frame.rules[i].metric = "connections" /\ frame.rules[i].protocol = l4
                     /\ amounts[i] = IF Counts(i) THEN 1 ELSE 0
    BY <1>1, FrameRules, ConnectionAmount DEF StableRules
  <1>6. ASSUME NEW i, Counts(i), frame.rules[i].id = r
        PROVE  Added[r] = 1 /\ frame.rules[i].protocol = l4
    <2>1. i \in P
      BY <1>6 DEF Counts
    <2>2. \A j \in P \ {i} : ~Counts(j)
      <3>1. \A j \in DOMAIN frame.rules : j \in Nat
        BY FrameRules
      <3>2. QED BY <1>6, <2>1, <3>1 DEF Counts, Opens
    <2> HIDE DEF P, amounts
    <2>3. IsFiniteSet(P \ {i}) /\ (\A j \in P \ {i} : amounts[j] = 0) /\ amounts[i] = 1
          /\ \A j \in P : amounts[j] \in Nat
      <3>1. IsFiniteSet(P \ {i})
        BY <1>4, <2>1, OneLess
      <3>2. QED BY <1>5, <1>6, <2>1, <2>2, <3>1
    <2>4. SumFunctionOnSet(amounts, P) = amounts[i] + SumFunctionOnSet(amounts, P \ {i})
      BY <1>4, <2>1, <2>3, SumRemove
    <2>5. SumFunctionOnSet(amounts, P \ {i}) = 0
      BY <2>3, SumZero
    <2>6. QED
      BY <1>3, <1>5, <2>1, <2>3, <2>4, <2>5
  <1>7. ASSUME \A i : Counts(i) => frame.rules[i].id # r
        PROVE  Added[r] = 0
    <2>1. \A i \in P : amounts[i] = 0
      BY <1>5, <1>7
    <2> HIDE DEF P, amounts
    <2>2. QED BY <1>3, <1>4, <2>1, SumZero
  <1>8. QED BY <1>2, <1>6, <1>7

\* What a dispatch does to the history of lives.
LEMMA LivesStep ==
  ASSUME Inv, HeardInv, NewWhenSilent, CountTypes, Dispatch
  PROVE  /\ frame # None /\ frame.flow \in Flows
         /\ lives' = [lives EXCEPT ![frame.flow] =
              @ + IF Observers # {} /\ IsNew(frame.flow, frame.at) THEN 1 ELSE 0]
         /\ \A c \in Clients : counters'[c] =
              IF c = Client[frame.flow] THEN [r \in RuleIds |-> counters[c][r] + Added[r]]
              ELSE counters[c]
  <1>1. frame # None /\ frame.flow \in Flows
    BY DEF Dispatch, Inv, TypeOK
  <1>2. IsNew(frame.flow, frame.at) <=>
          (heard[frame.flow] = None \/ frame.at - heard[frame.flow] >= Idle)
    BY <1>1 DEF NewWhenSilent
  <1>3. CASE Observers = {}
    <2>1. lives' = lives /\ lives[frame.flow] \in Nat
      BY <1>1, <1>3 DEF Dispatch, Track, CountTypes
    <2>2. lives = [lives EXCEPT ![frame.flow] = @ + 0]
      BY <1>1, <2>1 DEF CountTypes
    <2>3. lives' = [lives EXCEPT ![frame.flow] =
              @ + IF Observers # {} /\ IsNew(frame.flow, frame.at) THEN 1 ELSE 0]
      BY <1>3, <2>1, <2>2
    <2>4. QED
      BY <1>1, <2>3 DEF Dispatch, CountTypes
  <1>4. CASE Observers # {}
    <2>1. lives' = [lives EXCEPT ![frame.flow] = @ + IF heard[frame.flow] = None
                      \/ frame.at - heard[frame.flow] >= Idle THEN 1 ELSE 0]
      BY <1>4 DEF Dispatch, Track
    <2>2. lives' = [lives EXCEPT ![frame.flow] =
              @ + IF Observers # {} /\ IsNew(frame.flow, frame.at) THEN 1 ELSE 0]
      BY <1>2, <1>4, <2>1
    <2>3. QED
      BY <1>1, <2>2 DEF Dispatch, CountTypes
  <1>5. QED BY <1>3, <1>4

\* The types are preserved.
LEMMA CountTypesStep ==
  ASSUME Inv, HeardInv, NewWhenSilent, CountTypes, [Next]_vars
  PROVE  CountTypes'
  <1>1. CASE Dispatch
    <2>1. Client[frame.flow] \in Clients /\ frame # None
      BY <1>1, LivesStep DEF Clients
    <2>2. Added \in [RuleIds -> Nat]
      BY <2>1, AddedType
    <2>3. counters' \in [Clients -> [RuleIds -> Nat]]
      BY <1>1, <2>1, <2>2 DEF Dispatch, CountTypes
    <2>4. lives' \in [Flows -> Nat]
      BY <1>1, LivesStep DEF CountTypes
    <2>5. QED
      BY <1>1, <2>3, <2>4 DEF Dispatch, CountTypes
  <1>2. CASE \E f \in Flows, syn \in BOOLEAN, p \in Payloads : Capture(f, syn, p)
    <2>1. frame'.rules = Configs[live].rules
      BY <1>2 DEF Capture
    <2>2. QED
      BY <1>2, <2>1 DEF Capture, CountTypes
  <1>3. CASE Clock \/ Reload \/ UNCHANGED vars
    BY <1>3 DEF Clock, Reload, vars, CountTypes
  <1>4. QED
    BY <1>1, <1>2, <1>3 DEF Next

\* The connections counted for a client, and those that began.
Counted(c, l4) == Total(c, IdsWhere("connections", l4))
FlowsOf(c, l4) == {f \in Flows : Client[f] = c /\ L4(f) = l4}
Begun(c, l4) == SumFunctionOnSet(lives, FlowsOf(c, l4))

\* A dispatch counts a connection only if one begins, and does if no match expression
\* prevents it.
LEMMA DispatchCounts ==
  ASSUME Inv, HeardInv, NewWhenSilent, CountTypes, StableRules, Dispatch,
         IsFiniteSet(Flows), IsFiniteSet(RuleIds),
         NEW c \in Clients, NEW l4 \in {"tcp", "udp"}
  PROVE  \E m \in {0, 1}, n \in {0, 1} :
           /\ Counted(c, l4)' = Counted(c, l4) + m
           /\ Begun(c, l4)' = Begun(c, l4) + n
           /\ Counted(c, l4) \in Nat /\ Begun(c, l4) \in Nat
           /\ m <= n
           /\ (\A r \in AllRules : r.protocol = l4 => r.match = None) => m = n
  <1> DEFINE f == frame.flow
             ids == IdsWhere("connections", l4)
             S == FlowsOf(c, l4)
             new == IF Observers # {} /\ IsNew(f, frame.at) THEN 1 ELSE 0
  <1>1. /\ frame # None /\ f \in Flows /\ new \in {0, 1}
        /\ lives' = [lives EXCEPT ![f] = @ + new]
        /\ counters'[c] = IF c = Client[f] THEN [r \in RuleIds |-> counters[c][r] + Added[r]]
                          ELSE counters[c]
    BY LivesStep
  <1>2. /\ lives \in [Flows -> Nat] /\ counters[c] \in [RuleIds -> Nat]
        /\ S \subseteq Flows /\ ids \subseteq RuleIds
    BY <1>1, AddedConnections DEF CountTypes, FlowsOf
  <1>3. IsFiniteSet(S) /\ IsFiniteSet(ids)
    BY <1>2, FS_Subset
  <1>4. /\ Counted(c, l4) = SumFunctionOnSet(counters[c], ids)
        /\ Counted(c, l4)' = SumFunctionOnSet(counters'[c], ids)
        /\ Begun(c, l4) = SumFunctionOnSet(lives, S)
        /\ Begun(c, l4)' = SumFunctionOnSet(lives', S)
    BY DEF Counted, Total, Begun, IdsWhere, AllRules, RulesOf, FlowsOf, L4
  <1>5. Counted(c, l4) \in Nat /\ Begun(c, l4) \in Nat
    <2>1. (\A r \in ids : counters[c][r] \in Nat) /\ \A g \in S : lives[g] \in Nat
      BY <1>2
    <2> HIDE DEF ids, S
    <2>2. QED BY <1>3, <1>4, <2>1, SumNat
  <1>6. CASE f \notin S
    <2>1. \A g \in S : lives'[g] = lives[g]
      BY <1>1, <1>2, <1>6
    <2>2. \A r \in ids : counters'[c][r] = counters[c][r]
      <3>1. CASE c # Client[f]
        BY <1>1, <3>1
      <3>2. CASE c = Client[f]
        <4>1. l4 # L4(f)
          BY <1>1, <1>6, <3>2 DEF FlowsOf
        <4>2. \A i : Counts(i) => frame.rules[i].protocol = L4(f)
          BY DEF Counts, Opens, Observers, Selects
        <4>3. \A r \in ids : Added[r] = 0
          BY <1>1, <4>1, <4>2, AddedConnections
        <4>4. QED BY <1>1, <1>2, <4>3
      <3>3. QED BY <3>1, <3>2
    <2> HIDE DEF ids, S
    <2>3. Counted(c, l4)' = Counted(c, l4) /\ Begun(c, l4)' = Begun(c, l4)
      BY <1>3, <1>4, <2>1, <2>2, SumSame
    <2>4. QED BY <1>5, <2>3
  <1>7. CASE f \in S
    <2>1. c = Client[f] /\ l4 = L4(f)
      BY <1>7 DEF FlowsOf
    <2>2. Begun(c, l4)' = Begun(c, l4) + new
      <3>1. /\ \A g \in S : lives[g] \in Nat
            /\ \A g \in S : lives'[g] = IF g = f THEN lives[g] + new ELSE lives[g]
        BY <1>1, <1>2
      <3>2. new \in Nat
        OBVIOUS
      <3> HIDE DEF S, new
      <3>3. QED BY <1>3, <1>4, <1>7, <3>1, <3>2, SumUpdate
    <2>3. CASE \E i : Counts(i)
      <3>1. PICK i : Counts(i)
        BY <2>3
      <3>2. new = 1
        BY <3>1 DEF Counts, Opens
      <3>3. frame.rules[i].metric = "connections" /\ frame.rules[i].protocol = l4
            /\ frame.rules[i] \in AllRules
        BY <1>1, <2>1, <3>1, FrameRules DEF Counts, Opens, Observers, Selects
      <3>4. PICK r0 \in ids : r0 = frame.rules[i].id
        BY <3>3 DEF IdsWhere
      <3>5. \A j : Counts(j) => j = i
        <4>1. \A j \in DOMAIN frame.rules : j \in Nat
          BY <1>1, FrameRules
        <4>2. QED BY <3>1, <4>1 DEF Counts, Opens
      <3>6. \A r \in ids : Added[r] = IF r = r0 THEN 1 ELSE 0
        BY <1>1, <3>1, <3>4, <3>5, AddedConnections
      <3>7. /\ \A r \in ids : counters[c][r] \in Nat
            /\ \A r \in ids : counters'[c][r] = IF r = r0 THEN counters[c][r] + 1 ELSE counters[c][r]
        BY <1>1, <1>2, <2>1, <3>6
      <3> HIDE DEF ids
      <3>8. Counted(c, l4)' = Counted(c, l4) + 1
        BY <1>3, <1>4, <3>4, <3>7, SumUpdate
      <3>9. QED
        BY <1>5, <2>2, <3>2, <3>8
    <2>4. CASE ~ \E i : Counts(i)
      <3>1. \A r \in ids : Added[r] = 0
        BY <1>1, <2>4, AddedConnections
      <3>2. \A r \in ids : counters'[c][r] = counters[c][r]
        BY <1>1, <1>2, <2>1, <3>1
      <3>3. Counted(c, l4)' = Counted(c, l4)
        <4> HIDE DEF ids
        <4>1. QED BY <1>3, <1>4, <3>2, SumSame
      <3>4. (\A r \in AllRules : r.protocol = l4 => r.match = None) => new = 0
        <4>1. SUFFICES ASSUME \A r \in AllRules : r.protocol = l4 => r.match = None,
                              Observers # {}, IsNew(f, frame.at)
                       PROVE  FALSE
          OBVIOUS
        <4>2. Observers \subseteq Nat
          BY <1>1, FrameRules DEF Observers
        <4>3. PICK i \in Observers : \A j \in Observers : i <= j
          BY <4>1, <4>2, LeastNat
        <4>4. Opens(i) /\ i \in DOMAIN frame.rules /\ frame.rules[i].protocol = l4
              /\ frame.rules[i] \in AllRules
          BY <1>1, <2>1, <4>1, <4>3, FrameRules DEF Opens, Observers, Selects
        <4>5. Counts(i)
          BY <4>1, <4>4 DEF Counts, MatchOk
        <4>6. QED BY <2>4, <4>5
      <3>5. QED
        BY <1>1, <1>5, <2>2, <3>3, <3>4
    <2>5. QED BY <2>3, <2>4
  <1>8. QED BY <1>6, <1>7

\* What is counted is typed in every behaviour.
LEMMA CountTypesHold == Spec => []CountTypes
  <1>1. ASSUME Init PROVE CountTypes
    BY <1>1, SnifferAssumption DEF Init, CountTypes
  <1>2. Inv /\ HeardInv /\ CountTypes /\ [Next]_vars => CountTypes'
    BY CountTypesStep, NewIfSilent
  <1>3. QED
    BY <1>1, <1>2, TableInvHolds, PTL DEF Spec

\* If reloads keep what each rule counts, then connections are counted when a flow
\* begins or resumes after the idle time or its eviction, and then once; a match
\* expression can only make it fewer (FlowTable::observe, dispatch_tcp, dispatch_udp).
THEOREM ConnectionsOnce ==
  ASSUME StableRules, IsFiniteSet(Flows), IsFiniteSet(RuleIds)
  PROVE  Spec => []ConnectionsCountedOnce
  <1>0. ConnectionsCountedOnce <=>
          \A c \in Clients, l4 \in {"tcp", "udp"} :
            /\ Counted(c, l4) <= Begun(c, l4)
            /\ (\A r \in AllRules : r.protocol = l4 => r.match = None) =>
                 Counted(c, l4) = Begun(c, l4)
    BY DEF ConnectionsCountedOnce, Counted, Begun, FlowsOf
  <1>1. ASSUME Init PROVE ConnectionsCountedOnce
    <2>1. ASSUME NEW c \in Clients, NEW l4 \in {"tcp", "udp"}
          PROVE  Counted(c, l4) = 0 /\ Begun(c, l4) = 0
      <3> DEFINE ids == IdsWhere("connections", l4)
                 S == FlowsOf(c, l4)
      <3>1. IsFiniteSet(ids) /\ \A r \in ids : counters[c][r] = 0
        <4>1. ids \subseteq RuleIds
          BY IdsAreRuleIds
        <4>2. IsFiniteSet(ids)
          BY <4>1, FS_Subset
        <4>3. QED BY <1>1, <4>1, <4>2 DEF Init
      <3>2. IsFiniteSet(S) /\ \A g \in S : lives[g] = 0
        BY <1>1, FS_Subset DEF Init, FlowsOf
      <3>3. SumFunctionOnSet(counters[c], ids) = 0
        <4> HIDE DEF ids
        <4>1. QED BY <3>1, SumZero
      <3>4. SumFunctionOnSet(lives, S) = 0
        <4> HIDE DEF S
        <4>1. QED BY <3>2, SumZero
      <3>5. QED BY <3>3, <3>4 DEF Counted, Total, Begun
    <2>2. QED BY <1>0, <2>1
  <1>2. ASSUME Inv, HeardInv, CountTypes, ConnectionsCountedOnce, [Next]_vars
        PROVE  ConnectionsCountedOnce'
    <2>1. CASE Dispatch
      <3>1. ASSUME NEW c \in Clients, NEW l4 \in {"tcp", "udp"}
            PROVE  /\ Counted(c, l4)' <= Begun(c, l4)'
                   /\ (\A r \in AllRules : r.protocol = l4 => r.match = None) =>
                        Counted(c, l4)' = Begun(c, l4)'
        <4>1. PICK m \in {0, 1}, n \in {0, 1} :
                /\ Counted(c, l4)' = Counted(c, l4) + m
                /\ Begun(c, l4)' = Begun(c, l4) + n
                /\ Counted(c, l4) \in Nat /\ Begun(c, l4) \in Nat
                /\ m <= n
                /\ (\A r \in AllRules : r.protocol = l4 => r.match = None) => m = n
          BY <1>2, <2>1, NewIfSilent, DispatchCounts
        <4>2. /\ Counted(c, l4) <= Begun(c, l4)
              /\ (\A r \in AllRules : r.protocol = l4 => r.match = None) =>
                   Counted(c, l4) = Begun(c, l4)
          BY <1>0, <1>2
        <4>3. QED BY <4>1, <4>2
      <3>2. QED
        BY <3>1 DEF ConnectionsCountedOnce, Counted, Begun, FlowsOf, Clients, AllRules, RulesOf
    <2>2. CASE UNCHANGED <<counters, lives>>
      BY <1>2, <2>2 DEF ConnectionsCountedOnce, Total, IdsWhere, AllRules, RulesOf, Clients, L4
    <2>3. QED
      BY <1>2, <2>1, <2>2 DEF Next, vars, Clock, Reload, Capture
  <1>3. QED
    BY <1>1, <1>2, TableInvHolds, CountTypesHold, PTL DEF Spec

(***************************************************************************)
(* WebSocket frames                                                        *)
(***************************************************************************)

\* The WebSocket frame in hand that is still to be counted for the client.
Due(c) == IF frame # None /\ frame.payload = "wsframe" /\ Client[frame.flow] = c THEN 1 ELSE 0

\* The sniffer knows of every upgraded connection, at the latest once it has handled
\* the handshake in hand; so what it has not counted is at most the frame in hand.
WsInv ==
  /\ upgraded \subseteq Flows \ UdpFlows
  /\ sent \in [Clients -> Nat]
  /\ \A f \in upgraded :
       f \in ws_conns \/ (frame # None /\ frame.flow = f /\ frame.payload = "upgrade")
  /\ frame # None /\ frame.payload = "wsframe" =>
       frame.flow \in ws_conns /\ frame.flow \in Flows \ UdpFlows
  /\ \A c \in Clients, r \in IdsWhere("requests", "websocket") :
       counters[c][r] + Due(c) >= sent[c]

\* A WebSocket frame adds at least one to the counter of each rule for such frames.
LEMMA AddedWs ==
  ASSUME CountTypes, WsRules, frame # None, frame.payload = "wsframe",
         frame.flow \in ws_conns, frame.flow \in Flows \ UdpFlows,
         NEW r \in IdsWhere("requests", "websocket")
  PROVE  Added[r] >= 1
  <1> DEFINE amounts == [i \in DOMAIN frame.rules |-> Amount(i)]
             P == {i \in DOMAIN frame.rules : frame.rules[i].id = r}
  <1>1. PICK k \in DOMAIN Configs : frame.rules = Configs[k].rules
    BY DEF CountTypes
  <1>2. PICK rule \in RulesOf(k) :
          /\ rule.id = r /\ rule.metric = "requests" /\ rule.match = None
          /\ Selects(rule, "websocket", Port[frame.flow])
    BY DEF WsRules
  <1>3. PICK i \in DOMAIN frame.rules : frame.rules[i] = rule
    BY <1>1 DEF RulesOf
  <1>4. L7 = "websocket"
    BY DEF L7, WsHeader
  <1>5. Amount(i) = 1
    BY <1>2, <1>3, <1>4 DEF Amount, MatchOk, Units
  <1>6. i \in P /\ IsFiniteSet(P) /\ \A j \in P : amounts[j] \in Nat
    BY <1>2, <1>3, FrameRules, AddedType, FS_Subset
  <1>7. amounts[i] = 1
    BY <1>3, <1>5
  <1>8. r \in RuleIds /\ Added[r] = SumFunctionOnSet(amounts, P)
    BY IdsAreRuleIds DEF Added
  <1> HIDE DEF amounts, P
  <1>9. IsFiniteSet(P \ {i}) /\ \A j \in P \ {i} : amounts[j] \in Nat
    BY <1>6, OneLess
  <1>10. SumFunctionOnSet(amounts, P \ {i}) \in Nat
    BY <1>9, SumNat
  <1>11. SumFunctionOnSet(amounts, P) = amounts[i] + SumFunctionOnSet(amounts, P \ {i})
    BY <1>6, SumRemove
  <1>12. QED
    BY <1>7, <1>8, <1>10, <1>11

\* Every step keeps the sniffer's view of the upgraded connections complete.
LEMMA WsStep ==
  ASSUME Inv, HeardInv, CountTypes, WsRules, WsInv, [Next]_vars
  PROVE  WsInv'
  <1> DEFINE ids == IdsWhere("requests", "websocket")
  <1>0. ids' = ids /\ Clients' = Clients
    BY DEF IdsWhere, AllRules, RulesOf, Clients
  <1>1. \A c \in Clients, r \in ids : counters[c][r] \in Nat /\ sent[c] \in Nat
    BY IdsAreRuleIds DEF CountTypes, WsInv
  <1>2. CASE Dispatch
    <2>1. frame # None /\ frame' = None /\ frame.flow \in Flows
      BY <1>2 DEF Dispatch, Inv, TypeOK
    <2>2. UNCHANGED <<upgraded, sent>> /\ ws_conns \subseteq ws_conns'
      BY <1>2 DEF Dispatch
    <2>3. \A f \in upgraded' : f \in ws_conns'
      BY <1>2, <2>2 DEF Dispatch, Handshake, WsInv
    <2>4. ASSUME NEW c \in Clients, NEW r \in ids
          PROVE  counters'[c][r] >= sent'[c]
      <3>1. r \in RuleIds /\ Added[r] \in Nat
        BY <2>1, AddedType, IdsAreRuleIds
      <3>2. counters'[c][r] = IF c = Client[frame.flow] THEN counters[c][r] + Added[r]
                              ELSE counters[c][r]
        BY <1>2, <3>1, LivesStep, NewIfSilent
      <3>3. counters[c][r] + Due(c) >= sent[c]
        BY DEF WsInv
      <3>4. CASE Due(c) = 0
        BY <1>1, <2>2, <3>1, <3>2, <3>3, <3>4
      <3>5. CASE Due(c) # 0
        <4>1. Due(c) = 1 /\ c = Client[frame.flow] /\ frame.payload = "wsframe"
          BY <3>5 DEF Due
        <4>2. Added[r] >= 1
          BY <2>1, <4>1, AddedWs DEF WsInv
        <4>3. QED
          BY <1>1, <2>2, <3>1, <3>2, <3>3, <4>1, <4>2
      <3>6. QED BY <3>4, <3>5
    <2>5. \A c \in Clients, r \in ids : counters'[c][r] \in Nat
      BY <1>2, CountTypesStep, NewIfSilent, IdsAreRuleIds DEF CountTypes
    <2>6. \A c \in Clients : Due(c)' = 0
      BY <2>1 DEF Due
    <2>7. \A c \in Clients, r \in ids : counters'[c][r] + Due(c)' >= sent'[c]
      BY <2>4, <2>5, <2>6
    <2>8. QED
      BY <1>0, <2>1, <2>2, <2>3, <2>7 DEF WsInv
  <1>3. ASSUME NEW f \in Flows, NEW syn \in BOOLEAN, NEW p \in Payloads, Capture(f, syn, p)
        PROVE  WsInv'
    <2>1. /\ frame = None /\ UNCHANGED <<ws_conns, counters>>
          /\ frame'.flow = f /\ frame'.payload = p
      BY <1>3 DEF Capture
    <2>2. frame' # None
      <3>1. Configs[live].rules \in Seq(Rule) /\ now \in Nat
        BY SnifferAssumption DEF CountTypes, Inv, TypeOK
      <3>2. frame' \in [flow : Flows, syn : BOOLEAN, payload : Payloads, at : Nat, rules : Seq(Rule)]
        BY <1>3, <3>1 DEF Capture
      <3>3. QED BY <3>2, SnifferAssumption
    <2>3. upgraded \subseteq ws_conns
      BY <2>1 DEF WsInv
    <2>4. /\ p = "upgrade" => f \notin UdpFlows
          /\ p = "wsframe" => f \in upgraded
      BY <1>3 DEF Capture, Sendable
    <2>5. upgraded' \subseteq upgraded \cup {f} /\ (f \in upgraded' => f \in upgraded \/ p = "upgrade")
      BY <1>3 DEF Capture
    <2>6. upgraded' \subseteq Flows \ UdpFlows
      BY <2>4, <2>5 DEF WsInv
    <2>7. \A g \in upgraded' : g \in ws_conns' \/ (frame'.flow = g /\ frame'.payload = "upgrade")
      BY <2>1, <2>3, <2>5
    <2>8. p = "wsframe" => f \in ws_conns' /\ f \in Flows \ UdpFlows
      BY <2>1, <2>3, <2>4 DEF WsInv
    <2>9. /\ sent' \in [Clients -> Nat]
          /\ \A c \in Clients : sent'[c] = sent[c] + IF p = "wsframe" /\ Client[f] = c THEN 1 ELSE 0
      BY <1>3 DEF Capture, WsInv, Clients
    <2>10. \A c \in Clients : /\ Due(c) = 0
                              /\ Due(c)' = IF p = "wsframe" /\ Client[f] = c THEN 1 ELSE 0
      BY <2>1, <2>2 DEF Due
    <2>11. \A c \in Clients, r \in ids : counters'[c][r] + Due(c)' >= sent'[c]
      <3>1. \A c \in Clients, r \in ids : counters[c][r] + Due(c) >= sent[c]
        BY DEF WsInv
      <3> HIDE DEF ids
      <3>2. QED BY <1>1, <2>1, <2>9, <2>10, <3>1
    <2>12. QED
      BY <1>0, <2>1, <2>2, <2>6, <2>7, <2>8, <2>9, <2>11 DEF WsInv
  <1>4. CASE Clock \/ Reload \/ UNCHANGED vars
    <2>1. UNCHANGED <<frame, ws_conns, counters, upgraded, sent>>
      BY <1>4 DEF Clock, Reload, vars
    <2>2. \A c \in Clients : Due(c)' = Due(c)
      BY <2>1 DEF Due
    <2>3. QED
      BY <1>0, <2>1, <2>2 DEF WsInv
  <1>5. QED
    BY <1>2, <1>3, <1>4 DEF Next

\* If reloads keep the rules that count WebSocket frames, then every frame that was
\* handled has been counted by each of them from the handshake on, whatever reloads,
\* pauses and other flows come in between (ws_conns in dispatch_tcp).
THEOREM WsFramesNeverMissed ==
  ASSUME WsRules
  PROVE  Spec => []WsFramesCounted
  <1>1. ASSUME Init PROVE WsInv
    <2>1. \A c \in Clients, r \in IdsWhere("requests", "websocket") :
            counters[c][r] = 0 /\ sent[c] = 0 /\ Due(c) = 0
      BY <1>1, IdsAreRuleIds DEF Init, Due
    <2>2. QED
      BY <1>1, <2>1 DEF Init, WsInv
  <1>2. Inv /\ HeardInv /\ CountTypes /\ WsInv /\ [Next]_vars => WsInv'
    BY WsStep
  <1>3. CountTypes /\ WsInv => WsFramesCounted
    <2> SUFFICES ASSUME CountTypes, WsInv, frame = None,
                        NEW c \in Clients, NEW r \in IdsWhere("requests", "websocket")
                 PROVE  counters[c][r] >= sent[c]
      BY DEF WsFramesCounted
    <2>1. counters[c][r] \in Nat /\ Due(c) = 0
      BY IdsAreRuleIds DEF CountTypes, Due
    <2>2. counters[c][r] + Due(c) >= sent[c]
      BY DEF WsInv
    <2>3. QED BY <2>1, <2>2
  <1>4. QED
    BY <1>1, <1>2, <1>3, TableInvHolds, CountTypesHold, PTL DEF Spec
=============================================================================
