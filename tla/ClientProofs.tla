----------------------------- MODULE ClientProofs ---------------------------
(***************************************************************************)
(* The clients: what a request does and how its answer is understood, for  *)
(* any number of connections, any peers and any bodies that other programs *)
(* send.                                                                   *)
(***************************************************************************)
EXTENDS Ipc, TLAPS

(***************************************************************************)
(* Decoding                                                                *)
(***************************************************************************)

\* The variant chosen for an untagged enum is the first one that accepts the object.
LEMMA FirstAccepting ==
  ASSUME NEW S, NEW variants \in Seq(S), NEW accepted, NEW n \in DOMAIN variants,
         variants[n] \in accepted, \A j \in 1..(n - 1) : variants[j] \notin accepted
  PROVE  FirstOf(variants, accepted) = variants[n]
  <1> DEFINE first == {i \in DOMAIN variants :
                         /\ variants[i] \in accepted
                         /\ \A j \in 1..(i - 1) : variants[j] \notin accepted}
  <1>1. n \in first
    OBVIOUS
  <1>2. \A i \in first : i = n
    OBVIOUS
  <1>3. (CHOOSE i \in first : TRUE) = n
    BY <1>1, <1>2
  <1>4. FirstOf(variants, accepted) = variants[CHOOSE i \in first : TRUE]
    BY <1>1 DEF FirstOf
  <1>5. QED
    BY <1>3, <1>4

\* A variant is chosen only if it accepts.
LEMMA ChosenAccepts ==
  ASSUME NEW variants, NEW accepted, FirstOf(variants, accepted) # None
  PROVE  FirstOf(variants, accepted) \in accepted
  <1> DEFINE first == {i \in DOMAIN variants :
                         /\ variants[i] \in accepted
                         /\ \A j \in 1..(i - 1) : variants[j] \notin accepted}
  <1>1. first # {} /\ FirstOf(variants, accepted) = variants[CHOOSE i \in first : TRUE]
    BY DEF FirstOf
  <1>2. (CHOOSE i \in first : TRUE) \in first
    BY <1>1
  <1>3. QED
    BY <1>1, <1>2

\* The answer of each handler decodes to the variant its client expects: no variant
\* before it in ResultBody requires only fields that the answer has.
LEMMA AnswerDecodes ==
  ASSUME NEW kind \in Kinds
  PROVE  DecodeResult(ResultFields(kind)) = Understood[kind]
  <1> DEFINE fields == ResultFields(kind)
             accepted == {v \in DOMAIN ResultRequired : ResultRequired[v] \subseteq fields}
  <1>0. /\ ResultVariants \in Seq(DOMAIN ResultRequired) /\ DOMAIN ResultVariants = 1..4
        /\ ResultVariants[1] = "Info" /\ ResultVariants[2] = "Clients"
        /\ ResultVariants[3] = "Rules" /\ ResultVariants[4] = "Empty"
    <2>1. ResultVariants \in Seq(DOMAIN ResultRequired)
      BY DEF ResultVariants, ResultRequired
    <2>2. Len(ResultVariants) = 4
      BY DEF ResultVariants
    <2>3. DOMAIN ResultVariants = 1..4
      BY <2>1, <2>2
    <2>4. QED
      BY <2>1, <2>3 DEF ResultVariants
  <1>d. DecodeResult(fields) = FirstOf(ResultVariants, accepted)
    BY DEF DecodeResult
  <1>1. /\ "Info" \in accepted <=> {"version", "mode"} \subseteq fields
        /\ "Clients" \in accepted <=> "clients" \in fields
        /\ "Rules" \in accepted <=> "rules" \in fields
        /\ "Empty" \in accepted
    BY DEF ResultRequired
  <1> HIDE DEF accepted
  <1>2. CASE kind = "info"
    <2>1. "Info" \in accepted /\ Understood[kind] = "Info"
      BY <1>1, <1>2 DEF ResultFields, Understood, Mutations, Kinds, Queries
    <2>2. QED
      BY <1>0, <1>d, <2>1, FirstAccepting
  <1>3. CASE kind \in {"top", "listClients"}
    <2>1. "Info" \notin accepted /\ "Clients" \in accepted /\ Understood[kind] = "Clients"
      BY <1>1, <1>3 DEF ResultFields, Understood, Mutations, Kinds, Queries
    <2>2. \A j \in 1..(2 - 1) : ResultVariants[j] \notin accepted
      BY <1>0, <2>1
    <2>3. QED
      BY <1>0, <1>d, <2>1, <2>2, FirstAccepting
  <1>4. CASE kind = "listRules"
    <2>1. /\ "Info" \notin accepted /\ "Clients" \notin accepted /\ "Rules" \in accepted
          /\ Understood[kind] = "Rules"
      BY <1>1, <1>4 DEF ResultFields, Understood, Mutations, Kinds, Queries
    <2>2. \A j \in 1..(3 - 1) : ResultVariants[j] \notin accepted
      BY <1>0, <2>1
    <2>3. QED
      BY <1>0, <1>d, <2>1, <2>2, FirstAccepting
  <1>5. CASE kind \in Mutations
    <2>1. /\ "Info" \notin accepted /\ "Clients" \notin accepted /\ "Rules" \notin accepted
          /\ Understood[kind] = "Empty"
      BY <1>1, <1>5 DEF ResultFields, Understood, Mutations, Kinds, Queries
    <2>2. \A j \in 1..(4 - 1) : ResultVariants[j] \notin accepted
      BY <1>0, <2>1
    <2>3. QED
      BY <1>0, <1>d, <1>1, <2>1, <2>2, FirstAccepting
  <1>6. QED
    BY <1>2, <1>3, <1>4, <1>5 DEF Kinds, Queries

(***************************************************************************)
(* The inductive invariant                                                 *)
(***************************************************************************)
Responses == {Ok(kind) : kind \in Kinds} \cup {Err(kind, code) : kind \in Kinds, code \in {"forbidden", "invalid"}}

Connection == [pc : {"idle", "sent", "abandoned", "answered"}, body : Body \cup {None},
               resp : Responses \cup {None}, outcome : {None, "ok", "io", "error", "unexpected"}]

TypeOK ==
  /\ up \in BOOLEAN
  /\ manual \in [throttle : BOOLEAN, blocked : BOOLEAN]
  /\ conns \in [Conns -> Connection]

\* A call under way has a body, an answered one an error or the answer to its method,
\* and what a call returned was understood.
Sound(c) ==
  /\ c.pc # "idle" => c.body \in Body
  /\ c.pc = "answered" => \/ c.resp.error # None
                          \/ c.body.type \in Kinds /\ c.resp = Ok(c.body.type)
  /\ c.outcome # "unexpected"

Inv == TypeOK /\ \A k \in Conns : Sound(conns[k])

\* The clients of the repository send well-formed bodies.
LEMMA OwnBodiesAreBodies == OwnBodies \cup Foreign \subseteq Body
  <1>1. ASSUME NEW types \in SUBSET Kinds, NEW objects \in SUBSET (Params \cup {None})
        PROVE  [type : types, params : objects] \subseteq Body
    BY DEF Body
  <1>2. ASSUME NEW refs \in SUBSET Refs, NEW rates \in SUBSET {"absent", "valid"}
        PROVE  Bodies(refs, rates) \subseteq Body
    <2> DEFINE tops == {Object([limit |-> "valid"])}
               clients == {Object(o) : o \in [client : refs]}
               blocks == {Object(o) : o \in [client : refs, durationSecs : Durations]}
               throttles == {Object(o) : o \in [client : refs, rate : rates, durationSecs : Durations]}
    <2>1. tops \subseteq Params
      BY DEF Object, Params, ParamNames, Field
    <2>2. clients \subseteq Params
      BY DEF Object, Params, ParamNames, Field, Refs
    <2>3. blocks \subseteq Params
      BY DEF Object, Params, ParamNames, Field, Refs, Durations
    <2>4. throttles \subseteq Params
      <3>1. ASSUME NEW o \in [client : refs, rate : rates, durationSecs : Durations]
            PROVE  Object(o) \in Params
        <4>1. /\ DOMAIN o = {"client", "rate", "durationSecs"}
              /\ o["client"] \in {"valid", "unparsable"} /\ o["rate"] \in {"absent", "valid"}
              /\ o["durationSecs"] \in {"absent", "valid", "huge"}
          BY DEF Refs, Durations
        <4>2. Object(o) \in [ParamNames -> Field]
          BY <4>1 DEF Object, Field
        <4>3. QED
          BY <4>1, <4>2 DEF Object, Params, ParamNames
      <3>2. QED
        BY <3>1
    <2>5. Bodies(refs, rates) = [type : {"info", "listClients", "listRules"}, params : {None}]
            \cup [type : {"top"}, params : tops] \cup [type : {"throttle"}, params : throttles]
            \cup [type : {"unthrottle", "unblock"}, params : clients]
            \cup [type : {"block"}, params : blocks]
      BY DEF Bodies
    <2> HIDE DEF tops, clients, blocks, throttles
    <2>6. /\ {"info", "listClients", "listRules"} \subseteq Kinds /\ {"top"} \subseteq Kinds
          /\ {"throttle"} \subseteq Kinds /\ {"unthrottle", "unblock"} \subseteq Kinds /\ {"block"} \subseteq Kinds
      BY DEF Kinds, Queries, Mutations
    <2>7. QED
      BY <1>1, <2>1, <2>2, <2>3, <2>4, <2>5, <2>6
  <1>3. QED
    BY <1>2, IpcAssumption DEF OwnBodies, CliBodies, LibraryBodies, Refs

(***************************************************************************)
(* The steps                                                               *)
(***************************************************************************)

\* A connection that is idle again is sound, whatever its last outcome was.
LEMMA IdleSound ==
  ASSUME NEW o \in {None, "ok", "io", "error"}
  PROVE  Idle(o) \in Connection /\ Sound(Idle(o))
  BY IpcAssumption DEF Idle, Connection, Sound

\* A step that leaves one connection sound and does not touch the others.
LEMMA OneConnection ==
  ASSUME Inv, NEW k \in Conns, NEW c \in Connection, Sound(c), conns' = [conns EXCEPT ![k] = c],
         up' \in BOOLEAN, manual' \in [throttle : BOOLEAN, blocked : BOOLEAN]
  PROVE  Inv'
  <1>1. conns' \in [Conns -> Connection] /\ conns'[k] = c /\ \A j \in Conns \ {k} : conns'[j] = conns[j]
    BY DEF Inv, TypeOK
  <1>2. \A j \in Conns : Sound(conns'[j])
    BY <1>1 DEF Inv
  <1>3. QED
    BY <1>1, <1>2 DEF Inv, TypeOK, Sound, Body, Ok

\* reply() answers the caller who still waits with an error or with the answer to its
\* method, and nobody otherwise.
LEMMA ReplySound ==
  ASSUME Inv, NEW k \in Conns, NEW resp \in Responses, conns[k].pc \in {"sent", "abandoned"},
         \/ resp.error # None
         \/ conns[k].body.type \in Kinds /\ resp = Ok(conns[k].body.type),
         Reply(k, resp), up' \in BOOLEAN, manual' \in [throttle : BOOLEAN, blocked : BOOLEAN]
  PROVE  Inv'
  <1> DEFINE c == IF conns[k].pc = "sent" THEN [conns[k] EXCEPT !.pc = "answered", !.resp = resp]
                                          ELSE Idle("io")
  <1>1. conns[k] \in Connection /\ Sound(conns[k])
    BY DEF Inv, TypeOK
  <1>2. c \in Connection /\ Sound(c)
    <2>1. CASE conns[k].pc = "sent"
      BY <1>1, <2>1 DEF Connection, Sound
    <2>2. CASE conns[k].pc # "sent"
      BY <2>2, IdleSound
    <2>3. QED
      BY <2>1, <2>2
  <1>3. conns' = [conns EXCEPT ![k] = c]
    BY DEF Reply
  <1> HIDE DEF c
  <1>4. QED
    BY <1>2, <1>3, OneConnection

\* A mutation that is served does to the manual policy what it promises.
LEMMA EffectPromised ==
  ASSUME TypeOK, NEW kind \in Mutations
  PROVE  /\ Effect(kind) = Promised(kind, manual)
         /\ Effect(kind) \in [throttle : BOOLEAN, blocked : BOOLEAN]
  <1>1. manual \in [throttle : BOOLEAN, blocked : BOOLEAN]
    BY DEF TypeOK
  <1>2. CASE kind = "throttle"
    BY <1>1, <1>2 DEF Effect, Promised
  <1>3. CASE kind = "block"
    BY <1>1, <1>3 DEF Effect, Promised
  <1>4. CASE kind = "unthrottle"
    BY <1>1, <1>4 DEF Effect, Promised
  <1>5. CASE kind = "unblock"
    BY <1>1, <1>5 DEF Effect, Promised
  <1>6. QED
    BY <1>2, <1>3, <1>4, <1>5 DEF Mutations

\* Errors and answers are responses; an error has a code.
LEMMA ResponseTypes ==
  /\ \A kind \in Kinds : Ok(kind) \in Responses
  /\ \A kind \in Kinds, code \in {"forbidden", "invalid"} :
       Err(kind, code) \in Responses /\ Err(kind, code).error # None
  BY IpcAssumption DEF Responses, Err

\* The daemon's threads keep the invariant.
LEMMA ServeStep ==
  ASSUME Inv, NEW k \in Conns, Serve(k)
  PROVE  Inv'
  <1>0. TypeOK /\ "info" \in Kinds /\ Mutations \subseteq Kinds /\ Queries \subseteq Kinds
    BY DEF Inv, Kinds, Queries
  <1>1. CASE Reject(k) \/ Refuse(k)
    <2>1. PICK code \in {"forbidden", "invalid"} : Reply(k, Err("info", code))
      BY <1>1 DEF Reject, Refuse
    <2>2. conns[k].pc \in {"sent", "abandoned"} /\ up' = up /\ manual' = manual
      BY <1>1 DEF Reject, Refuse, Admitted, Pending
    <2>3. QED
      BY <1>0, <2>1, <2>2, ResponseTypes, ReplySound DEF TypeOK
  <1>2. CASE Query(k)
    <2>1. /\ Reply(k, Ok(conns[k].body.type)) /\ conns[k].body.type \in Kinds
          /\ conns[k].pc \in {"sent", "abandoned"} /\ up' = up /\ manual' = manual
      BY <1>0, <1>2 DEF Query, Admitted, Pending
    <2>2. QED
      BY <1>0, <2>1, ResponseTypes, ReplySound DEF TypeOK
  <1>3. CASE Invalid(k)
    <2>1. /\ Reply(k, Err(conns[k].body.type, "invalid")) /\ conns[k].body.type \in Kinds
          /\ conns[k].pc \in {"sent", "abandoned"} /\ up' = up /\ manual' = manual
      BY <1>0, <1>3 DEF Invalid, Mutation, Admitted, Pending
    <2>2. QED
      BY <1>0, <2>1, ResponseTypes, ReplySound DEF TypeOK
  <1>4. CASE Abort(k)
    BY <1>0, <1>4 DEF Abort, Inv, TypeOK, Sound, Ok
  <1>5. CASE Mutate(k)
    <2> DEFINE kind == conns[k].body.type
    <2>1. /\ kind \in Mutations /\ conns[k].pc \in {"sent", "abandoned"}
          /\ up' = up /\ manual' = Effect(kind)
          /\ Reply(k, Ok(kind)) \/ Reply(k, Err(kind, "invalid"))
      BY <1>5 DEF Mutate, Handled, Mutation, Admitted, Pending
    <2>2. manual' \in [throttle : BOOLEAN, blocked : BOOLEAN] /\ up' \in BOOLEAN
      BY <1>0, <2>1, EffectPromised DEF TypeOK
    <2>3. QED
      BY <1>0, <2>1, <2>2, ResponseTypes, ReplySound
  <1>6. QED
    BY <1>1, <1>2, <1>3, <1>4, <1>5 DEF Serve

\* The clients' calls, returns and timeouts keep the invariant.
LEMMA CallerStep ==
  ASSUME Inv, NEW k \in Conns, Caller(k) \/ \E b \in OwnBodies \cup Foreign : Call(k, b)
  PROVE  Inv'
  <1>0. TypeOK /\ conns[k] \in Connection /\ Sound(conns[k]) /\ up' = up /\ manual' = manual
    BY DEF Inv, TypeOK, Caller, Return, TimeOut, EndOfFile, Call
  <1>1. SUFFICES \E c \in Connection : Sound(c) /\ conns' = [conns EXCEPT ![k] = c]
    BY <1>0, OneConnection DEF TypeOK
  <1>2. CASE Return(k)
    <2>1. CASE conns[k].body.type \notin Kinds
      BY <1>2, <2>1, IdleSound DEF Return
    <2>2. CASE conns[k].body.type \in Kinds
      <3> DEFINE kind == conns[k].body.type
      <3>1. conns' = [conns EXCEPT ![k] = Idle(Outcome(kind, conns[k].resp))]
        BY <1>2, <2>2 DEF Return
      <3>2. conns[k].resp.error # None \/ conns[k].resp = Ok(kind)
        BY <1>0, <1>2 DEF Return, Sound
      <3>3. CASE conns[k].resp.error # None
        BY <3>1, <3>3, IdleSound DEF Outcome
      <3>4. CASE conns[k].resp = Ok(kind) /\ conns[k].resp.error = None
        <4>1. conns[k].resp.result = ResultFields(kind) /\ ResultFields(kind) # None
          BY <2>2, <3>4, IpcAssumption DEF Ok
        <4>2. Outcome(kind, conns[k].resp) = "ok"
          BY <2>2, <3>4, <4>1, AnswerDecodes DEF Outcome
        <4>3. QED
          BY <3>1, <4>2, IdleSound
      <3>5. QED
        BY <3>2, <3>3, <3>4
    <2>3. QED
      BY <2>1, <2>2
  <1>3. CASE TimeOut(k)
    <2> DEFINE c == [conns[k] EXCEPT !.pc = "abandoned", !.outcome = "io"]
    <2>1. c \in Connection /\ Sound(c)
      BY <1>0, <1>3 DEF TimeOut, Connection, Sound
    <2>2. conns' = [conns EXCEPT ![k] = c]
      BY <1>0, <1>3 DEF TimeOut, TypeOK, Connection
    <2>3. QED
      BY <2>1, <2>2
  <1>4. CASE EndOfFile(k)
    BY <1>4, IdleSound DEF EndOfFile
  <1>5. ASSUME NEW b \in OwnBodies \cup Foreign, Call(k, b)
        PROVE  \E c \in Connection : Sound(c) /\ conns' = [conns EXCEPT ![k] = c]
    <2> DEFINE c == [Idle(None) EXCEPT !.pc = "sent", !.body = b]
    <2>1. CASE ~up
      BY <1>5, <2>1, IdleSound DEF Call
    <2>2. CASE up
      <3>1. b \in Body
        BY OwnBodiesAreBodies
      <3>2. c \in Connection /\ Sound(c)
        BY <3>1, IpcAssumption DEF Idle, Connection, Sound
      <3>3. conns' = [conns EXCEPT ![k] = c]
        BY <1>5, <2>2 DEF Call
      <3>4. QED
        BY <3>2, <3>3
    <2>3. QED
      BY <2>1, <2>2
  <1>6. QED
    BY <1>2, <1>3, <1>4, <1>5 DEF Caller

(***************************************************************************)
(* The theorems                                                            *)
(***************************************************************************)

\* The invariant holds of every behaviour.
LEMMA InvHolds == Spec => []Inv
  <1>1. ASSUME Init PROVE Inv
    BY <1>1, IdleSound DEF Init, Inv, TypeOK
  <1>2. ASSUME Inv, [Next]_vars PROVE Inv'
    <2>1. CASE UNCHANGED vars
      BY <1>2, <2>1 DEF vars, Inv, TypeOK, Sound, Ok
    <2>2. CASE Next
      BY <1>2, <2>2, ServeStep, CallerStep DEF Next
    <2>3. QED
      BY <1>2, <2>1, <2>2
  <1>3. QED
    BY <1>1, <1>2, PTL DEF Spec

\* No client takes an answer for another method's: whatever bodies arrive on whatever
\* connections, the untagged ResultBody decodes to the variant its call expects
\* (round_trip and the typed calls).
THEOREM ClientsUnderstandAnswers == Spec => []AnswersUnderstood
  <1>1. Inv => AnswersUnderstood
    BY DEF Inv, Sound, AnswersUnderstood
  <1>2. QED
    BY <1>1, InvHolds, PTL

\* The handler of a mutation runs only for a body that names a client the daemon can parse.
LEMMA ServedNamesClient ==
  ASSUME NEW body \in Body, body.type \in Mutations, Acceptable(body)
  PROVE  body.params # None /\ body.params["client"] = "valid"
  <1> DEFINE params == body.params
             Accepts(v) == /\ \A f \in Required[v] : params[f] \in WellTyped
                           /\ \A f \in Optional[v] : params[f] # "ill"
             accepted == {v \in DOMAIN Required : Accepts(v)}
  <1>1. params # None /\ Decode(params) = Takes[body.type] /\ params["client"] # "unparsable"
    BY DEF Acceptable, Served
  <1>2. Takes[body.type] \in {"Throttle", "Client", "Block"}
    BY DEF Takes, Mutations
  <1>3. Decode(params) = FirstOf(Variants, accepted)
    BY DEF Decode
  <1>4. FirstOf(Variants, accepted) # None
    BY <1>1, <1>2, <1>3, IpcAssumption
  <1>5. FirstOf(Variants, accepted) \in accepted
    BY <1>4, ChosenAccepts
  <1>6. params["client"] \in WellTyped
    BY <1>1, <1>2, <1>3, <1>5 DEF Required
  <1>7. params \in Params
    BY <1>1 DEF Body
  <1>8. QED
    BY <1>1, <1>6, <1>7 DEF Params, ParamNames, WellTyped

\* A manual policy changes only by serving a mutation that an admitted peer sent and that
\* names a client, and then as that mutation promises (dispatch, mw_cmd!).
THEOREM RequestsDoWhatTheySay == Spec => EffectsMatchRequests
  <1>1. ASSUME Inv, [Next]_vars, manual' # manual
        PROVE  \E k \in Allowed :
                 /\ conns[k].pc \in {"sent", "abandoned"} /\ conns'[k] # conns[k]
                 /\ conns[k].body.params # None /\ conns[k].body.params["client"] = "valid"
                 /\ manual' = Promised(conns[k].body.type, manual)
    <2>1. PICK k \in Conns : Mutate(k)
      BY <1>1 DEF Next, vars, Serve, Caller, Reject, Refuse, Query, Invalid, Abort, Return,
                  TimeOut, EndOfFile, Call
    <2>2. /\ k \in Allowed /\ conns[k].pc \in {"sent", "abandoned"}
          /\ conns[k].body.type \in Mutations /\ Acceptable(conns[k].body)
          /\ manual' = Effect(conns[k].body.type)
      BY <2>1 DEF Mutate, Handled, Mutation, Admitted, Pending
    <2>3. conns[k] \in Connection /\ conns[k].body \in Body
      BY <1>1, <2>2 DEF Inv, TypeOK, Sound
    <2>4. conns'[k].pc \in {"answered", "idle"}
      <3>1. PICK resp : Reply(k, resp)
        BY <2>1 DEF Mutate
      <3>2. conns'[k] = IF conns[k].pc = "sent" THEN [conns[k] EXCEPT !.pc = "answered", !.resp = resp]
                                                ELSE Idle("io")
        BY <1>1, <3>1 DEF Reply, Inv, TypeOK
      <3>3. CASE conns[k].pc = "sent"
        BY <2>3, <3>2, <3>3 DEF Connection
      <3>4. CASE conns[k].pc # "sent"
        BY <3>2, <3>4 DEF Idle
      <3>5. QED
        BY <3>3, <3>4
    <2>5. manual' = Promised(conns[k].body.type, manual)
      BY <1>1, <2>2, EffectPromised DEF Inv
    <2>6. conns[k].body.params # None /\ conns[k].body.params["client"] = "valid"
      BY <2>2, <2>3, ServedNamesClient
    <2>7. QED
      BY <2>2, <2>4, <2>5, <2>6
  <1>2. QED
    BY <1>1, InvHolds, PTL DEF Spec, EffectsMatchRequests
=============================================================================
