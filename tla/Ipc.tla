-------------------------------- MODULE Ipc ---------------------------------
(***************************************************************************)
(* A request from a client's call to its return: the client's connection,  *)
(* the peer check, the decoding of the JSON body into the untagged enum    *)
(* Params, dispatch(), the response and its decoding by the client.        *)
(*                                                                         *)
(*   mw-proto/src/wire.rs      Request, Params, Response, ResultBody       *)
(*   microwaf/src/ipc.rs       mw_cmd!, MwHooks, serve_listener, dispatch  *)
(*   mw-client/src/client.rs   round_trip and the typed calls              *)
(*   go/client/client.go       the same calls in Go                        *)
(*                                                                         *)
(* A JSON value is the function from field names to what is found there.   *)
(* All requests name one client, whose manual policy is reduced to its two *)
(* parts; deadlines, expiry and the Redis copy are in module Daemon.       *)
(***************************************************************************)
EXTENDS Naturals, Sequences

CONSTANTS Conns,         \* client connections
          Allowed,       \* those whose peer user passes Auth::PeerUser
          Timed,         \* those of mw-client, with a read timeout; the Go client sets none
          Foreign,       \* bodies sent by programs other than the repository's clients
          StoreMayFail,  \* may persist_manual fail?
          None           \* Option::None

VARIABLES up,      \* does the daemon's process run?
          manual,  \* the manual policy of the client
          conns    \* one call per connection

vars == <<up, manual, conns>>

Queries == {"info", "top", "listClients", "listRules"}
Mutations == {"throttle", "unthrottle", "block", "unblock"}
Kinds == Queries \cup Mutations

\* What a field of a JSON object holds.  "ill" is a value of the wrong type or
\* range; "unparsable" is a ClientRef that parse_ref rejects; "huge" is a
\* durationSecs that no Instant can be advanced by.
Field == {"absent", "ill", "valid", "unparsable", "huge"}
WellTyped == {"valid", "unparsable", "huge"}
ParamNames == {"client", "rate", "durationSecs", "limit"}

Params == {p \in [ParamNames -> Field] : /\ \A f \in ParamNames \ {"client"} : p[f] # "unparsable"
                                         /\ \A f \in ParamNames \ {"durationSecs"} : p[f] # "huge"}

Body == [type : Kinds \cup {"unknown"}, params : Params \cup {None}]

(***************************************************************************)
(* Decoding.  An untagged enum takes the first variant whose required      *)
(* fields are present and none of whose fields is ill typed; fields that a *)
(* variant does not have are ignored.                                      *)
(***************************************************************************)
FirstOf(variants, accepted) ==
  LET first == {i \in DOMAIN variants : /\ variants[i] \in accepted
                                        /\ \A j \in 1..(i - 1) : variants[j] \notin accepted}
  IN IF first = {} THEN None ELSE variants[CHOOSE i \in first : TRUE]

Variants == <<"Top", "Throttle", "Client", "Block">>
Required == [Top |-> {"limit"}, Throttle |-> {"client"}, Client |-> {"client"},
             Block |-> {"client"}]
Optional == [Top |-> {}, Throttle |-> {"rate", "durationSecs"}, Client |-> {},
             Block |-> {"durationSecs"}]

Decode(params) ==
  LET Accepts(v) == /\ \A f \in Required[v] : params[f] \in WellTyped
                    /\ \A f \in Optional[v] : params[f] # "ill"
  IN FirstOf(Variants, {v \in DOMAIN Required : Accepts(v)})

\* Fault: EmptyResult, which accepts every object, is tried first.
ResultVariantsEmptyFirst == <<"Empty", "Info", "Clients", "Rules">>

\* ResultBody: what each variant requires, and the fields a handler's answer has.
ResultVariants == <<"Info", "Clients", "Rules", "Empty">>
ResultRequired == [Info |-> {"version", "mode"}, Clients |-> {"clients"},
                   Rules |-> {"rules"}, Empty |-> {}]

ResultFields(kind) ==
  CASE kind = "info" -> {"version", "mode", "interface"}
    [] kind = "top" -> {"clients", "columns"}
    [] kind = "listClients" -> {"clients"}
    [] kind = "listRules" -> {"rules"}
    [] kind \in Mutations -> {}

ASSUME IpcAssumption ==
  /\ Allowed \subseteq Conns /\ Timed \subseteq Conns
  /\ Foreign \subseteq Body
  /\ StoreMayFail \in BOOLEAN
  /\ None \notin Params
  /\ None \notin {"Throttle", "Client", "Block", "forbidden", "invalid", "ok", "io", "error", "unexpected"}
  /\ \A kind \in Kinds : ResultFields(kind) # None

DecodeResult(fields) ==
  FirstOf(ResultVariants, {v \in DOMAIN ResultRequired : ResultRequired[v] \subseteq fields})

\* The variant the client's call takes for a success.
Understood == [kind \in Kinds |-> CASE kind = "info" -> "Info"
                                    [] kind \in {"top", "listClients"} -> "Clients"
                                    [] kind = "listRules" -> "Rules"
                                    [] kind \in Mutations -> "Empty"]

(***************************************************************************)
(* The client.  Each call opens a connection, writes one request, reads    *)
(* one response and closes the connection.                                 *)
(***************************************************************************)
Object(fields) == [f \in ParamNames |-> IF f \in DOMAIN fields THEN fields[f] ELSE "absent"]

Refs == {"valid", "unparsable"}
Durations == {"absent", "valid", "huge"}

\* The requests of a client that sends these client references and drop rates.
Bodies(refs, rates) ==
  [type : {"info", "listClients", "listRules"}, params : {None}]
    \cup [type : {"top"}, params : {Object([limit |-> "valid"])}]
    \cup [type : {"throttle"},
          params : {Object(o) : o \in [client : refs, rate : rates, durationSecs : Durations]}]
    \cup [type : {"unthrottle", "unblock"}, params : {Object(o) : o \in [client : refs]}]
    \cup [type : {"block"},
          params : {Object(o) : o \in [client : refs, durationSecs : Durations]}]

\* The commands parse the client before they call, and always send a rate.
CliBodies == Bodies({"valid"}, {"valid"})

\* The Go and Rust libraries send what they are given.
LibraryBodies == Bodies(Refs, {"absent", "valid"})

OwnBodies == CliBodies \cup LibraryBodies

Idle(outcome) == [pc |-> "idle", body |-> None, resp |-> None, outcome |-> outcome]

Init ==
  /\ up = TRUE
  /\ manual = [throttle |-> FALSE, blocked |-> FALSE]
  /\ conns = [k \in Conns |-> Idle(None)]

Call(k, body) ==
  /\ conns[k].pc = "idle"
  /\ conns' = [conns EXCEPT ![k] =
       IF up THEN [Idle(None) EXCEPT !.pc = "sent", !.body = body] ELSE Idle("io")]
  /\ UNCHANGED <<up, manual>>

\* round_trip(): the error of the response, its result, or neither.
Outcome(kind, resp) ==
  IF resp.error # None THEN "error"
  ELSE IF resp.result # None /\ DecodeResult(resp.result) = Understood[kind] THEN "ok"
  ELSE "unexpected"

Return(k) ==
  /\ conns[k].pc = "answered"
  /\ conns' = [conns EXCEPT ![k] = Idle(IF conns[k].body.type \in Kinds
                                        THEN Outcome(conns[k].body.type, conns[k].resp)
                                        ELSE "error")]
  /\ UNCHANGED <<up, manual>>

\* Fault: the client sets no read timeout and leaves only a dead daemon.
TimeOutNever(k) ==
  /\ k \in Timed /\ conns[k].pc = "sent" /\ ~up
  /\ conns' = [conns EXCEPT ![k].pc = "abandoned", ![k].outcome = "io"]
  /\ UNCHANGED <<up, manual>>

\* The read timeout of ten seconds: the client leaves, the request stays.
TimeOut(k) ==
  /\ k \in Timed /\ conns[k].pc = "sent"
  /\ conns' = [conns EXCEPT ![k].pc = "abandoned", ![k].outcome = "io"]
  /\ UNCHANGED <<up, manual>>

\* The daemon is gone and its end of the connection with it.
EndOfFile(k) ==
  /\ ~up
  /\ conns[k].pc \in {"sent", "abandoned"}
  /\ conns' = [conns EXCEPT ![k] = Idle("io")]
  /\ UNCHANGED <<up, manual>>

(***************************************************************************)
(* The daemon: a thread per connection.                                    *)
(***************************************************************************)
Pending(k) == up /\ conns[k].pc \in {"sent", "abandoned"}

\* conn.reply(): nobody reads the answer to an abandoned request.
Reply(k, resp) ==
  conns' = [conns EXCEPT ![k] =
    IF conns[k].pc = "sent" THEN [conns[k] EXCEPT !.pc = "answered", !.resp = resp]
                            ELSE Idle("io")]

Ok(kind) == [kind |-> kind, result |-> ResultFields(kind), error |-> None]
Err(kind, code) == [kind |-> kind, result |-> None, error |-> code]

\* Auth::PeerUser, MwHooks::reject.
Reject(k) ==
  /\ Pending(k) /\ k \notin Allowed
  /\ Reply(k, Err("info", "forbidden"))
  /\ UNCHANGED <<up, manual>>

Admitted(k) == Pending(k) /\ k \in Allowed

Malformed(body) == body.type \notin Kinds \/ (body.params # None /\ Decode(body.params) = None)

\* MwHooks::unknown and MwHooks::error: no Request, hence no kind to answer with.
Refuse(k) ==
  /\ Admitted(k) /\ Malformed(conns[k].body)
  /\ Reply(k, Err("info", "invalid"))
  /\ UNCHANGED <<up, manual>>

\* The queries take any parameters; top falls back to its defaults.
Query(k) ==
  /\ Admitted(k) /\ ~Malformed(conns[k].body) /\ conns[k].body.type \in Queries
  /\ Reply(k, Ok(conns[k].body.type))
  /\ UNCHANGED <<up, manual>>

\* The parameters that the arm of each mutation in dispatch() takes.
Takes == [throttle |-> "Throttle", unthrottle |-> "Client", block |-> "Block",
          unblock |-> "Client"]

Served(body) == body.params # None /\ Decode(body.params) = Takes[body.type]

Mutation(k) == Admitted(k) /\ ~Malformed(conns[k].body) /\ conns[k].body.type \in Mutations

Acceptable(body) == Served(body) /\ body.params["client"] # "unparsable"

\* "missing ... params", or a ClientRef that parse_ref() rejects.
Invalid(k) ==
  /\ Mutation(k) /\ ~Acceptable(conns[k].body)
  /\ Reply(k, Err(conns[k].body.type, "invalid"))
  /\ UNCHANGED <<up, manual>>

Handled(k) == Mutation(k) /\ Acceptable(conns[k].body)

Overflows(body) == body.type \in {"throttle", "block"} /\ body.params["durationSecs"] = "huge"

\* now + Duration panics; the release profile turns a panic into an abort.
Abort(k) ==
  /\ Handled(k) /\ Overflows(conns[k].body)
  /\ up' = FALSE
  /\ UNCHANGED <<manual, conns>>

\* Fault: the arm of unblock clears the throttle.
EffectSwapped(kind) ==
  CASE kind = "throttle" -> [manual EXCEPT !.throttle = TRUE]
    [] kind = "block" -> [manual EXCEPT !.blocked = TRUE]
    [] kind \in {"unthrottle", "unblock"} -> [manual EXCEPT !.throttle = FALSE]

Effect(kind) ==
  CASE kind = "throttle" -> [manual EXCEPT !.throttle = TRUE]
    [] kind = "block" -> [manual EXCEPT !.blocked = TRUE]
    [] kind = "unthrottle" -> [manual EXCEPT !.throttle = FALSE]
    [] kind = "unblock" -> [manual EXCEPT !.blocked = FALSE]

\* A clear that finds no manual policy does not write to the store.
Persists(kind) == kind \in {"throttle", "block"} \/ manual.throttle \/ manual.blocked

Mutate(k) ==
  LET kind == conns[k].body.type IN
  /\ Handled(k) /\ ~Overflows(conns[k].body)
  /\ manual' = Effect(kind)
  /\ \/ Reply(k, Ok(kind))
     \/ StoreMayFail /\ Persists(kind) /\ Reply(k, Err(kind, "invalid"))
  /\ UNCHANGED up

Serve(k) == Reject(k) \/ Refuse(k) \/ Query(k) \/ Invalid(k) \/ Abort(k) \/ Mutate(k)
Caller(k) == Return(k) \/ TimeOut(k) \/ EndOfFile(k)

Next == \E k \in Conns : Serve(k) \/ Caller(k) \/ \E b \in OwnBodies \cup Foreign : Call(k, b)

\* A socket's reader wakes up on data, on a hang-up or on its timeout.  Nothing
\* is assumed of the daemon, whose threads may wait for a lock for ever.
Spec == Init /\ [][Next]_vars /\ \A k \in Conns : WF_vars(Caller(k))

-----------------------------------------------------------------------------
(***************************************************************************)
(* Properties                                                              *)
(***************************************************************************)

\* What the documentation of each mutation says it does to the manual policy.
Promised(kind, m) ==
  [throttle |-> IF kind = "throttle" THEN TRUE
                ELSE IF kind = "unthrottle" THEN FALSE ELSE m.throttle,
   blocked  |-> IF kind = "block" THEN TRUE
                ELSE IF kind = "unblock" THEN FALSE ELSE m.blocked]

\* A manual policy changes only by serving a mutation of an admitted peer that
\* names a client, and then as that mutation promises: however a body is
\* decoded, no request runs the handler of another (dispatch, mw_cmd!).
EffectsMatchRequests ==
  [][manual' # manual =>
       \E k \in Allowed :
         /\ conns[k].pc \in {"sent", "abandoned"} /\ conns'[k] # conns[k]
         /\ conns[k].body.params # None /\ conns[k].body.params["client"] = "valid"
         /\ manual' = Promised(conns[k].body.type, manual)]_vars

\* A client never takes an answer for another method's: the untagged ResultBody
\* decodes to the variant its call expects (round_trip and the typed calls).
AnswersUnderstood == \A k \in Conns : conns[k].outcome # "unexpected"

\* Every call of mw-client that has a read timeout returns, even if the daemon never
\* serves it (set_read_timeout in connect; a timeout of zero fails there unnoticed, and
\* such a call is not Timed).
CallsReturn ==
  \A k \in Timed : conns[k].pc \in {"sent", "answered"} ~> conns[k].pc \in {"idle", "abandoned"}

\* Every mutation that the repository's clients send with a client the daemon can
\* parse is served by its handler: Params has "Arguments for" each of them.
OwnCallsServed ==
  \A k \in Allowed : LET c == conns[k] IN
    (c.pc = "answered" /\ c.body \in OwnBodies /\ c.body.type \in Mutations
       /\ c.body.params["client"] = "valid") => c.resp.error = None
=============================================================================
