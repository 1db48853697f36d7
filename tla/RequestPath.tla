------------------------------ MODULE RequestPath ------------------------------
(***************************************************************************)
(* What becomes of the data of a request: the configuration the process    *)
(* starts with, whatever load_config makes of file and environment (for    *)
(* TLC that is ConfigMerge), and then, one request after the other,        *)
(* Validator, SessionResolver (Messages), LLMRouter and SessionRecorder as *)
(* create_response (gateway/api.py) calls them.  Handlers do not share     *)
(* what is modelled here, so they need not interleave; Gateway has their   *)
(* interleavings, refusals and faults.  Parents are live inline rows, and  *)
(* no model has a slash in its name, so that all have one provider label.  *)
(***************************************************************************)
EXTENDS Validator, LLMRouter, Messages, FiniteSets

CONSTANTS
    Scenes,     \* deployments and their clients, see SceneFields
    MaxTurns,   \* bound on the number of requests
    Load(_, _)  \* load_config

(***************************************************************************)
(* yaml, env   the configuration file; the environment, a set of variables *)
(*             that set options, each its own: of these only reject.fields *)
(*             has names below it                                          *)
(* reject      the lists of RejectConfig, which only the file can set      *)
(* model_list  the entries of models.yaml                                  *)
(* requests    what clients send beside `input`: dicts                     *)
(* inputs      the inputs they send: a form and the roles of the items     *)
(* outputs     what the provider answers: sequences of types of items      *)
(***************************************************************************)
SceneFields == {"yaml", "env", "reject", "model_list", "requests", "inputs", "outputs"}
RejectLists == {"tools", "present_fields", "strip_mode_allowed_tool_types"}

ASSUME SceneAssumption ==
    /\ \A s \in Scenes :
          /\ DOMAIN s = SceneFields
          /\ DOMAIN s.reject = RejectLists
          /\ \A v, w \in s.env : v.path = w.path => v = w
          /\ \A r \in s.requests : "tools" \in DOMAIN r => r.tools \in Seq(STRING)
          /\ \A i \in s.inputs : i.roles \in Seq(STRING)
          /\ s.outputs \subseteq Seq(STRING)
    /\ MaxTurns \in Nat

VARIABLES
    scene,
    environ,    \* os.environ: the variables of the scene in some order
    config,     \* what load_config returned
    stage,      \* "boot", "refused", "ready", "resolve", "call" or "record"
    turns,      \* auxiliary: of each request, what it was and came to
    request,    \* payload, and then resolved.request
    store,      \* store_flag
    rows        \* the stored rows, by the number of their request

vars == <<scene, environ, config, stage, turns, request, store, rows>>

This    == Len(turns)
Aliases == LoadAliasMap(scene.model_list)

\* config.reject
Reject == Update(scene.reject, [mode |-> config.mode, fields |-> config.fields])

\* Items of request t, told apart by where they stand.
Items(t, side, roles) ==
    [k \in DOMAIN roles |-> [role |-> roles[k], of |-> t, side |-> side, at |-> k]]

-----------------------------------------------------------------------------
\* run(): the process starts, or load_config raises.
Start ==
    /\ stage = "boot"
    /\ config' = Load(scene.yaml, environ)
    /\ stage' = IF config'.refused THEN "refused" ELSE "ready"
    /\ UNCHANGED <<scene, environ, turns, request, store, rows>>

\* A client answers a function call only where there is one.
Sensible(input, prev) ==
    "function_call_output" \in ToSet(input.roles) =>
        prev # 0 /\ \E o \in ToSet(rows[prev].output) : o.role = "function_call"

\* As a bug: `store` is sent on (RequestInv).
PopNothing(payload) == payload

\* payload.pop("store", None)
PopStore(payload) == Without(payload, {"store"})

(***************************************************************************)
(* create_response up to resolve(): validate, then take out `store`.       *)
(* previous_response_id is kept as prev, 0 where there is none.            *)
(***************************************************************************)
Receive ==
    /\ stage = "ready"
    /\ This < MaxTurns
    /\ \E fields \in scene.requests, input \in scene.inputs, prev \in DOMAIN rows \cup {0} :
        LET items   == Items(This + 1, "in", input.roles)
            client  == Update(fields, [input |-> [form |-> input.form, items |-> items]])
            verdict == Validate(Reject, client)
        IN  /\ Sensible(input, prev)
            /\ turns' = Append(turns, [client |-> client, prev |-> prev, verdict |-> verdict,
                                       outcome |-> IF verdict.raises THEN "422" ELSE "open",
                                       sent |-> <<>>])
            /\ stage' = IF verdict.raises THEN "ready" ELSE "resolve"
            /\ request' = IF verdict.raises THEN <<>> ELSE PopStore(verdict.request)
            /\ store' = Truthy(IF "store" \in DOMAIN client THEN client.store
                               ELSE config.default_store)
    /\ UNCHANGED <<scene, environ, config, rows>>

\* request.get("input", [])
Input(r) == IF "input" \in DOMAIN r THEN r.input ELSE [form |-> "list", items |-> <<>>]

\* _walk_parent_chain, from row p of a table; 0 is no row.
Chain(table, p) ==
    LET chain[q \in DOMAIN table \cup {0}] ==
            IF q = 0 THEN <<>> ELSE Append(chain[table[q].parent], table[q])
    IN  chain[p]

\* resolve(): history is put before the input; without a parent nothing changes.
Resolve ==
    /\ stage = "resolve"
    /\ stage' = "call"
    /\ LET prev  == turns[This].prev
           items == Reconstruct(Chain(rows, prev)) \o Normalize(Input(request))
       IN  request' = IF prev = 0 THEN request
                      ELSE Update(request, [input |-> [form |-> "list", items |-> items]])
    /\ UNCHANGED <<scene, environ, config, turns, store, rows>>

Outcome(o, sent) == [turns EXCEPT ![This].outcome = o, ![This].sent = sent]

\* As a bug: the request as resolved is recorded (DialogueInOrder).
RecordedAsResolved(t) == Input(request)

\* record(original_request=payload): the input as the client sent it.
Recorded(t) == Input(turns[t].verdict.request)

(***************************************************************************)
(* llm.call or llm.stream, and record().  A keyword given twice is a       *)
(* TypeError, which _wrap makes a ProviderError of status 502.             *)
(***************************************************************************)
Call ==
    /\ stage = "call"
    /\ stage' = "ready"
    /\ LET args == IF Truthy(Get(request, "stream")) THEN StreamArguments(Aliases, request)
                   ELSE CallArguments(Aliases, request)
       IN  \/ /\ Collides(args)
              /\ turns' = Outcome("502", <<>>)
              /\ UNCHANGED rows
           \/ /\ ~Collides(args)
              /\ turns' = Outcome("200", Update(args.spread, args.own))
              /\ \E types \in scene.outputs :
                    rows' = IF ~store THEN rows
                            ELSE Update(rows, [t \in {This} |->
                                   [parent |-> turns[t].prev, input |-> Recorded(t),
                                    output |-> Items(t, "out", types)]])
    /\ request' = <<>>
    /\ UNCHANGED <<scene, environ, config, store>>

Init ==
    /\ scene \in Scenes
    /\ environ \in SetToSeqs(scene.env)
    /\ config = [refused |-> FALSE]
    /\ stage = "boot"
    /\ turns = <<>>
    /\ request = <<>>
    /\ store = FALSE
    /\ rows = <<>>

Next == Start \/ Receive \/ Resolve \/ Call

Spec == Init /\ [][Next]_vars

-----------------------------------------------------------------------------
\* The requests litellm was given, what the validator left of request t, and
\* what the alias, if it names one, adds to it.
Called    == {t \in DOMAIN turns : turns[t].outcome = "200"}
Left(t)   == turns[t].verdict.request
Params(t) == LET m == Get(Left(t), "model")
             IN  IF m \in DOMAIN Aliases THEN Aliases[m] ELSE <<>>

(***************************************************************************)
(* "Pre-call validator that rejects features the gateway can't honor"      *)
(* (validator.py): in either mode, what a client asked for and the         *)
(* configuration rules out never reaches the provider; an operator's alias *)
(* may still ask for it, and the gateway sets some arguments itself.       *)
(***************************************************************************)
NothingRejectedIsSent ==
    \A t \in Called :
        LET sent   == turns[t].sent
            asked  == DOMAIN sent \ (DOMAIN Params(t) \cup DOMAIN Own \cup {"input", "stream"})
        IN  /\ \A f \in DOMAIN config.fields \cap asked : sent[f] # config.fields[f]
            /\ \A f \in scene.reject.present_fields \cap asked : sent[f] = "None"
            /\ "tools" \in asked => \A k \in DOMAIN sent.tools :
                  /\ sent.tools[k] \notin scene.reject.tools
                  /\ config.mode = "strip" /\ scene.reject.strip_mode_allowed_tool_types # {} =>
                        sent.tools[k] \in scene.reject.strip_mode_allowed_tool_types \cup {"None"}

(***************************************************************************)
(* What strip mode reports and what it leaves make up the request as it    *)
(* came: each tool is either reported at its own index or kept in its      *)
(* place, each field reported or kept with its value.                      *)
(***************************************************************************)
StrippedAddsUp ==
    \A t \in DOMAIN turns : ~turns[t].verdict.raises =>
        LET came    == turns[t].client
            verdict == turns[t].verdict
            left    == Left(t)
            tools   == IF "tools" \in DOMAIN came THEN came.tools ELSE <<>>
            Place(i) == i - Cardinality({j \in verdict.indices : j < i})
        IN  /\ DOMAIN left \subseteq DOMAIN came
            /\ \A f \in DOMAIN came \ {"tools"} :
                  f \notin verdict.names => f \in DOMAIN left /\ left[f] = came[f]
            /\ "tools" \notin verdict.names => \A i \in DOMAIN tools \ verdict.indices :
                  "tools" \in DOMAIN left /\ left.tools[Place(i)] = tools[i]
            /\ "tools" \in DOMAIN left =>
                  Len(left.tools) = Len(tools) - Cardinality(verdict.indices)

(***************************************************************************)
(* "A server-configured api_key cannot be overridden by a client-supplied  *)
(* one" (llm.py): whatever an alias sets is sent as it is set, through     *)
(* validation, history and both ways to call; everything else is sent as   *)
(* the client asked for it.                                                *)
(***************************************************************************)
AliasDecides ==
    \A t \in Called : LET sent == turns[t].sent IN
        /\ \A k \in DOMAIN Params(t) : k \in DOMAIN sent /\ sent[k] = Params(t)[k]
        /\ \A k \in DOMAIN Left(t) \ (DOMAIN Params(t) \cup {"input", "stream", "store"}) :
              k \in DOMAIN sent /\ sent[k] = Left(t)[k]

\* The client asks for a stream.
Streams(t) == Truthy(Get(Left(t), "stream"))

(***************************************************************************)
(* A call fails before it reaches the provider only where the client or    *)
(* the alias sets what the gateway sets itself, and then always: that a    *)
(* client asks for a stream is never the reason ("multiple values for      *)
(* keyword argument", llm.py), unless its alias sets `stream` as well.     *)
(***************************************************************************)
OnlyTimeoutsCollide ==
    \A t \in DOMAIN turns : turns[t].outcome \in {"200", "502"} =>
        (turns[t].outcome = "502" <=>
            \/ DOMAIN Own \cap (DOMAIN Left(t) \cup DOMAIN Params(t)) # {}
            \/ Streams(t) /\ "stream" \in DOMAIN Params(t))

\* The requests whose input no alias sets, and what was sent as the input of t.
Continued   == {t \in Called : "input" \notin DOMAIN Params(t)}
Dialogue(t) == Normalize(Input(turns[t].sent))

\* Item a of a history comes before item b: an earlier request, the input
\* before the output, the order within it.
Precedes(a, b) ==
    \/ a.of < b.of
    \/ a.of = b.of /\ a.side = "in" /\ b.side = "out"
    \/ a.of = b.of /\ a.side = b.side /\ a.at < b.at

(***************************************************************************)
(* However deep the conversation, no item is sent twice or out of place: a *)
(* row holds its own turn and never the history it was asked with.         *)
(***************************************************************************)
DialogueInOrder ==
    \A t \in Continued : \A i, j \in DOMAIN Dialogue(t) :
        i < j => Precedes(Dialogue(t)[i], Dialogue(t)[j])

\* The requests whose turns request t continues.
Ancestors(t) ==
    LET before[q \in DOMAIN turns] ==
            IF turns[q].prev = 0 THEN {} ELSE {turns[q].prev} \cup before[turns[q].prev]
    IN  before[t]

\* What a continuation of request p is told of it, and an item as it was there.
Kept(p) == {x \in ToSet(Normalize(Input(Left(p)))) : x.role # "system"}
           \cup {x \in ToSet(rows[p].output) : x.role \in {"message", "function_call"}}
Original(x) == IF x.side = "out" /\ x.role = "assistant" THEN [x EXCEPT !.role = "message"] ELSE x

(***************************************************************************)
(* Nothing said is left out and nothing unsaid slips in: the items sent    *)
(* are those of the ancestors, without their system items ("must not bleed *)
(* into the new request's system prompt", resolver.py) and without         *)
(* reasoning, and all of the current ones.  An answer's messages are sent  *)
(* as the assistant's.                                                     *)
(***************************************************************************)
DialogueIsWhole ==
    \A t \in Continued :
        {Original(x) : x \in ToSet(Dialogue(t))}
        = (UNION {Kept(p) : p \in Ancestors(t)}) \cup ToSet(Normalize(Input(Left(t))))

(***************************************************************************)
(* A provider is never given the result of a function call without the     *)
(* call before it, in whatever turn the call was made.                     *)
(***************************************************************************)
CallsComeFirst ==
    \A t \in Continued : \A j \in DOMAIN Dialogue(t) :
        Dialogue(t)[j].role = "function_call_output" =>
            \E i \in 1..j - 1 : Dialogue(t)[i].role = "function_call"

================================================================================
