----------------------------- MODULE MCRequestPath -----------------------------
(***************************************************************************)
(* Instances of RequestPath for TLC: deployments with few clients each, so *)
(* that every run of MaxTurns requests can be taken in every one of them.  *)
(***************************************************************************)
EXTENDS ConfiguredPath, RequestPathInvariant

Var(path, text) == [path |-> path, text |-> text]

\* A file that sets these options.
File(options) ==
    Update([p \in UNION {Above(q) : q \in DOMAIN options} |-> Section], options)
Strip == File(Mode :> "strip")

Ask == "model" :> "fast"
Say == [form |-> "str", roles |-> <<"user">>]
List(roles) == [form |-> "list", roles |-> roles]

\* RejectConfig's defaults, with fewer names.
DefaultReject == [tools |-> {"web_search"}, present_fields |-> {"conversation"},
                  strip_mode_allowed_tool_types |-> {"function"}]

Plain == [yaml |-> <<>>, env |-> {}, reject |-> DefaultReject, model_list |-> <<>>,
          requests |-> {Ask}, inputs |-> {Say}, outputs |-> {<<"message">>}]

\* Tools denied, allowed, unknown, without a type; fields by value and presence.
Demands ==
    {Update(Ask, "tools" :> tools) :
        tools \in {<<>>, <<"function", "web_search", "function">>,
                   <<"web_search", "function", "namespace", "None">>,
                   <<"namespace", "web_search">>}}
    \cup {Update(Ask, f :> v) : f \in {"background", "conversation"},
                                v \in {"True", "False", "1", "None"}}
    \cup {Update(Ask, "background" :> "True" @@ "conversation" :> "c" @@
                      "tools" :> <<"web_search", "web_search", "function">>)}

\* Each way to configure rejection, the client asking for all kinds of things.
Rejecting ==
    {[Plain EXCEPT !.yaml = yaml, !.reject = reject, !.requests = Demands] :
        yaml \in {<<>>, Strip},
        reject \in {DefaultReject,
                    [DefaultReject EXCEPT !.strip_mode_allowed_tool_types = {}],
                    [DefaultReject EXCEPT !.strip_mode_allowed_tool_types = {"web_search", "function"}]}}

Background == Append(Fields, "background")

\* A file, and environments that agree with it, extend it and contradict it.
FileOptions ==
    File(Mode :> "strip" @@ Background :> "True" @@ DefaultStore :> "False")

Environments ==
    {{Var(Background, "'true'")}, {Var(Background, "'1'"), Var(<<"test_storage">>, "x")},
     {Var(Background, "'1'"), Var(Fields, "x")},
     {Var(Append(Fields, "truncation"), "'auto'"), Var(Mode, "reject"),
      Var(DefaultStore, "'false'")},
     {Var(DefaultStore, "'1'"), Var(Mode, "'1'")},
     {Var(DefaultStore, "'true'")},
     {Var(<<"sessions", "default_store">>, "'1'")}}

Configured ==
    {[Plain EXCEPT !.yaml = yaml, !.env = env,
                   !.requests = {Update(Ask, "background" :> v) : v \in {"True", "False", "1", "'true'"}}] :
        yaml \in {<<>>, Strip, FileOptions}, env \in Environments}

\* Two entries of one name, two that are skipped, one that asks for what clients
\* may not, two that set what the gateway sets; clients that send their own.
Entry(name, params) == [model_name |-> name, litellm_params |-> params]
Aliased ==
    {[Plain EXCEPT !.model_list =
        <<Entry("fast", "model" :> "old"),
          Entry("fast", "model" :> "vendor/new" @@ "api_key" :> "ours" @@
                         "background" :> "True"),
          Entry("''", "model" :> "nameless"), Entry("bare", "api_key" :> "unused"),
          Entry("slow", "model" :> "vendor/big" @@ "timeout" :> "600"),
          Entry("live", "model" :> "vendor/live" @@ "stream" :> "True")>>,
                   !.requests =
        {Update("model" :> m, own) :
            m \in {"fast", "bare", "slow", "live"},
            own \in {<<>>, "stream" :> "True", "api_key" :> "theirs",
                     "stream" :> "True" @@ "api_key" :> "theirs", "num_retries" :> "9"}}]}

\* Conversations: every form of input, calls and their results, branches.
Conversing ==
    {[Plain EXCEPT !.requests = {Ask, Update(Ask, "store" :> "False" @@ "stream" :> "True")},
                   !.inputs = {Say, [form |-> "dict", roles |-> <<"user">>],
                               [form |-> "other", roles |-> <<"user">>],
                               List(<<"system", "user">>), List(<<"function_call_output">>)},
                   !.outputs = {<<"message">>, <<"reasoning", "function_call">>,
                                <<"reasoning", "message", "function_call">>}]}

Deployments == Rejecting \cup Configured \cup Aliased \cup Conversing
===============================================================================
