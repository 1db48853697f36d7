----------------------------- MODULE ConfiguredPath -----------------------------
(***************************************************************************)
(* RequestPath where load_config is that of ConfigMerge (the runs give it  *)
(* as Load), and what the configuration then is.                           *)
(***************************************************************************)
EXTENDS RequestPath, ConfigMerge

(***************************************************************************)
(* The file is a nested dict.  A variable sets an option, to a text and    *)
(* never to a dict: none but reject.fields, which is one and has options   *)
(* below it, stands where another needs a section.                         *)
(***************************************************************************)
ASSUME ConfigurationAssumption ==
    \A s \in Scenes :
        /\ Nested(s.yaml)
        /\ IsFiniteSet(s.env)
        /\ \A v \in s.env : v.path \in Paths /\ Coerced(v.text) # Section
        /\ \A v, w \in s.env :
              v.path \in Above(w.path) => v.path = Fields \/ Len(v.path) = 1
        /\ \A order \in SetToSeqs(s.env) : Load(s.yaml, order) = LoadConfig(s.yaml, order)

(***************************************************************************)
(* The order of the environment decides nothing: not the configuration,    *)
(* and not whether the process starts, even when one variable sets a value *)
(* where another needs a section.                                          *)
(***************************************************************************)
OrderIsIrrelevant ==
    stage # "boot" =>
        \A order \in SetToSeqs(scene.env) : LoadConfig(scene.yaml, order) = config

(***************************************************************************)
(* "Env vars take precedence over YAML values" (load_config): what is      *)
(* merged has every option the environment sets, as it sets it, every      *)
(* other option of the file, and no more.                                  *)
(***************************************************************************)
EnvironmentOverYaml ==
    stage \notin {"boot", "refused"} =>
        LET merged == Merged(scene.yaml, environ)
            set    == {var.path : var \in {v \in scene.env : Len(v.path) > 1}}
            kept   == {p \in Values(scene.yaml) :
                         \A q \in set : ~IsPrefix(p, q) /\ ~IsPrefix(q, p)}
        IN  /\ Values(merged) = set \cup kept
            /\ \A var \in scene.env : Len(var.path) > 1 =>
                  merged[var.path] = Coerced(var.text)
            /\ \A p \in kept : merged[p] = scene.yaml[p]

-----------------------------------------------------------------------------
(***************************************************************************)
(* What the documents say and the code does not do: booleans of the        *)
(* environment "rely on Pydantic's coercion" (config.py), so that a field  *)
(* the environment rejects when it is true is not sent when it is true.    *)
(***************************************************************************)
EnvironmentRejectsBooleans ==
    \A t \in Called, var \in scene.env :
        var.path = <<"reject", "fields", "background">> /\ var.text = "'true'" =>
            Get(turns[t].sent, "background") # "True"

=============================================================================
