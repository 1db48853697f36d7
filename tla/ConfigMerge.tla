------------------------------ MODULE ConfigMerge ------------------------------
(***************************************************************************)
(* load_config (gateway/config.py): the YAML file, with the GATEWAY_*      *)
(* variables of the environment merged over it, given to pydantic.  A      *)
(* nested dict is given by its paths: it maps the path of each of its      *)
(* values to the value, and the path of each dict in it to Section.  Of    *)
(* the options, those that differ in how pydantic takes them are modelled: *)
(* a string (reject.mode), a bool (session.default_store) and a dict of    *)
(* anything (reject.fields).                                               *)
(***************************************************************************)
EXTENDS Dicts, Naturals, Sequences, SequencesExt

Section == "{}"

\* The paths of the dicts a path leads through, and those of d's values.
Above(path) == {SubSeq(path, 1, n) : n \in 1..Len(path) - 1}
Values(d)   == {p \in DOMAIN d : d[p] # Section}

\* Every path of d leads through dicts of d.
Paths     == Seq(STRING) \ {<<>>}
Nested(d) == \A p \in DOMAIN d : p \in Paths /\ Above(p) \subseteq DOMAIN d \ Values(d)

\* As a bug: sections are replaced, not merged (EnvironmentOverYaml).
ShallowMerge(base, override) ==
    Update(Without(base, {p \in DOMAIN base : <<p[1]>> \in DOMAIN override}), override)

(***************************************************************************)
(* _deep_merge.  Its recursion follows a path as long as both have dicts   *)
(* there, so that all of base is kept but what override has itself and     *)
(* what is below a value of override.                                      *)
(***************************************************************************)
DeepMerge(base, override) ==
    LET replaced == {p \in DOMAIN base : Above(p) \cap Values(override) # {}}
    IN  Update(Without(base, replaced), override)

-----------------------------------------------------------------------------
\* d with v at path, whose dicts are made where they are missing.
SetAt(d, path, v) ==
    LET replaced == {p \in DOMAIN d : path \in Above(p)}
        made     == [p \in Above(path) |-> Section]
    IN  Update(Update(Without(d, replaced), made), [p \in {path} |-> v])

\* int(value), where that succeeds.
Coerced(text) == IF text = "'1'" THEN "1" ELSE IF text = "'0'" THEN "0" ELSE text

\* As a bug: a section replaces the value in its way (OrderIsIrrelevant).
NeverBlocked(d, path) == FALSE

\* Walking down path meets a value: indexing it raises TypeError.
Blocked(d, path) == Above(path) \cap Values(d) # {}

\* What one variable, its name split at "__" and its text, adds to what was
\* parsed; one without "__" is skipped.
ParseVariable(r, var) ==
    IF r.raises \/ Len(var.path) = 1 THEN r
    ELSE IF Blocked(r.dict, var.path) THEN [r EXCEPT !.raises = TRUE]
    ELSE [r EXCEPT !.dict = SetAt(r.dict, var.path, Coerced(var.text))]

\* _parse_env_overrides, over os.environ in its order.
ParseEnvOverrides(environ) ==
    LET parsed[n \in 0..Len(environ)] ==
            IF n = 0 THEN [raises |-> FALSE, dict |-> <<>>]
            ELSE ParseVariable(parsed[n - 1], environ[n])
    IN  parsed[Len(environ)]

-----------------------------------------------------------------------------
Merged(yaml, environ) == DeepMerge(yaml, ParseEnvOverrides(environ).dict)

DefaultFields == "background" :> "True" @@ "truncation" :> "'auto'"

TrueTexts  == {"True", "1", "'true'"}
FalseTexts == {"False", "0", "'false'"}

Fields       == <<"reject", "fields">>
Mode         == <<"reject", "mode">>
DefaultStore == <<"session", "default_store">>

(***************************************************************************)
(* The constructor of GatewayConfig: pydantic refuses a section that is a  *)
(* value, an unknown section and a value it cannot take for the option's   *)
(* type; it turns texts into bools where a bool is declared, and nowhere   *)
(* else.                                                                   *)
(***************************************************************************)
Construct(merged) ==
    LET refused ==
            \/ \E p \in DOMAIN merged : Len(p) = 1 /\
                   (p \notin {<<"reject">>, <<"session">>} \/ merged[p] # Section)
            \/ Fields \in Values(merged)
            \/ Mode \in DOMAIN merged
               /\ merged[Mode] \in Bools \cup {"0", "1", "None", Section}
            \/ DefaultStore \in DOMAIN merged
               /\ merged[DefaultStore] \notin TrueTexts \cup FalseTexts
        names == {p[3] : p \in {q \in DOMAIN merged : Len(q) = 3 /\ Fields \in Above(q)}}
    IN  IF refused THEN [refused |-> TRUE]
        ELSE [refused |-> FALSE,
              mode    |-> IF Mode \in DOMAIN merged THEN merged[Mode] ELSE "reject",
              fields  |-> IF Fields \in DOMAIN merged
                          THEN [f \in names |-> merged[Append(Fields, f)]]
                          ELSE DefaultFields,
              default_store |-> IF DefaultStore \in DOMAIN merged
                                   /\ merged[DefaultStore] \in FalseTexts
                                THEN "False" ELSE "True"]

LoadConfig(yaml, environ) ==
    IF ParseEnvOverrides(environ).raises THEN [refused |-> TRUE]
    ELSE Construct(Merged(yaml, environ))

=============================================================================
