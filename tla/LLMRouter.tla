------------------------------- MODULE LLMRouter -------------------------------
(***************************************************************************)
(* The keyword arguments LLMRouter (gateway/llm.py) gives                  *)
(* litellm.aresponses: the request with its alias's litellm_params spread  *)
(* over it, beside the arguments the gateway sets itself.  Python refuses  *)
(* a keyword that is given twice before litellm is entered.                *)
(***************************************************************************)
EXTENDS Dicts, Sequences, SequencesExt

(***************************************************************************)
(* _load_alias_map: entries without a name or a model are skipped, a later *)
(* entry of the same name replaces an earlier one.                         *)
(***************************************************************************)
LoadAliasMap(entries) ==
    LET Usable(e) == Truthy(e.model_name) /\ Truthy(Get(e.litellm_params, "model"))
        Enter(map, e) == IF Usable(e) THEN Update(map, e.model_name :> e.litellm_params)
                         ELSE map
    IN  FoldLeft(Enter, <<>>, entries)

\* As a bug: request fields win over the alias's (AliasDecides).
ResolveClientFirst(aliases, request) ==
    LET requested == Get(request, "model")
    IN  IF requested \in DOMAIN aliases THEN Update(aliases[requested], request) ELSE request

\* _resolve_request
ResolveRequest(aliases, request) ==
    LET requested == Get(request, "model")
    IN  IF requested \in DOMAIN aliases THEN Update(request, aliases[requested]) ELSE request

Own == [timeout |-> "gateway", num_retries |-> "gateway"]

\* call
CallArguments(aliases, request) ==
    [spread |-> ResolveRequest(aliases, request), own |-> Own]

\* As a bug: the caller's `stream` is left in the spread (OnlyTimeoutsCollide).
StreamArgumentsTwice(aliases, request) ==
    [spread |-> ResolveRequest(aliases, request), own |-> Update(Own, [stream |-> "True"])]

\* stream
StreamArguments(aliases, request) ==
    [spread |-> ResolveRequest(aliases, Without(request, {"stream"})),
     own    |-> Update(Own, [stream |-> "True"])]

Collides(args) == DOMAIN args.spread \cap DOMAIN args.own # {}

=============================================================================
