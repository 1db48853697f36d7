------------------------------- MODULE Validator -------------------------------
(***************************************************************************)
(* Validator.validate (gateway/validator.py): what a request asks for that *)
(* the gateway cannot honour is refused, or, in strip mode, taken out of   *)
(* the request in place.  cfg is a RejectConfig: mode, tools (denied tool  *)
(* types), fields (rejected values), present_fields, and                   *)
(* strip_mode_allowed_tool_types.  A tool is its type, "None" without one. *)
(***************************************************************************)
EXTENDS Dicts, Naturals, Sequences, SequencesExt

Strips(cfg) == cfg.mode = "strip"

\* As a bug: where there is an allow list the deny list is not looked at
\* (NothingRejectedIsSent).
ToolHitByEither(cfg, ttype) ==
    IF Strips(cfg) /\ cfg.strip_mode_allowed_tool_types # {}
    THEN ttype \notin cfg.strip_mode_allowed_tool_types \cup {"None"}
    ELSE ttype \in cfg.tools

ToolHit(cfg, ttype) ==
    \/ ttype \in cfg.tools
    \/ /\ Strips(cfg)
       /\ cfg.strip_mode_allowed_tool_types # {}
       /\ ttype \notin cfg.strip_mode_allowed_tool_types \cup {"None"}

\* Booleans are compared by identity, everything else by ==.
FieldHit(cfg, request, f) ==
    IF cfg.fields[f] \in Bools THEN Get(request, f) = cfg.fields[f]
    ELSE PyEqual(Get(request, f), cfg.fields[f])

\* As a bug: tools are popped in ascending order (StrippedAddsUp).
PopAscending(tools, hits) ==
    LET popped[i \in 0..Len(tools)] ==
            IF i = 0 THEN tools
            ELSE IF i \in hits THEN RemoveAt(popped[i - 1], i) ELSE popped[i - 1]
    IN  popped[Len(tools)]

\* for i in reversed(indices_to_drop): tools.pop(i)
PopTools(tools, hits) ==
    LET popped[i \in 1..Len(tools) + 1] ==
            IF i = Len(tools) + 1 THEN tools
            ELSE IF i \in hits THEN RemoveAt(popped[i + 1], i) ELSE popped[i + 1]
    IN  popped[1]

(***************************************************************************)
(* Tools, then fields by value, then fields by presence.  indices are the  *)
(* reported tools (counted from 1), in the list as the client sent it;     *)
(* names are the reported fields.  An empty list of tools is taken out.    *)
(***************************************************************************)
Validate(cfg, request) ==
    LET tools   == IF "tools" \in DOMAIN request THEN request.tools ELSE <<>>
        indices == {i \in DOMAIN tools : ToolHit(cfg, tools[i])}
        kept    == PopTools(tools, indices)
        tooled  == IF kept = <<>> THEN Without(request, {"tools"})
                   ELSE Update(request, [tools |-> kept])
        valued  == {f \in DOMAIN cfg.fields : FieldHit(cfg, tooled, f)}
        present == {f \in cfg.present_fields \ valued : Get(tooled, f) # "None"}
    IN  [raises  |-> ~Strips(cfg) /\ (indices # {} \/ valued \cup present # {}),
         indices |-> indices,
         names   |-> valued \cup present,
         request |-> Without(tooled, valued \cup present)]

=============================================================================
