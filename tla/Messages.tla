-------------------------------- MODULE Messages --------------------------------
(***************************************************************************)
(* How SessionResolver (gateway/session/resolver.py) rebuilds the messages *)
(* of a conversation from inline rows.  An item is a record with a role:   *)
(* the role of a message, or the type of an item without one; what else it *)
(* holds identifies it.  An input is a string, a list of items, one item,  *)
(* or something else.                                                      *)
(***************************************************************************)
EXTENDS Positions, SequencesExt

\* _normalize_current_input; the one item of form "str" is the string's text.
Normalize(input) == IF input.form = "other" THEN <<>> ELSE input.items

\* As a bug: system items are carried over (DialogueIsWhole).
ExtractAll(input) == Normalize(input)

\* _extract_non_system_input
ExtractNonSystem(input) ==
    LET items == Normalize(input)
    IN  Pick(items, {k \in DOMAIN items : items[k].role # "system"})

\* As a bug: only the messages of an output are kept (CallsComeFirst).
OutputMessagesOnly(output) ==
    LET kept == Pick(output, {k \in DOMAIN output : output[k].role = "message"})
    IN  [k \in DOMAIN kept |-> [kept[k] EXCEPT !.role = "assistant"]]

AsSent(item) == IF item.role = "message" THEN [item EXCEPT !.role = "assistant"] ELSE item

\* Of an output, messages become assistant messages, function calls stay as
\* they are, and everything else (reasoning) is dropped.
OutputMessages(output) ==
    LET kept == Pick(output, {k \in DOMAIN output :
                                output[k].role \in {"message", "function_call"}})
    IN  [k \in DOMAIN kept |-> AsSent(kept[k])]

\* What a row adds to the messages.
Said(row) == ExtractNonSystem(row.input) \o OutputMessages(row.output)

\* _reconstruct_messages
Reconstruct(chain) == FlattenSeq([k \in DOMAIN chain |-> Said(chain[k])])

=============================================================================
