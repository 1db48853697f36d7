------------------------------- MODULE MCGateway -------------------------------
(***************************************************************************)
(* Instances of Gateway and GatewayInvariant for TLC.                      *)
(***************************************************************************)
EXTENDS GatewayInvariant, TLC

Symmetry == Permutations(Ids)

\* Two providers, one model each.
TwoLabels == [m \in Models |-> m]

\* Two aliases without a slash: one label, two providers behind it.
OneLabel == [m \in Models |-> "a"]

\* A request of the given model with the given flags.
Input(m, flags) == [model |-> m, store |-> "store" \in flags,
                    stream |-> "stream" \in flags, big |-> "big" \in flags,
                    unsupported |-> "unsupported" \in flags]

AliasInputs == {Input("a", {"store"}), Input("b", {"store"})}
PlainInputs == {Input("a", {"store"})}
MixedInputs == {Input("a", {"store"}), Input("a", {"store", "stream"}),
                Input("b", {"store"}), Input("a", {}),
                Input("a", {"store", "unsupported"})}
StreamInputs == {Input("a", {"store", "stream"})}
BigInputs == {Input("a", {"store", "big"}), Input("a", {"store", "stream", "big"})}
LargeInputs == {Input("a", {"store", "big"})}
WideInputs == {Input("a", {"store", "big"}), Input("b", {"store"}),
               Input("a", {"stream"})}
=============================================================================
