--------------------------- MODULE MCTransformer ---------------------------
(* Instances of Transformer for TLC. *)
EXTENDS Transformer

Config(ordered, rejected) == [ordered |-> ordered, rejected |-> rejected]

Both == {Config(FALSE, {2}), Config(TRUE, {3})}
Pools == {Config(FALSE, {})}
InOrder == {Config(TRUE, {})}
=============================================================================
