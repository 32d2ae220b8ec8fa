----------------------------- MODULE MCTerminal -----------------------------
(***************************************************************************)
(* Values of Terminal's constants for TLC.                                  *)
(***************************************************************************)
EXTENDS Terminal

Interchangeable == Permutations(Prompts)

Request(m, t, e) == [model |-> m, thinking |-> t, effort |-> e]

\* Thinking turned off with an effort left in the request, and nothing set.
TwoRequests == {Request(ModelV4Pro, "false", "max"), Request("", "nil", "")}
OneRequest  == {Request(ModelV4Pro, "false", "")}

TwoSettings == {Parsed(req) : req \in TwoRequests}
OneSettings == {Parsed(req) : req \in OneRequest}
Flash       == ModelV4Flash

=============================================================================
