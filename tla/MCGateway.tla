----------------------------- MODULE MCGateway ------------------------------
(***************************************************************************)
(* Values of Gateway's constants for TLC.                                   *)
(***************************************************************************)
EXTENDS Gateway

\* Thinking turned off.
TheRequest  == [model |-> ModelV4Pro, thinking |-> "false", effort |-> ""]
OneRequest  == {TheRequest}
OneSettings == {Parsed(TheRequest)}

Flash == ModelV4Flash

=============================================================================
