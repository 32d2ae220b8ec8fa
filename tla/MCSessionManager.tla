-------------------------- MODULE MCSessionManager --------------------------
(***************************************************************************)
(* Values of SessionManager's constants for TLC.                            *)
(***************************************************************************)
EXTENDS SessionManager

FlashHigh == DefaultGenerationSettings
ProOff    == [model |-> ModelV4Pro, thinking |-> FALSE, effort |-> ""]
OffHigh   == [model |-> ModelV4Flash, thinking |-> FALSE, effort |-> "high"]

\* Two combinations that are valid and one that approve must refuse.
MCSettingsInputs == {FlashHigh, ProOff, OffHigh}

\* Sessions and handlers are interchangeable; prompts and codes are too.
Interchangeable ==
  Permutations(Ids) \cup Permutations(Prompts) \cup Permutations(Codes)

=============================================================================
