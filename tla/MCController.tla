---------------------------- MODULE MCController ----------------------------
(***************************************************************************)
(* Values of Controller's constants for TLC.                                *)
(***************************************************************************)
EXTENDS Controller

Code == <<"4", "7", "2", "9", "1", "3">>

MCCodes == {Code}

\* What the terminal shows, and nothing.
MCTyped == {FormatPairCode(Code), NoCode}

ProOffPicked  == [model |-> ModelV4Pro, mode |-> "off"]
FlashHighPicked == [model |-> ModelV4Flash, mode |-> "high"]

MCSelections == {ProOffPicked, FlashHighPicked}

MCRequests == {Wire(s) : s \in MCSelections} \cup {NoRequestSettings}

MCSettings == {Parsed(r) : r \in MCRequests}

Flash == ModelV4Flash

Interchangeable == Permutations(Ids) \cup Permutations(Tasks)

=============================================================================
