------------------------------- MODULE Filter --------------------------------
(***************************************************************************)
(* The loop that keeps some elements of a slice in their order, in           *)
(* NormalizePairCode (internal/protocol/types.go) and in Allow               *)
(* (internal/gateway/ratelimit.go).                                         *)
(***************************************************************************)
EXTENDS Integers, Sequences

\* What is kept after n elements.
Kept(s, S) ==
  LET kept[n \in 0..Len(s)] ==
        IF n = 0 THEN << >>
        ELSE IF s[n] \in S THEN Append(kept[n - 1], s[n])
        ELSE kept[n - 1]
  IN  kept

Filter(s, S) == Kept(s, S)[Len(s)]

=============================================================================
