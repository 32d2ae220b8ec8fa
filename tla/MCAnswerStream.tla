--------------------------- MODULE MCAnswerStream ---------------------------
(***************************************************************************)
(* Values of AnswerStream's constants for TLC.                              *)
(***************************************************************************)
EXTENDS AnswerStream

MCDeltas     == {"this", "that", "huge"}
MCLongDeltas == {"huge"}
MCReasons    == {"stop", "length"}

=============================================================================
