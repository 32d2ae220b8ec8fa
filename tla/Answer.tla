------------------------------- MODULE Answer --------------------------------
(***************************************************************************)
(* What one prompt promises, whatever happens between DeepSeek, the gateway  *)
(* and the terminal: the screen shows the generated text from its beginning  *)
(* and without gaps, the session remembers all of it or nothing, and a       *)
(* terminal that is told the answer is finished has on its screen exactly    *)
(* what the session remembers.                                              *)
(***************************************************************************)
EXTENDS Naturals, Sequences

CONSTANT Deltas     \* pieces of text

VARIABLES
  generated,  \* the pieces the model has generated
  screen,     \* the pieces on the terminal's screen
  memory,     \* what the session does with them
  remembered, \* the text that joins the conversation
  outcome     \* what the terminal is told

avars == <<generated, screen, memory, remembered, outcome>>

AInit ==
  /\ generated = << >> /\ screen = << >> /\ remembered = << >>
  /\ memory = "open" /\ outcome = "none"

Generate ==
  /\ memory = "open"
  /\ \E d \in Deltas : generated' = Append(generated, d)
  /\ UNCHANGED <<screen, memory, remembered, outcome>>

Show ==
  /\ outcome = "none"
  /\ Len(screen) < Len(generated)
  /\ screen' = Append(screen, generated[Len(screen) + 1])
  /\ UNCHANGED <<generated, memory, remembered, outcome>>

Remember ==
  /\ memory = "open"
  /\ memory' = "answer" /\ remembered' = generated
  /\ UNCHANGED <<generated, screen, outcome>>

Forget ==
  /\ memory = "open"
  /\ memory' = "nothing"
  /\ UNCHANGED <<generated, screen, remembered, outcome>>

TellFinished ==
  /\ outcome = "none"
  /\ memory = "answer" /\ screen = remembered
  /\ outcome' = "finished"
  /\ UNCHANGED <<generated, screen, memory, remembered>>

\* The connection may fail at any time, also after the session has made up
\* its mind.
TellFailed ==
  /\ outcome = "none"
  /\ outcome' = "failed"
  /\ UNCHANGED <<generated, screen, memory, remembered>>

ANext ==
  \/ Generate \/ Show \/ Remember \/ Forget \/ TellFinished \/ TellFailed

ASpec == AInit /\ [][ANext]_avars

=============================================================================
