---------------------------- MODULE AnswerStream -----------------------------
(***************************************************************************)
(* The way of one answer from DeepSeek to the screen: StreamCompletion reads *)
(* the upstream stream (provider/deepseek), streamPrompt writes a frame per  *)
(* delta and one for the end (gateway/handlers.go, protocol.WriteSSE), and   *)
(* the terminal reads them back (protocol.ReadSSE under client.Prompt).      *)
(*                                                                         *)
(* Frames are modelled by the lines they consist of, because the connection  *)
(* may break between two lines and inside one, and bufio.Scanner hands the   *)
(* piece of a line it has to ReadSSE like any other line.  Of a text only    *)
(* the pieces it was generated in matter; one that does not fit the one      *)
(* megabyte buffer of the reader is in LongDeltas.                          *)
(*                                                                         *)
(* The module starts where the prompt was accepted; what the manager does    *)
(* with it is the module SessionManager.                                    *)
(***************************************************************************)
EXTENDS Integers, Sequences

CONSTANTS
  Deltas,      \* pieces of text DeepSeek generates
  LongDeltas,  \* those whose frame is longer than the reader's buffer
  Reasons,     \* finish reasons DeepSeek may give
  MaxDeltas    \* bound of the model: pieces of one answer

ASSUME LongDeltasAreDeltas == LongDeltas \subseteq Deltas
ASSUME MaxDeltasIsNatural == MaxDeltas \in Nat
\* "none" is a chunk without a reason here, and "cancelled" is the gateway's
\* own word: DeepSeek gives neither as a reason.
ASSUME ReasonsAreDeepSeeks == {"none", "cancelled"} \cap Reasons = {}

VARIABLES
  call,     \* StreamCompletion: where it is, its text, finish reason and error
  ctx,      \* Err() of the generation's context
  gone,     \* r.Context() of the request is done
  conn,     \* the response's connection: open, ended by the gateway, or broken
  wire,     \* the lines written and not read yet
  reader,   \* ReadSSE: its event and dataLines
  screen,   \* what onDelta has printed
  result,   \* what Prompt returns: None, a finish reason or "error"
  memory,   \* the session's part: "open", "answer" or "nothing"
  stored,   \* the text FinishPrompt adds to the history
  written,  \* history: the deltas written to the connection
  said      \* history: the last finish reason DeepSeek gave, or "stop"

vars == <<call, ctx, gone, conn, wire, reader, screen, result, memory, stored,
          written, said>>

upstreamVars == <<call, written, said>>
terminalVars == <<reader, screen, result>>
sessionVars  == <<memory, stored>>

-----------------------------------------------------------------------------
(* Frames and lines *)

\* Payloads: a delta, a finish reason, or JSON that does not parse.
Event(name) == [kind |-> "event", value |-> name]
Data(v)     == [kind |-> "data", value |-> v]
Blank       == [kind |-> "blank", value |-> "none"]
Other       == [kind |-> "other", value |-> "none"]

Frame(name, v) == <<Event(name), Data(v), Blank>>

\* What is left of a line when the connection breaks inside it: a prefix that
\* no case of ReadSSE knows, an unknown event name, or half of a payload.
Pieces(line) ==
  CASE line.kind = "event" -> {Other, Event("unknown")}
    [] line.kind = "data"  -> {Other, Data("garbage")}
    [] OTHER               -> {}

\* What may still arrive of the lines under way.
Arriving ==
  {SubSeq(wire, 1, n) : n \in 0..Len(wire)} \cup
  UNION {{Append(SubSeq(wire, 1, n - 1), piece) : piece \in Pieces(wire[n])} :
         n \in 1..Len(wire)}

NoEvent == [event |-> "none", data |-> << >>]

Init ==
  /\ call = [pc |-> "connecting", text |-> << >>, finish |-> "stop", err |-> FALSE]
  /\ ctx = "nil" /\ gone = FALSE
  /\ conn = "open" /\ wire = << >>
  /\ reader = NoEvent /\ screen = << >> /\ result = "none"
  /\ memory = "open" /\ stored = << >>
  /\ written = << >> /\ said = "stop"

-----------------------------------------------------------------------------
(* StreamCompletion *)

Connect ==
  /\ call.pc = "connecting" /\ ctx = "nil"
  /\ call' = [call EXCEPT !.pc = "scanning"]
  /\ UNCHANGED <<ctx, gone, conn, wire, terminalVars, sessionVars, written, said>>

\* An error drops the text.
ReturnError ==
  /\ call' = [call EXCEPT !.pc = "returned", !.text = << >>, !.err = TRUE]
  /\ UNCHANGED <<ctx, gone, conn, wire, terminalVars, sessionVars, written, said>>

\* Do fails, as it must once the context is done, or the status is not 200.
ConnectFails == call.pc = "connecting" /\ ReturnError

\* Mutant of TakeChunk: a later chunk without a reason resets it.
TakeChunkForgetsReason(d, reason) ==
  /\ call.pc = "scanning" /\ ctx = "nil"
  /\ Len(written) < MaxDeltas
  /\ call' = [call EXCEPT !.text = Append(@, d),
                          !.finish = IF reason = "none" THEN "stop" ELSE reason]
  /\ said' = IF reason = "none" THEN said ELSE reason
  /\ written' = Append(written, d)
  /\ wire' = IF conn = "open" THEN wire \o Frame("token", d) ELSE wire
  /\ UNCHANGED <<ctx, gone, conn, terminalVars, sessionVars>>

\* A chunk with text: onDelta writes its frame, then the text is collected.  A
\* frame written to a broken connection is lost, as long as nobody noticed.
TakeChunk(d, reason) ==
  /\ call.pc = "scanning" /\ ctx = "nil"
  /\ Len(written) < MaxDeltas
  /\ call' = [call EXCEPT !.text = Append(@, d),
                          !.finish = IF reason = "none" THEN @ ELSE reason]
  /\ said' = IF reason = "none" THEN said ELSE reason
  /\ written' = Append(written, d)
  /\ wire' = IF conn = "open" THEN wire \o Frame("token", d) ELSE wire
  /\ UNCHANGED <<ctx, gone, conn, terminalVars, sessionVars>>

\* A chunk with a finish reason and no text.
TakeReason(reason) ==
  /\ call.pc = "scanning" /\ ctx = "nil"
  /\ call' = [call EXCEPT !.finish = reason]
  /\ said' = reason
  /\ UNCHANGED <<ctx, gone, conn, wire, terminalVars, sessionVars, written>>

\* A chunk that does not parse, a line longer than the buffer or a broken
\* upstream connection; or a delta that could not be written.
StreamFails ==
  /\ call.pc = "scanning" /\ ctx = "nil"
  /\ ReturnError

\* [DONE], or the end of the body, which counts as one.
StreamEnds ==
  /\ call.pc = "scanning"
  /\ call' = [call EXCEPT !.pc = "returned"]
  /\ UNCHANGED <<ctx, gone, conn, wire, terminalVars, sessionVars, written, said>>

\* Mutant of StreamStops: the reason is spelt like Go's context.Canceled.
StreamStopsMisspelt ==
  /\ call.pc = "scanning" /\ ctx # "nil"
  /\ call' = [call EXCEPT !.pc = "returned",
                          !.finish = IF @ = "stop" THEN "canceled" ELSE @]
  /\ UNCHANGED <<ctx, gone, conn, wire, terminalVars, sessionVars, written, said>>

\* A stream whose context is done ends with what it has: cancelled().
StreamStops ==
  /\ call.pc = "scanning" /\ ctx # "nil"
  /\ call' = [call EXCEPT !.pc = "returned",
                          !.finish = IF @ = "stop" THEN "cancelled" ELSE @]
  /\ UNCHANGED <<ctx, gone, conn, wire, terminalVars, sessionVars, written, said>>

-----------------------------------------------------------------------------
(* streamPrompt *)

EndedFor(reason) ==
  /\ ctx = "nil" /\ ctx' = reason
  /\ UNCHANGED <<upstreamVars, gone, conn, wire, terminalVars, sessionVars>>

\* POST .../cancel finds the generation as long as it is registered.
Cancel == call.pc # "answered" /\ EndedFor("Canceled")

\* Mutant of Timeout: the timer covers the connection only.
TimeoutConnecting == call.pc = "connecting" /\ EndedFor("DeadlineExceeded")

\* The timer of context.WithTimeout.
Timeout == call.pc # "answered" /\ EndedFor("DeadlineExceeded")

\* The watcher goroutine.
Watch ==
  call.pc \in {"connecting", "scanning"} /\ gone /\ EndedFor("Canceled")

\* The gateway notices that the terminal has gone.
Notice ==
  /\ ~gone /\ conn # "ended" /\ (conn = "broken" \/ result # "none")
  /\ gone' = TRUE
  /\ UNCHANGED <<upstreamVars, ctx, conn, wire, terminalVars, sessionVars>>

\* The handler tells the manager, writes the last frame and returns.
Conclude(kept, text, frame) ==
  /\ memory' = kept /\ stored' = text
  /\ wire' = IF conn = "open" THEN wire \o frame ELSE wire
  /\ conn' = IF conn = "open" THEN "ended" ELSE conn
  /\ call' = [call EXCEPT !.pc = "answered", !.text = << >>]
  /\ UNCHANGED <<ctx, gone, terminalVars, written, said>>

\* The order of the cases is the order of the switch.
AnswerPrompt ==
  /\ call.pc = "returned"
  /\ CASE gone -> Conclude("nothing", << >>, << >>)
       [] ~gone /\ call.err ->
            Conclude("nothing", << >>, Frame("error", "upstream_error"))
       [] ~gone /\ ~call.err /\ ctx = "DeadlineExceeded" ->
            Conclude("nothing", << >>, Frame("error", "generation_timeout"))
       [] ~gone /\ ~call.err /\ ctx = "Canceled" ->
            Conclude("answer", call.text, Frame("done", "cancelled"))
       [] OTHER -> Conclude("answer", call.text, Frame("done", call.finish))

-----------------------------------------------------------------------------
(* The connection *)

\* It breaks, or the client's overall timeout ends it: what is under way may
\* be lost from any point on.
Break ==
  /\ conn # "broken" /\ result = "none"
  /\ conn' = "broken"
  /\ wire' \in Arriving
  /\ UNCHANGED <<upstreamVars, ctx, gone, terminalVars, sessionVars>>

-----------------------------------------------------------------------------
(* Prompt and ReadSSE *)

\* Prompt's callback: what it does with an event, and what Prompt returns if
\* that ends it.  Events it does not know are passed over.
Dispatch(event, v) ==
  CASE event = "token" /\ v # "garbage" ->
         \/ screen' = Append(screen, v) /\ UNCHANGED result
         \/ result' = "error" /\ UNCHANGED screen
    [] event = "done" /\ v # "garbage" -> result' = v /\ UNCHANGED screen
    [] event \in {"token", "done"} /\ v = "garbage" ->
         result' = "error" /\ UNCHANGED screen
    [] event = "error" -> result' = "error" /\ UNCHANGED screen
    [] OTHER -> UNCHANGED <<screen, result>>

\* Mutant of Flush: the data lines stay.
FlushKeepsData ==
  IF reader.data = << >>
  THEN UNCHANGED terminalVars
  ELSE /\ reader' = [reader EXCEPT !.event = "none"]
       /\ Dispatch(reader.event, Head(reader.data))

\* An event of the gateway has one data line; without data there is no event,
\* and its name stays.
Flush ==
  IF reader.data = << >>
  THEN UNCHANGED terminalVars
  ELSE /\ reader' = NoEvent
       /\ Dispatch(reader.event, Head(reader.data))

TooLong(line) == line.kind = "data" /\ line.value \in LongDeltas

ReadLine ==
  /\ result = "none" /\ wire # << >>
  /\ LET line == Head(wire) IN
       \/ line.kind = "blank" /\ Flush
       \/ /\ line.kind = "event"
          /\ reader' = [reader EXCEPT !.event = line.value]
          /\ UNCHANGED <<screen, result>>
       \/ /\ line.kind = "data" /\ ~TooLong(line)
          /\ reader' = [reader EXCEPT !.data = Append(@, line.value)]
          /\ UNCHANGED <<screen, result>>
       \/ TooLong(line) /\ result' = "error" /\ UNCHANGED <<reader, screen>>
       \/ line.kind = "other" /\ UNCHANGED terminalVars
  /\ wire' = Tail(wire)
  /\ UNCHANGED <<upstreamVars, ctx, gone, conn, sessionVars>>

\* Nothing more arrives: what is there is flushed, complete or not, and unless
\* that ends the prompt the scanner's error is returned.
ReadEnd ==
  /\ result = "none" /\ wire = << >> /\ conn # "open"
  /\ IF reader.data # << >>
     THEN Flush
     ELSE /\ result' = IF conn = "broken" THEN "error" ELSE "silent"
          /\ UNCHANGED <<reader, screen>>
  /\ UNCHANGED <<upstreamVars, ctx, gone, conn, wire, sessionVars>>

-----------------------------------------------------------------------------

Upstream ==
  \/ Connect \/ ConnectFails \/ StreamFails \/ StreamEnds \/ StreamStops
  \/ \E d \in Deltas, reason \in Reasons \cup {"none"} : TakeChunk(d, reason)
  \/ \E reason \in Reasons : TakeReason(reason)

Handler == Cancel \/ Timeout \/ Watch \/ Notice \/ AnswerPrompt

Terminal == ReadLine \/ ReadEnd

Next == Upstream \/ Handler \/ Break \/ Terminal

Spec == Init /\ [][Next]_vars

\* The goroutines of both programs run and the timer fires.  DeepSeek may say
\* nothing for ever; its connection ends once the context is done.
Fairness ==
  /\ WF_vars(Timeout) /\ WF_vars(AnswerPrompt)
  /\ WF_vars(StreamStops) /\ WF_vars(ctx # "nil" /\ ConnectFails)
  /\ WF_vars(Terminal)

FairSpec == Spec /\ Fairness

-----------------------------------------------------------------------------

Values == Deltas \cup Reasons \cup
  {"stop", "cancelled", "garbage", "upstream_error", "generation_timeout"}
Lines ==
  {Blank, Other} \cup {Data(v) : v \in Values} \cup
  {Event(name) : name \in {"token", "done", "error", "unknown"}}

\* Every variable has its type.
TypeOK ==
  /\ call \in [pc: {"connecting", "scanning", "returned", "answered"},
               text: Seq(Deltas), finish: Reasons \cup {"stop", "cancelled"},
               err: BOOLEAN]
  /\ ctx \in {"nil", "Canceled", "DeadlineExceeded"}
  /\ gone \in BOOLEAN
  /\ conn \in {"open", "ended", "broken"}
  /\ wire \in Seq(Lines)
  /\ reader \in [event: {"none", "token", "done", "error", "unknown"},
                 data: Seq(Values)]
  /\ screen \in Seq(Deltas)
  /\ result \in Reasons \cup {"none", "stop", "cancelled", "error", "silent"}
  /\ memory \in {"open", "answer", "nothing"}
  /\ stored \in Seq(Deltas) /\ written \in Seq(Deltas)
  /\ said \in Reasons \cup {"stop"}

\* What the terminal was told, as Answer has it.
outcomeBar ==
  IF result = "none" THEN "none"
  ELSE IF result = "error" THEN "failed" ELSE "finished"

\* The stream implements the answer it promises.
Promise == INSTANCE Answer WITH
  generated <- written, remembered <- stored, outcome <- outcomeBar

\* Through every break, cancel and timeout the screen shows a prefix of what
\* was generated, and a terminal that is told that the answer is finished has
\* on its screen exactly what the session remembers (docs/protocol.md, life
\* cycle of a message).
DeliversAnswer == Promise!ASpec

\* The finish reason the terminal reads is true: "cancelled" only for a
\* generation that was cancelled, and otherwise the last reason DeepSeek gave.
ReasonIsTrue ==
  /\ result = "cancelled" => ctx = "Canceled"
  /\ result \notin {"none", "error", "cancelled"} => result = said

\* Prompt returns, whatever DeepSeek and the connection do.
PromptReturns == <>(result # "none")

=============================================================================
