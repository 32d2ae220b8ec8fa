------------------------- MODULE AnswerStreamProofs -------------------------
(***************************************************************************)
(* Proofs about AnswerStream: the terminal shows and is told what Answer      *)
(* promises, whatever breaks, and the finish reason it reads is true.         *)
(*                                                                         *)
(* The invariant places every line under way.  While Prompt runs, the screen  *)
(* and the lines ReadSSE holds say how many lines of the answer were read;    *)
(* the next one of the wire is the line that follows, and only the last line  *)
(* of a broken connection may be a piece of one.                             *)
(***************************************************************************)
EXTENDS AnswerStream, SequenceTheorems, TLAPS

\* The frame that ends the answer, as AnswerPrompt writes it.
EndEvent == IF call.err \/ ctx = "DeadlineExceeded" THEN "error" ELSE "done"
EndValue ==
  IF call.err THEN "upstream_error"
  ELSE IF ctx = "DeadlineExceeded" THEN "generation_timeout"
  ELSE IF ctx = "Canceled" THEN "cancelled" ELSE call.finish

\* The frames of the answer are counted from 0: a token each, then the end.
EventOf(k) == IF k < Len(written) THEN "token" ELSE EndEvent
ValueOf(k) == IF k < Len(written) THEN written[k + 1] ELSE EndValue

LineOf(k, o) ==
  IF o = 1 THEN Event(EventOf(k)) ELSE IF o = 2 THEN Data(ValueOf(k)) ELSE Blank

\* The lines of the present frame ReadSSE holds.
Held == IF reader.data # << >> THEN 2 ELSE IF reader.event # "none" THEN 1 ELSE 0

LinesRead == 3 * Len(screen) + Held

-----------------------------------------------------------------------------
(* The invariant *)

\* Until it is answered the session waits, and the call has the whole text.
CallHasText ==
  /\ call.pc # "answered" =>
       memory = "open" /\ conn # "ended" /\ (~call.err => call.text = written)
  /\ memory # "answer" => stored = << >>
  /\ memory = "answer" => stored = written /\ EndEvent = "done"

\* "cancelled" is a reason the gateway gives itself, for a context that is done.
FinishIsTrue ==
  /\ call.finish = "cancelled" => ctx # "nil"
  /\ call.finish # "cancelled" => call.finish = said

\* A reason ends an answer that DeepSeek has finished.
ResultIsLast ==
  result \notin {"none", "error"} =>
    /\ call.pc = "answered"
    /\ EndEvent = "done" /\ result = EndValue

ScreenIsPrefix ==
  /\ Len(screen) <= Len(written)
  /\ \A i \in 1..Len(screen) : screen[i] = written[i]

\* How many lines there are, read or under way.
LinesAreCounted ==
  /\ conn = "open" => LinesRead + Len(wire) = 3 * Len(written)
  /\ conn = "ended" => LinesRead + Len(wire) = 3 * Len(written) + 3
  /\ LinesRead + Len(wire) <= 3 * Len(written) + 3
  /\ LinesRead + Len(wire) > 3 * Len(written) =>
       call.pc = "answered" /\ (EndEvent = "done" => memory = "answer")

\* The lines under way follow those that were read.
WireIsInPlace ==
  \A i \in 1..Len(wire), k \in 0..Len(written), o \in 1..3 :
    LinesRead + i = 3 * k + o =>
      \/ wire[i] = LineOf(k, o)
      \/ conn = "broken" /\ i = Len(wire) /\ wire[i] \in Pieces(LineOf(k, o))

\* ReadSSE holds the first lines of the present frame, or a piece came last.
ReaderIsInPlace ==
  \/ reader = NoEvent
  \/ reader.event = EventOf(Len(screen)) /\ reader.data = << >>
  \/ reader.event = EventOf(Len(screen)) /\ reader.data = <<ValueOf(Len(screen))>>
  \/ conn = "broken" /\ wire = << >> /\ reader.data \in {<< >>, <<"garbage">>}

InPlace ==
  result = "none" =>
    /\ gone => conn = "broken"
    /\ LinesAreCounted
    /\ WireIsInPlace
    /\ ReaderIsInPlace

SInv ==
  /\ TypeOK
  /\ CallHasText /\ FinishIsTrue /\ ResultIsLast
  /\ ScreenIsPrefix /\ InPlace

-----------------------------------------------------------------------------
(* Steps that leave the lines alone *)

LEMMA InitSInv == Init => SInv
<1> SUFFICES ASSUME Init PROVE SInv
  OBVIOUS
<1> USE DEF Init, NoEvent
<1>1. TypeOK
  <2>1. << >> \in Seq(Deltas) /\ << >> \in Seq(Lines) /\ << >> \in Seq(Values)
    OBVIOUS
  <2>2. /\ call \in [pc: {"connecting", "scanning", "returned", "answered"},
                      text: Seq(Deltas), finish: Reasons \cup {"stop", "cancelled"},
                      err: BOOLEAN]
        /\ reader \in [event: {"none", "token", "done", "error", "unknown"},
                         data: Seq(Values)]
    BY <2>1
  <2> QED
    BY <2>1, <2>2 DEF TypeOK
<1>2. CallHasText /\ FinishIsTrue /\ ResultIsLast /\ ScreenIsPrefix
  BY DEF CallHasText, FinishIsTrue, ResultIsLast, ScreenIsPrefix
<1>3. InPlace
  BY DEF InPlace, LinesAreCounted, WireIsInPlace, ReaderIsInPlace, LinesRead, Held
<1> QED
  BY <1>1, <1>2, <1>3 DEF SInv

\* While the call runs every line is one of a token, so what the end will be
\* matters to none of them.
LEMMA QuietStep ==
  ASSUME SInv, call.pc # "answered", call'.pc # "answered",
         UNCHANGED <<conn, wire, terminalVars, sessionVars, written>>,
         gone' /\ result = "none" => conn = "broken"
  PROVE  ScreenIsPrefix' /\ InPlace'
<1> USE DEF terminalVars, sessionVars
<1>1. ScreenIsPrefix'
  BY DEF SInv, ScreenIsPrefix
<1>2. ASSUME result = "none" PROVE InPlace'
  <2> USE <1>2
  <2>1. LinesAreCounted /\ WireIsInPlace /\ ReaderIsInPlace
    BY DEF SInv, InPlace
  <2>2. LinesRead' = LinesRead
    BY DEF LinesRead, Held
  <2>3. LinesRead + Len(wire) <= 3 * Len(written)
    BY <2>1 DEF LinesAreCounted, SInv, TypeOK, LinesRead, Held
  <2>4. LinesAreCounted'
    BY <2>1, <2>2, <2>3 DEF LinesAreCounted
  <2>5. WireIsInPlace'
    <3> SUFFICES ASSUME NEW i \in 1..Len(wire), NEW k \in 0..Len(written),
                        NEW o \in 1..3, LinesRead + i = 3 * k + o
                 PROVE  \/ wire[i] = LineOf(k, o)'
                        \/ conn = "broken" /\ i = Len(wire)
                             /\ wire[i] \in Pieces(LineOf(k, o)')
      BY <2>2 DEF WireIsInPlace, Pieces
    <3>1. \/ wire[i] = LineOf(k, o)
          \/ conn = "broken" /\ i = Len(wire) /\ wire[i] \in Pieces(LineOf(k, o))
      BY <2>1 DEF WireIsInPlace
    <3>2. k < Len(written)
      BY <2>3, SMTT(30) DEF SInv, TypeOK, LinesRead, Held
    <3>3. LineOf(k, o)' = LineOf(k, o)
      BY <3>2 DEF LineOf, EventOf, ValueOf
    <3> QED
      BY <3>1, <3>3
  <2>6. ReaderIsInPlace'
    <3>1. CASE Held = 0
      <4>1. reader.event = "none" /\ reader.data = << >>
        BY <3>1 DEF Held
      <4>2. reader = NoEvent
        BY <4>1 DEF SInv, TypeOK, NoEvent
      <4> QED
        BY <4>2 DEF ReaderIsInPlace, NoEvent
    <3>2. CASE Held # 0
      <4>1. Len(screen) < Len(written)
        BY <2>3, <3>2 DEF SInv, TypeOK, LinesRead, Held
      <4>2. /\ EventOf(Len(screen))' = EventOf(Len(screen))
            /\ ValueOf(Len(screen))' = ValueOf(Len(screen))
        BY <4>1 DEF EventOf, ValueOf
      <4> QED
        BY <2>1, <4>2 DEF ReaderIsInPlace
    <3> QED
      BY <3>1, <3>2
  <2> QED
    BY <2>4, <2>5, <2>6 DEF InPlace
<1>3. CASE result # "none"
  BY <1>1, <1>3 DEF InPlace
<1> QED
  BY <1>1, <1>2, <1>3

LEMMA CallStep ==
  ASSUME SInv,
         \/ Connect \/ ConnectFails \/ StreamFails \/ StreamEnds \/ StreamStops
         \/ \E reason \in Reasons : TakeReason(reason)
  PROVE  SInv'
<1>1. /\ call.pc \in {"connecting", "scanning"} /\ call'.pc # "answered"
      /\ UNCHANGED <<ctx, gone, conn, wire, terminalVars, sessionVars, written>>
  BY ZenonT(30) DEF SInv, TypeOK, Connect, ConnectFails, StreamFails, StreamEnds, StreamStops,
     TakeReason, ReturnError
<1> USE <1>1 DEF terminalVars, sessionVars
<1>2. TypeOK'
  <2>1. call' \in [pc: {"connecting", "scanning", "returned", "answered"},
                    text: Seq(Deltas), finish: Reasons \cup {"stop", "cancelled"},
                    err: BOOLEAN]
    <3>1. << >> \in Seq(Deltas)
      OBVIOUS
    <3>2. call \in [pc: {"connecting", "scanning", "returned", "answered"},
                    text: Seq(Deltas), finish: Reasons \cup {"stop", "cancelled"},
                    err: BOOLEAN]
      BY DEF SInv, TypeOK
    <3> QED
      BY <3>1, <3>2, ZenonT(30) DEF Connect, ConnectFails, StreamFails, StreamEnds, StreamStops,
         TakeReason, ReturnError
  <2>2. said' = said \/ said' \in Reasons
    BY DEF Connect, ConnectFails, StreamFails, StreamEnds, StreamStops, TakeReason,
       ReturnError
  <2> QED
    BY <2>1, <2>2 DEF SInv, TypeOK
<1>3. CallHasText'
  BY ReasonsAreDeepSeeks, ZenonT(30) DEF SInv, TypeOK, CallHasText, Connect, ConnectFails, StreamFails,
     StreamEnds, StreamStops, TakeReason, ReturnError
<1>4. FinishIsTrue'
  BY ReasonsAreDeepSeeks, ZenonT(30) DEF SInv, TypeOK, FinishIsTrue, Connect, ConnectFails,
     StreamFails, StreamEnds, StreamStops, TakeReason, ReturnError
<1>5. ResultIsLast'
  BY DEF SInv, ResultIsLast
<1>6. ScreenIsPrefix' /\ InPlace'
  <2>1. gone' /\ result = "none" => conn = "broken"
    BY DEF SInv, InPlace
  <2> QED
    BY <2>1, QuietStep
<1> QED
  BY <1>2, <1>3, <1>4, <1>5, <1>6 DEF SInv

LEMMA ContextStep ==
  ASSUME SInv, Cancel \/ Timeout \/ Watch
  PROVE  SInv'
<1>1. /\ call.pc # "answered" /\ ctx = "nil"
      /\ ctx' \in {"Canceled", "DeadlineExceeded"}
      /\ UNCHANGED <<call, said, gone, conn, wire, terminalVars, sessionVars, written>>
  BY DEF Cancel, Timeout, Watch, EndedFor, upstreamVars
<1> USE <1>1 DEF terminalVars, sessionVars
<1>2. TypeOK'
  BY DEF SInv, TypeOK
<1>3. CallHasText' /\ FinishIsTrue' /\ ResultIsLast'
  BY DEF SInv, CallHasText, FinishIsTrue, ResultIsLast
<1>4. ScreenIsPrefix' /\ InPlace'
  <2>1. gone' /\ result = "none" => conn = "broken"
    BY DEF SInv, InPlace
  <2> QED
    BY <2>1, QuietStep
<1> QED
  BY <1>2, <1>3, <1>4 DEF SInv

LEMMA NoticeStep ==
  ASSUME SInv, Notice
  PROVE  SInv'
<1> USE DEF Notice, upstreamVars, terminalVars, sessionVars
<1>1. TypeOK' /\ CallHasText' /\ FinishIsTrue' /\ ResultIsLast' /\ ScreenIsPrefix'
  BY DEF SInv, TypeOK, CallHasText, FinishIsTrue, ResultIsLast, ScreenIsPrefix,
     EndEvent, EndValue
<1>2. InPlace'
  <2> SUFFICES ASSUME result = "none" PROVE InPlace'
    BY DEF InPlace
  <2>1. LinesAreCounted /\ WireIsInPlace /\ ReaderIsInPlace
    BY DEF SInv, InPlace
  <2>2. LinesAreCounted'
    BY <2>1 DEF LinesAreCounted, LinesRead, Held, EndEvent
  <2>3. WireIsInPlace'
    <3>1. LinesRead' = LinesRead
      BY DEF LinesRead, Held
    <3>2. \A k, o : LineOf(k, o)' = LineOf(k, o)
      BY DEF LineOf, EventOf, ValueOf, EndEvent, EndValue
    <3> SUFFICES ASSUME NEW i \in 1..Len(wire), NEW k \in 0..Len(written),
                        NEW o \in 1..3, LinesRead + i = 3 * k + o
                 PROVE  \/ wire[i] = LineOf(k, o)'
                        \/ conn = "broken" /\ i = Len(wire)
                             /\ wire[i] \in Pieces(LineOf(k, o)')
      BY <3>1 DEF WireIsInPlace, Pieces
    <3> QED
      BY <2>1, <3>2 DEF WireIsInPlace
  <2>4. ReaderIsInPlace'
    BY <2>1 DEF ReaderIsInPlace, EventOf, ValueOf, EndEvent, EndValue
  <2> QED
    BY <2>2, <2>3, <2>4 DEF InPlace
<1> QED
  BY <1>1, <1>2 DEF SInv

-----------------------------------------------------------------------------
(* Steps that write lines or lose them *)

LEMMA FrameAppended ==
  ASSUME NEW s \in Seq(Lines), NEW name, NEW v, Frame(name, v) \in Seq(Lines)
  PROVE  /\ s \o Frame(name, v) \in Seq(Lines)
         /\ Len(s \o Frame(name, v)) = Len(s) + 3
         /\ \A i \in 1..Len(s) : (s \o Frame(name, v))[i] = s[i]
         /\ (s \o Frame(name, v))[Len(s) + 1] = Event(name)
         /\ (s \o Frame(name, v))[Len(s) + 2] = Data(v)
         /\ (s \o Frame(name, v))[Len(s) + 3] = Blank
BY DEF Frame

LEMMA FrameIsLines ==
  ASSUME NEW name \in {"token", "done", "error"}, NEW v \in Values
  PROVE  Frame(name, v) \in Seq(Lines)
<1>1. Event(name) \in Lines /\ Data(v) \in Lines /\ Blank \in Lines
  BY DEF Lines
<1> QED
  BY <1>1 DEF Frame

\* Lines of tokens that were written stay what they are while more is written.
LEMMA OldLines ==
  ASSUME SInv, NEW k \in 0..Len(written) - 1,
         Len(written') \in Nat, Len(written) <= Len(written'),
         \A i \in 1..Len(written) : written'[i] = written[i]
  PROVE  /\ EventOf(k)' = EventOf(k) /\ ValueOf(k)' = ValueOf(k)
         /\ \A o : LineOf(k, o)' = LineOf(k, o)
<1>1. k < Len(written) /\ k < Len(written') /\ written'[k + 1] = written[k + 1]
  BY DEF SInv, TypeOK
<1>2. EventOf(k)' = EventOf(k) /\ ValueOf(k)' = ValueOf(k)
  BY <1>1 DEF EventOf, ValueOf
<1> QED
  BY <1>2 DEF LineOf

LEMMA ChunkStep ==
  ASSUME SInv, NEW d \in Deltas, NEW reason \in Reasons \cup {"none"},
         TakeChunk(d, reason)
  PROVE  SInv'
<1> USE DEF terminalVars, sessionVars
<1>1. /\ call.pc = "scanning" /\ call'.pc = "scanning" /\ ctx = "nil"
      /\ call' = [call EXCEPT !.text = Append(@, d),
                              !.finish = IF reason = "none" THEN @ ELSE reason]
      /\ said' = IF reason = "none" THEN said ELSE reason
      /\ written' = Append(written, d)
      /\ wire' = IF conn = "open" THEN wire \o Frame("token", d) ELSE wire
      /\ UNCHANGED <<ctx, gone, conn, terminalVars, sessionVars>>
  BY DEF TakeChunk, SInv, TypeOK
<1>2. Frame("token", d) \in Seq(Lines)
  BY FrameIsLines DEF Values
<1>3. wire' \in Seq(Lines)
  BY <1>1, <1>2, FrameAppended DEF SInv, TypeOK
<1>4. /\ written' \in Seq(Deltas) /\ Len(written') = Len(written) + 1
      /\ \A i \in 1..Len(written) : written'[i] = written[i]
      /\ written'[Len(written) + 1] = d
  BY <1>1 DEF SInv, TypeOK
<1>5. TypeOK'
  <2>1. call.text \in Seq(Deltas)
    BY DEF SInv, TypeOK
  <2>2. Append(call.text, d) \in Seq(Deltas)
    BY <2>1
  <2>3. call' \in [pc: {"connecting", "scanning", "returned", "answered"},
                   text: Seq(Deltas), finish: Reasons \cup {"stop", "cancelled"},
                   err: BOOLEAN]
    <3>1. call \in [pc: {"connecting", "scanning", "returned", "answered"},
                   text: Seq(Deltas), finish: Reasons \cup {"stop", "cancelled"},
                   err: BOOLEAN]
      BY DEF SInv, TypeOK
    <3> QED
      BY <1>1, <2>2, <3>1
  <2> QED
    BY <1>1, <1>3, <1>4, <2>3 DEF SInv, TypeOK
<1>6. CallHasText'
  <2>1. conn # "ended" /\ memory = "open" /\ (~call.err => call.text = written)
    BY <1>1 DEF SInv, CallHasText
  <2>2. call'.err = call.err /\ call'.text = Append(call.text, d)
    BY <1>1 DEF SInv, TypeOK
  <2> QED
    BY <1>1, <2>1, <2>2 DEF SInv, CallHasText
<1>7. FinishIsTrue' /\ ResultIsLast'
  <2>1. call'.finish = IF reason = "none" THEN call.finish ELSE reason
    BY <1>1 DEF SInv, TypeOK
  <2> QED
    BY <1>1, <2>1, ReasonsAreDeepSeeks DEF SInv, FinishIsTrue, ResultIsLast
<1>8. ScreenIsPrefix'
  BY <1>1, <1>4 DEF SInv, TypeOK, ScreenIsPrefix
<1>9. InPlace'
  <2> SUFFICES ASSUME result = "none" PROVE InPlace'
    BY <1>1 DEF InPlace
  <2>1. LinesAreCounted /\ WireIsInPlace /\ ReaderIsInPlace /\ (gone => conn = "broken")
    BY DEF SInv, InPlace
  <2>2. LinesRead' = LinesRead /\ LinesRead \in Nat
    BY <1>1 DEF LinesRead, Held, SInv, TypeOK
  <2>3. /\ LinesRead + Len(wire) <= 3 * Len(written)
        /\ conn = "open" => LinesRead + Len(wire) = 3 * Len(written)
        /\ conn # "ended"
    BY <1>1, <2>1, <2>2 DEF LinesAreCounted, SInv, TypeOK, CallHasText
  <2>4. /\ conn = "open" => Len(wire') = Len(wire) + 3
        /\ conn # "open" => wire' = wire
        /\ \A i \in 1..Len(wire) : wire'[i] = wire[i]
        /\ conn = "open" => /\ wire'[Len(wire) + 1] = Event("token")
                            /\ wire'[Len(wire) + 2] = Data(d)
                            /\ wire'[Len(wire) + 3] = Blank
    BY <1>1, <1>2, FrameAppended, SMTT(30) DEF SInv, TypeOK
  <2>5. LinesAreCounted'
    BY <1>1, <1>4, <2>2, <2>3, <2>4, SMTT(30) DEF LinesAreCounted, SInv, TypeOK
  <2>6. WireIsInPlace'
    <3> SUFFICES ASSUME NEW i \in 1..Len(wire'), NEW k \in 0..Len(written'),
                        NEW o \in 1..3, LinesRead + i = 3 * k + o
                 PROVE  \/ wire'[i] = LineOf(k, o)'
                        \/ conn = "broken" /\ i = Len(wire')
                             /\ wire'[i] \in Pieces(LineOf(k, o)')
      BY <1>1, <2>2, SMTT(30) DEF WireIsInPlace, Pieces
    <3>1. CASE i \in 1..Len(wire)
      <4>1. k \in 0..Len(written) - 1
        BY <2>2, <2>3, <3>1, SMTT(30) DEF SInv, TypeOK
      <4>2. LineOf(k, o)' = LineOf(k, o)
        BY <1>4, <4>1, OldLines, SMTT(30) DEF SInv, TypeOK
      <4>3. k \in 0..Len(written)
        BY <4>1 DEF SInv, TypeOK
      <4>4. \/ wire[i] = LineOf(k, o)
            \/ conn = "broken" /\ i = Len(wire) /\ wire[i] \in Pieces(LineOf(k, o))
        BY <2>1, <3>1, <4>3 DEF WireIsInPlace
      <4> QED
        BY <2>4, <3>1, <4>2, <4>4
    <3>2. CASE i \notin 1..Len(wire)
      <4>1. conn = "open" /\ i \in {Len(wire) + 1, Len(wire) + 2, Len(wire) + 3}
        BY <1>3, <2>4, <3>2, SMTT(30) DEF SInv, TypeOK
      <4>2. k = Len(written) /\ o = i - Len(wire)
        BY <2>2, <2>3, <4>1, SMTT(30) DEF SInv, TypeOK
      <4>3. EventOf(k)' = "token" /\ ValueOf(k)' = d
        BY <1>4, <4>2 DEF EventOf, ValueOf, SInv, TypeOK
      <4>4. LineOf(k, o)' = IF o = 1 THEN Event("token")
                            ELSE IF o = 2 THEN Data(d) ELSE Blank
        BY <4>3 DEF LineOf
      <4> QED
        BY <2>4, <4>1, <4>2, <4>4, SMTT(30) DEF SInv, TypeOK
    <3> QED
      BY <3>1, <3>2
  <2>7. ReaderIsInPlace'
    <3>1. CASE Held = 0
      <4>1. reader.event = "none" /\ reader.data = << >>
        BY <3>1 DEF Held
      <4>2. reader = NoEvent
        BY <4>1 DEF SInv, TypeOK, NoEvent
      <4> QED
        BY <1>1, <4>2 DEF ReaderIsInPlace, NoEvent
    <3>2. CASE Held # 0
      <4>1. Len(screen) \in 0..Len(written) - 1
        BY <2>3, <3>2 DEF SInv, TypeOK, LinesRead, Held
      <4>2. /\ EventOf(Len(screen))' = EventOf(Len(screen))
            /\ ValueOf(Len(screen))' = ValueOf(Len(screen))
        <5> DEFINE m == Len(screen)
        <5>1. EventOf(m)' = EventOf(m) /\ ValueOf(m)' = ValueOf(m)
          BY <1>1, <1>4, <4>1 DEF EventOf, ValueOf, SInv, TypeOK
        <5> QED
          BY <1>1, <5>1 DEF EventOf, ValueOf
      <4>3. CASE conn = "open"
        <5>1. wire # << >> \/ ~(conn = "broken")
          BY <4>3
        <5> QED
          BY <1>1, <2>1, <4>2, <4>3 DEF ReaderIsInPlace
      <4>4. CASE conn # "open"
        BY <1>1, <2>1, <2>4, <4>2, <4>4 DEF ReaderIsInPlace
      <4> QED
        BY <4>3, <4>4
    <3> QED
      BY <3>1, <3>2
  <2> QED
    BY <1>1, <2>1, <2>5, <2>6, <2>7 DEF InPlace
<1> QED
  BY <1>5, <1>6, <1>7, <1>8, <1>9 DEF SInv

\* What the switch of streamPrompt comes to.
LEMMA AnswerCases ==
  ASSUME SInv, AnswerPrompt
  PROVE  /\ call.pc = "returned"
         /\ call' = [call EXCEPT !.pc = "answered", !.text = << >>]
         /\ conn' = IF conn = "open" THEN "ended" ELSE conn
         /\ UNCHANGED <<ctx, gone, terminalVars, written, said>>
         /\ gone => memory' = "nothing" /\ stored' = << >> /\ wire' \in {wire, wire \o << >>}
         /\ ~gone => /\ EndEvent = "done" => memory' = "answer" /\ stored' = call.text
                     /\ EndEvent = "error" => memory' = "nothing" /\ stored' = << >>
                     /\ wire' = IF conn = "open" THEN wire \o Frame(EndEvent, EndValue)
                                ELSE wire
<1>1. call.err \in BOOLEAN /\ gone \in BOOLEAN
      /\ ctx \in {"nil", "Canceled", "DeadlineExceeded"}
  BY DEF SInv, TypeOK
<1>2. CASE gone
  BY <1>1, <1>2 DEF AnswerPrompt, Conclude, EndEvent, EndValue
<1>3. CASE ~gone /\ call.err
  BY <1>1, <1>3 DEF AnswerPrompt, Conclude, EndEvent, EndValue
<1>4. CASE ~gone /\ ~call.err /\ ctx = "DeadlineExceeded"
  BY <1>1, <1>4 DEF AnswerPrompt, Conclude, EndEvent, EndValue
<1>5. CASE ~gone /\ ~call.err /\ ctx = "Canceled"
  BY <1>1, <1>5 DEF AnswerPrompt, Conclude, EndEvent, EndValue
<1>6. CASE ~gone /\ ~call.err /\ ctx = "nil"
  BY <1>1, <1>6 DEF AnswerPrompt, Conclude, EndEvent, EndValue
<1> QED
  BY <1>1, <1>2, <1>3, <1>4, <1>5, <1>6

LEMMA AnswerStep ==
  ASSUME SInv, AnswerPrompt
  PROVE  SInv'
<1> USE DEF terminalVars
<1>1. /\ call.pc = "returned"
      /\ call' = [call EXCEPT !.pc = "answered", !.text = << >>]
      /\ conn' = IF conn = "open" THEN "ended" ELSE conn
      /\ UNCHANGED <<ctx, gone, terminalVars, written, said>>
      /\ gone => memory' = "nothing" /\ stored' = << >> /\ wire' \in {wire, wire \o << >>}
      /\ ~gone => /\ EndEvent = "done" => memory' = "answer" /\ stored' = call.text
                  /\ EndEvent = "error" => memory' = "nothing" /\ stored' = << >>
                  /\ wire' = IF conn = "open" THEN wire \o Frame(EndEvent, EndValue)
                             ELSE wire
  BY AnswerCases
<1>2. /\ call'.pc = "answered" /\ call'.err = call.err /\ call'.finish = call.finish
      /\ EndEvent' = EndEvent /\ EndValue' = EndValue
      /\ EndEvent \in {"error", "done"}
  BY <1>1 DEF SInv, TypeOK, EndEvent, EndValue
<1>3. memory = "open" /\ conn # "ended" /\ (~call.err => call.text = written)
      /\ stored = << >>
  BY <1>1 DEF SInv, CallHasText
<1>4. Frame(EndEvent, EndValue) \in Seq(Lines)
  <2>1. EndValue \in Values
    BY DEF SInv, TypeOK, EndValue, Values
  <2> QED
    BY <1>2, <2>1, FrameIsLines
<1>5. wire' \in Seq(Lines) /\ (gone => wire' = wire)
  <2>1. wire \in Seq(Lines)
    BY DEF SInv, TypeOK
  <2>2. wire \o << >> = wire
    BY <2>1
  <2>3. wire \o Frame(EndEvent, EndValue) \in Seq(Lines)
    BY <1>4, <2>1, FrameAppended
  <2>4. wire' \in {wire, wire \o Frame(EndEvent, EndValue)} /\ (gone => wire' = wire)
    BY <1>1, <2>2
  <2> QED
    BY <2>1, <2>3, <2>4
<1>6. TypeOK'
  <2>1. call' \in [pc: {"connecting", "scanning", "returned", "answered"},
                   text: Seq(Deltas), finish: Reasons \cup {"stop", "cancelled"},
                   err: BOOLEAN]
    <3>1. call \in [pc: {"connecting", "scanning", "returned", "answered"},
                   text: Seq(Deltas), finish: Reasons \cup {"stop", "cancelled"},
                   err: BOOLEAN] /\ << >> \in Seq(Deltas)
      BY DEF SInv, TypeOK
    <3> QED
      BY <1>1, <3>1
  <2>2. memory' \in {"answer", "nothing"} /\ stored' \in Seq(Deltas)
    <3>1. call.text \in Seq(Deltas) /\ << >> \in Seq(Deltas)
      BY DEF SInv, TypeOK
    <3> QED
      BY <1>1, <1>2, <3>1
  <2>3. conn' \in {"open", "ended", "broken"}
    BY <1>1 DEF SInv, TypeOK
  <2> QED
    BY <1>1, <1>5, <2>1, <2>2, <2>3 DEF SInv, TypeOK
<1>7. CallHasText'
  <2>1. EndEvent = "done" => ~call.err
    BY DEF EndEvent
  <2> QED
    BY <1>1, <1>2, <1>3, <2>1 DEF CallHasText
<1>8. FinishIsTrue' /\ ResultIsLast' /\ ScreenIsPrefix'
  BY <1>1, <1>2 DEF SInv, FinishIsTrue, ResultIsLast, ScreenIsPrefix
<1>9. InPlace'
  <2> SUFFICES ASSUME result = "none" PROVE InPlace'
    BY <1>1 DEF InPlace
  <2>1. LinesAreCounted /\ WireIsInPlace /\ ReaderIsInPlace /\ (gone => conn = "broken")
    BY DEF SInv, InPlace
  <2>2. LinesRead' = LinesRead /\ LinesRead \in Nat
    BY <1>1 DEF LinesRead, Held, SInv, TypeOK
  <2>3. /\ LinesRead + Len(wire) <= 3 * Len(written)
        /\ conn = "open" => LinesRead + Len(wire) = 3 * Len(written)
    BY <1>1, <2>1, <2>2 DEF LinesAreCounted, SInv, TypeOK
  <2>4. /\ conn = "open" => Len(wire') = Len(wire) + 3
        /\ conn # "open" => wire' = wire
        /\ \A i \in 1..Len(wire) : wire'[i] = wire[i]
        /\ conn = "open" => /\ wire'[Len(wire) + 1] = Event(EndEvent)
                            /\ wire'[Len(wire) + 2] = Data(EndValue)
                            /\ wire'[Len(wire) + 3] = Blank
    <3>1. wire \in Seq(Lines) /\ Len(wire) \in Nat
      BY DEF SInv, TypeOK
    <3>2. LET w == wire \o Frame(EndEvent, EndValue)
          IN  /\ Len(w) = Len(wire) + 3
              /\ \A i \in 1..Len(wire) : w[i] = wire[i]
              /\ w[Len(wire) + 1] = Event(EndEvent)
              /\ w[Len(wire) + 2] = Data(EndValue)
              /\ w[Len(wire) + 3] = Blank
      BY <1>4, <3>1, FrameAppended
    <3>3. CASE conn = "open"
      <4>1. wire' = wire \o Frame(EndEvent, EndValue)
        BY <1>1, <2>1, <3>3
      <4> QED
        BY <3>2, <3>3, <4>1
    <3>4. CASE conn # "open"
      <4>1. wire' = wire
        BY <1>1, <1>5, <3>4
      <4> QED
        BY <3>4, <4>1
    <3> QED
      BY <3>3, <3>4
  <2>5. LinesAreCounted'
    <3>1. conn = "open" => ~gone /\ (EndEvent = "done" => memory' = "answer")
      BY <1>1, <2>1
    <3> QED
      BY <1>1, <1>2, <1>3, <2>2, <2>3, <2>4, <3>1, SMTT(30) DEF LinesAreCounted, SInv, TypeOK
  <2>6. \A k, o : LineOf(k, o)' = LineOf(k, o)
    BY <1>1, <1>2 DEF LineOf, EventOf, ValueOf
  <2>7. WireIsInPlace'
    <3> SUFFICES ASSUME NEW i \in 1..Len(wire'), NEW k \in 0..Len(written),
                        NEW o \in 1..3, LinesRead + i = 3 * k + o
                 PROVE  \/ wire'[i] = LineOf(k, o)'
                        \/ conn' = "broken" /\ i = Len(wire')
                             /\ wire'[i] \in Pieces(LineOf(k, o)')
      BY <1>1, <2>2 DEF WireIsInPlace, Pieces
    <3>1. CASE i \in 1..Len(wire)
      <4>1. \/ wire[i] = LineOf(k, o)
            \/ conn = "broken" /\ i = Len(wire) /\ wire[i] \in Pieces(LineOf(k, o))
        BY <2>1, <3>1 DEF WireIsInPlace
      <4> QED
        BY <1>1, <2>4, <2>6, <3>1, <4>1
    <3>2. CASE i \notin 1..Len(wire)
      <4>1. conn = "open" /\ i \in {Len(wire) + 1, Len(wire) + 2, Len(wire) + 3}
        <5>1. Len(wire) \in Nat
          BY DEF SInv, TypeOK
        <5> QED
          BY <2>4, <3>2, <5>1
      <4>2. k = Len(written) /\ o = i - Len(wire)
        BY <2>2, <2>3, <4>1, SMTT(30) DEF SInv, TypeOK
      <4>3. EventOf(k) = EndEvent /\ ValueOf(k) = EndValue
        BY <4>2 DEF EventOf, ValueOf, SInv, TypeOK
      <4>4. LineOf(k, o) = IF o = 1 THEN Event(EndEvent)
                           ELSE IF o = 2 THEN Data(EndValue) ELSE Blank
        BY <4>3 DEF LineOf
      <4> QED
        BY <2>4, <2>6, <4>1, <4>2, <4>4, SMTT(30) DEF SInv, TypeOK
    <3> QED
      BY <3>1, <3>2
  <2>8. ReaderIsInPlace'
    <3>1. /\ EventOf(Len(screen))' = EventOf(Len(screen))
          /\ ValueOf(Len(screen))' = ValueOf(Len(screen))
      BY <1>1, <1>2 DEF EventOf, ValueOf
    <3> QED
      BY <1>1, <2>1, <2>4, <3>1 DEF ReaderIsInPlace, NoEvent
  <2> QED
    BY <1>1, <2>1, <2>5, <2>7, <2>8 DEF InPlace
<1> QED
  BY <1>6, <1>7, <1>8, <1>9 DEF SInv

LEMMA PiecesAreLines == \A line \in Lines : Pieces(line) \subseteq Lines
BY DEF Pieces, Lines, Values, Other, Event, Data, Blank

\* What arrives is a beginning of what was under way, its last line perhaps cut.
LEMMA ArrivingLines ==
  ASSUME wire \in Seq(Lines), NEW w \in Arriving
  PROVE  /\ w \in Seq(Lines) /\ Len(w) <= Len(wire)
         /\ \A i \in 1..Len(w) :
              w[i] = wire[i] \/ (i = Len(w) /\ w[i] \in Pieces(wire[i]))
<1>1. CASE \E n \in 0..Len(wire) : w = SubSeq(wire, 1, n)
  <2> PICK n \in 0..Len(wire) : w = SubSeq(wire, 1, n)
    BY <1>1
  <2>1. /\ SubSeq(wire, 1, n) \in Seq(Lines) /\ Len(SubSeq(wire, 1, n)) = n
        /\ \A i \in 1..n : SubSeq(wire, 1, n)[i] = wire[i]
    OBVIOUS
  <2> QED
    BY <2>1
<1>2. CASE \E n \in 1..Len(wire) : \E piece \in Pieces(wire[n]) :
             w = Append(SubSeq(wire, 1, n - 1), piece)
  <2> PICK n \in 1..Len(wire) : \E piece \in Pieces(wire[n]) :
           w = Append(SubSeq(wire, 1, n - 1), piece)
    BY <1>2
  <2>1. PICK piece \in Pieces(wire[n]) : w = Append(SubSeq(wire, 1, n - 1), piece)
    OBVIOUS
  <2> DEFINE kept == SubSeq(wire, 1, n - 1)
  <2>2. /\ kept \in Seq(Lines) /\ Len(kept) = n - 1
        /\ \A i \in 1..n - 1 : kept[i] = wire[i]
    OBVIOUS
  <2>3. piece \in Lines
    BY PiecesAreLines
  <2> HIDE DEF kept
  <2>4. /\ Append(kept, piece) \in Seq(Lines) /\ Len(Append(kept, piece)) = n
        /\ Append(kept, piece)[n] = piece
        /\ \A i \in 1..n - 1 : Append(kept, piece)[i] = wire[i]
    BY <2>2, <2>3
  <2>5. w = Append(kept, piece)
    BY <2>1 DEF kept
  <2>6. /\ w \in Seq(Lines) /\ Len(w) = n /\ w[n] = piece
        /\ \A i \in 1..n - 1 : w[i] = wire[i]
    BY <2>4, <2>5
  <2>7. SUFFICES ASSUME NEW i \in 1..Len(w)
                 PROVE  w[i] = wire[i] \/ (i = Len(w) /\ w[i] \in Pieces(wire[i]))
    BY <2>6
  <2>8. CASE i = n
    BY <2>6, <2>8
  <2>9. CASE i # n
    <3>1. i \in 1..n - 1
      BY <2>6, <2>9
    <3> QED
      BY <2>6, <3>1
  <2> QED
    BY <2>8, <2>9
<1> QED
  BY <1>1, <1>2 DEF Arriving

LEMMA BreakStep ==
  ASSUME SInv, Break
  PROVE  SInv'
<1> USE DEF upstreamVars, terminalVars, sessionVars
<1>1. /\ conn # "broken" /\ result = "none" /\ conn' = "broken"
      /\ UNCHANGED <<upstreamVars, ctx, gone, terminalVars, sessionVars>>
  BY DEF Break
<1>2. /\ wire' \in Seq(Lines) /\ Len(wire') <= Len(wire)
      /\ \A i \in 1..Len(wire') :
           wire'[i] = wire[i] \/ (i = Len(wire') /\ wire'[i] \in Pieces(wire[i]))
  BY ArrivingLines DEF Break, SInv, TypeOK
<1>3. TypeOK'
  BY <1>1, <1>2 DEF SInv, TypeOK
<1>4. CallHasText' /\ FinishIsTrue' /\ ResultIsLast' /\ ScreenIsPrefix'
  BY <1>1 DEF SInv, CallHasText, FinishIsTrue, ResultIsLast, ScreenIsPrefix, EndEvent,
     EndValue
<1>5. InPlace'
  <2>1. LinesAreCounted /\ WireIsInPlace /\ ReaderIsInPlace
    BY <1>1 DEF SInv, InPlace
  <2>2. LinesRead' = LinesRead /\ LinesRead \in Nat /\ EndEvent' = EndEvent
    BY <1>1 DEF LinesRead, Held, EndEvent, SInv, TypeOK
  <2>3. LinesAreCounted'
    BY <1>1, <1>2, <2>1, <2>2 DEF LinesAreCounted, SInv, TypeOK
  <2>4. \A k, o : LineOf(k, o)' = LineOf(k, o)
    BY <1>1 DEF LineOf, EventOf, ValueOf, EndEvent, EndValue
  <2>5. WireIsInPlace'
    <3> SUFFICES ASSUME NEW i \in 1..Len(wire'), NEW k \in 0..Len(written),
                        NEW o \in 1..3, LinesRead + i = 3 * k + o
                 PROVE  \/ wire'[i] = LineOf(k, o)'
                        \/ i = Len(wire') /\ wire'[i] \in Pieces(LineOf(k, o)')
      BY <1>1, <2>2, SMTT(30) DEF WireIsInPlace, Pieces
    <3>1. i \in 1..Len(wire)
      BY <1>2 DEF SInv, TypeOK
    <3>2. wire[i] = LineOf(k, o)
      BY <1>1, <2>1, <3>1 DEF WireIsInPlace
    <3> QED
      BY <1>2, <2>4, <3>2
  <2>6. ReaderIsInPlace'
    <3>1. /\ EventOf(Len(screen))' = EventOf(Len(screen))
          /\ ValueOf(Len(screen))' = ValueOf(Len(screen))
      BY <1>1 DEF EventOf, ValueOf, EndEvent, EndValue
    <3> QED
      BY <1>1, <2>1, <3>1 DEF ReaderIsInPlace, NoEvent
  <2> QED
    BY <1>1, <2>3, <2>5, <2>6 DEF InPlace
<1> QED
  BY <1>3, <1>4, <1>5 DEF SInv

-----------------------------------------------------------------------------
(* Steps that read lines *)

\* What Prompt's callback may come to: the next delta is printed, the prompt
\* fails, or it ends with the whole answer on the screen.
PrintsNext ==
  /\ Len(screen) < Len(written)
  /\ screen' = Append(screen, written[Len(screen) + 1])
  /\ result' = "none"

Fails == result' = "error" /\ screen' = screen

Finishes ==
  /\ result' = EndValue /\ screen' = screen
  /\ EndEvent = "done" /\ call.pc = "answered"
  /\ memory = "answer" /\ screen = stored

LEMMA FrameRead ==
  ASSUME SInv, result = "none",
         reader.event = EventOf(Len(screen)), reader.data = <<ValueOf(Len(screen))>>,
         Dispatch(reader.event, Head(reader.data))
  PROVE  PrintsNext \/ Fails \/ Finishes
<1>1. Dispatch(EventOf(Len(screen)), ValueOf(Len(screen)))
  <2>1. Head(reader.data) = ValueOf(Len(screen))
    OBVIOUS
  <2> QED
    BY <2>1
<1>2. EndEvent \in {"done", "error"}
  BY DEF EndEvent
<1>3. CASE Len(screen) < Len(written)
  <2>1. EventOf(Len(screen)) = "token" /\ ValueOf(Len(screen)) = written[Len(screen) + 1]
    BY <1>3 DEF EventOf, ValueOf
  <2>2. Dispatch("token", written[Len(screen) + 1])
    BY <1>1, <2>1
  <2>3. \/ screen' = Append(screen, written[Len(screen) + 1]) /\ UNCHANGED result
        \/ result' = "error" /\ UNCHANGED screen
    <3> DEFINE v == written[Len(screen) + 1]
    <3>1. CASE v = "garbage"
      BY <2>2, <3>1 DEF Dispatch
    <3>2. CASE v # "garbage"
      <4> HIDE DEF v
      <4>1. Dispatch("token", v)
        BY <2>2 DEF v
      <4>2. \/ screen' = Append(screen, v) /\ UNCHANGED result
            \/ result' = "error" /\ UNCHANGED screen
        BY <3>2, <4>1 DEF Dispatch
      <4> QED
        BY <4>2 DEF v
    <3> QED
      BY <3>1, <3>2
  <2> QED
    BY <1>3, <2>3 DEF PrintsNext, Fails
<1>4. CASE ~(Len(screen) < Len(written))
  <2>1. EventOf(Len(screen)) = EndEvent /\ ValueOf(Len(screen)) = EndValue
    BY <1>4 DEF EventOf, ValueOf
  <2>2. Len(screen) = Len(written) /\ screen = written
    <3>1. /\ screen \in Seq(Deltas) /\ written \in Seq(Deltas)
          /\ Len(screen) = Len(written)
          /\ \A i \in 1..Len(screen) : screen[i] = written[i]
      BY <1>4 DEF SInv, TypeOK, ScreenIsPrefix
    <3> QED
      BY <3>1, SeqEqual
  <2>3. LinesRead + Len(wire) > 3 * Len(written)
    BY <2>2 DEF LinesRead, Held, SInv, TypeOK
  <2>4. call.pc = "answered" /\ (EndEvent = "done" => memory = "answer")
    BY <2>3 DEF SInv, InPlace, LinesAreCounted
  <2>5. EndEvent = "done" => screen = stored
    BY <2>2, <2>4 DEF SInv, CallHasText
  <2>6. CASE EndEvent = "done"
    <3>1. \/ result' = EndValue /\ UNCHANGED screen
          \/ result' = "error" /\ UNCHANGED screen
      BY <1>1, <2>1, <2>6 DEF Dispatch
    <3> QED
      BY <2>4, <2>5, <2>6, <3>1 DEF Finishes, Fails
  <2>7. CASE EndEvent = "error"
    BY <1>1, <2>1, <2>7 DEF Dispatch, Fails
  <2> QED
    BY <1>2, <2>6, <2>7
<1> QED
  BY <1>3, <1>4

\* The line that is read next.
LEMMA HeadIsNext ==
  ASSUME SInv, result = "none", wire # << >>
  PROVE  /\ Head(wire) = wire[1] /\ Len(wire) \in Nat \ {0}
         /\ \/ reader = NoEvent /\ wire[1] = Event(EventOf(Len(screen)))
            \/ /\ reader.event = EventOf(Len(screen)) /\ reader.data = << >>
               /\ wire[1] = Data(ValueOf(Len(screen)))
            \/ /\ reader.event = EventOf(Len(screen))
               /\ reader.data = <<ValueOf(Len(screen))>>
               /\ wire[1] = Blank
            \/ /\ conn = "broken" /\ Len(wire) = 1
               /\ reader = NoEvent /\ wire[1] \in {Other, Event("unknown")}
            \/ /\ conn = "broken" /\ Len(wire) = 1
               /\ reader.event = EventOf(Len(screen)) /\ reader.data = << >>
               /\ wire[1] \in {Other, Data("garbage")}
<1> DEFINE m == Len(screen)
<1>1. Head(wire) = wire[1] /\ Len(wire) \in Nat \ {0} /\ m \in 0..Len(written)
  BY DEF SInv, TypeOK, ScreenIsPrefix
<1>2. \A o \in 1..3 : LinesRead + 1 = 3 * m + o =>
        \/ wire[1] = LineOf(m, o)
        \/ conn = "broken" /\ 1 = Len(wire) /\ wire[1] \in Pieces(LineOf(m, o))
  <2>1. WireIsInPlace /\ 1 \in 1..Len(wire)
    BY <1>1 DEF SInv, InPlace
  <2>2. \A i \in 1..Len(wire) : \A k \in 0..Len(written) : \A o \in 1..3 :
          LinesRead + i = 3 * k + o =>
            \/ wire[i] = LineOf(k, o)
            \/ conn = "broken" /\ i = Len(wire) /\ wire[i] \in Pieces(LineOf(k, o))
    BY <2>1 DEF WireIsInPlace
  <2> HIDE DEF m
  <2> QED
    BY <1>1, <2>1, <2>2
<1>3. \/ reader = NoEvent
      \/ reader.event = EventOf(m) /\ reader.data = << >>
      \/ reader.event = EventOf(m) /\ reader.data = <<ValueOf(m)>>
  BY DEF SInv, InPlace, ReaderIsInPlace
<1>4. EventOf(m) # "none"
  BY DEF EventOf, EndEvent
<1>5. CASE reader = NoEvent
  <2>1. LinesRead + 1 = 3 * m + 1
    BY <1>1, <1>5 DEF LinesRead, Held, NoEvent
  <2>2. LineOf(m, 1) = Event(EventOf(m))
    BY DEF LineOf
  <2>3. Pieces(Event(EventOf(m))) = {Other, Event("unknown")}
    BY DEF Pieces, Event
  <2> QED
    BY <1>1, <1>2, <1>5, <2>1, <2>2, <2>3
<1>6. CASE reader.event = EventOf(m) /\ reader.data = << >>
  <2>1. LinesRead + 1 = 3 * m + 2
    BY <1>1, <1>4, <1>6 DEF LinesRead, Held
  <2>2. LineOf(m, 2) = Data(ValueOf(m))
    BY DEF LineOf
  <2>3. Pieces(Data(ValueOf(m))) = {Other, Data("garbage")}
    BY DEF Pieces, Data
  <2> QED
    BY <1>1, <1>2, <1>6, <2>1, <2>2, <2>3
<1>7. CASE reader.event = EventOf(m) /\ reader.data = <<ValueOf(m)>>
  <2>1. LinesRead + 1 = 3 * m + 3
    BY <1>1, <1>7 DEF LinesRead, Held
  <2>2. LineOf(m, 3) = Blank
    BY DEF LineOf
  <2>3. Pieces(Blank) = {}
    BY DEF Pieces, Blank
  <2> QED
    BY <1>1, <1>2, <1>7, <2>1, <2>2, <2>3
<1> QED
  BY <1>3, <1>5, <1>6, <1>7

ReaderType ==
  [event: {"none", "token", "done", "error", "unknown"}, data: Seq(Values)]

LEMMA FrameIsTyped ==
  ASSUME SInv
  PROVE  /\ EventOf(Len(screen)) \in {"token", "done", "error"}
         /\ ValueOf(Len(screen)) \in Values
         /\ NoEvent \in ReaderType /\ reader \in ReaderType
<1>1. EventOf(Len(screen)) \in {"token", "done", "error"}
  BY DEF EventOf, EndEvent
<1>2. ValueOf(Len(screen)) \in Values
  BY DEF SInv, TypeOK, ValueOf, EndValue, Values
<1>3. << >> \in Seq(Values)
  OBVIOUS
<1>4. NoEvent \in ReaderType
  BY <1>3 DEF ReaderType, NoEvent
<1>5. reader \in ReaderType
  BY DEF SInv, TypeOK, ReaderType
<1> QED
  BY <1>1, <1>2, <1>4, <1>5

\* What a line does: the frame goes on, is complete, or is given up.
LEMMA LastLine ==
  ASSUME SInv, Len(wire) = 1
  PROVE  Tail(wire) = << >>
<1>1. wire \in Seq(Lines) /\ wire # << >>
  <2>1. wire = << >> => Len(wire) = 0
    BY EmptySeq
  <2> QED
    BY <2>1 DEF SInv, TypeOK
<1>2. Tail(wire) \in Seq(Lines) /\ Len(Tail(wire)) = 0
  BY <1>1, HeadTailProperties
<1> QED
  BY <1>2, EmptySeq

LEMMA LineCases ==
  ASSUME SInv, ReadLine
  PROVE  /\ result = "none" /\ wire # << >> /\ wire' = Tail(wire)
         /\ UNCHANGED <<upstreamVars, ctx, gone, conn, sessionVars>>
         /\ reader' \in ReaderType
         /\ \/ /\ reader' = [event |-> EventOf(Len(screen)), data |-> << >>]
               /\ Held = 0 /\ UNCHANGED <<screen, result>>
            \/ /\ reader' = [event |-> EventOf(Len(screen)),
                             data |-> <<ValueOf(Len(screen))>>]
               /\ Held = 1 /\ UNCHANGED <<screen, result>>
            \/ reader' = NoEvent /\ Held = 2 /\ (PrintsNext \/ Fails \/ Finishes)
            \/ Fails
            \/ /\ conn = "broken" /\ wire' = << >>
               /\ Held' <= Held + 1 /\ reader'.data \in {<< >>, <<"garbage">>}
               /\ UNCHANGED <<screen, result>>
<1> DEFINE m == Len(screen)
           line == wire[1]
<1>1. /\ result = "none" /\ wire # << >> /\ wire' = Tail(wire) /\ Head(wire) = line
      /\ UNCHANGED <<upstreamVars, ctx, gone, conn, sessionVars>>
  BY HeadIsNext DEF ReadLine
<1>2. /\ EventOf(m) \in {"token", "done", "error"} /\ ValueOf(m) \in Values
      /\ NoEvent \in ReaderType /\ reader \in ReaderType
  BY FrameIsTyped
<1>8. /\ line.kind = "blank" => Flush
      /\ line.kind = "event" => /\ reader' = [reader EXCEPT !.event = line.value]
                                /\ UNCHANGED <<screen, result>>
  BY <1>1 DEF ReadLine, TooLong
<1>3. CASE reader = NoEvent /\ line = Event(EventOf(m))
  <2>1. reader' = [reader EXCEPT !.event = line.value] /\ UNCHANGED <<screen, result>>
    BY <1>3, <1>8 DEF Event
  <2>2. reader' = [event |-> EventOf(m), data |-> << >>]
    BY <1>3, <2>1 DEF Event, NoEvent
  <2>3. reader' \in ReaderType /\ Held = 0
    BY <1>2, <1>3, <2>2 DEF ReaderType, NoEvent, Held
  <2> QED
    BY <1>1, <2>1, <2>2, <2>3
<1>4. CASE reader.event = EventOf(m) /\ reader.data = << >> /\ line = Data(ValueOf(m))
  <2>1. \/ /\ reader' = [reader EXCEPT !.data = Append(@, line.value)]
           /\ UNCHANGED <<screen, result>>
        \/ result' = "error" /\ UNCHANGED <<reader, screen>>
    BY <1>1, <1>4 DEF ReadLine, Data, TooLong
  <2>2. Append(<< >>, ValueOf(m)) = <<ValueOf(m)>> /\ <<ValueOf(m)>> \in Seq(Values)
    BY <1>2
  <2>3. CASE reader' = [reader EXCEPT !.data = Append(@, line.value)]
    <3>1. reader' = [event |-> EventOf(m), data |-> <<ValueOf(m)>>]
      BY <1>2, <1>4, <2>2, <2>3, SMTT(30) DEF Data, ReaderType
    <3>2. reader' \in ReaderType /\ Held = 1
      BY <1>2, <1>4, <2>2, <3>1 DEF ReaderType, Held
    <3> QED
      BY <1>1, <2>1, <3>1, <3>2 DEF Fails
  <2>4. CASE result' = "error" /\ UNCHANGED <<reader, screen>>
    BY <1>1, <1>2, <2>4 DEF Fails
  <2> QED
    BY <2>1, <2>3, <2>4
<1>5. CASE reader.event = EventOf(m) /\ reader.data = <<ValueOf(m)>> /\ line = Blank
  <2>1. Flush
    BY <1>5, <1>8 DEF Blank
  <2>2. reader.data # << >>
    BY <1>5
  <2>3. reader' = NoEvent /\ Dispatch(reader.event, Head(reader.data))
    BY <2>1, <2>2 DEF Flush
  <2>4. PrintsNext \/ Fails \/ Finishes
    BY <1>1, <1>5, <2>3, FrameRead
  <2>5. Held = 2
    BY <2>2 DEF Held
  <2> QED
    BY <1>1, <1>2, <2>3, <2>4, <2>5
<1>6. CASE /\ conn = "broken" /\ Len(wire) = 1
           /\ reader = NoEvent /\ line \in {Other, Event("unknown")}
  <2>1. wire' = << >>
    BY <1>1, <1>6, LastLine
  <2>2. CASE line = Other
    <3>1. UNCHANGED <<reader, screen, result>>
      BY <1>1, <2>2 DEF ReadLine, Other, TooLong, terminalVars
    <3>2. Held' = Held /\ Held = 0
      BY <1>6, <3>1 DEF Held, NoEvent
    <3> QED
      BY <1>1, <1>2, <1>6, <2>1, <3>1, <3>2 DEF NoEvent
  <2>3. CASE line = Event("unknown")
    <3>1. reader' = [reader EXCEPT !.event = "unknown"] /\ UNCHANGED <<screen, result>>
      BY <1>8, <2>3 DEF Event
    <3>2. reader' = [event |-> "unknown", data |-> << >>]
      BY <1>6, <3>1 DEF NoEvent
    <3>3. Held' = 1 /\ Held = 0 /\ reader' \in ReaderType
      BY <1>6, <3>2 DEF Held, NoEvent, ReaderType
    <3> QED
      BY <1>1, <1>6, <2>1, <3>1, <3>2, <3>3
  <2> QED
    BY <1>6, <2>2, <2>3
<1>7. CASE /\ conn = "broken" /\ Len(wire) = 1
           /\ reader.event = EventOf(m) /\ reader.data = << >>
           /\ line \in {Other, Data("garbage")}
  <2>1. wire' = << >>
    BY <1>1, <1>7, LastLine
  <2>2. Held = 1
    BY <1>2, <1>7 DEF Held
  <2>3. CASE line = Other
    <3>1. UNCHANGED <<reader, screen, result>>
      BY <1>1, <2>3 DEF ReadLine, Other, TooLong, terminalVars
    <3>2. Held' = Held
      BY <3>1 DEF Held
    <3> QED
      BY <1>1, <1>2, <1>7, <2>1, <2>2, <3>1, <3>2
  <2>4. CASE line = Data("garbage")
    <3>1. \/ /\ reader' = [reader EXCEPT !.data = Append(@, "garbage")]
             /\ UNCHANGED <<screen, result>>
          \/ result' = "error" /\ UNCHANGED <<reader, screen>>
      BY <1>1, <2>4 DEF ReadLine, Data, TooLong
    <3>2. Append(<< >>, "garbage") = <<"garbage">> /\ <<"garbage">> \in Seq(Values)
      BY DEF Values
    <3>3. CASE reader' = [reader EXCEPT !.data = Append(@, "garbage")]
      <4>1. reader' = [event |-> EventOf(m), data |-> <<"garbage">>]
        BY <1>2, <1>7, <3>2, <3>3 DEF ReaderType
      <4>2. reader' \in ReaderType /\ Held' = 2
        BY <1>2, <3>2, <4>1 DEF ReaderType, Held
      <4> QED
        BY <1>1, <1>7, <2>1, <2>2, <3>1, <4>1, <4>2 DEF Fails
    <3>4. CASE result' = "error" /\ UNCHANGED <<reader, screen>>
      BY <1>1, <1>2, <3>4 DEF Fails
    <3> QED
      BY <3>1, <3>3, <3>4
  <2> QED
    BY <1>7, <2>3, <2>4
<1> QED
  BY <1>1, <1>3, <1>4, <1>5, <1>6, <1>7, HeadIsNext

LEMMA Advance ==
  ASSUME SInv, result = "none", wire # << >>, wire' = Tail(wire),
         UNCHANGED <<upstreamVars, ctx, conn, memory>>,
         LinesRead' = LinesRead + 1
  PROVE  LinesAreCounted' /\ WireIsInPlace'
<1> USE DEF upstreamVars
<1>1. LinesAreCounted /\ WireIsInPlace
  BY DEF SInv, InPlace
<1>2. wire \in Seq(Lines) /\ wire' \in Seq(Lines) /\ Len(wire) \in Nat
      /\ Len(wire') = Len(wire) - 1 /\ \A i \in 1..Len(wire') : wire'[i] = wire[i + 1]
  <2>1. wire \in Seq(Lines)
    BY DEF SInv, TypeOK
  <2> QED
    BY <2>1, HeadTailProperties
<1>3. LinesRead \in Nat
  BY DEF LinesRead, Held, SInv, TypeOK
<1>4. LinesAreCounted'
  BY <1>1, <1>2, <1>3 DEF LinesAreCounted, EndEvent
<1>5. WireIsInPlace'
  <2>1. \A k, o : LineOf(k, o)' = LineOf(k, o)
    BY DEF LineOf, EventOf, ValueOf, EndEvent, EndValue
  <2> SUFFICES ASSUME NEW i \in 1..Len(wire'), NEW k \in 0..Len(written),
                      NEW o \in 1..3, LinesRead + 1 + i = 3 * k + o
               PROVE  \/ wire'[i] = LineOf(k, o)'
                      \/ conn = "broken" /\ i = Len(wire')
                           /\ wire'[i] \in Pieces(LineOf(k, o)')
    BY SMTT(30) DEF WireIsInPlace, Pieces
  <2>2. i + 1 \in 1..Len(wire) /\ LinesRead + (i + 1) = 3 * k + o
    BY <1>2, <1>3
  <2>3. \/ wire[i + 1] = LineOf(k, o)
        \/ conn = "broken" /\ i + 1 = Len(wire) /\ wire[i + 1] \in Pieces(LineOf(k, o))
    BY <1>1, <2>2 DEF WireIsInPlace
  <2>4. LineOf(k, o)' = LineOf(k, o) /\ wire'[i] = wire[i + 1]
    BY <1>2, <2>1
  <2>5. i + 1 = Len(wire) => i = Len(wire')
    <3> DEFINE before == Len(wire)
               after  == Len(wire')
    <3>1. after = before - 1 /\ before \in Nat
      BY <1>2
    <3>2. i \in Int
      OBVIOUS
    <3> SUFFICES i + 1 = before => i = after
      OBVIOUS
    <3> HIDE DEF before, after
    <3> QED
      BY <3>1, <3>2
  <2> QED
    BY <2>3, <2>4, <2>5
<1> QED
  BY <1>4, <1>5

\* Reading changes what was read and, at its end, the result.
LEMMA ReadingKeeps ==
  ASSUME SInv, result = "none",
         PrintsNext \/ Fails \/ Finishes \/ UNCHANGED <<screen, result>>,
         UNCHANGED <<upstreamVars, ctx, gone, conn, sessionVars>>,
         wire' \in Seq(Lines), reader' \in ReaderType,
         result' = "none" => LinesAreCounted' /\ WireIsInPlace' /\ ReaderIsInPlace'
  PROVE  SInv'
<1> USE DEF upstreamVars, sessionVars
<1>1. EndEvent' = EndEvent /\ EndValue' = EndValue
  BY DEF EndEvent, EndValue
<1>2. screen' \in Seq(Deltas) /\ ScreenIsPrefix'
  <2>1. CASE PrintsNext
    BY <2>1 DEF PrintsNext, SInv, TypeOK, ScreenIsPrefix
  <2>2. CASE UNCHANGED screen
    BY <2>2 DEF SInv, TypeOK, ScreenIsPrefix
  <2> QED
    BY <2>1, <2>2 DEF Fails, Finishes
<1>3. \/ result' \in {"none", "error"}
      \/ result' = EndValue /\ EndEvent = "done" /\ call.pc = "answered"
  BY DEF PrintsNext, Fails, Finishes
<1>4. result' \in Reasons \cup {"none", "stop", "cancelled", "error", "silent"}
  <2>1. EndEvent = "done" => EndValue \in Reasons \cup {"stop", "cancelled"}
    BY DEF EndEvent, EndValue, SInv, TypeOK
  <2> QED
    BY <1>3, <2>1
<1>5. TypeOK'
  BY <1>2, <1>4 DEF SInv, TypeOK, ReaderType
<1>6. CallHasText' /\ FinishIsTrue'
  BY <1>1 DEF SInv, CallHasText, FinishIsTrue
<1>7. ResultIsLast'
  BY <1>1, <1>3 DEF ResultIsLast
<1>8. InPlace'
  <2>1. gone => conn = "broken"
    BY DEF SInv, InPlace
  <2> QED
    BY <2>1 DEF InPlace
<1> QED
  BY <1>2, <1>5, <1>6, <1>7, <1>8 DEF SInv

LEMMA ReadLineStep ==
  ASSUME SInv, ReadLine
  PROVE  SInv'
<1> DEFINE m == Len(screen)
<1>1. /\ result = "none" /\ wire # << >> /\ wire' = Tail(wire)
      /\ UNCHANGED <<upstreamVars, ctx, gone, conn, sessionVars>>
      /\ reader' \in ReaderType
  BY LineCases
<1>2. wire' \in Seq(Lines)
  <2>1. wire \in Seq(Lines)
    BY DEF SInv, TypeOK
  <2> QED
    BY <1>1, <2>1, HeadTailProperties
<1>3. EventOf(m) \in {"token", "done", "error"} /\ m \in Nat
  BY FrameIsTyped DEF SInv, TypeOK
<1>4. ASSUME UNCHANGED screen
      PROVE  EventOf(m)' = EventOf(m) /\ ValueOf(m)' = ValueOf(m)
  BY <1>1, <1>4 DEF EventOf, ValueOf, EndEvent, EndValue, upstreamVars
<1>5. CASE /\ reader' = [event |-> EventOf(m), data |-> << >>]
           /\ Held = 0 /\ UNCHANGED <<screen, result>>
  <2>1. Held' = 1
    BY <1>3, <1>5 DEF Held
  <2>2. LinesRead' = LinesRead + 1
    BY <1>3, <1>5, <2>1 DEF LinesRead
  <2>3. LinesAreCounted' /\ WireIsInPlace'
    BY <1>1, <2>2, Advance DEF sessionVars
  <2>4. ReaderIsInPlace'
    BY <1>4, <1>5 DEF ReaderIsInPlace
  <2> QED
    BY <1>1, <1>2, <1>5, <2>3, <2>4, ReadingKeeps
<1>6. CASE /\ reader' = [event |-> EventOf(m), data |-> <<ValueOf(m)>>]
           /\ Held = 1 /\ UNCHANGED <<screen, result>>
  <2>1. Held' = 2
    <3>1. reader'.data # << >>
      BY <1>6
    <3> QED
      BY <3>1 DEF Held
  <2>2. LinesRead' = LinesRead + 1
    BY <1>3, <1>6, <2>1 DEF LinesRead
  <2>3. LinesAreCounted' /\ WireIsInPlace'
    BY <1>1, <2>2, Advance DEF sessionVars
  <2>4. ReaderIsInPlace'
    BY <1>4, <1>6 DEF ReaderIsInPlace
  <2> QED
    BY <1>1, <1>2, <1>6, <2>3, <2>4, ReadingKeeps
<1>7. CASE reader' = NoEvent /\ Held = 2 /\ PrintsNext
  <2>1. Held' = 0 /\ Len(screen') = m + 1
    BY <1>7 DEF Held, NoEvent, PrintsNext, SInv, TypeOK
  <2>2. LinesRead' = LinesRead + 1
    BY <1>3, <1>7, <2>1 DEF LinesRead
  <2>3. LinesAreCounted' /\ WireIsInPlace'
    BY <1>1, <2>2, Advance DEF sessionVars
  <2>4. ReaderIsInPlace'
    BY <1>7 DEF ReaderIsInPlace, NoEvent
  <2> QED
    BY <1>1, <1>2, <1>7, <2>3, <2>4, ReadingKeeps
<1>8. CASE Fails \/ Finishes
  <2>1. result' # "none"
    <3>1. EndEvent = "done" => EndValue \in Reasons \cup {"stop", "cancelled"}
      BY DEF EndEvent, EndValue, SInv, TypeOK
    <3> QED
      BY <1>8, <3>1, ReasonsAreDeepSeeks DEF Fails, Finishes
  <2> QED
    BY <1>1, <1>2, <1>8, <2>1, ReadingKeeps
<1>9. CASE /\ conn = "broken" /\ wire' = << >>
           /\ Held' <= Held + 1 /\ reader'.data \in {<< >>, <<"garbage">>}
           /\ UNCHANGED <<screen, result>>
  <2>1. /\ Held \in 0..2 /\ Held' \in 0..2 /\ Len(wire) \in Nat \ {0} /\ Len(wire') = 0
        /\ Len(written) \in Nat
    <3>1. Len(wire) \in Nat \ {0}
      BY <1>1, HeadIsNext
    <3> QED
      BY <1>9, <3>1 DEF Held, SInv, TypeOK
  <2>2. LinesRead' + Len(wire') <= LinesRead + Len(wire)
    BY <1>3, <1>9, <2>1 DEF LinesRead
  <2>3. LinesAreCounted'
    <3>1. LinesAreCounted /\ LinesRead \in Nat /\ LinesRead' \in Nat
      BY <1>1, <1>3, <1>9, <2>1 DEF SInv, InPlace, LinesRead
    <3> QED
      BY <1>1, <1>9, <2>1, <2>2, <3>1 DEF LinesAreCounted, EndEvent, upstreamVars, sessionVars
  <2>4. WireIsInPlace'
    BY <1>9, <2>1 DEF WireIsInPlace
  <2>5. ReaderIsInPlace'
    BY <1>1, <1>9 DEF ReaderIsInPlace
  <2> QED
    BY <1>1, <1>2, <1>9, <2>3, <2>4, <2>5, ReadingKeeps
<1> QED
  BY <1>5, <1>6, <1>7, <1>8, <1>9, LineCases

\* What the end of the connection does; one that the gateway ended never ends
\* before the frame that ends the answer.
LEMMA EndCases ==
  ASSUME SInv, ReadEnd
  PROVE  /\ result = "none" /\ wire = << >> /\ conn = "broken"
         /\ UNCHANGED <<upstreamVars, ctx, gone, conn, wire, sessionVars>>
         /\ \/ reader' = reader /\ Fails
            \/ /\ reader' = NoEvent
               /\ PrintsNext \/ Fails \/ Finishes \/ UNCHANGED <<screen, result>>
<1>1. /\ result = "none" /\ wire = << >> /\ conn # "open"
      /\ UNCHANGED <<upstreamVars, ctx, gone, conn, wire, sessionVars>>
  BY DEF ReadEnd
<1>2. LinesAreCounted /\ ReaderIsInPlace
  BY <1>1 DEF SInv, InPlace
<1>3. conn = "broken"
  <2>1. Len(wire) = 0
    BY <1>1
  <2>2. Held \in 0..2 /\ Len(screen) <= Len(written)
        /\ Len(screen) \in Nat /\ Len(written) \in Nat
    BY DEF Held, SInv, TypeOK, ScreenIsPrefix
  <2>3. CASE conn = "ended"
    <3>1. 3 * Len(screen) + Held = 3 * Len(written) + 3
      BY <1>2, <2>1, <2>2, <2>3 DEF LinesAreCounted, LinesRead
    <3> QED
      BY <2>2, <3>1
  <2> QED
    BY <1>1, <2>3 DEF SInv, TypeOK
<1>4. CASE reader.data = << >>
  BY <1>1, <1>3, <1>4 DEF ReadEnd, Fails
<1>5. CASE reader.data # << >>
  <2>1. reader' = NoEvent /\ Dispatch(reader.event, Head(reader.data))
    BY <1>5 DEF ReadEnd, Flush
  <2>2. CASE reader.event = EventOf(Len(screen)) /\ reader.data = <<ValueOf(Len(screen))>>
    BY <1>1, <1>3, <2>1, <2>2, FrameRead
  <2>3. CASE reader.data = <<"garbage">>
    <3>1. Dispatch(reader.event, "garbage")
      <4>1. Head(reader.data) = "garbage"
        BY <2>3
      <4> QED
        BY <2>1, <4>1
    <3>2. Fails \/ UNCHANGED <<screen, result>>
      BY <3>1 DEF Dispatch, Fails
    <3> QED
      BY <1>1, <1>3, <2>1, <3>2
  <2> QED
    BY <1>2, <1>5, <2>2, <2>3 DEF ReaderIsInPlace, NoEvent
<1> QED
  BY <1>4, <1>5

LEMMA ReadEndStep ==
  ASSUME SInv, ReadEnd
  PROVE  SInv'
<1>1. /\ result = "none" /\ wire = << >> /\ conn = "broken"
      /\ UNCHANGED <<upstreamVars, ctx, gone, conn, wire, sessionVars>>
      /\ \/ reader' = reader /\ Fails
         \/ /\ reader' = NoEvent
            /\ PrintsNext \/ Fails \/ Finishes \/ UNCHANGED <<screen, result>>
  BY EndCases
<1>2. wire' \in Seq(Lines) /\ reader' \in ReaderType
  BY <1>1, FrameIsTyped DEF SInv, TypeOK
<1>3. ASSUME result' = "none"
      PROVE  LinesAreCounted' /\ WireIsInPlace' /\ ReaderIsInPlace'
  <2>1. reader' = NoEvent /\ (PrintsNext \/ UNCHANGED <<screen, result>>)
    <3>1. EndEvent = "done" => EndValue # "none"
      BY ReasonsAreDeepSeeks DEF EndEvent, EndValue, SInv, TypeOK
    <3> QED
      BY <1>1, <1>3, <3>1 DEF Fails, Finishes
  <2>2. /\ Held' = 0 /\ Held \in 0..2 /\ Len(wire') = 0
        /\ Len(screen) \in Nat /\ Len(written) \in Nat
        /\ Len(screen) <= Len(written)
    BY <1>1, <2>1 DEF Held, NoEvent, SInv, TypeOK, ScreenIsPrefix
  <2>3. Len(screen') <= Len(written) /\ Len(screen') \in Nat
    BY <2>1, <2>2 DEF PrintsNext, SInv, TypeOK
  <2>4. LinesRead' + Len(wire') <= 3 * Len(written)
    BY <2>2, <2>3 DEF LinesRead
  <2>5. LinesRead' \in Nat
    BY <2>2, <2>3 DEF LinesRead
  <2>6. LinesAreCounted'
    BY <1>1, <2>2, <2>4, <2>5 DEF LinesAreCounted, upstreamVars
  <2>7. WireIsInPlace'
    BY <2>2 DEF WireIsInPlace
  <2> QED
    BY <2>1, <2>6, <2>7 DEF ReaderIsInPlace, NoEvent
<1> QED
  BY <1>1, <1>2, <1>3, ReadingKeeps

LEMMA StepSInv ==
  ASSUME SInv, [Next]_vars
  PROVE  SInv'
<1>1. CASE Next
  BY <1>1, CallStep, ContextStep, NoticeStep, ChunkStep, AnswerStep, BreakStep,
     ReadLineStep, ReadEndStep DEF Next, Upstream, Handler, Terminal
<1>2. CASE UNCHANGED vars
  <2> USE <1>2 DEF vars
  <2>1. TypeOK' /\ CallHasText' /\ FinishIsTrue' /\ ResultIsLast' /\ ScreenIsPrefix'
    BY DEF SInv, TypeOK, CallHasText, FinishIsTrue, ResultIsLast, ScreenIsPrefix,
       EndEvent, EndValue
  <2>2. InPlace'
    <3> SUFFICES ASSUME result = "none" PROVE InPlace'
      BY DEF InPlace
    <3>1. LinesAreCounted /\ WireIsInPlace /\ ReaderIsInPlace /\ (gone => conn = "broken")
      BY DEF SInv, InPlace
    <3>2. LinesRead' = LinesRead /\ EndEvent' = EndEvent /\ EndValue' = EndValue
      BY DEF LinesRead, Held, EndEvent, EndValue
    <3>3. /\ EventOf(Len(screen))' = EventOf(Len(screen))
          /\ ValueOf(Len(screen))' = ValueOf(Len(screen))
          /\ \A k, o : LineOf(k, o)' = LineOf(k, o)
      BY <3>2 DEF EventOf, ValueOf, LineOf
    <3>4. LinesAreCounted'
      BY <3>1, <3>2 DEF LinesAreCounted
    <3>5. WireIsInPlace'
      <4> SUFFICES ASSUME NEW i \in 1..Len(wire), NEW k \in 0..Len(written),
                          NEW o \in 1..3, LinesRead + i = 3 * k + o
                   PROVE  \/ wire[i] = LineOf(k, o)'
                          \/ conn = "broken" /\ i = Len(wire)
                               /\ wire[i] \in Pieces(LineOf(k, o)')
        BY <3>2 DEF WireIsInPlace, Pieces
      <4> QED
        BY <3>1, <3>3 DEF WireIsInPlace
    <3>6. ReaderIsInPlace'
      BY <3>1, <3>3 DEF ReaderIsInPlace, NoEvent
    <3> QED
      BY <3>1, <3>4, <3>5, <3>6 DEF InPlace
  <2> QED
    BY <2>1, <2>2 DEF SInv
<1> QED
  BY <1>1, <1>2

-----------------------------------------------------------------------------
(* The theorems *)

LEMMA StreamInvariance == Spec => []SInv
<1>1. Init => SInv
  BY InitSInv
<1>2. SInv /\ [Next]_vars => SInv'
  BY StepSInv
<1> QED
  BY <1>1, <1>2, PTL DEF Spec

\* Every variable of the answer's way keeps its type: what is read back from
\* the wire as a delta is one, and as a finish reason is one.
THEOREM StreamTypeCorrectness == Spec => []TypeOK
<1>1. SInv => TypeOK
  BY DEF SInv
<1> QED
  BY <1>1, StreamInvariance, PTL

\* The finish reason the terminal reads (doPrompt prints it) is the true one:
\* "cancelled" only for a generation that was cancelled, and otherwise what
\* DeepSeek said last.
THEOREM FinishReasonsAreTrue == Spec => []ReasonIsTrue
<1>1. SInv => ReasonIsTrue
  <2> SUFFICES ASSUME SInv, result \notin {"none", "error"}
               PROVE  /\ result = "cancelled" => ctx = "Canceled"
                      /\ result # "cancelled" => result = said
    BY DEF ReasonIsTrue
  <2>1. EndEvent = "done" /\ result = EndValue
    BY DEF SInv, ResultIsLast
  <2>2. ~call.err /\ ctx \in {"nil", "Canceled"}
    BY <2>1 DEF EndEvent, SInv, TypeOK
  <2>3. CASE ctx = "Canceled"
    BY <2>1, <2>2, <2>3 DEF EndValue
  <2>4. CASE ctx = "nil"
    <3>1. result = call.finish
      BY <2>1, <2>2, <2>4 DEF EndValue
    <3> QED
      BY <2>4, <3>1 DEF SInv, FinishIsTrue
  <2> QED
    BY <2>2, <2>3, <2>4
<1> QED
  BY <1>1, StreamInvariance, PTL

LEMMA PromiseInit == Init => Promise!AInit
BY DEF Init, Promise!AInit, outcomeBar

\* Steps the reader of the answer cannot see.
LEMMA UnseenSteps ==
  ASSUME UNCHANGED <<written, terminalVars, sessionVars>>
  PROVE  [Promise!ANext]_(Promise!avars)
BY DEF Promise!avars, outcomeBar, terminalVars, sessionVars

LEMMA ReadingMaps ==
  ASSUME SInv, result = "none", UNCHANGED <<written, sessionVars>>,
         PrintsNext \/ Fails \/ Finishes \/ UNCHANGED <<screen, result>>
  PROVE  [Promise!ANext]_(Promise!avars)
<1> USE DEF sessionVars
<1>1. CASE PrintsNext
  <2>1. Promise!Show
    BY <1>1 DEF PrintsNext, Promise!Show, outcomeBar
  <2> QED
    BY <2>1 DEF Promise!ANext
<1>2. CASE Fails
  <2>1. Promise!TellFailed
    BY <1>2 DEF Fails, Promise!TellFailed, outcomeBar
  <2> QED
    BY <2>1 DEF Promise!ANext
<1>3. CASE Finishes
  <2>1. result' \in Reasons \cup {"stop", "cancelled"}
    BY <1>3 DEF Finishes, EndEvent, EndValue, SInv, TypeOK
  <2>2. result' # "none"
    BY <2>1, ReasonsAreDeepSeeks
  <2>3. CASE result' # "error"
    <3>1. Promise!TellFinished
      BY <1>3, <2>2, <2>3 DEF Finishes, Promise!TellFinished, outcomeBar
    <3> QED
      BY <3>1 DEF Promise!ANext
  <2>4. CASE result' = "error"
    <3>1. Promise!TellFailed
      BY <1>3, <2>4 DEF Finishes, Promise!TellFailed, outcomeBar
    <3> QED
      BY <3>1 DEF Promise!ANext
  <2> QED
    BY <2>3, <2>4
<1>4. CASE UNCHANGED <<screen, result>>
  BY <1>4 DEF Promise!avars, outcomeBar
<1> QED
  BY <1>1, <1>2, <1>3, <1>4

LEMMA ChunkMaps ==
  ASSUME SInv, NEW d \in Deltas, NEW reason \in Reasons \cup {"none"},
         TakeChunk(d, reason)
  PROVE  Promise!ANext
<1>1. memory = "open"
  BY DEF TakeChunk, SInv, CallHasText
<1>2. Promise!Generate
  BY <1>1 DEF TakeChunk, Promise!Generate, outcomeBar, terminalVars, sessionVars
<1> QED
  BY <1>2 DEF Promise!ANext

\* The session keeps all that was generated, or nothing.
LEMMA AnswerMaps ==
  ASSUME SInv, AnswerPrompt
  PROVE  Promise!ANext
<1>1. /\ call.pc = "returned"
      /\ UNCHANGED <<ctx, gone, terminalVars, written, said>>
      /\ gone => memory' = "nothing" /\ stored' = << >>
      /\ ~gone => /\ EndEvent = "done" => memory' = "answer" /\ stored' = call.text
                  /\ EndEvent = "error" => memory' = "nothing" /\ stored' = << >>
  BY AnswerCases
<1>2. memory = "open" /\ stored = << >> /\ (~call.err => call.text = written)
  BY <1>1 DEF SInv, CallHasText
<1>3. EndEvent \in {"done", "error"} /\ (EndEvent = "done" => ~call.err)
  BY DEF EndEvent
<1>4. outcomeBar' = outcomeBar
  BY <1>1 DEF outcomeBar, terminalVars
<1>5. Promise!Remember \/ Promise!Forget
  BY <1>1, <1>2, <1>3, <1>4 DEF Promise!Remember, Promise!Forget, terminalVars
<1> QED
  BY <1>5 DEF Promise!ANext

\* Through every break, cancel and timeout the terminal shows and is told what
\* Answer promises: a prefix of the generated text, and at a finished answer
\* exactly the text the session remembers (docs/protocol.md).
THEOREM AnswersAreDelivered == Spec => DeliversAnswer
<1>1. Init => Promise!AInit
  BY PromiseInit
<1>2. SInv /\ [Next]_vars => [Promise!ANext]_(Promise!avars)
  <2> SUFFICES ASSUME SInv, [Next]_vars PROVE [Promise!ANext]_(Promise!avars)
    OBVIOUS
  <2>1. CASE UNCHANGED vars
    BY <2>1, UnseenSteps DEF vars, terminalVars, sessionVars
  <2>2. ASSUME NEW d \in Deltas, NEW reason \in Reasons \cup {"none"},
               TakeChunk(d, reason)
        PROVE  [Promise!ANext]_(Promise!avars)
    BY <2>2, ChunkMaps
  <2>3. CASE AnswerPrompt
    BY <2>3, AnswerMaps
  <2>4. CASE ReadLine
    BY <2>4, LineCases, ReadingMaps DEF upstreamVars
  <2>5. CASE ReadEnd
    BY <2>5, EndCases, ReadingMaps DEF upstreamVars, Fails
  <2>6. CASE \/ Connect \/ ConnectFails \/ StreamFails \/ StreamEnds \/ StreamStops
             \/ \E reason \in Reasons : TakeReason(reason)
    BY <2>6, UnseenSteps DEF Connect, ConnectFails, StreamFails, StreamEnds,
       StreamStops, TakeReason, ReturnError
  <2>7. CASE Cancel \/ Timeout \/ Watch \/ Notice \/ Break
    BY <2>7, UnseenSteps DEF Cancel, Timeout, Watch, Notice, Break, EndedFor,
       upstreamVars
  <2> QED
    BY <2>1, <2>2, <2>3, <2>4, <2>5, <2>6, <2>7 DEF Next, Upstream, Handler, Terminal
<1> QED
  BY <1>1, <1>2, StreamInvariance, PTL DEF Spec, DeliversAnswer, Promise!ASpec

=============================================================================
