------------------------------ MODULE Terminal ------------------------------
(***************************************************************************)
(* The terminal client, ds: the REPL (internal/client/cli.go) over its HTTP  *)
(* transport (internal/client/transport.go), at work on one session of the   *)
(* gateway.  The gateway is the module Gateway, so every race between the    *)
(* two programs is there.                                                   *)
(*                                                                         *)
(* The REPL is two goroutines beside the one that reads lines: main runs the *)
(* life of the session, watcher receives SIGINT.  They share the atomics     *)
(* streaming and cancelled and the channel quit.  Every request may be lost, *)
(* and a lost request or reply is an error, which Cancel, Close and the poll *)
(* ignore.  A line can be waiting whenever main looks, so the buffered       *)
(* channel of lines is the choice of what main finds.  cmd/ds runs the REPL  *)
(* under context.Background(), which is never done.  The gateway may die and  *)
(* start again at any time; while it is down every request is lost.          *)
(***************************************************************************)
EXTENDS Gateway

CONSTANTS
  Second   \* ticks in a second, in which the gateway tells the timeout

ASSUME SecondIsPositive == Second \in Nat \ {0}

VARIABLES
  main,       \* where Run and doPrompt are
  sid,        \* r.sess.SessionID
  seen,       \* the state the last poll got, "error" if it got none
  shown,      \* the settings line made of the last poll, None if there is none
  waitLeft,   \* time left to waitApproved's deadline
  prompt,     \* the gateway's handler of the prompt under way
  event,      \* what its stream has brought last, not read yet
  aborted,    \* history: the last prompt's connection was given up or lost
  sig,        \* a signal is in the channel sig, which holds one
  watcher,    \* where the signal goroutine is
  streaming,  \* r.streaming
  cancelled,  \* r.cancelled
  quit        \* the channel quit is closed

mainVars  == <<main, sid, seen, shown, waitLeft, prompt, event, aborted>>
watchVars == <<sig, watcher>>
tvars     == <<gvars, mainVars, watchVars, streaming, cancelled, quit>>

-----------------------------------------------------------------------------

MainPoints ==
  {"creating", "created", "waiting", "status", "polled", "expired", "selecting",
   "resetting", "starting", "posting", "streaming", "ended", "closing", "done"}

WatcherPoints == {"off", "listening", "woken", "swapping", "cancelling"}

TInit ==
  /\ GInit
  /\ main = "creating" /\ sid = None /\ seen = "error"
  /\ shown = None /\ waitLeft = 0
  /\ prompt = None /\ event = None /\ aborted = FALSE
  /\ sig = FALSE /\ watcher = "off"
  /\ streaming = FALSE /\ cancelled = FALSE /\ quit = FALSE

\* main goes on to another point; what it has of the session stays.
Goto(point) ==
  /\ main' = point
  /\ UNCHANGED <<sid, seen, shown, waitLeft, prompt, event, aborted>>

Flags == <<streaming, cancelled, quit>>

-----------------------------------------------------------------------------
(* Run: pairing *)

\* int(PairTimeout / time.Second), which Run turns back into a deadline.
ExpiresIn == PairTimeout \div Second

\* The gateway makes the session; the deadline starts with its reply, which may
\* not come.  A creation that fails leaves the same trace as no creation.
CreateSession ==
  /\ main = "creating"
  /\ \/ \E id \in Ids, code \in Codes :
          HandleCreate(id, code) /\ sid' = id /\ main' = "created"
     \/ UNCHANGED <<gvars, sid>> /\ main' = "done"
  /\ UNCHANGED <<seen, shown, waitLeft, prompt, event, aborted, watchVars, Flags>>

CreateReply ==
  /\ main = "created"
  /\ \/ main' = "waiting" /\ waitLeft' = ExpiresIn * Second /\ UNCHANGED sid
     \/ main' = "done" /\ sid' = None /\ UNCHANGED waitLeft
  /\ UNCHANGED <<gvars, seen, shown, prompt, event, aborted, watchVars, Flags>>

\* formatEffectiveSettings.
SettingsLine(s) ==
  [name |-> IF s.model = ModelV4Pro THEN "DeepSeek V4 Pro" ELSE "DeepSeek V4 Flash",
   thinking |-> IF ~s.thinking THEN "Off"
                ELSE IF s.effort = "low" THEN "Low"
                ELSE IF s.effort = "max" THEN "Max" ELSE "High"]

\* Mutant of PollSettings: the settings of an earlier poll are kept.
PollSettingsCached ==
  /\ main = "status"
  /\ main' = "polled"
  /\ UNCHANGED <<gvars, sid, seen, shown, waitLeft, prompt, event, aborted,
                 watchVars, Flags>>

\* handleStatus: the state is read under the manager's lock, the settings under
\* another one.  A session that is gone is a 404, an error like any other.
PollState ==
  /\ main = "waiting"
  /\ main' = "status"
  /\ seen' = IF sid \in live THEN sess[sid].state ELSE "error"
  /\ UNCHANGED <<gvars, sid, shown, waitLeft, prompt, event, aborted, watchVars,
                 Flags>>

\* The settings join the reply when there are any; or all of it is lost.
PollSettings ==
  /\ main = "status"
  /\ main' = "polled"
  /\ \/ /\ UNCHANGED seen
        /\ shown' = IF sid \in live /\ sess[sid].settings.model # ""
                    THEN SettingsLine(sess[sid].settings) ELSE None
     \/ seen' = "error" /\ shown' = None
  /\ UNCHANGED <<gvars, sid, waitLeft, prompt, event, aborted, watchVars, Flags>>

\* Mutant of GiveUp: main gives up at its deadline and not after it.
GiveUpAtOnce == waitLeft <= 0

GiveUp == waitLeft < 0

\* What waitApproved makes of it; Run starts the signal goroutine next.
Polled ==
  /\ main = "polled" /\ seen' = "error"
  /\ IF seen = "APPROVED"
     THEN main' = "selecting" /\ watcher' = "listening" /\ UNCHANGED shown
     ELSE /\ main' = IF GiveUp THEN "expired" ELSE "waiting"
          /\ shown' = None
          /\ UNCHANGED watcher
  /\ UNCHANGED <<gvars, sid, waitLeft, prompt, event, aborted, sig, Flags>>

InterruptedWaiting ==
  /\ main = "waiting" /\ sig
  /\ sig' = FALSE
  /\ Goto("closing")
  /\ UNCHANGED <<gvars, watcher, Flags>>

-----------------------------------------------------------------------------
(* Run: the chat loop *)

\* The select: a line to send, or quit, /exit and the end of the input.
TakeLine ==
  /\ main = "selecting"
  /\ Goto("resetting")
  /\ UNCHANGED <<gvars, watchVars, Flags>>

\* Mutant of EndChat: quit is not among the cases.
EndChatDeaf ==
  /\ main = "selecting" /\ ~quit
  /\ Goto("closing")
  /\ UNCHANGED <<gvars, watchVars, Flags>>

EndChat ==
  /\ main = "selecting"
  /\ Goto("closing")
  /\ UNCHANGED <<gvars, watchVars, Flags>>

\* doPrompt: cancelled.Store(false), then streaming.Store(true).
Reset ==
  /\ main = "resetting"
  /\ cancelled' = FALSE
  /\ Goto("starting")
  /\ UNCHANGED <<gvars, watchVars, streaming, quit>>

Start ==
  /\ main = "starting"
  /\ streaming' = TRUE
  /\ Goto("posting")
  /\ UNCHANGED <<gvars, watchVars, cancelled, quit>>

\* Prompt: the gateway takes the request.
Post(p, content) ==
  /\ main = "posting"
  /\ HandlePrompt(p, sid, content)
  /\ main' = "streaming" /\ prompt' = p
  /\ UNCHANGED <<sid, seen, shown, waitLeft, event, aborted, watchVars, Flags>>

\* Or it refuses it, or the request does not get there.
PostFails ==
  /\ main = "posting"
  /\ Goto("ended")
  /\ UNCHANGED <<gvars, watchVars, Flags>>

\* Prompt returns with the done or error event, or a broken connection.
ReadEvent ==
  /\ main = "streaming" /\ event # None
  /\ main' = "ended" /\ prompt' = None /\ event' = None
  /\ aborted' = (event = "broken")
  /\ UNCHANGED <<gvars, sid, seen, shown, waitLeft, watchVars, Flags>>

\* The client's overall timeout, a bad event or an output that is closed.
AbortPrompt ==
  /\ main = "streaming" /\ event = None
  /\ Disconnect(prompt)
  /\ main' = "ended" /\ prompt' = None /\ aborted' = TRUE
  /\ UNCHANGED <<sid, seen, shown, waitLeft, event, watchVars, Flags>>

\* doPrompt's deferred streaming.Store(false).
EndPrompt ==
  /\ main = "ended"
  /\ streaming' = FALSE
  /\ Goto("selecting")
  /\ UNCHANGED <<gvars, watchVars, cancelled, quit>>

\* Close, at the end of the chat and after a failed wait; its error is dropped.
Close ==
  /\ main \in {"closing", "expired"}
  /\ HandleClose(sid) \/ UNCHANGED gvars
  /\ Goto("done")
  /\ UNCHANGED <<watchVars, Flags>>

-----------------------------------------------------------------------------
(* The signal goroutine *)

\* Ctrl+C; a second one is dropped while the first is in the channel.
Interrupt ==
  /\ main # "done" /\ ~sig
  /\ sig' = TRUE
  /\ UNCHANGED <<gvars, mainVars, watcher, Flags>>

Wake ==
  /\ main # "done" /\ watcher = "listening" /\ sig
  /\ sig' = FALSE /\ watcher' = "woken"
  /\ UNCHANGED <<gvars, mainVars, Flags>>

\* r.streaming.Load decides between the prompt and the session.
LoadStreaming ==
  /\ main # "done" /\ watcher = "woken"
  /\ watcher' = IF streaming THEN "swapping" ELSE "listening"
  /\ quit' = (quit \/ ~streaming)
  /\ UNCHANGED <<gvars, mainVars, sig, streaming, cancelled>>

\* r.cancelled.Swap(true): only the first signal of a prompt sends a cancel.
SwapCancelled ==
  /\ main # "done" /\ watcher = "swapping"
  /\ watcher' = IF cancelled THEN "listening" ELSE "cancelling"
  /\ cancelled' = TRUE
  /\ UNCHANGED <<gvars, mainVars, sig, streaming, quit>>

\* Cancel returns: it has cancelled what it found, found nothing (404) or was
\* lost.  A request that is out is answered even when the terminal is done.
CancelReturns ==
  /\ watcher = "cancelling"
  /\ watcher' = "listening"
  /\ HandleCancel(sid) \/ UNCHANGED gvars
  /\ UNCHANGED <<mainVars, sig, Flags>>

-----------------------------------------------------------------------------
(* The gateway, the network and the controller *)

\* A handler of the gateway takes a step; the event it ends with goes to the
\* terminal, when the terminal still listens and the connection is whole.
HandlerStep(p) ==
  /\ PrompterStep(p)
  /\ event' = IF /\ p = prompt /\ event = None
                 /\ prompter[p].pc = "replying" /\ prompter'[p].pc = "idle"
              THEN "answer" ELSE event
  /\ UNCHANGED <<main, sid, seen, shown, waitLeft, prompt, aborted, watchVars, Flags>>

Upstream(p) == UpstreamStep(p) /\ UNCHANGED <<mainVars, watchVars, Flags>>

\* The connection of a prompt breaks: both ends notice.
Break ==
  /\ main = "streaming" /\ event = None
  /\ Disconnect(prompt)
  /\ event' = "broken"
  /\ UNCHANGED <<main, sid, seen, shown, waitLeft, prompt, aborted, watchVars, Flags>>

\* The rest of an approval makes a reply for the controller only: each of
\* Approvers makes one.
Controller ==
  /\ \/ \E a \in Approvers, req \in ApproveRequests : HandleApprove(a, req)
     \/ \E id, token \in Ids : HandleEnd(id, token)
  /\ UNCHANGED <<mainVars, watchVars, Flags>>

\* The gateway's process ends: its sessions and handlers are gone, the
\* connection of a prompt breaks.  It starts again when it likes.
GatewayDies ==
  /\ ManagerDies
  /\ prompter' = [p \in Prompts |-> IdlePrompter]
  /\ approver' = [a \in Approvers |-> IdleApprover]
  /\ event' = IF main = "streaming" /\ event = None THEN "broken" ELSE event
  /\ UNCHANGED <<main, sid, seen, shown, waitLeft, prompt, aborted, watchVars,
                 Flags>>

Sweeper == SweeperTick /\ UNCHANGED <<mainVars, watchVars, Flags>>

\* Mutant of Clock: the wait is not bounded.
ClockRunsOn ==
  /\ ClockTick
  /\ waitLeft' = IF main \in {"waiting", "status", "polled"} THEN waitLeft - 1 ELSE 0
  /\ UNCHANGED <<main, sid, seen, shown, prompt, event, aborted, watchVars, Flags>>

\* One clock rate for both programs.
Clock ==
  /\ ClockTick
  /\ waitLeft' = IF main \in {"waiting", "status", "polled"} THEN Less(waitLeft) ELSE 0
  /\ UNCHANGED <<main, sid, seen, shown, prompt, event, aborted, watchVars, Flags>>

\* What main does whenever it can; the lines, /exit and the end of the input
\* are up to the user.
MainStep ==
  \/ CreateSession \/ CreateReply \/ PollState \/ PollSettings \/ Polled
  \/ Reset \/ Start \/ PostFails \/ ReadEvent \/ EndPrompt \/ Close
  \/ \E p \in Prompts, c \in Contents : Post(p, c)

UserStep == TakeLine \/ EndChat \/ InterruptedWaiting \/ Interrupt

WatcherStep == Wake \/ LoadStreaming \/ SwapCancelled \/ CancelReturns

TNext ==
  \/ MainStep \/ WatcherStep \/ UserStep
  \/ AbortPrompt \/ Break
  \/ \E p \in Prompts : HandlerStep(p) \/ Upstream(p)
  \/ Controller \/ Sweeper \/ Clock \/ GatewayDies

TSpec == TInit /\ [][TNext]_tvars

\* As in Gateway, and the terminal's goroutines run.  A select that is
\* offered quit over and over takes it: Go chooses among ready cases at random.
TFairness ==
  /\ \A p \in Prompts :
       /\ WF_tvars(HandlerStep(p))
       /\ WF_tvars(ctx[p] # "nil" /\ ConnectFails(p)
                   /\ UNCHANGED <<mainVars, watchVars, Flags>>)
  /\ WF_tvars(Sweeper) /\ WF_tvars(Clock)
  /\ WF_tvars(MainStep) /\ WF_tvars(WatcherStep)
  /\ SF_tvars(quit /\ EndChat)

TFairSpec == TSpec /\ TFairness

-----------------------------------------------------------------------------

\* Every variable of the terminal has its type.
TTypeOK ==
  /\ GTypeOK
  /\ main \in MainPoints /\ watcher \in WatcherPoints
  /\ sid \in Ids \cup {None} /\ prompt \in Prompts \cup {None}
  /\ seen \in LiveStates \cup {"error"}
  /\ shown \in {None} \cup {SettingsLine(s) : s \in GenerationSettingsType}
  /\ waitLeft \in -1..PairTimeout
  /\ event \in {None, "answer", "broken"}
  /\ {aborted, sig, streaming, cancelled, quit} \subseteq BOOLEAN

\* A terminal that gives up waiting cannot be approved any more, or could be for
\* less than another second: its deadline is the gateway's timeout with the
\* fraction of a second cut off (ExpiresIn), counted from a later moment.
PairingOverWhenGivenUp ==
  main = "expired" /\ sid \in live /\ sess[sid].state = "WAITING" =>
    sess[sid].pairLeft < Second - 1

\* What the terminal shows as the model and the thinking mode of its session is
\* what its prompts are sent to DeepSeek with, though state and settings of the
\* reply are read one after the other while a controller may approve.
ShowsWhatRuns ==
  main \in {"selecting", "resetting", "starting", "posting", "streaming"}
    /\ sid \in live
  => shown = SettingsLine(SentUpstream(ConfiguredModel, sess[sid].settings))

\* A prompt typed after an answer was read to its end is never refused because
\* the session is still busy with the previous one.
ReadyAfterAnswer ==
  main = "posting" /\ ~aborted /\ sid \in live => sess[sid].state = "APPROVED"

\* Ctrl+C at the prompt ends the terminal, whatever lines are waiting.
QuitReturns == quit ~> main = "done"

\* A terminal that ended leaves no session on the gateway, also when the
\* request to close it or the reply to its creation was lost.
NothingLeftBehind == main = "done" ~> live = {}

-----------------------------------------------------------------------------
(* What a comment says and the terminal does not keep *)

\* cli.go, Run: during streaming the first Ctrl+C cancels the generation.  A
\* cancel that reaches the gateway before the generation is registered finds
\* nothing, and cancelled makes the terminal swallow every later one.
FirstInterruptCancels ==
  [][watcher = "cancelling" /\ watcher' = "listening"
       /\ main = "streaming" /\ sid \in live
       /\ prompter[prompt].pc \in {"prepared"} \cup Running
     => ctx'[prompt] # "nil" \/ sess[sid].genCancel # None]_tvars

=============================================================================
