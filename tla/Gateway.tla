------------------------------ MODULE Gateway -------------------------------
(***************************************************************************)
(* The gateway's HTTP handlers (internal/gateway/handlers.go) on top of the  *)
(* session manager, with the DeepSeek stream they run                        *)
(* (internal/provider/deepseek/deepseek.go).                                *)
(*                                                                         *)
(* net/http runs every request in a goroutine of its own.  A handler is a    *)
(* sequence of calls of the manager, each atomic; between two of them every  *)
(* other handler, the sweeper and the clock may run.  Each handler is a       *)
(* record with a program counter and the local variables it still needs.     *)
(*                                                                         *)
(* The handlers that make one call (create, close, end, cancel) are that     *)
(* call.  handleClose's Get decides between two replies only: Destroy of a   *)
(* session that is gone does nothing.  The response writer of net/http is a  *)
(* Flusher, so the early FailPrompt of streamPrompt is not modelled.          *)
(***************************************************************************)
EXTENDS SessionManager

CONSTANTS
  Approvers,        \* handlers of POST /v1/pair that may run together
  ApproveRequests,  \* the parameters such a request may carry
  ConfiguredModel   \* DS_MODEL: the gateway's and the client's model

\* The settings a request is parsed to, when it is not refused.
Parsed(req) ==
  ParseSettings(ConfiguredModel, req.model, req.thinking, req.effort)

Refused(req) == ParseRejects(req.model, req.thinking, req.effort)

ASSUME RequestsGiveSettings ==
  \A req \in ApproveRequests : ~Refused(req) => Parsed(req) \in SettingsInputs

VARIABLES
  prompter,   \* prompter[p]: the handler of one POST .../prompt
  approver    \* approver[a]: the handler of one POST /v1/pair

gvars == <<mvars, prompter, approver>>

-----------------------------------------------------------------------------

Running   == {"registered", "connecting", "streaming"}
Generating == Running \cup {"returned"}

Verdicts == {"destroy", "upstream_error", "generation_timeout", "cancelled",
             "done"}

PrompterType ==
  [pc: Generating \cup {"idle", "prepared", "judged", "leaving", "replying"},
   id: Ids \cup {None},
   settings: GenerationSettingsType,  \* what the generation runs with
   text: Replies \cup {None},         \* CompletionResult.FullText
   err: BOOLEAN,                      \* StreamCompletion returned an error
   gone: BOOLEAN,                     \* r.Context() is done
   verdict: Verdicts \cup {None}]     \* the branch streamPrompt takes

IdlePrompter ==
  [pc |-> "idle", id |-> None, settings |-> NoSettings, text |-> None,
   err |-> FALSE, gone |-> FALSE, verdict |-> None]

\* s.State is a two-word Go string read without the session's mutex: the
\* words may come from two states, and then the value is none of them.
ReadStates == LiveStates \cup {"DESTROYED", "TORN"}

ApproverType ==
  [pc: {"idle", "approved", "encoding", "halfread", "replying"},
   id: Ids \cup {None}, token: Ids \cup {None},
   state: ReadStates \cup {None}]

IdleApprover ==
  [pc |-> "idle", id |-> None, token |-> None, state |-> None]

GInit ==
  /\ MInit
  /\ prompter = [p \in Prompts |-> IdlePrompter]
  /\ approver = [a \in Approvers |-> IdleApprover]

-----------------------------------------------------------------------------
(* POST /v1/pair *)

\* ParseSettings, then one of the manager's two approvals.
HandleApprove(a, req) ==
  /\ approver[a].pc = "idle"
  /\ ~Refused(req)
  /\ \E id \in Ids :
       /\ \/ ApproveByTokenWithSettings(id, Parsed(req))
          \/ \E code \in Codes :
               byPairCode[code] = id /\ ApproveByCodeWithSettings(code, Parsed(req))
       /\ approver' = [approver EXCEPT
            ![a] = [IdleApprover EXCEPT !.pc = "approved", !.id = id]]
  /\ UNCHANGED prompter

\* Mutant of FetchControlToken: the field is read without looking the session up.
FetchControlTokenUnchecked(a) ==
  LET id == approver[a].id
  IN  /\ approver[a].pc = "approved"
      /\ approver' = [approver EXCEPT
           ![a] = [@ EXCEPT !.pc = "encoding", !.token = sess[id].controlToken]]
      /\ UNCHANGED <<mvars, prompter>>

\* g.mgr.ControlToken: the session may be gone already (500).
FetchControlToken(a) ==
  LET id == approver[a].id
  IN  /\ approver[a].pc = "approved"
      /\ approver' = [approver EXCEPT ![a] =
           IF id \in live
           THEN [@ EXCEPT !.pc = "encoding", !.token = sess[id].controlToken]
           ELSE IdleApprover]
      /\ UNCHANGED <<mvars, prompter>>

\* The unlocked read of s.State, one word at a time.
ReadStateFirstWord(a) ==
  /\ approver[a].pc = "encoding"
  /\ approver' = [approver EXCEPT ![a].pc = "halfread",
                                  ![a].state = sess[approver[a].id].state]
  /\ UNCHANGED <<mvars, prompter>>

ReadStateSecondWord(a) ==
  /\ approver[a].pc = "halfread"
  /\ approver' = [approver EXCEPT ![a].pc = "replying",
       ![a].state = IF @ = sess[approver[a].id].state THEN @ ELSE "TORN"]
  /\ UNCHANGED <<mvars, prompter>>

ReplyApproved(a) ==
  /\ approver[a].pc = "replying"
  /\ approver' = [approver EXCEPT ![a] = IdleApprover]
  /\ UNCHANGED <<mvars, prompter>>

-----------------------------------------------------------------------------
(* POST /v1/sessions/{id}/prompt *)

HandlePrompt(p, id, content) ==
  /\ prompter[p].pc = "idle"
  /\ PreparePrompt(p, id, content)
  /\ prompter' = [prompter EXCEPT
       ![p] = [IdlePrompter EXCEPT !.pc = "prepared", !.id = id]]
  /\ UNCHANGED approver

\* The generation context is made and registered; the error SetGenCancel
\* returns for a session that is gone is dropped and the handler goes on.
RegisterCancel(p) ==
  /\ prompter[p].pc = "prepared"
  /\ prompter' = [prompter EXCEPT ![p].pc = "registered"]
  /\ IF prompter[p].id \in live THEN SetGenCancel(p) ELSE UNCHANGED mvars
  /\ UNCHANGED approver

\* Mutant of ReadSettings: the session's settings are not passed on.
ReadSettingsZero(p) ==
  /\ prompter[p].pc = "registered"
  /\ prompter' = [prompter EXCEPT ![p].pc = "connecting",
                                  ![p].settings = NoSettings]
  /\ UNCHANGED <<mvars, approver>>

\* Mutant of ReadSettings: a missing session gives no settings at all.
ReadSettingsNil(p) ==
  /\ prompter[p].pc = "registered"
  /\ prompter' = [prompter EXCEPT ![p].pc = "connecting",
       ![p].settings = IF prompter[p].id \in live
                       THEN sess[prompter[p].id].settings ELSE None]
  /\ UNCHANGED <<mvars, approver>>

\* The error of SessionSettings is dropped too and leaves the zero value.
ReadSettings(p) ==
  /\ prompter[p].pc = "registered"
  /\ prompter' = [prompter EXCEPT ![p].pc = "connecting",
       ![p].settings = IF prompter[p].id \in live
                       THEN sess[prompter[p].id].settings ELSE NoSettings]
  /\ UNCHANGED <<mvars, approver>>

\* StreamCompletion returns.
Return(p, text, err) ==
  /\ prompter' = [prompter EXCEPT ![p].pc = "returned", ![p].text = text,
                                  ![p].err = err]
  /\ UNCHANGED <<mvars, approver>>

\* HTTP.Do returns with status 200; it never does once the context is done.
Connect(p) ==
  /\ prompter[p].pc = "connecting"
  /\ ctx[p] = "nil"
  /\ prompter' = [prompter EXCEPT ![p].pc = "streaming"]
  /\ UNCHANGED <<mvars, approver>>

\* HTTP.Do fails, or DeepSeek answers with another status.
ConnectFails(p) == prompter[p].pc = "connecting" /\ Return(p, None, TRUE)

\* One delta is written to the terminal and added to the text.
Delta(p, text) ==
  /\ prompter[p].pc = "streaming"
  /\ ctx[p] = "nil"
  /\ prompter[p].text = None
  /\ prompter' = [prompter EXCEPT ![p].text = text]
  /\ UNCHANGED <<mvars, approver>>

\* [DONE] or the end of the body.
StreamEnds(p) ==
  prompter[p].pc = "streaming" /\ Return(p, prompter[p].text, FALSE)

\* A bad chunk, a broken connection, or a delta the terminal did not take.
StreamFails(p) ==
  /\ prompter[p].pc = "streaming"
  /\ ctx[p] = "nil"
  /\ Return(p, None, TRUE)

\* A stream whose context is done gives what it has, and no error.
StreamStops(p) ==
  /\ prompter[p].pc = "streaming"
  /\ ctx[p] # "nil"
  /\ Return(p, prompter[p].text, FALSE)

\* Mutant of Verdict: an error is looked at before the client.
VerdictErrorFirst(gone, err, reason) ==
  IF err THEN "upstream_error"
  ELSE IF gone THEN "destroy"
  ELSE IF reason = "DeadlineExceeded" THEN "generation_timeout"
  ELSE IF reason = "Canceled" THEN "cancelled"
  ELSE "done"

\* The order of the cases of streamPrompt's switch.
Verdict(gone, err, reason) ==
  IF gone THEN "destroy"
  ELSE IF err THEN "upstream_error"
  ELSE IF reason = "DeadlineExceeded" THEN "generation_timeout"
  ELSE IF reason = "Canceled" THEN "cancelled"
  ELSE "done"

\* The conditions are read before, and not under, the manager's lock.
Judge(p) ==
  /\ prompter[p].pc = "returned"
  /\ prompter' = [prompter EXCEPT ![p].pc = "judged",
       ![p].verdict = Verdict(prompter[p].gone, prompter[p].err, ctx[p])]
  /\ UNCHANGED <<mvars, approver>>

\* Mutant of Report: a timeout is answered but not reported to the manager.
ReportNoTimeout(p) ==
  CASE prompter[p].verdict \in {"cancelled", "done"} ->
         FinishPrompt(p, prompter[p].text)
    [] prompter[p].verdict = "upstream_error" -> FailPrompt(p)
    [] prompter[p].verdict = "generation_timeout" -> UNCHANGED mvars
    [] OTHER -> Destroy(prompter[p].id)

\* The call of the manager the verdict asks for.
Report(p) ==
  CASE prompter[p].verdict \in {"cancelled", "done"} ->
         FinishPrompt(p, prompter[p].text)
    [] prompter[p].verdict \in {"upstream_error", "generation_timeout"} ->
         FailPrompt(p)
    [] OTHER -> Destroy(prompter[p].id)

Settle(p) ==
  /\ prompter[p].pc = "judged"
  /\ IF prompter[p].id \in live THEN Report(p)
     ELSE IF prompter[p].verdict = "destroy" THEN UNCHANGED mvars
     ELSE ReturnToDestroyed(p)
  /\ prompter' = [prompter EXCEPT ![p].text = None, ![p].err = FALSE,
       ![p].pc = IF prompter[p].verdict = "destroy" THEN "leaving"
                 ELSE "replying"]
  /\ UNCHANGED approver

\* The handler whose client is gone returns without a word.
Leave(p) ==
  /\ prompter[p].pc = "leaving"
  /\ ReturnToDestroyed(p)
  /\ prompter' = [prompter EXCEPT ![p] = IdlePrompter]
  /\ UNCHANGED approver

\* The done or error event is written, after the manager was told.
Reply(p) ==
  /\ prompter[p].pc = "replying"
  /\ prompter' = [prompter EXCEPT ![p] = IdlePrompter]
  /\ UNCHANGED <<mvars, approver>>

\* The terminal goes away while its prompt runs.
Disconnect(p) ==
  /\ prompter[p].pc # "idle" /\ ~prompter[p].gone
  /\ prompter' = [prompter EXCEPT ![p].gone = TRUE]
  /\ UNCHANGED <<mvars, approver>>

\* The watcher goroutine passes that on to the generation.
Watch(p) ==
  /\ prompter[p].pc \in Running /\ prompter[p].gone
  /\ ctx[p] = "nil"
  /\ EndContext(p, "Canceled")
  /\ UNCHANGED <<prompter, approver>>

\* Mutant of GenTimeout: the timeout covers the connection only.
GenTimeoutConnecting(p) ==
  /\ prompter[p].pc \in Generating \ {"streaming"}
  /\ ctx[p] = "nil"
  /\ EndContext(p, "DeadlineExceeded")
  /\ UNCHANGED <<prompter, approver>>

\* Mutant of GenTimeout: the timer makes the session available again itself.
GenTimeoutReopens(p) ==
  /\ prompter[p].pc \in Generating
  /\ ctx[p] = "nil" /\ prompter[p].id \in live
  /\ ctx' = [ctx EXCEPT ![p] = "DeadlineExceeded"]
  /\ sess' = [sess EXCEPT ![prompter[p].id].state = "APPROVED"]
  /\ UNCHANGED <<live, byPairCode, promptOf, asked, prompter, approver>>

\* The timer of context.WithTimeout fires.
GenTimeout(p) ==
  /\ prompter[p].pc \in Generating
  /\ ctx[p] = "nil"
  /\ EndContext(p, "DeadlineExceeded")
  /\ UNCHANGED <<prompter, approver>>

-----------------------------------------------------------------------------
(* The handlers of one call, the sweeper and the clock *)

HandleCreate(id, code) == Create(id, code) /\ UNCHANGED <<prompter, approver>>
HandleCancel(id) == CancelGeneration(id) /\ UNCHANGED <<prompter, approver>>
HandleClose(id) == Destroy(id) /\ UNCHANGED <<prompter, approver>>
HandleEnd(id, token) ==
  EndByControlToken(id, token) /\ UNCHANGED <<prompter, approver>>

SweeperTick == Sweep /\ UNCHANGED <<prompter, approver>>
ClockTick   == Tick /\ UNCHANGED <<prompter, approver>>

\* The steps a prompt handler takes by itself.
PrompterStep(p) ==
  \/ RegisterCancel(p) \/ ReadSettings(p) \/ StreamStops(p)
  \/ Judge(p) \/ Settle(p) \/ Leave(p) \/ Reply(p) \/ Watch(p)
  \/ GenTimeout(p)

\* What DeepSeek and the network do to it.
UpstreamStep(p) ==
  \/ Connect(p) \/ ConnectFails(p) \/ StreamEnds(p) \/ StreamFails(p)
  \/ \E text \in Replies : Delta(p, text)

ApproverStep(a) ==
  \/ FetchControlToken(a) \/ ReadStateFirstWord(a) \/ ReadStateSecondWord(a)
  \/ ReplyApproved(a)

GNext ==
  \/ \E id \in Ids, code \in Codes : HandleCreate(id, code)
  \/ \E a \in Approvers, req \in ApproveRequests : HandleApprove(a, req)
  \/ \E a \in Approvers : ApproverStep(a)
  \/ \E p \in Prompts, id \in Ids, c \in Contents : HandlePrompt(p, id, c)
  \/ \E p \in Prompts : PrompterStep(p) \/ UpstreamStep(p) \/ Disconnect(p)
  \/ \E id \in Ids : HandleCancel(id) \/ HandleClose(id)
  \/ \E id, token \in Ids : HandleEnd(id, token)
  \/ SweeperTick
  \/ ClockTick

GSpec == GInit /\ [][GNext]_gvars

\* Every goroutine that can run does, the timer of a generation fires, and an
\* HTTP request whose context is done returns.  Nothing is assumed of
\* DeepSeek, which may never answer, or of the clients.
GFairness ==
  /\ \A p \in Prompts :
       /\ WF_gvars(PrompterStep(p))
       /\ WF_gvars(ctx[p] # "nil" /\ ConnectFails(p))
  /\ WF_gvars(SweeperTick) /\ WF_gvars(ClockTick)

GFairSpec == GSpec /\ GFairness

-----------------------------------------------------------------------------

\* Every variable has its type.
GTypeOK ==
  /\ TypeOK
  /\ prompter \in [Prompts -> PrompterType]
  /\ approver \in [Approvers -> ApproverType]

\* The handlers drive the manager as it expects to be driven: whatever they do
\* to the sessions is one of the manager's operations or nothing, so all that
\* is shown of SessionManager holds behind the handlers.
ImplementsManager == MSpec

\* As long as its session exists, a generation runs with exactly the settings
\* the session was approved with, after the client's own fallbacks.
RunsWithApprovedSettings ==
  \A p \in Prompts :
    LET id == prompter[p].id
    IN  prompter[p].pc \in {"connecting", "streaming", "returned"} /\ id \in live
          => SentUpstream(ConfiguredModel, prompter[p].settings)
               = sess[id].settings

\* The event that ends an answer is sent when the session is ready for the next
\* prompt: a terminal that reads done or error is not told "not approved"
\* because of the prompt that has just ended.
DoneMeansReady ==
  \A p \in Prompts :
    LET id == prompter[p].id
    IN  prompter[p].pc = "replying" /\ id \in live /\ sess[id].state = "ACTIVE"
          => \E q \in Prompts \ {p} : promptOf[q] = id

\* A reply to an approval carries the control token of the session it approved,
\* also when the session is destroyed while the reply is put together.
ApproveReplyHasToken ==
  \A a \in Approvers :
    approver[a].pc \in {"encoding", "halfread", "replying"} =>
      approver[a].token = approver[a].id

\* Every prompt is answered or given up, even when DeepSeek never answers, the
\* terminal leaves or the session is destroyed under it.
PromptsEnd ==
  \A p \in Prompts : prompter[p].pc # "idle" ~> prompter[p].pc = "idle"

\* A terminal that leaves while its answer is generated takes its session with
\* it.
DisconnectEndsSession ==
  \A p \in Prompts, id \in Ids :
    prompter[p].pc \in Running /\ prompter[p].gone /\ prompter[p].id = id
      ~> id \notin live

-----------------------------------------------------------------------------
(* What comments and tests say and the handlers do not keep *)

\* server_test.go: the state in the reply to an approval is APPROVED.
ApproveReplySaysApproved ==
  \A a \in Approvers :
    approver[a].pc = "replying" => approver[a].state = "APPROVED"

\* manager_test.go: destroying a session cancels its in-flight generation.
GenerationEndsWithSession ==
  \A p \in Prompts :
    prompter[p].pc \in Running /\ prompter[p].id \notin live => ctx[p] # "nil"

=============================================================================
