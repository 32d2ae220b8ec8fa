---------------------------- MODULE GatewayProofs ----------------------------
(***************************************************************************)
(* The handlers of Gateway, for every number of them and every value of the  *)
(* constants: they drive the session manager only through its operations,    *)
(* so its theorems hold behind them, and what they answer is true.  And the   *)
(* settings they read and hand on, for every string they may be given.       *)
(***************************************************************************)
EXTENDS Gateway, LifecycleProofs

-----------------------------------------------------------------------------
(* Settings, from a request to DeepSeek *)

\* ParseSettings gives valid settings from whatever it does not refuse and
\* whatever model the gateway is configured with: approve never meets
\* ErrInvalidSettings in a request the handler let through (handlers.go:49).
THEOREM ParsedSettingsAreValid ==
  ASSUME NEW configured \in ModelStrings, NEW modelRaw \in ModelStrings,
         NEW thinking \in ThinkingInputs, NEW effortRaw \in EffortStrings,
         ~ParseRejects(modelRaw, thinking, effortRaw)
  PROVE  /\ ParseSettings(configured, modelRaw, thinking, effortRaw)
              \in GenerationSettingsType
         /\ Valid(ParseSettings(configured, modelRaw, thinking, effortRaw))
<1> DEFINE s == ParseSettings(configured, modelRaw, thinking, effortRaw)
<1>1. DefaultModel(configured) \in ProductModels
  BY DEF DefaultModel, ProductModels
<1>2. s.model \in ProductModels
  <2>1. CASE modelRaw = ""
    BY <1>1, <2>1 DEF ParseSettings
  <2>2. CASE modelRaw # ""
    BY <2>2 DEF ParseSettings, ParseRejects
  <2> QED BY <2>1, <2>2
<1>3. s.thinking \in BOOLEAN
  BY DEF ParseSettings, ThinkingOn
<1>4. IF s.thinking THEN s.effort \in ReasoningEfforts ELSE s.effort = ""
  BY DEF ParseSettings, ParseRejects, ThinkingOn, ReasoningEfforts
<1>5. s \in GenerationSettingsType
  <2>1. s = [model |-> s.model, thinking |-> s.thinking, effort |-> s.effort]
    BY DEF ParseSettings
  <2> HIDE DEF s
  <2> QED BY <1>2, <1>3, <1>4, <2>1
          DEF GenerationSettingsType, ModelStrings, EffortStrings
<1> QED BY <1>2, <1>4, <1>5 DEF Valid

\* Only a valid combination ever leaves the client, whatever it is handed and
\* whatever its own model is ("Never send an unvalidated model/effort
\* combination upstream", deepseek.go:75).
THEOREM SentSettingsAreValid ==
  ASSUME NEW clientModel \in ModelStrings, NEW s \in GenerationSettingsType
  PROVE  Valid(SentUpstream(clientModel, s))
<1>1. Valid(DefaultGenerationSettings)
  BY DEF Valid, DefaultGenerationSettings, ProductModels, ReasoningEfforts
<1> QED BY <1>1 DEF SentUpstream

\* Approved settings reach DeepSeek unchanged.
THEOREM ValidSettingsAreSent ==
  ASSUME NEW clientModel \in ModelStrings, NEW s \in GenerationSettingsType, Valid(s)
  PROVE  SentUpstream(clientModel, s) = s
BY DEF SentUpstream, Valid, ProductModels, ModelV4Flash, ModelV4Pro

USE NoneIsNoValue

-----------------------------------------------------------------------------
(* The inductive invariant *)

\* The variables of the handlers have their types.
HandlersTyped ==
  /\ prompter \in [Prompts -> PrompterType]
  /\ approver \in [Approvers -> ApproverType]

\* What a prompt handler believes and what the manager was told agree: from
\* PreparePrompt to the call that reports back, and to no other session, the
\* handler runs the prompt the manager lends it.
HandlerRunsItsPrompt ==
  \A p \in Prompts :
    /\ promptOf[p] = IF prompter[p].pc \in {"idle", "replying"} THEN None
                     ELSE prompter[p].id
    /\ prompter[p].pc # "idle" => prompter[p].id \in Ids
    /\ prompter[p].pc = "judged" => prompter[p].verdict \in Verdicts

\* The settings a generation was started with are still the session's.
SettingsAreHandedOver ==
  \A p \in Prompts :
    LET id == prompter[p].id
    IN  prompter[p].pc \in {"connecting", "streaming", "returned"} /\ id \in live
          => prompter[p].settings = sess[id].settings

\* The session a handler approved stays approved or is destroyed.
ApprovalWasGiven ==
  \A a \in Approvers :
    approver[a].pc # "idle" =>
      /\ approver[a].id \in Ids
      /\ sess[approver[a].id].state \notin {"UNBORN", "WAITING"}

HandlersInv ==
  /\ HandlersTyped
  /\ HandlerRunsItsPrompt
  /\ SettingsAreHandedOver
  /\ ApprovalWasGiven
  /\ ApproveReplyHasToken

GInv == Inv /\ HandlersInv

LEMMA GInitInv == GInit => GInv
<1> SUFFICES ASSUME GInit PROVE GInv
  OBVIOUS
<1>1. Inv
  BY InitInv DEF GInit
<1>2. HandlersTyped
  BY NoSettingsType
     DEF GInit, HandlersTyped, IdlePrompter, IdleApprover, PrompterType,
         ApproverType, Generating, Running
<1>3. HandlerRunsItsPrompt /\ SettingsAreHandedOver
  BY DEF GInit, MInit, HandlerRunsItsPrompt, SettingsAreHandedOver, IdlePrompter
<1>4. ApprovalWasGiven /\ ApproveReplyHasToken
  BY DEF GInit, ApprovalWasGiven, ApproveReplyHasToken, IdleApprover
<1> QED BY <1>1, <1>2, <1>3, <1>4 DEF GInv, HandlersInv

-----------------------------------------------------------------------------
(* What the handlers do to the manager *)

\* A session with a running prompt has been approved.
LEMMA PromptedWasApproved ==
  ASSUME Inv, NEW p \in Prompts, promptOf[p] # None
  PROVE  /\ promptOf[p] \in Ids
         /\ sess[promptOf[p]].state \notin {"UNBORN", "WAITING"}
<1>1. promptOf[p] \in Ids /\ sess[promptOf[p]].state # "UNBORN"
  BY DEF Inv, TypeOK, OnePromptPerSession
<1>2. CASE promptOf[p] \in live
  BY <1>1, <1>2 DEF Inv, OnePromptPerSession
<1>3. CASE promptOf[p] \notin live
  BY <1>1, <1>3 DEF Inv, MapsAgree, LiveStates
<1> QED BY <1>1, <1>2, <1>3

\* The cases of streamPrompt's switch: what the handler settles is one call of
\* the manager, and afterwards it runs no prompt unless it has to leave.
LEMMA SettleCases ==
  ASSUME GInv, NEW p \in Prompts, Settle(p)
  PROVE  /\ promptOf[p] = prompter[p].id /\ promptOf[p] \in Ids
         /\ \/ /\ prompter[p].verdict # "destroy"
               /\ \/ FinishPrompt(p, prompter[p].text)
                  \/ FailPrompt(p)
                  \/ ReturnToDestroyed(p)
            \/ /\ prompter[p].verdict = "destroy"
               /\ Destroy(prompter[p].id) \/ UNCHANGED mvars
<1>1. promptOf[p] = prompter[p].id /\ promptOf[p] \in Ids
      /\ prompter[p].verdict \in Verdicts
  BY DEF GInv, HandlersInv, HandlerRunsItsPrompt, Settle
<1>2. CASE prompter[p].id \in live
  <2>1. Report(p)
    BY <1>2 DEF Settle
  <2>2. CASE prompter[p].verdict \in {"cancelled", "done"}
    BY <1>1, <2>1, <2>2 DEF Report
  <2>3. CASE prompter[p].verdict \in {"upstream_error", "generation_timeout"}
    BY <1>1, <2>1, <2>3 DEF Report
  <2>4. CASE prompter[p].verdict = "destroy"
    BY <1>1, <2>1, <2>4 DEF Report
  <2> QED BY <1>1, <2>2, <2>3, <2>4 DEF Verdicts
<1>3. CASE prompter[p].id \notin live
  BY <1>1, <1>3 DEF Settle
<1> QED BY <1>1, <1>2, <1>3

\* Every step of a handler is one operation of the manager or none.
LEMMA HandlersDriveManager == GInv /\ [GNext]_gvars => [MNext]_mvars
<1> SUFFICES ASSUME GInv, [GNext]_gvars PROVE [MNext]_mvars
  OBVIOUS
<1>1. ASSUME NEW id \in Ids, NEW code \in Codes, HandleCreate(id, code)
      PROVE  MNext
  BY <1>1 DEF HandleCreate, MNext
<1>2. ASSUME NEW a \in Approvers, NEW req \in ApproveRequests,
             HandleApprove(a, req)
      PROVE  MNext
  BY <1>2, RequestsGiveSettings DEF HandleApprove, MNext
<1>3. ASSUME NEW a \in Approvers, ApproverStep(a)
      PROVE  UNCHANGED mvars
  BY <1>3 DEF ApproverStep, FetchControlToken, ReadStateFirstWord,
              ReadStateSecondWord, ReplyApproved
<1>4. ASSUME NEW p \in Prompts, NEW id \in Ids, NEW c \in Contents,
             HandlePrompt(p, id, c)
      PROVE  MNext
  BY <1>4 DEF HandlePrompt, MNext
<1>5. ASSUME NEW p \in Prompts, RegisterCancel(p)
      PROVE  MNext \/ UNCHANGED mvars
  BY <1>5 DEF RegisterCancel, MNext
<1>6. ASSUME NEW p \in Prompts, Settle(p)
      PROVE  MNext \/ UNCHANGED mvars
  <2>1. prompter[p].text \in Replies \cup {None}
    BY DEF GInv, HandlersInv, HandlersTyped, PrompterType
  <2>2. CASE FinishPrompt(p, prompter[p].text)
    BY <2>1, <2>2 DEF MNext
  <2>3. CASE FailPrompt(p) \/ ReturnToDestroyed(p)
    BY <2>3 DEF MNext
  <2>4. CASE Destroy(prompter[p].id)
    BY <1>6, <2>4, SettleCases DEF MNext
  <2> QED BY <1>6, <2>2, <2>3, <2>4, SettleCases
<1>7. ASSUME NEW p \in Prompts, Leave(p)
      PROVE  MNext
  BY <1>7 DEF Leave, MNext
<1>8. ASSUME NEW p \in Prompts, Watch(p) \/ GenTimeout(p)
      PROVE  MNext
  BY <1>8 DEF Watch, GenTimeout, MNext, ContextErrors
<1>9. ASSUME NEW p \in Prompts,
             \/ ReadSettings(p) \/ StreamStops(p) \/ Judge(p) \/ Reply(p)
             \/ UpstreamStep(p) \/ Disconnect(p)
      PROVE  UNCHANGED mvars
  BY <1>9 DEF ReadSettings, StreamStops, Judge, Reply, UpstreamStep, Connect,
              ConnectFails, Delta, StreamEnds, StreamFails, Return, Disconnect
<1>10. ASSUME NEW id \in Ids, HandleCancel(id) \/ HandleClose(id)
       PROVE  MNext
  BY <1>10 DEF HandleCancel, HandleClose, MNext
<1>11. ASSUME NEW id \in Ids, NEW token \in Ids, HandleEnd(id, token)
       PROVE  MNext
  BY <1>11 DEF HandleEnd, MNext
<1>12. CASE SweeperTick \/ ClockTick
  BY <1>12 DEF SweeperTick, ClockTick, MNext
<1>13. CASE UNCHANGED gvars
  BY <1>13 DEF gvars
<1> QED BY <1>1, <1>2, <1>3, <1>4, <1>5, <1>6, <1>7, <1>8, <1>9, <1>10, <1>11,
           <1>12, <1>13
        DEF GNext, PrompterStep

-----------------------------------------------------------------------------
(* What a step leaves of the other handlers *)

\* The settings of a generation whose handler does not move stay the session's.
LEMMA SettingsStay ==
  ASSUME GInv, [MNext]_mvars, NEW p \in Prompts,
         prompter[p].pc \in {"connecting", "streaming", "returned"},
         prompter[p].id \in live'
  PROVE  prompter[p].settings = sess'[prompter[p].id].settings
<1>1. promptOf[p] = prompter[p].id /\ prompter[p].id \in Ids
  BY DEF GInv, HandlersInv, HandlerRunsItsPrompt
<1>2. sess[prompter[p].id].state \notin {"UNBORN", "WAITING"}
  BY <1>1, PromptedWasApproved DEF GInv
<1>3. prompter[p].id \in live
      /\ sess'[prompter[p].id].settings = sess[prompter[p].id].settings
  BY <1>1, <1>2, StepKeepsApproval DEF GInv, KeepsApproval
<1> QED BY <1>3 DEF GInv, HandlersInv, SettingsAreHandedOver

\* The approval of a handler that does not move stays given.
LEMMA ApprovalStays ==
  ASSUME GInv, [MNext]_mvars, NEW a \in Approvers, approver[a].pc # "idle"
  PROVE  /\ approver[a].id \in Ids
         /\ sess'[approver[a].id].state \notin {"UNBORN", "WAITING"}
<1>1. /\ approver[a].id \in Ids
      /\ sess[approver[a].id].state \notin {"UNBORN", "WAITING"}
  BY DEF GInv, HandlersInv, ApprovalWasGiven
<1> QED BY <1>1, StepKeepsApproval DEF GInv, KeepsApproval

LEMMA PrompterMoves ==
  ASSUME GInv, [MNext]_mvars, NEW p \in Prompts, NEW h \in PrompterType,
         prompter' = [prompter EXCEPT ![p] = h], approver' = approver,
         \A q \in Prompts \ {p} : promptOf'[q] = promptOf[q],
         promptOf'[p] = IF h.pc \in {"idle", "replying"} THEN None ELSE h.id,
         h.pc # "idle" => h.id \in Ids,
         h.pc = "judged" => h.verdict \in Verdicts,
         h.pc \in {"connecting", "streaming", "returned"} /\ h.id \in live'
           => h.settings = sess'[h.id].settings
  PROVE  GInv'
<1> USE DEF GInv, HandlersInv
<1>1. prompter'[p] = h /\ \A q \in Prompts \ {p} : prompter'[q] = prompter[q]
  BY DEF HandlersTyped
<1>2. Inv'
  BY NextInv
<1>3. HandlersTyped'
  BY DEF HandlersTyped
<1>4. HandlerRunsItsPrompt'
  BY <1>1 DEF HandlerRunsItsPrompt
<1>5. SettingsAreHandedOver'
  BY <1>1, SettingsStay DEF SettingsAreHandedOver
<1>6. ApprovalWasGiven'
  BY ApprovalStays DEF ApprovalWasGiven
<1>7. ApproveReplyHasToken'
  BY DEF ApproveReplyHasToken
<1> QED BY <1>2, <1>3, <1>4, <1>5, <1>6, <1>7

LEMMA ApproverMoves ==
  ASSUME GInv, [MNext]_mvars, UNCHANGED <<prompter, promptOf>>,
         NEW a \in Approvers, NEW h \in ApproverType,
         approver' = [approver EXCEPT ![a] = h],
         h.pc # "idle" => /\ h.id \in Ids
                          /\ sess'[h.id].state \notin {"UNBORN", "WAITING"},
         h.pc \in {"encoding", "halfread", "replying"} => h.token = h.id
  PROVE  GInv'
<1> USE DEF GInv, HandlersInv
<1>1. approver'[a] = h /\ \A b \in Approvers \ {a} : approver'[b] = approver[b]
  BY DEF HandlersTyped
<1>2. Inv'
  BY NextInv
<1>3. HandlersTyped'
  BY DEF HandlersTyped
<1>4. HandlerRunsItsPrompt'
  BY DEF HandlerRunsItsPrompt
<1>5. SettingsAreHandedOver'
  BY SettingsStay DEF SettingsAreHandedOver
<1>6. ApprovalWasGiven'
  BY <1>1, ApprovalStays DEF ApprovalWasGiven
<1>7. ApproveReplyHasToken'
  BY <1>1 DEF ApproveReplyHasToken
<1> QED BY <1>2, <1>3, <1>4, <1>5, <1>6, <1>7

LEMMA NoHandlerMoves ==
  ASSUME GInv, [MNext]_mvars, UNCHANGED <<prompter, approver, promptOf>>
  PROVE  GInv'
<1> USE DEF GInv, HandlersInv
<1>1. Inv'
  BY NextInv
<1>2. HandlersTyped' /\ ApproveReplyHasToken' /\ HandlerRunsItsPrompt'
  BY DEF HandlersTyped, ApproveReplyHasToken, HandlerRunsItsPrompt
<1>3. SettingsAreHandedOver'
  BY SettingsStay DEF SettingsAreHandedOver
<1>4. ApprovalWasGiven'
  BY ApprovalStays DEF ApprovalWasGiven
<1> QED BY <1>1, <1>2, <1>3, <1>4

-----------------------------------------------------------------------------
(* The steps of a prompt handler *)

\* What the fields of a handler may be.
LEMMA PrompterFields ==
  ASSUME NEW h \in PrompterType
  PROVE  /\ h.pc \in Generating \cup {"idle", "prepared", "judged", "leaving",
                                     "replying"}
         /\ h.id \in Ids \cup {None} /\ h.settings \in GenerationSettingsType
         /\ h.text \in Replies \cup {None} /\ h.err \in BOOLEAN
         /\ h.gone \in BOOLEAN /\ h.verdict \in Verdicts \cup {None}
BY DEF PrompterType

\* What is known of a handler that moves.
LEMMA PrompterFacts ==
  ASSUME GInv, NEW p \in Prompts
  PROVE  /\ prompter[p] \in PrompterType
         /\ prompter[p].pc # "idle" => prompter[p].id \in Ids
         /\ promptOf[p] = IF prompter[p].pc \in {"idle", "replying"} THEN None
                          ELSE prompter[p].id
BY DEF GInv, HandlersInv, HandlersTyped, HandlerRunsItsPrompt

LEMMA HandlePromptInv ==
  ASSUME GInv, [MNext]_mvars, NEW p \in Prompts, NEW id \in Ids,
         NEW c \in Contents, HandlePrompt(p, id, c)
  PROVE  GInv'
<1> DEFINE h == [IdlePrompter EXCEPT !.pc = "prepared", !.id = id]
<1>1. prompter' = [prompter EXCEPT ![p] = h] /\ approver' = approver
  BY DEF HandlePrompt
<1>2. /\ h \in PrompterType
      /\ h.pc = "prepared" /\ h.id = id
  BY NoSettingsType DEF IdlePrompter, PrompterType, Generating, Running
<1>3. promptOf'[p] = id /\ \A q \in Prompts \ {p} : promptOf'[q] = promptOf[q]
  BY DEF HandlePrompt, PreparePrompt, GInv, Inv, TypeOK
<1> HIDE DEF h
<1> QED BY <1>1, <1>2, <1>3, PrompterMoves

LEMMA RegisterCancelInv ==
  ASSUME GInv, [MNext]_mvars, NEW p \in Prompts, RegisterCancel(p)
  PROVE  GInv'
<1> DEFINE h == [prompter[p] EXCEPT !.pc = "registered"]
<1>1. prompter' = [prompter EXCEPT ![p] = h] /\ approver' = approver
  BY DEF RegisterCancel
<1>2. h \in PrompterType /\ h.pc = "registered" /\ h.id = prompter[p].id
  BY PrompterFacts DEF PrompterType, Generating, Running
<1>3. promptOf' = promptOf /\ prompter[p].pc = "prepared"
  BY DEF RegisterCancel, SetGenCancel, mvars
<1> HIDE DEF h
<1>4. promptOf'[p] = h.id /\ h.id \in Ids
  BY <1>2, <1>3, PrompterFacts
<1> QED BY <1>1, <1>2, <1>3, <1>4, PrompterMoves

LEMMA ReadSettingsInv ==
  ASSUME GInv, [MNext]_mvars, NEW p \in Prompts, ReadSettings(p)
  PROVE  GInv'
<1> DEFINE read == IF prompter[p].id \in live THEN sess[prompter[p].id].settings
                   ELSE NoSettings
           h == [prompter[p] EXCEPT !.pc = "connecting", !.settings = read]
<1>1. prompter' = [prompter EXCEPT ![p] = h] /\ approver' = approver
  BY PrompterFacts DEF ReadSettings, GInv, HandlersInv, HandlersTyped
<1>2. read \in GenerationSettingsType
  BY NoSettingsType, SessionFields DEF GInv, Inv, TypeOK
<1> HIDE DEF read
<1>3. /\ h \in PrompterType
      /\ h.pc = "connecting" /\ h.id = prompter[p].id /\ h.settings = read
  BY <1>2, PrompterFacts, ZenonT(30) DEF PrompterType, Generating, Running
<1> HIDE DEF h
<1>4. UNCHANGED <<sess, live, promptOf>> /\ prompter[p].pc = "registered"
  BY DEF ReadSettings, mvars
<1>5. promptOf'[p] = h.id /\ h.id \in Ids
  BY <1>3, <1>4, PrompterFacts
<1>6. h.id \in live' => h.settings = sess'[h.id].settings
  BY <1>3, <1>4 DEF read
<1> QED BY <1>1, <1>3, <1>4, <1>5, <1>6, PrompterMoves

LEMMA ReturnInv ==
  ASSUME GInv, [MNext]_mvars, NEW p \in Prompts,
         NEW text \in Replies \cup {None}, NEW err \in BOOLEAN,
         prompter[p].pc \in {"connecting", "streaming"}, Return(p, text, err)
  PROVE  GInv'
<1> DEFINE h == [prompter[p] EXCEPT !.pc = "returned", !.text = text, !.err = err]
<1>1. prompter' = [prompter EXCEPT ![p] = h] /\ approver' = approver
  BY PrompterFacts DEF Return, GInv, HandlersInv, HandlersTyped
<1>2. /\ h \in PrompterType /\ h.pc = "returned" /\ h.id = prompter[p].id
      /\ h.settings = prompter[p].settings
  BY PrompterFacts, ZenonT(40) DEF PrompterType, Generating, Running
<1> HIDE DEF h
<1>3. promptOf' = promptOf
  BY DEF Return, mvars
<1> QED BY <1>1, <1>2, <1>3, PrompterFacts, PrompterMoves, SettingsStay

LEMMA ConnectInv ==
  ASSUME GInv, [MNext]_mvars, NEW p \in Prompts, Connect(p)
  PROVE  GInv'
<1> DEFINE h == [prompter[p] EXCEPT !.pc = "streaming"]
<1>1. prompter' = [prompter EXCEPT ![p] = h] /\ approver' = approver
  BY DEF Connect
<1>2. /\ h \in PrompterType /\ h.pc = "streaming" /\ h.id = prompter[p].id
      /\ h.settings = prompter[p].settings
  BY PrompterFacts DEF PrompterType, Generating, Running
<1> HIDE DEF h
<1>3. promptOf' = promptOf /\ prompter[p].pc = "connecting"
  BY DEF Connect, mvars
<1>4. promptOf'[p] = h.id /\ h.id \in Ids
  BY <1>2, <1>3, PrompterFacts
<1> QED BY <1>1, <1>2, <1>3, <1>4, PrompterMoves, SettingsStay

LEMMA DeltaInv ==
  ASSUME GInv, [MNext]_mvars, NEW p \in Prompts, NEW text \in Replies,
         Delta(p, text)
  PROVE  GInv'
<1> DEFINE h == [prompter[p] EXCEPT !.text = text]
<1>1. prompter' = [prompter EXCEPT ![p] = h] /\ approver' = approver
  BY DEF Delta
<1>2. /\ h \in PrompterType /\ h.pc = prompter[p].pc /\ h.id = prompter[p].id
      /\ h.settings = prompter[p].settings
  BY PrompterFacts DEF PrompterType, Generating, Running
<1> HIDE DEF h
<1>3. promptOf' = promptOf /\ prompter[p].pc = "streaming"
  BY DEF Delta, mvars
<1>4. promptOf'[p] = h.id /\ h.id \in Ids
  BY <1>2, <1>3, PrompterFacts
<1> QED BY <1>1, <1>2, <1>3, <1>4, PrompterMoves, SettingsStay

LEMMA JudgeInv ==
  ASSUME GInv, [MNext]_mvars, NEW p \in Prompts, Judge(p)
  PROVE  GInv'
<1> DEFINE verdict == Verdict(prompter[p].gone, prompter[p].err, ctx[p])
           h == [prompter[p] EXCEPT !.pc = "judged", !.verdict = verdict]
<1>1. prompter' = [prompter EXCEPT ![p] = h] /\ approver' = approver
  BY PrompterFacts DEF Judge, GInv, HandlersInv, HandlersTyped
<1>2. verdict \in Verdicts
  BY DEF Verdict, Verdicts
<1> HIDE DEF verdict
<1>3. /\ h \in PrompterType /\ h.pc = "judged" /\ h.id = prompter[p].id
      /\ h.verdict = verdict
  BY <1>2, PrompterFacts, ZenonT(30) DEF PrompterType, Generating, Running
<1> HIDE DEF h
<1>4. promptOf' = promptOf /\ prompter[p].pc = "returned"
  BY DEF Judge, mvars
<1>5. promptOf'[p] = h.id /\ h.id \in Ids
  BY <1>3, <1>4, PrompterFacts
<1> QED BY <1>1, <1>2, <1>3, <1>4, <1>5, PrompterMoves

\* The manager is told before the handler goes on: when it does, either it runs
\* no prompt any more or it is about to leave.
LEMMA SettleInv ==
  ASSUME GInv, [MNext]_mvars, NEW p \in Prompts, Settle(p)
  PROVE  GInv'
<1> DEFINE next == IF prompter[p].verdict = "destroy" THEN "leaving" ELSE "replying"
           h == [prompter[p] EXCEPT !.text = None, !.err = FALSE, !.pc = next]
<1>1. prompter' = [prompter EXCEPT ![p] = h] /\ approver' = approver
  BY PrompterFacts DEF Settle, GInv, HandlersInv, HandlersTyped
<1>2. h \in PrompterType /\ h.pc = next /\ h.id = prompter[p].id
  BY PrompterFacts, ZenonT(40) DEF PrompterType, Generating, Running
<1> HIDE DEF h
<1>3. h.id \in Ids /\ promptOf[p] = h.id
  BY <1>2, SettleCases
<1>4. promptOf \in [Prompts -> Ids \cup {None}]
  BY DEF GInv, Inv, TypeOK
<1>5. CASE prompter[p].verdict = "destroy"
  <2>1. promptOf' = promptOf
    BY <1>5, SettleCases DEF Destroy, DestroyAll, mvars
  <2> QED BY <1>1, <1>2, <1>3, <1>5, <2>1, PrompterMoves
<1>6. CASE prompter[p].verdict # "destroy"
  <2>1. promptOf' = [promptOf EXCEPT ![p] = None]
    BY <1>6, SettleCases DEF FinishPrompt, FailPrompt, ReturnToDestroyed, Release
  <2>2. promptOf'[p] = None /\ \A q \in Prompts \ {p} : promptOf'[q] = promptOf[q]
    BY <1>4, <2>1
  <2> QED BY <1>1, <1>2, <1>3, <1>6, <2>2, PrompterMoves
<1> QED BY <1>5, <1>6

\* A handler that has nothing more to do.
LEMMA HandlerEndsInv ==
  ASSUME GInv, [MNext]_mvars, NEW p \in Prompts, Leave(p) \/ Reply(p)
  PROVE  GInv'
<1>1. prompter' = [prompter EXCEPT ![p] = IdlePrompter] /\ approver' = approver
  BY DEF Leave, Reply
<1>2. IdlePrompter \in PrompterType /\ IdlePrompter.pc = "idle"
  BY NoSettingsType DEF IdlePrompter, PrompterType
<1>3. promptOf \in [Prompts -> Ids \cup {None}]
  BY DEF GInv, Inv, TypeOK
<1>4. promptOf'[p] = None /\ \A q \in Prompts \ {p} : promptOf'[q] = promptOf[q]
  <2>1. CASE Leave(p)
    BY <1>3, <2>1 DEF Leave, ReturnToDestroyed, Release
  <2>2. CASE Reply(p)
    <3>1. prompter[p].pc = "replying" /\ promptOf' = promptOf
      BY <2>2 DEF Reply, mvars
    <3> QED BY <3>1, PrompterFacts
  <2> QED BY <2>1, <2>2
<1> QED BY <1>1, <1>2, <1>4, PrompterMoves

LEMMA DisconnectInv ==
  ASSUME GInv, [MNext]_mvars, NEW p \in Prompts, Disconnect(p)
  PROVE  GInv'
<1> DEFINE h == [prompter[p] EXCEPT !.gone = TRUE]
<1>1. prompter' = [prompter EXCEPT ![p] = h] /\ approver' = approver
  BY DEF Disconnect
<1>2. /\ h \in PrompterType /\ h.pc = prompter[p].pc /\ h.id = prompter[p].id
      /\ h.settings = prompter[p].settings /\ h.verdict = prompter[p].verdict
  BY PrompterFacts, ZenonT(30) DEF PrompterType
<1> HIDE DEF h
<1>3. promptOf' = promptOf /\ prompter[p].pc # "idle"
  BY DEF Disconnect, mvars
<1>4. h.pc = "judged" => h.verdict \in Verdicts
  BY <1>2 DEF GInv, HandlersInv, HandlerRunsItsPrompt
<1> QED BY <1>1, <1>2, <1>3, <1>4, PrompterFacts, PrompterMoves, SettingsStay

\* Everything a prompt handler, its watcher, its timer and DeepSeek do.
LEMMA PrompterInv ==
  ASSUME GInv, [MNext]_mvars, NEW p \in Prompts,
         PrompterStep(p) \/ UpstreamStep(p) \/ Disconnect(p)
  PROVE  GInv'
<1>1. ASSUME NEW text \in Replies \cup {None}, NEW err \in BOOLEAN,
             prompter[p].pc \in {"connecting", "streaming"}, Return(p, text, err)
      PROVE  GInv'
  BY <1>1, ReturnInv
<1>2. prompter[p].text \in Replies \cup {None}
  BY PrompterFacts, PrompterFields
<1>3. CASE StreamStops(p) \/ ConnectFails(p) \/ StreamEnds(p) \/ StreamFails(p)
  BY <1>1, <1>2, <1>3 DEF StreamStops, ConnectFails, StreamEnds, StreamFails
<1>4. CASE Watch(p) \/ GenTimeout(p)
  <2>1. UNCHANGED <<prompter, approver, promptOf>>
    BY <1>4 DEF Watch, GenTimeout, EndContext
  <2> QED BY <2>1, NoHandlerMoves
<1>5. CASE \E text \in Replies : Delta(p, text)
  BY <1>5, DeltaInv
<1> QED BY <1>3, <1>4, <1>5, RegisterCancelInv, ReadSettingsInv, ConnectInv,
           JudgeInv, SettleInv, HandlerEndsInv, DisconnectInv
        DEF PrompterStep, UpstreamStep

-----------------------------------------------------------------------------
(* The steps of an approval handler *)

LEMMA ApproverFacts ==
  ASSUME GInv, NEW a \in Approvers
  PROVE  approver[a] \in ApproverType
BY DEF GInv, HandlersInv, HandlersTyped

\* Either way to name a session approves the session that was named.
LEMMA ApproveOperation ==
  ASSUME GInv, NEW a \in Approvers, NEW req \in ApproveRequests,
         HandleApprove(a, req)
  PROVE  \E id \in Ids :
           /\ approver' = [approver EXCEPT
                ![a] = [IdleApprover EXCEPT !.pc = "approved", !.id = id]]
           /\ id \in live /\ approve(id, Parsed(req))
<1> USE DEF GInv, Inv, MapsAgree
<1>1. PICK id \in Ids :
        /\ approver' = [approver EXCEPT
             ![a] = [IdleApprover EXCEPT !.pc = "approved", !.id = id]]
        /\ \/ ApproveByTokenWithSettings(id, Parsed(req))
           \/ \E code \in Codes : /\ byPairCode[code] = id
                                  /\ ApproveByCodeWithSettings(code, Parsed(req))
  BY DEF HandleApprove
<1>2. CASE ApproveByTokenWithSettings(id, Parsed(req))
  <2>1. PICK x \in live : sess[x].pairToken = id /\ approve(x, Parsed(req))
    BY <1>2 DEF ApproveByTokenWithSettings
  <2>2. x = id
    BY <2>1
  <2> QED BY <1>1, <2>1, <2>2
<1>3. CASE \E code \in Codes : /\ byPairCode[code] = id
                               /\ ApproveByCodeWithSettings(code, Parsed(req))
  BY <1>1, <1>3 DEF ApproveByCodeWithSettings
<1> QED BY <1>1, <1>2, <1>3

LEMMA HandleApproveInv ==
  ASSUME GInv, [MNext]_mvars, NEW a \in Approvers, NEW req \in ApproveRequests,
         HandleApprove(a, req)
  PROVE  GInv'
<1>1. PICK id \in Ids :
        /\ approver' = [approver EXCEPT
             ![a] = [IdleApprover EXCEPT !.pc = "approved", !.id = id]]
        /\ id \in live /\ approve(id, Parsed(req))
  BY ApproveOperation
<1>2. PICK h : h = [IdleApprover EXCEPT !.pc = "approved", !.id = id]
  OBVIOUS
<1>3. h \in ApproverType /\ h.pc = "approved" /\ h.id = id
  BY <1>2 DEF IdleApprover, ApproverType
<1>4. UNCHANGED <<prompter, promptOf>>
  BY <1>1 DEF HandleApprove, approve
<1>5. sess'[id].state = "APPROVED"
  <2>1. sess[id] \in SessionType /\ sess' = [sess EXCEPT ![id] = Approved(sess[id], id, Parsed(req))]
    BY <1>1 DEF approve, GInv, Inv, TypeOK
  <2>2. Approved(sess[id], id, Parsed(req)).state = "APPROVED"
    BY <2>1 DEF Approved, SessionType
  <2> QED BY <2>1, <2>2 DEF GInv, Inv, TypeOK
<1> QED BY <1>1, <1>2, <1>3, <1>4, <1>5, ApproverMoves

\* A token that is still there is the one of the approved session.
LEMMA FetchControlTokenInv ==
  ASSUME GInv, [MNext]_mvars, NEW a \in Approvers, FetchControlToken(a)
  PROVE  GInv'
<1> DEFINE id == approver[a].id
<1>1. /\ UNCHANGED <<prompter, promptOf, sess>>
      /\ approver[a].pc = "approved"
  BY DEF FetchControlToken, mvars
<1>2. id \in Ids /\ sess'[id].state \notin {"UNBORN", "WAITING"}
  BY <1>1, ApprovalStays
<1>3. CASE id \in live
  <2> DEFINE h == [approver[a] EXCEPT !.pc = "encoding",
                                      !.token = sess[id].controlToken]
  <2>1. approver' = [approver EXCEPT ![a] = h]
    BY <1>3 DEF FetchControlToken
  <2>2. sess[id].controlToken = id
    BY <1>1, <1>2, <1>3 DEF GInv, Inv, ApprovalCarriesCredentials
  <2>3. h \in ApproverType /\ h.pc = "encoding" /\ h.id = id /\ h.token = id
    BY <1>2, <2>2, ApproverFacts DEF ApproverType
  <2> HIDE DEF h
  <2> QED BY <1>1, <1>2, <2>1, <2>3, ApproverMoves
<1>4. CASE id \notin live
  <2>1. approver' = [approver EXCEPT ![a] = IdleApprover]
    BY <1>4 DEF FetchControlToken
  <2>2. IdleApprover \in ApproverType /\ IdleApprover.pc = "idle"
    BY DEF IdleApprover, ApproverType
  <2> QED BY <1>1, <2>1, <2>2, ApproverMoves
<1> QED BY <1>3, <1>4

\* Whatever the unlocked read of the state finds, the reply keeps its token.
LEMMA ReadStateInv ==
  ASSUME GInv, [MNext]_mvars, NEW a \in Approvers,
         ReadStateFirstWord(a) \/ ReadStateSecondWord(a)
  PROVE  GInv'
<1> DEFINE id == approver[a].id
<1>1. /\ UNCHANGED <<prompter, promptOf, sess>>
      /\ approver[a].pc \in {"encoding", "halfread"}
  BY DEF ReadStateFirstWord, ReadStateSecondWord, mvars
<1>2. id \in Ids /\ sess'[id].state \notin {"UNBORN", "WAITING"}
  BY <1>1, ApprovalStays
<1>3. sess[id].state \in ReadStates
  BY <1>1, <1>2, SessionFields DEF GInv, Inv, TypeOK, ReadStates
<1>4. approver[a].token = id
  BY <1>1, SMTT(30) DEF GInv, HandlersInv, ApproveReplyHasToken
<1>5. PICK pc \in {"halfread", "replying"}, state \in ReadStates :
        approver' = [approver EXCEPT
          ![a] = [approver[a] EXCEPT !.pc = pc, !.state = state]]
  <2>1. CASE ReadStateFirstWord(a)
    <3>1. approver' = [approver EXCEPT ![a] =
            [approver[a] EXCEPT !.pc = "halfread", !.state = sess[id].state]]
      BY <2>1 DEF ReadStateFirstWord, GInv, HandlersInv, HandlersTyped
    <3> QED BY <1>3, <3>1
  <2>2. CASE ReadStateSecondWord(a)
    <3> DEFINE read == IF approver[a].state = sess[id].state
                       THEN approver[a].state ELSE "TORN"
    <3>1. approver' = [approver EXCEPT ![a] =
            [approver[a] EXCEPT !.pc = "replying", !.state = read]]
      BY <2>2, ApproverFacts
         DEF ReadStateSecondWord, GInv, HandlersInv, HandlersTyped, ApproverType
    <3>2. read \in ReadStates
      BY <1>3 DEF ReadStates
    <3> HIDE DEF read
    <3> QED BY <3>1, <3>2
  <2> QED BY <2>1, <2>2
<1>6. PICK h : h = [approver[a] EXCEPT !.pc = pc, !.state = state]
  OBVIOUS
<1>7. h \in ApproverType /\ h.id = id /\ h.token = approver[a].token
  BY <1>6, ApproverFacts DEF ApproverType
<1> QED BY <1>1, <1>2, <1>4, <1>5, <1>6, <1>7, ApproverMoves

LEMMA ApproverInv ==
  ASSUME GInv, [MNext]_mvars, NEW a \in Approvers, ApproverStep(a)
  PROVE  GInv'
<1>1. CASE ReplyApproved(a)
  <2>1. /\ approver' = [approver EXCEPT ![a] = IdleApprover]
        /\ UNCHANGED <<prompter, promptOf>>
    BY <1>1 DEF ReplyApproved, mvars
  <2>2. IdleApprover \in ApproverType /\ IdleApprover.pc = "idle"
    BY DEF IdleApprover, ApproverType
  <2> QED BY <2>1, <2>2, ApproverMoves
<1> QED BY <1>1, FetchControlTokenInv, ReadStateInv DEF ApproverStep

-----------------------------------------------------------------------------
(* The theorems *)

LEMMA GNextInv == GInv /\ [GNext]_gvars => GInv'
<1> SUFFICES ASSUME GInv, [GNext]_gvars PROVE GInv'
  OBVIOUS
<1> [MNext]_mvars
  BY HandlersDriveManager
<1>1. ASSUME NEW p \in Prompts, NEW id \in Ids, NEW c \in Contents,
             HandlePrompt(p, id, c)
      PROVE  GInv'
  BY <1>1, HandlePromptInv
<1>2. ASSUME NEW a \in Approvers, NEW req \in ApproveRequests,
             HandleApprove(a, req)
      PROVE  GInv'
  BY <1>2, HandleApproveInv
<1>3. ASSUME NEW p \in Prompts,
             PrompterStep(p) \/ UpstreamStep(p) \/ Disconnect(p)
      PROVE  GInv'
  BY <1>3, PrompterInv
<1>4. ASSUME NEW a \in Approvers, ApproverStep(a)
      PROVE  GInv'
  BY <1>4, ApproverInv
<1>5. CASE \/ \E id \in Ids, code \in Codes : HandleCreate(id, code)
           \/ \E id \in Ids : HandleCancel(id) \/ HandleClose(id)
           \/ \E id, token \in Ids : HandleEnd(id, token)
           \/ SweeperTick \/ ClockTick \/ UNCHANGED gvars
  <2>1. UNCHANGED <<prompter, approver, promptOf>>
    BY <1>5
       DEF HandleCreate, Create, HandleCancel, CancelGeneration, HandleClose,
           Destroy, DestroyAll, HandleEnd, EndByControlToken, SweeperTick, Sweep,
           ClockTick, Tick, gvars, mvars
  <2> QED BY <2>1, NoHandlerMoves, Zenon
<1> QED BY <1>1, <1>2, <1>3, <1>4, <1>5 DEF GNext

\* Manager and handlers keep their invariants together.
THEOREM HandlersInvariance == GSpec => []GInv
<1> QED BY GInitInv, GNextInv, PTL DEF GSpec

\* Every variable of the gateway keeps its type.
THEOREM GatewayTypeCorrectness == GSpec => []GTypeOK
<1>1. GInv => GTypeOK
  BY DEF GInv, HandlersInv, HandlersTyped, Inv, GTypeOK
<1> QED BY <1>1, HandlersInvariance, PTL

\* The handlers implement the manager's specification: no interleaving of them
\* does to a session what its operations do not, so every theorem about MSpec
\* is one about the gateway.
THEOREM HandlersImplementManager == GSpec => ImplementsManager
<1>1. GInit => MInit
  BY DEF GInit
<1> QED BY <1>1, HandlersDriveManager, HandlersInvariance, PTL
        DEF GSpec, MSpec, ImplementsManager

\* What is proved of the manager holds of the gateway: its sessions follow the
\* life cycle, approval is final, and a destroyed session ends its generation.
THEOREM GatewayKeepsLifecycle ==
  GSpec => ImplementsLifecycle /\ ApprovalIsFinal /\ DestroyEndsGeneration
<1>1. GSpec => MSpec
  BY HandlersImplementManager, SMTT(30) DEF ImplementsManager
<1> QED BY <1>1, ManagerImplementsLifecycle, ApprovalNeverChanges,
           DestructionEndsGeneration

\* A generation whose session exists runs with the settings the session was
\* approved with, whatever the client's own model is (streamPrompt, SessionSettings).
THEOREM GenerationsRunAsApproved == GSpec => []RunsWithApprovedSettings
<1>1. GInv => RunsWithApprovedSettings
  <2> SUFFICES ASSUME GInv, NEW p \in Prompts,
                      prompter[p].pc \in {"connecting", "streaming", "returned"},
                      prompter[p].id \in live
               PROVE  SentUpstream(ConfiguredModel, prompter[p].settings)
                        = sess[prompter[p].id].settings
    BY DEF RunsWithApprovedSettings
  <2>1. prompter[p].settings = sess[prompter[p].id].settings
    BY DEF GInv, HandlersInv, SettingsAreHandedOver
  <2>2. sess[prompter[p].id].state # "WAITING"
    BY PrompterFacts, PromptedWasApproved DEF GInv
  <2>3. Valid(prompter[p].settings)
    BY <2>1, <2>2 DEF GInv, Inv, ApprovalCarriesCredentials
  <2> HIDE DEF Valid
  <2> QED BY <2>1, <2>3 DEF SentUpstream, Valid, ProductModels, ModelV4Flash, ModelV4Pro
<1> QED BY <1>1, HandlersInvariance, PTL

\* The done or error event is written after the manager was told: the session is
\* then ready, gone, or busy with the next prompt.
THEOREM DoneAlwaysMeansReady == GSpec => []DoneMeansReady
<1>1. GInv => DoneMeansReady
  <2> SUFFICES ASSUME GInv, NEW p \in Prompts, prompter[p].pc = "replying",
                      prompter[p].id \in live,
                      sess[prompter[p].id].state = "ACTIVE"
               PROVE  \E q \in Prompts \ {p} : promptOf[q] = prompter[p].id
    BY DEF DoneMeansReady
  <2>1. promptOf[p] = None /\ prompter[p].id \in Ids
    BY PrompterFacts
  <2>2. PICK q \in Prompts : promptOf[q] = prompter[p].id
    BY DEF GInv, Inv, OnePromptPerSession
  <2> QED BY <2>1, <2>2
<1> QED BY <1>1, HandlersInvariance, PTL

\* A reply to an approval carries the approved session's control token, however
\* the session is destroyed meanwhile (handleApprove, ControlToken).
THEOREM ApproveRepliesHaveToken == GSpec => []ApproveReplyHasToken
<1>1. GInv => ApproveReplyHasToken
  BY DEF GInv, HandlersInv
<1> QED BY <1>1, HandlersInvariance, PTL

=============================================================================
