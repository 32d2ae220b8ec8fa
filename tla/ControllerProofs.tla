-------------------------- MODULE ControllerProofs --------------------------
(***************************************************************************)
(* The app that approves sessions, over the gateway, for every number of     *)
(* Tasks, sessions and codes: it asks for one approval at a time, and what   *)
(* it believes of the session it shows is true, whatever is lost or late.    *)
(***************************************************************************)
EXTENDS Controller, GatewayProofs, PairingCodeProofs

USE NoneIsNoValue

-----------------------------------------------------------------------------
(* The inductive invariant *)

\* What the app believes of a session s it approved.
IsTrueOf(s) ==
  /\ sess[s.id].state \notin {"UNBORN", "WAITING"}
  /\ s.id \in live => /\ sess[s.id].controlToken = s.token
                      /\ sess[s.id].settings = Meant(s.as)

\* What a request carries at each point is what its next step needs.
Carries(r) ==
  /\ r.pc = "queued" /\ r.kind = "scan" => r.code \in Codes
  /\ r.pc \in {"confirming", "served"} => r.kind # "end"
  /\ r.pc \in {"sent", "served"} /\ r.kind # "end" => r.as \in Selections
  /\ r.pc = "sent" /\ r.kind = "end" => r.on \in Sessions
  /\ r.pc = "served" => r.by \in Approvers
  /\ r.pc = "answered" /\ r.reply = "approved" => r.on \in Sessions

\* The handler that serves a request approved a session with the settings the
\* request asks for, and what it answers is true.
Truthful(r) ==
  /\ r.pc = "served" =>
       LET h == approver[r.by]
       IN  /\ h.pc # "idle"
           /\ h.id \in live => sess[h.id].settings = Meant(r.as)
  /\ r.pc = "answered" /\ r.reply = "approved" => IsTrueOf(r.on)

TasksInv ==
  /\ task \in [Tasks -> TaskType]
  /\ \A t \in Tasks : Carries(task[t]) /\ Truthful(task[t])

StrayInv ==
  /\ stray \in TaskType \cup {None}
  /\ stray # None => stray.pc = "sent" /\ Carries(stray)

ScreenInv ==
  /\ phase \in {"setup", "pairing", "active", "killed"}
  /\ session \in Sessions \cup {None}
  /\ session # None <=> phase = "active"
  /\ phase = "active" => IsTrueOf(session)

FormTyped ==
  /\ url \in BOOLEAN /\ saved \in BOOLEAN /\ approving \in BOOLEAN
  /\ scanner \in BOOLEAN
  /\ field \in FieldTexts
  /\ selected \in Selections
  /\ lastQR \in Codes \cup {None}

CInv ==
  /\ GInv
  /\ TasksInv
  /\ StrayInv
  /\ ScreenInv
  /\ FormTyped
  /\ OneApprovalAtATime

LEMMA IdleTaskFacts ==
  /\ IdleTask \in TaskType /\ IdleTask.pc = "idle"
  /\ Carries(IdleTask)
BY DEF IdleTask, TaskType, Carries

LEMMA CInitInv == CInit => CInv
<1> SUFFICES ASSUME CInit PROVE CInv
  OBVIOUS
<1>1. GInv
  BY GInitInv DEF CInit
<1>2. TasksInv
  BY IdleTaskFacts DEF CInit, TasksInv, Truthful
<1>3. StrayInv /\ ScreenInv /\ FormTyped
  BY DEF CInit, StrayInv, ScreenInv, FormTyped, FieldTexts
<1>4. OneApprovalAtATime
  BY DEF CInit, OneApprovalAtATime, UnderWay, IdleTask
<1> QED BY <1>1, <1>2, <1>3, <1>4 DEF CInv

-----------------------------------------------------------------------------
(* What a step of the gateway leaves true *)

\* What the app asks for is what the user meant (ParseSettings of the request
\* GatewayClient.approve makes).
LEMMA WireKeepsMeaning ==
  ASSUME NEW s \in Selections
  PROVE  Parsed(Wire(s)) = Meant(s) /\ Wire(s) \in ApproveRequests
<1>1. s.model \in ProductModels /\ s.mode \in ThinkingModes
  BY PickersOfferEnums
<1>2. s.model # "" /\ s.mode # ""
  BY <1>1 DEF ProductModels, ModelV4Flash, ModelV4Pro, ThinkingModes
<1>3. Parsed(Wire(s)) = Meant(s)
  <2>1. CASE s.mode = "off"
    BY <1>2, <2>1 DEF Parsed, ParseSettings, ThinkingOn, Wire, Meant
  <2>2. CASE s.mode # "off"
    BY <1>2, <2>2 DEF Parsed, ParseSettings, ThinkingOn, Wire, Meant
  <2> QED BY <2>1, <2>2
<1> QED BY <1>3, HandlersServeThem

LEMMA TruthStays ==
  ASSUME KeepsApproval, NEW s \in Sessions, IsTrueOf(s)
  PROVE  /\ sess'[s.id].state \notin {"UNBORN", "WAITING"}
         /\ s.id \in live' => /\ sess'[s.id].controlToken = s.token
                              /\ sess'[s.id].settings = Meant(s.as)
BY DEF KeepsApproval, IsTrueOf, Sessions

\* A task that does not move stays truthful while its handler keeps the session.
LEMMA TaskStays ==
  ASSUME CInv, KeepsApproval, NEW u \in Tasks, task'[u] = task[u],
         task[u].pc = "served" =>
           /\ approver'[task[u].by].pc # "idle"
           /\ approver'[task[u].by].id = approver[task[u].by].id
  PROVE  Truthful(task[u])'
<1> USE DEF CInv, TasksInv
<1>1. CASE task[u].pc = "served"
  <2> DEFINE id == approver[task[u].by].id
  <2>1. task[u].by \in Approvers /\ approver[task[u].by].pc # "idle"
    BY <1>1 DEF Carries, Truthful
  <2>2. id \in Ids /\ sess[id].state \notin {"UNBORN", "WAITING"}
    BY <2>1 DEF GInv, HandlersInv, ApprovalWasGiven
  <2>3. id \in live' => id \in live /\ sess'[id].settings = sess[id].settings
    BY <2>2, SMTT(30) DEF KeepsApproval
  <2> QED BY <1>1, <2>3 DEF Truthful
<1>2. CASE task[u].pc # "served"
  BY <1>2, TruthStays DEF Truthful, Carries, IsTrueOf
<1> QED BY <1>1, <1>2

\* The handlers that serve a request go on serving it.
HandlersKept ==
  \A a \in Approvers : approver[a].pc # "idle" => approver'[a] = approver[a]

LEMMA OneTaskMoves ==
  ASSUME CInv, KeepsApproval, HandlersKept, NEW t \in Tasks, NEW r \in TaskType,
         task' = [task EXCEPT ![t] = r], Carries(r), Truthful(r)'
  PROVE  TasksInv'
<1>1. task'[t] = r /\ \A u \in Tasks \ {t} : task'[u] = task[u]
  BY DEF CInv, TasksInv
<1>2. ASSUME NEW u \in Tasks \ {t} PROVE Carries(task'[u]) /\ Truthful(task[u])'
  <2>1. Carries(task[u]) /\ Truthful(task[u])
    BY DEF CInv, TasksInv
  <2>2. task[u].pc = "served" => approver'[task[u].by] = approver[task[u].by]
                                 /\ approver[task[u].by].pc # "idle"
    BY <2>1 DEF Carries, Truthful, HandlersKept
  <2> QED BY <1>1, <2>1, <2>2, TaskStays
<1>3. task' \in [Tasks -> TaskType]
  BY DEF CInv, TasksInv
<1> HIDE DEF Carries
<1>4. Truthful(task[t])'
  BY <1>1 DEF Truthful, IsTrueOf
<1> QED BY <1>1, <1>2, <1>3, <1>4 DEF TasksInv

LEMMA NoTaskMoves ==
  ASSUME CInv, KeepsApproval, HandlersKept, task' = task
  PROVE  TasksInv' /\ (approving' = approving => OneApprovalAtATime')
<1>1. ASSUME NEW u \in Tasks PROVE Truthful(task[u])'
  <2>1. Carries(task[u]) /\ Truthful(task[u])
    BY DEF CInv, TasksInv
  <2>2. task[u].pc = "served" => approver'[task[u].by] = approver[task[u].by]
                                 /\ approver[task[u].by].pc # "idle"
    BY <2>1 DEF Carries, Truthful, HandlersKept
  <2> QED BY <2>1, <2>2, TaskStays
<1>2. TasksInv'
  BY <1>1 DEF CInv, TasksInv
<1>3. ASSUME approving' = approving PROVE OneApprovalAtATime'
  BY <1>3 DEF CInv, OneApprovalAtATime, UnderWay
<1> QED BY <1>2, <1>3

\* The same approval is under way before and after a step of one Task.
LEMMA ApprovalGoesOn ==
  ASSUME CInv, NEW t \in Tasks, NEW r, task' = [task EXCEPT ![t] = r],
         approving' = approving,
         UnderWay(t) <=>
           /\ r.kind # "end"
           /\ r.pc \in {"confirming", "sent", "served", "answered"}
  PROVE  OneApprovalAtATime'
<1>1. task'[t] = r /\ \A u \in Tasks \ {t} : task'[u] = task[u]
  BY DEF CInv, TasksInv
<1>2. \A u \in Tasks : UnderWay(u)' <=> UnderWay(u)
  BY <1>1 DEF UnderWay
<1> QED BY <1>2 DEF CInv, OneApprovalAtATime

\* The approval that was under way ends.
LEMMA ApprovalEnds ==
  ASSUME CInv, NEW t \in Tasks, UnderWay(t), NEW r, task' = [task EXCEPT ![t] = r],
         approving' = FALSE, r.pc = "idle"
  PROVE  OneApprovalAtATime'
<1>1. task'[t] = r /\ \A u \in Tasks \ {t} : task'[u] = task[u]
  BY DEF CInv, TasksInv
<1>2. \A u \in Tasks : ~UnderWay(u)'
  BY <1>1 DEF UnderWay, CInv, OneApprovalAtATime
<1> QED BY <1>2 DEF OneApprovalAtATime

LEMMA ScreenStays ==
  ASSUME CInv, KeepsApproval, UNCHANGED <<phase, session>>
  PROVE  ScreenInv'
BY TruthStays DEF CInv, ScreenInv, IsTrueOf

\* The gateway does nothing.
LEMMA GatewayRests ==
  ASSUME CInv, UNCHANGED gvars
  PROVE  GInv' /\ KeepsApproval /\ HandlersKept
BY GNextInv, HandlersDriveManager, StepKeepsApproval
   DEF CInv, GInv, HandlersKept, gvars

\* The gateway does something, but no handler of an approval that is served.
LEMMA GatewayMoves ==
  ASSUME CInv, [GNext]_gvars
  PROVE  GInv' /\ KeepsApproval
BY GNextInv, HandlersDriveManager, StepKeepsApproval DEF CInv, GInv

-----------------------------------------------------------------------------
(* The steps of the views and of AppViewModel *)

\* The screen or the form changes and nothing else.
LEMMA ViewMoves ==
  ASSUME CInv, UNCHANGED <<gvars, session, approving, task, stray>>,
         phase' \in {"setup", "pairing", "killed"} \/ phase' = phase,
         phase' # phase => phase # "active", FormTyped'
  PROVE  CInv'
<1>1. GInv' /\ KeepsApproval /\ HandlersKept
  BY GatewayRests
<1>2. TasksInv' /\ OneApprovalAtATime'
  BY <1>1, NoTaskMoves
<1>3. StrayInv'
  BY DEF CInv, StrayInv
<1>4. ScreenInv'
  <2>1. CASE phase' = phase
    BY <1>1, <2>1, ScreenStays
  <2>2. CASE phase' # phase
    BY <2>2 DEF CInv, ScreenInv
  <2> QED BY <2>1, <2>2
<1> QED BY <1>1, <1>2, <1>3, <1>4 DEF CInv

\* A Task goes on in the app, and neither the screen nor the gateway moves.
LEMMA TaskMoves ==
  ASSUME CInv, UNCHANGED <<gvars, phase, session, stray>>, NEW t \in Tasks,
         NEW r \in TaskType, task' = [task EXCEPT ![t] = r], Carries(r),
         r.pc \notin {"served", "answered"}, FormTyped', OneApprovalAtATime'
  PROVE  CInv'
<1>1. GInv' /\ KeepsApproval /\ HandlersKept
  BY GatewayRests
<1>2. Truthful(r)'
  BY DEF Truthful
<1> HIDE DEF Carries
<1>3. TasksInv'
  BY <1>1, <1>2, OneTaskMoves
<1>4. StrayInv' /\ ScreenInv'
  BY <1>1, ScreenStays DEF CInv, StrayInv
<1> QED BY <1>1, <1>3, <1>4 DEF CInv

LEMMA EditInv ==
  ASSUME CInv,
         \/ EditURL \/ SaveGatewayURL \/ EditField \/ Select \/ StartScanning
         \/ CancelScan \/ Launch
  PROVE  CInv'
<1>1. /\ UNCHANGED <<gvars, session, approving, task, stray>>
      /\ phase' \in {"setup", "pairing", "killed"} \/ phase' = phase
      /\ phase' # phase => phase # "active"
  BY DEF EditURL, SaveGatewayURL, EditField, Select, StartScanning, CancelScan,
         Launch
<1>2. FormTyped'
  BY DEF CInv, FormTyped, FieldTexts, EditURL, SaveGatewayURL, EditField, Select,
         StartScanning, CancelScan, Launch
<1> QED BY <1>1, <1>2, ViewMoves

\* A view starts a Task.
LEMMA QueuedInv ==
  ASSUME CInv, NEW t \in Tasks, NEW kind \in {"approve", "scan", "end"},
         NEW code \in Codes \cup {NoCode}, kind = "scan" => code \in Codes,
         Queued(t, kind, code),
         UNCHANGED <<gvars, phase, session, approving, stray>>, FormTyped'
  PROVE  CInv'
<1>1. PICK r :
        r = [IdleTask EXCEPT !.pc = "queued", !.kind = kind, !.code = code]
  OBVIOUS
<1>2. r \in TaskType /\ r.pc = "queued" /\ Carries(r)
  BY <1>1 DEF IdleTask, TaskType, Carries
<1>3. task' = [task EXCEPT ![t] = r] /\ task[t].pc = "idle"
  BY <1>1 DEF Queued
<1>4. OneApprovalAtATime'
  BY <1>2, <1>3, ApprovalGoesOn DEF UnderWay
<1> HIDE DEF Carries
<1> QED BY <1>2, <1>3, <1>4, TaskMoves

LEMMA UserStepInv ==
  ASSUME CInv, NEW t \in Tasks, UserStep(t)
  PROVE  CInv'
<1>1. CASE TapApprove(t)
  BY <1>1, QueuedInv DEF TapApprove, CInv, FormTyped
<1>2. CASE TapEnd(t)
  BY <1>2, QueuedInv DEF TapEnd, CInv, FormTyped
<1>3. ASSUME NEW code \in Codes, Capture(t, code)
      PROVE  CInv'
  BY <1>3, QueuedInv DEF Capture, CInv, FormTyped
<1> QED BY <1>1, <1>2, <1>3 DEF UserStep

\* approve() starts at most when no approval is under way.
LEMMA ApproveStarts ==
  ASSUME CInv, NEW t \in Tasks, NEW text, task[t].pc = "queued",
         Approve(t, text)
  PROVE  /\ OneApprovalAtATime' /\ approving' \in BOOLEAN
         /\ \E r \in TaskType : /\ task' = [task EXCEPT ![t] = r]
                               /\ Carries(r) /\ r.pc \in {"idle", "confirming"}
<1>1. CASE task' = [task EXCEPT ![t] = IdleTask] /\ UNCHANGED approving
  <2>1. OneApprovalAtATime'
    BY <1>1, IdleTaskFacts, ApprovalGoesOn DEF UnderWay
  <2> HIDE DEF Carries
  <2> QED BY <1>1, <2>1, IdleTaskFacts DEF CInv, FormTyped
<1>2. CASE ~approving /\ approving' = TRUE
           /\ task' = [task EXCEPT ![t] =
                [IdleTask EXCEPT !.pc = "confirming", !.kind = "approve"]]
  <2>1. PICK r : r = [IdleTask EXCEPT !.pc = "confirming", !.kind = "approve"]
    OBVIOUS
  <2>2. /\ r \in TaskType /\ r.pc = "confirming" /\ r.kind = "approve"
        /\ Carries(r)
    BY <2>1 DEF IdleTask, TaskType, Carries
  <2>3. task' = [task EXCEPT ![t] = r]
    BY <1>2, <2>1
  <2>4. task'[t] = r /\ \A u \in Tasks \ {t} : task'[u] = task[u]
    BY <2>3 DEF CInv, TasksInv
  <2>5. UnderWay(t)' /\ \A u \in Tasks \ {t} : ~UnderWay(u)'
    BY <1>2, <2>2, <2>4 DEF CInv, OneApprovalAtATime, UnderWay
  <2>6. OneApprovalAtATime'
    BY <1>2, <2>5 DEF OneApprovalAtATime
  <2> HIDE DEF Carries
  <2> QED BY <1>2, <2>2, <2>3, <2>6
<1>3. approving \in BOOLEAN
  BY DEF CInv, FormTyped
<1> QED BY <1>1, <1>2, <1>3 DEF Approve

LEMMA StartApproveInv ==
  ASSUME CInv, NEW t \in Tasks, StartApprove(t)
  PROVE  CInv'
<1>1. /\ UNCHANGED <<gvars, phase, session, url, saved, field, selected, scanner,
                     lastQR, stray>>
      /\ task[t].pc = "queued" /\ Approve(t, field)
  BY DEF StartApprove
<1> HIDE DEF Carries
<1>2. /\ OneApprovalAtATime' /\ approving' \in BOOLEAN
      /\ \E r \in TaskType : /\ task' = [task EXCEPT ![t] = r]
                            /\ Carries(r) /\ r.pc \in {"idle", "confirming"}
  BY <1>1, ApproveStarts
<1>3. FormTyped'
  BY <1>1, <1>2 DEF CInv, FormTyped
<1> QED BY <1>1, <1>2, <1>3, TaskMoves

LEMMA StartScannedInv ==
  ASSUME CInv, NEW t \in Tasks, StartScanned(t)
  PROVE  CInv'
<1>1. /\ UNCHANGED <<gvars, phase, session, url, saved, selected, scanner, stray>>
      /\ task[t].pc = "queued" /\ task[t].kind = "scan"
  BY DEF StartScanned
<1> HIDE DEF Carries
<1>2. CASE /\ task' = [task EXCEPT ![t] = IdleTask]
           /\ UNCHANGED <<field, lastQR, approving>>
  <2>1. OneApprovalAtATime'
    BY <1>1, <1>2, IdleTaskFacts, ApprovalGoesOn DEF UnderWay
  <2>2. FormTyped'
    BY <1>1, <1>2 DEF CInv, FormTyped
  <2> QED BY <1>1, <1>2, <2>1, <2>2, IdleTaskFacts, TaskMoves
<1>3. CASE /\ lastQR' = task[t].code /\ field' = Scanned(task[t].code)
           /\ Approve(t, field')
  <2>1. task[t].code \in Codes
    BY <1>1 DEF CInv, TasksInv, Carries
  <2>2. /\ OneApprovalAtATime' /\ approving' \in BOOLEAN
        /\ \E r \in TaskType : /\ task' = [task EXCEPT ![t] = r]
                              /\ Carries(r) /\ r.pc \in {"idle", "confirming"}
    BY <1>1, <1>3, ApproveStarts
  <2>3. FormTyped'
    BY <1>1, <1>3, <2>1, <2>2 DEF CInv, FormTyped, FieldTexts
  <2> QED BY <1>1, <2>2, <2>3, TaskMoves
<1> QED BY <1>2, <1>3 DEF StartScanned

LEMMA ConfirmingInv ==
  ASSUME CInv, NEW t \in Tasks, Decline(t) \/ Confirm(t)
  PROVE  CInv'
<1>1. /\ UNCHANGED <<gvars, phase, session, url, saved, field, selected, scanner,
                     lastQR, stray>>
      /\ task[t].pc = "confirming"
  BY DEF Decline, Confirm
<1>2. UnderWay(t) /\ approving
  BY <1>1 DEF CInv, TasksInv, Carries, UnderWay, OneApprovalAtATime
<1> HIDE DEF Carries
<1>3. ASSUME approving' \in BOOLEAN PROVE FormTyped'
  BY <1>1, <1>3 DEF CInv, FormTyped
<1>4. CASE task' = [task EXCEPT ![t] = IdleTask] /\ approving' = FALSE
  <2>1. OneApprovalAtATime'
    BY <1>2, <1>4, IdleTaskFacts, ApprovalEnds
  <2> QED BY <1>1, <1>3, <1>4, <2>1, IdleTaskFacts, TaskMoves
<1>5. CASE Confirm(t) /\ AppNormalize(field) # NoCode
  <2> DEFINE code == AppNormalize(field)
  <2>1. PICK r : r = [task[t] EXCEPT !.pc = "sent", !.code = code, !.as = selected]
    OBVIOUS
  <2>2. task' = [task EXCEPT ![t] = r] /\ approving' = TRUE
    BY <1>5, <2>1 DEF Confirm, CInv, TasksInv
  <2>3. task[t] \in TaskType /\ selected \in Selections /\ field \in FieldTexts
    BY DEF CInv, TasksInv, FormTyped
  <2> HIDE DEF code
  <2>4. code \in {AppNormalize(text) : text \in FieldTexts}
    BY <2>3 DEF code
  <2>5. /\ r \in TaskType /\ r.pc = "sent" /\ r.kind = task[t].kind
        /\ r.as = selected
    BY <2>1, <2>3, <2>4 DEF TaskType
  <2>6. Carries(r)
    BY <1>2, <2>3, <2>5 DEF Carries, UnderWay
  <2>7. OneApprovalAtATime'
    BY <1>2, <2>2, <2>5, ApprovalGoesOn DEF UnderWay
  <2> QED BY <1>1, <1>3, <2>2, <2>5, <2>6, <2>7, TaskMoves
<1>6. CASE Decline(t)
  BY <1>4, <1>6 DEF Decline
<1>7. CASE Confirm(t) /\ AppNormalize(field) = NoCode
  <2>1. task' = [task EXCEPT ![t] = IdleTask] /\ approving' = FALSE
    BY <1>7 DEF Confirm
  <2> QED BY <1>4, <2>1
<1> QED BY <1>5, <1>6, <1>7

\* endSession takes a session or ends.
LEMMA StartEndInv ==
  ASSUME CInv, NEW t \in Tasks, StartEnd(t)
  PROVE  CInv'
<1>1. /\ UNCHANGED <<gvars, phase, session, url, saved, field, selected, scanner,
                     lastQR, approving, stray>>
      /\ task[t].pc = "queued" /\ task[t].kind = "end"
  BY DEF StartEnd
<1>2. FormTyped'
  BY <1>1 DEF CInv, FormTyped
<1>3. CASE phase = "active"
  <2>1. PICK r : r = [task[t] EXCEPT !.pc = "sent", !.on = session]
    OBVIOUS
  <2>2. task' = [task EXCEPT ![t] = r]
    BY <1>3, <2>1 DEF StartEnd
  <2>3. task[t] \in TaskType /\ session \in Sessions
    BY <1>3 DEF CInv, TasksInv, ScreenInv
  <2>4. /\ r \in TaskType /\ r.pc = "sent" /\ r.kind = "end" /\ r.on = session
        /\ Carries(r)
    BY <1>1, <2>1, <2>3 DEF TaskType, Carries
  <2>5. OneApprovalAtATime'
    BY <1>1, <2>2, <2>4, ApprovalGoesOn DEF UnderWay
  <2> HIDE DEF Carries
  <2> QED BY <1>1, <1>2, <2>2, <2>4, <2>5, TaskMoves
<1>4. CASE phase # "active"
  <2>1. task' = [task EXCEPT ![t] = IdleTask]
    BY <1>4 DEF StartEnd
  <2>2. OneApprovalAtATime'
    BY <1>1, <2>1, IdleTaskFacts, ApprovalGoesOn DEF UnderWay
  <2> HIDE DEF Carries
  <2> QED BY <1>1, <1>2, <2>1, <2>2, IdleTaskFacts, TaskMoves
<1> QED BY <1>3, <1>4

\* The screen shows what the answer says.
LEMMA ResumeApproveInv ==
  ASSUME CInv, NEW t \in Tasks, ResumeApprove(t)
  PROVE  CInv'
<1>1. /\ UNCHANGED <<gvars, url, saved, selected, lastQR, stray>>
      /\ task[t].pc = "answered" /\ task[t].kind # "end" /\ approving' = FALSE
      /\ task' = [task EXCEPT ![t] = IdleTask]
  BY DEF ResumeApprove
<1>2. GInv' /\ KeepsApproval /\ HandlersKept
  BY <1>1, GatewayRests
<1>3. TasksInv'
  BY <1>1, <1>2, IdleTaskFacts, OneTaskMoves DEF Truthful
<1>4. OneApprovalAtATime'
  BY <1>1, IdleTaskFacts, ApprovalEnds DEF UnderWay
<1>5. FormTyped' /\ StrayInv'
  BY <1>1 DEF ResumeApprove, CInv, FormTyped, StrayInv, FieldTexts
<1>6. CASE task[t].reply = "approved"
  <2>1. phase' = "active" /\ session' = task[t].on
    BY <1>6 DEF ResumeApprove
  <2>2. session' \in Sessions /\ IsTrueOf(task[t].on)
    BY <1>1, <1>6, <2>1 DEF CInv, TasksInv, Carries, Truthful
  <2>3. ScreenInv'
    BY <1>2, <2>1, <2>2, TruthStays, NoneIsNoSession DEF ScreenInv, IsTrueOf
  <2> QED BY <1>2, <1>3, <1>4, <1>5, <2>3 DEF CInv
<1>7. CASE task[t].reply # "approved"
  <2>1. UNCHANGED <<phase, session>>
    BY <1>7 DEF ResumeApprove
  <2> QED BY <1>2, <1>3, <1>4, <1>5, <2>1, ScreenStays DEF CInv
<1> QED BY <1>6, <1>7

LEMMA ResumeEndInv ==
  ASSUME CInv, NEW t \in Tasks, ResumeEnd(t)
  PROVE  CInv'
<1>1. /\ UNCHANGED <<gvars, url, saved, field, selected, scanner, lastQR,
                     approving, stray>>
      /\ task[t].pc = "answered" /\ task[t].kind = "end"
      /\ task' = [task EXCEPT ![t] = IdleTask]
  BY DEF ResumeEnd
<1>2. GInv' /\ KeepsApproval /\ HandlersKept
  BY <1>1, GatewayRests
<1>3. TasksInv'
  BY <1>1, <1>2, IdleTaskFacts, OneTaskMoves DEF Truthful
<1>4. OneApprovalAtATime'
  BY <1>1, IdleTaskFacts, ApprovalGoesOn DEF UnderWay
<1>5. FormTyped' /\ StrayInv'
  BY <1>1 DEF CInv, FormTyped, StrayInv
<1>6. ScreenInv'
  <2>1. CASE phase' = "pairing" /\ session' = None
    BY <2>1 DEF ScreenInv
  <2>2. CASE UNCHANGED <<phase, session>>
    BY <1>2, <2>2, ScreenStays
  <2> QED BY <2>1, <2>2 DEF ResumeEnd
<1> QED BY <1>2, <1>3, <1>4, <1>5, <1>6 DEF CInv

LEMMA AppStepInv ==
  ASSUME CInv, NEW t \in Tasks, AppStep(t)
  PROVE  CInv'
BY StartApproveInv, StartScannedInv, StartEndInv, ResumeApproveInv, ResumeEndInv
   DEF AppStep

-----------------------------------------------------------------------------
(* The requests on their way *)

LEMMA AnswerFacts ==
  ASSUME NEW r \in TaskType, NEW on \in Sessions \cup {None},
         NEW reply \in {"approved", "ended", "not_found", "failed"},
         reply = "approved" => on \in Sessions
  PROVE  LET answer == Answer(r, reply, on)
         IN  /\ answer \in TaskType /\ answer.pc = "answered"
             /\ answer.kind = r.kind /\ answer.reply = reply /\ answer.on = on
             /\ Carries(answer)
<1>1. /\ Answer(r, reply, on) \in TaskType
      /\ Answer(r, reply, on).pc = "answered" /\ Answer(r, reply, on).kind = r.kind
      /\ Answer(r, reply, on).reply = reply /\ Answer(r, reply, on).on = on
  BY ZenonT(60) DEF Answer, TaskType
<1> QED BY <1>1 DEF Carries

\* A request or its answer arrives, or is lost, and its Task goes on with it.
LEMMA RequestMoves ==
  ASSUME CInv, [GNext]_gvars, HandlersKept,
         UNCHANGED <<phase, session, url, saved, field, selected, scanner,
                     lastQR, approving>>,
         NEW t \in Tasks, NEW r \in TaskType, task' = [task EXCEPT ![t] = r],
         Carries(r), Truthful(r)', r.kind = task[t].kind,
         {r.pc, task[t].pc} \subseteq {"sent", "served", "answered"}, StrayInv'
  PROVE  CInv'
<1> HIDE DEF Carries, Truthful
<1>1. GInv' /\ KeepsApproval
  BY GatewayMoves
<1>2. TasksInv'
  BY <1>1, OneTaskMoves
<1>3. OneApprovalAtATime'
  BY ApprovalGoesOn DEF UnderWay
<1>4. ScreenInv' /\ FormTyped'
  BY <1>1, ScreenStays DEF CInv, FormTyped
<1> QED BY <1>1, <1>2, <1>3, <1>4 DEF CInv

\* The gateway approves a session with what the request says.
LEMMA AcceptsFacts ==
  ASSUME CInv, NEW a \in Approvers, NEW r, r.as \in Selections, Accepts(a, r)
  PROVE  /\ GNext /\ HandlersKept
         /\ approver'[a].pc = "approved"
         /\ approver'[a].id \in live' =>
              sess'[approver'[a].id].settings = Meant(r.as)
<1>1. Wire(r.as) \in ApproveRequests /\ Parsed(Wire(r.as)) = Meant(r.as)
  BY WireKeepsMeaning
<1>2. HandleApprove(a, Wire(r.as))
  BY DEF Accepts
<1>3. PICK id \in Ids :
        /\ approver' = [approver EXCEPT
             ![a] = [IdleApprover EXCEPT !.pc = "approved", !.id = id]]
        /\ id \in live /\ approve(id, Parsed(Wire(r.as)))
  BY <1>1, <1>2, ApproveOperation DEF CInv
<1>4. approver \in [Approvers -> ApproverType] /\ approver[a].pc = "idle"
  BY <1>2 DEF HandleApprove, CInv, GInv, HandlersInv, HandlersTyped
<1>5. approver'[a].pc = "approved" /\ approver'[a].id = id
  BY <1>3, <1>4 DEF IdleApprover
<1>6. HandlersKept
  BY <1>3, <1>4 DEF HandlersKept
<1>7. sess'[id].settings = Meant(r.as)
  <2>1. sess[id] \in SessionType
        /\ sess' = [sess EXCEPT ![id] = Approved(sess[id], id, Meant(r.as))]
    BY <1>1, <1>3 DEF approve, CInv, GInv, Inv, TypeOK
  <2>2. Approved(sess[id], id, Meant(r.as)).settings = Meant(r.as)
    BY <2>1 DEF Approved, SessionType
  <2> QED BY <2>1, <2>2 DEF CInv, GInv, Inv, TypeOK
<1> QED BY <1>1, <1>2, <1>5, <1>6, <1>7 DEF GNext

\* The gateway gets a request to approve and accepts or refuses it.
LEMMA ArriveApproveInv ==
  ASSUME CInv, NEW t \in Tasks, NEW a \in Approvers, ArriveApprove(t, a)
  PROVE  CInv'
<1>1. /\ UNCHANGED <<phase, session, url, saved, field, selected, scanner,
                     lastQR, approving, stray>>
      /\ task[t].pc = "sent" /\ task[t].kind # "end"
  BY DEF ArriveApprove
<1>2. task[t] \in TaskType /\ task[t].as \in Selections
  BY <1>1 DEF CInv, TasksInv, Carries
<1>3. StrayInv'
  BY <1>1 DEF CInv, StrayInv
<1>4. CASE /\ Accepts(a, task[t])
           /\ task' = [task EXCEPT ![t].pc = "served", ![t].by = a]
  <2>1. PICK r : r = [task[t] EXCEPT !.pc = "served", !.by = a]
    OBVIOUS
  <2>2. task' = [task EXCEPT ![t] = r]
    BY <1>4, <2>1 DEF CInv, TasksInv
  <2>3. /\ r \in TaskType /\ r.pc = "served" /\ r.kind = task[t].kind
        /\ r.by = a /\ r.as = task[t].as
    BY <1>2, <2>1 DEF TaskType
  <2>4. Carries(r)
    BY <1>1, <1>2, <2>3 DEF Carries
  <2>5. /\ GNext /\ HandlersKept
        /\ approver'[a].pc = "approved"
        /\ approver'[a].id \in live' =>
             sess'[approver'[a].id].settings = Meant(task[t].as)
    BY <1>2, <1>4, AcceptsFacts
  <2>6. Truthful(r)'
    BY <2>3, <2>5 DEF Truthful
  <2> HIDE DEF Carries, Truthful
  <2> QED BY <1>1, <1>3, <2>2, <2>3, <2>4, <2>5, <2>6, RequestMoves
<1>5. CASE task' = [task EXCEPT ![t] = Answer(task[t], "failed", None)]
           /\ UNCHANGED gvars
  <2>1. PICK r : /\ r = Answer(task[t], "failed", None)
                 /\ r \in TaskType /\ r.pc = "answered" /\ r.kind = task[t].kind
                 /\ r.reply = "failed" /\ Carries(r)
    BY <1>2, AnswerFacts
  <2>2. task' = [task EXCEPT ![t] = r]
    BY <1>5, <2>1
  <2>3. Truthful(r)'
    BY <2>1 DEF Truthful
  <2>4. HandlersKept
    BY <1>5, GatewayRests
  <2> HIDE DEF Carries, Truthful
  <2> QED BY <1>1, <1>3, <1>5, <2>1, <2>2, <2>3, <2>4, RequestMoves
<1> QED BY <1>4, <1>5 DEF ArriveApprove, CInv, TasksInv

LEMMA ArriveEndInv ==
  ASSUME CInv, NEW t \in Tasks, ArriveEnd(t)
  PROVE  CInv'
<1>1. /\ UNCHANGED <<phase, session, url, saved, field, selected, scanner,
                     lastQR, approving, stray>>
      /\ task[t].pc = "sent" /\ task[t].kind = "end"
  BY DEF ArriveEnd
<1>2. task[t] \in TaskType /\ task[t].on \in Sessions
  BY <1>1 DEF CInv, TasksInv, Carries
<1>3. StrayInv'
  BY <1>1 DEF CInv, StrayInv
<1>4. PICK reply \in {"ended", "not_found"} :
        task' = [task EXCEPT ![t] = Answer(task[t], reply, None)]
  BY DEF ArriveEnd, CInv, TasksInv
<1>5. [GNext]_gvars /\ HandlersKept
  <2>1. CASE HandleEnd(task[t].on.id, task[t].on.token)
    BY <1>2, <2>1 DEF Sessions, GNext, HandleEnd, HandlersKept
  <2>2. CASE UNCHANGED gvars
    BY <2>2, GatewayRests
  <2> QED BY <2>1, <2>2 DEF ArriveEnd
<1>6. PICK r : /\ r = Answer(task[t], reply, None)
               /\ r \in TaskType /\ r.pc = "answered" /\ r.kind = task[t].kind
               /\ r.reply = reply /\ Carries(r)
  <2>1. /\ reply \in {"approved", "ended", "not_found", "failed"}
        /\ reply # "approved"
    OBVIOUS
  <2>2. None \in Sessions \cup {None}
    OBVIOUS
  <2> HIDE DEF Carries, Answer
  <2>3. /\ Answer(task[t], reply, None) \in TaskType
        /\ Answer(task[t], reply, None).pc = "answered"
        /\ Answer(task[t], reply, None).kind = task[t].kind
        /\ Answer(task[t], reply, None).reply = reply
        /\ Carries(Answer(task[t], reply, None))
    BY <1>2, <2>1, <2>2, AnswerFacts, Z3
  <2> QED BY <2>3
<1>7. task' = [task EXCEPT ![t] = r]
  BY <1>4, <1>6
<1>8. Truthful(r)'
  BY <1>6 DEF Truthful
<1> HIDE DEF Carries, Truthful
<1> QED BY <1>1, <1>3, <1>5, <1>6, <1>7, <1>8, RequestMoves

LEMMA LostInv ==
  ASSUME CInv, NEW t \in Tasks, Lost(t)
  PROVE  CInv'
<1>1. /\ UNCHANGED <<gvars, phase, session, url, saved, field, selected, scanner,
                     lastQR, approving>>
      /\ task[t].pc \in {"sent", "served", "answered"}
      /\ GivenUp(task[t])
  BY DEF Lost
<1>2. task[t] \in TaskType /\ Carries(task[t])
  BY DEF CInv, TasksInv
<1>3. PICK q : q = [task[t] EXCEPT !.by = None]
  OBVIOUS
<1>4. q \in TaskType /\ q.kind = task[t].kind
  BY <1>2, <1>3 DEF TaskType
<1>5. PICK r : /\ r = Answer(q, "failed", None)
               /\ r \in TaskType /\ r.pc = "answered" /\ r.kind = task[t].kind
               /\ r.reply = "failed" /\ Carries(r)
  BY <1>4, AnswerFacts
<1>6. task' = [task EXCEPT ![t] = r]
  BY <1>3, <1>5 DEF Lost, CInv, TasksInv
<1> HIDE DEF Carries
<1>7. Truthful(r)'
  BY <1>5 DEF Truthful
<1>8. StrayInv'
  BY <1>1, <1>2 DEF GivenUp, CInv, StrayInv
<1>9. HandlersKept
  BY <1>1, GatewayRests
<1> HIDE DEF Truthful
<1> QED BY <1>1, <1>5, <1>6, <1>7, <1>8, <1>9, RequestMoves

\* Nobody waits for a request that was given up; what it does to a session is
\* nothing the app would have to know.
LEMMA ArriveStrayInv ==
  ASSUME CInv, ArriveStray
  PROVE  CInv'
<1>1. /\ UNCHANGED <<phase, session, url, saved, field, selected, scanner,
                     lastQR, approving, task>>
      /\ stray # None /\ stray' = None
  BY DEF ArriveStray
<1>2. /\ stray.kind # "end" => stray.as \in Selections
      /\ stray.kind = "end" => stray.on \in Sessions
  BY <1>1 DEF CInv, StrayInv, Carries
<1>3. [GNext]_gvars /\ HandlersKept
  <2>1. ASSUME stray.kind # "end", NEW a \in Approvers, Accepts(a, stray)
        PROVE  [GNext]_gvars /\ HandlersKept
    BY <1>2, <2>1, AcceptsFacts
  <2>2. CASE stray.kind = "end" /\ HandleEnd(stray.on.id, stray.on.token)
    BY <1>2, <2>2 DEF Sessions, GNext, HandleEnd, HandlersKept
  <2>3. CASE UNCHANGED gvars
    BY <2>3, GatewayRests
  <2> QED BY <2>1, <2>2, <2>3 DEF ArriveStray
<1>4. GInv' /\ KeepsApproval
  BY <1>3, GatewayMoves
<1>5. TasksInv' /\ OneApprovalAtATime'
  BY <1>1, <1>3, <1>4, NoTaskMoves
<1>6. ScreenInv' /\ FormTyped' /\ StrayInv'
  BY <1>1, <1>4, ScreenStays DEF CInv, FormTyped, StrayInv
<1> QED BY <1>4, <1>5, <1>6 DEF CInv

\* A handler goes on with the session it approved, and answers the task it serves.
LEMMA ApproverGoesOn ==
  ASSUME CInv, NEW a \in Approvers, ApproverStep(a)
  PROVE  /\ UNCHANGED mvars
         /\ \A b \in Approvers \ {a} : approver'[b] = approver[b]
         /\ approver'[a].pc # "idle" => approver'[a].id = approver[a].id
<1>1. approver \in [Approvers -> ApproverType]
  BY DEF CInv, GInv, HandlersInv, HandlersTyped
<1>2. CASE FetchControlToken(a)
  BY <1>1, <1>2 DEF FetchControlToken, ApproverType, IdleApprover
<1>3. CASE ReadStateFirstWord(a)
  BY <1>1, <1>3 DEF ReadStateFirstWord, ApproverType
<1>4. CASE ReadStateSecondWord(a)
  BY <1>1, <1>4 DEF ReadStateSecondWord, ApproverType
<1>5. CASE ReplyApproved(a)
  BY <1>1, <1>5 DEF ReplyApproved, IdleApprover
<1> QED BY <1>2, <1>3, <1>4, <1>5 DEF ApproverStep

\* A session in an answer is the one that was approved for the request, with
\* its token and settings.
LEMMA ServedTruthfully ==
  ASSUME CInv, KeepsApproval, UNCHANGED mvars, NEW a \in Approvers,
         approver[a].pc = "replying", NEW s \in Selections,
         approver[a].id \in live => sess[approver[a].id].settings = Meant(s),
         NEW on, on = [id |-> approver[a].id, token |-> approver[a].token, as |-> s]
  PROVE  on \in Sessions /\ IsTrueOf(on)'
<1>1. /\ approver[a].id \in Ids /\ approver[a].token = approver[a].id
      /\ sess[approver[a].id].state \notin {"UNBORN", "WAITING"}
  BY DEF CInv, GInv, HandlersInv, ApprovalWasGiven, ApproveReplyHasToken
<1>2. on \in Sessions /\ on.id = approver[a].id /\ on.token = on.id /\ on.as = s
  BY <1>1 DEF Sessions
<1>3. on.id \in live => sess[on.id].controlToken = on.id
  BY <1>1, <1>2 DEF CInv, GInv, Inv, ApprovalCarriesCredentials
<1>4. sess' = sess /\ live' = live
  BY DEF mvars
<1>5. IsTrueOf(on)'
  BY <1>1, <1>2, <1>3, <1>4 DEF IsTrueOf
<1> QED BY <1>2, <1>5

LEMMA ServeInv ==
  ASSUME CInv, NEW a \in Approvers, Serve(a)
  PROVE  CInv'
<1>1. /\ UNCHANGED <<phase, session, url, saved, field, selected, scanner,
                     lastQR, approving, stray>>
      /\ ApproverStep(a)
  BY DEF Serve
<1>2. [GNext]_gvars
  BY <1>1 DEF GNext
<1>3. GInv' /\ KeepsApproval
  BY <1>2, GatewayMoves
<1>4. /\ UNCHANGED mvars
      /\ \A b \in Approvers \ {a} : approver'[b] = approver[b]
      /\ approver'[a].pc # "idle" => approver'[a].id = approver[a].id
  BY <1>1, ApproverGoesOn
<1>5. ASSUME NEW u \in Tasks
      PROVE  /\ task'[u] \in TaskType /\ Carries(task'[u])
             /\ Truthful(task[u])' /\ (UnderWay(u)' <=> UnderWay(u))
  <2>1. task[u] \in TaskType /\ Carries(task[u]) /\ Truthful(task[u])
    BY DEF CInv, TasksInv
  <2>2. CASE task[u].pc = "served" /\ task[u].by = a /\ approver'[a].pc = "idle"
    <3>1. PICK q : q = [task[u] EXCEPT !.by = None]
      OBVIOUS
    <3>2. q \in TaskType /\ q.kind = task[u].kind
      BY <2>1, <3>1 DEF TaskType
    <3>3. PICK answer : answer = ServedBy(approver[a], task[u].as)
      OBVIOUS
    <3>4. /\ answer.reply \in {"approved", "failed"}
          /\ answer.on \in Sessions \cup {None}
          /\ answer.reply = "approved" => answer.on \in Sessions /\ IsTrueOf(answer.on)'
      <4>1. CASE approver[a].pc = "replying" /\ approver[a].state # "TORN"
        <5>1. /\ answer.reply = "approved"
              /\ answer.on = [id |-> approver[a].id, token |-> approver[a].token,
                              as |-> task[u].as]
          BY <3>3, <4>1 DEF ServedBy
        <5>2. /\ task[u].as \in Selections
              /\ approver[a].id \in live =>
                   sess[approver[a].id].settings = Meant(task[u].as)
          BY <2>1, <2>2 DEF Carries, Truthful
        <5>3. answer.on \in Sessions /\ IsTrueOf(answer.on)'
          BY <1>3, <1>4, <4>1, <5>1, <5>2, ServedTruthfully
        <5> QED BY <5>1, <5>3
      <4>2. CASE ~(approver[a].pc = "replying" /\ approver[a].state # "TORN")
        <5>1. answer.reply = "failed" /\ answer.on = None
          BY <3>3, <4>2 DEF ServedBy
        <5> QED BY <5>1
      <4> QED BY <4>1, <4>2
    <3>5. task'[u] = Answer(q, answer.reply, answer.on)
      BY <2>2, <3>1, <3>3 DEF Serve
    <3> HIDE DEF Carries, Answer
    <3>6. answer.reply \in {"approved", "ended", "not_found", "failed"}
      BY <3>4
    <3>7. /\ task'[u] \in TaskType /\ task'[u].pc = "answered"
          /\ task'[u].kind = task[u].kind /\ task'[u].reply = answer.reply
          /\ task'[u].on = answer.on /\ Carries(task'[u])
      BY <3>2, <3>4, <3>5, <3>6, AnswerFacts, Z3
    <3>8. Truthful(task[u])'
      BY <3>4, <3>7 DEF Truthful, IsTrueOf
    <3> QED BY <2>2, <3>7, <3>8 DEF UnderWay
  <2>3. CASE ~(task[u].pc = "served" /\ task[u].by = a /\ approver'[a].pc = "idle")
    <3>1. task'[u] = task[u]
      BY <2>3 DEF Serve
    <3>2. task[u].pc = "served" =>
            /\ approver'[task[u].by].pc # "idle"
            /\ approver'[task[u].by].id = approver[task[u].by].id
      BY <1>4, <2>1, <2>3 DEF Carries, Truthful
    <3>3. Truthful(task[u])'
      BY <1>3, <3>1, <3>2, TaskStays
    <3> QED BY <2>1, <3>1, <3>3 DEF UnderWay
  <2> QED BY <2>2, <2>3
<1>6. TasksInv'
  <2>1. task' = [u \in Tasks |-> task'[u]]
    BY DEF Serve
  <2> QED BY <1>5, <2>1 DEF TasksInv
<1>7. OneApprovalAtATime'
  BY <1>1, <1>5 DEF CInv, OneApprovalAtATime
<1>8. ScreenInv' /\ FormTyped' /\ StrayInv'
  BY <1>1, <1>3, ScreenStays DEF CInv, FormTyped, StrayInv
<1> QED BY <1>3, <1>6, <1>7, <1>8 DEF CInv

-----------------------------------------------------------------------------
(* The app's process, and everybody else *)

LEMMA KillInv ==
  ASSUME CInv, Kill
  PROVE  CInv'
<1>1. GInv'
  BY GatewayRests DEF Kill
<1>2. \A t \in Tasks : task'[t] = IdleTask
  BY DEF Kill
<1>3. TasksInv'
  BY <1>2, IdleTaskFacts DEF Kill, TasksInv, Truthful
<1>4. StrayInv'
  BY DEF Kill, GivenUp, CInv, StrayInv, TasksInv
<1>5. ScreenInv' /\ FormTyped'
  BY DEF Kill, ScreenInv, CInv, FormTyped, FieldTexts
<1>6. OneApprovalAtATime'
  BY <1>2, IdleTaskFacts DEF Kill, OneApprovalAtATime, UnderWay
<1> QED BY <1>1, <1>3, <1>4, <1>5, <1>6 DEF CInv

\* Whoever approves, a free handler does it.
LEMMA HandleApproveKeepsHandlers ==
  ASSUME CInv, NEW a \in Approvers, NEW req, HandleApprove(a, req)
  PROVE  HandlersKept
BY DEF HandleApprove, HandlersKept, CInv, GInv, HandlersInv, HandlersTyped

LEMMA AloneInv ==
  ASSUME CInv, Alone
  PROVE  CInv'
<1>1. UNCHANGED <<phase, session, url, saved, field, selected, scanner, lastQR,
                  approving, task, stray>>
  BY DEF Alone, appVars
<1>2. [GNext]_gvars /\ HandlersKept
  <2>1. ASSUME NEW a \in Approvers, NEW text, CommandApprove(a, text)
        PROVE  GNext /\ HandlersKept
    BY <2>1, HandlersServeThem, HandleApproveKeepsHandlers
       DEF CommandApprove, GNext
  <2>2. CASE \/ \E id \in Ids, code \in Codes : HandleCreate(id, code)
             \/ \E id \in Ids : HandleClose(id)
             \/ SweeperTick
             \/ ClockTick
    <3>1. GNext
      BY <2>2 DEF GNext
    <3>2. approver' = approver
      BY <2>2 DEF HandleCreate, HandleClose, SweeperTick, ClockTick
    <3> QED BY <3>1, <3>2 DEF HandlersKept
  <2> QED BY <2>1, <2>2 DEF Alone, GatewayAlone
<1>3. GInv' /\ KeepsApproval
  BY <1>2, GatewayMoves
<1>4. TasksInv' /\ OneApprovalAtATime'
  BY <1>1, <1>2, <1>3, NoTaskMoves
<1>5. ScreenInv' /\ FormTyped' /\ StrayInv'
  BY <1>1, <1>3, ScreenStays DEF CInv, FormTyped, StrayInv
<1> QED BY <1>3, <1>4, <1>5 DEF CInv

LEMMA CNextInv == CInv /\ [CNext]_cvars => CInv'
<1> SUFFICES ASSUME CInv, [CNext]_cvars PROVE CInv'
  OBVIOUS
<1>1. CASE \/ EditURL \/ SaveGatewayURL \/ EditField \/ Select
           \/ StartScanning \/ CancelScan \/ Launch
  BY <1>1, EditInv
<1>2. ASSUME NEW t \in Tasks, UserStep(t) \/ AppStep(t) \/ Decline(t) \/ Confirm(t)
      PROVE  CInv'
  BY <1>2, UserStepInv, AppStepInv, ConfirmingInv
<1>3. ASSUME NEW t \in Tasks, NEW a \in Approvers, ArriveApprove(t, a)
      PROVE  CInv'
  BY <1>3, ArriveApproveInv
<1>4. ASSUME NEW t \in Tasks, ArriveEnd(t) \/ Lost(t)
      PROVE  CInv'
  BY <1>4, ArriveEndInv, LostInv
<1>5. ASSUME NEW a \in Approvers, Serve(a)
      PROVE  CInv'
  BY <1>5, ServeInv
<1>6. CASE ArriveStray \/ Kill \/ Alone
  BY <1>6, ArriveStrayInv, KillInv, AloneInv
<1>7. CASE UNCHANGED cvars
  <2>1. FormTyped'
    BY <1>7 DEF cvars, appVars, CInv, FormTyped
  <2> QED BY <1>7, <2>1, ViewMoves DEF cvars, appVars
<1> QED BY <1>1, <1>2, <1>3, <1>4, <1>5, <1>6, <1>7 DEF CNext

\* Whatever the app does to the gateway is what the gateway's handlers do.
LEMMA AppUsesHandlers == CInv /\ [CNext]_cvars => [GNext]_gvars
<1> SUFFICES ASSUME CInv, [CNext]_cvars PROVE [GNext]_gvars
  OBVIOUS
<1>1. ASSUME NEW t \in Tasks, UserStep(t) \/ AppStep(t) \/ Decline(t) \/ Confirm(t)
      PROVE  UNCHANGED gvars
  BY <1>1 DEF UserStep, TapApprove, TapEnd, Capture, AppStep, StartApprove,
              StartScanned, StartEnd, ResumeApprove, ResumeEnd, Decline, Confirm
<1>2. CASE \/ EditURL \/ SaveGatewayURL \/ EditField \/ Select
           \/ StartScanning \/ CancelScan \/ Launch \/ Kill
  BY <1>2 DEF EditURL, SaveGatewayURL, EditField, Select, StartScanning,
              CancelScan, Launch, Kill
<1>3. ASSUME NEW t \in Tasks, NEW a \in Approvers, ArriveApprove(t, a)
      PROVE  [GNext]_gvars
  <2>1. task[t].as \in Selections
    BY <1>3 DEF ArriveApprove, CInv, TasksInv, Carries
  <2> QED BY <1>3, <2>1, AcceptsFacts DEF ArriveApprove
<1>4. ASSUME NEW t \in Tasks, ArriveEnd(t) \/ Lost(t)
      PROVE  [GNext]_gvars
  <2>1. CASE ArriveEnd(t)
    <3>1. task[t].on \in Sessions
      BY <2>1 DEF ArriveEnd, CInv, TasksInv, Carries
    <3> QED BY <2>1, <3>1 DEF ArriveEnd, Sessions, GNext
  <2>2. CASE Lost(t)
    BY <2>2 DEF Lost
  <2> QED BY <1>4, <2>1, <2>2
<1>5. ASSUME NEW a \in Approvers, Serve(a)
      PROVE  GNext
  BY <1>5 DEF Serve, GNext
<1>6. CASE ArriveStray
  <2>1. /\ stray.kind # "end" => stray.as \in Selections
        /\ stray.kind = "end" => stray.on \in Sessions
    BY <1>6 DEF ArriveStray, CInv, StrayInv, Carries
  <2>2. ASSUME stray.kind # "end", NEW a \in Approvers, Accepts(a, stray)
        PROVE  GNext
    BY <2>1, <2>2, AcceptsFacts
  <2>3. CASE stray.kind = "end" /\ HandleEnd(stray.on.id, stray.on.token)
    BY <2>1, <2>3 DEF Sessions, GNext
  <2> QED BY <1>6, <2>2, <2>3 DEF ArriveStray
<1>7. CASE Alone
  <2>1. ASSUME NEW a \in Approvers, NEW text, CommandApprove(a, text)
        PROVE  GNext
    BY <2>1, HandlersServeThem DEF CommandApprove, GNext
  <2> QED BY <1>7, <2>1 DEF Alone, GatewayAlone, GNext
<1>8. CASE UNCHANGED cvars
  BY <1>8 DEF cvars
<1> QED BY <1>1, <1>2, <1>3, <1>4, <1>5, <1>6, <1>7, <1>8 DEF CNext

-----------------------------------------------------------------------------
(* The theorems *)

\* App and gateway keep their invariants together, whatever of their requests
\* and answers is lost or late (AppViewModel, GatewayClient, handlers.go).
THEOREM AppInvariance == CSpec => []CInv
<1> QED BY CInitInv, CNextInv, PTL DEF CSpec

\* Every variable of the app keeps its type, and a request to end names a
\* session.
THEOREM AppTypeCorrectness == CSpec => []CTypeOK
<1>1. CInv => CTypeOK
  BY NoneIsNoSession
     DEF CInv, TasksInv, StrayInv, ScreenInv, FormTyped, Carries, CTypeOK
<1> QED BY <1>1, AppInvariance, PTL

\* One approval is under way at a time, and isApproving says so (approve,
\* handleScannedQR).
THEOREM ApprovesOneAtATime == CSpec => []OneApprovalAtATime
<1>1. CInv => OneApprovalAtATime
  BY DEF CInv
<1> QED BY <1>1, AppInvariance, PTL

\* The session on display can be ended with the token the app holds and runs
\* with the settings that were confirmed, as long as the gateway has it
\* (approve, endSession).
THEOREM DisplayIsTrue == CSpec => []AppControlsWhatItApproved
<1>1. CInv => AppControlsWhatItApproved
  BY DEF CInv, ScreenInv, IsTrueOf, AppControlsWhatItApproved
<1> QED BY <1>1, AppInvariance, PTL

\* The code a terminal shows leads back to its session, typed or scanned
\* (FormatPairCode, PairingPayload, NormalizePairCode, and the app's
\* PairingCode and QRPairingParser).
THEOREM ShownCodesLeadBack == CSpec => []ShownCodesAreFound
<1>1. ASSUME CInv, NEW code \in Codes, byPairCode[code] # None,
             LET shown == FormatPairCode(sess[byPairCode[code]].pairCode)
             IN  field \in {shown, ParseQR(PairingPayload(shown))}
      PROVE  NormalizePairCode(AppNormalize(field)) = code
  <2>1. code \in PairCodes
    BY CodesHaveSixDigits
  <2>2. sess[byPairCode[code]].pairCode = code
    BY <1>1 DEF CInv, GInv, Inv, MapsAgree
  <2>3. field \in {code, FormatPairCode(code)}
    BY <1>1, <2>1, <2>2, ScannedCodesComeBack
  <2> QED BY <2>1, <2>3, TypedCodesComeBack
<1>2. CInv => ShownCodesAreFound
  BY <1>1 DEF ShownCodesAreFound
<1> QED BY <1>2, AppInvariance, PTL

\* Behind the app the gateway does what it does behind any client: what is
\* proved of its handlers holds of the sessions the app approves.
THEOREM AppUsesTheGateway ==
  CSpec => GSpec /\ ImplementsLifecycle /\ []ApproveReplyHasToken
<1>1. CInit => GInit
  BY DEF CInit
<1>2. CSpec => GSpec
  BY <1>1, AppUsesHandlers, AppInvariance, PTL DEF CSpec, GSpec
<1> QED BY <1>2, GatewayKeepsLifecycle, ApproveRepliesHaveToken

=============================================================================
