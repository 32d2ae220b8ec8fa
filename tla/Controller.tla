----------------------------- MODULE Controller -----------------------------
(***************************************************************************)
(* The app that approves and ends sessions (ios/DSRemote: AppViewModel with  *)
(* the views that drive it and GatewayClient), against the gateway.         *)
(*                                                                         *)
(* AppViewModel is bound to the main actor: between two awaits its code runs *)
(* undisturbed, and at an await (biometrics, a request) everything else the  *)
(* user does may run.  Every Task a view starts is a record with a program   *)
(* counter; a task that was started runs when the main actor gets to it.     *)
(*                                                                         *)
(* A request may be lost, its answer may be lost, and one that the app has   *)
(* given up may reach the gateway later.  The terminal is there by what it   *)
(* does to sessions (create, close), and so is `dsgateway approve`, which    *)
(* approves by code and drops the control token.  The API key field, which   *)
(* the app stores and never sends, and the camera's set-up are left out.    *)
(***************************************************************************)
EXTENDS Gateway, PairingCode

CONSTANTS
  Tasks,       \* Tasks of the app that may be under way together
  Typed,       \* texts the user may leave in the code field
  Selections   \* model and thinking mode the user may pick

VARIABLES
  phase,      \* viewModel.phase, "killed" while the app is not running
  session,    \* the session of phase active
  url,        \* gatewayURLString is a valid URL
  saved,      \* and so is the one in UserDefaults
  field,      \* pairingCode
  selected,   \* selectedModel and selectedThinking
  scanner,    \* the scanner sheet is open and has captured nothing
  lastQR,     \* lastQRProcessed, by the code the QR carries
  approving,  \* isApproving
  task,       \* the Tasks
  stray       \* a request the app has given up and the gateway may yet get

appVars == <<phase, session, url, saved, field, selected, scanner, lastQR,
             approving, task, stray>>
cvars   == <<gvars, appVars>>

-----------------------------------------------------------------------------

\* DeepSeekModel and ThinkingMode, and what GatewayClient sends for them.
ThinkingModes == {"off", "low", "high", "max"}

ASSUME PickersOfferEnums ==
  Selections \subseteq [model: ProductModels, mode: ThinkingModes]

\* Mutant of Wire: thinking off is sent as an effort.
WireOffIsEffort(s) ==
  [model |-> s.model, thinking |-> "true",
   effort |-> IF s.mode = "off" THEN "low" ELSE s.mode]

Wire(s) ==
  [model |-> s.model, thinking |-> IF s.mode = "off" THEN "false" ELSE "true",
   effort |-> IF s.mode = "off" THEN "" ELSE s.mode]

\* What the user means by a selection.
Meant(s) ==
  [model |-> s.model, thinking |-> s.mode # "off",
   effort |-> IF s.mode = "off" THEN "" ELSE s.mode]

\* A request of the app and one of `dsgateway approve`, a code and no settings.
NoRequestSettings == [model |-> "", thinking |-> "nil", effort |-> ""]

ASSUME HandlersServeThem ==
  {Wire(s) : s \in Selections} \cup {NoRequestSettings} \subseteq ApproveRequests

Sessions == [id: Ids, token: Ids, as: Selections]

ASSUME NoneIsNoSession == None \notin Sessions
ASSUME CodesHaveSixDigits == Codes \subseteq PairCodes

\* What the camera makes of a code on a screen, and what the field may hold.
Scanned(code) == ParseQR(PairingPayload(FormatPairCode(code)))

FieldTexts == Typed \cup {NoCode} \cup {Scanned(code) : code \in Codes}

TaskType ==
  [pc: {"idle", "queued", "confirming", "sent", "served", "answered"},
   kind: {"approve", "scan", "end"} \cup {None},
   code: Codes \cup {NoCode}          \* the code scanned, then the code sent
           \cup {AppNormalize(text) : text \in FieldTexts},
   as: Selections \cup {None},      \* the selection sent
   on: Sessions \cup {None},        \* the session to end, or the one received
   by: Approvers \cup {None},       \* the handler that serves the request
   reply: {"approved", "ended", "not_found", "failed"} \cup {None}]

IdleTask ==
  [pc |-> "idle", kind |-> None, code |-> NoCode, as |-> None, on |-> None,
   by |-> None, reply |-> None]

CInit ==
  /\ GInit
  /\ phase = "setup" /\ session = None
  /\ url = FALSE /\ saved = FALSE
  /\ field = NoCode /\ selected \in Selections
  /\ scanner = FALSE /\ lastQR = None /\ approving = FALSE
  /\ task = [t \in Tasks |-> IdleTask] /\ stray = None

Queued(t, kind, code) ==
  /\ task[t].pc = "idle"
  /\ task' = [task EXCEPT
       ![t] = [IdleTask EXCEPT !.pc = "queued", !.kind = kind, !.code = code]]

-----------------------------------------------------------------------------
(* The views *)

\* GatewaySetupView: the URL is edited and saved.
EditURL ==
  /\ phase = "setup"
  /\ url' = ~url
  /\ UNCHANGED <<gvars, phase, session, saved, field, selected, scanner, lastQR,
                 approving, task, stray>>

SaveGatewayURL ==
  /\ phase = "setup" /\ url
  /\ saved' = TRUE /\ phase' = "pairing"
  /\ UNCHANGED <<gvars, session, url, field, selected, scanner, lastQR, approving,
                 task, stray>>

\* PairingView: the code field and the pickers are never disabled, the two
\* buttons are while an approval is under way.
EditField ==
  /\ phase = "pairing"
  /\ field' \in Typed \ {field}
  /\ UNCHANGED <<gvars, phase, session, url, saved, selected, scanner, lastQR,
                 approving, task, stray>>

Select ==
  /\ phase = "pairing"
  /\ selected' \in Selections \ {selected}
  /\ UNCHANGED <<gvars, phase, session, url, saved, field, scanner, lastQR,
                 approving, task, stray>>

TapApprove(t) ==
  /\ phase = "pairing" /\ ~approving /\ ~scanner
  /\ Queued(t, "approve", NoCode)
  /\ UNCHANGED <<gvars, phase, session, url, saved, field, selected, scanner,
                 lastQR, approving, stray>>

\* prepareForScan, and the sheet opens.
StartScanning ==
  /\ phase = "pairing" /\ ~approving /\ ~scanner
  /\ scanner' = TRUE /\ lastQR' = None
  /\ UNCHANGED <<gvars, phase, session, url, saved, field, selected, approving,
                 task, stray>>

CancelScan ==
  /\ scanner
  /\ scanner' = FALSE
  /\ UNCHANGED <<gvars, phase, session, url, saved, field, selected, lastQR,
                 approving, task, stray>>

\* metadataOutput: the first valid QR ends the capture and dismisses the sheet.
Capture(t, code) ==
  /\ scanner
  /\ Scanned(code) # NoCode
  /\ Queued(t, "scan", code)
  /\ scanner' = FALSE
  /\ UNCHANGED <<gvars, phase, session, url, saved, field, selected, lastQR,
                 approving, stray>>

\* ActiveSessionView: its one button is never disabled.
TapEnd(t) ==
  /\ phase = "active"
  /\ Queued(t, "end", NoCode)
  /\ UNCHANGED <<gvars, phase, session, url, saved, field, selected, scanner,
                 lastQR, approving, stray>>

-----------------------------------------------------------------------------
(* AppViewModel *)

\* Mutant of Approve: isApproving is set when the user has confirmed.
ApproveFlagsLate(t, text) ==
  /\ IF approving \/ ~url \/ AppNormalize(text) = NoCode
     THEN task' = [task EXCEPT ![t] = IdleTask]
     ELSE task' = [task EXCEPT ![t] = [IdleTask EXCEPT !.pc = "confirming",
                                                       !.kind = "approve"]]
  /\ UNCHANGED approving

\* approve() up to its first await.
Approve(t, text) ==
  IF approving \/ ~url \/ AppNormalize(text) = NoCode
  THEN task' = [task EXCEPT ![t] = IdleTask] /\ UNCHANGED approving
  ELSE /\ task' = [task EXCEPT ![t] = [IdleTask EXCEPT !.pc = "confirming",
                                                     !.kind = "approve"]]
       /\ approving' = TRUE

StartApprove(t) ==
  /\ task[t].pc = "queued" /\ task[t].kind = "approve"
  /\ Approve(t, field)
  /\ UNCHANGED <<gvars, phase, session, url, saved, field, selected, scanner,
                 lastQR, stray>>

\* handleScannedQR.
StartScanned(t) ==
  LET code == task[t].code IN
  /\ task[t].pc = "queued" /\ task[t].kind = "scan"
  /\ IF code = lastQR
     THEN task' = [task EXCEPT ![t] = IdleTask] /\ UNCHANGED <<field, lastQR, approving>>
     ELSE /\ lastQR' = code
          /\ field' = Scanned(code)
          /\ Approve(t, field')
  /\ UNCHANGED <<gvars, phase, session, url, saved, selected, scanner, stray>>

\* Biometrics are cancelled or fail.
Decline(t) ==
  /\ task[t].pc = "confirming"
  /\ approving' = FALSE
  /\ task' = [task EXCEPT ![t] = IdleTask]
  /\ UNCHANGED <<gvars, phase, session, url, saved, field, selected, scanner,
                 lastQR, stray>>

\* Biometrics succeed.  Code and settings are read now and not when the user
\* asked; a code that is none by now ends the approval.
Confirm(t) ==
  LET code == AppNormalize(field) IN
  /\ task[t].pc = "confirming"
  /\ approving' = (code # NoCode)
  /\ task' = [task EXCEPT ![t] =
       IF code = NoCode THEN IdleTask
       ELSE [@ EXCEPT !.pc = "sent", !.code = code, !.as = selected]]
  /\ UNCHANGED <<gvars, phase, session, url, saved, field, selected, scanner,
                 lastQR, stray>>

\* Mutant of StartEnd: the session is taken as it is.
StartEndUnchecked(t) ==
  /\ task[t].pc = "queued" /\ task[t].kind = "end"
  /\ task' = [task EXCEPT ![t].pc = "sent", ![t].on = session]
  /\ UNCHANGED <<gvars, phase, session, url, saved, field, selected, scanner,
                 lastQR, approving, stray>>

\* endSession up to its await.
StartEnd(t) ==
  /\ task[t].pc = "queued" /\ task[t].kind = "end"
  /\ task' = [task EXCEPT ![t] =
       IF phase = "active" THEN [@ EXCEPT !.pc = "sent", !.on = session]
       ELSE IdleTask]
  /\ UNCHANGED <<gvars, phase, session, url, saved, field, selected, scanner,
                 lastQR, approving, stray>>

\* approve() has its answer: the pairing view goes, and its sheet with it.
ResumeApprove(t) ==
  /\ task[t].pc = "answered" /\ task[t].kind # "end"
  /\ approving' = FALSE
  /\ IF task[t].reply = "approved"
     THEN /\ phase' = "active" /\ session' = task[t].on
          /\ field' = NoCode /\ scanner' = FALSE
     ELSE UNCHANGED <<phase, session, field, scanner>>
  /\ task' = [task EXCEPT ![t] = IdleTask]
  /\ UNCHANGED <<gvars, url, saved, selected, lastQR, stray>>

\* endSession has its answer.  It does not look which session is active now.
ResumeEnd(t) ==
  /\ task[t].pc = "answered" /\ task[t].kind = "end"
  /\ IF task[t].reply \in {"ended", "not_found"}
     THEN phase' = "pairing" /\ session' = None
     ELSE UNCHANGED <<phase, session>>
  /\ task' = [task EXCEPT ![t] = IdleTask]
  /\ UNCHANGED <<gvars, url, saved, field, selected, scanner, lastQR, approving,
                 stray>>

-----------------------------------------------------------------------------
(* The requests on their way *)

Answer(r, reply, on) == [r EXCEPT !.pc = "answered", !.reply = reply, !.on = on]

\* What the code of a request leads to; None when it leads nowhere.
Found(r) ==
  LET code == NormalizePairCode(r.code)
  IN  IF code \in Codes THEN byPairCode[code] ELSE None

\* handleApprove with the body GatewayClient.approve makes.
Accepts(a, r) ==
  /\ HandleApprove(a, Wire(r.as))
  /\ approver'[a].id = Found(r)

Refuses(r) ==
  \/ Refused(Wire(r.as))
  \/ Found(r) = None
  \/ Found(r) # None /\ ~Approvable(sess[Found(r)])

ArriveApprove(t, a) ==
  /\ task[t].pc = "sent" /\ task[t].kind # "end"
  /\ \/ /\ Accepts(a, task[t])
        /\ task' = [task EXCEPT ![t].pc = "served", ![t].by = a]
     \/ /\ Refuses(task[t])
        /\ task' = [task EXCEPT ![t] = Answer(@, "failed", None)]
        /\ UNCHANGED gvars
  /\ UNCHANGED <<phase, session, url, saved, field, selected, scanner, lastQR,
                 approving, stray>>

\* A handler goes on.  Its last step answers the task it serves, if that still
\* waits: with an error, with a state the app cannot decode, or with a session.
ServedBy(h, as) ==
  IF h.pc = "replying" /\ h.state # "TORN"
  THEN [reply |-> "approved", on |-> [id |-> h.id, token |-> h.token, as |-> as]]
  ELSE [reply |-> "failed", on |-> None]

Serve(a) ==
  /\ ApproverStep(a)
  /\ task' = [t \in Tasks |->
       IF task[t].pc = "served" /\ task[t].by = a /\ approver'[a].pc = "idle"
       THEN LET answer == ServedBy(approver[a], task[t].as)
            IN  Answer([task[t] EXCEPT !.by = None], answer.reply, answer.on)
       ELSE task[t]]
  /\ UNCHANGED <<phase, session, url, saved, field, selected, scanner, lastQR,
                 approving, stray>>

ArriveEnd(t) ==
  LET s == task[t].on IN
  /\ task[t].pc = "sent" /\ task[t].kind = "end"
  /\ \/ /\ HandleEnd(s.id, s.token)
        /\ task' = [task EXCEPT ![t] = Answer(@, "ended", None)]
     \/ /\ s.id \notin live /\ UNCHANGED gvars
        /\ task' = [task EXCEPT ![t] = Answer(@, "not_found", None)]
  /\ UNCHANGED <<phase, session, url, saved, field, selected, scanner, lastQR,
                 approving, stray>>

\* A request the app no longer waits for may be anywhere.
GivenUp(r) ==
  \/ UNCHANGED stray
  \/ r.pc = "sent" /\ stray = None /\ stray' = r

\* The request or its answer is lost, or takes longer than URLSession waits.
Lost(t) ==
  /\ \/ task[t].pc \in {"sent", "served"}
     \/ task[t].pc = "answered" /\ task[t].reply # "failed"
  /\ GivenUp(task[t])
  /\ task' = [task EXCEPT ![t] = Answer([@ EXCEPT !.by = None], "failed", None)]
  /\ UNCHANGED <<gvars, phase, session, url, saved, field, selected, scanner,
                 lastQR, approving>>

ArriveStray ==
  /\ stray # None
  /\ \/ stray.kind # "end" /\ \E a \in Approvers : Accepts(a, stray)
     \/ stray.kind # "end" /\ Refuses(stray) /\ UNCHANGED gvars
     \/ stray.kind = "end" /\ HandleEnd(stray.on.id, stray.on.token)
     \/ stray.kind = "end" /\ stray.on.id \notin live /\ UNCHANGED gvars
  /\ stray' = None
  /\ UNCHANGED <<phase, session, url, saved, field, selected, scanner, lastQR,
                 approving, task>>

-----------------------------------------------------------------------------
(* The app's process *)

\* iOS ends the app.  The session it controls and its token are gone with it.
Kill ==
  /\ phase # "killed"
  /\ phase' = "killed" /\ session' = None /\ url' = saved /\ field' = NoCode
  /\ scanner' = FALSE /\ lastQR' = None /\ approving' = FALSE
  /\ task' = [t \in Tasks |-> IdleTask]
  /\ \/ UNCHANGED stray
     \/ \E t \in Tasks : GivenUp(task[t])
  /\ UNCHANGED <<gvars, saved, selected>>

\* AppViewModel.init: the settings were saved as they were chosen.
Launch ==
  /\ phase = "killed"
  /\ phase' = IF saved THEN "pairing" ELSE "setup"
  /\ UNCHANGED <<gvars, session, url, saved, field, selected, scanner, lastQR,
                 approving, task, stray>>

-----------------------------------------------------------------------------
(* Everybody else *)

\* runApprove of dsgateway.
CommandApprove(a, text) ==
  LET code == NormalizePairCode(text) IN
  /\ code \in Codes
  /\ HandleApprove(a, NoRequestSettings)
  /\ approver'[a].id = byPairCode[code]

GatewayAlone ==
  \/ \E id \in Ids, code \in Codes : HandleCreate(id, code)
  \/ \E id \in Ids : HandleClose(id)
  \/ \E a \in Approvers, text \in Typed : CommandApprove(a, text)
  \/ SweeperTick
  \/ ClockTick

Alone == GatewayAlone /\ UNCHANGED appVars

AppStep(t) ==
  \/ StartApprove(t) \/ StartScanned(t) \/ StartEnd(t)
  \/ ResumeApprove(t) \/ ResumeEnd(t)

UserStep(t) ==
  \/ TapApprove(t) \/ TapEnd(t)
  \/ \E id \in live, code \in Codes :
       sess[id].pairCode = code /\ Capture(t, code)

CNext ==
  \/ EditURL \/ SaveGatewayURL \/ EditField \/ Select
  \/ StartScanning \/ CancelScan
  \/ \E t \in Tasks : UserStep(t) \/ AppStep(t) \/ Decline(t) \/ Confirm(t)
  \/ \E t \in Tasks, a \in Approvers : ArriveApprove(t, a)
  \/ \E t \in Tasks : ArriveEnd(t) \/ Lost(t)
  \/ \E a \in Approvers : Serve(a)
  \/ ArriveStray
  \/ Kill \/ Launch
  \/ Alone

CSpec == CInit /\ [][CNext]_cvars

-----------------------------------------------------------------------------

\* Every variable has its type, and a request to end names a session.
CTypeOK ==
  /\ phase \in {"setup", "pairing", "active", "killed"}
  /\ session \in Sessions \cup {None}
  /\ session # None <=> phase = "active"
  /\ url \in BOOLEAN /\ saved \in BOOLEAN /\ approving \in BOOLEAN
  /\ scanner \in BOOLEAN
  /\ field \in FieldTexts
  /\ selected \in Selections
  /\ lastQR \in Codes \cup {None}
  /\ task \in [Tasks -> TaskType]
  /\ stray \in TaskType \cup {None}
  /\ \A t \in Tasks :
       task[t].kind = "end" /\ task[t].pc = "sent" => task[t].on # None

UnderWay(t) ==
  /\ task[t].kind # "end"
  /\ task[t].pc \in {"confirming", "sent", "served", "answered"}

\* However often the button is tapped and the camera sees a code before the
\* main actor gets to it, one approval is under way at a time, and the buttons
\* are disabled exactly while it is: no second biometric prompt, no second
\* request.
OneApprovalAtATime ==
  /\ approving <=> \E t \in Tasks : UnderWay(t)
  /\ \A t, u \in Tasks : UnderWay(t) /\ UnderWay(u) => t = u

\* The session the app shows as active, while the gateway has it, can be ended
\* with the token the app holds and runs the model and thinking mode that were
\* picked when the user confirmed, whatever was picked or typed meanwhile and
\* whatever requests of the past still arrive.
AppControlsWhatItApproved ==
  phase = "active" /\ session.id \in live =>
    /\ sess[session.id].controlToken = session.token
    /\ sess[session.id].settings = Meant(session.as)

\* The code a terminal shows leads back to its session when it is typed as it
\* is shown, with the gap in it, or scanned.
ShownCodesAreFound ==
  \A code \in Codes :
    LET id    == byPairCode[code]
        shown == FormatPairCode(sess[id].pairCode)
        sent  == NormalizePairCode(AppNormalize(field))
    IN  id # None /\ field \in {shown, ParseQR(PairingPayload(shown))} =>
          sent \in Codes /\ byPairCode[sent] = id

-----------------------------------------------------------------------------
(* What a comment says and the app does not keep *)

\* AppViewModel.swift: when the gateway answers an end with not_found, the
\* terminal has ended the session on display; treat as done.  The answer may be
\* about the session that was on display when it was asked for.
NotFoundMeansEnded ==
  [][\A t \in Tasks :
       /\ phase = "active" /\ phase' = "pairing"
       /\ task[t].reply = "not_found" /\ task'[t].pc = "idle"
       => session.id \notin live]_cvars

=============================================================================
