--------------------------- MODULE LifecycleProofs ---------------------------
(***************************************************************************)
(* SessionManager implements SessionLifecycle, for every value of its       *)
(* constants: the refinement mapping of SessionManager (Lifecycle) takes     *)
(* every step of the manager to a step of the life cycle or to none.         *)
(***************************************************************************)
EXTENDS SessionManagerProofs

-----------------------------------------------------------------------------
(* The sequences of the mapping *)

\* A question that was just asked is what the log stops before.
LEMMA FrontOfAppend ==
  ASSUME NEW h \in Seq(Message), NEW m \in Message
  PROVE  /\ Front(Append(h, m)) = h
         /\ Last(Append(h, m)) = m
BY DEF Front, Last

\* A conversation that ends with a question is its log and that question.
LEMMA LogAndQuestion ==
  ASSUME NEW h \in Seq(Message), EndsWithQuestion(h)
  PROVE  /\ Front(h) \in Seq(Message)
         /\ Append(Front(h), User(Last(h).content)) = h
<1>1. Last(h) \in Message /\ Last(h).role = "user" /\ Len(h) > 0
  BY DEF EndsWithQuestion, Last
<1>2. Last(h) = User(Last(h).content)
  BY <1>1 DEF Message, User
<1>3. Front(h) \in Seq(Message) /\ Append(Front(h), Last(h)) = h
  BY <1>1 DEF Front, Last
<1> QED BY <1>2, <1>3

-----------------------------------------------------------------------------
(* The mapping, session by session *)

LEMMA LifecycleInit == MInit => Lifecycle!Init
<1> SUFFICES ASSUME MInit PROVE Lifecycle!Init
  OBVIOUS
<1>1. \A id \in Ids : /\ sess[id].state = "UNBORN" /\ LogOf(sess[id]) = << >>
                      /\ PendingOf(sess[id]) = None
  BY DEF MInit, NoSession, LogOf, PendingOf
<1> QED BY <1>1 DEF Lifecycle!Init, phaseBar, logBar, pendingBar

\* In the life cycle's eyes the sessions that exist are the keys of the map.
LEMMA ExistingAreLive == Inv => Lifecycle!Existing = live
BY DEF Inv, TypeOK, MapsAgree, LiveStates, Lifecycle!Existing, phaseBar

\* A function that changes at one argument, as EXCEPT writes it.
LEMMA ChangeAtOne ==
  ASSUME NEW S, NEW f, NEW g, NEW i \in S,
         f = [x \in S |-> f[x]], g = [x \in S |-> g[x]],
         \A x \in S \ {i} : g[x] = f[x]
  PROVE  /\ g = [f EXCEPT ![i] = g[i]]
         /\ g[i] = f[i] => g = f
<1>1. [f EXCEPT ![i] = g[i]] = [x \in S |-> IF x = i THEN g[i] ELSE f[x]]
  OBVIOUS
<1>2. g = [x \in S |-> IF x = i THEN g[i] ELSE f[x]]
  OBVIOUS
<1>3. ASSUME g[i] = f[i] PROVE g = f
  <2>1. \A x \in S : g[x] = f[x]
    BY <1>3
  <2> QED BY <2>1
<1> QED BY <1>1, <1>2, <1>3

\* What the mapped functions are in the next state.
LEMMA BarNext ==
  /\ phaseBar' = [id \in Ids |-> sess'[id].state]
  /\ logBar' = [id \in Ids |-> LogOf(sess'[id])]
  /\ pendingBar' = [id \in Ids |-> PendingOf(sess'[id])]
BY DEF phaseBar, logBar, pendingBar, LogOf, PendingOf

\* One session changes: the mapped functions change at that session only.
LEMMA OneSessionMaps ==
  ASSUME NEW id \in Ids, \A x \in Ids \ {id} : sess'[x] = sess[x]
  PROVE  /\ phaseBar' = [phaseBar EXCEPT ![id] = sess'[id].state]
         /\ logBar' = [logBar EXCEPT ![id] = LogOf(sess'[id])]
         /\ pendingBar' = [pendingBar EXCEPT ![id] = PendingOf(sess'[id])]
         /\ LogOf(sess'[id]) = LogOf(sess[id]) => logBar' = logBar
         /\ PendingOf(sess'[id]) = PendingOf(sess[id]) => pendingBar' = pendingBar
<1>1. phaseBar' = [phaseBar EXCEPT ![id] = sess'[id].state]
  <2>1. /\ phaseBar = [x \in Ids |-> phaseBar[x]]
        /\ phaseBar' = [x \in Ids |-> phaseBar'[x]]
        /\ \A x \in Ids \ {id} : phaseBar'[x] = phaseBar[x]
        /\ phaseBar'[id] = sess'[id].state
    BY BarNext DEF phaseBar
  <2> QED BY <2>1, ChangeAtOne
<1>2. /\ logBar' = [logBar EXCEPT ![id] = LogOf(sess'[id])]
      /\ LogOf(sess'[id]) = LogOf(sess[id]) => logBar' = logBar
  <2>1. /\ logBar = [x \in Ids |-> logBar[x]]
        /\ logBar' = [x \in Ids |-> logBar'[x]]
        /\ \A x \in Ids \ {id} : logBar'[x] = logBar[x]
        /\ logBar'[id] = LogOf(sess'[id]) /\ logBar[id] = LogOf(sess[id])
    BY BarNext DEF logBar
  <2> QED BY <2>1, ChangeAtOne
<1>3. /\ pendingBar' = [pendingBar EXCEPT ![id] = PendingOf(sess'[id])]
      /\ PendingOf(sess'[id]) = PendingOf(sess[id]) => pendingBar' = pendingBar
  <2>1. /\ pendingBar = [x \in Ids |-> pendingBar[x]]
        /\ pendingBar' = [x \in Ids |-> pendingBar'[x]]
        /\ \A x \in Ids \ {id} : pendingBar'[x] = pendingBar[x]
        /\ pendingBar'[id] = PendingOf(sess'[id]) /\ pendingBar[id] = PendingOf(sess[id])
    BY BarNext DEF pendingBar
  <2> QED BY <2>1, ChangeAtOne
<1> QED BY <1>1, <1>2, <1>3

\* A step that changes neither state nor history of a session is a stutter.
LEMMA SameSessionsMap ==
  ASSUME \A id \in Ids : /\ sess'[id].state = sess[id].state
                         /\ sess'[id].history = sess[id].history
  PROVE  UNCHANGED <<phaseBar, logBar, pendingBar>>
<1>1. phaseBar' = phaseBar
  BY DEF phaseBar
<1>2. \A id \in Ids : /\ LogOf(sess'[id]) = LogOf(sess[id])
                      /\ PendingOf(sess'[id]) = PendingOf(sess[id])
  BY DEF LogOf, PendingOf
<1>3. logBar' = [id \in Ids |-> LogOf(sess'[id])]
      /\ pendingBar' = [id \in Ids |-> PendingOf(sess'[id])]
  BY DEF logBar, pendingBar, LogOf, PendingOf
<1> QED BY <1>1, <1>2, <1>3 DEF logBar, pendingBar

-----------------------------------------------------------------------------
(* The steps of the manager in the life cycle *)

LEMMA CreateOpens ==
  ASSUME Inv, NEW id \in Ids, NEW code \in Codes, Create(id, code)
  PROVE  Lifecycle!Open(id)
<1>1. /\ sess'[id] = NewSession(id, code)
      /\ \A x \in Ids \ {id} : sess'[x] = sess[x]
      /\ sess[id].state = "UNBORN" /\ Cardinality(live) < MaxSessions
  BY DEF Create, Inv, TypeOK
<1>2. NewSession(id, code).state = "WAITING" /\ NewSession(id, code).history = << >>
  BY NewSessionSession DEF Session
<1>3. sess[id].history = << >>
  <2>1. sess[id] \in {NoSession, [NoSession EXCEPT !.state = "DESTROYED"]}
    BY <1>1 DEF Inv, MapsAgree, NothingSurvives, LiveStates
  <2> QED BY <2>1 DEF NoSession
<1>4. /\ LogOf(NewSession(id, code)) = LogOf(sess[id])
      /\ PendingOf(NewSession(id, code)) = PendingOf(sess[id])
  BY <1>1, <1>2, <1>3 DEF LogOf, PendingOf
<1>5. /\ phaseBar' = [phaseBar EXCEPT ![id] = "WAITING"]
      /\ UNCHANGED <<logBar, pendingBar>>
  BY <1>1, <1>2, <1>4, OneSessionMaps
<1>6. phaseBar[id] = "UNBORN"
  BY <1>1 DEF phaseBar
<1>7. Lifecycle!Cardinality(Lifecycle!Existing) < MaxSessions
  <2>1. Lifecycle!Cardinality(live) = Cardinality(live)
    BY DEF Lifecycle!Cardinality, Cardinality
  <2> QED BY <1>1, <2>1, ExistingAreLive
<1> QED BY <1>5, <1>6, <1>7 DEF Lifecycle!Open

LEMMA ApproveApproves ==
  ASSUME Inv, NEW id \in live, NEW settings \in GenerationSettingsType,
         approve(id, settings)
  PROVE  Lifecycle!Approve(id)
<1>1. /\ sess'[id] = Approved(sess[id], id, settings)
      /\ \A x \in Ids \ {id} : sess'[x] = sess[x]
      /\ sess[id].state = "WAITING" /\ id \in Ids /\ sess[id] \in SessionType
  BY DEF approve, Approvable, Inv, TypeOK
<1>2. /\ Approved(sess[id], id, settings).state = "APPROVED"
      /\ Approved(sess[id], id, settings).history = sess[id].history
  BY <1>1, ApprovedSession DEF Session
<1>3. /\ LogOf(Approved(sess[id], id, settings)) = LogOf(sess[id])
      /\ PendingOf(Approved(sess[id], id, settings)) = PendingOf(sess[id])
  BY <1>1, <1>2 DEF LogOf, PendingOf
<1>4. /\ phaseBar' = [phaseBar EXCEPT ![id] = "APPROVED"]
      /\ UNCHANGED <<logBar, pendingBar>>
  BY <1>1, <1>2, <1>3, OneSessionMaps
<1>5. phaseBar[id] = "WAITING"
  BY <1>1 DEF phaseBar
<1> QED BY <1>4, <1>5 DEF Lifecycle!Approve

\* The log does not see the question until it is answered.
LEMMA PreparePromptBegins ==
  ASSUME Inv, NEW p \in Prompts, NEW id \in Ids, NEW c \in Contents,
         PreparePrompt(p, id, c)
  PROVE  Lifecycle!Begin(id, c)
<1> DEFINE s == sess[id]
<1>1. /\ sess'[id] = Asked(s, c)
      /\ \A x \in Ids \ {id} : sess'[x] = sess[x]
      /\ s.state = "APPROVED" /\ s \in SessionType
  BY DEF PreparePrompt, Inv, TypeOK
<1>2. /\ Asked(s, c).state = "ACTIVE"
      /\ Asked(s, c).history = Append(s.history, User(c))
  BY <1>1, AskedSession DEF Session
<1>3. /\ Front(Append(s.history, User(c))) = s.history
      /\ Last(Append(s.history, User(c))) = User(c)
  <2>1. s.history \in Seq(Message) /\ User(c) \in Message
    BY <1>1, SessionFields DEF User, Message
  <2> QED BY <2>1, FrontOfAppend
<1>4. LogOf(Asked(s, c)) = LogOf(s) /\ PendingOf(Asked(s, c)) = c
  BY <1>1, <1>2, <1>3 DEF LogOf, PendingOf, User
<1>5. /\ phaseBar' = [phaseBar EXCEPT ![id] = "ACTIVE"]
      /\ UNCHANGED logBar
      /\ pendingBar' = [pendingBar EXCEPT ![id] = c]
  BY <1>1, <1>2, <1>4, OneSessionMaps
<1>6. phaseBar[id] = "APPROVED"
  BY <1>1 DEF phaseBar
<1> QED BY <1>5, <1>6 DEF Lifecycle!Begin

\* What is known of the session a reporting handler runs a prompt of.
LEMMA PromptedSession ==
  ASSUME Inv, NEW p \in Prompts, promptOf[p] \in live
  PROVE  LET s == sess[promptOf[p]]
         IN  /\ promptOf[p] \in Ids /\ s \in SessionType
             /\ s.history \in Seq(Message)
             /\ s.state = "ACTIVE" /\ EndsWithQuestion(s.history)
<1>1. promptOf[p] \in Ids /\ sess[promptOf[p]] \in SessionType
  BY DEF Inv, TypeOK
<1>2. sess[promptOf[p]].state = "ACTIVE"
  BY DEF Inv, OnePromptPerSession
<1>3. EndsWithQuestion(sess[promptOf[p]].history)
  BY <1>2 DEF Inv, RepliesFollowQuestions
<1> QED BY <1>1, <1>2, <1>3, SessionFields

\* The question joins the log, and so does the reply if there is one.
LEMMA FinishPromptCommits ==
  ASSUME Inv, NEW p \in Prompts, NEW text \in Replies \cup {None},
         FinishPrompt(p, text)
  PROVE  promptOf[p] \in Ids /\ Lifecycle!Commit(promptOf[p])
<1> DEFINE id == promptOf[p]
           s == sess[id]
           h == IF text = None THEN s.history ELSE Append(s.history, Assistant(text))
<1>1. /\ sess'[id] = Finished(s, text)
      /\ \A x \in Ids \ {id} : sess'[x] = sess[x]
      /\ id \in live
  BY DEF FinishPrompt, Inv, TypeOK
<1>2. /\ id \in Ids /\ s \in SessionType /\ s.history \in Seq(Message)
      /\ s.state = "ACTIVE" /\ EndsWithQuestion(s.history)
  BY <1>1, PromptedSession
<1>3. Finished(s, text) = Session(
        "APPROVED", s.pairToken, s.pairCode, s.pairLeft, IdleTimeout,
        s.controlToken, s.settings, h, None)
  BY <1>2, FinishedSession
<1>4. Finished(s, text).state = "APPROVED" /\ Finished(s, text).history = h
  BY <1>3 DEF Session
<1>5. LogOf(Finished(s, text)) = h /\ PendingOf(Finished(s, text)) = None
  BY <1>4 DEF LogOf, PendingOf
<1>6. /\ phaseBar' = [phaseBar EXCEPT ![id] = "APPROVED"]
      /\ logBar' = [logBar EXCEPT ![id] = h]
      /\ pendingBar' = [pendingBar EXCEPT ![id] = None]
  BY <1>1, <1>2, <1>4, <1>5, OneSessionMaps
<1>7. Append(logBar[id], User(pendingBar[id])) = s.history
  <2>1. logBar[id] = Front(s.history) /\ pendingBar[id] = Last(s.history).content
    BY <1>2 DEF logBar, pendingBar, LogOf, PendingOf
  <2> QED BY <1>2, <2>1, LogAndQuestion
<1>8. phaseBar[id] = "ACTIVE"
  BY <1>2 DEF phaseBar
<1>9. \/ h = s.history
      \/ \E r \in Replies : h = Append(s.history, Assistant(r))
  OBVIOUS
<1> HIDE DEF h, s, id
<1>10. Append(logBar[id], Lifecycle!User(pendingBar[id])) = s.history
  BY <1>7 DEF User, Lifecycle!User
<1>11. \A r \in Replies : Lifecycle!Assistant(r) = Assistant(r)
  BY DEF Assistant, Lifecycle!Assistant
<1>12. Lifecycle!Commit(id)
  BY <1>6, <1>8, <1>9, <1>10, <1>11 DEF Lifecycle!Commit
<1> QED BY <1>2, <1>12 DEF id

\* The unanswered question is forgotten: the log is what it was.
LEMMA FailPromptAborts ==
  ASSUME Inv, NEW p \in Prompts, FailPrompt(p)
  PROVE  promptOf[p] \in Ids /\ Lifecycle!Abort(promptOf[p])
<1> DEFINE id == promptOf[p]
           s == sess[id]
<1>1. /\ sess'[id] = Failed(s)
      /\ \A x \in Ids \ {id} : sess'[x] = sess[x]
      /\ id \in live
  BY DEF FailPrompt, Inv, TypeOK
<1>2. /\ id \in Ids /\ s \in SessionType
      /\ s.state = "ACTIVE" /\ EndsWithQuestion(s.history)
  BY <1>1, PromptedSession
<1>3. Failed(s).state = "APPROVED" /\ Failed(s).history = Front(s.history)
  BY <1>2, FailedSession DEF Session
<1>4. LogOf(Failed(s)) = LogOf(s) /\ PendingOf(Failed(s)) = None
  BY <1>2, <1>3 DEF LogOf, PendingOf
<1>5. /\ phaseBar' = [phaseBar EXCEPT ![id] = "APPROVED"]
      /\ UNCHANGED logBar
      /\ pendingBar' = [pendingBar EXCEPT ![id] = None]
  BY <1>1, <1>2, <1>3, <1>4, OneSessionMaps
<1>6. phaseBar[id] = "ACTIVE"
  BY <1>2 DEF phaseBar
<1> QED BY <1>2, <1>5, <1>6 DEF Lifecycle!Abort

\* Destroying leaves neither log nor prompt.
LEMMA DestroyAllRetires ==
  ASSUME Inv, NEW S \in SUBSET live, DestroyAll(S)
  PROVE  Lifecycle!Retire(S) \/ UNCHANGED <<phaseBar, logBar, pendingBar>>
<1>1. ASSUME NEW id \in S
      PROVE  /\ sess'[id].state = "DESTROYED"
             /\ LogOf(sess'[id]) = << >> /\ PendingOf(sess'[id]) = None
  <2>1. id \in Ids /\ sess[id] \in SessionType /\ sess'[id] = Wiped(sess[id])
    BY DEF DestroyAll, Inv, TypeOK
  <2>2. sess'[id].state = "DESTROYED" /\ sess'[id].history = << >>
    BY <2>1, WipedSession DEF Session
  <2> QED BY <2>2 DEF LogOf, PendingOf
<1>2. \A id \in Ids \ S : sess'[id] = sess[id]
  BY DEF DestroyAll
<1>3. /\ phaseBar' = [id \in Ids |-> sess'[id].state]
      /\ logBar' = [id \in Ids |-> LogOf(sess'[id])]
      /\ pendingBar' = [id \in Ids |-> PendingOf(sess'[id])]
  BY DEF phaseBar, logBar, pendingBar, LogOf, PendingOf
<1>4. phaseBar' = [id \in Ids |-> IF id \in S THEN "DESTROYED" ELSE phaseBar[id]]
  BY <1>1, <1>2, <1>3 DEF phaseBar
<1>5. logBar' = [id \in Ids |-> IF id \in S THEN << >> ELSE logBar[id]]
  BY <1>1, <1>2, <1>3 DEF logBar
<1>6. pendingBar' = [id \in Ids |-> IF id \in S THEN None ELSE pendingBar[id]]
  BY <1>1, <1>2, <1>3 DEF pendingBar
<1>7. CASE S = {}
  BY <1>7, <1>2, SameSessionsMap
<1>8. CASE S # {}
  BY <1>8, <1>4, <1>5, <1>6 DEF Lifecycle!Retire
<1> QED BY <1>7, <1>8

LEMMA TickMaps ==
  ASSUME Inv, Tick
  PROVE  UNCHANGED <<phaseBar, logBar, pendingBar>>
<1>1. ASSUME NEW id \in Ids
      PROVE  /\ sess'[id].state = sess[id].state
             /\ sess'[id].history = sess[id].history
  <2>1. sess[id] \in SessionType
    BY DEF Inv, TypeOK
  <2>2. PICK t : t = [sess[id] EXCEPT !.pairLeft = Less(sess[id].pairLeft),
                                      !.idleLeft = Less(sess[id].idleLeft)]
    OBVIOUS
  <2>3. t.state = sess[id].state /\ t.history = sess[id].history
    BY <2>1, <2>2 DEF SessionType
  <2>4. sess'[id] = IF id \in live THEN t ELSE sess[id]
    BY <2>2 DEF Tick
  <2> QED BY <2>3, <2>4
<1> QED BY <1>1, SameSessionsMap

\* Registering and taking a cancel function is not the life cycle's business.
LEMMA CancelFunctionMaps ==
  ASSUME Inv, NEW id \in Ids, NEW c,
         sess' = [sess EXCEPT ![id] = [sess[id] EXCEPT !.genCancel = c]]
  PROVE  UNCHANGED <<phaseBar, logBar, pendingBar>>
<1>1. sess \in [Ids -> SessionType]
  BY DEF Inv, TypeOK
<1>2. PICK t : t = [sess[id] EXCEPT !.genCancel = c]
  OBVIOUS
<1>3. t.state = sess[id].state /\ t.history = sess[id].history
  BY <1>1, <1>2 DEF SessionType
<1>4. sess'[id] = t /\ \A x \in Ids \ {id} : sess'[x] = sess[x]
  BY <1>1, <1>2
<1> QED BY <1>3, <1>4, SameSessionsMap

\* A process that ends retires every session it had.
LEMMA ManagerDiesRetires ==
  ASSUME Inv, ManagerDies
  PROVE  [Lifecycle!Next]_(Lifecycle!lifecycleVars)
<1> SUFFICES Lifecycle!Next \/ UNCHANGED <<phaseBar, logBar, pendingBar>>
  BY DEF Lifecycle!lifecycleVars
<1>1. ASSUME NEW id \in live
      PROVE  /\ sess'[id].state = "DESTROYED"
             /\ LogOf(sess'[id]) = << >> /\ PendingOf(sess'[id]) = None
  <2>1. id \in Ids /\ sess[id].state # "UNBORN"
    BY DEF Inv, TypeOK, MapsAgree, LiveStates
  <2>2. sess'[id].state = "DESTROYED" /\ sess'[id].history = << >>
    BY <2>1, ManagerDiesFacts DEF Session
  <2> QED BY <2>2 DEF LogOf, PendingOf
<1>2. \A id \in Ids \ live : sess'[id] = sess[id]
  <2> SUFFICES ASSUME NEW id \in Ids \ live PROVE sess'[id] = sess[id]
    OBVIOUS
  <2>1. sess[id] \in {NoSession, [NoSession EXCEPT !.state = "DESTROYED"]}
    BY DEF Inv, NothingSurvives
  <2>2. CASE sess[id].state = "UNBORN"
    <3>1. PICK t : t = [NoSession EXCEPT !.state = "DESTROYED"]
      OBVIOUS
    <3>2. t.state = "DESTROYED"
      BY <3>1 DEF NoSession
    <3> QED BY <2>1, <2>2, <3>1, <3>2, ManagerDiesFacts
  <2>3. CASE sess[id].state # "UNBORN"
    BY <2>1, <2>3, ManagerDiesFacts DEF NoSession
  <2> QED BY <2>2, <2>3
<1>3. /\ phaseBar' = [id \in Ids |->
                        IF id \in live THEN "DESTROYED" ELSE phaseBar[id]]
      /\ logBar' = [id \in Ids |-> IF id \in live THEN << >> ELSE logBar[id]]
      /\ pendingBar' = [id \in Ids |->
                          IF id \in live THEN None ELSE pendingBar[id]]
  <2>1. phaseBar' = [id \in Ids |->
                       IF id \in live THEN "DESTROYED" ELSE phaseBar[id]]
    BY <1>1, <1>2, BarNext DEF phaseBar
  <2>2. logBar' = [id \in Ids |-> IF id \in live THEN << >> ELSE logBar[id]]
    BY <1>1, <1>2, BarNext DEF logBar
  <2>3. pendingBar' = [id \in Ids |-> IF id \in live THEN None ELSE pendingBar[id]]
    BY <1>1, <1>2, BarNext DEF pendingBar
  <2> QED BY <2>1, <2>2, <2>3
<1>4. CASE live = {}
  BY <1>2, <1>4, SameSessionsMap
<1>5. CASE live # {}
  BY <1>3, <1>5, ExistingAreLive DEF Lifecycle!Retire, Lifecycle!Next
<1> QED BY <1>4, <1>5

LEMMA LifecycleNext ==
  Inv /\ [MNext]_mvars => [Lifecycle!Next]_(Lifecycle!lifecycleVars)
<1> SUFFICES ASSUME Inv, [MNext]_mvars
             PROVE  Lifecycle!Next \/ UNCHANGED <<phaseBar, logBar, pendingBar>>
  BY DEF Lifecycle!lifecycleVars
<1>0. live \subseteq Ids
  BY DEF Inv, TypeOK
<1>1. ASSUME NEW id \in Ids, NEW c \in Codes, Create(id, c)
      PROVE  Lifecycle!Next
  BY <1>1, CreateOpens DEF Lifecycle!Next
<1>2. ASSUME NEW id \in live, NEW s \in SettingsInputs, approve(id, s)
      PROVE  Lifecycle!Next
  BY <1>0, <1>2, ApproveApproves, SettingsAreSettings DEF Lifecycle!Next
<1>3. ASSUME NEW c \in Codes, NEW s \in SettingsInputs,
             ApproveByCodeWithSettings(c, s)
      PROVE  Lifecycle!Next
  <2>1. byPairCode[c] \in live
    BY <1>3 DEF ApproveByCodeWithSettings, Inv, MapsAgree
  <2> QED BY <1>2, <1>3, <2>1 DEF ApproveByCodeWithSettings
<1>4. ASSUME NEW p \in Prompts, NEW id \in Ids, NEW c \in Contents,
             PreparePrompt(p, id, c)
      PROVE  Lifecycle!Next
  BY <1>4, PreparePromptBegins DEF Lifecycle!Next
<1>5. ASSUME NEW p \in Prompts, NEW text \in Replies \cup {None},
             FinishPrompt(p, text)
      PROVE  Lifecycle!Next
  BY <1>5, FinishPromptCommits DEF Lifecycle!Next
<1>6. ASSUME NEW p \in Prompts, FailPrompt(p)
      PROVE  Lifecycle!Next
  BY <1>6, FailPromptAborts DEF Lifecycle!Next
<1>7. ASSUME NEW S \in SUBSET live, DestroyAll(S)
      PROVE  Lifecycle!Next \/ UNCHANGED <<phaseBar, logBar, pendingBar>>
  BY <1>7, DestroyAllRetires, ExistingAreLive DEF Lifecycle!Next
<1>8. CASE Sweep
  <2> DEFINE S == {id \in live : Expired(sess[id])}
  <2>1. S \in SUBSET live /\ DestroyAll(S)
    BY <1>8 DEF Sweep
  <2> HIDE DEF S
  <2> QED BY <1>7, <2>1
<1>9. ASSUME NEW id \in live, DestroyAll({id})
      PROVE  Lifecycle!Next \/ UNCHANGED <<phaseBar, logBar, pendingBar>>
  BY <1>7, <1>9
<1>10. ASSUME NEW p \in Prompts, SetGenCancel(p)
       PROVE  UNCHANGED <<phaseBar, logBar, pendingBar>>
  BY <1>0, <1>10, CancelFunctionMaps DEF SetGenCancel
<1>11. ASSUME NEW id \in Ids, CancelGeneration(id)
       PROVE  UNCHANGED <<phaseBar, logBar, pendingBar>>
  BY <1>11, CancelFunctionMaps DEF CancelGeneration
<1>12. CASE sess' = sess
  BY <1>12, SameSessionsMap
<1>13. CASE Tick
  BY <1>13, TickMaps
<1> QED BY <1>1, <1>2, <1>3, <1>4, <1>5, <1>6, <1>7, <1>8, <1>9, <1>10, <1>11,
           <1>12, <1>13
        DEF MNext, mvars, ApproveByTokenWithSettings, EndByControlToken, Destroy,
            ReturnToDestroyed, EndContext

-----------------------------------------------------------------------------

\* The manager implements the session life cycle: capacity is never exceeded, a
\* session is approved once and destroyed once, a prompt commits with its reply
\* or leaves no trace, and nothing of the conversation outlives the session
\* (docs/protocol.md, state machine).
THEOREM ManagerImplementsLifecycle == MSpec => ImplementsLifecycle
<1> QED BY LifecycleInit, LifecycleNext, Invariance, PTL
        DEF MSpec, ImplementsLifecycle, Lifecycle!Spec

=============================================================================
