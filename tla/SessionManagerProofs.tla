------------------------ MODULE SessionManagerProofs ------------------------
(***************************************************************************)
(* The safety invariants of SessionManager, for every value of its          *)
(* constants.                                                               *)
(***************************************************************************)
EXTENDS SessionManager, TLAPS

USE NoneIsNoValue

-----------------------------------------------------------------------------
(* The operators that make one Session of another, field by field *)

Session(state, token, code, pair, idle, control, settings, history, cancel) ==
  [state |-> state, pairToken |-> token, pairCode |-> code,
   pairLeft |-> pair, idleLeft |-> idle, controlToken |-> control,
   settings |-> settings, history |-> history, genCancel |-> cancel]

LEMMA SessionHasType ==
  ASSUME NEW state \in LiveStates \cup {"UNBORN", "DESTROYED"},
         NEW token \in Ids \cup {None}, NEW code \in Codes \cup {None},
         NEW pair \in -1..PairTimeout, NEW idle \in -1..IdleTimeout,
         NEW control \in Ids \cup {None},
         NEW settings \in GenerationSettingsType,
         NEW history \in Seq(Message), NEW cancel \in Prompts \cup {None}
  PROVE  Session(state, token, code, pair, idle, control, settings, history,
                 cancel) \in SessionType
BY DEF Session, SessionType

LEMMA SessionFields ==
  ASSUME NEW s \in SessionType
  PROVE  /\ s.state \in LiveStates \cup {"UNBORN", "DESTROYED"}
         /\ s.pairToken \in Ids \cup {None} /\ s.pairCode \in Codes \cup {None}
         /\ s.pairLeft \in -1..PairTimeout /\ s.idleLeft \in -1..IdleTimeout
         /\ s.controlToken \in Ids \cup {None}
         /\ s.settings \in GenerationSettingsType
         /\ s.history \in Seq(Message) /\ s.genCancel \in Prompts \cup {None}
BY DEF SessionType

\* The time left stays within its bound.
LEMMA LessStays ==
  ASSUME NEW t \in Nat, NEW n \in -1..t
  PROVE  Less(n) \in -1..t
BY DEF Less

\* The values the operators put into the fields.
LEMMA ConstantFields ==
  /\ PairTimeout \in -1..PairTimeout /\ 0 \in -1..PairTimeout
  /\ IdleTimeout \in -1..IdleTimeout /\ 0 \in -1..IdleTimeout
  /\ << >> \in Seq(Message)
  /\ {"WAITING", "APPROVED", "ACTIVE", "DESTROYED"}
       \subseteq LiveStates \cup {"UNBORN", "DESTROYED"}
BY TimeoutsArePositive DEF LiveStates

LEMMA NoSettingsType == NoSettings \in GenerationSettingsType
BY DEF NoSettings, GenerationSettingsType, ModelStrings, EffortStrings

LEMMA NewSessionSession ==
  ASSUME NEW id \in Ids, NEW code \in Codes
  PROVE  /\ NewSession(id, code) = Session(
              "WAITING", id, code, PairTimeout, IdleTimeout, None,
              NoSettings, << >>, None)
         /\ NewSession(id, code) \in SessionType
<1> DEFINE r == Session(
    "WAITING", id, code, PairTimeout, IdleTimeout, None,
    NoSettings, << >>, None)
<1>1. NewSession(id, code) = r
  <2> SUFFICES ASSUME NEW t, t = NewSession(id, code) PROVE t = r
    OBVIOUS
  <2> QED BY DEF NewSession, NoSession, Session
<1>2. r \in SessionType
  <2> QED BY SessionHasType, SessionFields, ConstantFields, NoSettingsType
<1> QED BY <1>1, <1>2

LEMMA ApprovedSession ==
  ASSUME NEW s \in SessionType, NEW id \in Ids,
         NEW settings \in GenerationSettingsType
  PROVE  /\ Approved(s, id, settings) = Session(
              "APPROVED", s.pairToken, s.pairCode, s.pairLeft, s.idleLeft, id,
              settings, s.history, s.genCancel)
         /\ Approved(s, id, settings) \in SessionType
<1> DEFINE r == Session(
    "APPROVED", s.pairToken, s.pairCode, s.pairLeft, s.idleLeft, id,
    settings, s.history, s.genCancel)
<1>1. Approved(s, id, settings) = r
  <2> SUFFICES ASSUME NEW t, t = Approved(s, id, settings) PROVE t = r
    OBVIOUS
  <2> QED BY DEF Approved, SessionType, Session
<1>2. r \in SessionType
  <2> QED BY SessionHasType, SessionFields, ConstantFields, NoSettingsType
<1> QED BY <1>1, <1>2

LEMMA AskedSession ==
  ASSUME NEW s \in SessionType, NEW content \in Contents
  PROVE  /\ Asked(s, content) = Session(
              "ACTIVE", s.pairToken, s.pairCode, s.pairLeft, IdleTimeout,
              s.controlToken, s.settings, Append(s.history, User(content)), s.genCancel)
         /\ Asked(s, content) \in SessionType
<1> DEFINE r == Session(
    "ACTIVE", s.pairToken, s.pairCode, s.pairLeft, IdleTimeout,
    s.controlToken, s.settings, Append(s.history, User(content)), s.genCancel)
<1>1. Asked(s, content) = r
  <2> SUFFICES ASSUME NEW t, t = Asked(s, content) PROVE t = r
    OBVIOUS
  <2> QED BY DEF Asked, SessionType, Session
<1>2. r \in SessionType
  <2>1. Append(s.history, User(content)) \in Seq(Message)
    BY DEF SessionType, User, Message
  <2> QED BY <2>1, SessionHasType, SessionFields, ConstantFields, NoSettingsType
<1> QED BY <1>1, <1>2

LEMMA FinishedSession ==
  ASSUME NEW s \in SessionType, NEW text \in Replies \cup {None}
  PROVE  /\ Finished(s, text) = Session(
              "APPROVED", s.pairToken, s.pairCode, s.pairLeft, IdleTimeout,
              s.controlToken, s.settings,
              IF text = None THEN s.history ELSE Append(s.history, Assistant(text)),
              None)
         /\ Finished(s, text) \in SessionType
<1> DEFINE r == Session(
    "APPROVED", s.pairToken, s.pairCode, s.pairLeft, IdleTimeout,
    s.controlToken, s.settings,
    IF text = None THEN s.history ELSE Append(s.history, Assistant(text)),
    None)
<1>1. Finished(s, text) = r
  <2> SUFFICES ASSUME NEW t, t = Finished(s, text) PROVE t = r
    OBVIOUS
  <2> QED BY DEF Finished, SessionType, Session
<1>2. r \in SessionType
  <2>1. (IF text = None THEN s.history ELSE Append(s.history, Assistant(text)))
          \in Seq(Message)
    <3>1. CASE text = None
      BY <3>1, SessionFields
    <3>2. CASE text # None
      <4>1. Assistant(text) \in Message
        BY <3>2 DEF Assistant, Message
      <4> QED BY <3>2, <4>1, SessionFields
    <3> QED BY <3>1, <3>2
  <2> QED BY <2>1, SessionHasType, SessionFields, ConstantFields, NoSettingsType
<1> QED BY <1>1, <1>2

LEMMA FailedSession ==
  ASSUME NEW s \in SessionType
  PROVE  /\ Failed(s) = Session(
              "APPROVED", s.pairToken, s.pairCode, s.pairLeft, IdleTimeout,
              s.controlToken, s.settings,
              IF EndsWithQuestion(s.history) THEN Front(s.history) ELSE s.history, None)
         /\ Failed(s) \in SessionType
<1> DEFINE r == Session(
    "APPROVED", s.pairToken, s.pairCode, s.pairLeft, IdleTimeout,
    s.controlToken, s.settings,
    IF EndsWithQuestion(s.history) THEN Front(s.history) ELSE s.history, None)
<1>1. Failed(s) = r
  <2> SUFFICES ASSUME NEW t, t = Failed(s) PROVE t = r
    OBVIOUS
  <2> QED BY DEF Failed, SessionType, Session
<1>2. r \in SessionType
  <2>1. (IF EndsWithQuestion(s.history) THEN Front(s.history) ELSE s.history)
          \in Seq(Message)
    BY DEF SessionType, EndsWithQuestion, Front
  <2> QED BY <2>1, SessionHasType, SessionFields, ConstantFields, NoSettingsType
<1> QED BY <1>1, <1>2

LEMMA WipedSession ==
  ASSUME NEW s \in SessionType
  PROVE  /\ Wiped(s) = Session(
              "DESTROYED", None, None, 0, 0, None, NoSettings, << >>, None)
         /\ Wiped(s) \in SessionType
<1> DEFINE r == Session(
    "DESTROYED", None, None, 0, 0, None, NoSettings, << >>, None)
<1>1. Wiped(s) = r
  <2> SUFFICES ASSUME NEW t, t = Wiped(s) PROVE t = r
    OBVIOUS
  <2> QED BY DEF Wiped, SessionType, Session
<1>2. r \in SessionType
  <2> QED BY SessionHasType, SessionFields, ConstantFields, NoSettingsType
<1> QED BY <1>1, <1>2

-----------------------------------------------------------------------------
(* The inductive invariant *)

Inv ==
  /\ TypeOK
  /\ MapsAgree
  /\ NothingSurvives
  /\ ApprovalCarriesCredentials
  /\ OnePromptPerSession
  /\ HistoryIsWhatWasAsked
  /\ CancelReachesOwnGeneration
  /\ RepliesFollowQuestions

LEMMA InitInv == MInit => Inv
<1> SUFFICES ASSUME MInit PROVE Inv
  OBVIOUS
<1>1. TypeOK
  <2>1. NoSession \in SessionType
    BY NoSettingsType, ConstantFields, SessionHasType
       DEF NoSession, Session, LiveStates
  <2> QED BY <2>1 DEF MInit, TypeOK, ContextErrors
<1>2. MapsAgree /\ NothingSurvives /\ ApprovalCarriesCredentials
  BY DEF MInit, MapsAgree, NothingSurvives, ApprovalCarriesCredentials,
         NoSession, LiveStates
<1>3. OnePromptPerSession /\ HistoryIsWhatWasAsked
      /\ CancelReachesOwnGeneration /\ RepliesFollowQuestions
  BY DEF MInit, OnePromptPerSession, HistoryIsWhatWasAsked,
         CancelReachesOwnGeneration, RepliesFollowQuestions
<1> QED BY <1>1, <1>2, <1>3 DEF Inv

LEMMA CreateInv ==
  ASSUME Inv, NEW id \in Ids, NEW code \in Codes, Create(id, code)
  PROVE  Inv'
<1> USE DEF Inv
<1>1. /\ sess' = [sess EXCEPT ![id] = NewSession(id, code)]
      /\ live' = live \cup {id}
      /\ byPairCode' = [byPairCode EXCEPT ![code] = id]
      /\ UNCHANGED <<promptOf, asked, ctx>>
      /\ sess[id].state = "UNBORN"
  BY DEF Create
<1>2. /\ NewSession(id, code) = Session("WAITING", id, code, PairTimeout,
                                      IdleTimeout, None, NoSettings, << >>, None)
      /\ NewSession(id, code) \in SessionType
  BY NewSessionSession
<1>3. sess'[id] = NewSession(id, code) /\ \A x \in Ids \ {id} : sess'[x] = sess[x]
  BY <1>1 DEF TypeOK
<1>4. TypeOK'
  BY <1>1, <1>2, <1>3
     DEF TypeOK, ContextErrors, Session
<1>5. MapsAgree'
  BY <1>1, <1>2, <1>3
     DEF MapsAgree, LiveStates, Session
<1>6. NothingSurvives'
  BY <1>1, <1>2, <1>3
     DEF NothingSurvives, Session
<1>7. ApprovalCarriesCredentials'
  BY <1>1, <1>2, <1>3
     DEF ApprovalCarriesCredentials, Session
<1>8. OnePromptPerSession'
  BY <1>1, <1>2, <1>3
     DEF OnePromptPerSession, Session
<1>9. HistoryIsWhatWasAsked'
  BY <1>1, <1>2, <1>3
     DEF HistoryIsWhatWasAsked, Session, OnePromptPerSession, TypeOK
<1>10. CancelReachesOwnGeneration'
  BY <1>1, <1>2, <1>3
     DEF CancelReachesOwnGeneration, Session
<1>11. RepliesFollowQuestions'
  BY <1>1, <1>2, <1>3
     DEF RepliesFollowQuestions, EndsWithQuestion, Session
<1> QED BY <1>4, <1>5, <1>6, <1>7, <1>8, <1>9, <1>10, <1>11

LEMMA ApproveInv ==
  ASSUME Inv, NEW id \in live, NEW settings \in GenerationSettingsType,
         approve(id, settings)
  PROVE  Inv'
<1> USE DEF Inv
<1>1. /\ sess' = [sess EXCEPT ![id] = Approved(sess[id], id, settings)]
      /\ UNCHANGED <<live, byPairCode, promptOf, asked, ctx>>
      /\ sess[id].state = "WAITING" /\ Valid(settings)
  BY DEF approve, Approvable
<1>2. id \in Ids /\ sess[id] \in SessionType
  BY DEF TypeOK
<1>3. /\ Approved(sess[id], id, settings) = Session("APPROVED",
           sess[id].pairToken, sess[id].pairCode, sess[id].pairLeft,
           sess[id].idleLeft, id, settings, sess[id].history,
           sess[id].genCancel)
      /\ Approved(sess[id], id, settings) \in SessionType
  BY <1>2, ApprovedSession
<1>4. /\ sess'[id] = Approved(sess[id], id, settings)
      /\ \A x \in Ids \ {id} : sess'[x] = sess[x]
  BY <1>1, <1>2 DEF TypeOK
<1>5. TypeOK'
  BY <1>1, <1>2, <1>3, <1>4
     DEF TypeOK, ContextErrors, Session
<1>6. MapsAgree'
  BY <1>1, <1>2, <1>3, <1>4
     DEF MapsAgree, LiveStates, Session
<1>7. NothingSurvives'
  BY <1>1, <1>2, <1>3, <1>4
     DEF NothingSurvives, Session
<1>8. ApprovalCarriesCredentials'
  BY <1>1, <1>2, <1>3, <1>4
     DEF ApprovalCarriesCredentials, Session
<1>9. OnePromptPerSession'
  BY <1>1, <1>2, <1>3, <1>4
     DEF OnePromptPerSession, Session
<1>10. HistoryIsWhatWasAsked'
  BY <1>1, <1>2, <1>3, <1>4
     DEF HistoryIsWhatWasAsked, Session
<1>11. CancelReachesOwnGeneration'
  BY <1>1, <1>2, <1>3, <1>4
     DEF CancelReachesOwnGeneration, Session
<1>12. RepliesFollowQuestions'
  BY <1>1, <1>2, <1>3, <1>4
     DEF RepliesFollowQuestions, EndsWithQuestion, Session
<1> QED BY <1>5, <1>6, <1>7, <1>8, <1>9, <1>10, <1>11, <1>12

LEMMA PreparePromptInv ==
  ASSUME Inv, NEW p \in Prompts, NEW id \in Ids, NEW content \in Contents,
         PreparePrompt(p, id, content)
  PROVE  Inv'
<1> USE DEF Inv
<1>1. /\ promptOf[p] = None /\ id \in live /\ sess[id].state = "APPROVED"
      /\ sess' = [sess EXCEPT ![id] = Asked(sess[id], content)]
      /\ asked' = [asked EXCEPT ![p] = Append(sess[id].history, User(content))]
      /\ promptOf' = [promptOf EXCEPT ![p] = id]
      /\ UNCHANGED <<live, byPairCode, ctx>>
  BY DEF PreparePrompt
<1>2. sess[id] \in SessionType /\ sess[id].history \in Seq(Message)
  BY SessionFields DEF TypeOK
<1>3. /\ Asked(sess[id], content) = Session("ACTIVE",
           sess[id].pairToken, sess[id].pairCode, sess[id].pairLeft,
           IdleTimeout, sess[id].controlToken, sess[id].settings,
           Append(sess[id].history, User(content)), sess[id].genCancel)
      /\ Asked(sess[id], content) \in SessionType
  BY <1>2, AskedSession
<1>4. /\ sess'[id] = Asked(sess[id], content)
      /\ \A x \in Ids \ {id} : sess'[x] = sess[x]
  BY <1>1 DEF TypeOK
<1>5. /\ promptOf'[p] = id /\ asked'[p] = Append(sess[id].history, User(content))
      /\ \A q \in Prompts \ {p} : promptOf'[q] = promptOf[q] /\ asked'[q] = asked[q]
  BY <1>1 DEF TypeOK
<1>6. \A q \in Prompts : promptOf[q] # id
  BY <1>1 DEF OnePromptPerSession
<1>7. TypeOK'
  <2>1. Append(sess[id].history, User(content)) \in Seq(Message)
    BY <1>2 DEF User, Message
  <2> QED BY <1>1, <1>3, <2>1 DEF TypeOK
<1>8. MapsAgree'
  BY <1>1, <1>2, <1>3, <1>4, <1>5, <1>6
     DEF MapsAgree, LiveStates, Session
<1>9. NothingSurvives'
  BY <1>1, <1>2, <1>3, <1>4, <1>5, <1>6
     DEF NothingSurvives, Session
<1>10. ApprovalCarriesCredentials'
  BY <1>1, <1>2, <1>3, <1>4, <1>5, <1>6
     DEF ApprovalCarriesCredentials, Session
<1>11. OnePromptPerSession'
  <2>1. ASSUME NEW x \in live'
        PROVE  sess'[x].state = "ACTIVE" <=> \E q \in Prompts : promptOf'[q] = x
    <3>1. CASE x = id
      BY <1>3, <1>4, <1>5, <3>1 DEF Session
    <3>2. CASE x # id
      <4>1. x \in live /\ x \in Ids /\ sess'[x] = sess[x]
        BY <1>1, <1>4, <3>2 DEF TypeOK
      <4>2. \A q \in Prompts : promptOf'[q] = x <=> promptOf[q] = x
        BY <1>1, <1>5, <3>2, <4>1
      <4> QED BY <4>1, <4>2 DEF OnePromptPerSession
    <3> QED BY <3>1, <3>2
  <2>2. ASSUME NEW q \in Prompts, NEW r \in Prompts,
               promptOf'[q] # None, promptOf'[q] = promptOf'[r]
        PROVE  q = r
    BY <1>5, <1>6, <2>2 DEF OnePromptPerSession
  <2>3. ASSUME NEW q \in Prompts, promptOf'[q] # None
        PROVE  sess'[promptOf'[q]].state # "UNBORN"
    <3>1. CASE q = p
      BY <1>3, <1>4, <1>5, <3>1 DEF Session
    <3>2. CASE q # p
      BY <1>4, <1>5, <1>6, <2>3, <3>2 DEF OnePromptPerSession, TypeOK
    <3> QED BY <3>1, <3>2
  <2> QED BY <2>1, <2>2, <2>3 DEF OnePromptPerSession
<1>12. HistoryIsWhatWasAsked'
  <2> SUFFICES ASSUME NEW q \in Prompts, promptOf'[q] \in live'
               PROVE  sess'[promptOf'[q]].history = asked'[q]
    BY DEF HistoryIsWhatWasAsked
  <2>1. CASE q = p
    <3>1. sess'[id].history = Append(sess[id].history, User(content))
      BY <1>3, <1>4 DEF Session
    <3> QED BY <1>5, <2>1, <3>1
  <2>2. CASE q # p
    <3>1. promptOf'[q] = promptOf[q] /\ promptOf[q] # id
      BY <1>5, <1>6, <2>2
    <3>2. promptOf[q] \in live /\ promptOf[q] \in Ids
      BY <1>1, <3>1 DEF TypeOK
    <3> QED BY <1>4, <1>5, <2>2, <3>1, <3>2 DEF HistoryIsWhatWasAsked
  <2> QED BY <2>1, <2>2
<1>13. CancelReachesOwnGeneration'
  <2> SUFFICES ASSUME NEW x \in live', sess'[x].genCancel # None
               PROVE  promptOf'[sess'[x].genCancel] = x
    BY DEF CancelReachesOwnGeneration
  <2>1. x \in live /\ x \in Ids /\ sess'[x].genCancel = sess[x].genCancel
    BY <1>1, <1>3, <1>4 DEF TypeOK, Session
  <2>2. sess[x].genCancel \in Prompts
    BY <2>1, SessionFields DEF TypeOK
  <2>3. promptOf[sess[x].genCancel] = x
    BY <2>1 DEF CancelReachesOwnGeneration
  <2> QED BY <1>1, <1>5, <2>1, <2>2, <2>3
<1>14. RepliesFollowQuestions'
  <2> DEFINE h == Append(sess[id].history, User(content))
  <2>1. sess'[id].history = h
    BY <1>3, <1>4 DEF Session
  <2>2. \A i \in 1..Len(h) :
          h[i].role = "assistant" => i > 1 /\ h[i-1].role = "user"
    BY <1>1, <1>2 DEF RepliesFollowQuestions, User
  <2>3. EndsWithQuestion(h)
    BY <1>2 DEF EndsWithQuestion, User
  <2> HIDE DEF h
  <2> SUFFICES ASSUME NEW x \in live'
               PROVE  /\ \A i \in 1..Len(sess'[x].history) :
                           sess'[x].history[i].role = "assistant" =>
                             i > 1 /\ sess'[x].history[i-1].role = "user"
                      /\ sess'[x].state = "ACTIVE" =>
                           EndsWithQuestion(sess'[x].history)
    BY DEF RepliesFollowQuestions
  <2>4. CASE x = id
    BY <2>1, <2>2, <2>3, <2>4
  <2>5. CASE x # id
    <3>1. x \in live /\ sess'[x] = sess[x]
      BY <1>1, <1>4, <2>5 DEF TypeOK
    <3> QED BY <3>1 DEF RepliesFollowQuestions
  <2> QED BY <2>4, <2>5
<1> QED BY <1>7, <1>8, <1>9, <1>10, <1>11, <1>12, <1>13, <1>14

LEMMA SetGenCancelInv ==
  ASSUME Inv, NEW p \in Prompts, SetGenCancel(p)
  PROVE  Inv'
<1> USE DEF Inv
<1>1. /\ promptOf[p] \in live
      /\ sess' = [sess EXCEPT ![promptOf[p]].genCancel = p]
      /\ UNCHANGED <<live, byPairCode, promptOf, asked, ctx>>
  BY DEF SetGenCancel
<1> DEFINE id == promptOf[p]
<1>2. id \in Ids /\ sess[id] \in SessionType
  BY <1>1 DEF TypeOK
<1>3. /\ [sess[id] EXCEPT !.genCancel = p] \in SessionType
      /\ [sess[id] EXCEPT !.genCancel = p] = Session(
           sess[id].state, sess[id].pairToken, sess[id].pairCode,
           sess[id].pairLeft, sess[id].idleLeft, sess[id].controlToken,
           sess[id].settings, sess[id].history, p)
  BY <1>2 DEF SessionType, Session
<1>4. /\ sess'[id] = [sess[id] EXCEPT !.genCancel = p]
      /\ \A x \in Ids \ {id} : sess'[x] = sess[x]
  BY <1>1, <1>2 DEF TypeOK
<1>5. TypeOK'
  BY <1>1, <1>2, <1>3, <1>4
     DEF TypeOK, ContextErrors, Session
<1>6. MapsAgree'
  BY <1>1, <1>2, <1>3, <1>4
     DEF MapsAgree, LiveStates, Session
<1>7. NothingSurvives'
  BY <1>1, <1>2, <1>3, <1>4
     DEF NothingSurvives, Session
<1>8. ApprovalCarriesCredentials'
  BY <1>1, <1>2, <1>3, <1>4
     DEF ApprovalCarriesCredentials, Session
<1>9. OnePromptPerSession'
  BY <1>1, <1>2, <1>3, <1>4
     DEF OnePromptPerSession, Session
<1>10. HistoryIsWhatWasAsked'
  BY <1>1, <1>2, <1>3, <1>4
     DEF HistoryIsWhatWasAsked, Session
<1>11. CancelReachesOwnGeneration'
  BY <1>1, <1>2, <1>3, <1>4, SMTT(30)
     DEF CancelReachesOwnGeneration, Session
<1>12. RepliesFollowQuestions'
  BY <1>1, <1>2, <1>3, <1>4
     DEF RepliesFollowQuestions, EndsWithQuestion, Session
<1> QED BY <1>5, <1>6, <1>7, <1>8, <1>9, <1>10, <1>11, <1>12

LEMMA FinishPromptInv ==
  ASSUME Inv, NEW p \in Prompts, NEW text \in Replies \cup {None},
         FinishPrompt(p, text)
  PROVE  Inv'
<1> USE DEF Inv
<1> DEFINE id == promptOf[p]
<1>1. /\ id \in live
      /\ sess' = [sess EXCEPT ![id] = Finished(sess[id], text)]
      /\ promptOf' = [promptOf EXCEPT ![p] = None]
      /\ asked' = [asked EXCEPT ![p] = << >>]
      /\ ctx' = [ctx EXCEPT ![p] = "nil"]
      /\ UNCHANGED <<live, byPairCode>>
  BY DEF FinishPrompt, Release
<1>2. /\ id \in Ids /\ sess[id] \in SessionType
      /\ sess[id].history \in Seq(Message)
  BY <1>1, SessionFields DEF TypeOK
<1>3. /\ Finished(sess[id], text) = Session("APPROVED", sess[id].pairToken,
           sess[id].pairCode, sess[id].pairLeft, IdleTimeout,
           sess[id].controlToken, sess[id].settings,
           IF text = None THEN sess[id].history
           ELSE Append(sess[id].history, Assistant(text)),
           None)
      /\ Finished(sess[id], text) \in SessionType
  BY <1>2, FinishedSession
<1>4. /\ sess'[id] = Finished(sess[id], text)
      /\ \A x \in Ids \ {id} : sess'[x] = sess[x]
  BY <1>1, <1>2 DEF TypeOK
<1>5. /\ promptOf'[p] = None /\ asked'[p] = << >>
      /\ \A q \in Prompts \ {p} : promptOf'[q] = promptOf[q] /\ asked'[q] = asked[q]
  BY <1>1 DEF TypeOK
<1>6. /\ sess[id].state = "ACTIVE"
      /\ \A q \in Prompts \ {p} : promptOf[q] # id
  <2>1. id # None
    BY <1>2
  <2> QED BY <1>1, <2>1 DEF OnePromptPerSession
<1>7. TypeOK'
  BY <1>1, <1>2, <1>3, <1>4, <1>5, <1>6, SMTT(30)
     DEF TypeOK, ContextErrors, Session
<1>8. MapsAgree'
  BY <1>1, <1>2, <1>3, <1>4, <1>5, <1>6, SMTT(30)
     DEF MapsAgree, LiveStates, Session
<1>9. NothingSurvives'
  BY <1>1, <1>2, <1>3, <1>4, <1>5, <1>6, SMTT(30)
     DEF NothingSurvives, Session
<1>10. ApprovalCarriesCredentials'
  BY <1>1, <1>2, <1>3, <1>4, <1>5, <1>6
     DEF ApprovalCarriesCredentials, Session
<1>11. OnePromptPerSession'
  <2>1. ASSUME NEW x \in live'
        PROVE  sess'[x].state = "ACTIVE" <=> \E q \in Prompts : promptOf'[q] = x
    <3>1. CASE x = id
      <4>1. sess'[x].state # "ACTIVE"
        BY <1>3, <1>4, <3>1 DEF Session
      <4>2. \A q \in Prompts : promptOf'[q] # x
        BY <1>2, <1>5, <1>6, <3>1
      <4> QED BY <4>1, <4>2
    <3>2. CASE x # id
      <4>1. x \in live /\ x \in Ids /\ sess'[x] = sess[x]
        BY <1>1, <1>4, <3>2 DEF TypeOK
      <4>2. \A q \in Prompts : promptOf'[q] = x <=> promptOf[q] = x
        BY <1>5, <3>2, <4>1
      <4> QED BY <4>1, <4>2 DEF OnePromptPerSession
    <3> QED BY <3>1, <3>2
  <2>2. ASSUME NEW q \in Prompts, NEW r \in Prompts,
               promptOf'[q] # None, promptOf'[q] = promptOf'[r]
        PROVE  q = r
    BY <1>5, <2>2 DEF OnePromptPerSession
  <2>3. ASSUME NEW q \in Prompts, promptOf'[q] # None
        PROVE  sess'[promptOf'[q]].state # "UNBORN"
    BY <1>4, <1>5, <1>6, <2>3 DEF OnePromptPerSession, TypeOK
  <2> QED BY <2>1, <2>2, <2>3 DEF OnePromptPerSession
<1>12. HistoryIsWhatWasAsked'
  <2> SUFFICES ASSUME NEW q \in Prompts, promptOf'[q] \in live'
               PROVE  sess'[promptOf'[q]].history = asked'[q]
    BY DEF HistoryIsWhatWasAsked
  <2>1. q # p /\ promptOf[q] # id /\ promptOf'[q] = promptOf[q]
    BY <1>1, <1>5, <1>6 DEF TypeOK
  <2>2. promptOf[q] \in live /\ promptOf[q] \in Ids
    BY <1>1, <2>1 DEF TypeOK
  <2> QED BY <1>4, <1>5, <2>1, <2>2 DEF HistoryIsWhatWasAsked
<1>13. CancelReachesOwnGeneration'
  <2> SUFFICES ASSUME NEW x \in live, sess'[x].genCancel # None
               PROVE  promptOf'[sess'[x].genCancel] = x
    BY <1>1 DEF CancelReachesOwnGeneration
  <2>1. x # id
    BY <1>3, <1>4 DEF Session
  <2>2. sess'[x] = sess[x] /\ x \in Ids
    BY <1>4, <2>1 DEF TypeOK
  <2>3. promptOf[sess[x].genCancel] = x /\ sess[x].genCancel \in Prompts \ {p}
    BY <2>1, <2>2, SessionFields DEF CancelReachesOwnGeneration, TypeOK
  <2> QED BY <1>5, <2>2, <2>3
<1>14. RepliesFollowQuestions'
  <2> DEFINE Shaped(s) ==
        /\ \A i \in 1..Len(s.history) : s.history[i].role = "assistant" =>
             i > 1 /\ s.history[i-1].role = "user"
        /\ s.state = "ACTIVE" => EndsWithQuestion(s.history)
  <2>1. \A x \in live : Shaped(sess[x])
    BY DEF RepliesFollowQuestions
  <2>2. Shaped(sess'[id])
    <3> DEFINE h == sess[id].history
               g == sess'[id].history
    <3>1. /\ sess'[id].state = "APPROVED"
          /\ g = IF text = None THEN h ELSE Append(h, Assistant(text))
      BY <1>3, <1>4 DEF Session
    <3>2. h \in Seq(Message) /\ Shaped(sess[id]) /\ EndsWithQuestion(h)
      BY <1>1, <1>2, <1>6, <2>1
    <3>3. CASE text = None
      BY <3>1, <3>2, <3>3
    <3>4. CASE text # None
      <4>1. /\ Len(g) = Len(h) + 1 /\ Len(h) \in Nat \ {0}
            /\ \A i \in 1..Len(h) : g[i] = h[i]
            /\ h[Len(h)].role = "user"
        BY <3>1, <3>2, <3>4 DEF EndsWithQuestion
      <4>2. \A i \in 1..Len(g) : g[i].role = "assistant" =>
              i > 1 /\ g[i-1].role = "user"
        <5> SUFFICES ASSUME NEW i \in 1..Len(g), g[i].role = "assistant"
                     PROVE  i > 1 /\ g[i-1].role = "user"
          OBVIOUS
        <5> HIDE DEF h, g
        <5>1. CASE i \in 1..Len(h)
          <6>1. i > 1 /\ h[i-1].role = "user"
            BY <3>2, <4>1, <5>1 DEF h
          <6> QED BY <4>1, <5>1, <6>1
        <5>2. CASE i = Len(h) + 1
          BY <4>1, <5>2
        <5> QED BY <4>1, <5>1, <5>2
      <4> QED BY <3>1, <4>2
    <3> QED BY <3>3, <3>4
  <2>3. ASSUME NEW x \in live, x # id
        PROVE  Shaped(sess'[x])
    BY <1>4, <2>1, <2>3 DEF TypeOK
  <2> HIDE DEF Shaped
  <2>4. \A x \in live' : Shaped(sess'[x])
    BY <1>1, <2>2, <2>3
  <2> QED BY <2>4 DEF RepliesFollowQuestions, Shaped
<1> QED BY <1>7, <1>8, <1>9, <1>10, <1>11, <1>12, <1>13, <1>14

LEMMA FailPromptInv ==
  ASSUME Inv, NEW p \in Prompts, FailPrompt(p)
  PROVE  Inv'
<1> USE DEF Inv
<1> DEFINE id == promptOf[p]
<1>1. /\ id \in live
      /\ sess' = [sess EXCEPT ![id] = Failed(sess[id])]
      /\ promptOf' = [promptOf EXCEPT ![p] = None]
      /\ asked' = [asked EXCEPT ![p] = << >>]
      /\ ctx' = [ctx EXCEPT ![p] = "nil"]
      /\ UNCHANGED <<live, byPairCode>>
  BY DEF FailPrompt, Release
<1>2. /\ id \in Ids /\ sess[id] \in SessionType
      /\ sess[id].history \in Seq(Message)
  BY <1>1, SessionFields DEF TypeOK
<1>3. /\ Failed(sess[id]) = Session("APPROVED", sess[id].pairToken,
           sess[id].pairCode, sess[id].pairLeft, IdleTimeout,
           sess[id].controlToken, sess[id].settings,
           IF EndsWithQuestion(sess[id].history) THEN Front(sess[id].history)
           ELSE sess[id].history,
           None)
      /\ Failed(sess[id]) \in SessionType
  BY <1>2, FailedSession
<1>4. /\ sess'[id] = Failed(sess[id])
      /\ \A x \in Ids \ {id} : sess'[x] = sess[x]
  BY <1>1, <1>2 DEF TypeOK
<1>5. /\ promptOf'[p] = None /\ asked'[p] = << >>
      /\ \A q \in Prompts \ {p} : promptOf'[q] = promptOf[q] /\ asked'[q] = asked[q]
  BY <1>1 DEF TypeOK
<1>6. /\ sess[id].state = "ACTIVE"
      /\ \A q \in Prompts \ {p} : promptOf[q] # id
  <2>1. id # None
    BY <1>2
  <2> QED BY <1>1, <2>1 DEF OnePromptPerSession
<1>7. TypeOK'
  BY <1>1, <1>2, <1>3, <1>4, <1>5, <1>6, SMTT(30)
     DEF TypeOK, ContextErrors, Session
<1>8. MapsAgree'
  BY <1>1, <1>2, <1>3, <1>4, <1>5, <1>6
     DEF MapsAgree, LiveStates, Session
<1>9. NothingSurvives'
  BY <1>1, <1>2, <1>3, <1>4, <1>5, <1>6, SMTT(30)
     DEF NothingSurvives, Session
<1>10. ApprovalCarriesCredentials'
  BY <1>1, <1>2, <1>3, <1>4, <1>5, <1>6
     DEF ApprovalCarriesCredentials, Session
<1>11. OnePromptPerSession'
  <2>1. ASSUME NEW x \in live'
        PROVE  sess'[x].state = "ACTIVE" <=> \E q \in Prompts : promptOf'[q] = x
    <3>1. CASE x = id
      <4>1. sess'[x].state # "ACTIVE"
        BY <1>3, <1>4, <3>1 DEF Session
      <4>2. \A q \in Prompts : promptOf'[q] # x
        BY <1>2, <1>5, <1>6, <3>1
      <4> QED BY <4>1, <4>2
    <3>2. CASE x # id
      <4>1. x \in live /\ x \in Ids /\ sess'[x] = sess[x]
        BY <1>1, <1>4, <3>2 DEF TypeOK
      <4>2. \A q \in Prompts : promptOf'[q] = x <=> promptOf[q] = x
        BY <1>5, <3>2, <4>1
      <4> QED BY <4>1, <4>2 DEF OnePromptPerSession
    <3> QED BY <3>1, <3>2
  <2>2. ASSUME NEW q \in Prompts, NEW r \in Prompts,
               promptOf'[q] # None, promptOf'[q] = promptOf'[r]
        PROVE  q = r
    BY <1>5, <2>2 DEF OnePromptPerSession
  <2>3. ASSUME NEW q \in Prompts, promptOf'[q] # None
        PROVE  sess'[promptOf'[q]].state # "UNBORN"
    BY <1>4, <1>5, <1>6, <2>3 DEF OnePromptPerSession, TypeOK
  <2> QED BY <2>1, <2>2, <2>3 DEF OnePromptPerSession
<1>12. HistoryIsWhatWasAsked'
  <2> SUFFICES ASSUME NEW q \in Prompts, promptOf'[q] \in live'
               PROVE  sess'[promptOf'[q]].history = asked'[q]
    BY DEF HistoryIsWhatWasAsked
  <2>1. q # p /\ promptOf[q] # id /\ promptOf'[q] = promptOf[q]
    BY <1>1, <1>5, <1>6 DEF TypeOK
  <2>2. promptOf[q] \in live /\ promptOf[q] \in Ids
    BY <1>1, <2>1 DEF TypeOK
  <2> QED BY <1>4, <1>5, <2>1, <2>2 DEF HistoryIsWhatWasAsked
<1>13. CancelReachesOwnGeneration'
  BY <1>1, <1>2, <1>3, <1>4, <1>5, <1>6
     DEF CancelReachesOwnGeneration, Session, TypeOK, OnePromptPerSession
<1>14. RepliesFollowQuestions'
  <2> DEFINE h == sess[id].history
             g == IF EndsWithQuestion(h) THEN Front(h) ELSE h
  <2>1. sess'[id].history = g /\ sess'[id].state = "APPROVED"
    BY <1>3, <1>4 DEF Session
  <2>2. /\ Len(g) <= Len(h)
        /\ \A i \in 1..Len(g) : g[i] = h[i]
    BY <1>2 DEF Front, EndsWithQuestion
  <2>3. \A i \in 1..Len(h) :
          h[i].role = "assistant" => i > 1 /\ h[i-1].role = "user"
    BY <1>1 DEF RepliesFollowQuestions
  <2>4. g \in Seq(Message)
    BY <1>2 DEF Front, EndsWithQuestion
  <2>5. \A i \in 1..Len(g) :
          g[i].role = "assistant" => i > 1 /\ g[i-1].role = "user"
    <3> HIDE DEF g, h
    <3> QED BY <1>2, <2>2, <2>3, <2>4
  <2> HIDE DEF g
  <2> QED BY <1>1, <1>4, <2>1, <2>5 DEF RepliesFollowQuestions, TypeOK
<1> QED BY <1>7, <1>8, <1>9, <1>10, <1>11, <1>12, <1>13, <1>14

LEMMA CancelGenerationInv ==
  ASSUME Inv, NEW id \in Ids, CancelGeneration(id)
  PROVE  Inv'
<1> USE DEF Inv
<1>1. /\ id \in live /\ sess[id].genCancel # None
      /\ sess' = [sess EXCEPT ![id].genCancel = None]
      /\ ctx' = [ctx EXCEPT ![sess[id].genCancel] =
                   EndedBy("Canceled", ctx[sess[id].genCancel])]
      /\ UNCHANGED <<live, byPairCode, promptOf, asked>>
  BY DEF CancelGeneration
<1>2. sess[id] \in SessionType
  BY DEF TypeOK
<1>3. /\ [sess[id] EXCEPT !.genCancel = None] \in SessionType
      /\ [sess[id] EXCEPT !.genCancel = None] = Session(
           sess[id].state, sess[id].pairToken, sess[id].pairCode,
           sess[id].pairLeft, sess[id].idleLeft, sess[id].controlToken,
           sess[id].settings, sess[id].history, None)
  BY <1>2 DEF SessionType, Session
<1>4. /\ sess'[id] = [sess[id] EXCEPT !.genCancel = None]
      /\ \A x \in Ids \ {id} : sess'[x] = sess[x]
  BY <1>1 DEF TypeOK
<1>5. TypeOK'
  <2>1. sess[id].genCancel \in Prompts
    BY <1>1, <1>2, SessionFields
  <2> QED BY <1>1, <1>3, <2>1 DEF TypeOK, EndedBy, ContextErrors
<1>6. MapsAgree'
  BY <1>1, <1>2, <1>3, <1>4
     DEF MapsAgree, LiveStates, Session
<1>7. NothingSurvives'
  BY <1>1, <1>2, <1>3, <1>4
     DEF NothingSurvives, Session
<1>8. ApprovalCarriesCredentials'
  BY <1>1, <1>2, <1>3, <1>4
     DEF ApprovalCarriesCredentials, Session
<1>9. OnePromptPerSession'
  BY <1>1, <1>2, <1>3, <1>4
     DEF OnePromptPerSession, Session
<1>10. HistoryIsWhatWasAsked'
  BY <1>1, <1>2, <1>3, <1>4
     DEF HistoryIsWhatWasAsked, Session
<1>11. CancelReachesOwnGeneration'
  BY <1>1, <1>2, <1>3, <1>4
     DEF CancelReachesOwnGeneration, Session
<1>12. RepliesFollowQuestions'
  BY <1>1, <1>2, <1>3, <1>4
     DEF RepliesFollowQuestions, EndsWithQuestion, Session
<1> QED BY <1>5, <1>6, <1>7, <1>8, <1>9, <1>10, <1>11, <1>12

LEMMA ReturnToDestroyedInv ==
  ASSUME Inv, NEW p \in Prompts, ReturnToDestroyed(p)
  PROVE  Inv'
<1> USE DEF Inv
<1>1. /\ promptOf[p] \notin live
      /\ promptOf' = [promptOf EXCEPT ![p] = None]
      /\ asked' = [asked EXCEPT ![p] = << >>]
      /\ ctx' = [ctx EXCEPT ![p] = "nil"]
      /\ UNCHANGED <<sess, live, byPairCode>>
  BY DEF ReturnToDestroyed, Release
<1>2. /\ promptOf'[p] = None /\ asked'[p] = << >>
      /\ \A q \in Prompts \ {p} : promptOf'[q] = promptOf[q] /\ asked'[q] = asked[q]
  BY <1>1 DEF TypeOK
<1>3. \A q \in Prompts, id \in live : promptOf'[q] = id <=> promptOf[q] = id
  BY <1>1, <1>2 DEF TypeOK
<1>4. TypeOK'
  BY <1>1 DEF TypeOK, ContextErrors
<1>5. MapsAgree'
  BY <1>1, <1>2, <1>3
     DEF MapsAgree, LiveStates, Session
<1>6. NothingSurvives'
  BY <1>1, <1>2, <1>3
     DEF NothingSurvives, Session
<1>7. ApprovalCarriesCredentials'
  BY <1>1, <1>2, <1>3
     DEF ApprovalCarriesCredentials, Session
<1>8. OnePromptPerSession'
  <2>1. \A id \in live' :
          sess'[id].state = "ACTIVE" <=> \E q \in Prompts : promptOf'[q] = id
    BY <1>1, <1>3 DEF OnePromptPerSession
  <2>2. \A q, r \in Prompts :
          promptOf'[q] # None /\ promptOf'[q] = promptOf'[r] => q = r
    BY <1>2 DEF OnePromptPerSession
  <2>3. \A q \in Prompts :
          promptOf'[q] # None => sess'[promptOf'[q]].state # "UNBORN"
    BY <1>1, <1>2 DEF OnePromptPerSession
  <2> QED BY <2>1, <2>2, <2>3 DEF OnePromptPerSession
<1>9. HistoryIsWhatWasAsked'
  BY <1>1, <1>2 DEF HistoryIsWhatWasAsked, TypeOK
<1>10. CancelReachesOwnGeneration'
  <2> SUFFICES ASSUME NEW id \in live', sess'[id].genCancel # None
               PROVE  promptOf'[sess'[id].genCancel] = id
    BY DEF CancelReachesOwnGeneration
  <2>1. id \in live /\ sess'[id].genCancel = sess[id].genCancel
    BY <1>1
  <2>2. sess[id].genCancel \in Prompts
    BY <2>1, SessionFields DEF TypeOK
  <2>3. promptOf[sess[id].genCancel] = id
    BY <2>1 DEF CancelReachesOwnGeneration
  <2> QED BY <1>3, <2>1, <2>2, <2>3
<1>11. RepliesFollowQuestions'
  BY <1>1, <1>2, <1>3
     DEF RepliesFollowQuestions, EndsWithQuestion, Session
<1> QED BY <1>4, <1>5, <1>6, <1>7, <1>8, <1>9, <1>10, <1>11

LEMMA EndContextInv ==
  ASSUME Inv, NEW p \in Prompts, NEW reason \in ContextErrors,
         EndContext(p, reason)
  PROVE  Inv'
<1> USE DEF Inv
<1>1. /\ ctx' = [ctx EXCEPT ![p] = EndedBy(reason, ctx[p])]
      /\ UNCHANGED <<sess, live, byPairCode, promptOf, asked>>
  BY DEF EndContext
<1>2. TypeOK'
  BY <1>1 DEF TypeOK, EndedBy
<1>3. MapsAgree'
  BY <1>1
     DEF MapsAgree, LiveStates, Session
<1>4. NothingSurvives'
  BY <1>1
     DEF NothingSurvives, Session
<1>5. ApprovalCarriesCredentials'
  BY <1>1
     DEF ApprovalCarriesCredentials, Session
<1>6. OnePromptPerSession'
  BY <1>1
     DEF OnePromptPerSession, Session
<1>7. HistoryIsWhatWasAsked'
  BY <1>1
     DEF HistoryIsWhatWasAsked, Session
<1>8. CancelReachesOwnGeneration'
  BY <1>1
     DEF CancelReachesOwnGeneration, Session
<1>9. RepliesFollowQuestions'
  BY <1>1
     DEF RepliesFollowQuestions, EndsWithQuestion, Session
<1> QED BY <1>2, <1>3, <1>4, <1>5, <1>6, <1>7, <1>8, <1>9

LEMMA DestroyAllInv ==
  ASSUME Inv, NEW S \in SUBSET live, DestroyAll(S)
  PROVE  Inv'
<1> USE DEF Inv
<1>1. /\ live' = live \ S
      /\ byPairCode' = [c \in Codes |->
           IF \E id \in S : sess[id].pairCode = c THEN None ELSE byPairCode[c]]
      /\ ctx' = [p \in Prompts |->
           IF \E id \in S : sess[id].genCancel = p
           THEN EndedBy("Canceled", ctx[p]) ELSE ctx[p]]
      /\ UNCHANGED <<promptOf, asked>>
  BY DEF DestroyAll
<1>2. /\ sess' = [id \in Ids |-> IF id \in S THEN Wiped(sess[id]) ELSE sess[id]]
      /\ \A id \in Ids \ S : sess'[id] = sess[id]
      /\ \A id \in S : id \in Ids /\ sess'[id] = Wiped(sess[id])
  BY DEF DestroyAll, TypeOK
<1>3. \A id \in S : /\ Wiped(sess[id]) \in SessionType
                   /\ Wiped(sess[id]) = Session("DESTROYED", None, None, 0, 0,
                                                 None, NoSettings, << >>, None)
  BY WipedSession DEF TypeOK
<1>4. \A id \in S : /\ sess'[id].state = "DESTROYED"
                   /\ sess'[id] = [NoSession EXCEPT !.state = "DESTROYED"]
  <2>1. PICK t : t = [NoSession EXCEPT !.state = "DESTROYED"]
    OBVIOUS
  <2>2. t = Session("DESTROYED", None, None, 0, 0, None, NoSettings, << >>, None)
    BY <2>1 DEF NoSession, Session
  <2>3. t.state = "DESTROYED"
    BY <2>2 DEF Session
  <2> QED BY <1>2, <1>3, <2>1, <2>2, <2>3
<1>5. \A id \in live' : id \in live /\ id \in Ids \ S /\ sess'[id] = sess[id]
  BY <1>1, <1>2 DEF TypeOK
<1>6. TypeOK'
  <2>1. sess' \in [Ids -> SessionType]
    BY <1>2, <1>3 DEF TypeOK
  <2>2. live' \subseteq Ids /\ byPairCode' \in [Codes -> Ids \cup {None}]
    BY <1>1 DEF TypeOK
  <2>3. ctx' \in [Prompts -> ContextErrors]
    BY <1>1 DEF TypeOK, EndedBy, ContextErrors
  <2> QED BY <1>1, <2>1, <2>2, <2>3 DEF TypeOK
<1>7. MapsAgree'
  <2>1. ASSUME NEW id \in Ids
        PROVE  id \in live' <=> sess'[id].state \in LiveStates
    <3>1. CASE id \in S
      BY <1>1, <1>4, <3>1 DEF LiveStates
    <3>2. CASE id \notin S
      BY <1>1, <1>2, <3>2 DEF MapsAgree
    <3> QED BY <3>1, <3>2
  <2>2. \A id \in live' : sess'[id].pairToken = id
    BY <1>5 DEF MapsAgree
  <2>3. ASSUME NEW c \in Codes, byPairCode'[c] # None
        PROVE  /\ byPairCode'[c] \in live'
               /\ sess'[byPairCode'[c]].pairCode = c
    <3>1. byPairCode'[c] = byPairCode[c] /\ \A id \in S : sess[id].pairCode # c
      BY <1>1, <2>3
    <3>2. byPairCode[c] \in live /\ sess[byPairCode[c]].pairCode = c
      BY <2>3, <3>1 DEF MapsAgree
    <3> QED BY <1>1, <1>5, <3>1, <3>2
  <2> QED BY <2>1, <2>2, <2>3 DEF MapsAgree
<1>8. NothingSurvives'
  <2> SUFFICES ASSUME NEW id \in Ids \ live'
               PROVE  sess'[id] \in
                        {NoSession, [NoSession EXCEPT !.state = "DESTROYED"]}
    BY DEF NothingSurvives
  <2>1. CASE id \in S
    BY <1>4, <2>1
  <2>2. CASE id \notin S
    BY <1>1, <1>2, <2>2 DEF NothingSurvives
  <2> QED BY <2>1, <2>2
<1>9. ApprovalCarriesCredentials'
  BY <1>5 DEF ApprovalCarriesCredentials
<1>10. OnePromptPerSession'
  <2>1. \A id \in live' :
          sess'[id].state = "ACTIVE" <=> \E p \in Prompts : promptOf'[p] = id
    BY <1>1, <1>5 DEF OnePromptPerSession
  <2>2. ASSUME NEW p \in Prompts, promptOf'[p] # None
        PROVE  sess'[promptOf'[p]].state # "UNBORN"
    <3>1. /\ promptOf'[p] = promptOf[p] /\ promptOf[p] \in Ids
          /\ sess[promptOf[p]].state # "UNBORN"
      BY <1>1, <2>2 DEF OnePromptPerSession, TypeOK
    <3>2. CASE promptOf[p] \in S
      BY <1>4, <3>1, <3>2
    <3>3. CASE promptOf[p] \notin S
      BY <1>2, <3>1, <3>3
    <3> QED BY <3>2, <3>3
  <2> QED BY <1>1, <2>1, <2>2 DEF OnePromptPerSession
<1>11. HistoryIsWhatWasAsked'
  BY <1>1, <1>5 DEF HistoryIsWhatWasAsked
<1>12. CancelReachesOwnGeneration'
  BY <1>1, <1>5 DEF CancelReachesOwnGeneration
<1>13. RepliesFollowQuestions'
  BY <1>5 DEF RepliesFollowQuestions
<1> QED BY <1>6, <1>7, <1>8, <1>9, <1>10, <1>11, <1>12, <1>13

LEMMA TickInv ==
  ASSUME Inv, Tick
  PROVE  Inv'
<1> USE DEF Inv
<1>1. /\ sess' = [id \in Ids |->
           IF id \in live
           THEN [sess[id] EXCEPT !.pairLeft = Less(sess[id].pairLeft),
                                 !.idleLeft = Less(sess[id].idleLeft)]
           ELSE sess[id]]
      /\ UNCHANGED <<live, byPairCode, promptOf, asked, ctx>>
  BY DEF Tick
<1>2. \A id \in Ids \ live : sess'[id] = sess[id]
  BY <1>1
<1>3. ASSUME NEW id \in live
      PROVE  /\ sess'[id] \in SessionType
             /\ sess'[id].state = sess[id].state
             /\ sess'[id].pairToken = sess[id].pairToken
             /\ sess'[id].pairCode = sess[id].pairCode
             /\ sess'[id].controlToken = sess[id].controlToken
             /\ sess'[id].settings = sess[id].settings
             /\ sess'[id].history = sess[id].history
             /\ sess'[id].genCancel = sess[id].genCancel
  <2>1. id \in Ids /\ sess[id] \in SessionType
    BY DEF TypeOK
  <2>2. PICK t : t = [sess[id] EXCEPT !.pairLeft = Less(sess[id].pairLeft),
                                      !.idleLeft = Less(sess[id].idleLeft)]
    OBVIOUS
  <2>3. sess'[id] = t
    BY <1>1, <2>1, <2>2
  <2>4. t = Session(
              sess[id].state, sess[id].pairToken, sess[id].pairCode,
              Less(sess[id].pairLeft), Less(sess[id].idleLeft),
              sess[id].controlToken, sess[id].settings, sess[id].history,
              sess[id].genCancel)
    BY <2>1, <2>2 DEF SessionType, Session
  <2>5. /\ Less(sess[id].pairLeft) \in -1..PairTimeout
        /\ Less(sess[id].idleLeft) \in -1..IdleTimeout
    <3>1. /\ sess[id].pairLeft \in -1..PairTimeout
          /\ sess[id].idleLeft \in -1..IdleTimeout
      BY <2>1, SessionFields, Zenon
    <3>2. PairTimeout \in Nat /\ IdleTimeout \in Nat
      BY TimeoutsArePositive
    <3> QED BY <3>1, <3>2, LessStays, Zenon
  <2>6. t \in SessionType
    BY <2>1, <2>4, <2>5, SessionFields, SessionHasType, ZenonT(30)
  <2> QED BY <2>3, <2>4, <2>6 DEF Session
<1>4. \A id \in Ids : sess'[id].state = sess[id].state
  BY <1>2, <1>3
<1>5. /\ live' = live /\ byPairCode' = byPairCode /\ promptOf' = promptOf
      /\ asked' = asked /\ ctx' = ctx
  BY <1>1, ZenonT(30)
<1>6. TypeOK'
  BY <1>1, <1>2, <1>3 DEF TypeOK
<1>7. MapsAgree'
  BY <1>5, <1>3, <1>4, ZenonT(30) DEF MapsAgree, TypeOK
<1>8. NothingSurvives'
  BY <1>5, <1>2 DEF NothingSurvives
<1>9. ApprovalCarriesCredentials'
  BY <1>5, <1>3 DEF ApprovalCarriesCredentials
<1>10. OnePromptPerSession'
  <2>1. \A id \in live' :
          sess'[id].state = "ACTIVE" <=> \E p \in Prompts : promptOf'[p] = id
    BY <1>3, <1>5 DEF OnePromptPerSession
  <2>2. \A p \in Prompts :
          promptOf'[p] # None => sess'[promptOf'[p]].state # "UNBORN"
    BY <1>4, <1>5 DEF OnePromptPerSession, TypeOK
  <2> QED BY <1>5, <2>1, <2>2 DEF OnePromptPerSession
<1>11. HistoryIsWhatWasAsked'
  BY <1>5, <1>3 DEF HistoryIsWhatWasAsked
<1>12. CancelReachesOwnGeneration'
  BY <1>5, <1>3 DEF CancelReachesOwnGeneration
<1>13. RepliesFollowQuestions'
  BY <1>5, <1>3 DEF RepliesFollowQuestions
<1> QED BY <1>6, <1>7, <1>8, <1>9, <1>10, <1>11, <1>12, <1>13

LEMMA StutterInv ==
  ASSUME Inv, UNCHANGED mvars
  PROVE  Inv'
BY DEF Inv, mvars, TypeOK, MapsAgree, NothingSurvives,
       ApprovalCarriesCredentials, OnePromptPerSession, HistoryIsWhatWasAsked,
       CancelReachesOwnGeneration, RepliesFollowQuestions

\* Every operation of the manager keeps the invariant.
LEMMA NextInv == Inv /\ [MNext]_mvars => Inv'
<1> SUFFICES ASSUME Inv, [MNext]_mvars PROVE Inv'
  OBVIOUS
<1> live \subseteq Ids /\ byPairCode \in [Codes -> Ids \cup {None}]
  BY DEF Inv, TypeOK
<1>1. ASSUME NEW id \in Ids, NEW c \in Codes, Create(id, c) PROVE Inv'
  BY <1>1, CreateInv
<1>2. ASSUME NEW id \in Ids, NEW s \in SettingsInputs,
             ApproveByTokenWithSettings(id, s)
      PROVE  Inv'
  BY <1>2, ApproveInv, SettingsAreSettings DEF ApproveByTokenWithSettings
<1>3. ASSUME NEW c \in Codes, NEW s \in SettingsInputs,
             ApproveByCodeWithSettings(c, s)
      PROVE  Inv'
  <2>1. byPairCode[c] \in live
    BY <1>3 DEF ApproveByCodeWithSettings, Inv, MapsAgree
  <2> QED BY <1>3, <2>1, ApproveInv, SettingsAreSettings
          DEF ApproveByCodeWithSettings
<1>4. ASSUME NEW id \in Ids, NEW token \in Ids, EndByControlToken(id, token)
      PROVE  Inv'
  BY <1>4, DestroyAllInv DEF EndByControlToken
<1>5. ASSUME NEW p \in Prompts, NEW id \in Ids, NEW c \in Contents,
             PreparePrompt(p, id, c)
      PROVE  Inv'
  BY <1>5, PreparePromptInv
<1>6. ASSUME NEW p \in Prompts, SetGenCancel(p) PROVE Inv'
  BY <1>6, SetGenCancelInv
<1>7. ASSUME NEW p \in Prompts, NEW text \in Replies \cup {None},
             FinishPrompt(p, text)
      PROVE  Inv'
  BY <1>7, FinishPromptInv
<1>8. ASSUME NEW p \in Prompts, FailPrompt(p) PROVE Inv'
  BY <1>8, FailPromptInv
<1>9. ASSUME NEW p \in Prompts, ReturnToDestroyed(p) PROVE Inv'
  BY <1>9, ReturnToDestroyedInv
<1>10. ASSUME NEW id \in Ids, CancelGeneration(id) PROVE Inv'
  BY <1>10, CancelGenerationInv
<1>11. ASSUME NEW id \in Ids, Destroy(id) PROVE Inv'
  BY <1>11, DestroyAllInv DEF Destroy
<1>12. CASE Sweep
  <2> DEFINE S == {id \in live : Expired(sess[id])}
  <2>1. S \in SUBSET live /\ DestroyAll(S)
    BY <1>12 DEF Sweep
  <2> HIDE DEF S
  <2> QED BY <2>1, DestroyAllInv
<1>13. ASSUME NEW p \in Prompts, NEW r \in ContextErrors \ {"nil"},
              EndContext(p, r)
       PROVE  Inv'
  BY <1>13, EndContextInv
<1>14. CASE Tick
  BY <1>14, TickInv
<1>15. CASE UNCHANGED mvars
  BY <1>15, StutterInv
<1> QED BY <1>1, <1>2, <1>3, <1>4, <1>5, <1>6, <1>7, <1>8, <1>9, <1>10,
           <1>11, <1>12, <1>13, <1>14, <1>15 DEF MNext

-----------------------------------------------------------------------------
(* The theorems *)

\* All the invariants hold together in every reachable state.
THEOREM Invariance == MSpec => []Inv
<1> QED BY InitInv, NextInv, PTL DEF MSpec

\* The variables keep their types (Session, Manager).
THEOREM TypeCorrectness == MSpec => []TypeOK
<1>1. Inv => TypeOK
  BY DEF Inv
<1> QED BY <1>1, Invariance, PTL

\* m.sessions, m.byPairCode and the objects agree: a pairing code never leads
\* to a destroyed session, so approve cannot bring one back.
THEOREM MapsAlwaysAgree == MSpec => []MapsAgree
<1>1. Inv => MapsAgree
  BY DEF Inv
<1> QED BY <1>1, Invariance, PTL

\* destroyLocked releases everything, whatever the session was doing.
THEOREM NothingEverSurvives == MSpec => []NothingSurvives
<1>1. Inv => NothingSurvives
  BY DEF Inv
<1> QED BY <1>1, Invariance, PTL

\* The control token and valid settings are there from approval to the end.
THEOREM ApprovalAlwaysCarriesCredentials == MSpec => []ApprovalCarriesCredentials
<1>1. Inv => ApprovalCarriesCredentials
  BY DEF Inv
<1> QED BY <1>1, Invariance, PTL

\* However many handlers call PreparePrompt, one at a time runs a prompt of a
\* session, and the session is ACTIVE exactly then.
THEOREM PromptsExcludeEachOther == MSpec => []OnePromptPerSession
<1>1. Inv => OnePromptPerSession
  BY DEF Inv
<1> QED BY <1>1, Invariance, PTL

\* The copy of the history PreparePrompt returns stays the session's history
\* until its handler reports back.
THEOREM SnapshotsStayCurrent == MSpec => []HistoryIsWhatWasAsked
<1>1. Inv => HistoryIsWhatWasAsked
  BY DEF Inv
<1> QED BY <1>1, Invariance, PTL

\* genCancel is the cancel function of the running generation or nil.
THEOREM CancelIsNeverStale == MSpec => []CancelReachesOwnGeneration
<1>1. Inv => CancelReachesOwnGeneration
  BY DEF Inv
<1> QED BY <1>1, Invariance, PTL

\* No reply without its question, and FailPrompt always finds the question it
\* takes back.
THEOREM RepliesAlwaysFollowQuestions == MSpec => []RepliesFollowQuestions
<1>1. Inv => RepliesFollowQuestions
  BY DEF Inv
<1> QED BY <1>1, Invariance, PTL

\* A step in which a session disappears.
EndsGeneration ==
  \A id \in Ids, p \in Prompts :
    id \in live \ live' /\ sess[id].genCancel = p => ctx'[p] # "nil"

LEMMA DestroyAllEndsGeneration ==
  ASSUME NEW S, DestroyAll(S)
  PROVE  EndsGeneration
BY DEF DestroyAll, EndsGeneration, EndedBy

\* destroyLocked ends the generation registered with the session, and no other
\* operation removes a session.
THEOREM DestructionEndsGeneration == MSpec => DestroyEndsGeneration
<1>1. [MNext]_mvars => [EndsGeneration]_mvars
  <2> SUFFICES ASSUME MNext PROVE EndsGeneration
    OBVIOUS
  <2>1. CASE live \subseteq live'
    BY <2>1 DEF EndsGeneration
  <2>2. CASE ~(live \subseteq live')
    <3>1. PICK S : DestroyAll(S)
      BY <2>2
         DEF MNext, Create, ApproveByTokenWithSettings, approve,
             ApproveByCodeWithSettings, EndByControlToken, PreparePrompt,
             SetGenCancel, FinishPrompt, FailPrompt, ReturnToDestroyed,
             CancelGeneration, Destroy, Sweep, EndContext, Tick
    <3> QED BY <3>1, DestroyAllEndsGeneration, ZenonT(30)
  <2> QED BY <2>1, <2>2
<1>2. MSpec => [][EndsGeneration]_mvars
  BY <1>1, PTL DEF MSpec
<1> QED BY <1>2 DEF DestroyEndsGeneration, EndsGeneration

\* A session one handler changes to s: approval is kept when s keeps it.
LEMMA OneChangeKeepsApproval ==
  ASSUME Inv, NEW id \in Ids, NEW s,
         sess' = [sess EXCEPT ![id] = s], live' = live,
         sess[id].state \notin {"UNBORN", "WAITING"} =>
           /\ s.state \notin {"UNBORN", "WAITING"}
           /\ s.settings = sess[id].settings
           /\ s.controlToken = sess[id].controlToken
  PROVE  KeepsApproval
<1>1. sess'[id] = s /\ \A x \in Ids \ {id} : sess'[x] = sess[x]
  BY DEF Inv, TypeOK
<1> QED BY <1>1 DEF KeepsApproval

LEMMA DestroyAllKeepsApproval ==
  ASSUME Inv, NEW S \in SUBSET live, DestroyAll(S)
  PROVE  KeepsApproval
<1>1. ASSUME NEW id \in S
      PROVE  id \in Ids /\ sess'[id].state = "DESTROYED" /\ id \notin live'
  <2>1. id \in Ids /\ sess'[id] = Wiped(sess[id]) /\ sess[id] \in SessionType
    BY DEF DestroyAll, Inv, TypeOK
  <2> QED BY <2>1, WipedSession DEF Session, DestroyAll
<1>2. ASSUME NEW id \in Ids \ S
      PROVE  sess'[id] = sess[id] /\ (id \in live' => id \in live)
  BY DEF DestroyAll
<1> SUFFICES ASSUME NEW id \in Ids, sess[id].state \notin {"UNBORN", "WAITING"}
             PROVE  /\ sess'[id].state \notin {"UNBORN", "WAITING"}
                    /\ id \in live' =>
                         /\ id \in live
                         /\ sess'[id].settings = sess[id].settings
                         /\ sess'[id].controlToken = sess[id].controlToken
  BY DEF KeepsApproval
<1>3. CASE id \in S
  BY <1>1, <1>3
<1>4. CASE id \notin S
  BY <1>2, <1>4
<1> QED BY <1>3, <1>4

LEMMA TickKeepsApproval ==
  ASSUME Inv, Tick
  PROVE  KeepsApproval
<1> SUFFICES ASSUME NEW id \in Ids
             PROVE  /\ sess'[id].state = sess[id].state
                    /\ sess'[id].settings = sess[id].settings
                    /\ sess'[id].controlToken = sess[id].controlToken
  BY DEF KeepsApproval, Tick
<1>1. sess[id] \in SessionType
  BY DEF Inv, TypeOK
<1>2. PICK t : t = [sess[id] EXCEPT !.pairLeft = Less(sess[id].pairLeft),
                                    !.idleLeft = Less(sess[id].idleLeft)]
  OBVIOUS
<1>3. t.state = sess[id].state /\ t.settings = sess[id].settings
      /\ t.controlToken = sess[id].controlToken
  BY <1>1, <1>2 DEF SessionType
<1>4. sess'[id] = IF id \in live THEN t ELSE sess[id]
  BY <1>2 DEF Tick
<1> QED BY <1>3, <1>4

\* No operation of the manager takes an approval back or changes it.
LEMMA StepKeepsApproval == Inv /\ [MNext]_mvars => KeepsApproval
<1> SUFFICES ASSUME Inv, [MNext]_mvars PROVE KeepsApproval
  OBVIOUS
<1> USE DEF Inv
<1>0. /\ \A id \in Ids : sess[id] \in SessionType
      /\ live \subseteq Ids
  BY DEF TypeOK
<1>1. ASSUME NEW id \in Ids, NEW c \in Codes, Create(id, c)
      PROVE  KeepsApproval
  <2>1. \A x \in Ids \ {id} : sess'[x] = sess[x]
    BY <1>1 DEF Create, TypeOK
  <2> QED BY <1>1, <2>1 DEF Create, KeepsApproval
<1>2. ASSUME NEW id \in live, NEW s \in SettingsInputs, approve(id, s)
      PROVE  KeepsApproval
  BY <1>0, <1>2, OneChangeKeepsApproval DEF approve, Approvable
<1>3. ASSUME NEW c \in Codes, NEW s \in SettingsInputs,
             ApproveByCodeWithSettings(c, s)
      PROVE  KeepsApproval
  <2>1. byPairCode[c] \in live
    BY <1>3 DEF ApproveByCodeWithSettings, MapsAgree
  <2> QED BY <1>2, <1>3, <2>1 DEF ApproveByCodeWithSettings
<1>4. ASSUME NEW p \in Prompts, NEW id \in Ids, NEW c \in Contents,
             PreparePrompt(p, id, c)
      PROVE  KeepsApproval
  <2>1. /\ Asked(sess[id], c).state = "ACTIVE"
        /\ Asked(sess[id], c).settings = sess[id].settings
        /\ Asked(sess[id], c).controlToken = sess[id].controlToken
    BY <1>0, AskedSession DEF Session
  <2> QED BY <1>4, <2>1, OneChangeKeepsApproval DEF PreparePrompt
<1>5. ASSUME NEW p \in Prompts, SetGenCancel(p)
      PROVE  KeepsApproval
  <2>1. sess' = [sess EXCEPT ![promptOf[p]] = [sess[promptOf[p]] EXCEPT !.genCancel = p]]
    BY <1>5 DEF SetGenCancel
  <2>2. promptOf[p] \in Ids /\ live' = live
    BY <1>0, <1>5 DEF SetGenCancel
  <2>3. PICK t : t = [sess[promptOf[p]] EXCEPT !.genCancel = p]
    OBVIOUS
  <2>4. t.state = sess[promptOf[p]].state /\ t.settings = sess[promptOf[p]].settings
        /\ t.controlToken = sess[promptOf[p]].controlToken
    BY <1>0, <2>2, <2>3 DEF SessionType
  <2> QED BY <2>1, <2>2, <2>3, <2>4, OneChangeKeepsApproval
<1>6. ASSUME NEW p \in Prompts, NEW text \in Replies \cup {None},
             FinishPrompt(p, text)
      PROVE  KeepsApproval
  <2>1. promptOf[p] \in Ids
    BY <1>0, <1>6 DEF FinishPrompt
  <2> DEFINE s == sess[promptOf[p]]
  <2>2. Finished(s, text) = Session(
          "APPROVED", s.pairToken, s.pairCode, s.pairLeft, IdleTimeout,
          s.controlToken, s.settings,
          IF text = None THEN s.history ELSE Append(s.history, Assistant(text)),
          None)
    BY <1>0, <2>1, FinishedSession
  <2>3. /\ Finished(s, text).state = "APPROVED"
        /\ Finished(s, text).settings = s.settings
        /\ Finished(s, text).controlToken = s.controlToken
    BY <2>2 DEF Session
  <2> QED BY <1>6, <2>1, <2>3, OneChangeKeepsApproval DEF FinishPrompt
<1>7. ASSUME NEW p \in Prompts, FailPrompt(p)
      PROVE  KeepsApproval
  <2>1. promptOf[p] \in Ids
    BY <1>0, <1>7 DEF FailPrompt
  <2>2. LET s == sess[promptOf[p]]
        IN  /\ Failed(s).state = "APPROVED"
            /\ Failed(s).settings = s.settings
            /\ Failed(s).controlToken = s.controlToken
    BY <1>0, <2>1, FailedSession DEF Session
  <2> QED BY <1>7, <2>1, <2>2, OneChangeKeepsApproval DEF FailPrompt
<1>8. ASSUME NEW id \in Ids, CancelGeneration(id)
      PROVE  KeepsApproval
  <2>1. /\ sess' = [sess EXCEPT ![id] = [sess[id] EXCEPT !.genCancel = None]]
        /\ live' = live
    BY <1>8 DEF CancelGeneration
  <2>2. PICK t : t = [sess[id] EXCEPT !.genCancel = None]
    OBVIOUS
  <2>3. t.state = sess[id].state /\ t.settings = sess[id].settings
        /\ t.controlToken = sess[id].controlToken
    BY <1>0, <2>2 DEF SessionType
  <2> QED BY <2>1, <2>2, <2>3, OneChangeKeepsApproval
<1>9. CASE Sweep
  <2> DEFINE S == {id \in live : Expired(sess[id])}
  <2>1. S \in SUBSET live /\ DestroyAll(S)
    BY <1>9 DEF Sweep
  <2> HIDE DEF S
  <2> QED BY <2>1, DestroyAllKeepsApproval
<1>10. ASSUME NEW id \in live, DestroyAll({id})
       PROVE  KeepsApproval
  BY <1>10, DestroyAllKeepsApproval
<1>11. CASE sess' = sess /\ live' = live
  BY <1>11 DEF KeepsApproval
<1>12. CASE Tick
  BY <1>12, TickKeepsApproval
<1> QED BY <1>1, <1>2, <1>3, <1>4, <1>5, <1>6, <1>7, <1>8, <1>9, <1>10,
           <1>11, <1>12
        DEF MNext, mvars, ApproveByTokenWithSettings, EndByControlToken, Destroy,
            ReturnToDestroyed, EndContext

\* Approval is final: settings and control token of a session never change
\* once it is approved, and it is never waiting again.
THEOREM ApprovalNeverChanges == MSpec => ApprovalIsFinal
<1> QED BY Invariance, StepKeepsApproval, PTL DEF MSpec, ApprovalIsFinal

-----------------------------------------------------------------------------
(* The end of the process, for the modules in which the gateway may die *)

LEMMA ManagerDiesFacts ==
  ASSUME Inv, ManagerDies
  PROVE  \A id \in Ids :
           /\ sess[id].state = "UNBORN" => id \notin live /\ sess'[id] = NoSession
           /\ sess[id].state # "UNBORN" =>
                /\ sess'[id] = Session("DESTROYED", None, None, 0, 0, None,
                                       NoSettings, << >>, None)
                /\ sess'[id] = [NoSession EXCEPT !.state = "DESTROYED"]
                /\ sess'[id] \in SessionType
<1> SUFFICES ASSUME NEW id \in Ids
             PROVE  /\ sess[id].state = "UNBORN" =>
                         id \notin live /\ sess'[id] = NoSession
                    /\ sess[id].state # "UNBORN" =>
                         /\ sess'[id] = Session("DESTROYED", None, None, 0, 0,
                                                None, NoSettings, << >>, None)
                         /\ sess'[id] = [NoSession EXCEPT !.state = "DESTROYED"]
                         /\ sess'[id] \in SessionType
  OBVIOUS
<1>1. sess[id] \in SessionType
  BY DEF Inv, TypeOK
<1>2. CASE sess[id].state = "UNBORN"
  BY <1>2 DEF ManagerDies, Inv, MapsAgree, LiveStates
<1>3. CASE sess[id].state # "UNBORN"
  <2>1. sess'[id] = Wiped(sess[id])
    BY <1>3 DEF ManagerDies
  <2>2. PICK t : t = [NoSession EXCEPT !.state = "DESTROYED"]
    OBVIOUS
  <2>3. t = Session("DESTROYED", None, None, 0, 0, None, NoSettings, << >>, None)
    BY <2>2 DEF NoSession, Session
  <2> QED BY <1>1, <1>3, <2>1, <2>2, <2>3, WipedSession
<1> QED BY <1>2, <1>3

LEMMA ManagerDiesInv ==
  ASSUME Inv, ManagerDies
  PROVE  Inv'
<1>1. /\ live' = {}
      /\ \A c \in Codes : byPairCode'[c] = None
      /\ \A p \in Prompts : promptOf'[p] = None /\ asked'[p] = << >>
  BY DEF ManagerDies
<1>2. \A id \in Ids :
        sess'[id] \in {NoSession, [NoSession EXCEPT !.state = "DESTROYED"]}
  BY ManagerDiesFacts
<1>3. \A id \in Ids :
        sess'[id] \in SessionType /\ sess'[id].state \notin LiveStates
  <2>1. NoSession \in SessionType /\ NoSession.state = "UNBORN"
    BY NoSettingsType, ConstantFields, SessionHasType
       DEF NoSession, Session, LiveStates
  <2> QED BY <2>1, ManagerDiesFacts DEF Session, LiveStates
<1>4. TypeOK'
  <2>1. sess' \in [Ids -> SessionType]
    BY <1>3 DEF ManagerDies
  <2> QED BY <2>1 DEF ManagerDies, TypeOK, ContextErrors
<1>5. MapsAgree' /\ NothingSurvives' /\ ApprovalCarriesCredentials'
  BY <1>1, <1>2, <1>3
     DEF MapsAgree, NothingSurvives, ApprovalCarriesCredentials
<1>6. OnePromptPerSession' /\ HistoryIsWhatWasAsked'
      /\ CancelReachesOwnGeneration' /\ RepliesFollowQuestions'
  <2>1. None \notin live'
    BY <1>1
  <2> QED BY <1>1, <2>1
          DEF OnePromptPerSession, HistoryIsWhatWasAsked,
              CancelReachesOwnGeneration, RepliesFollowQuestions
<1> QED BY <1>4, <1>5, <1>6 DEF Inv

LEMMA ManagerDiesKeepsApproval ==
  ASSUME Inv, ManagerDies
  PROVE  KeepsApproval
<1>1. live' = {}
  BY DEF ManagerDies
<1>2. \A id \in Ids : sess[id].state # "UNBORN" => sess'[id].state = "DESTROYED"
  BY ManagerDiesFacts DEF Session
<1> QED BY <1>1, <1>2 DEF KeepsApproval

=============================================================================
