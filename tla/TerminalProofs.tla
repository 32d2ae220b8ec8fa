--------------------------- MODULE TerminalProofs ---------------------------
(***************************************************************************)
(* The terminal client over the gateway, for every value of the constants:   *)
(* what it shows and believes of its session is true, whatever is lost,      *)
(* whenever the gateway dies and whatever the controller does meanwhile.     *)
(***************************************************************************)
EXTENDS Terminal, GatewayProofs

USE NoneIsNoValue

-----------------------------------------------------------------------------
(* The inductive invariant *)

\* The variables of the terminal have their types.
TerminalTyped ==
  /\ main \in MainPoints /\ watcher \in WatcherPoints
  /\ sid \in Ids \cup {None} /\ prompt \in Prompts \cup {None}
  /\ seen \in LiveStates \cup {"error"}
  /\ shown \in {None} \cup {SettingsLine(s) : s \in GenerationSettingsType}
  /\ waitLeft \in -1..PairTimeout
  /\ event \in {None, "answer", "broken"}
  /\ {aborted, sig, streaming, cancelled, quit} \subseteq BOOLEAN

\* main has what it needs where it is: a session the gateway made, a handler
\* while it reads an answer, and no event of an earlier prompt.
HasWhatItNeeds ==
  /\ sid # None => sess[sid].state # "UNBORN"
  /\ main \notin {"creating", "done"} => sid # None
  /\ prompt \in Prompts <=> main = "streaming"
  /\ event # None => main = "streaming"

ChatPoints ==
  {"selecting", "resetting", "starting", "posting", "streaming", "ended"}

\* Once the terminal was told that its session is approved, it was.
ToldTheTruth ==
  main \in ChatPoints \/ (main \in {"status", "polled"} /\ seen = "APPROVED")
    => sess[sid].state \notin {"UNBORN", "WAITING"}

\* The line made of the reply that said so is that of the session's settings.
LineIsCurrent ==
  /\ main \in ChatPoints \/ (main = "polled" /\ seen = "APPROVED")
  /\ sid \in live
  => shown = SettingsLine(sess[sid].settings)

\* The gateway runs no prompt of the session but the one the terminal reads, or
\* one whose connection was given up or lost.
OnlyOwnPrompt ==
  \A p \in Prompts :
    sid # None /\ promptOf[p] = sid =>
      IF main = "streaming" THEN p = prompt /\ event \in {None, "broken"}
      ELSE aborted

\* Of a pairing that is still possible, the gateway has at most a fraction of a
\* second more left than the terminal.
Fraction == PairTimeout - ExpiresIn * Second

PairingRunsOut ==
  sid \in live /\ sess[sid].state = "WAITING" =>
    /\ main \in {"waiting", "status", "polled"} =>
         sess[sid].pairLeft <= waitLeft + Fraction
    /\ main = "expired" => sess[sid].pairLeft < Second - 1

TInv ==
  /\ GInv
  /\ TerminalTyped
  /\ HasWhatItNeeds
  /\ ToldTheTruth
  /\ LineIsCurrent
  /\ OnlyOwnPrompt
  /\ PairingRunsOut

-----------------------------------------------------------------------------
(* What the gateway does to the session the terminal has *)

\* No session is unborn again, and one that waits was waiting with no less time
\* left.
PairingAges ==
  \A id \in Ids : sess[id].state # "UNBORN" =>
    /\ sess'[id].state # "UNBORN"
    /\ sess'[id].state = "WAITING" =>
         /\ sess[id].state = "WAITING"
         /\ sess'[id].pairLeft <= sess[id].pairLeft

LEMMA UnchangedAges ==
  ASSUME Inv, sess' = sess
  PROVE  PairingAges
<1> SUFFICES ASSUME NEW id \in Ids PROVE sess[id].pairLeft <= sess[id].pairLeft
  BY DEF PairingAges
<1>1. sess[id].pairLeft \in Int
  BY TimeoutsArePositive, SessionFields DEF Inv, TypeOK
<1> QED BY <1>1

\* One session changes to s.
LEMMA OneChangeAges ==
  ASSUME Inv, NEW id \in Ids, NEW s, sess' = [sess EXCEPT ![id] = s],
         sess[id].state # "UNBORN" =>
           /\ s.state # "UNBORN"
           /\ s.state = "WAITING" =>
                sess[id].state = "WAITING" /\ s.pairLeft = sess[id].pairLeft
  PROVE  PairingAges
<1>1. sess'[id] = s /\ \A x \in Ids \ {id} : sess'[x] = sess[x]
  BY DEF Inv, TypeOK
<1>2. \A x \in Ids : sess[x].pairLeft \in Int
  BY TimeoutsArePositive, SessionFields DEF Inv, TypeOK
<1> SUFFICES ASSUME NEW x \in Ids, sess[x].state # "UNBORN"
             PROVE  /\ sess'[x].state # "UNBORN"
                    /\ sess'[x].state = "WAITING" =>
                         /\ sess[x].state = "WAITING"
                         /\ sess'[x].pairLeft <= sess[x].pairLeft
  BY DEF PairingAges
<1>3. CASE x = id
  BY <1>1, <1>2, <1>3
<1>4. CASE x # id
  BY <1>1, <1>2, <1>4
<1> QED BY <1>3, <1>4

LEMMA DestroyAllAges ==
  ASSUME Inv, NEW S \in SUBSET live, DestroyAll(S)
  PROVE  PairingAges
<1>1. ASSUME NEW id \in S
      PROVE  id \in Ids /\ sess'[id].state = "DESTROYED"
  <2>1. id \in Ids /\ sess'[id] = Wiped(sess[id]) /\ sess[id] \in SessionType
    BY DEF DestroyAll, Inv, TypeOK
  <2> QED BY <2>1, WipedSession DEF Session
<1>2. \A id \in Ids \ S : sess'[id] = sess[id]
  BY DEF DestroyAll
<1>3. \A id \in Ids : sess[id].pairLeft \in Int
  BY TimeoutsArePositive, SessionFields DEF Inv, TypeOK
<1> SUFFICES ASSUME NEW id \in Ids, sess[id].state # "UNBORN"
             PROVE  /\ sess'[id].state # "UNBORN"
                    /\ sess'[id].state = "WAITING" =>
                         /\ sess[id].state = "WAITING"
                         /\ sess'[id].pairLeft <= sess[id].pairLeft
  BY DEF PairingAges
<1>4. CASE id \in S
  BY <1>1, <1>4
<1>5. CASE id \notin S
  BY <1>2, <1>3, <1>5
<1> QED BY <1>4, <1>5

\* The clock takes one tick from every session in the map.
LEMMA TickFacts ==
  ASSUME Inv, Tick, NEW id \in Ids
  PROVE  /\ sess[id].pairLeft \in -1..PairTimeout
         /\ sess'[id].state = sess[id].state
         /\ sess'[id].settings = sess[id].settings
         /\ sess'[id].pairLeft = IF id \in live THEN Less(sess[id].pairLeft)
                                 ELSE sess[id].pairLeft
<1>1. sess[id] \in SessionType
  BY DEF Inv, TypeOK
<1>2. PICK t : t = [sess[id] EXCEPT !.pairLeft = Less(sess[id].pairLeft),
                                    !.idleLeft = Less(sess[id].idleLeft)]
  OBVIOUS
<1>3. t.state = sess[id].state /\ t.settings = sess[id].settings
      /\ t.pairLeft = Less(sess[id].pairLeft)
  BY <1>1, <1>2 DEF SessionType
<1>4. sess'[id] = IF id \in live THEN t ELSE sess[id]
  BY <1>2 DEF Tick
<1> QED BY <1>1, <1>3, <1>4, SessionFields

LEMMA TickAges ==
  ASSUME Inv, Tick
  PROVE  PairingAges
<1> SUFFICES ASSUME NEW id \in Ids
             PROVE  /\ sess'[id].state = sess[id].state
                    /\ sess'[id].pairLeft <= sess[id].pairLeft
  BY DEF PairingAges
<1> QED BY TickFacts, TimeoutsArePositive DEF Less

LEMMA ManagerDiesAges ==
  ASSUME Inv, ManagerDies
  PROVE  PairingAges
<1>1. \A id \in Ids : sess[id].state # "UNBORN" => sess'[id].state = "DESTROYED"
  BY ManagerDiesFacts DEF Session
<1> QED BY <1>1 DEF PairingAges

LEMMA StepAges == Inv /\ [MNext]_mvars => PairingAges
<1> SUFFICES ASSUME Inv, [MNext]_mvars PROVE PairingAges
  OBVIOUS
<1>0. /\ \A id \in Ids : sess[id] \in SessionType
      /\ live \subseteq Ids
  BY DEF Inv, TypeOK
<1>1. ASSUME NEW id \in Ids, NEW c \in Codes, Create(id, c)
      PROVE  PairingAges
  BY <1>1, OneChangeAges DEF Create
<1>2. ASSUME NEW id \in live, NEW s \in SettingsInputs, approve(id, s)
      PROVE  PairingAges
  <2>1. /\ sess' = [sess EXCEPT ![id] = Approved(sess[id], id, s)]
        /\ id \in Ids /\ s \in GenerationSettingsType
    BY <1>0, <1>2, SettingsAreSettings DEF approve
  <2>2. Approved(sess[id], id, s).state = "APPROVED"
    BY <1>0, <2>1, ApprovedSession DEF Session
  <2> QED BY <2>1, <2>2, OneChangeAges
<1>3. ASSUME NEW c \in Codes, NEW s \in SettingsInputs,
             ApproveByCodeWithSettings(c, s)
      PROVE  PairingAges
  <2>1. byPairCode[c] \in live
    BY <1>3 DEF ApproveByCodeWithSettings, Inv, MapsAgree
  <2> QED BY <1>2, <1>3, <2>1 DEF ApproveByCodeWithSettings
<1>4. ASSUME NEW p \in Prompts, NEW id \in Ids, NEW c \in Contents,
             PreparePrompt(p, id, c)
      PROVE  PairingAges
  <2>1. Asked(sess[id], c).state = "ACTIVE"
    BY <1>0, AskedSession DEF Session
  <2> QED BY <1>4, <2>1, OneChangeAges DEF PreparePrompt
<1>5. ASSUME NEW p \in Prompts, SetGenCancel(p)
      PROVE  PairingAges
  <2>1. sess' = [sess EXCEPT ![promptOf[p]] =
                                [sess[promptOf[p]] EXCEPT !.genCancel = p]]
    BY <1>5 DEF SetGenCancel
  <2>2. promptOf[p] \in Ids
    BY <1>0, <1>5 DEF SetGenCancel
  <2>3. PICK t : t = [sess[promptOf[p]] EXCEPT !.genCancel = p]
    OBVIOUS
  <2>4. t.state = sess[promptOf[p]].state /\ t.pairLeft = sess[promptOf[p]].pairLeft
    BY <1>0, <2>2, <2>3 DEF SessionType
  <2> QED BY <2>1, <2>2, <2>3, <2>4, OneChangeAges
<1>6. ASSUME NEW p \in Prompts, NEW text \in Replies \cup {None},
             FinishPrompt(p, text)
      PROVE  PairingAges
  <2>1. promptOf[p] \in Ids
    BY <1>0, <1>6 DEF FinishPrompt
  <2>2. Finished(sess[promptOf[p]], text).state = "APPROVED"
    BY <1>0, <2>1, FinishedSession DEF Session
  <2> QED BY <1>6, <2>1, <2>2, OneChangeAges DEF FinishPrompt
<1>7. ASSUME NEW p \in Prompts, FailPrompt(p)
      PROVE  PairingAges
  <2>1. promptOf[p] \in Ids
    BY <1>0, <1>7 DEF FailPrompt
  <2>2. Failed(sess[promptOf[p]]).state = "APPROVED"
    BY <1>0, <2>1, FailedSession DEF Session
  <2> QED BY <1>7, <2>1, <2>2, OneChangeAges DEF FailPrompt
<1>8. ASSUME NEW id \in Ids, CancelGeneration(id)
      PROVE  PairingAges
  <2>1. sess' = [sess EXCEPT ![id] = [sess[id] EXCEPT !.genCancel = None]]
    BY <1>8 DEF CancelGeneration
  <2>2. PICK t : t = [sess[id] EXCEPT !.genCancel = None]
    OBVIOUS
  <2>3. t.state = sess[id].state /\ t.pairLeft = sess[id].pairLeft
    BY <1>0, <2>2 DEF SessionType
  <2> QED BY <2>1, <2>2, <2>3, OneChangeAges
<1>9. CASE Sweep
  <2> DEFINE S == {id \in live : Expired(sess[id])}
  <2>1. S \in SUBSET live /\ DestroyAll(S)
    BY <1>9 DEF Sweep
  <2> HIDE DEF S
  <2> QED BY <2>1, DestroyAllAges
<1>10. ASSUME NEW id \in live, DestroyAll({id})
       PROVE  PairingAges
  BY <1>10, DestroyAllAges
<1>11. CASE sess' = sess
  BY <1>11, UnchangedAges
<1>12. CASE Tick
  BY <1>12, TickAges
<1> QED BY <1>1, <1>2, <1>3, <1>4, <1>5, <1>6, <1>7, <1>8, <1>9, <1>10,
           <1>11, <1>12
        DEF MNext, mvars, ApproveByTokenWithSettings, EndByControlToken, Destroy,
            ReturnToDestroyed, EndContext

\* No handler takes up a prompt.
NoNewPrompt == \A p \in Prompts : promptOf'[p] \in {promptOf[p], None}

LEMMA HandlersTakeUpNothing ==
  ASSUME GInv, NEW p \in Prompts,
         PrompterStep(p) \/ UpstreamStep(p) \/ Disconnect(p)
  PROVE  NoNewPrompt
<1> promptOf \in [Prompts -> Ids \cup {None}]
  BY DEF GInv, Inv, TypeOK
<1>1. CASE UNCHANGED promptOf
  BY <1>1 DEF NoNewPrompt
<1>2. CASE Release(p)
  BY <1>2 DEF Release, NoNewPrompt
<1>3. CASE Settle(p)
  <2>1. CASE FinishPrompt(p, prompter[p].text) \/ FailPrompt(p) \/ ReturnToDestroyed(p)
    BY <1>2, <2>1 DEF FinishPrompt, FailPrompt, ReturnToDestroyed
  <2>2. CASE Destroy(prompter[p].id) \/ UNCHANGED mvars
    BY <1>1, <2>2 DEF Destroy, DestroyAll, mvars
  <2> QED BY <1>3, <2>1, <2>2, SettleCases
<1>4. CASE Leave(p)
  BY <1>2, <1>4, SMTT(30) DEF Leave, ReturnToDestroyed
<1>5. CASE \/ RegisterCancel(p) \/ ReadSettings(p) \/ StreamStops(p)
           \/ Judge(p) \/ Reply(p) \/ Watch(p) \/ GenTimeout(p)
           \/ UpstreamStep(p) \/ Disconnect(p)
  BY <1>1, <1>5
     DEF RegisterCancel, SetGenCancel, ReadSettings, StreamStops, Judge, Reply,
         Watch, GenTimeout, EndContext, UpstreamStep, Connect, ConnectFails,
         Delta, StreamEnds, StreamFails, Return, Disconnect, mvars
<1> QED BY <1>3, <1>4, <1>5 DEF PrompterStep

\* The gateway starts again with its invariant and without sessions.
LEMMA GatewayDiesInv ==
  ASSUME GInv, ManagerDies,
         prompter' = [p \in Prompts |-> IdlePrompter],
         approver' = [a \in Approvers |-> IdleApprover]
  PROVE  GInv' /\ KeepsApproval /\ PairingAges /\ NoNewPrompt
<1>1. Inv' /\ KeepsApproval /\ PairingAges
  BY ManagerDiesInv, ManagerDiesKeepsApproval, ManagerDiesAges DEF GInv
<1>2. NoNewPrompt
  BY DEF ManagerDies, NoNewPrompt
<1>3. HandlersTyped'
  BY NoSettingsType
     DEF HandlersTyped, IdlePrompter, IdleApprover, PrompterType,
         ApproverType, Generating, Running
<1>4. HandlerRunsItsPrompt' /\ SettingsAreHandedOver'
  BY DEF ManagerDies, HandlerRunsItsPrompt, SettingsAreHandedOver, IdlePrompter
<1>5. ApprovalWasGiven' /\ ApproveReplyHasToken'
  BY DEF ApprovalWasGiven, ApproveReplyHasToken, IdleApprover
<1> QED BY <1>1, <1>2, <1>3, <1>4, <1>5 DEF GInv, HandlersInv

\* What a step of the gateway keeps.
LEMMA GatewayMoves ==
  ASSUME GInv, [GNext]_gvars
  PROVE  GInv' /\ KeepsApproval /\ PairingAges
BY GNextInv, HandlersDriveManager, StepKeepsApproval, StepAges DEF GInv

-----------------------------------------------------------------------------
(* The terminal while the gateway moves *)

\* The deadline of the terminal lies within PairTimeout.
LEMMA Deadline ==
  /\ ExpiresIn * Second \in 0..PairTimeout
  /\ Fraction \in 0..(Second - 1)
<1> DEFINE q == PairTimeout \div Second
           r == PairTimeout % Second
<1>1. PairTimeout \in Nat /\ Second \in Nat \ {0}
  BY TimeoutsArePositive, SecondIsPositive
<1>2. /\ q \in Nat /\ r \in 0..(Second - 1)
      /\ PairTimeout = q * Second + r
  BY <1>1
<1>3. q * Second \in Nat
  BY <1>1, <1>2
<1> HIDE DEF q, r
<1>4. Second \in Int /\ PairTimeout \in Int /\ r \in Int
  BY <1>1, <1>2
<1> DEFINE d == q * Second
<1>5. d \in Nat /\ PairTimeout = d + r /\ r \in 0..(Second - 1)
  BY <1>2, <1>3
<1> HIDE DEF d
<1>6. d \in 0..PairTimeout /\ PairTimeout - d \in 0..(Second - 1)
  BY <1>4, <1>5
<1>7. d = ExpiresIn * Second
  BY DEF d, q, ExpiresIn
<1> QED BY <1>6, <1>7 DEF Fraction

\* main, and what it knows, does not move; at most an event arrives.
LEMMA TerminalStays ==
  ASSUME TInv, GInv', KeepsApproval, PairingAges, NoNewPrompt,
         UNCHANGED <<main, sid, seen, shown, waitLeft, prompt, aborted>>,
         event' \in {event, "answer", "broken"},
         event' # event => event = None /\ main = "streaming",
         event' \in {event, "broken"} \/ promptOf[prompt] = None,
         watcher' \in WatcherPoints,
         {sig', streaming', cancelled', quit'} \subseteq BOOLEAN
  PROVE  TInv'
<1> USE DEF TInv
<1>0. sid # None => sid \in Ids
  BY DEF TerminalTyped
<1>1. TerminalTyped'
  BY DEF TerminalTyped
<1>2. HasWhatItNeeds'
  BY <1>0 DEF HasWhatItNeeds, PairingAges
<1>3. ToldTheTruth'
  <2>1. CASE sid # None
    BY <1>0, <2>1 DEF ToldTheTruth, KeepsApproval
  <2>2. CASE sid = None
    BY <2>2 DEF HasWhatItNeeds, ToldTheTruth, ChatPoints
  <2> QED BY <2>1, <2>2
<1>4. LineIsCurrent'
  <2> SUFFICES ASSUME main \in ChatPoints \/ (main = "polled" /\ seen = "APPROVED"),
                      sid \in live'
               PROVE  shown = SettingsLine(sess'[sid].settings)
    BY DEF LineIsCurrent
  <2>1. sess[sid].state \notin {"UNBORN", "WAITING"}
    BY DEF ToldTheTruth
  <2>2. sid \in Ids
    BY <1>0 DEF HasWhatItNeeds, ChatPoints
  <2>3. sid \in live /\ sess'[sid].settings = sess[sid].settings
    BY <2>1, <2>2 DEF KeepsApproval
  <2> QED BY <2>3 DEF LineIsCurrent
<1>5. OnlyOwnPrompt'
  BY DEF OnlyOwnPrompt, NoNewPrompt
<1>6. PairingRunsOut'
  <2> SUFFICES ASSUME sid \in live', sess'[sid].state = "WAITING"
               PROVE  /\ main \in {"waiting", "status", "polled"} =>
                           sess'[sid].pairLeft <= waitLeft + Fraction
                      /\ main = "expired" => sess'[sid].pairLeft < Second - 1
    BY DEF PairingRunsOut
  <2>1. sid \in Ids /\ sess[sid].state # "UNBORN"
    BY DEF GInv, Inv, TypeOK, HasWhatItNeeds
  <2>2. sess[sid].state = "WAITING" /\ sess'[sid].pairLeft <= sess[sid].pairLeft
        /\ sid \in live
    BY <2>1 DEF PairingAges, GInv, Inv, MapsAgree, LiveStates
  <2>3. /\ sess[sid].pairLeft \in Int /\ sess'[sid].pairLeft \in Int
        /\ waitLeft \in Int /\ Second \in Int /\ Fraction \in Int
    BY <2>1, SessionFields, Deadline, SecondIsPositive, TimeoutsArePositive
       DEF GInv, Inv, TypeOK, TerminalTyped
  <2> QED BY <2>2, <2>3 DEF PairingRunsOut
<1> QED BY <1>1, <1>2, <1>3, <1>4, <1>5, <1>6

-----------------------------------------------------------------------------
(* The steps of the terminal *)

LEMMA TInitInv == TInit => TInv
<1> SUFFICES ASSUME TInit PROVE TInv
  OBVIOUS
<1>1. GInv
  BY GInitInv DEF TInit
<1>2. TerminalTyped
  <2>1. {aborted, sig, streaming, cancelled, quit} \subseteq BOOLEAN
    BY DEF TInit
  <2>2. waitLeft \in -1..PairTimeout
    BY TimeoutsArePositive DEF TInit
  <2> QED BY <2>1, <2>2
          DEF TInit, TerminalTyped, MainPoints, WatcherPoints, LiveStates
<1>3. HasWhatItNeeds /\ ToldTheTruth /\ LineIsCurrent /\ OnlyOwnPrompt
  BY DEF TInit, HasWhatItNeeds, ToldTheTruth, LineIsCurrent, OnlyOwnPrompt,
         ChatPoints
<1>4. PairingRunsOut
  BY DEF TInit, GInit, MInit, PairingRunsOut
<1> QED BY <1>1, <1>2, <1>3, <1>4 DEF TInv

\* The settings of an approved session make a line.
LEMMA ApprovedHasModel ==
  ASSUME GInv, sid \in live, sess[sid].state # "WAITING"
  PROVE  sess[sid].settings.model # "" /\ sess[sid].settings \in GenerationSettingsType
<1>1. sid \in Ids /\ Valid(sess[sid].settings)
  BY DEF GInv, Inv, TypeOK, ApprovalCarriesCredentials
<1>2. sess[sid].settings.model # ""
  BY <1>1 DEF Valid, ProductModels, ModelV4Flash, ModelV4Pro
<1> QED BY <1>1, <1>2, SessionFields DEF GInv, Inv, TypeOK

\* The gateway makes a session nobody runs a prompt of.
LEMMA CreateSessionInv ==
  ASSUME TInv, CreateSession
  PROVE  TInv'
<1> USE DEF TInv
<1>1. CASE \E id \in Ids, code \in Codes :
             HandleCreate(id, code) /\ sid' = id /\ main' = "created"
  <2>1. PICK id \in Ids, code \in Codes :
          HandleCreate(id, code) /\ sid' = id /\ main' = "created"
    BY <1>1
  <2>2. GInv'
    BY <2>1, GatewayMoves DEF GNext
  <2>3. /\ UNCHANGED <<seen, shown, waitLeft, prompt, event, aborted, watcher,
                       sig, streaming, cancelled, quit, promptOf>>
        /\ main = "creating" /\ sess[id].state = "UNBORN"
        /\ sess' = [sess EXCEPT ![id] = NewSession(id, code)]
    BY <2>1 DEF CreateSession, watchVars, Flags, HandleCreate, Create
  <2>4. sess'[id].state = "WAITING"
    BY <2>3, NewSessionSession DEF Session, GInv, Inv, TypeOK
  <2>5. TerminalTyped'
    BY <2>1, <2>3 DEF TerminalTyped, MainPoints
  <2>6. HasWhatItNeeds'
    BY <2>1, <2>3, <2>4 DEF HasWhatItNeeds
  <2>7. ToldTheTruth' /\ LineIsCurrent' /\ PairingRunsOut'
    BY <2>1 DEF ToldTheTruth, LineIsCurrent, PairingRunsOut, ChatPoints
  <2>8. \A p \in Prompts : promptOf[p] # id
    BY <2>3 DEF GInv, Inv, OnePromptPerSession
  <2>9. OnlyOwnPrompt'
    BY <2>1, <2>3, <2>8 DEF OnlyOwnPrompt
  <2> QED BY <2>2, <2>5, <2>6, <2>7, <2>9
<1>2. CASE UNCHANGED <<gvars, sid>> /\ main' = "done"
  <2>1. GInv' /\ UNCHANGED mvars
    BY <1>2, GatewayMoves DEF gvars
  <2>2. /\ UNCHANGED <<sid, seen, shown, waitLeft, prompt, event, aborted, watcher,
                       sig, streaming, cancelled, quit>>
        /\ main = "creating" /\ main' = "done"
    BY <1>2 DEF CreateSession, watchVars, Flags
  <2>3. TerminalTyped'
    BY <2>2 DEF TerminalTyped, MainPoints
  <2>4. HasWhatItNeeds' /\ ToldTheTruth' /\ LineIsCurrent' /\ OnlyOwnPrompt'
        /\ PairingRunsOut'
    BY <2>1, <2>2
       DEF mvars, HasWhatItNeeds, ToldTheTruth, LineIsCurrent, OnlyOwnPrompt,
           PairingRunsOut, ChatPoints
  <2> QED BY <2>1, <2>3, <2>4
<1> QED BY <1>1, <1>2 DEF CreateSession

\* The wait starts with the whole seconds of a timeout that runs already.
LEMMA CreateReplyInv ==
  ASSUME TInv, CreateReply
  PROVE  TInv'
<1> USE DEF TInv
<1>1. GInv' /\ UNCHANGED <<sess, live, promptOf>>
  BY GatewayMoves DEF CreateReply, gvars, mvars
<1>2. /\ UNCHANGED <<seen, shown, prompt, event, aborted, watcher, sig,
                     streaming, cancelled, quit>>
      /\ main = "created"
      /\ \/ main' = "waiting" /\ waitLeft' = ExpiresIn * Second /\ sid' = sid
         \/ main' = "done" /\ sid' = None /\ waitLeft' = waitLeft
  BY DEF CreateReply, watchVars, Flags
<1>3. ExpiresIn * Second \in 0..PairTimeout /\ PairTimeout \in Int
  BY Deadline, TimeoutsArePositive
<1>4. TerminalTyped'
  BY <1>2, <1>3 DEF TerminalTyped, MainPoints
<1>5. HasWhatItNeeds' /\ OnlyOwnPrompt'
  BY <1>1, <1>2 DEF HasWhatItNeeds, OnlyOwnPrompt
<1>6. ToldTheTruth' /\ LineIsCurrent'
  BY <1>2 DEF ToldTheTruth, LineIsCurrent, ChatPoints
<1>7. PairingRunsOut'
  <2>1. CASE main' = "waiting"
    <3> SUFFICES ASSUME sid \in live
                 PROVE  sess[sid].pairLeft <= waitLeft' + Fraction
      BY <1>1, <1>2, <2>1 DEF PairingRunsOut
    <3>1. sess[sid].pairLeft \in -1..PairTimeout
      BY SessionFields DEF GInv, Inv, TypeOK
    <3>2. waitLeft' + Fraction = PairTimeout
      BY <1>2, <1>3, <2>1 DEF Fraction
    <3> QED BY <1>3, <3>1, <3>2
  <2>2. CASE main' = "done"
    BY <2>2 DEF PairingRunsOut
  <2> QED BY <1>2, <2>1, <2>2
<1> QED BY <1>1, <1>4, <1>5, <1>6, <1>7

LEMMA PollStateInv ==
  ASSUME TInv, PollState
  PROVE  TInv'
<1> USE DEF TInv
<1>1. GInv' /\ UNCHANGED <<sess, live, promptOf>>
  BY GatewayMoves DEF PollState, gvars, mvars
<1>2. /\ UNCHANGED <<sid, shown, waitLeft, prompt, event, aborted, watcher, sig,
                     streaming, cancelled, quit>>
      /\ main = "waiting" /\ main' = "status"
      /\ seen' = IF sid \in live THEN sess[sid].state ELSE "error"
  BY DEF PollState, watchVars, Flags
<1>3. sid \in live => sess[sid].state \in LiveStates
  BY DEF GInv, Inv, TypeOK, MapsAgree
<1>4. TerminalTyped'
  BY <1>2, <1>3 DEF TerminalTyped, MainPoints
<1>5. HasWhatItNeeds' /\ OnlyOwnPrompt' /\ PairingRunsOut'
  BY <1>1, <1>2 DEF HasWhatItNeeds, OnlyOwnPrompt, PairingRunsOut
<1>6. ToldTheTruth' /\ LineIsCurrent'
  BY <1>1, <1>2 DEF ToldTheTruth, LineIsCurrent, ChatPoints
<1> QED BY <1>1, <1>4, <1>5, <1>6

LEMMA PollSettingsInv ==
  ASSUME TInv, PollSettings
  PROVE  TInv'
<1> USE DEF TInv
<1>1. GInv' /\ UNCHANGED <<sess, live, promptOf>>
  BY GatewayMoves DEF PollSettings, gvars, mvars
<1>2. /\ UNCHANGED <<sid, waitLeft, prompt, event, aborted, watcher, sig,
                     streaming, cancelled, quit>>
      /\ main = "status" /\ main' = "polled"
      /\ \/ /\ seen' = seen
            /\ shown' = IF sid \in live /\ sess[sid].settings.model # ""
                        THEN SettingsLine(sess[sid].settings) ELSE None
         \/ seen' = "error" /\ shown' = None
  BY DEF PollSettings, watchVars, Flags
<1>3. sid \in live => sess[sid].settings \in GenerationSettingsType
  BY SessionFields DEF GInv, Inv, TypeOK
<1>4. TerminalTyped'
  BY <1>2, <1>3 DEF TerminalTyped, MainPoints
<1>5. HasWhatItNeeds' /\ OnlyOwnPrompt' /\ PairingRunsOut'
  BY <1>1, <1>2 DEF HasWhatItNeeds, OnlyOwnPrompt, PairingRunsOut
<1>6. ToldTheTruth'
  BY <1>1, <1>2 DEF ToldTheTruth, ChatPoints
<1>7. LineIsCurrent'
  <2> SUFFICES ASSUME seen' = "APPROVED", sid \in live
               PROVE  shown' = SettingsLine(sess[sid].settings)
    BY <1>1, <1>2 DEF LineIsCurrent, ChatPoints
  <2>1. seen = "APPROVED"
    BY <1>2
  <2>2. sess[sid].state # "WAITING"
    BY <1>2, <2>1 DEF ToldTheTruth
  <2> QED BY <1>2, <2>2, ApprovedHasModel
<1> QED BY <1>1, <1>4, <1>5, <1>6, <1>7

\* main goes on with the chat or polls again, until its time is up.
LEMMA PolledInv ==
  ASSUME TInv, Polled
  PROVE  TInv'
<1> USE DEF TInv
<1>1. GInv' /\ UNCHANGED <<sess, live, promptOf>>
  BY GatewayMoves DEF Polled, gvars, mvars
<1>2. /\ UNCHANGED <<sid, waitLeft, prompt, event, aborted, sig, streaming,
                     cancelled, quit>>
      /\ main = "polled" /\ seen' = "error"
      /\ \/ /\ seen = "APPROVED"
            /\ main' = "selecting" /\ watcher' = "listening" /\ shown' = shown
         \/ /\ main' = "expired" /\ waitLeft < 0
            /\ shown' = None /\ watcher' = watcher
         \/ main' = "waiting" /\ shown' = None /\ watcher' = watcher
  BY DEF Polled, GiveUp, Flags
<1>3. TerminalTyped'
  BY <1>2 DEF TerminalTyped, MainPoints, WatcherPoints
<1>4. HasWhatItNeeds' /\ OnlyOwnPrompt'
  BY <1>1, <1>2 DEF HasWhatItNeeds, OnlyOwnPrompt
<1>5. ToldTheTruth' /\ LineIsCurrent'
  BY <1>1, <1>2 DEF ToldTheTruth, LineIsCurrent, ChatPoints
<1>6. PairingRunsOut'
  <2> SUFFICES ASSUME sid \in live, sess[sid].state = "WAITING"
               PROVE  /\ main' \in {"waiting", "status", "polled"} =>
                           sess[sid].pairLeft <= waitLeft + Fraction
                      /\ main' = "expired" => sess[sid].pairLeft < Second - 1
    BY <1>1, <1>2 DEF PairingRunsOut
  <2>1. sess[sid].pairLeft <= waitLeft + Fraction
    BY <1>2 DEF PairingRunsOut
  <2>2. /\ sess[sid].pairLeft \in Int /\ waitLeft \in Int /\ Second \in Int
        /\ Fraction \in 0..(Second - 1)
    BY SessionFields, Deadline, SecondIsPositive, TimeoutsArePositive
       DEF GInv, Inv, TypeOK, TerminalTyped
  <2> QED BY <1>2, <2>1, <2>2
<1> QED BY <1>1, <1>3, <1>4, <1>5, <1>6

\* main moves on within the chat, to its end, or gives up a wait.
LEMMA GotoInv ==
  ASSUME TInv, UNCHANGED gvars, NEW from, NEW to \in MainPoints,
         main = from, Goto(to),
         \/ /\ from \in ChatPoints \ {"streaming"}
            /\ to \in (ChatPoints \ {"streaming"}) \cup {"closing"}
         \/ from = "waiting" /\ to = "closing",
         watcher' = watcher,
         {sig', streaming', cancelled', quit'} \subseteq BOOLEAN
  PROVE  TInv'
<1> USE DEF TInv
<1>1. GInv' /\ UNCHANGED <<sess, live, promptOf>>
  BY GatewayMoves DEF gvars, mvars
<1>2. /\ UNCHANGED <<sid, seen, shown, waitLeft, prompt, event, aborted>>
      /\ main' = to
  BY DEF Goto
<1>3. TerminalTyped'
  BY <1>2 DEF TerminalTyped
<1>4. HasWhatItNeeds' /\ OnlyOwnPrompt'
  BY <1>1, <1>2 DEF HasWhatItNeeds, OnlyOwnPrompt, ChatPoints
<1>5. ToldTheTruth' /\ LineIsCurrent' /\ PairingRunsOut'
  BY <1>1, <1>2 DEF ToldTheTruth, LineIsCurrent, PairingRunsOut, ChatPoints
<1> QED BY <1>1, <1>3, <1>4, <1>5

\* The gateway takes the prompt of an approved session, which runs no other.
LEMMA PostInv ==
  ASSUME TInv, NEW p \in Prompts, NEW c \in Contents, Post(p, c)
  PROVE  TInv'
<1> USE DEF TInv
<1>0. sid \in Ids
  BY DEF Post, HasWhatItNeeds, TerminalTyped
<1>1. GInv' /\ KeepsApproval
  BY <1>0, GatewayMoves DEF Post, GNext
<1>2. /\ UNCHANGED <<sid, seen, shown, waitLeft, event, aborted, watcher, sig,
                     streaming, cancelled, quit, live>>
      /\ main = "posting" /\ main' = "streaming" /\ prompt' = p
      /\ sid \in live /\ sess[sid].state = "APPROVED"
      /\ sess' = [sess EXCEPT ![sid] = Asked(sess[sid], c)]
      /\ promptOf' = [promptOf EXCEPT ![p] = sid]
  BY DEF Post, HandlePrompt, PreparePrompt, watchVars, Flags
<1>3. sess'[sid].state = "ACTIVE"
  <2>1. Asked(sess[sid], c).state = "ACTIVE"
    BY <1>0, AskedSession DEF Session, GInv, Inv, TypeOK
  <2> QED BY <1>0, <1>2, <2>1 DEF GInv, Inv, TypeOK
<1>4. TerminalTyped'
  BY <1>2 DEF TerminalTyped, MainPoints
<1>5. HasWhatItNeeds' /\ ToldTheTruth' /\ PairingRunsOut'
  BY <1>2, <1>3 DEF HasWhatItNeeds, ToldTheTruth, PairingRunsOut
<1>6. LineIsCurrent'
  <2>1. shown = SettingsLine(sess[sid].settings)
    BY <1>2 DEF LineIsCurrent, ChatPoints
  <2>2. sess'[sid].settings = sess[sid].settings
    BY <1>0, <1>1, <1>2 DEF KeepsApproval
  <2> QED BY <1>2, <2>1, <2>2 DEF LineIsCurrent
<1>7. OnlyOwnPrompt'
  <2>1. \A q \in Prompts : promptOf[q] # sid
    BY <1>2 DEF GInv, Inv, OnePromptPerSession
  <2>2. event' = None
    BY <1>2 DEF HasWhatItNeeds
  <2>3. \A q \in Prompts \ {p} : promptOf'[q] = promptOf[q]
    BY <1>2 DEF GInv, Inv, TypeOK
  <2> QED BY <1>2, <2>1, <2>2, <2>3 DEF OnlyOwnPrompt
<1> QED BY <1>1, <1>4, <1>5, <1>6, <1>7

\* The answer is read to its end, or what is left of it is given up.
LEMMA PromptOverInv ==
  ASSUME TInv, ReadEvent \/ AbortPrompt
  PROVE  TInv'
<1> USE DEF TInv
<1>1. GInv' /\ UNCHANGED <<sess, live, promptOf>>
  <2>1. CASE ReadEvent
    BY <2>1, GatewayMoves DEF ReadEvent, gvars, mvars
  <2>2. CASE AbortPrompt
    <3>1. prompt \in Prompts /\ Disconnect(prompt)
      BY <2>2 DEF AbortPrompt, HasWhatItNeeds
    <3> QED BY <3>1, GatewayMoves DEF GNext, Disconnect, mvars
  <2> QED BY <2>1, <2>2
<1>2. /\ UNCHANGED <<sid, seen, shown, waitLeft, watcher, sig, streaming,
                     cancelled, quit>>
      /\ main = "streaming" /\ main' = "ended" /\ prompt' = None /\ event' = None
      /\ aborted' \in BOOLEAN
      /\ aborted' \/ event \notin {None, "broken"}
  BY DEF ReadEvent, AbortPrompt, watchVars, Flags, TerminalTyped
<1>3. TerminalTyped'
  BY <1>2 DEF TerminalTyped, MainPoints
<1>4. HasWhatItNeeds' /\ ToldTheTruth' /\ LineIsCurrent' /\ PairingRunsOut'
  BY <1>1, <1>2
     DEF HasWhatItNeeds, ToldTheTruth, LineIsCurrent, PairingRunsOut, ChatPoints
<1>5. OnlyOwnPrompt'
  BY <1>1, <1>2 DEF OnlyOwnPrompt
<1> QED BY <1>1, <1>3, <1>4, <1>5

LEMMA CloseInv ==
  ASSUME TInv, Close
  PROVE  TInv'
<1> USE DEF TInv
<1>1. /\ UNCHANGED <<sid, seen, shown, waitLeft, prompt, event, aborted, watcher,
                     sig, streaming, cancelled, quit>>
      /\ main \in {"closing", "expired"} /\ main' = "done"
      /\ HandleClose(sid) \/ UNCHANGED gvars
  BY DEF Close, Goto, watchVars, Flags
<1>2. sid \in Ids
  BY <1>1 DEF HasWhatItNeeds, TerminalTyped
<1>3. GInv' /\ PairingAges
  BY <1>1, <1>2, GatewayMoves DEF GNext
<1>4. UNCHANGED promptOf
  BY <1>1 DEF HandleClose, Destroy, DestroyAll, gvars, mvars
<1>5. TerminalTyped'
  BY <1>1 DEF TerminalTyped, MainPoints
<1>6. HasWhatItNeeds' /\ OnlyOwnPrompt'
  BY <1>1, <1>2, <1>3, <1>4 DEF HasWhatItNeeds, OnlyOwnPrompt, PairingAges
<1>7. ToldTheTruth' /\ LineIsCurrent' /\ PairingRunsOut'
  BY <1>1 DEF ToldTheTruth, LineIsCurrent, PairingRunsOut, ChatPoints
<1> QED BY <1>3, <1>5, <1>6, <1>7

\* Both programs lose one tick.
LEMMA ClockInv ==
  ASSUME TInv, Clock
  PROVE  TInv'
<1> USE DEF TInv
<1>1. /\ UNCHANGED <<main, sid, seen, shown, prompt, event, aborted, watcher,
                     sig, streaming, cancelled, quit, live, promptOf>>
      /\ waitLeft' = IF main \in {"waiting", "status", "polled"}
                     THEN Less(waitLeft) ELSE 0
      /\ ClockTick /\ Tick
  BY DEF Clock, ClockTick, Tick, watchVars, Flags
<1>2. GInv' /\ KeepsApproval /\ PairingAges
  BY <1>1, GatewayMoves DEF GNext
<1>3. sid # None => sid \in Ids
  BY DEF TerminalTyped
<1>4. TerminalTyped'
  BY <1>1, TimeoutsArePositive DEF TerminalTyped, Less
<1>5. HasWhatItNeeds' /\ OnlyOwnPrompt'
  BY <1>1, <1>2, <1>3 DEF HasWhatItNeeds, OnlyOwnPrompt, PairingAges
<1>6. sid # None => /\ sess'[sid].state = sess[sid].state
                    /\ sess'[sid].settings = sess[sid].settings
  BY <1>1, <1>3, TickFacts DEF GInv
<1>7. ToldTheTruth' /\ LineIsCurrent'
  BY <1>1, <1>6 DEF ToldTheTruth, LineIsCurrent, HasWhatItNeeds, ChatPoints
<1>8. PairingRunsOut'
  <2> SUFFICES ASSUME sid \in live, sess'[sid].state = "WAITING"
               PROVE  /\ main \in {"waiting", "status", "polled"} =>
                           sess'[sid].pairLeft <= waitLeft' + Fraction
                      /\ main = "expired" => sess'[sid].pairLeft < Second - 1
    BY <1>1 DEF PairingRunsOut
  <2>1. sid \in Ids /\ sess[sid].state = "WAITING"
    BY <1>1, TickFacts DEF GInv, Inv, TypeOK
  <2>2. /\ sess[sid].pairLeft \in -1..PairTimeout
        /\ sess'[sid].pairLeft = Less(sess[sid].pairLeft)
    BY <1>1, <2>1, TickFacts DEF GInv
  <2>3. /\ waitLeft \in -1..PairTimeout /\ Second \in Int /\ PairTimeout \in Int
        /\ Fraction \in 0..(Second - 1)
    BY Deadline, SecondIsPositive, TimeoutsArePositive DEF TerminalTyped
  <2>4. CASE main \in {"waiting", "status", "polled"}
    <3>1. sess[sid].pairLeft <= waitLeft + Fraction /\ waitLeft' = Less(waitLeft)
      BY <1>1, <2>1, <2>4 DEF PairingRunsOut
    <3> QED BY <2>2, <2>3, <2>4, <3>1 DEF Less
  <2>5. CASE main = "expired"
    <3>1. sess[sid].pairLeft < Second - 1
      BY <2>1, <2>5 DEF PairingRunsOut
    <3> QED BY <2>2, <2>3, <2>5, <3>1 DEF Less
  <2> QED BY <2>4, <2>5
<1> QED BY <1>2, <1>4, <1>5, <1>7, <1>8, SMTT(30)

\* What the signal goroutine, the gateway, the network and the controller do
\* while main stays where it is.
LEMMA WatcherInv ==
  ASSUME TInv, Interrupt \/ WatcherStep
  PROVE  TInv'
<1>1. /\ UNCHANGED mainVars
      /\ watcher' \in WatcherPoints
      /\ {sig', streaming', cancelled', quit'} \subseteq BOOLEAN
  BY DEF Interrupt, WatcherStep, Wake, LoadStreaming, SwapCancelled,
         CancelReturns, Flags, TInv, TerminalTyped, WatcherPoints, mainVars
<1>2. [GNext]_gvars /\ NoNewPrompt
  <2>1. CASE UNCHANGED gvars
    BY <2>1 DEF gvars, mvars, NoNewPrompt
  <2>2. CASE HandleCancel(sid)
    <3>1. sid \in Ids
      BY <2>2 DEF HandleCancel, CancelGeneration, TInv, GInv, Inv, TypeOK
    <3> QED BY <2>2, <3>1 DEF GNext, HandleCancel, CancelGeneration, NoNewPrompt
  <2> QED BY <2>1, <2>2 DEF Interrupt, WatcherStep, Wake, LoadStreaming,
                            SwapCancelled, CancelReturns
<1>3. GInv' /\ KeepsApproval /\ PairingAges
  BY <1>2, GatewayMoves DEF TInv
<1> QED BY <1>1, <1>2, <1>3, TerminalStays DEF mainVars

LEMMA HandlerStepInv ==
  ASSUME TInv, NEW p \in Prompts, HandlerStep(p)
  PROVE  TInv'
<1>1. PrompterStep(p)
  BY DEF HandlerStep
<1>2. GInv' /\ KeepsApproval /\ PairingAges
  BY <1>1, GatewayMoves DEF TInv, GNext
<1>3. NoNewPrompt
  BY <1>1, HandlersTakeUpNothing DEF TInv
<1>4. /\ UNCHANGED <<main, sid, seen, shown, waitLeft, prompt, aborted, watcher,
                     sig, streaming, cancelled, quit>>
      /\ \/ event' = event
         \/ /\ p = prompt /\ event = None /\ event' = "answer"
            /\ prompter[p].pc = "replying"
  BY DEF HandlerStep, watchVars, Flags
<1>5. prompter[p].pc = "replying" => promptOf[p] = None
  BY PrompterFacts DEF TInv
<1>6. p = prompt => main = "streaming"
  BY DEF TInv, HasWhatItNeeds
<1> QED BY <1>2, <1>3, <1>4, <1>5, <1>6, TerminalStays DEF TInv, TerminalTyped

LEMMA OthersInv ==
  ASSUME TInv,
         \/ \E p \in Prompts : Upstream(p)
         \/ Break \/ Controller \/ Sweeper \/ GatewayDies
  PROVE  TInv'
<1>1. /\ UNCHANGED <<main, sid, seen, shown, waitLeft, prompt, aborted, watcher,
                     sig, streaming, cancelled, quit>>
      /\ event' = event \/ (event = None /\ event' = "broken" /\ main = "streaming")
  BY DEF Upstream, Break, Controller, Sweeper, GatewayDies, mainVars, watchVars, Flags
<1>2. GInv' /\ KeepsApproval /\ PairingAges /\ NoNewPrompt
  <2>1. ASSUME NEW p \in Prompts, UpstreamStep(p) \/ Disconnect(p)
        PROVE  GInv' /\ KeepsApproval /\ PairingAges /\ NoNewPrompt
    BY <2>1, GatewayMoves, HandlersTakeUpNothing DEF TInv, GNext
  <2>2. CASE Break
    <3>1. prompt \in Prompts
      BY <2>2 DEF Break, TInv, HasWhatItNeeds
    <3> QED BY <2>1, <2>2, <3>1 DEF Break
  <2>3. CASE Controller \/ Sweeper
    <3>1. GNext
      BY <2>3, SMTT(30) DEF Controller, Sweeper, GNext
    <3>2. UNCHANGED promptOf
      BY <2>3
         DEF Controller, Sweeper, HandleApprove, ApproveByTokenWithSettings,
             ApproveByCodeWithSettings, approve, HandleEnd, EndByControlToken,
             SweeperTick, Sweep, DestroyAll
    <3> QED BY <3>1, <3>2, GatewayMoves DEF TInv, NoNewPrompt
  <2>4. CASE GatewayDies
    BY <2>4, GatewayDiesInv DEF GatewayDies, TInv
  <2> QED BY <2>1, <2>2, <2>3, <2>4 DEF Upstream
<1> QED BY <1>1, <1>2, TerminalStays DEF TInv, TerminalTyped

LEMMA TNextInv == TInv /\ [TNext]_tvars => TInv'
<1> SUFFICES ASSUME TInv, [TNext]_tvars PROVE TInv'
  OBVIOUS
<1>1. CASE \/ CreateSession \/ CreateReply \/ PollState \/ PollSettings \/ Polled
  BY <1>1, CreateSessionInv, CreateReplyInv, PollStateInv, PollSettingsInv,
     PolledInv
<1>2. CASE Reset \/ Start \/ PostFails \/ EndPrompt \/ TakeLine \/ EndChat
           \/ InterruptedWaiting
  <2>1. watcher' = watcher /\ {sig', streaming', cancelled', quit'} \subseteq BOOLEAN
        /\ UNCHANGED gvars
    BY <1>2 DEF Reset, Start, PostFails, EndPrompt, TakeLine, EndChat,
                InterruptedWaiting, watchVars, Flags, TInv, TerminalTyped
  <2>2. CASE main = "waiting" /\ Goto("closing")
    BY <2>1, <2>2, GotoInv DEF MainPoints
  <2>3. CASE main = "selecting" /\ (Goto("resetting") \/ Goto("closing"))
    BY <2>1, <2>3, GotoInv DEF MainPoints, ChatPoints
  <2>4. CASE main = "resetting" /\ Goto("starting")
    BY <2>1, <2>4, GotoInv DEF MainPoints, ChatPoints
  <2>5. CASE main = "starting" /\ Goto("posting")
    BY <2>1, <2>5, GotoInv DEF MainPoints, ChatPoints
  <2>6. CASE main = "posting" /\ Goto("ended")
    BY <2>1, <2>6, GotoInv DEF MainPoints, ChatPoints
  <2>7. CASE main = "ended" /\ Goto("selecting")
    BY <2>1, <2>7, GotoInv DEF MainPoints, ChatPoints
  <2> QED BY <1>2, <2>2, <2>3, <2>4, <2>5, <2>6, <2>7
          DEF Reset, Start, PostFails, EndPrompt, TakeLine, EndChat,
              InterruptedWaiting
<1>3. ASSUME NEW p \in Prompts, NEW c \in Contents, Post(p, c)
      PROVE  TInv'
  BY <1>3, PostInv
<1>4. CASE ReadEvent \/ AbortPrompt \/ Close \/ Clock
  BY <1>4, PromptOverInv, CloseInv, ClockInv
<1>5. CASE Interrupt \/ WatcherStep
  BY <1>5, WatcherInv
<1>6. ASSUME NEW p \in Prompts, HandlerStep(p) \/ Upstream(p)
      PROVE  TInv'
  BY <1>6, HandlerStepInv, OthersInv
<1>7. CASE Break \/ Controller \/ Sweeper \/ GatewayDies
  BY <1>7, OthersInv
<1>8. CASE UNCHANGED tvars
  <2>1. /\ UNCHANGED gvars
        /\ UNCHANGED <<main, sid, seen, shown, waitLeft, prompt, event, aborted,
                       watcher, sig, streaming, cancelled, quit>>
    BY <1>8 DEF tvars, mainVars, watchVars
  <2>2. GInv' /\ KeepsApproval /\ PairingAges /\ NoNewPrompt
    BY <2>1, GatewayMoves DEF TInv, gvars, mvars, NoNewPrompt
  <2> QED BY <2>1, <2>2, TerminalStays DEF TInv, TerminalTyped
<1> QED BY <1>1, <1>2, <1>3, <1>4, <1>5, <1>6, <1>7, <1>8
        DEF TNext, MainStep, UserStep

\* Whatever the terminal does, it does through the handlers; else the gateway
\* dies.
LEMMA TerminalUsesHandlers ==
  TInv /\ [TNext]_tvars => [GNext]_gvars \/ ManagerDies
<1> SUFFICES ASSUME TInv, [TNext]_tvars PROVE [GNext]_gvars \/ ManagerDies
  OBVIOUS
<1>1. main \notin {"creating", "done"} => sid \in Ids
  BY DEF TInv, TerminalTyped, HasWhatItNeeds
<1>2. main = "streaming" => prompt \in Prompts
  BY DEF TInv, HasWhatItNeeds
<1>3. CASE CreateSession
  BY <1>3 DEF CreateSession, GNext
<1>4. CASE \/ CreateReply \/ PollState \/ PollSettings \/ Polled
           \/ Reset \/ Start \/ PostFails \/ ReadEvent \/ EndPrompt
           \/ UserStep \/ Wake \/ LoadStreaming \/ SwapCancelled
           \/ UNCHANGED tvars
  <2>1. UNCHANGED gvars
    BY <1>4
       DEF CreateReply, PollState, PollSettings, Polled, Reset, Start,
           PostFails, ReadEvent, EndPrompt, UserStep, TakeLine, EndChat,
           InterruptedWaiting, Interrupt, Wake, LoadStreaming, SwapCancelled,
           tvars
  <2> QED BY <2>1
<1>5. ASSUME NEW p \in Prompts, NEW c \in Contents, Post(p, c)
      PROVE  GNext
  BY <1>1, <1>5 DEF Post, GNext
<1>6. CASE Close
  BY <1>1, <1>6 DEF Close, GNext
<1>7. CASE CancelReturns
  <2>1. sid \in Ids \/ UNCHANGED gvars
    BY <1>7 DEF CancelReturns, HandleCancel, CancelGeneration, TInv, GInv, Inv, TypeOK
  <2> QED BY <1>7, <2>1 DEF CancelReturns, GNext
<1>8. CASE AbortPrompt \/ Break
  BY <1>2, <1>8 DEF AbortPrompt, Break, GNext
<1>9. ASSUME NEW p \in Prompts, HandlerStep(p) \/ Upstream(p)
      PROVE  GNext
  BY <1>9 DEF HandlerStep, Upstream, GNext
<1>10. CASE Controller \/ Sweeper \/ Clock
  BY <1>10 DEF Controller, Sweeper, Clock, GNext
<1>11. CASE GatewayDies
  BY <1>11 DEF GatewayDies
<1> QED BY <1>3, <1>4, <1>5, <1>6, <1>7, <1>8, <1>9, <1>10, <1>11
        DEF TNext, MainStep, WatcherStep

-----------------------------------------------------------------------------
(* The theorems *)

\* Terminal and gateway keep their invariants together.
THEOREM TerminalInvariance == TSpec => []TInv
<1> QED BY TInitInv, TNextInv, PTL DEF TSpec

\* Every variable of the terminal and of its gateway keeps its type.
THEOREM TerminalTypeCorrectness == TSpec => []TTypeOK
<1>1. TInv => TTypeOK
  BY DEF TInv, TerminalTyped, GInv, HandlersInv, HandlersTyped, Inv, GTypeOK,
         TTypeOK
<1> QED BY <1>1, TerminalInvariance, PTL

\* When waitApproved gives up at its deadline the gateway will not approve the
\* session any more, or only within the fraction of a second the timeout lost
\* on its way to the terminal (handleCreate, expires_in).
THEOREM GivingUpIsNotTooEarly == TSpec => []PairingOverWhenGivenUp
<1>1. TInv => PairingOverWhenGivenUp
  BY DEF TInv, PairingRunsOut, PairingOverWhenGivenUp
<1> QED BY <1>1, TerminalInvariance, PTL

\* A prompt posted after an answer that was read to its end finds its session
\* approved or gone, never busy.
THEOREM AnswersLeaveSessionReady == TSpec => []ReadyAfterAnswer
<1>1. TInv => ReadyAfterAnswer
  <2> SUFFICES ASSUME TInv, main = "posting", ~aborted, sid \in live
               PROVE  sess[sid].state = "APPROVED"
    BY DEF ReadyAfterAnswer
  <2>1. sid \in Ids /\ sess[sid].state \in LiveStates
    BY DEF TInv, GInv, Inv, TypeOK, MapsAgree
  <2>2. sess[sid].state # "WAITING"
    BY DEF TInv, ToldTheTruth, ChatPoints
  <2>3. \A p \in Prompts : promptOf[p] # sid
    BY <2>1 DEF TInv, OnlyOwnPrompt
  <2>4. sess[sid].state # "ACTIVE"
    BY <2>1, <2>3 DEF TInv, GInv, Inv, OnePromptPerSession
  <2> QED BY <2>1, <2>2, <2>4 DEF LiveStates
<1> QED BY <1>1, TerminalInvariance, PTL

\* The model and the thinking mode the terminal shows are what its prompts are
\* sent upstream with, whatever model the gateway was configured with.
THEOREM ShownSettingsRun == TSpec => []ShowsWhatRuns
<1>1. TInv => ShowsWhatRuns
  <2> SUFFICES ASSUME TInv, main \in ChatPoints, sid \in live
               PROVE  shown = SettingsLine(SentUpstream(ConfiguredModel, sess[sid].settings))
    BY DEF ShowsWhatRuns, ChatPoints
  <2>1. shown = SettingsLine(sess[sid].settings)
    BY DEF TInv, LineIsCurrent
  <2>2. Valid(sess[sid].settings)
    BY DEF TInv, ToldTheTruth, GInv, Inv, ApprovalCarriesCredentials
  <2>3. SentUpstream(ConfiguredModel, sess[sid].settings) = sess[sid].settings
    BY <2>2 DEF SentUpstream, Valid, ProductModels, ModelV4Flash, ModelV4Pro
  <2> QED BY <2>1, <2>3
<1> QED BY <1>1, TerminalInvariance, PTL

\* With a terminal in front of it that loses requests and a gateway that dies
\* at any point, the sessions follow the life cycle and keep their approval.
THEOREM TerminalKeepsLifecycle == TSpec => ImplementsLifecycle /\ ApprovalIsFinal
<1>1. TInit => Lifecycle!Init
  BY LifecycleInit DEF TInit, GInit
<1>2. TInv /\ [TNext]_tvars => [MNext]_mvars \/ ManagerDies
  BY TerminalUsesHandlers, HandlersDriveManager DEF TInv
<1>3. TInv /\ [TNext]_tvars => [Lifecycle!Next]_(Lifecycle!lifecycleVars)
  BY <1>2, LifecycleNext, ManagerDiesRetires DEF TInv, GInv
<1>4. TInv /\ [TNext]_tvars => [KeepsApproval]_mvars
  BY <1>2, StepKeepsApproval, ManagerDiesKeepsApproval DEF TInv, GInv
<1> QED BY <1>1, <1>3, <1>4, TerminalInvariance, PTL
        DEF TSpec, ImplementsLifecycle, ApprovalIsFinal, Lifecycle!Spec

=============================================================================
