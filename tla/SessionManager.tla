--------------------------- MODULE SessionManager ---------------------------
(***************************************************************************)
(* The gateway's session manager (internal/session/manager.go and           *)
(* session.go): the map of sessions, the index by pairing code and the       *)
(* Session objects they point to.                                           *)
(*                                                                         *)
(* Every method of Manager holds m.mu from its first line to its return, so  *)
(* each is one action.  A call that returns an error changes nothing and is  *)
(* a stuttering step; its guard is the negation of the error returns.        *)
(*                                                                         *)
(* Identifiers, pairing tokens and control tokens are fresh random values    *)
(* of 128 bits and more (internal/crypto): those of a session are named by   *)
(* its identifier.  The six digit pairing codes do collide and are a set of  *)
(* their own.  PairExpiry and IdleDeadline are kept as the time left, -1     *)
(* once the deadline has passed (now.After).                                 *)
(*                                                                         *)
(* The callers matter to the manager in one way: a prompt is a sequence of   *)
(* calls (PreparePrompt, SetGenCancel, then one of FinishPrompt, FailPrompt, *)
(* Destroy) made by one HTTP handler around one generation context.          *)
(* promptOf, asked and ctx are that handler's local state.                   *)
(***************************************************************************)
EXTENDS Integers, FiniteSets, SequencesExt, GenerationSettings

CONSTANTS
  Ids,            \* session identifiers NewID may return
  Codes,          \* six digit pairing codes
  Prompts,        \* handlers of POST .../prompt that may run together
  Contents,       \* prompt texts, trimmed and not empty
  Replies,        \* reply texts, not empty
  SettingsInputs, \* settings an approval may carry
  None,           \* Go's empty string, nil map entry or nil func
  MaxSessions,    \* Config.MaxSessions
  PairTimeout,    \* Config.PairTimeout, in ticks
  IdleTimeout,    \* Config.IdleTimeout, in ticks
  MaxHistory      \* bound of the model: messages in one conversation

ASSUME NoneIsNoValue ==
  None \notin Ids \cup Codes \cup Prompts \cup Contents \cup Replies
ASSUME SettingsAreSettings == SettingsInputs \subseteq GenerationSettingsType
ASSUME TimeoutsArePositive ==
  PairTimeout \in Nat \ {0} /\ IdleTimeout \in Nat \ {0}
ASSUME LimitsAreNatural == MaxSessions \in Nat \ {0} /\ MaxHistory \in Nat

VARIABLES
  sess,        \* sess[id]: the Session object
  live,        \* the keys of m.sessions
  byPairCode,  \* byPairCode[c]: the session m.byPairCode maps c to
  promptOf,    \* promptOf[p]: the session handler p runs a prompt of, or None
  asked,       \* asked[p]: the history PreparePrompt returned to p
  ctx          \* ctx[p]: Err() of p's generation context

mvars == <<sess, live, byPairCode, promptOf, asked, ctx>>

-----------------------------------------------------------------------------

Message == [role: {"user", "assistant"}, content: Contents \cup Replies]

User(c)      == [role |-> "user", content |-> c]
Assistant(r) == [role |-> "assistant", content |-> r]

LiveStates == {"WAITING", "APPROVED", "ACTIVE"}

SessionType ==
  [state: LiveStates \cup {"UNBORN", "DESTROYED"},
   pairToken: Ids \cup {None}, pairCode: Codes \cup {None},
   pairLeft: -1..PairTimeout, idleLeft: -1..IdleTimeout,
   controlToken: Ids \cup {None}, settings: GenerationSettingsType,
   history: Seq(Message), genCancel: Prompts \cup {None}]

ContextErrors == {"nil", "Canceled", "DeadlineExceeded"}

NoSession ==
  [state |-> "UNBORN", pairToken |-> None, pairCode |-> None,
   pairLeft |-> 0, idleLeft |-> 0, controlToken |-> None,
   settings |-> NoSettings, history |-> << >>, genCancel |-> None]

\* The object Create puts into the map.
NewSession(id, code) ==
  [NoSession EXCEPT !.state = "WAITING", !.pairToken = id, !.pairCode = code,
                    !.pairLeft = PairTimeout, !.idleLeft = IdleTimeout]

\* What approve makes of a waiting session.
Approved(s, id, settings) ==
  [s EXCEPT !.controlToken = id, !.settings = settings, !.state = "APPROVED"]

\* Mutant of Asked: the idle deadline is pushed back instead of restarted.
AskedExtendsDeadline(s, content) ==
  [s EXCEPT !.history = Append(@, User(content)), !.state = "ACTIVE",
            !.idleLeft = @ + IdleTimeout]

\* What PreparePrompt makes of an approved session.
Asked(s, content) ==
  [s EXCEPT !.history = Append(@, User(content)), !.state = "ACTIVE",
            !.idleLeft = IdleTimeout]

\* Mutant of Finished: the cancel function is not cleared.
FinishedKeepsCancel(s, text) ==
  [s EXCEPT !.history = IF text = None THEN @ ELSE Append(@, Assistant(text)),
            !.state = "APPROVED", !.idleLeft = IdleTimeout]

\* Mutant of Finished: the reply takes the place of the question.
FinishedOverQuestion(s, text) ==
  [s EXCEPT !.history =
              IF text = None THEN @ ELSE Append(Front(@), Assistant(text)),
            !.state = "APPROVED", !.idleLeft = IdleTimeout,
            !.genCancel = None]

\* What FinishPrompt makes of it; text is None when nothing was generated.
Finished(s, text) ==
  [s EXCEPT !.history = IF text = None THEN @ ELSE Append(@, Assistant(text)),
            !.state = "APPROVED", !.idleLeft = IdleTimeout,
            !.genCancel = None]

\* What FailPrompt makes of it: the unanswered question is taken back.
EndsWithQuestion(h) == Len(h) > 0 /\ h[Len(h)].role = "user"

Failed(s) ==
  [s EXCEPT !.history = IF EndsWithQuestion(@) THEN Front(@) ELSE @,
            !.state = "APPROVED", !.idleLeft = IdleTimeout,
            !.genCancel = None]

\* Mutant of Wiped: the control token is forgotten.
WipedKeepsControlToken(s) ==
  [s EXCEPT !.state = "DESTROYED", !.history = << >>,
            !.settings = NoSettings, !.pairToken = None, !.genCancel = None,
            !.pairCode = None, !.pairLeft = 0, !.idleLeft = 0]

\* What destroyLocked leaves of a session.  The deadlines of a session that
\* is in no map mean nothing and are fixed at 0.
Wiped(s) ==
  [s EXCEPT !.state = "DESTROYED", !.history = << >>, !.controlToken = None,
            !.settings = NoSettings, !.pairToken = None, !.genCancel = None,
            !.pairCode = None, !.pairLeft = 0, !.idleLeft = 0]

\* Mutant of Expired: only pairing expires.
ExpiredPairingOnly(s) == s.state = "WAITING" /\ s.pairLeft < 0

\* The test Sweep applies to every session in the map.
Expired(s) ==
  \/ s.state = "WAITING" /\ s.pairLeft < 0
  \/ s.state = "APPROVED" /\ s.idleLeft < 0

\* Mutant of Approvable: only the pairing deadline is looked at.
ApprovableTwice(s) == s.pairLeft >= 0

\* approve refuses a session that is expired or not waiting.
Approvable(s) == s.pairLeft >= 0 /\ s.state = "WAITING"

\* A context keeps the first reason it was ended for.
EndedBy(reason, err) == IF err = "nil" THEN reason ELSE err

\* Mutant of DestroyAll: the code index is not cleaned.
DestroyAllKeepsCodes(S) ==
  /\ sess' = [id \in Ids |-> IF id \in S THEN Wiped(sess[id]) ELSE sess[id]]
  /\ live' = live \ S
  /\ ctx' = [p \in Prompts |->
       IF \E id \in S : sess[id].genCancel = p
       THEN EndedBy("Canceled", ctx[p]) ELSE ctx[p]]
  /\ UNCHANGED <<byPairCode, promptOf, asked>>

\* Mutant of DestroyAll: the generations are left running.
DestroyAllKeepsGenerating(S) ==
  /\ sess' = [id \in Ids |-> IF id \in S THEN Wiped(sess[id]) ELSE sess[id]]
  /\ live' = live \ S
  /\ byPairCode' = [c \in Codes |->
       IF \E id \in S : sess[id].pairCode = c THEN None ELSE byPairCode[c]]
  /\ UNCHANGED <<promptOf, asked, ctx>>

\* destroyLocked(id) for every id of S: one for Destroy, several for Sweep.
\* The index loses every entry with the code of a destroyed session, also when
\* the entry had come to name another session.
DestroyAll(S) ==
  /\ sess' = [id \in Ids |-> IF id \in S THEN Wiped(sess[id]) ELSE sess[id]]
  /\ live' = live \ S
  /\ byPairCode' = [c \in Codes |->
       IF \E id \in S : sess[id].pairCode = c THEN None ELSE byPairCode[c]]
  /\ ctx' = [p \in Prompts |->
       IF \E id \in S : sess[id].genCancel = p
       THEN EndedBy("Canceled", ctx[p]) ELSE ctx[p]]
  /\ UNCHANGED <<promptOf, asked>>

\* The process ends, and with it the maps, the sessions and the handlers.
ManagerDies ==
  /\ sess' = [id \in Ids |->
       IF sess[id].state = "UNBORN" THEN NoSession ELSE Wiped(sess[id])]
  /\ live' = {} /\ byPairCode' = [c \in Codes |-> None]
  /\ promptOf' = [p \in Prompts |-> None]
  /\ asked' = [p \in Prompts |-> << >>]
  /\ ctx' = [p \in Prompts |-> "nil"]

-----------------------------------------------------------------------------

MInit ==
  /\ sess = [id \in Ids |-> NoSession]
  /\ live = {}
  /\ byPairCode = [c \in Codes |-> None]
  /\ promptOf = [p \in Prompts |-> None]
  /\ asked = [p \in Prompts |-> << >>]
  /\ ctx = [p \in Prompts |-> "nil"]

\* Mutant of Create: one session too many.
CreateOneMore(id, code) ==
  /\ Cardinality(live) <= MaxSessions
  /\ sess[id].state = "UNBORN"
  /\ sess' = [sess EXCEPT ![id] = NewSession(id, code)]
  /\ live' = live \cup {id}
  /\ byPairCode' = [byPairCode EXCEPT ![code] = id]
  /\ UNCHANGED <<promptOf, asked, ctx>>

Create(id, code) ==
  /\ Cardinality(live) < MaxSessions
  /\ sess[id].state = "UNBORN"
  /\ sess' = [sess EXCEPT ![id] = NewSession(id, code)]
  /\ live' = live \cup {id}
  /\ byPairCode' = [byPairCode EXCEPT ![code] = id]
  /\ UNCHANGED <<promptOf, asked, ctx>>

\* Mutant of approve: the settings are not validated.
approveAnySettings(id, settings) ==
  /\ Approvable(sess[id])
  /\ sess' = [sess EXCEPT ![id] = Approved(@, id, settings)]
  /\ UNCHANGED <<live, byPairCode, promptOf, asked, ctx>>

approve(id, settings) ==
  /\ Approvable(sess[id])
  /\ Valid(settings)
  /\ sess' = [sess EXCEPT ![id] = Approved(@, id, settings)]
  /\ UNCHANGED <<live, byPairCode, promptOf, asked, ctx>>

ApproveByTokenWithSettings(token, settings) ==
  \E id \in live : sess[id].pairToken = token /\ approve(id, settings)

ApproveByCodeWithSettings(code, settings) ==
  /\ byPairCode[code] # None
  /\ approve(byPairCode[code], settings)

EndByControlToken(id, token) ==
  /\ id \in live
  /\ token # None /\ sess[id].controlToken = token
  /\ DestroyAll({id})

\* Mutant of PreparePrompt: an ACTIVE session is prompted again.
PreparePromptTwice(p, id, content) ==
  /\ promptOf[p] = None
  /\ id \in live
  /\ sess[id].state \in {"APPROVED", "ACTIVE"}
  /\ Len(sess[id].history) < MaxHistory
  /\ sess' = [sess EXCEPT ![id] = Asked(@, content)]
  /\ asked' = [asked EXCEPT ![p] = Append(sess[id].history, User(content))]
  /\ promptOf' = [promptOf EXCEPT ![p] = id]
  /\ UNCHANGED <<live, byPairCode, ctx>>

\* Mutant of PreparePrompt: the history is copied before the question joins it.
PreparePromptCopiesFirst(p, id, content) ==
  /\ promptOf[p] = None
  /\ id \in live
  /\ sess[id].state = "APPROVED"
  /\ Len(sess[id].history) < MaxHistory
  /\ sess' = [sess EXCEPT ![id] = Asked(@, content)]
  /\ asked' = [asked EXCEPT ![p] = sess[id].history]
  /\ promptOf' = [promptOf EXCEPT ![p] = id]
  /\ UNCHANGED <<live, byPairCode, ctx>>

\* Handler p asks and gets the whole history back; it then makes the context
\* its generation runs under.
PreparePrompt(p, id, content) ==
  /\ promptOf[p] = None
  /\ id \in live
  /\ sess[id].state = "APPROVED"
  /\ Len(sess[id].history) < MaxHistory
  /\ sess' = [sess EXCEPT ![id] = Asked(@, content)]
  /\ asked' = [asked EXCEPT ![p] = Append(sess[id].history, User(content))]
  /\ promptOf' = [promptOf EXCEPT ![p] = id]
  /\ UNCHANGED <<live, byPairCode, ctx>>

SetGenCancel(p) ==
  /\ promptOf[p] \in live
  /\ sess' = [sess EXCEPT ![promptOf[p]].genCancel = p]
  /\ UNCHANGED <<live, byPairCode, promptOf, asked, ctx>>

\* The handler is done with the prompt; its context is not read again.
Release(p) ==
  /\ promptOf' = [promptOf EXCEPT ![p] = None]
  /\ asked' = [asked EXCEPT ![p] = << >>]
  /\ ctx' = [ctx EXCEPT ![p] = "nil"]

FinishPrompt(p, text) ==
  /\ promptOf[p] \in live
  /\ sess' = [sess EXCEPT ![promptOf[p]] = Finished(@, text)]
  /\ Release(p)
  /\ UNCHANGED <<live, byPairCode>>

FailPrompt(p) ==
  /\ promptOf[p] \in live
  /\ sess' = [sess EXCEPT ![promptOf[p]] = Failed(@)]
  /\ Release(p)
  /\ UNCHANGED <<live, byPairCode>>

\* FinishPrompt and FailPrompt return at once when the session is gone, and
\* so does the handler that destroyed it.
ReturnToDestroyed(p) ==
  /\ promptOf[p] # None /\ promptOf[p] \notin live
  /\ Release(p)
  /\ UNCHANGED <<sess, live, byPairCode>>

CancelGeneration(id) ==
  /\ id \in live
  /\ sess[id].genCancel # None
  /\ sess' = [sess EXCEPT ![id].genCancel = None]
  /\ ctx' = [ctx EXCEPT ![sess[id].genCancel] = EndedBy("Canceled", @)]
  /\ UNCHANGED <<live, byPairCode, promptOf, asked>>

Destroy(id) ==
  /\ id \in live
  /\ DestroyAll({id})

Sweep ==
  /\ \E id \in live : Expired(sess[id])
  /\ DestroyAll({id \in live : Expired(sess[id])})

\* The handler's own context ends: its timer fires or the client goes away.
EndContext(p, reason) ==
  /\ promptOf[p] # None
  /\ ctx' = [ctx EXCEPT ![p] = EndedBy(reason, @)]
  /\ UNCHANGED <<sess, live, byPairCode, promptOf, asked>>

\* The clock.
Less(left) == IF left < 0 THEN left ELSE left - 1

Tick ==
  /\ sess' = [id \in Ids |->
       IF id \in live
       THEN [sess[id] EXCEPT !.pairLeft = Less(@), !.idleLeft = Less(@)]
       ELSE sess[id]]
  /\ UNCHANGED <<live, byPairCode, promptOf, asked, ctx>>

-----------------------------------------------------------------------------

MNext ==
  \/ \E id \in Ids, c \in Codes : Create(id, c)
  \/ \E id \in Ids, s \in SettingsInputs : ApproveByTokenWithSettings(id, s)
  \/ \E c \in Codes, s \in SettingsInputs : ApproveByCodeWithSettings(c, s)
  \/ \E id, token \in Ids : EndByControlToken(id, token)
  \/ \E p \in Prompts, id \in Ids, c \in Contents : PreparePrompt(p, id, c)
  \/ \E p \in Prompts : SetGenCancel(p)
  \/ \E p \in Prompts, text \in Replies \cup {None} : FinishPrompt(p, text)
  \/ \E p \in Prompts : FailPrompt(p)
  \/ \E p \in Prompts : ReturnToDestroyed(p)
  \/ \E id \in Ids : CancelGeneration(id)
  \/ \E id \in Ids : Destroy(id)
  \/ Sweep
  \/ \E p \in Prompts, r \in ContextErrors \ {"nil"} : EndContext(p, r)
  \/ Tick

MSpec == MInit /\ [][MNext]_mvars

-----------------------------------------------------------------------------

\* Every variable has its type.
TypeOK ==
  /\ sess \in [Ids -> SessionType]
  /\ live \subseteq Ids
  /\ byPairCode \in [Codes -> Ids \cup {None}]
  /\ promptOf \in [Prompts -> Ids \cup {None}]
  /\ asked \in [Prompts -> Seq(Message)]
  /\ ctx \in [Prompts -> ContextErrors]

\* The two maps and the objects agree: a session is in the map exactly while
\* it is in one of the three live states, it carries its own pairing token,
\* and an entry of the code index leads to a live session with that code
\* (never to a destroyed object, which approve would bring back to life).
MapsAgree ==
  /\ \A id \in Ids : id \in live <=> sess[id].state \in LiveStates
  /\ \A id \in live : sess[id].pairToken = id
  /\ \A c \in Codes : byPairCode[c] # None =>
       byPairCode[c] \in live /\ sess[byPairCode[c]].pairCode = c

\* Nothing of a session outlives it ("No data survives", Destroy): no
\* conversation, no credential, no settings, no cancel function.
NothingSurvives ==
  \A id \in Ids \ live :
    sess[id] \in {NoSession, [NoSession EXCEPT !.state = "DESTROYED"]}

\* The control token and the settings exist exactly from approval on, and the
\* token is the session's own: nobody can end a session that was not approved,
\* and no prompt runs with settings nobody chose.
ApprovalCarriesCredentials ==
  \A id \in live :
    IF sess[id].state = "WAITING"
    THEN sess[id].controlToken = None /\ sess[id].settings = NoSettings
    ELSE sess[id].controlToken = id /\ Valid(sess[id].settings)

\* A session is ACTIVE exactly while one handler runs a prompt of it, and never
\* two: FinishPrompt and FailPrompt, which name a session and not a prompt,
\* can only meet the prompt of the handler that calls them.
OnePromptPerSession ==
  /\ \A id \in live :
       sess[id].state = "ACTIVE" <=> \E p \in Prompts : promptOf[p] = id
  /\ \A p, q \in Prompts :
       promptOf[p] # None /\ promptOf[p] = promptOf[q] => p = q
  /\ \A p \in Prompts :
       promptOf[p] # None => sess[promptOf[p]].state # "UNBORN"

\* The copy of the history a handler works from is never stale: until the
\* handler reports back, the session holds exactly the messages the provider
\* was given, so the reply lands under the question it answers.
HistoryIsWhatWasAsked ==
  \A p \in Prompts :
    promptOf[p] \in live => sess[promptOf[p]].history = asked[p]

\* A registered cancel function belongs to the generation now running for that
\* session, so a cancel that finds one never stops anything else.
CancelReachesOwnGeneration ==
  \A id \in live :
    sess[id].genCancel # None => promptOf[sess[id].genCancel] = id

\* A reply stands only under a question, and a running prompt is the last
\* message: FailPrompt always has its question to take back.
RepliesFollowQuestions ==
  \A id \in live :
    LET h == sess[id].history
    IN  /\ \A i \in 1..Len(h) :
             h[i].role = "assistant" => i > 1 /\ h[i-1].role = "user"
        /\ sess[id].state = "ACTIVE" => EndsWithQuestion(h)

\* Destroying a session, by whatever call, ends the generation registered with
\* it in the same step: no generation runs on unreachable.
DestroyEndsGeneration ==
  [][\A id \in Ids, p \in Prompts :
       id \in live \ live' /\ sess[id].genCancel = p => ctx'[p] # "nil"]_mvars

\* Approval is final: whatever runs between two handlers, an approved session
\* is never waiting again, and as long as it exists it keeps the settings and
\* the control token it was approved with (approve, ErrAlreadyApproved).
KeepsApproval ==
  \A id \in Ids :
    sess[id].state \notin {"UNBORN", "WAITING"} =>
      /\ sess'[id].state \notin {"UNBORN", "WAITING"}
      /\ id \in live' =>
           /\ id \in live
           /\ sess'[id].settings = sess[id].settings
           /\ sess'[id].controlToken = sess[id].controlToken

ApprovalIsFinal == [][KeepsApproval]_mvars

\* The conversation of an ACTIVE session is its log and the prompt being
\* answered.
LogOf(s) == IF s.state = "ACTIVE" THEN Front(s.history) ELSE s.history

PendingOf(s) == IF s.state = "ACTIVE" THEN Last(s.history).content ELSE None

\* The variables of the session life cycle the manager implements.
phaseBar   == [id \in Ids |-> sess[id].state]
logBar     == [id \in Ids |-> LogOf(sess[id])]
pendingBar == [id \in Ids |-> PendingOf(sess[id])]

Lifecycle == INSTANCE SessionLifecycle WITH
  phase <- phaseBar, log <- logBar, pending <- pendingBar,
  Capacity <- MaxSessions

\* Every step of the manager is a step of the abstract life cycle: capacity is
\* kept, a prompt commits or leaves no trace, and a destroyed session never
\* comes back (docs/protocol.md, state machine).
ImplementsLifecycle == Lifecycle!Spec

\* No session stays unless it is used: a session that is waiting or approved
\* is eventually prompted or removed.
UnusedSessionsAreReclaimed ==
  \A id \in Ids :
    id \in live ~> (id \notin live \/ sess[id].state = "ACTIVE")

-----------------------------------------------------------------------------
(* What a document says and the manager does not keep *)

\* docs/protocol.md, life cycle of a message: a pairing code approves the
\* session it was issued for.  Create does not look whether the code is taken.
WaitingSessionsOwnTheirCode ==
  \A id \in live :
    sess[id].state = "WAITING" => byPairCode[sess[id].pairCode] = id

=============================================================================
