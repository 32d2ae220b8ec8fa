--------------------------- MODULE GatewayProcess ---------------------------
(***************************************************************************)
(* The life of dsgateway (cmd/dsgateway/main.go): it starts, serves, drains  *)
(* after SIGTERM for as long as Shutdown waits, or dies, and starts again    *)
(* with nothing.  While it serves, a creation is two steps: the limiter's    *)
(* and the manager's; everything else is an operation of SessionManager.     *)
(*                                                                         *)
(* After SIGTERM the listener is closed: no request begins, those that run   *)
(* go on.  The sweeper is told by the same context, and may sweep once more  *)
(* before it looks.                                                         *)
(***************************************************************************)
EXTENDS SessionManager, CreateLimiter, Config

CONSTANTS
  Creators,   \* handlers of POST /v1/sessions that may run together
  EnvNumbers, \* the numbers of the environment
  EnvTexts,   \* the texts of the environment
  DrainTime   \* how long Shutdown waits: 2 s

\* The manager's constants are what main configures it with.
ASSUME ConfiguredFromEnvironment ==
  LET cfg == ManagerConfig(EnvNumbers)
  IN  PairTimeout = cfg.pair /\ IdleTimeout = cfg.idle /\ MaxSessions = cfg.max
ASSUME DrainTimeIsNatural == DrainTime \in Nat

VARIABLES
  process,    \* "down", "serving" or "draining"
  drainLeft,  \* time left of Shutdown's context
  creator     \* creator[c]: where a handler of POST /v1/sessions is

pvars == <<mvars, limiterVars, process, drainLeft, creator>>

-----------------------------------------------------------------------------

PInit ==
  /\ MInit /\ LimiterInit
  /\ process = "down" /\ drainLeft = 0
  /\ creator = [c \in Creators |-> "idle"]

\* Nothing of the sessions, the limiter or the handlers is left.
Die ==
  /\ ManagerDies
  /\ stamps' = << >> /\ granted' = << >>
  /\ creator' = [c \in Creators |-> "idle"]
  /\ process' = "down" /\ drainLeft' = 0

\* main up to its wait.  Without a key and without -mock it ends at once.
StartServing(mock) ==
  /\ process = "down"
  /\ CanServe(EnvTexts, mock)
  /\ process' = "serving"
  /\ UNCHANGED <<mvars, limiterVars, drainLeft, creator>>

\* SIGTERM, or ListenAndServe has failed.
Stop ==
  /\ process = "serving"
  /\ process' = "draining" /\ drainLeft' = DrainTime
  /\ UNCHANGED <<mvars, limiterVars, creator>>

HandlersDone ==
  /\ \A c \in Creators : creator[c] = "idle"
  /\ \A p \in Prompts : promptOf[p] = None

\* Mutant of Exit: Shutdown gets a context without a deadline.
ExitWhenDone == process = "draining" /\ HandlersDone /\ Die

\* Shutdown returns, and main.
Exit == process = "draining" /\ (HandlersDone \/ drainLeft < 0) /\ Die

Crash == process # "down" /\ Die

-----------------------------------------------------------------------------
(* POST /v1/sessions *)

\* The limiter, under its own mutex.
Allow(c) ==
  /\ process = "serving" /\ creator[c] = "idle"
  /\ \/ Grant /\ creator' = [creator EXCEPT ![c] = "allowed"]
     \/ Deny /\ creator' = [creator EXCEPT ![c] = "refused"]
  /\ UNCHANGED <<mvars, process, drainLeft>>

\* The place in the window is used, whether a session comes of it or not.
CreateAllowed(c) ==
  /\ process # "down" /\ creator[c] = "allowed"
  /\ \/ \E id \in Ids, code \in Codes : Create(id, code)
     \/ Cardinality(live) >= MaxSessions /\ UNCHANGED mvars
  /\ creator' = [creator EXCEPT ![c] = "replying"]
  /\ UNCHANGED <<limiterVars, process, drainLeft>>

ReplyCreated(c) ==
  /\ process # "down" /\ creator[c] \in {"refused", "replying"}
  /\ creator' = [creator EXCEPT ![c] = "idle"]
  /\ UNCHANGED <<mvars, limiterVars, process, drainLeft>>

-----------------------------------------------------------------------------
(* The manager's other operations *)

Served(operation) ==
  /\ process = "serving" /\ operation
  /\ UNCHANGED <<limiterVars, process, drainLeft, creator>>

GoesOn(operation) ==
  /\ process # "down" /\ operation
  /\ UNCHANGED <<limiterVars, process, drainLeft, creator>>

Request ==
  \/ \E code \in Codes, s \in SettingsInputs : ApproveByCodeWithSettings(code, s)
  \/ \E id, token \in Ids : EndByControlToken(id, token)
  \/ \E p \in Prompts, id \in Ids, c \in Contents : PreparePrompt(p, id, c)
  \/ \E id \in Ids : CancelGeneration(id) \/ Destroy(id)

HandlerContinues ==
  \E p \in Prompts :
    \/ SetGenCancel(p) \/ FailPrompt(p) \/ ReturnToDestroyed(p)
    \/ \E text \in Replies \cup {None} : FinishPrompt(p, text)
    \/ \E r \in ContextErrors \ {"nil"} : EndContext(p, r)

\* One clock for the limiter, the sessions and Shutdown.
ProcessTick ==
  /\ Tick /\ LimiterTick
  /\ drainLeft' = IF process = "draining" THEN Less(drainLeft) ELSE 0
  /\ UNCHANGED <<process, creator>>

PNext ==
  \/ \E mock \in BOOLEAN : StartServing(mock)
  \/ Stop \/ Exit \/ Crash
  \/ \E c \in Creators : Allow(c) \/ CreateAllowed(c) \/ ReplyCreated(c)
  \/ Served(Request)
  \/ GoesOn(HandlerContinues \/ Sweep)
  \/ ProcessTick

\* The clock runs, the sweeper of a process that serves sweeps, and main
\* returns; handlers may hang for ever.
PFairness ==
  WF_pvars(ProcessTick) /\ WF_pvars(Served(Sweep)) /\ WF_pvars(Exit)

PSpec == PInit /\ [][PNext]_pvars /\ PFairness

-----------------------------------------------------------------------------

\* Every variable has its type, and a process that is down has nothing.
PTypeOK ==
  /\ TypeOK
  /\ stamps \in Seq(0..Window + 1) /\ Len(stamps) <= Limit
  /\ granted \in Seq(0..Window + 1) /\ Len(granted) <= Limit
  /\ process \in {"down", "serving", "draining"}
  /\ drainLeft \in -1..DrainTime
  /\ creator \in [Creators -> {"idle", "allowed", "refused", "replying"}]
  /\ process = "down" => live = {} /\ HandlersDone /\ stamps = << >>

\* Within one life of the process any window, wherever it begins, holds at most
\* Limit allowed creations: the limiter slides, its comment calls it fixed.
NoBurst ==
  [][\A c \in Creators :
       creator[c] = "idle" /\ creator'[c] = "allowed" =>
         Len(granted) < Limit \/ granted[1] >= Window]_pvars

\* A creation is refused only when Limit of them were allowed within the last
\* Window ticks: an older burst, or one before a restart, never costs a later
\* user a session.
RefusedOnlyWhenFull ==
  [][\A c \in Creators :
       creator[c] = "idle" /\ creator'[c] = "refused" =>
         Len(granted) = Limit /\ granted[1] < Window]_pvars

\* Also when the process dies at any point and starts again, and when several
\* creations are between the limiter and the manager, what happens to the
\* sessions is the abstract life cycle: the capacity is kept, and no session of
\* an earlier life comes back (ImplementsLifecycle of SessionManager).
LifecycleAcrossRestarts == ImplementsLifecycle

\* A gateway that was told to stop ends, whatever its handlers wait for.
ShutdownEnds == process = "draining" ~> process = "down"

=============================================================================
