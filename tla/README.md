# Verification of DeepSeek Terminal

TLA+ models of the session gateway (`dsgateway`), of its terminal client (`ds`)
and of the app that approves sessions (`ios/DSRemote`), TLC configurations that
check them on small instances, and TLAPS proofs, for every instance, of all the
safety properties those runs check.

## 1. The system

A terminal asks the gateway for a session and shows a QR code and a six digit
pairing code. A controller (the iOS app, or `dsgateway approve`) approves the
session by token or code and receives a control token. From then on the
terminal sends prompts; the gateway streams DeepSeek's answers back and keeps
the conversation in memory. Sessions end by `/exit`, by the controller, by
disconnection or by timeout, and nothing of them is kept.

| Component | Source | State | Operations | What makes it correct |
|---|---|---|---|---|
| Session manager | `internal/session` | `sessions`, `byPairCode`, the `Session` objects | create, approve (token, code), prepare / finish / fail prompt, register and call a cancel, end, destroy, sweep | the maps agree, nothing survives destruction, one prompt at a time, prompts are transactions on the history |
| Gateway handlers | `internal/gateway/handlers.go`, `server.go` | local variables of concurrent handlers, a generation context each | one handler per route, the SSE stream of a prompt, the disconnect watcher | every prompt ends, in the call of the manager its outcome asks for, with the approved settings |
| Creation limiter | `internal/gateway/ratelimit.go` | time stamps | `Allow` | exactly `limit` creations in any window |
| DeepSeek client | `internal/provider/deepseek` | none | `StreamCompletion` | a cancelled stream keeps its text; only valid settings are sent |
| Generation settings | `internal/provider/settings.go` | none | `ParseSettings`, `Valid`, defaults | only normalized combinations leave the parser |
| Terminal REPL | `internal/client/cli.go`, `cmd/ds` | `streaming`, `cancelled`, `quit`, the session | pairing wait, chat loop, SIGINT goroutine, teardown | Ctrl+C cancels or quits, no session stays behind |
| Terminal transport | `internal/client/transport.go` | none | create, status, prompt, cancel, close | lost calls are errors, a stream ends once |
| SSE framing | `internal/protocol/sse.go` | the reader's event and data lines | `WriteSSE`, `ReadSSE` | what is read is what was written, or an error |
| Pairing codes | `internal/protocol/types.go`, `client/qr.go` | none | formatting, normalizing, the QR payload | a code that is shown leads to its session |
| iOS controller | `ios/DSRemote` | `AppViewModel`: phase, code, token, `isApproving`, `lastQRProcessed` | scan, approve, end, settings, API key | one approval at a time, the session on display is the one that was approved |
| Gateway process | `cmd/dsgateway`, `internal/config` | the process, its environment | start, serve, drain, die; `approve` | a usable configuration, shutdown ends, nothing survives a restart |
| Mock provider, crypto, QR drawing, deployment | the rest | none | pure I/O | |

How they interact: the terminal and the controller call the gateway over HTTP;
every handler is a goroutine that makes one or more calls of the manager, each
under the manager's mutex; the sweeper goroutine calls `Sweep` every second; a
prompt's handler runs the DeepSeek client under a context that its timer, its
watcher (client gone), the manager (`/cancel`, destroy) can end.

What is hard here: two handlers interleave between calls of the manager; a
handler keeps an id, a copy of the history or a pointer to a session while
another destroys it; the outcome of a prompt is chosen among racing causes;
DeepSeek may never answer; requests may be lost, late or repeated; a connection
breaks inside an event; the process dies; the REPL's goroutines share two
atomics and race the gateway; the app's tasks are suspended while the user goes
on. `PROJECT.json` lists these
hazards at their lines, with the properties that cover them.

## 2. Modules

| Module | Models | Built on |
|---|---|---|
| `GenerationSettings` | `settings.go` and the settings part of `StreamCompletion`, as operators | |
| `SessionLifecycle` | abstract: what the gateway promises about sessions | |
| `SessionManager` | `manager.go`, `session.go` | `GenerationSettings`; implements `SessionLifecycle` |
| `Gateway` | `handlers.go` with the control of `deepseek.go` | extends `SessionManager`; implements `MSpec` |
| `Answer` | abstract: what one prompt promises | |
| `AnswerStream` | `sse.go`, `deepseek.go`, `streamPrompt` and `Prompt`, along the way of one answer | implements `Answer` |
| `Filter` | the loop of `NormalizePairCode` and `Allow` that keeps some elements, as a recursive function | |
| `CreateLimiter` | `ratelimit.go` | `Filter` |
| `Config` | `config.go` and the defaults of `session.New`, `gateway.New`, as operators | `GenerationSettings` |
| `GatewayProcess` | `cmd/dsgateway`, `handleCreate` | composes `SessionManager`, `CreateLimiter`, `Config` |
| `Terminal` | `cli.go`, `transport.go`, `cmd/ds`, `handleStatus` | extends `Gateway` |
| `PairingCode` | codes in `types.go`, `qr.go`, `PairingCode.swift`, `QRPairingParser.swift`, as operators | `Filter` |
| `Controller` | `AppViewModel`, its views, `GatewayClient`, `dsgateway approve` | extends `Gateway`, `PairingCode` |
| `SessionManagerProofs` | theorems about the manager | `SessionManager` |
| `LifecycleProofs` | the manager implements `SessionLifecycle` | `SessionManagerProofs` |
| `GatewayProofs` | theorems about settings and handlers | `LifecycleProofs` |
| `AnswerStreamProofs` | theorems about the answer's way; it implements `Answer` | |
| `TerminalProofs` | theorems about the REPL over the gateway | `GatewayProofs` |
| `PairingCodeProofs` | what the filter computes; codes come back | |
| `ControllerProofs` | theorems about the app over the gateway | `GatewayProofs`, `PairingCodeProofs` |
| `GatewayProcessProofs` | theorems about environment, limiter, restarts | `LifecycleProofs`, `PairingCodeProofs` |
| `MCSessionManager`, `MCGateway`, `MCGatewayProcess`, `MCTerminal`, `MCAnswerStream`, `MCController` | values of the constants for TLC | |

Definitions whose comment begins with "Mutant of" are wrong on purpose: each is
a plausible bug in the definition that follows, and the property named with it
in `PROJECT.json` must fail when it takes that definition's place.

### SessionManager

`sess[id]` is the `Session` object, `live` the keys of `m.sessions`,
`byPairCode` the code index. Every method holds `m.mu` from its first line to
its return and is one action; error returns change nothing and are the negation
of its guard. `Create` is refused at `MaxSessions` and overwrites the index
entry of a code that is taken; `DestroyAll` is `destroyLocked` for one session
or, in `Sweep`, for several. Identifiers and tokens are 128 random bits or more
and are taken as fresh; a session's tokens are named by its identifier.
Six digit codes do collide. Deadlines are kept as the time left, with -1 for
"passed" (`now.After`).

The manager cannot be understood without how it is called: a prompt is
`PreparePrompt`, `SetGenCancel` and one of `FinishPrompt`, `FailPrompt`,
`Destroy` by one handler around one context. `promptOf`, `asked` and `ctx` are
that handler's local variables; the runs of `Gateway` show that its handlers
really call the manager that way (`ImplementsManager`).

### Gateway

`prompter[p]` and `approver[a]` are records with a program counter and the
locals of `handlePrompt`/`streamPrompt` and `handleApprove`. Every point
between two calls of the manager is a point of its own, so the sweeper, a
cancel, a close or the clock can come in between. `StreamCompletion` is the
points "connecting" and "streaming": `Connect`, `Delta`, `StreamEnds`,
`StreamFails`, and `StreamStops` for a context that is done. `Verdict` is the
order of the cases in `streamPrompt`, read without a lock (`Judge`) before the
manager is told (`Settle`), before the last event is written (`Reply`).

`s.State` in `handleApprove` is read while other goroutines may write it. A Go
string is two words, so the read is two steps, and a mix of two states is the
value `"TORN"`.

### Terminal

`main` is where `Run`, `waitApproved` and `doPrompt` are; `watcher` is the
signal goroutine, with `streaming.Load` and `cancelled.Swap` as separate steps.
The gateway behind it is the module `Gateway` itself. Each request may be lost
before or after the gateway has handled it; `Break` and `AbortPrompt` end a
stream from the network and from the client (its overall timeout, a bad event,
a closed output). `GatewayDies` ends the gateway's process with everything in
it; that requests are lost while it is down is the loss that is there anyway.
A poll is two steps, because `handleStatus` reads the state and the settings
under two locks. The gateway tells its timeout in whole seconds (`ExpiresIn`).
Both clocks run at one rate. The approver's steps after the approval only make
the controller's reply and are left to the other runs.

### AnswerStream

A frame of the event stream is its three lines, because a connection can break
between two lines or inside one, and `bufio.Scanner` hands the piece of a line
that is left to `ReadSSE` like any other line. A text is the sequence of the
pieces it was generated in; `LongDeltas` are pieces that do not fit the
reader's buffer. `written` and `said` are history variables. `Answer` is the
promise, without frames, goroutines or connections: a prefix on the screen, all
or nothing in memory, and equality when the terminal is told the answer is
finished.

### GatewayProcess

`Die` is what remains of a process: nothing. `Stop`, `Exit` and `Crash` are its
ways there. `handleCreate` is three steps, so several creations can be between
the limiter and the manager, and a creation that finds no room has used its
place in the window. The limiter's stamps are kept as ages; `granted` is a
history variable. The manager's constants are `ManagerConfig` of an
environment (`ConfiguredFromEnvironment`, evaluated by TLC).

### Controller

`AppViewModel` is bound to the main actor, so its code runs undisturbed between
two awaits. Each `Task` a view starts is a record: queued until the main actor
gets to it, confirming (biometrics), sent, served, answered. Meanwhile the user
types, picks, scans and taps whatever the views leave enabled. A request is
lost, or its answer is; one the app has given up may arrive later (`stray`);
iOS may end the app. Pairing codes are texts here, so that what the terminal
shows, a person types, a camera reads and the gateway normalizes is the chain
of functions in `PairingCode`.

## 3. What the runs check

The bound of every run is small, and each is chosen so that the interesting
case is inside it.

| Run | States | Bounds | Shows |
|---|---|---|---|
| `SessionManager_safety` | 335,743 | 3 identifiers for 2 places, 2 codes, 2 handlers, 2 messages, 2 valid settings and 1 that approval refuses, deadlines of one tick | the invariants below, and that every step is a step of `SessionLifecycle` |
| `Gateway` | 191,878 | 1 session, 2 prompt handlers, 1 approval, 2 messages | settings, readiness, `ImplementsManager`, prompts end, disconnection ends the session |
| `GatewayProcess` | 119,141 | 2 sessions, 1 place, 2 creations at a time, 2 creations per 2 ticks, 1 handler | limiter, restarts, shutdown, unused sessions are reclaimed |
| `Terminal_safety` | 1,476,454 | 1 session, 2 kinds of settings, 2 gateway handlers (the old one may still run when the next prompt is sent), 2 ticks a second | deadlines, readiness for the next prompt, the settings line |
| `Terminal_liveness` | 176,200 | 1 session, 1 handler | quitting ends, nothing is left behind |
| `AnswerStream` | 336,297 | answers of up to 3 pieces, 3 texts of which 1 is too long, 2 finish reasons | `Answer` is implemented, reasons are true, `Prompt` returns |
| `Controller` | 568,248 | 2 sessions that share one code, 2 tasks, 2 selections, a field that is empty or holds the code as shown | approvals, the session on display, codes |

Why these are enough: two sessions and two codes give every pattern of
collision; a third identifier is needed to see the limit of two at work and a
place used again. Two handlers give every race of two prompts, and at most one
can be between `PreparePrompt` and its end for a session (proved). History
matters by its last message and by where replies stand. Deadlines matter by
"passed" or "not passed" at each step, for which one or two ticks suffice.
Two tasks of the app give every pair of overlapping taps; a request given up
is a third. Two sessions with one code let a late request meet the wrong
session. Three pieces of text give a first, a middle and a last frame to break.
`MaxHistory` and `MaxDeltas` are bounds of the model only, and so are the
saturated ages of the limiter.

Invariants and action properties of `SessionManager`:

- `MapsAgree`: `m.sessions`, `m.byPairCode` and the objects tell one story, even
  after collisions; no entry leads to a destroyed object.
- `NothingSurvives`: no conversation, token, setting or cancel function outlives
  its session.
- `ApprovalCarriesCredentials`: token and valid settings exactly from approval.
- `OnePromptPerSession`, `HistoryIsWhatWasAsked`, `CancelReachesOwnGeneration`:
  the calls that name a session and not a prompt (`FinishPrompt`, `FailPrompt`,
  `CancelGeneration`) can only meet the prompt they are for, and the copy of the
  history a handler works from never becomes stale.
- `RepliesFollowQuestions`: the shape of the conversation.
- `DestroyEndsGeneration`: destruction cancels what is registered, at once.
- `ApprovalIsFinal`: what is approved is never waiting again, and keeps its token
  and settings while it exists; an identifier that was destroyed stays so.
- `ImplementsLifecycle`: capacity, single approval, prompts as transactions,
  destruction for ever.

Of `Gateway`: `RunsWithApprovedSettings`, `DoneMeansReady` (the last event is
sent when the session can take the next prompt), `ImplementsManager`,
`PromptsEnd`, `DisconnectEndsSession`; `ApproveReplyHasToken` is checked in the
run of `Controller`, where two sessions are approved.

Of `GatewayProcess`: `NoBurst` and `RefusedOnlyWhenFull` (the limiter is an
exact sliding window), `LifecycleAcrossRestarts` (`SessionLifecycle`, through
crashes and concurrent creations), `ShutdownEnds`, `UnusedSessionsAreReclaimed`.

Of `Terminal`: `PairingOverWhenGivenUp` (two deadlines for one pairing; the
terminal's may be early by the fraction of a second `expires_in` cuts off, and
no more), `ShowsWhatRuns` (the settings line against what is sent to DeepSeek),
`ReadyAfterAnswer` (`DoneMeansReady`, seen from the other end of the
connection), `QuitReturns`, `NothingLeftBehind`.

Of `AnswerStream`: `DeliversAnswer` (the refinement of `Answer`),
`ReasonIsTrue` (the terminal prints "[cancelled]" only for a generation that was
cancelled, and otherwise has DeepSeek's last reason), `PromptReturns`.

Of `Controller`: `OneApprovalAtATime`, `AppControlsWhatItApproved` (token and
settings of the session on display, whatever was changed during biometrics and
whatever late requests arrive), `ShownCodesAreFound`.

### Fairness

`GFairness` assumes that a goroutine that can run does (the Go scheduler), that
the timer of `context.WithTimeout` fires, that `HTTP.Do` returns once its
context is done, that time passes and that the sweeper's ticker fires. Nothing
is assumed of DeepSeek: it may stay silent in "connecting" or "streaming" for
ever. Clients need not do anything.

`PFairness` assumes time, the sweeper's ticker while the process serves, and
that `main` returns from `Shutdown` once its context is done; handlers may hang
for ever, which is why `ShutdownEnds` needs the deadline. `Fairness` of
`AnswerStream` assumes the timer, the handler's and the reader's goroutines, and
nothing of DeepSeek or of the connection. `Controller` has safety only: the user
and the network owe it nothing.

`TFairness` adds the terminal's two goroutines, and strong fairness for the
case `<-quit` of the chat loop's `select`: Go chooses at random among the cases
that are ready, so a case that is ready again and again is taken. The user
need not type anything.

### Where code and text disagree

Each of these runs finds a violation of what a document, comment or test says.

| Run | The code | The text |
|---|---|---|
| `SessionManager_code_collision` | `Create` overwrites the index entry of a code in use (`manager.go:98`); the earlier session cannot be approved by its code, and destroying one deletes the other's entry | `docs/protocol.md:68`: a pairing code approves its session |
| `Gateway_approve_reply` | `s.State` is read without a lock (`handlers.go:101`) | `server_test.go:235`: `state = %q, want APPROVED` |
| `Gateway_generation_outlives` | the error of `SetGenCancel` is dropped (`handlers.go:227`): a session destroyed just before leaves a generation that nothing but its timer stops | `manager_test.go:238`: `destroy did not cancel in-flight generation` |
| `Terminal_first_interrupt` | a cancel that comes before `SetGenCancel` is lost and `cancelled` swallows the later ones (`cli.go:96`) | `cli.go:84`: the first Ctrl+C cancels the generation |
| `Controller_late_end` | `endSession` sets `phase` after its request whatever session is active by then (`AppViewModel.swift:170`): a second tap on End, answered late, drops the session approved since, with its token | `AppViewModel.swift:169`: `The terminal already ended it; treat as done.` |

More were met without a run of their own:

- The state diagram of `docs/protocol.md:93` destroys a session on timeout and
  error while `streamPrompt` returns it to APPROVED, which is what
  `SessionLifecycle` and the proofs describe.
- A prompt that ends without any text leaves its question in the history
  without an answer, where `docs/protocol.md:71` adds both together.
- `provider.go:45` says a cancelled completion returns its text and a nil
  error. A cancel before DeepSeek's first byte is an error of `HTTP.Do`
  (`deepseek.go:104`); the handler then fails the prompt with `upstream_error`,
  and the terminal does not print "[cancelled]". It is in `Gateway` and
  `AnswerStream` as `ConnectFails`.
- `transport.go:49` says streaming responses are bounded by the gateway's
  timeout. `http.Client.Timeout` covers reading the body too, so with
  `DS_GEN_TIMEOUT` above two minutes the client breaks the stream off and the
  gateway destroys the session. It is in `AnswerStream` as `Break` and in
  `Terminal` as `AbortPrompt`.
- `sse.go:28` says `ReadSSE` dispatches each complete event. At the end of a
  stream it dispatches an event whose blank line is missing as well
  (`ReadEnd`); `DeliversAnswer` shows that this does no harm to answers.
- An upstream body that ends cleanly without `[DONE]` counts as a finished
  answer (`StreamEnds`).
- `ratelimit.go:8` calls the limiter fixed-window; it slides (`NoBurst`).
- When the address is in use `main` ends with exit code 0
  (`cmd/dsgateway/main.go:84`), so the `Restart=on-failure` of
  `deploy/oci/dsgateway.service:13` does not start it again.
- `deploy/oci/run-gateway.sh:5` says the gateway always binds
  127.0.0.1:8080, line 9 takes the address from `DS_GATEWAY_LISTEN`;
  `cmd/dsgateway/main.go:28` says `approve` runs against the loopback gateway,
  line 123 takes the URL from `DS_GATEWAY_URL`.

## 4. What is proved

Every invariant and every action property of the runs that pass, and every
refinement they check, is a theorem too: for any sets of sessions, codes,
handlers, creators, tasks and texts, finite or not, and any limits. TLC found
out first, for each inductive invariant below, that it holds.

### Assumptions

They are the named `ASSUME`s of the modules; TLC evaluates them in the runs.

| Assumption | Why the code justifies it |
|---|---|
| `NoneIsNoValue`, `NoneIsNoSession` | `None` stands for `nil`, `""` and an absent entry; no identifier, code or text is one |
| `SettingsAreSettings` | the type of `GenerationSettings`, valid or not |
| `TimeoutsArePositive`, `LimitsAreNatural` | `config.go` replaces anything else by the default (`ConfigurationIsUsable`) |
| `RequestsGiveSettings` | `approve` is called with what `ParseSettings` returned: `SettingsInputs` must hold it |
| `ConfiguredFromEnvironment`, `DrainTimeIsNatural` | `main` builds the manager from `config.go`; `Shutdown` waits two seconds |
| `LimiterConfigured` | `gateway.New` makes the limiter with 20 and a minute |
| `LongDeltasAreDeltas`, `ReasonsAreDeepSeeks` | "cancelled" is a word of the gateway that DeepSeek's API does not use, and no reason is another value |
| `SecondIsPositive` | a second has ticks |
| `PickersOfferEnums`, `HandlersServeThem` | the app's pickers offer the cases of its enumerations, and the gateway accepts any request of the app or of `dsgateway approve` |
| `CodesHaveSixDigits` | `GeneratePairCode` draws below 10^6 and pads to six digits |
| `MaxDeltasIsNatural` | a bound of the model |

### The manager (`SessionManagerProofs`, `LifecycleProofs`)

The inductive invariant `Inv` is the conjunction of the manager's invariants
themselves, proved together because they lean on each other. That replies
follow questions needs to know that an
ACTIVE session ends with its question, which needs that only one handler is
between `PreparePrompt` and its end (`OnePromptPerSession`); that the registered
cancel function is the running generation's needs the same, and that a live
session with a registered generation has a handler; that the index leads to
live sessions only needs that live sessions carry their code and dead ones
nothing (`NothingSurvives`); and type correctness needs that a handler's
session exists. The proof has one lemma per action (`CreateInv`, ...,
`TickInv`), each with one step per conjunct; `NextInv` joins them, and the
theorems follow from `Invariance` by propositional temporal logic.
`DestroyEndsGeneration` and `ApprovalIsFinal` are proved of each step from it.

`ManagerImplementsLifecycle` maps every action of the manager to one of
`SessionLifecycle` or to none: `Create` opens, `approve` approves,
`PreparePrompt`, `FinishPrompt` and `FailPrompt` begin, commit and abort,
`DestroyAll` retires; deadlines and cancel functions are invisible. A commit
needs that what `FinishPrompt` appends its reply to is the question that began
the prompt (`HistoryIsWhatWasAsked`). `ManagerDiesRetires` adds the death of the
process, which is a retirement of all.

### The handlers (`GatewayProofs`)

`GInv` is `Inv` and, of each handler, that from `PreparePrompt` to the call that
reports back it runs the prompt the manager lends it (`HandlerRunsItsPrompt`),
that the settings it started a generation with are still the session's
(`SettingsAreHandedOver`), that a session it approved stays approved or is
destroyed (`ApprovalWasGiven`), and `ApproveReplyHasToken`. From it `HandlersDriveManager`: every step of a
handler is a step of the manager or none, which is `ImplementsManager` and
carries every theorem of the manager to `GSpec`. `RunsWithApprovedSettings` and
`DoneMeansReady` follow; `ApproveReplyHasToken` needs that no approval is undone
or changed between the two locks of its handler (`ApprovalIsFinal`).

A section of its own proves of the pure functions: what `ParseSettings` does
not refuse is valid, whatever model is configured; what the DeepSeek client
sends is valid whatever it is given; and it sends valid settings unchanged.

### The answer (`AnswerStreamProofs`)

`SInv` places every line under way. While `Prompt` runs, the screen and what
`ReadSSE` holds say how many lines were read, the head of the wire is the line
that follows, and only the last line of a broken connection can be a piece of
one. What `Prompt` prints next is then the next piece written (`Advance`), which
gives `AnswersAreDelivered`, the refinement of `Answer`, and `ReasonIsTrue`.

### The terminal (`TerminalProofs`)

`TInv` adds to `GInv` what the REPL believes of its session and what the network
has not told it: where it chats the session was approved (`ToldTheTruth`), the
line it shows is from its settings, though two locks were taken to read
them (`LineIsCurrent`, from `ApprovalIsFinal`), and unless a prompt was aborted
no handler but the one it listens to runs (`OnlyOwnPrompt`). `PairingRunsOut` relates the
two deadlines: the gateway's is at most the terminal's and the fraction of a
second that `expires_in` cuts off, for which the proof divides `PairTimeout` by
`Second` (`Deadline`). The gateway may die at any point of it
(`GatewayDiesInv`); `TerminalKeepsLifecycle` says that sessions follow the
abstract life cycle all the same.

### The app (`ControllerProofs`)

`CInv` follows each request on its way: what it carries (`Carries`), that the
handler serving it approved a session with the settings it asks for and that
its answer is true (`Truthful`), what a request that was given up still carries
(`StrayInv`), and that the session on the screen has the token and the settings
the app shows (`ScreenInv`). It gives `OneApprovalAtATime` and
`AppControlsWhatItApproved`. `ShownCodesLeadBack` uses the theorems of
`PairingCodeProofs`.

### The process (`GatewayProcessProofs`)

`PInv` is `Inv`, that a process that is down has nothing, and `WindowInv`: the
stamps of the limiter are the end of the history of what it granted, ages never
grow along it, and what was forgotten is older than a window. `NoBurst` and
`RefusedOnlyWhenFull` follow. Each step of the process is a step of the manager
or its death (`ProcessDrivesManager`), so restarts keep the life cycle
(`RestartsKeepLifecycle`) and approvals (`RestartsKeepApprovals`).

The section "The environment" proves, for every environment, that the manager
is configured with positive timeouts and room for at least one session, that
the defaults of `main` leave nothing for those of `session.New` to do, and that
handlers and manager share one generation timeout. So `TimeoutsArePositive` and
`LimitsAreNatural` hold of every gateway that `main` starts.

### Induction over data

The codes and the limiter go through a loop over a sequence of any length, the
recursive function `Filter`. The induction theorems of the library take an
operator as a parameter and cannot be used; `PairingCodeProofs` argues by the
least number for which a statement would be false (`LeastNumber`, from
`WFMin`). Its main lemma is `FilterOfConcat`: what is kept of two pieces is
what is kept of each.

### Only model-checked

Liveness and all that needs fairness, which is out of the prover's reach:
`PromptsEnd`, `DisconnectEndsSession`, `ShutdownEnds`,
`UnusedSessionsAreReclaimed`, `PromptReturns`, `QuitReturns`,
`NothingLeftBehind`. The five runs that find a violation are counterexamples and
need no proof.

## 5. What is not modelled

- `handleHealth`, `Get`, `SessionHistory`: they read and change nothing.
- JSON, HTTP codes, printed text but the settings line, listen addresses.
- `streamPrompt` for a response writer that cannot flush: that of `net/http`
  can.
- Failures of the random generator: they leave no trace in the manager.
- The cancellation of `Run`'s context: `cmd/ds` passes the background context.
- The app's API key, which is stored and never sent; its Keychain, the
  biometric dialog itself, the camera and the layout of its views. Its gateway
  URL is valid or not.
- The mock provider, which keeps the interface of the DeepSeek client; drawing
  a QR code; deployment.

## 6. Plan

What is left of the proofs:

1. The hazard of a late approval (`manager.go:203`, the idle deadline that
   approval does not restart) and that of unanswered questions
   (`manager.go:286`) have no property. Each is a choice of the code, not a
   promise of a text; a promise would be stated and proved first.
2. The safety parts of the liveness properties, where one says something of its
   own: between the end of a connection and the end of its session no handler
   starts another prompt of it.
3. Leaves of `AnswerStreamProofs` and `ControllerProofs` that cite more than they
   need.
