-------------------------- MODULE SessionLifecycle --------------------------
(***************************************************************************)
(* What the gateway promises about sessions, whatever its handlers do:     *)
(* docs/protocol.md draws this state machine, and session/manager.go is     *)
(* shown to implement it.                                                  *)
(*                                                                         *)
(*   - a session is opened once, approved once and destroyed once;         *)
(*   - at most Capacity sessions exist at any time;                        *)
(*   - a prompt is a transaction on the conversation: while it runs the    *)
(*     log is untouched, it commits the prompt (with the reply, when there *)
(*     is one) or leaves no trace;                                         *)
(*   - nothing of the conversation survives destruction.                   *)
(***************************************************************************)
EXTENDS Naturals, Sequences, FiniteSets

CONSTANTS
  Ids,        \* session identifiers
  Contents,   \* prompt texts
  Replies,    \* non-empty reply texts
  None,       \* no prompt pending
  Capacity    \* how many sessions may exist together

VARIABLES
  phase,      \* phase[id]: where the session is in its life
  log,        \* log[id]: the messages the conversation consists of
  pending     \* pending[id]: the prompt being answered, or None

lifecycleVars == <<phase, log, pending>>

Existing == {id \in Ids : phase[id] \in {"WAITING", "APPROVED", "ACTIVE"}}

User(c)      == [role |-> "user", content |-> c]
Assistant(r) == [role |-> "assistant", content |-> r]

Init ==
  /\ phase = [id \in Ids |-> "UNBORN"]
  /\ log = [id \in Ids |-> << >>]
  /\ pending = [id \in Ids |-> None]

Open(id) ==
  /\ phase[id] = "UNBORN"
  /\ Cardinality(Existing) < Capacity
  /\ phase' = [phase EXCEPT ![id] = "WAITING"]
  /\ UNCHANGED <<log, pending>>

Approve(id) ==
  /\ phase[id] = "WAITING"
  /\ phase' = [phase EXCEPT ![id] = "APPROVED"]
  /\ UNCHANGED <<log, pending>>

Begin(id, c) ==
  /\ phase[id] = "APPROVED"
  /\ phase' = [phase EXCEPT ![id] = "ACTIVE"]
  /\ pending' = [pending EXCEPT ![id] = c]
  /\ UNCHANGED log

\* The answered prompt joins the log, followed by the reply unless it is empty.
Commit(id) ==
  /\ phase[id] = "ACTIVE"
  /\ phase' = [phase EXCEPT ![id] = "APPROVED"]
  /\ pending' = [pending EXCEPT ![id] = None]
  /\ LET asked == Append(log[id], User(pending[id]))
     IN  \/ log' = [log EXCEPT ![id] = asked]
         \/ \E r \in Replies :
              log' = [log EXCEPT ![id] = Append(asked, Assistant(r))]

Abort(id) ==
  /\ phase[id] = "ACTIVE"
  /\ phase' = [phase EXCEPT ![id] = "APPROVED"]
  /\ pending' = [pending EXCEPT ![id] = None]
  /\ UNCHANGED log

\* One sweep may retire several sessions at once.
Retire(S) ==
  /\ S # {}
  /\ phase' = [id \in Ids |-> IF id \in S THEN "DESTROYED" ELSE phase[id]]
  /\ log' = [id \in Ids |-> IF id \in S THEN << >> ELSE log[id]]
  /\ pending' = [id \in Ids |-> IF id \in S THEN None ELSE pending[id]]

Next ==
  \/ \E id \in Ids : Open(id) \/ Approve(id) \/ Commit(id) \/ Abort(id)
  \/ \E id \in Ids, c \in Contents : Begin(id, c)
  \/ \E S \in SUBSET Existing : Retire(S)

Spec == Init /\ [][Next]_lifecycleVars

=============================================================================
