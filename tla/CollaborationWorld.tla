------------------------- MODULE CollaborationWorld -------------------------
(***************************************************************************)
(* The collaboration world: what one CollaborationSnapshot holds, and what *)
(* the twelve operations of the default schema do to it.                   *)
(*                                                                         *)
(* Everything here is a state function of a world value; the runtime that  *)
(* stores worlds and moves the head is CoordinationRuntime.  Kept of a     *)
(* snapshot: participants with their lifecycle status, artifacts with      *)
(* owner and published flag, write-lock capabilities with holder and       *)
(* scope, sessions, links, the heartbeat count, the transcript revision,   *)
(* the audit tail and the epoch.  An artifact's content, a participant's   *)
(* kind and manifest, namespaces and the policy context are left out, as   *)
(* are transcripts and heartbeats but for how many there have been.        *)
(***************************************************************************)
EXTENDS Naturals, Sequences

CONSTANTS
    Actor,      \* actor identities
    Artifact,   \* artifact identities; also names the capability write-lock-<id>
    Founder,    \* the participants active in the genesis snapshot
    None        \* an unbound role, an artifact that does not exist, ...

ASSUME WorldAssumption ==
    /\ Founder \subseteq Actor
    /\ None \notin Actor
    /\ None \notin Artifact

-----------------------------------------------------------------------------
Status == {"absent", "registered", "active", "waiting", "blocked", "done", "retired"}

Kind == {"introduce_artifact", "delegate", "create_session", "fork_branch",
         "publish_artifact", "transfer_session", "register_participant",
         "activate_participant", "signal_done", "retire_participant",
         "emit_heartbeat", "commit_transcript"}

Session == [controller : Actor, members : SUBSET Actor]

Link == [kind : {"nested_in", "waits_for", "parallel_with"}, from : Actor, to : Actor]

\* A session's id is its position: createdSessionRefs[0] is always fresh.  An
\* audit entry is named by the snapshot ref under which it was ingested.
World == [status     : [Actor -> Status],
          owner      : [Artifact -> Actor \cup {None}],
          published  : SUBSET Artifact,
          capHolder  : [Artifact -> Actor \cup {None}],
          capScope   : [Artifact -> Artifact \cup {None}],
          sessions   : Seq(Session),
          links      : Seq(Link),
          beats      : [Actor -> Nat],
          transcript : [Actor -> Nat],
          audit      : Seq(Nat),
          epoch      : Nat]

\* A coordination intent with its normalized role bindings.
Operation == [kind        : Kind,
              from        : Actor,
              to          : Actor \cup {None},
              participant : Actor \cup {None},
              task        : Artifact \cup {None},
              capability  : Artifact \cup {None},
              session     : Nat]                    \* 0: not bound

Genesis == [status     |-> [a \in Actor |-> IF a \in Founder THEN "active" ELSE "absent"],
            owner      |-> [t \in Artifact |-> None],
            published  |-> {},
            capHolder  |-> [t \in Artifact |-> None],
            capScope   |-> [t \in Artifact |-> None],
            sessions   |-> << >>,
            links      |-> << >>,
            beats      |-> [a \in Actor |-> 0],
            transcript |-> [a \in Actor |-> 0],
            audit      |-> << >>,
            epoch      |-> 1]

-----------------------------------------------------------------------------
(* Template conditions (schema/conditionEvaluator.ts).                     *)

Registered(w, a) == a \in Actor /\ w.status[a] # "absent"

TaskExists(w, t) == t \in Artifact /\ w.owner[t] # None

SessionExists(w, s) == s \in 1..Len(w.sessions)

\* "delegator.holds": through the bound capability, or by owning the task.
Holds(w, op, who) ==
    IF op.capability = None
    THEN w.owner[op.task] = who
    ELSE w.capHolder[op.capability] = who /\ w.capScope[op.capability] = op.task

RolesBound(op) ==
    /\ op.kind \in {"introduce_artifact", "publish_artifact", "delegate"} => op.task # None
    /\ op.kind = "delegate" => op.to # None /\ op.capability # None
    /\ op.kind = "transfer_session" => op.to # None /\ op.session # 0
    /\ op.kind \in {"register_participant", "activate_participant", "retire_participant"}
          => op.participant # None

\* What admission evaluates: required roles, then the template's `requires`.
Requires(w, op) ==
    /\ RolesBound(op)
    /\ CASE op.kind = "introduce_artifact" ->
              Registered(w, op.from) /\ ~ TaskExists(w, op.task)
         [] op.kind = "delegate" ->
              TaskExists(w, op.task) /\ Holds(w, op, op.from) /\ Registered(w, op.to)
         [] op.kind = "publish_artifact" ->
              TaskExists(w, op.task) /\ Holds(w, op, op.from)
         [] op.kind = "transfer_session" ->
              /\ SessionExists(w, op.session)
              /\ w.sessions[op.session].controller = op.from
              /\ Registered(w, op.from)
              /\ Registered(w, op.to)
         [] op.kind = "activate_participant" -> Registered(w, op.participant)
         [] OTHER -> Registered(w, op.from)

\* The template's `ensures`, evaluated on the recomputed snapshot.
Ensures(w, op) ==
    CASE op.kind = "introduce_artifact" -> TaskExists(w, op.task) /\ Holds(w, op, op.from)
      [] op.kind = "delegate" -> TaskExists(w, op.task) /\ Holds(w, op, op.to)
      [] op.kind = "publish_artifact" -> TaskExists(w, op.task)
      [] op.kind = "transfer_session" -> SessionExists(w, op.session)
      [] op.kind \in {"register_participant", "activate_participant", "retire_participant"} ->
           Registered(w, op.participant)
      [] OTHER -> Registered(w, op.from)

-----------------------------------------------------------------------------
(* Operation handlers (execution/handlers).                                *)

\* The registered transitions of cluster/lifecycleTransitions.ts.
ValidTransition == {<<"registered", "active">>, <<"waiting", "active">>,
                    <<"active", "done">>, <<"active", "retired">>,
                    <<"active", "waiting">>, <<"active", "blocked">>,
                    <<"done", "retired">>, <<"blocked", "active">>}

\* Variant: any transition of a participant that exists.
Transitioned(w, a, to) == w.status[a] # "absent"

MayTransition(w, a, to) == <<w.status[a], to>> \in ValidTransition

RegisterAccepts(w, op) == w.status[op.from] = "active" /\ w.status[op.participant] = "absent"

ActivateAccepts(w, op) ==
    w.status[op.from] = "active" /\ MayTransition(w, op.participant, "active")

RetireAccepts(w, op) == MayTransition(w, op.participant, "retired")

SignalDoneAccepts(w, op) == MayTransition(w, op.from, "done")

\* Of commit_transcript and of emit_heartbeat alike.
StillPresent(w, op) == w.status[op.from] \notin {"absent", "retired"}

\* The handler's own refusals, beyond the template's conditions.
HandlerAccepts(w, op) ==
    CASE op.kind \in {"introduce_artifact", "fork_branch"} -> ~ TaskExists(w, op.task)
      [] op.kind = "delegate" -> TaskExists(w, op.task) /\ w.capHolder[op.capability] # None
      [] op.kind = "publish_artifact" -> TaskExists(w, op.task)
      [] op.kind = "transfer_session" ->
           SessionExists(w, op.session) /\ w.sessions[op.session].controller = op.from
      [] op.kind = "register_participant" -> RegisterAccepts(w, op)
      [] op.kind = "activate_participant" -> ActivateAccepts(w, op)
      [] op.kind = "signal_done" -> SignalDoneAccepts(w, op)
      [] op.kind = "retire_participant" -> RetireAccepts(w, op)
      [] op.kind \in {"commit_transcript", "emit_heartbeat"} -> StillPresent(w, op)
      [] OTHER -> TRUE

\* Variant: the new artifact's lock is added beside what the bound id names.
WithTaskKeepingLock(w, op) ==
    LET cap == IF op.capability = None THEN op.task ELSE op.capability
    IN  [w EXCEPT !.owner[op.task] = op.from,
                  !.capHolder[cap] = op.from,
                  !.capScope[cap] = IF @ = None THEN op.task ELSE @]

\* Variant: a bound capability is made as well as the default one.
WithTaskAndBothLocks(w, op) ==
    LET caps == {op.task, op.capability} \ {None}
    IN  [w EXCEPT !.owner[op.task] = op.from,
                  !.capHolder = [c \in Artifact |-> IF c \in caps THEN op.from ELSE @[c]],
                  !.capScope = [c \in Artifact |-> IF c \in caps THEN op.task ELSE @[c]]]

\* A new artifact with its write lock; binding a capability overrides the
\* default id write-lock-<task>, and replaces a capability of that id.
WithTask(w, op) ==
    LET cap == IF op.capability = None THEN op.task ELSE op.capability
    IN  [w EXCEPT !.owner[op.task] = op.from,
                  !.capHolder[cap] = op.from,
                  !.capScope[cap] = op.task]

WithLink(w, kind, from, to) ==
    [w EXCEPT !.links = Append(@, [kind |-> kind, from |-> from, to |-> to])]

WithSession(w, controller, members) ==
    [w EXCEPT !.sessions = Append(@, [controller |-> controller, members |-> members])]

WithStatus(w, a, status) == [w EXCEPT !.status[a] = status]

\* The participant binding other than the actor itself, where there is one.
HasPeer(op) == op.participant \notin {None, op.from}

CreateSession(w, op) ==
    LET opened == WithSession(w, op.from, {op.from, op.participant} \ {None})
    IN  IF HasPeer(op) THEN WithLink(opened, "nested_in", op.from, op.participant) ELSE opened

ForkBranch(w, op) ==
    LET branched == IF op.task = None THEN w ELSE WithTask(w, op)
    IN  IF HasPeer(op) THEN WithLink(branched, "parallel_with", op.from, op.participant)
                       ELSE branched

\* Ownership, the lock and a session go to the delegatee; a third participant
\* bound as reviewer is registered on the fly, active, waiting for the delegatee.
Delegate(w, op) ==
    LET moved    == WithSession([w EXCEPT !.owner[op.task] = op.to,
                                          !.capHolder[op.capability] = op.to],
                                op.to, {op.to, op.from})
        reviewed == IF Registered(moved, op.participant) THEN moved
                    ELSE WithStatus(moved, op.participant, "active")
    IN  IF HasPeer(op) /\ op.participant # op.to
        THEN WithLink(reviewed, "waits_for", op.participant, op.to)
        ELSE moved

\* Variant: the new controller is not made a member.
TransferControl(w, op) ==
    [w EXCEPT !.sessions[op.session].controller = op.to]

TransferSession(w, op) ==
    [w EXCEPT !.sessions[op.session] = [controller |-> op.to, members |-> @.members \cup {op.to}]]

Apply(w, op) ==
    CASE op.kind = "introduce_artifact"   -> WithTask(w, op)
      [] op.kind = "delegate"             -> Delegate(w, op)
      [] op.kind = "create_session"       -> CreateSession(w, op)
      [] op.kind = "fork_branch"          -> ForkBranch(w, op)
      [] op.kind = "publish_artifact"     -> [w EXCEPT !.published = @ \cup {op.task}]
      [] op.kind = "transfer_session"     -> TransferSession(w, op)
      [] op.kind = "register_participant" -> WithStatus(w, op.participant, "registered")
      [] op.kind = "activate_participant" -> WithStatus(w, op.participant, "active")
      [] op.kind = "signal_done"          -> WithStatus(w, op.from, "done")
      [] op.kind = "retire_participant"   -> WithStatus(w, op.participant, "retired")
      [] op.kind = "emit_heartbeat"       -> [w EXCEPT !.beats[op.from] = @ + 1]
      [] op.kind = "commit_transcript"    -> [w EXCEPT !.transcript[op.from] = @ + 1]

-----------------------------------------------------------------------------
(* Snapshot integrity (core/consistency/snapshotIntegrity.ts).             *)

Integrity(w) ==
    /\ \A t \in Artifact : w.owner[t] # None => Registered(w, w.owner[t])
    /\ \A c \in Artifact : w.capHolder[c] # None
          => Registered(w, w.capHolder[c]) /\ TaskExists(w, w.capScope[c])
    /\ \A s \in 1..Len(w.sessions) :
          \A a \in {w.sessions[s].controller} \cup w.sessions[s].members : Registered(w, a)
    /\ \A k \in 1..Len(w.links) : Registered(w, w.links[k].from) /\ Registered(w, w.links[k].to)

\* Committing op on w succeeds (content availability aside) exactly when the
\* handler, the integrity check and the template's ensures all accept it.
Committable(w, op) ==
    /\ HandlerAccepts(w, op)
    /\ Integrity(Apply(w, op))
    /\ Ensures(Apply(w, op), op)

\* The handlers whose artifacts carry a content ref the authority must confirm.
IntroducesContent(op) ==
    op.kind = "introduce_artifact" \/ (op.kind = "fork_branch" /\ op.task # None)

\* ADR-0002: the touch set is every id the role bindings name.
Footprint(op) ==
    {<<"participant", a>> : a \in {op.from, op.to, op.participant} \ {None}}
      \cup {<<"artifact", t>> : t \in {op.task} \ {None}}
      \cup {<<"capability", c>> : c \in {op.capability} \ {None}}
      \cup {<<"session", s>> : s \in {op.session} \ {0}}

Overlaps(f, g) == f \cap g # {}

\* appendObservation and snapshotWithAdvancedEpoch: the two unlogged advances.
WithObservation(w, entry) == [w EXCEPT !.audit = Append(@, entry)]
WithEpoch(w, epoch) == [w EXCEPT !.epoch = epoch]

SessionsQuiescent(w) == w.sessions = << >>
=============================================================================
