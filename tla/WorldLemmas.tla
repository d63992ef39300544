---------------------------- MODULE WorldLemmas ----------------------------
(***************************************************************************)
(* What the handlers return: from a well-formed world, an operation that   *)
(* the template and the handler accept makes a well-formed world.          *)
(***************************************************************************)
EXTENDS CollaborationWorld, TLAPS

\* A world is its fields.
LEMMA WorldFields ==
    ASSUME NEW w \in World
    PROVE  /\ w = [status |-> w.status, owner |-> w.owner, published |-> w.published,
                   capHolder |-> w.capHolder, capScope |-> w.capScope,
                   sessions |-> w.sessions, links |-> w.links, beats |-> w.beats,
                   transcript |-> w.transcript, audit |-> w.audit, epoch |-> w.epoch]
           /\ w.status \in [Actor -> Status]
           /\ w.owner \in [Artifact -> Actor \cup {None}]
           /\ w.published \in SUBSET Artifact
           /\ w.capHolder \in [Artifact -> Actor \cup {None}]
           /\ w.capScope \in [Artifact -> Artifact \cup {None}]
           /\ w.sessions \in Seq(Session)
           /\ w.links \in Seq(Link)
           /\ w.beats \in [Actor -> Nat]
           /\ w.transcript \in [Actor -> Nat]
           /\ w.audit \in Seq(Nat)
           /\ w.epoch \in Nat
  BY DEF World

\* The genesis snapshot is a world.
LEMMA GenesisTyped == Genesis \in World
  BY WorldAssumption DEF Genesis, World, Status

\* withParticipant: a status change keeps a world a world.
LEMMA WithStatusTyped ==
    ASSUME NEW w \in World, NEW a \in Actor, NEW s \in Status
    PROVE  WithStatus(w, a, s) \in World
  BY WorldFields DEF WithStatus, World

\* withSession: a session of known actors keeps a world a world.
LEMMA WithSessionTyped ==
    ASSUME NEW w \in World, NEW c \in Actor, NEW m \in SUBSET Actor
    PROVE  WithSession(w, c, m) \in World
<1>1. [controller |-> c, members |-> m] \in Session
  BY DEF Session
<1>2. Append(w.sessions, [controller |-> c, members |-> m]) \in Seq(Session)
  BY <1>1, WorldFields
<1> QED
  BY <1>2, WorldFields DEF WithSession, World

\* withLink: a link between two actors keeps a world a world.
LEMMA WithLinkTyped ==
    ASSUME NEW w \in World, NEW a \in Actor, NEW b \in Actor,
           NEW k \in {"nested_in", "waits_for", "parallel_with"}
    PROVE  WithLink(w, k, a, b) \in World
<1>1. [kind |-> k, from |-> a, to |-> b] \in Link
  BY DEF Link
<1>2. Append(w.links, [kind |-> k, from |-> a, to |-> b]) \in Seq(Link)
  BY <1>1, WorldFields
<1> QED
  BY <1>2, WorldFields DEF WithLink, World

\* introduce_artifact and fork_branch: a new artifact with its lock keeps the type.
LEMMA WithTaskTyped ==
    ASSUME NEW w \in World, NEW op \in Operation, op.task # None
    PROVE  WithTask(w, op) \in World
<1> DEFINE cap == IF op.capability = None THEN op.task ELSE op.capability
<1>1. op.task \in Artifact /\ cap \in Artifact /\ op.from \in Actor
  BY DEF Operation
<1> HIDE DEF cap
<1>2. [w EXCEPT !.owner[op.task] = op.from, !.capHolder[cap] = op.from,
                !.capScope[cap] = op.task] \in World
  BY <1>1, WorldFields DEF World
<1> QED
  BY <1>2 DEF WithTask, cap

\* appendObservation: one more audit entry keeps the type.
LEMMA WithObservationTyped ==
    ASSUME NEW w \in World, NEW e \in Nat
    PROVE  WithObservation(w, e) \in World
<1>1. Append(w.audit, e) \in Seq(Nat)
  BY WorldFields
<1> QED
  BY <1>1, WorldFields DEF WithObservation, World

\* snapshotWithAdvancedEpoch: a new epoch keeps the type.
LEMMA WithEpochTyped ==
    ASSUME NEW w \in World, NEW e \in Nat
    PROVE  WithEpoch(w, e) \in World
  BY WorldFields DEF WithEpoch, World

-----------------------------------------------------------------------------
(* The handlers.                                                           *)

\* A participant binding other than the actor's own names an actor.
LEMMA PeerIsActor ==
    ASSUME NEW op \in Operation, HasPeer(op)
    PROVE  op.participant \in Actor
  BY DEF HasPeer, Operation

\* create_session keeps the type, with or without a peer.
LEMMA CreateSessionTyped ==
    ASSUME NEW w \in World, NEW op \in Operation
    PROVE  CreateSession(w, op) \in World
<1> DEFINE opened == WithSession(w, op.from, {op.from, op.participant} \ {None})
<1>1. op.from \in Actor /\ {op.from, op.participant} \ {None} \subseteq Actor
  BY DEF Operation
<1>2. opened \in World
  BY <1>1, WithSessionTyped
<1> HIDE DEF opened
<1>3. HasPeer(op) => WithLink(opened, "nested_in", op.from, op.participant) \in World
  BY <1>1, <1>2, PeerIsActor, WithLinkTyped
<1> QED
  BY <1>2, <1>3 DEF CreateSession, opened

\* fork_branch keeps the type, with or without an artifact or a peer.
LEMMA ForkBranchTyped ==
    ASSUME NEW w \in World, NEW op \in Operation
    PROVE  ForkBranch(w, op) \in World
<1> DEFINE branched == IF op.task = None THEN w ELSE WithTask(w, op)
<1>1. branched \in World
  BY WithTaskTyped
<1> HIDE DEF branched
<1>2. HasPeer(op) => WithLink(branched, "parallel_with", op.from, op.participant) \in World
  BY <1>1, PeerIsActor, WithLinkTyped DEF Operation
<1> QED
  BY <1>1, <1>2 DEF ForkBranch, branched

\* delegate keeps the type, whoever is bound as reviewer.
LEMMA DelegateTyped ==
    ASSUME NEW w \in World, NEW op \in Operation,
           op.task # None, op.to # None, op.capability # None
    PROVE  Delegate(w, op) \in World
<1> DEFINE given    == [w EXCEPT !.owner[op.task] = op.to, !.capHolder[op.capability] = op.to]
           moved    == WithSession(given, op.to, {op.to, op.from})
           reviewed == IF Registered(moved, op.participant) THEN moved
                       ELSE WithStatus(moved, op.participant, "active")
<1>1. op.from \in Actor /\ op.to \in Actor /\ op.task \in Artifact /\ op.capability \in Artifact
  BY DEF Operation
<1>2. given \in World
  BY <1>1, WorldFields DEF World
<1> HIDE DEF given
<1>3. moved \in World
  BY <1>1, <1>2, WithSessionTyped
<1> HIDE DEF moved
<1>4. HasPeer(op) => reviewed \in World
  BY <1>3, PeerIsActor, WithStatusTyped DEF Status
<1> HIDE DEF reviewed
<1>5. HasPeer(op) => WithLink(reviewed, "waits_for", op.participant, op.to) \in World
  BY <1>1, <1>4, PeerIsActor, WithLinkTyped
<1> QED
  BY <1>3, <1>5 DEF Delegate, given, moved, reviewed

\* transfer_session keeps the type.
LEMMA TransferSessionTyped ==
    ASSUME NEW w \in World, NEW op \in Operation, op.to # None, SessionExists(w, op.session)
    PROVE  TransferSession(w, op) \in World
<1> DEFINE old == w.sessions[op.session]
           new == [controller |-> op.to, members |-> old.members \cup {op.to}]
<1>1. op.to \in Actor
  BY DEF Operation
<1>2. old \in Session
  BY WorldFields DEF SessionExists
<1>3. new \in Session
  BY <1>1, <1>2 DEF Session
<1> HIDE DEF old, new
<1>4. [w.sessions EXCEPT ![op.session] = new] \in Seq(Session)
  BY <1>3, WorldFields DEF SessionExists
<1>5. [w EXCEPT !.sessions[op.session] = new] \in World
  BY <1>4, WorldFields DEF World
<1> QED
  BY <1>5 DEF TransferSession, old, new

\* Committing an operation that admission and its handler accept keeps the
\* snapshot well formed.
LEMMA ApplyTyped ==
    ASSUME NEW w \in World, NEW op \in Operation, Requires(w, op), HandlerAccepts(w, op)
    PROVE  Apply(w, op) \in World
<1>1. op.kind \in Kind /\ op.from \in Actor
  BY DEF Operation
<1>2. RolesBound(op)
  BY DEF Requires
<1>3. CASE op.kind = "introduce_artifact"
  BY <1>2, <1>3, WithTaskTyped DEF Apply, RolesBound
<1>4. CASE op.kind = "delegate"
  BY <1>2, <1>4, DelegateTyped DEF Apply, RolesBound
<1>5. CASE op.kind = "create_session"
  BY <1>5, CreateSessionTyped DEF Apply
<1>6. CASE op.kind = "fork_branch"
  BY <1>6, ForkBranchTyped DEF Apply
<1>7. CASE op.kind = "publish_artifact"
  <2>1. op.task \in Artifact
    BY <1>2, <1>7 DEF RolesBound, Operation
  <2>2. [w EXCEPT !.published = @ \cup {op.task}] \in World
    BY <2>1, WorldFields DEF World
  <2> QED
    BY <1>7, <2>2 DEF Apply
<1>8. CASE op.kind = "transfer_session"
  <2>1. op.to # None
    BY <1>2, <1>8 DEF RolesBound
  <2>2. SessionExists(w, op.session)
    BY <1>8 DEF HandlerAccepts
  <2> QED
    BY <1>8, <2>1, <2>2, TransferSessionTyped DEF Apply
<1>9. CASE op.kind \in {"register_participant", "activate_participant", "retire_participant"}
  <2>1. op.participant \in Actor
    BY <1>2, <1>9 DEF RolesBound, Operation
  <2>2. \A s \in Status : WithStatus(w, op.participant, s) \in World
    BY <2>1, WithStatusTyped
  <2> QED
    BY <1>9, <2>2 DEF Apply, Status
<1>10. CASE op.kind = "signal_done"
  BY <1>1, <1>10, WithStatusTyped DEF Apply, Status
<1>11. CASE op.kind = "emit_heartbeat"
  <2> DEFINE more == w.beats[op.from] + 1
  <2>1. more \in Nat
    BY <1>1, WorldFields
  <2>2. Apply(w, op) = [w EXCEPT !.beats[op.from] = more]
    BY <1>11 DEF Apply
  <2> HIDE DEF more
  <2>3. [w EXCEPT !.beats[op.from] = more] \in World
    BY <1>1, <2>1, WorldFields DEF World
  <2> QED
    BY <2>2, <2>3
<1>12. CASE op.kind = "commit_transcript"
  <2> DEFINE more == w.transcript[op.from] + 1
  <2>1. more \in Nat
    BY <1>1, WorldFields
  <2>2. Apply(w, op) = [w EXCEPT !.transcript[op.from] = more]
    BY <1>12 DEF Apply
  <2> HIDE DEF more
  <2>3. [w EXCEPT !.transcript[op.from] = more] \in World
    BY <1>1, <2>1, WorldFields DEF World
  <2> QED
    BY <2>2, <2>3
<1> QED
  BY <1>1, <1>3, <1>4, <1>5, <1>6, <1>7, <1>8, <1>9, <1>10, <1>11, <1>12 DEF Kind
=============================================================================
