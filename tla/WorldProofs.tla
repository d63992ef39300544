---------------------------- MODULE WorldProofs ----------------------------
(***************************************************************************)
(* The operations of the default schema keep the write locks right, for    *)
(* any actors, artifacts and bounds.  A lock follows its artifact's owner  *)
(* only because no artifact has two locks: delegation moves one, and       *)
(* introduction can name a lock that exists.  Both need that a lock has a  *)
(* holder exactly when it has a scope, and that its scope exists.          *)
(***************************************************************************)
EXTENDS WorldOperations, WorldLemmas

Locked(w) ==
    \A c \in Artifact :
        w.capHolder[c] # None => w.owner[w.capScope[c]] = w.capHolder[c]

NotCopied(w) ==
    \A c, d \in Artifact : w.capScope[c] # None /\ w.capScope[c] = w.capScope[d] => c = d

LockComplete(w) ==
    \A c \in Artifact :
        /\ w.capHolder[c] # None <=> w.capScope[c] # None
        /\ w.capScope[c] # None => w.owner[w.capScope[c]] # None

LockInv(w) == w \in World /\ Locked(w) /\ NotCopied(w) /\ LockComplete(w)

SameLocks(v, w) == v.owner = w.owner /\ v.capHolder = w.capHolder /\ v.capScope = w.capScope

\* A world with the same owners and locks keeps the invariant.
LEMMA SameLocksKeep ==
    ASSUME NEW w \in World, NEW v \in World, SameLocks(v, w), LockInv(w)
    PROVE  LockInv(v)
  BY DEF SameLocks, LockInv, Locked, NotCopied, LockComplete

\* The genesis snapshot holds no lock.
LEMMA GenesisLocks == LockInv(Genesis)
  BY GenesisTyped DEF Genesis, LockInv, Locked, NotCopied, LockComplete

-----------------------------------------------------------------------------
\* Giving an artifact that does not exist a lock, new or taken over.
LEMMA WithTaskLocks ==
    ASSUME NEW w, LockInv(w), NEW op \in Operation, op.task # None, w.owner[op.task] = None
    PROVE  LockInv(WithTask(w, op))
<1> DEFINE t == op.task
           f == op.from
           cap == IF op.capability = None THEN op.task ELSE op.capability
           v == WithTask(w, op)
<1>1. t \in Artifact /\ f \in Actor /\ cap \in Artifact /\ t # None /\ f # None
  BY WorldAssumption DEF Operation
<1>2. w \in World /\ v \in World
  BY WithTaskTyped DEF LockInv
<1>3. /\ v.owner = [w.owner EXCEPT ![t] = f]
      /\ v.capHolder = [w.capHolder EXCEPT ![cap] = f]
      /\ v.capScope = [w.capScope EXCEPT ![cap] = t]
  BY <1>2 DEF WithTask, World
<1> HIDE DEF t, f, cap, v
<1>4. w.owner[t] = None
  BY DEF t
<1>5. \A c \in Artifact : c # cap =>
         /\ v.capHolder[c] = w.capHolder[c] /\ v.capScope[c] = w.capScope[c]
         /\ w.capScope[c] # t
         /\ w.capScope[c] # None => v.owner[w.capScope[c]] = w.owner[w.capScope[c]]
  <2> SUFFICES ASSUME NEW c \in Artifact, c # cap
      PROVE /\ v.capHolder[c] = w.capHolder[c] /\ v.capScope[c] = w.capScope[c]
            /\ w.capScope[c] # t
            /\ w.capScope[c] # None => v.owner[w.capScope[c]] = w.owner[w.capScope[c]]
    OBVIOUS
  <2>1. v.capHolder[c] = w.capHolder[c] /\ v.capScope[c] = w.capScope[c]
    BY <1>1, <1>2, <1>3, WorldFields
  <2>2. w.capScope[c] # t
    BY <1>1, <1>4 DEF LockInv, LockComplete
  <2>3. w.capScope[c] # None => v.owner[w.capScope[c]] = w.owner[w.capScope[c]]
    BY <1>2, <1>3, <2>2, WorldFields
  <2> QED
    BY <2>1, <2>2, <2>3
<1>6. v.capHolder[cap] = f /\ v.capScope[cap] = t /\ v.owner[t] = f
  BY <1>1, <1>2, <1>3, WorldFields
<1>7. Locked(v)
  BY <1>1, <1>5, <1>6 DEF LockInv, Locked, LockComplete
<1>8. NotCopied(v)
  BY <1>1, <1>5, <1>6 DEF LockInv, NotCopied
<1>9. LockComplete(v)
  BY <1>1, <1>5, <1>6 DEF LockInv, LockComplete
<1> QED
  BY <1>2, <1>7, <1>8, <1>9 DEF LockInv, v

\* Handing an artifact and its lock over.
LEMMA HandOverLocks ==
    ASSUME NEW w, LockInv(w), NEW t \in Artifact, NEW c \in Artifact, NEW a \in Actor,
           w.capScope[c] = t
    PROVE  LockInv([w EXCEPT !.owner[t] = a, !.capHolder[c] = a])
<1> DEFINE v == [w EXCEPT !.owner[t] = a, !.capHolder[c] = a]
<1>1. w \in World /\ a # None /\ t # None
  BY WorldAssumption DEF LockInv
<1>2. v \in World
  BY <1>1, WorldFields DEF World
<1>3. /\ v.owner = [w.owner EXCEPT ![t] = a]
      /\ v.capHolder = [w.capHolder EXCEPT ![c] = a]
      /\ v.capScope = w.capScope
  BY <1>1 DEF World
<1> HIDE DEF v
<1>4. v.owner[t] = a /\ v.capHolder[c] = a
  BY <1>1, <1>3, WorldFields
<1>5. \A d \in Artifact : d # c =>
         /\ v.capHolder[d] = w.capHolder[d]
         /\ w.capScope[d] # t
         /\ w.capScope[d] # None => v.owner[w.capScope[d]] = w.owner[w.capScope[d]]
  <2> SUFFICES ASSUME NEW d \in Artifact, d # c
      PROVE /\ v.capHolder[d] = w.capHolder[d]
            /\ w.capScope[d] # t
            /\ w.capScope[d] # None => v.owner[w.capScope[d]] = w.owner[w.capScope[d]]
    OBVIOUS
  <2>1. v.capHolder[d] = w.capHolder[d]
    BY <1>1, <1>3, WorldFields
  <2>2. w.capScope[d] # t
    BY <1>1 DEF LockInv, NotCopied
  <2>3. w.capScope[d] # None => v.owner[w.capScope[d]] = w.owner[w.capScope[d]]
    BY <1>1, <1>3, <2>2, WorldFields
  <2> QED
    BY <2>1, <2>2, <2>3
<1>6. Locked(v)
  BY <1>1, <1>3, <1>4, <1>5 DEF LockInv, Locked, LockComplete
<1>7. NotCopied(v)
  BY <1>3 DEF LockInv, NotCopied
<1>8. LockComplete(v)
  BY <1>1, <1>3, <1>4, <1>5 DEF LockInv, LockComplete
<1> QED
  BY <1>2, <1>6, <1>7, <1>8 DEF LockInv, v

\* Sessions, links and statuses hold no locks.
LEMMA FrameLocks ==
    ASSUME NEW w \in World, LockInv(w)
    PROVE  /\ \A c \in Actor, m \in SUBSET Actor : LockInv(WithSession(w, c, m))
           /\ \A k \in {"nested_in", "waits_for", "parallel_with"}, a, b \in Actor :
                 LockInv(WithLink(w, k, a, b))
           /\ \A a \in Actor, s \in Status : LockInv(WithStatus(w, a, s))
<1>1. ASSUME NEW c \in Actor, NEW m \in SUBSET Actor
      PROVE  LockInv(WithSession(w, c, m))
  <2>1. SameLocks(WithSession(w, c, m), w)
    BY DEF SameLocks, WithSession, World
  <2> QED
    BY <2>1, WithSessionTyped, SameLocksKeep
<1>2. ASSUME NEW k \in {"nested_in", "waits_for", "parallel_with"}, NEW a \in Actor, NEW b \in Actor
      PROVE  LockInv(WithLink(w, k, a, b))
  <2>1. SameLocks(WithLink(w, k, a, b), w)
    BY DEF SameLocks, WithLink, World
  <2> QED
    BY <2>1, WithLinkTyped, SameLocksKeep
<1>3. ASSUME NEW a \in Actor, NEW s \in Status
      PROVE  LockInv(WithStatus(w, a, s))
  <2>1. SameLocks(WithStatus(w, a, s), w)
    BY DEF SameLocks, WithStatus, World
  <2> QED
    BY <2>1, WithStatusTyped, SameLocksKeep
<1> QED
  BY <1>1, <1>2, <1>3

\* delegate moves the lock its capability binding names with the artifact.
LEMMA DelegateLocks ==
    ASSUME NEW w, LockInv(w), NEW op \in Operation, op.kind = "delegate", Requires(w, op)
    PROVE  LockInv(Delegate(w, op))
<1> DEFINE given    == [w EXCEPT !.owner[op.task] = op.to, !.capHolder[op.capability] = op.to]
           moved    == WithSession(given, op.to, {op.to, op.from})
           reviewed == IF Registered(moved, op.participant) THEN moved
                       ELSE WithStatus(moved, op.participant, "active")
<1>1. op.task # None /\ op.to # None /\ op.capability # None
  BY DEF Requires, RolesBound
<1>2. op.from \in Actor /\ op.to \in Actor /\ op.task \in Artifact /\ op.capability \in Artifact
  BY <1>1 DEF Operation
<1>3. w.capScope[op.capability] = op.task
  BY <1>1 DEF Requires, Holds
<1>4. LockInv(given)
  BY <1>2, <1>3, HandOverLocks
<1> HIDE DEF given
<1>5. LockInv(moved)
  BY <1>2, <1>4, FrameLocks DEF LockInv
<1> HIDE DEF moved
<1>6. HasPeer(op) => LockInv(reviewed)
  BY <1>5, PeerIsActor, FrameLocks DEF LockInv, Status
<1> HIDE DEF reviewed
<1>7. HasPeer(op) => LockInv(WithLink(reviewed, "waits_for", op.participant, op.to))
  BY <1>2, <1>6, PeerIsActor, FrameLocks DEF LockInv
<1> QED
  BY <1>5, <1>7 DEF Delegate, given, moved, reviewed

\* Every operation keeps the locks right.
LEMMA ApplyLocks ==
    ASSUME NEW w, LockInv(w), NEW op \in Operation, Requires(w, op), HandlerAccepts(w, op)
    PROVE  LockInv(Apply(w, op))
<1>1. w \in World /\ op.kind \in Kind /\ op.from \in Actor /\ Apply(w, op) \in World
  BY ApplyTyped DEF LockInv, Operation
<1>2. RolesBound(op)
  BY DEF Requires
<1>3. CASE op.kind = "introduce_artifact"
  <2>1. op.task # None /\ op.task \in Artifact
    BY <1>2, <1>3 DEF RolesBound, Operation
  <2>2. w.owner[op.task] = None
    BY <1>3, <2>1 DEF Requires, TaskExists
  <2> QED
    BY <1>3, <2>1, <2>2, WithTaskLocks DEF Apply
<1>4. CASE op.kind = "fork_branch"
  <2> DEFINE branched == IF op.task = None THEN w ELSE WithTask(w, op)
  <2>1. op.task # None => w.owner[op.task] = None
    BY <1>4 DEF HandlerAccepts, TaskExists, Operation
  <2>2. LockInv(branched)
    BY <2>1, WithTaskLocks
  <2> HIDE DEF branched
  <2>3. HasPeer(op) => LockInv(WithLink(branched, "parallel_with", op.from, op.participant))
    BY <1>1, <2>2, PeerIsActor, FrameLocks DEF LockInv
  <2> QED
    BY <1>4, <2>2, <2>3 DEF Apply, ForkBranch, branched
<1>5. CASE op.kind = "delegate"
  BY <1>5, DelegateLocks DEF Apply
<1>6. CASE op.kind = "create_session"
  <2> DEFINE opened == WithSession(w, op.from, {op.from, op.participant} \ {None})
  <2>1. {op.from, op.participant} \ {None} \subseteq Actor
    BY DEF Operation
  <2>2. LockInv(opened)
    BY <1>1, <2>1, FrameLocks
  <2> HIDE DEF opened
  <2>3. HasPeer(op) => LockInv(WithLink(opened, "nested_in", op.from, op.participant))
    BY <1>1, <2>2, PeerIsActor, FrameLocks DEF LockInv
  <2> QED
    BY <1>6, <2>2, <2>3 DEF Apply, CreateSession, opened
<1>7. CASE op.kind \in {"register_participant", "activate_participant", "retire_participant"}
  <2>1. op.participant \in Actor
    BY <1>2, <1>7 DEF RolesBound, Operation
  <2>2. \A s \in Status : LockInv(WithStatus(w, op.participant, s))
    BY <1>1, <2>1, FrameLocks
  <2> QED
    BY <1>7, <2>2 DEF Apply, Status
<1>8. CASE op.kind = "signal_done"
  BY <1>1, <1>8, FrameLocks DEF Apply, Status
<1>9. CASE op.kind \in {"publish_artifact", "transfer_session", "emit_heartbeat", "commit_transcript"}
  <2>1. SameLocks(Apply(w, op), w)
    BY <1>1, <1>9 DEF SameLocks, Apply, TransferSession, World
  <2> QED
    BY <1>1, <2>1, SameLocksKeep
<1> QED
  BY <1>1, <1>3, <1>4, <1>5, <1>6, <1>7, <1>8, <1>9 DEF Kind

\* The inductive invariant holds in every reachable world.
LEMMA LockInvariance == Spec => []LockInv(world)
<1>1. Init => LockInv(world)
  BY GenesisLocks DEF Init
<1>2. LockInv(world) /\ [Next]_world => LockInv(world)'
  <2> SUFFICES ASSUME LockInv(world), [Next]_world PROVE LockInv(world')
    OBVIOUS
  <2>1. ASSUME NEW op \in Ops, Perform(op) PROVE LockInv(world')
    BY <2>1, ApplyLocks, OpsAssumption DEF Perform, Committable
  <2>2. CASE UNCHANGED world
    BY <2>2
  <2> QED
    BY <2>1, <2>2 DEF Next
<1> QED
  BY <1>1, <1>2, PTL DEF Spec

\* A write lock is always in the hands of its artifact's owner, whatever
\* introductions, forks and delegations came before (delegate.ts).
THEOREM LockOwnership == Spec => []LockWithOwner
<1>1. LockInv(world) => LockWithOwner
  BY DEF LockInv, Locked, LockWithOwner
<1> QED
  BY <1>1, LockInvariance, PTL

\* No artifact ever has two write locks (scopedCapability.ts, non-copyable).
THEOREM LockUniqueness == Spec => []LockNotCopied
<1>1. LockInv(world) => LockNotCopied
  BY DEF LockInv, NotCopied, LockNotCopied
<1> QED
  BY <1>1, LockInvariance, PTL
-----------------------------------------------------------------------------
(* Types: the world's fields, and no link from a participant to itself.    *)

NoLoop(links) == \A i \in 1..Len(links) : links[i].from # links[i].to

\* A link between two different participants adds no loop.
LEMMA WithLinkNoLoop ==
    ASSUME NEW w \in World, NoLoop(w.links),
           NEW k, NEW a \in Actor, NEW b \in Actor, a # b
    PROVE  NoLoop(WithLink(w, k, a, b).links)
  BY WorldFields DEF WithLink, NoLoop

\* All the other operators leave the links alone.
LEMMA LinksKept ==
    ASSUME NEW w \in World, NEW op \in Operation
    PROVE  /\ WithTask(w, op).links = w.links
           /\ \A c, ms : WithSession(w, c, ms).links = w.links
           /\ \A a, s : WithStatus(w, a, s).links = w.links
  BY DEF WithTask, WithSession, WithStatus, World

\* An operation links its actor, or its delegatee, to a third participant only.
LEMMA ApplyNoLoop ==
    ASSUME NEW w \in World, NoLoop(w.links), NEW op \in Operation,
           Requires(w, op), HandlerAccepts(w, op)
    PROVE  NoLoop(Apply(w, op).links)
<1>1. op.kind \in Kind /\ op.from \in Actor /\ RolesBound(op)
  BY DEF Operation, Requires
<1>2. CASE op.kind = "fork_branch"
  <2> DEFINE branched == IF op.task = None THEN w ELSE WithTask(w, op)
  <2>1. branched \in World /\ branched.links = w.links
    BY LinksKept, WithTaskTyped DEF Operation
  <2> HIDE DEF branched
  <2>2. HasPeer(op) => NoLoop(WithLink(branched, "parallel_with", op.from, op.participant).links)
    BY <1>1, <2>1, PeerIsActor, WithLinkNoLoop DEF HasPeer
  <2> QED
    BY <1>2, <2>1, <2>2 DEF Apply, ForkBranch, branched
<1>3. CASE op.kind = "create_session"
  <2> DEFINE opened == WithSession(w, op.from, {op.from, op.participant} \ {None})
  <2>1. opened \in World /\ opened.links = w.links
    BY <1>1, LinksKept, WithSessionTyped DEF Operation
  <2> HIDE DEF opened
  <2>2. HasPeer(op) => NoLoop(WithLink(opened, "nested_in", op.from, op.participant).links)
    BY <1>1, <2>1, PeerIsActor, WithLinkNoLoop DEF HasPeer
  <2> QED
    BY <1>3, <2>1, <2>2 DEF Apply, CreateSession, opened
<1>4. CASE op.kind = "delegate"
  <2> DEFINE given    == [w EXCEPT !.owner[op.task] = op.to, !.capHolder[op.capability] = op.to]
             moved    == WithSession(given, op.to, {op.to, op.from})
             reviewed == IF Registered(moved, op.participant) THEN moved
                         ELSE WithStatus(moved, op.participant, "active")
  <2>1. op.to \in Actor /\ op.task \in Artifact /\ op.capability \in Artifact
    BY <1>1, <1>4 DEF RolesBound, Operation
  <2>2. given \in World /\ given.links = w.links
    BY <2>1, WorldAssumption DEF World
  <2> HIDE DEF given
  <2>3. moved \in World /\ moved.links = w.links
    BY <1>1, <2>1, <2>2, LinksKept, WithSessionTyped
  <2> HIDE DEF moved
  <2>4. HasPeer(op) => reviewed \in World /\ reviewed.links = w.links
    BY <2>3, PeerIsActor, LinksKept, WithStatusTyped DEF Status
  <2> HIDE DEF reviewed
  <2>5. HasPeer(op) /\ op.participant # op.to
           => NoLoop(WithLink(reviewed, "waits_for", op.participant, op.to).links)
    BY <2>1, <2>4, PeerIsActor, WithLinkNoLoop
  <2> QED
    BY <1>4, <2>3, <2>5 DEF Apply, Delegate, given, moved, reviewed
<1>5. CASE op.kind \notin {"fork_branch", "create_session", "delegate"}
  <2>1. CASE op.kind = "introduce_artifact"
    BY <2>1, LinksKept DEF Apply
  <2>2. CASE op.kind \in {"register_participant", "activate_participant", "retire_participant",
                          "signal_done"}
    BY <2>2, LinksKept DEF Apply
  <2>3. CASE op.kind \in {"publish_artifact", "transfer_session", "emit_heartbeat", "commit_transcript"}
    <3>1. Apply(w, op).links = w.links
      BY <2>3, WorldFields DEF Apply, TransferSession
    <3> QED
      BY <3>1
  <2> QED
    BY <1>1, <1>5, <2>1, <2>2, <2>3 DEF Kind
<1> QED
  BY <1>2, <1>3, <1>4, <1>5

\* A world's fields are well formed, and no participant is linked to itself,
\* whichever roles an intent binds to the same actor (forkBranch.ts, delegate.ts).
THEOREM WorldTypes == Spec => []TypeOK
<1> DEFINE Inv == world \in World /\ NoLoop(world.links)
<1>1. Init => Inv
  BY GenesisTyped DEF Init, Genesis, NoLoop
<1>2. Inv /\ [Next]_world => Inv'
  <2> SUFFICES ASSUME Inv, [Next]_world PROVE Inv'
    OBVIOUS
  <2>1. ASSUME NEW op \in Ops, Perform(op) PROVE Inv'
    BY <2>1, ApplyTyped, ApplyNoLoop, OpsAssumption DEF Perform, Committable
  <2>2. CASE UNCHANGED world
    BY <2>2
  <2> QED
    BY <2>1, <2>2 DEF Next
<1>3. Inv => TypeOK
  BY DEF NoLoop, TypeOK
<1> QED
  BY <1>1, <1>2, <1>3, PTL DEF Spec

-----------------------------------------------------------------------------
(* Sessions and lifecycle.                                                 *)

Seated(sessions) ==
    \A s \in 1..Len(sessions) : sessions[s].controller \in sessions[s].members

\* A session opened for one of its members leaves every controller a member.
LEMMA WithSessionSeated ==
    ASSUME NEW w \in World, Seated(w.sessions), NEW c \in Actor, NEW m \in SUBSET Actor, c \in m
    PROVE  Seated(WithSession(w, c, m).sessions)
  BY WorldFields DEF WithSession, Seated

\* A transfer seats the new controller.
LEMMA TransferSeated ==
    ASSUME NEW w \in World, Seated(w.sessions), NEW op \in Operation, SessionExists(w, op.session)
    PROVE  Seated(TransferSession(w, op).sessions)
<1> DEFINE new == [controller |-> op.to, members |-> w.sessions[op.session].members \cup {op.to}]
<1>1. TransferSession(w, op).sessions = [w.sessions EXCEPT ![op.session] = new]
  BY WorldFields DEF TransferSession
<1>2. new.controller \in new.members
  OBVIOUS
<1> HIDE DEF new
<1> QED
  BY <1>1, <1>2, WorldFields DEF Seated, SessionExists

\* Links, statuses, artifacts and locks seat nobody.
LEMMA SessionsKept ==
    ASSUME NEW w \in World, NEW op \in Operation
    PROVE  /\ WithTask(w, op).sessions = w.sessions
           /\ \A k, a, b : WithLink(w, k, a, b).sessions = w.sessions
           /\ \A a, s : WithStatus(w, a, s).sessions = w.sessions
  BY DEF WithTask, WithLink, WithStatus, World

\* Every operation leaves the controllers members.
LEMMA ApplySeated ==
    ASSUME NEW w \in World, Seated(w.sessions), NEW op \in Operation,
           Requires(w, op), HandlerAccepts(w, op)
    PROVE  Seated(Apply(w, op).sessions)
<1>1. op.kind \in Kind /\ op.from \in Actor /\ RolesBound(op)
  BY DEF Operation, Requires
<1>2. CASE op.kind = "fork_branch"
  <2> DEFINE branched == IF op.task = None THEN w ELSE WithTask(w, op)
  <2>1. branched \in World /\ branched.sessions = w.sessions
    BY SessionsKept, WithTaskTyped DEF Operation
  <2> HIDE DEF branched
  <2>2. Apply(w, op).sessions = w.sessions
    BY <1>2, <2>1, SessionsKept DEF Apply, ForkBranch, branched
  <2> QED
    BY <2>2
<1>3. CASE op.kind = "create_session"
  <2> DEFINE seats  == {op.from, op.participant} \ {None}
             opened == WithSession(w, op.from, seats)
  <2>1. seats \in SUBSET Actor /\ op.from \in seats
    BY <1>1, WorldAssumption DEF Operation
  <2>2. opened \in World /\ Seated(opened.sessions)
    BY <1>1, <2>1, WithSessionSeated, WithSessionTyped
  <2> HIDE DEF opened
  <2>3. Apply(w, op).sessions = opened.sessions
    BY <1>3, <2>2, SessionsKept DEF Apply, CreateSession, opened
  <2> QED
    BY <2>2, <2>3
<1>4. CASE op.kind = "delegate"
  <2> DEFINE given    == [w EXCEPT !.owner[op.task] = op.to, !.capHolder[op.capability] = op.to]
             moved    == WithSession(given, op.to, {op.to, op.from})
             reviewed == IF Registered(moved, op.participant) THEN moved
                         ELSE WithStatus(moved, op.participant, "active")
  <2>1. op.to \in Actor /\ op.task \in Artifact /\ op.capability \in Artifact
    BY <1>1, <1>4 DEF RolesBound, Operation
  <2>2. given \in World /\ given.sessions = w.sessions
    BY <2>1, WorldAssumption DEF World
  <2> HIDE DEF given
  <2>3. moved \in World /\ Seated(moved.sessions)
    BY <1>1, <2>1, <2>2, WithSessionSeated, WithSessionTyped
  <2> HIDE DEF moved
  <2>4. HasPeer(op) => reviewed \in World /\ reviewed.sessions = moved.sessions
    BY <2>3, PeerIsActor, SessionsKept, WithStatusTyped DEF Status
  <2> HIDE DEF reviewed
  <2>5. Apply(w, op).sessions = moved.sessions
    BY <1>4, <2>4, SessionsKept DEF Apply, Delegate, given, moved, reviewed
  <2> QED
    BY <2>3, <2>5
<1>5. CASE op.kind = "transfer_session"
  BY <1>5, TransferSeated DEF Apply, HandlerAccepts
<1>6. CASE op.kind \in {"introduce_artifact", "register_participant", "activate_participant",
                        "retire_participant", "signal_done"}
  BY <1>6, SessionsKept DEF Apply
<1>7. CASE op.kind \in {"publish_artifact", "emit_heartbeat", "commit_transcript"}
  <2>1. Apply(w, op).sessions = w.sessions
    BY <1>7, WorldFields DEF Apply
  <2> QED
    BY <2>1
<1> QED
  BY <1>1, <1>2, <1>3, <1>4, <1>5, <1>6, <1>7 DEF Kind

\* Whoever controls a session is a member of it, after any number of delegations
\* and transfers (transferSession.ts).
THEOREM ControllersTakePart == Spec => []ControllerIsMember
<1> DEFINE Inv == world \in World /\ Seated(world.sessions)
<1>1. Init => Inv
  BY GenesisTyped DEF Init, Genesis, Seated
<1>2. Inv /\ [Next]_world => Inv'
  <2> SUFFICES ASSUME Inv, [Next]_world PROVE Inv'
    OBVIOUS
  <2>1. ASSUME NEW op \in Ops, Perform(op) PROVE Inv'
    BY <2>1, ApplyTyped, ApplySeated, OpsAssumption DEF Perform, Committable
  <2>2. CASE UNCHANGED world
    BY <2>2
  <2> QED
    BY <2>1, <2>2 DEF Next
<1>3. Inv => ControllerIsMember
  BY DEF Seated, ControllerIsMember
<1> QED
  BY <1>1, <1>2, <1>3, PTL DEF Spec

\* A participant's step along the lifecycle.
Step(before, after) ==
    \/ <<before, after>> \in ValidTransition
    \/ before = "absent" /\ after \in {"registered", "active"}

Steps(v, w) == \A a \in Actor : v.status[a] # w.status[a] => Step(w.status[a], v.status[a])

\* One participant's step is a step of the world.
LEMMA WithStatusSteps ==
    ASSUME NEW w \in World, NEW a \in Actor, NEW s, Step(w.status[a], s)
    PROVE  Steps(WithStatus(w, a, s), w)
  BY WorldFields DEF WithStatus, Steps

\* Artifacts, locks, sessions and links change no status.
LEMMA StatusKept ==
    ASSUME NEW w \in World, NEW op \in Operation
    PROVE  /\ WithTask(w, op).status = w.status
           /\ \A c, ms : WithSession(w, c, ms).status = w.status
           /\ \A k, a, b : WithLink(w, k, a, b).status = w.status
  BY DEF WithTask, WithLink, WithSession, World

\* Every operation moves participants along the lifecycle only.
LEMMA ApplySteps ==
    ASSUME NEW w \in World, NEW op \in Operation, Requires(w, op), HandlerAccepts(w, op)
    PROVE  Steps(Apply(w, op), w)
<1>1. op.kind \in Kind /\ op.from \in Actor /\ RolesBound(op)
  BY DEF Operation, Requires
<1>2. CASE op.kind = "delegate"
  <2> DEFINE given    == [w EXCEPT !.owner[op.task] = op.to, !.capHolder[op.capability] = op.to]
             moved    == WithSession(given, op.to, {op.to, op.from})
             reviewed == IF Registered(moved, op.participant) THEN moved
                         ELSE WithStatus(moved, op.participant, "active")
  <2>1. op.to \in Actor /\ op.task \in Artifact /\ op.capability \in Artifact
    BY <1>1, <1>2 DEF RolesBound, Operation
  <2>2. given \in World /\ given.status = w.status
    BY <2>1, WorldAssumption DEF World
  <2> HIDE DEF given
  <2>3. moved \in World /\ moved.status = w.status
    BY <1>1, <2>1, <2>2, StatusKept, WithSessionTyped
  <2> HIDE DEF moved
  <2>4. ASSUME HasPeer(op) PROVE reviewed \in World /\ Steps(reviewed, w)
    <3>1. op.participant \in Actor
      BY <2>4, PeerIsActor
    <3>2. CASE Registered(moved, op.participant)
      BY <2>3, <3>2 DEF Steps
    <3>3. CASE ~ Registered(moved, op.participant)
      <4>1. Step(moved.status[op.participant], "active")
        BY <3>1, <3>3 DEF Registered, Step
      <4>2. Steps(WithStatus(moved, op.participant, "active"), moved)
        BY <2>3, <3>1, <4>1, WithStatusSteps
      <4> QED
        BY <2>3, <3>1, <3>3, <4>2, WithStatusTyped DEF Steps, Status
    <3> QED
      BY <3>2, <3>3
  <2> HIDE DEF reviewed
  <2>5. CASE HasPeer(op) /\ op.participant # op.to
    <3>1. Apply(w, op) = WithLink(reviewed, "waits_for", op.participant, op.to)
      BY <1>2, <2>5 DEF Apply, Delegate, given, moved, reviewed
    <3> QED
      BY <2>4, <2>5, <3>1, StatusKept DEF Steps
  <2>6. CASE ~ (HasPeer(op) /\ op.participant # op.to)
    <3>1. Apply(w, op) = moved
      BY <1>2, <2>6 DEF Apply, Delegate, given, moved
    <3> QED
      BY <2>3, <3>1 DEF Steps
  <2> QED
    BY <2>5, <2>6
<1>3. CASE op.kind \in {"create_session", "fork_branch"}
  <2> DEFINE base == IF op.kind = "create_session"
                     THEN WithSession(w, op.from, {op.from, op.participant} \ {None})
                     ELSE IF op.task = None THEN w ELSE WithTask(w, op)
  <2>1. {op.from, op.participant} \ {None} \in SUBSET Actor
    BY <1>1 DEF Operation
  <2>2. base \in World /\ base.status = w.status
    BY <1>1, <2>1, StatusKept, WithSessionTyped, WithTaskTyped DEF Operation
  <2>3. Apply(w, op) = base \/ \E k, a, b : Apply(w, op) = WithLink(base, k, a, b)
    BY <1>3 DEF Apply, CreateSession, ForkBranch
  <2> HIDE DEF base
  <2>4. Apply(w, op).status = w.status
    BY <2>2, <2>3, StatusKept
  <2> QED
    BY <2>4 DEF Steps
<1>4. CASE op.kind \in {"register_participant", "activate_participant", "retire_participant"}
  <2>1. op.participant \in Actor
    BY <1>1, <1>4 DEF RolesBound, Operation
  <2>2. \E s : Apply(w, op) = WithStatus(w, op.participant, s) /\ Step(w.status[op.participant], s)
    BY <1>4 DEF Apply, HandlerAccepts, RegisterAccepts, ActivateAccepts, RetireAccepts,
                MayTransition, Step
  <2> QED
    BY <2>1, <2>2, WithStatusSteps
<1>5. CASE op.kind = "signal_done"
  <2>1. Step(w.status[op.from], "done")
    BY <1>5 DEF HandlerAccepts, SignalDoneAccepts, MayTransition, Step
  <2> QED
    BY <1>1, <1>5, <2>1, WithStatusSteps DEF Apply
<1>6. CASE op.kind \in {"introduce_artifact", "publish_artifact", "transfer_session",
                        "emit_heartbeat", "commit_transcript"}
  <2>1. Apply(w, op).status = w.status
    BY <1>6, StatusKept, WorldFields DEF Apply, TransferSession
  <2> QED
    BY <2>1 DEF Steps
<1> QED
  BY <1>1, <1>2, <1>3, <1>4, <1>5, <1>6 DEF Kind

\* Participants move along the registered transitions, whatever operations are
\* performed on them in whatever order (lifecycleTransitions.ts).
THEOREM LifecycleHolds == Spec => LifecycleRespected
<1>1. Init => world \in World
  BY GenesisTyped DEF Init
<1>2. world \in World /\ [Next]_world => (world \in World)'
  BY ApplyTyped, OpsAssumption DEF Next, Perform, Committable
<1>3. ASSUME world \in World, [Next]_world
      PROVE  [\A a \in Actor :
                 world'.status[a] # world.status[a] =>
                    \/ <<world.status[a], world'.status[a]>> \in ValidTransition
                    \/ world.status[a] = "absent" /\ world'.status[a] \in {"registered", "active"}]_world
  <2>1. ASSUME NEW op \in Ops, Perform(op) PROVE Steps(world', world)
    BY <1>3, <2>1, ApplySteps, OpsAssumption DEF Perform, Committable
  <2> QED
    BY <1>3, <2>1 DEF Next, Steps, Step
<1> QED
  BY <1>1, <1>2, <1>3, PTL DEF Spec, LifecycleRespected
=============================================================================
