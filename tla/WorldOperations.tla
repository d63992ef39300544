-------------------------- MODULE WorldOperations --------------------------
(***************************************************************************)
(* The twelve operations of the default schema on one world, without the   *)
(* runtime around them: any operation that the templates and the handlers  *)
(* allow, one after the other.  What holds here holds of every world the   *)
(* runtime stores, because it changes worlds by these operations only      *)
(* (WorldHistory).                                                         *)
(***************************************************************************)
EXTENDS CollaborationWorld, Functions

CONSTANTS
    Ops,            \* the operations offered
    MaxSessions,    \* bound: sessions a world may have
    MaxLinks,       \* bound: links a world may have
    MaxBeats        \* bound: heartbeats and transcript revisions of all actors

ASSUME OpsAssumption == Ops \subseteq Operation

VARIABLE world

Within(w) ==
    /\ Len(w.sessions) <= MaxSessions
    /\ Len(w.links) <= MaxLinks
    /\ FoldFunction(+, 0, w.beats) + FoldFunction(+, 0, w.transcript) <= MaxBeats

Init == world = Genesis

Perform(op) ==
    /\ Requires(world, op)
    /\ Committable(world, op)
    /\ Within(Apply(world, op))
    /\ world' = Apply(world, op)

Next == \E op \in Ops : Perform(op)

Spec == Init /\ [][Next]_world

-----------------------------------------------------------------------------
\* The fields CollaborationSnapshot has; a link joins two different actors.
TypeOK ==
    /\ world \in World
    /\ \A i \in 1..Len(world.links) : world.links[i].from # world.links[i].to

\* A write lock is in the hands of its artifact's owner: introduction, forks and
\* delegation move the two together, even when an intent names a capability of
\* another artifact (introduceArtifact.ts, delegate.ts).
LockWithOwner ==
    \A c \in Artifact :
        world.capHolder[c] # None => world.owner[world.capScope[c]] = world.capHolder[c]

\* "Non-copyable scoped resource" (scopedCapability.ts): an artifact never has
\* two write locks.
LockNotCopied ==
    \A c, d \in Artifact :
        world.capScope[c] # None /\ world.capScope[c] = world.capScope[d] => c = d

\* Participants move along the registered lifecycle transitions only, and appear
\* registered, or active when a delegation brings them in as reviewer: nobody
\* comes back from retirement or from done (lifecycleTransitions.ts).
LifecycleRespected ==
    [][\A a \in Actor :
          world'.status[a] # world.status[a] =>
             \/ <<world.status[a], world'.status[a]>> \in ValidTransition
             \/ world.status[a] = "absent" /\ world'.status[a] \in {"registered", "active"}]_world

\* Whoever controls a session takes part in it, after any number of transfers
\* (createSession.ts, delegate.ts, transferSession.ts).
ControllerIsMember ==
    \A s \in 1..Len(world.sessions) :
        world.sessions[s].controller \in world.sessions[s].members
=============================================================================
