---------------------------- MODULE WorldHistory ----------------------------
(***************************************************************************)
(* What the runtime promises its callers: one world, changed by one        *)
(* operation at a time, each of which the world it changes allowed, or by  *)
(* an observation or an epoch activation, which leave no change behind.    *)
(* Nothing here knows of snapshots, tickets, locks, processes or crashes.  *)
(***************************************************************************)
EXTENDS CollaborationWorld

CONSTANT Ops    \* the operations offered to the runtime

VARIABLES
    world,      \* the current world
    committed   \* the operations applied to it, in order

Init == world = Genesis /\ committed = << >>

Commit(op) ==
    /\ Requires(world, op)
    /\ Committable(world, op)
    /\ world' = Apply(world, op)
    /\ committed' = Append(committed, op)

\* One more audit entry, nothing else.
Observe ==
    /\ Len(world'.audit) = Len(world.audit) + 1
    /\ world' = WithObservation(world, world'.audit[Len(world'.audit)])
    /\ UNCHANGED committed

\* A later epoch, nothing else, and only while no session is open.
Activate ==
    /\ SessionsQuiescent(world)
    /\ world'.epoch > world.epoch
    /\ world' = WithEpoch(world, world'.epoch)
    /\ UNCHANGED committed

Next ==
    \/ \E op \in Ops : Commit(op)
    \/ Observe
    \/ Activate

Spec == Init /\ [][Next]_<<world, committed>>
=============================================================================
