------------------------- MODULE RuntimeProperties -------------------------
(***************************************************************************)
(* What the coordination runtime guarantees.  The properties are stated    *)
(* over the kernel's state, so that they can be asked both of the kernel   *)
(* alone and of the kernel with epoch administration beside it.            *)
(***************************************************************************)
EXTENDS CoordinationRuntime

Abstract == INSTANCE WorldHistory WITH
    world     <- HeadWorld,
    committed <- [i \in 1..Len(log) |-> log[i].op]

-----------------------------------------------------------------------------
\* The kernel's state is well formed: worlds, changes, records and calls carry
\* the fields CollaborationSnapshot, CoordinationChange, AdmittedRecord and the
\* commit and observe calls have.
TypeOK ==
    /\ history \in Seq(World) /\ history # << >>
    /\ log \in Seq(Change)
    /\ \A i \in 1..Len(log) : log[i].before < log[i].after /\ log[i].after \in 1..HeadRef
    /\ locks \subseteq [ticket : Ticket, footprint : {Footprint(op) : op \in Ops}]
    /\ registry \in [Proc -> SUBSET [ticket : Ticket, op : Ops, before : Nat,
                                     schema : Nat, expired : BOOLEAN]]
    /\ call \in [Proc -> Call]
    /\ issued \in [Proc -> Nat]
    /\ life \in [Proc -> Nat]
    /\ \A p \in Proc : \A r \in registry[p] : r.before \in 1..HeadRef
    /\ seen \in [Proc -> Seq(Nat)]

\* Whatever processes, stale tickets, lapsed leases, races on the head and
\* crashes do, callers see one world changed by one allowed operation at a time
\* (commitChange.ts executeCommit, memoryDurableCoordinator.ts commit): the
\* world an operation changes is the world it was admitted against.
Linearizable == Abstract!Spec

\* The log never wedges: the next commit on the head is never refused for the
\* chain's sake, whatever observations and activations came since the last one
\* (the permanent refusal validatePreCommit's comment describes).
HeadExtendsChain == ChainAccepts(HeadRef)

\* A reader of the change feed (CoordinationRuntime.changes) misses no change,
\* from whichever stored snapshot it reads on: every change committed on it or
\* on a later one is in the feed, as far from the end as it is in the log.
FeedNeverSkips ==
    \A cursor \in 1..HeadRef :
        LET fed  == Since(history, log, cursor)
            left == Len(log) - Len(fed)
        IN  \A i \in 1..Len(log) :
               log[i].before >= cursor => i > left /\ fed[i - left] = log[i]

\* Replay (replayVerifier.ts verifyResolved) accepts the feed from every stored
\* snapshot and ends at the last change's snapshot: the log and the snapshots it
\* connects never contradict each other.
ReplayAlwaysSucceeds == \A from \in 1..HeadRef : ReplaySucceeds(history, log, from)

\* A lock that is neither lapsed nor left by a crash belongs to a record its
\* process still holds: no refused admission, refused commit, cancellation or
\* pruning leaves a footprint locked with nobody to unlock it.
NoLockWithoutRecord ==
    \A l \in locks :
        LET p == l.ticket.by IN
        \/ l.ticket.life # life[p] \/ call[p].step = "down"
        \/ RecordsOf(p, l.ticket) # {}

\* A process that commits or cancels takes away no lock but one acquired for a
\* record it held, with that record's footprint: the collision of ticket ids
\* between two gateways counting from 1 that admissionGateway.ts describes.
OnlyHolderReleases ==
    [][\A p \in Proc : \A l \in locks \ locks' :
          registry'[p] # registry[p] =>
             \E r \in RecordsOf(p, l.ticket) : l.footprint = Footprint(r.op)]_kernelVars

\* The lock of a ticket whose process is gone does not stay: what a crash left
\* locked becomes free again without anybody's help.
OrphanLocksLapse ==
    \A t \in TicketId :
        (LockHeld(t) /\ (t.life # life[t.by] \/ call[t.by].step = "down")) ~> ~ LockHeld(t)

\* "Returns every committed change after the given cursor snapshot ref, in
\* commit order" (coordinationRuntime.ts, changes): those and no others.
FeedExact ==
    \A cursor \in 1..HeadRef : Since(history, log, cursor) = CommittedAfter(log, cursor)
=============================================================================
