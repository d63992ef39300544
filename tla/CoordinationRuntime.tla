------------------------ MODULE CoordinationRuntime ------------------------
(***************************************************************************)
(* The coordination runtime: processes that admit operations against a     *)
(* stored snapshot, commit them onto the head, and ingest observations,    *)
(* over one durable coordinator and one resource lock table they share     *)
(* (FileDurableCoordinator and FileResourceLockTable in one directory; one *)
(* process alone is the in-memory pair).                                   *)
(*                                                                         *)
(* A process runs a call to its end without yielding, so two calls of one  *)
(* process never interleave; those of different processes interleave       *)
(* between any two accesses to what they share.  Each access to the store  *)
(* or to the lock table is atomic (the directory lock).  A process may     *)
(* crash at any point, losing its registry and its run history, and start  *)
(* again on what is durable.                                               *)
(***************************************************************************)
EXTENDS ChangeFeed

CONSTANTS
    Proc,           \* the processes that share the store
    HistoryTracked, \* those with a RunHistoryTracker (the CLI wires one)
    Ops,            \* the operations offered to the runtime
    MaxHead,        \* bound: snapshots stored
    MaxTickets,     \* bound: tickets one process life issues
    MaxLives        \* bound: lives of one process

ASSUME RuntimeAssumption ==
    /\ HistoryTracked \subseteq Proc
    /\ Ops \subseteq Operation
    /\ MaxHead \in Nat /\ MaxTickets \in Nat /\ MaxLives \in Nat

VARIABLES
    history,    \* every stored snapshot; the last is the head
    log,        \* the change log
    binding,    \* the active schema-epoch binding, stored with the head
    locks,      \* the lock table's entries that have not expired
    registry,   \* registry[p]: the admitted records p holds
    call,       \* call[p]: where p stands in the call it runs
    issued,     \* issued[p]: tickets p has issued in this life
    life,       \* life[p]: which life p is in; the gateway's random tag
    seen,       \* seen[p]: the observation segments of p's run history
    holder      \* holder[p]: p's schema context and binding

kernelVars == <<history, log, binding, locks, registry, call, issued, life, seen, holder>>

-----------------------------------------------------------------------------
Ticket == [by : Proc, life : Nat, seq : Nat]

LockEntry == [ticket : Ticket, footprint : SUBSET (STRING \X (Actor \cup Artifact \cup Nat))]

\* An AdmittedRecord; `schema` is the epoch its template was taken from.
Record == [ticket : Ticket, op : Operation, before : Nat, schema : Nat, expired : BOOLEAN]

\* A CoordinationChange with its recipe: the operation, and the epoch and the
\* schema it was recomputed under.
Change == [op : Operation, before : Nat, after : Nat, epoch : Nat, schema : Nat]

Step == {"idle", "apply", "release", "swap", "activate", "down"}

Call == [step : Step, ticket : Ticket \cup {None}, head : Nat]

Idle == [step |-> "idle", ticket |-> None, head |-> 0]

Down == [Idle EXCEPT !.step = "down"]

HeadRef == Len(history)

HeadWorld == history[HeadRef]

LockHeld(t) == \E l \in locks : l.ticket = t

WithoutLock(t) == {l \in locks : l.ticket # t}

RecordsOf(p, t) == {r \in registry[p] : r.ticket = t}

WithoutRecord(p, t) == [registry EXCEPT ![p] = {r \in @ : r.ticket # t}]

\* Variant: ids without the tag, as two processes counting from 1 would make.
SharedSequenceTicket(p) == [by |-> CHOOSE q \in Proc : TRUE, life |-> 1, seq |-> issued[p] + 1]

\* The id "adm-<tag>-<n>": the tag is this gateway's, so lives never share ids.
NextTicket(p) == [by |-> p, life |-> life[p], seq |-> issued[p] + 1]

KernelInit ==
    /\ history = <<Genesis>>
    /\ log = << >>
    /\ binding = [generation |-> 1, epoch |-> 1, admission |-> None]
    /\ locks = {}
    /\ registry = [p \in Proc |-> {}]
    /\ call = [p \in Proc |-> Idle]
    /\ issued = [p \in Proc |-> 0]
    /\ life = [p \in Proc |-> 1]
    /\ seen = [p \in Proc |-> << >>]
    /\ holder = [p \in Proc |-> binding]

-----------------------------------------------------------------------------
(* Admission.                                                              *)

\* Variant: the schema's epoch is not compared with the snapshot's.
AdmissionAllowedInAnyEpoch(p, op, b) ==
    /\ Integrity(history[b])
    /\ Requires(history[b], op)

\* The head, or an older snapshot the caller names, judged by the schema p
\* holds; then the footprint's locks, then the record.  A refusal at any of
\* these leaves nothing behind.
AdmissionAllowed(p, op, b) ==
    /\ Integrity(history[b])
    /\ history[b].epoch = holder[p].epoch
    /\ Requires(history[b], op)

LocksFree(footprint) == \A l \in locks : ~ Overlaps(l.footprint, footprint)

Admit(p, op, b) ==
    LET t == NextTicket(p) IN
    /\ call[p].step = "idle"
    /\ issued[p] < MaxTickets
    /\ AdmissionAllowed(p, op, b)
    /\ LocksFree(Footprint(op))
    /\ locks' = locks \cup {[ticket |-> t, footprint |-> Footprint(op)]}
    /\ registry' = [registry EXCEPT ![p] = @ \cup
          {[ticket |-> t, op |-> op, before |-> b, schema |-> holder[p].epoch, expired |-> FALSE]}]
    /\ issued' = [issued EXCEPT ![p] = @ + 1]
    /\ UNCHANGED <<history, log, binding, call, life, seen, holder>>

\* Variant: the record is dropped, its lock forgotten.
CancelRecordOnly(p, t) ==
    /\ registry' = WithoutRecord(p, t)
    /\ UNCHANGED locks

\* registry.cancel: the lock goes, then the record; unknown tickets are ignored.
CancelTicket(p, t) ==
    /\ locks' = WithoutLock(t)
    /\ registry' = WithoutRecord(p, t)

Cancel(p, t) ==
    /\ call[p].step = "idle"
    /\ RecordsOf(p, t) # {}
    /\ CancelTicket(p, t)
    /\ UNCHANGED <<history, log, binding, call, issued, life, seen, holder>>

\* activeCount forgets expired records without touching their locks.
PruneExpired(p) ==
    /\ call[p].step = "idle"
    /\ \E r \in registry[p] : r.expired
    /\ registry' = [registry EXCEPT ![p] = {r \in @ : ~ r.expired}]
    /\ UNCHANGED <<history, log, binding, locks, call, issued, life, seen, holder>>

-----------------------------------------------------------------------------
(* Commit: resolve the ticket, apply and store, release.                   *)

Resolvable(r) ==
    /\ ~ r.expired
    /\ LockHeld(r.ticket)
    /\ r.before = HeadRef

CommitResolve(p, r) ==
    /\ call[p].step = "idle"
    /\ r \in registry[p]
    /\ \/ /\ Resolvable(r)
          /\ call' = [call EXCEPT ![p] = [step |-> "apply", ticket |-> r.ticket, head |-> 0]]
          /\ UNCHANGED <<locks, registry>>
       \/ /\ ~ Resolvable(r)
          /\ CancelTicket(p, r.ticket)
          /\ UNCHANGED call
    /\ UNCHANGED <<history, log, binding, issued, life, seen, holder>>

\* validatePreCommit, and the same chain check repeated under the store's lock.
ChainAccepts(before) ==
    log # << >> => Bridges(history, log[Len(log)].after, before)

HistoryAccepts(p, after) == p \in HistoryTracked => seen[p] = after.audit

\* Variant: a store that does not compare the head.
StoreOnAnyHead(before) == before \in 1..HeadRef /\ HeadRef < MaxHead

\* durable.commit writes only on the head the operation was admitted against.
StoreAccepts(before) == before = HeadRef /\ HeadRef < MaxHead

CommitAccepted(p, r) ==
    LET after == Apply(history[r.before], r.op) IN
    /\ Committable(history[r.before], r.op)
    /\ ChainAccepts(r.before)
    /\ HistoryAccepts(p, after)
    /\ StoreAccepts(r.before)

\* Variant: the before-ref is the previous change's after-ref, not the head.
StoreChangeOnLastChange(r) ==
    /\ history' = Append(history, Apply(history[r.before], r.op))
    /\ log' = Append(log, [op |-> r.op,
                           before |-> IF log = << >> THEN 1 ELSE log[Len(log)].after,
                           after |-> HeadRef + 1,
                           epoch |-> history[r.before].epoch, schema |-> r.schema])

StoreChange(r) ==
    /\ history' = Append(history, Apply(history[r.before], r.op))
    /\ log' = Append(log, [op |-> r.op, before |-> r.before, after |-> HeadRef + 1,
                           epoch |-> history[r.before].epoch, schema |-> r.schema])

\* Content that the authority cannot confirm is the one refusal the world does
\* not decide.
CommitApply(p) ==
    /\ call[p].step = "apply"
    /\ \E r \in RecordsOf(p, call[p].ticket) :
          \/ CommitAccepted(p, r) /\ StoreChange(r)
          \/ /\ ~ CommitAccepted(p, r) \/ IntroducesContent(r.op)
             /\ UNCHANGED <<history, log>>
    /\ call' = [call EXCEPT ![p].step = "release"]
    /\ UNCHANGED <<binding, locks, registry, issued, life, seen, holder>>

\* The `finally` block: whatever happened, the lock is released, the ticket used.
CommitRelease(p) ==
    /\ call[p].step = "release"
    /\ CancelTicket(p, call[p].ticket)
    /\ call' = [call EXCEPT ![p] = Idle]
    /\ UNCHANGED <<history, log, binding, issued, life, seen, holder>>

-----------------------------------------------------------------------------
(* Observation: read the head, then compare-and-swap it.                   *)

ObserveRead(p) ==
    /\ call[p].step = "idle"
    /\ \E source \in Actor : Registered(HeadWorld, source)
    /\ call' = [call EXCEPT ![p] = [step |-> "swap", ticket |-> None, head |-> HeadRef]]
    /\ UNCHANGED <<history, log, binding, locks, registry, issued, life, seen, holder>>

\* p's run history records the entry only once the swap has succeeded.
ObserveSwap(p) ==
    LET entry == HeadRef + 1 IN
    /\ call[p].step = "swap"
    /\ IF StoreAccepts(call[p].head)
       THEN /\ history' = Append(history, WithObservation(history[call[p].head], entry))
            /\ seen' = [seen EXCEPT ![p] = IF p \in HistoryTracked THEN Append(@, entry) ELSE @]
       ELSE UNCHANGED <<history, seen>>
    /\ call' = [call EXCEPT ![p] = Idle]
    /\ UNCHANGED <<log, binding, locks, registry, issued, life, holder>>

-----------------------------------------------------------------------------
(* Time, crashes and restarts.                                             *)

\* Variant: a lease that only its owner, alive, gives up.
LockLapsesWithOwner(l) ==
    /\ l \in locks
    /\ call[l.ticket.by].step # "down" /\ l.ticket.life = life[l.ticket.by]
    /\ locks' = locks \ {l}
    /\ UNCHANGED <<history, log, binding, registry, call, issued, life, seen, holder>>

\* A lock's lease runs out; expired entries count for nothing from then on.
LockLapses(l) ==
    /\ l \in locks
    /\ locks' = locks \ {l}
    /\ UNCHANGED <<history, log, binding, registry, call, issued, life, seen, holder>>

\* The record was registered after its lock was acquired, with the same lease.
RecordLapses(p, r) ==
    /\ r \in registry[p]
    /\ ~ r.expired
    /\ ~ LockHeld(r.ticket)
    /\ registry' = [registry EXCEPT ![p] = (@ \ {r}) \cup {[r EXCEPT !.expired = TRUE]}]
    /\ UNCHANGED <<history, log, binding, locks, call, issued, life, seen, holder>>

\* What is in memory is gone; the store and the lock table stay as they are.
Crash(p) ==
    /\ call[p].step # "down"
    /\ call' = [call EXCEPT ![p] = Down]
    /\ registry' = [registry EXCEPT ![p] = {}]
    /\ UNCHANGED <<history, log, binding, locks, issued, life, seen, holder>>

\* A new process: a new gateway tag, the run history seeded from the head's
\* audit tail, the schema context taken from the stored binding.
Restart(p) ==
    /\ call[p].step = "down"
    /\ life[p] < MaxLives
    /\ call' = [call EXCEPT ![p] = Idle]
    /\ life' = [life EXCEPT ![p] = @ + 1]
    /\ issued' = [issued EXCEPT ![p] = 0]
    /\ seen' = [seen EXCEPT ![p] = IF p \in HistoryTracked THEN HeadWorld.audit ELSE @]
    /\ holder' = [holder EXCEPT ![p] = binding]
    /\ UNCHANGED <<history, log, binding, locks, registry>>

-----------------------------------------------------------------------------
ProcessStep(p) ==
    \/ \E op \in Ops, b \in 1..HeadRef : Admit(p, op, b)
    \/ \E r \in registry[p] : Cancel(p, r.ticket) \/ CommitResolve(p, r)
    \/ PruneExpired(p)
    \/ CommitApply(p)
    \/ CommitRelease(p)
    \/ ObserveRead(p)
    \/ ObserveSwap(p)

Environment ==
    \/ \E l \in locks : LockLapses(l)
    \/ \E p \in Proc : \E r \in registry[p] : RecordLapses(p, r)
    \/ \E p \in Proc : Restart(p)

KernelStep == (\E p \in Proc : ProcessStep(p)) \/ Environment

KernelNext == KernelStep \/ \E p \in Proc : Crash(p)

KernelSpec == KernelInit /\ [][KernelNext]_kernelVars

\* The tickets the bounds allow.
TicketId == [by : Proc, life : 1..MaxLives, seq : 1..MaxTickets]

\* Time passes, so a lease that is not released runs out.
LeasesRunOut == \A t \in TicketId : WF_kernelVars(\E l \in locks : l.ticket = t /\ LockLapses(l))

FairKernelSpec == KernelSpec /\ LeasesRunOut
=============================================================================
