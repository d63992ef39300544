--------------------------- MODULE RuntimeProofs ---------------------------
(***************************************************************************)
(* The coordination runtime, for any processes, actors, operations and     *)
(* bounds: its state stays well formed, it implements WorldHistory, locks  *)
(* belong to the record their ticket names, and the log never wedges.      *)
(*                                                                         *)
(* The inductive invariant adds to the types that every admitted record    *)
(* satisfies its template's conditions in the snapshot it was admitted     *)
(* against.  Snapshots never change once stored, so this survives every    *)
(* step; and a commit happens only while that snapshot is the head, so     *)
(* what admission judged is what the commit changes.                       *)
(*                                                                         *)
(* Between the last change and the head there are unlogged advances only,  *)
(* so the head is the last change's world with audit entries added at the  *)
(* end and perhaps a later epoch: and that is what the bridge recognises.  *)
(***************************************************************************)
EXTENDS RuntimeProperties, WorldLemmas, SequenceTheorems

RecordType == [ticket : Ticket, op : Ops, before : Nat, schema : Nat, expired : BOOLEAN]

LockType == [ticket : Ticket, footprint : {Footprint(op) : op \in Ops}]

HistoryOK == history \in Seq(World) /\ history # << >>

LogOK ==
    /\ log \in Seq(Change)
    /\ \A i \in 1..Len(log) : log[i].before < log[i].after /\ log[i].after \in 1..HeadRef

LocksOK == locks \subseteq LockType

RegistryOK ==
    /\ registry \in [Proc -> SUBSET RecordType]
    /\ \A p \in Proc : \A r \in registry[p] :
          r.before \in 1..HeadRef /\ Requires(history[r.before], r.op)

CallOK == call \in [Proc -> Call]

ProcessOK ==
    /\ issued \in [Proc -> Nat]
    /\ life \in [Proc -> Nat]
    /\ seen \in [Proc -> Seq(Nat)]

HolderOK ==
    /\ binding.epoch \in Nat
    /\ holder = [p \in Proc |-> holder[p]]
    /\ \A p \in Proc : holder[p].epoch \in Nat

KernelInv == HistoryOK /\ LogOK /\ LocksOK /\ RegistryOK /\ CallOK /\ ProcessOK /\ HolderOK

\* The inductive invariant gives the type invariant.
LEMMA InvImpliesTypeOK == KernelInv => TypeOK
  BY DEF KernelInv, HistoryOK, LogOK, LocksOK, RegistryOK, CallOK, ProcessOK, TypeOK,
         RecordType, LockType

-----------------------------------------------------------------------------
(* What the store does.                                                    *)

\* Storing a snapshot adds a head and leaves the others as they are.
LEMMA StoreGrows ==
    ASSUME NEW w \in World, HistoryOK, history' = Append(history, w)
    PROVE  /\ HistoryOK'
           /\ HeadRef \in Nat
           /\ HeadRef' = HeadRef + 1
           /\ HeadWorld' = w
           /\ \A i \in 1..HeadRef : history'[i] = history[i]
<1>1. Len(history) \in Nat
  BY DEF HistoryOK
<1>2. history' \in Seq(World) /\ Len(history') = Len(history) + 1
  BY DEF HistoryOK
<1>3. \A i \in 1..Len(history) : history'[i] = history[i]
  BY DEF HistoryOK
<1>4. history'[Len(history) + 1] = w
  BY DEF HistoryOK
<1>5. history' # << >>
  BY <1>1, <1>2
<1> QED
  BY <1>1, <1>2, <1>3, <1>4, <1>5 DEF HistoryOK, HeadRef, HeadWorld

\* Records and log entries are about refs, which storing a snapshot keeps.
LEMMA StoreKeepsRecords ==
    ASSUME NEW w \in World, HistoryOK, history' = Append(history, w),
           RegistryOK, UNCHANGED registry
    PROVE  RegistryOK'
<1>1. HeadRef \in Nat /\ HeadRef' = HeadRef + 1 /\ \A i \in 1..HeadRef : history'[i] = history[i]
  BY StoreGrows
<1>2. \A p \in Proc : \A r \in registry[p] :
         r.before \in 1..HeadRef' /\ Requires(history'[r.before], r.op)
  <2> SUFFICES ASSUME NEW p \in Proc, NEW r \in registry[p]
               PROVE  r.before \in 1..HeadRef' /\ Requires(history'[r.before], r.op)
    OBVIOUS
  <2>1. r.before \in 1..HeadRef /\ Requires(history[r.before], r.op)
    BY DEF RegistryOK
  <2>2. history'[r.before] = history[r.before]
    BY <1>1, <2>1
  <2> QED
    BY <1>1, <2>1, <2>2
<1> QED
  BY <1>2 DEF RegistryOK

\* The log's refs stay refs when a snapshot is stored.
LEMMA StoreKeepsLog ==
    ASSUME NEW w \in World, HistoryOK, history' = Append(history, w),
           LogOK, UNCHANGED log
    PROVE  LogOK'
<1>1. HeadRef \in Nat /\ HeadRef' = HeadRef + 1
  BY StoreGrows
<1> QED
  BY <1>1 DEF LogOK

\* The head is a ref, and what it names a world.
LEMMA HeadTyped ==
    ASSUME HistoryOK
    PROVE  HeadRef \in Nat /\ HeadRef > 0 /\ HeadWorld \in World
           /\ \A i \in 1..HeadRef : history[i] \in World
  BY DEF HistoryOK, HeadRef, HeadWorld

-----------------------------------------------------------------------------
\* A runtime on its genesis snapshot satisfies the invariant.
LEMMA InitInv == KernelInit => KernelInv
<1> SUFFICES ASSUME KernelInit PROVE KernelInv
  OBVIOUS
<1>1. HistoryOK /\ HeadRef = 1
  BY GenesisTyped DEF KernelInit, HistoryOK, HeadRef
<1>2. LogOK
  BY DEF KernelInit, LogOK
<1>3. LocksOK /\ RegistryOK
  BY DEF KernelInit, LocksOK, RegistryOK
<1>4. CallOK
  BY DEF KernelInit, CallOK, Call, Idle, Step
<1>5. ProcessOK
  BY DEF KernelInit, ProcessOK
<1>6. HolderOK
  BY DEF KernelInit, HolderOK
<1> QED
  BY <1>1, <1>2, <1>3, <1>4, <1>5, <1>6 DEF KernelInv

-----------------------------------------------------------------------------
(* Every step keeps the invariant.                                         *)

\* The gateway's next id is a ticket.
LEMMA TicketTyped ==
    ASSUME NEW p \in Proc, ProcessOK
    PROVE  NextTicket(p) \in Ticket
  BY DEF ProcessOK, NextTicket, Ticket

\* Admission: the record it registers satisfied its template's conditions.
LEMMA AdmitKeeps ==
    ASSUME NEW p \in Proc, NEW op \in Ops, NEW b \in 1..HeadRef, KernelInv, Admit(p, op, b)
    PROVE  KernelInv'
<1> DEFINE t == NextTicket(p)
           r == [ticket |-> t, op |-> op, before |-> b, schema |-> holder[p].epoch,
                 expired |-> FALSE]
<1>1. t \in Ticket /\ b \in Nat /\ holder[p].epoch \in Nat
  BY TicketTyped, HeadTyped DEF KernelInv, HolderOK
<1> HIDE DEF t
<1>2. LocksOK'
  <2>1. locks' = locks \cup {[ticket |-> t, footprint |-> Footprint(op)]}
    BY DEF Admit, t
  <2> QED
    BY <1>1, <2>1 DEF KernelInv, LocksOK, LockType
<1>3. RegistryOK'
  <2>1. r \in RecordType
    BY <1>1 DEF RecordType
  <2>2. registry' = [registry EXCEPT ![p] = @ \cup {r}] /\ UNCHANGED history
    BY DEF Admit, t
  <2>3. Requires(history[r.before], r.op)
    BY DEF Admit, AdmissionAllowed
  <2>4. r.before \in 1..HeadRef
    OBVIOUS
  <2> HIDE DEF r
  <2> QED
    BY <2>1, <2>2, <2>3, <2>4 DEF KernelInv, RegistryOK, HeadRef
<1>4. ProcessOK'
  BY DEF KernelInv, ProcessOK, Admit
<1>5. HistoryOK' /\ LogOK' /\ CallOK' /\ HolderOK'
  BY DEF Admit, KernelInv, HistoryOK, LogOK, CallOK, HolderOK, HeadRef
<1> QED
  BY <1>2, <1>3, <1>4, <1>5 DEF KernelInv

\* Dropping locks and records, whole or in part, breaks nothing.
LEMMA CancelKeeps ==
    ASSUME NEW p \in Proc, NEW t, LocksOK, RegistryOK, CancelTicket(p, t), UNCHANGED history
    PROVE  LocksOK' /\ RegistryOK'
<1>1. LocksOK'
  BY DEF CancelTicket, WithoutLock, LocksOK
<1>2. RegistryOK'
  <2>1. registry' = [registry EXCEPT ![p] = {r \in @ : r.ticket # t}]
    BY DEF CancelTicket, WithoutRecord
  <2> QED
    BY <2>1 DEF RegistryOK, HeadRef
<1> QED
  BY <1>1, <1>2

\* The steps that only forget records or release locks, and the reads.
LEMMA ReleaseKeeps ==
    ASSUME NEW p \in Proc, KernelInv,
           \/ \E t : Cancel(p, t)
           \/ PruneExpired(p)
           \/ \E r \in registry[p] : CommitResolve(p, r)
           \/ CommitRelease(p)
    PROVE  KernelInv'
<1>1. HistoryOK' /\ LogOK' /\ ProcessOK' /\ HolderOK'
  BY DEF Cancel, PruneExpired, CommitResolve, CommitRelease, KernelInv, HistoryOK, LogOK,
         ProcessOK, HolderOK, HeadRef
<1>2. CASE \E t : Cancel(p, t)
  BY <1>1, <1>2, CancelKeeps DEF Cancel, KernelInv, CallOK
<1>3. CASE PruneExpired(p)
  <2>1. registry' = [registry EXCEPT ![p] = {r \in @ : ~ r.expired}] /\ UNCHANGED <<history, locks, call>>
    BY <1>3 DEF PruneExpired
  <2>2. RegistryOK'
    BY <2>1 DEF KernelInv, RegistryOK, HeadRef
  <2> QED
    BY <1>1, <2>1, <2>2 DEF KernelInv, LocksOK, CallOK
<1>4. CASE \E r \in registry[p] : CommitResolve(p, r)
  <2> PICK r \in registry[p] : CommitResolve(p, r)
    BY <1>4
  <2>1. CASE Resolvable(r)
    <3>1. call' = [call EXCEPT ![p] = [step |-> "apply", ticket |-> r.ticket, head |-> 0]]
          /\ UNCHANGED <<history, locks, registry>>
      BY <2>1 DEF CommitResolve
    <3>2. r.ticket \in Ticket
      BY DEF KernelInv, RegistryOK, RecordType
    <3>3. [step |-> "apply", ticket |-> r.ticket, head |-> 0] \in Call
      BY <3>2 DEF Call, Step
    <3>4. CallOK'
      BY <3>1, <3>3 DEF KernelInv, CallOK
    <3> QED
      BY <1>1, <3>1, <3>4 DEF KernelInv, LocksOK, RegistryOK, HeadRef
  <2>2. CASE ~ Resolvable(r)
    <3>1. CancelTicket(p, r.ticket) /\ UNCHANGED <<history, call>>
      BY <2>2 DEF CommitResolve
    <3> QED
      BY <1>1, <3>1, CancelKeeps DEF KernelInv, CallOK
  <2> QED
    BY <2>1, <2>2
<1>5. CASE CommitRelease(p)
  <2>1. LocksOK' /\ RegistryOK'
    BY <1>5, CancelKeeps DEF CommitRelease, KernelInv
  <2>2. CallOK'
    BY <1>5 DEF CommitRelease, KernelInv, CallOK, Call, Idle, Step
  <2> QED
    BY <1>1, <2>1, <2>2 DEF KernelInv
<1> QED
  BY <1>2, <1>3, <1>4, <1>5

\* The snapshot a commit stores, and the change it logs.
LEMMA CommitStores ==
    ASSUME NEW p \in Proc, NEW r \in registry[p], KernelInv, CommitAccepted(p, r)
    PROVE  /\ r.op \in Operation /\ r.before = HeadRef
           /\ Requires(HeadWorld, r.op)
           /\ Committable(HeadWorld, r.op)
           /\ Apply(HeadWorld, r.op) \in World
<1>1. r \in RecordType /\ Requires(history[r.before], r.op)
  BY DEF KernelInv, RegistryOK
<1>2. r.op \in Operation
  BY <1>1, RuntimeAssumption DEF RecordType
<1>3. r.before = HeadRef /\ Committable(history[r.before], r.op)
  BY DEF CommitAccepted, StoreAccepts
<1>4. HeadWorld \in World
  BY HeadTyped DEF KernelInv
<1>5. Requires(HeadWorld, r.op) /\ Committable(HeadWorld, r.op)
  BY <1>1, <1>3 DEF HeadWorld
<1>6. Apply(HeadWorld, r.op) \in World
  BY <1>2, <1>4, <1>5, ApplyTyped DEF Committable
<1> QED
  BY <1>2, <1>3, <1>5, <1>6

\* The commit of an operation, stored or refused.
LEMMA CommitApplyKeeps ==
    ASSUME NEW p \in Proc, KernelInv, CommitApply(p)
    PROVE  KernelInv'
<1>1. CallOK' /\ LocksOK' /\ ProcessOK' /\ HolderOK' /\ UNCHANGED registry
  BY DEF CommitApply, KernelInv, CallOK, Call, Step, LocksOK, ProcessOK, HolderOK
<1> PICK r \in RecordsOf(p, call[p].ticket) :
       \/ CommitAccepted(p, r) /\ StoreChange(r)
       \/ UNCHANGED <<history, log>>
  BY DEF CommitApply
<1>2. CASE UNCHANGED <<history, log>>
  BY <1>1, <1>2 DEF KernelInv, HistoryOK, LogOK, RegistryOK, HeadRef
<1>3. CASE CommitAccepted(p, r) /\ StoreChange(r)
  <2> DEFINE w == Apply(history[r.before], r.op)
             c == [op |-> r.op, before |-> r.before, after |-> HeadRef + 1,
                   epoch |-> history[r.before].epoch, schema |-> r.schema]
  <2>1. r \in registry[p] /\ r \in RecordType
    BY DEF RecordsOf, KernelInv, RegistryOK
  <2>2. r.op \in Operation /\ r.before = HeadRef /\ Apply(HeadWorld, r.op) \in World
    BY <1>3, <2>1, CommitStores
  <2>3. w \in World
    BY <2>2 DEF HeadWorld
  <2>4. history' = Append(history, w) /\ log' = Append(log, c)
    BY <1>3 DEF StoreChange
  <2>5. c \in Change
    <3>1. HeadRef \in Nat /\ history[r.before].epoch \in Nat
      BY <2>2, HeadTyped, WorldFields DEF KernelInv, HeadWorld
    <3> QED
      BY <2>1, <2>2, <3>1 DEF Change, RecordType
  <2>6. c.before = HeadRef /\ c.after = HeadRef + 1
    BY <2>2
  <2> HIDE DEF w, c
  <2>7. HistoryOK' /\ HeadRef \in Nat /\ HeadRef' = HeadRef + 1
    BY <2>3, <2>4, StoreGrows DEF KernelInv
  <2>8. RegistryOK'
    BY <1>1, <2>3, <2>4, StoreKeepsRecords DEF KernelInv
  <2>9. LogOK'
    <3>1. log' \in Seq(Change) /\ Len(log') = Len(log) + 1
      BY <2>4, <2>5 DEF KernelInv, LogOK
    <3>2. log'[Len(log) + 1] = c
      BY <2>4, <2>5 DEF KernelInv, LogOK
    <3>3. \A i \in 1..Len(log) : log'[i] = log[i]
      BY <2>4, <2>5 DEF KernelInv, LogOK
    <3>4. \A i \in 1..Len(log) : log'[i].before < log'[i].after /\ log'[i].after \in 1..HeadRef'
      BY <2>7, <3>3 DEF KernelInv, LogOK
    <3>5. log'[Len(log) + 1].before < log'[Len(log) + 1].after
          /\ log'[Len(log) + 1].after \in 1..HeadRef'
      BY <2>6, <2>7, <3>2
    <3>6. Len(log) \in Nat /\ \A i \in 1..Len(log') : i \in 1..Len(log) \/ i = Len(log) + 1
      BY <3>1 DEF KernelInv, LogOK
    <3> QED
      BY <3>1, <3>4, <3>5, <3>6 DEF LogOK
  <2> QED
    BY <1>1, <2>7, <2>8, <2>9 DEF KernelInv
<1> QED
  BY <1>2, <1>3

\* The two halves of an observation.
LEMMA ObserveKeeps ==
    ASSUME NEW p \in Proc, KernelInv, ObserveRead(p) \/ ObserveSwap(p)
    PROVE  KernelInv'
<1>1. CASE ObserveRead(p)
  <2>1. HeadRef \in Nat
    BY HeadTyped DEF KernelInv
  <2>2. CallOK'
    BY <1>1, <2>1 DEF ObserveRead, KernelInv, CallOK, Call, Step
  <2> QED
    BY <1>1, <2>2 DEF ObserveRead, KernelInv, HistoryOK, LogOK, LocksOK, RegistryOK, ProcessOK,
                      HolderOK, HeadRef
<1>2. CASE ObserveSwap(p)
  <2> DEFINE entry == HeadRef + 1
             w == WithObservation(history[call[p].head], entry)
  <2>1. CallOK' /\ LocksOK' /\ HolderOK' /\ UNCHANGED <<log, registry, issued, life>>
    BY <1>2 DEF ObserveSwap, KernelInv, CallOK, Call, Idle, Step, LocksOK, HolderOK
  <2>2. CASE StoreAccepts(call[p].head)
    <3>1. HeadRef \in Nat /\ HeadWorld \in World /\ history[call[p].head] = HeadWorld
      BY <2>2, HeadTyped DEF KernelInv, StoreAccepts, HeadWorld
    <3>2. entry \in Nat /\ w \in World
      BY <3>1, WithObservationTyped
    <3>3. history' = Append(history, w)
      BY <1>2, <2>2 DEF ObserveSwap
    <3>4. ProcessOK'
      <4>1. seen' = [seen EXCEPT ![p] = IF p \in HistoryTracked THEN Append(@, entry) ELSE @]
        BY <1>2, <2>2 DEF ObserveSwap
      <4> HIDE DEF entry
      <4>2. Append(seen[p], entry) \in Seq(Nat)
        BY <3>2 DEF KernelInv, ProcessOK
      <4> QED
        BY <2>1, <4>1, <4>2 DEF KernelInv, ProcessOK
    <3> HIDE DEF w
    <3>5. HistoryOK' /\ LogOK' /\ RegistryOK'
      BY <2>1, <3>2, <3>3, StoreGrows, StoreKeepsLog, StoreKeepsRecords DEF KernelInv
    <3> QED
      BY <2>1, <3>4, <3>5 DEF KernelInv
  <2>3. CASE ~ StoreAccepts(call[p].head)
    <3>1. UNCHANGED <<history, seen>>
      BY <1>2, <2>3 DEF ObserveSwap
    <3> QED
      BY <2>1, <3>1 DEF KernelInv, HistoryOK, LogOK, RegistryOK, ProcessOK, HeadRef
  <2> QED
    BY <2>2, <2>3
<1> QED
  BY <1>1, <1>2

\* Leases running out, crashes and restarts.
LEMMA EnvironmentKeeps ==
    ASSUME KernelInv,
           \/ \E l \in locks : LockLapses(l)
           \/ \E p \in Proc : \E r \in registry[p] : RecordLapses(p, r)
           \/ \E p \in Proc : Crash(p) \/ Restart(p)
    PROVE  KernelInv'
<1>1. HistoryOK' /\ LogOK' /\ UNCHANGED history
  BY DEF LockLapses, RecordLapses, Crash, Restart, KernelInv, HistoryOK, LogOK, HeadRef
<1>2. ASSUME NEW l \in locks, LockLapses(l)
      PROVE  KernelInv'
  BY <1>1, <1>2 DEF LockLapses, KernelInv, LocksOK, RegistryOK, CallOK, ProcessOK, HolderOK, HeadRef
<1>3. ASSUME NEW p \in Proc, NEW r \in registry[p], RecordLapses(p, r)
      PROVE  KernelInv'
  <2> DEFINE e == [r EXCEPT !.expired = TRUE]
  <2>1. r \in RecordType /\ r.before \in 1..HeadRef /\ Requires(history[r.before], r.op)
    BY DEF KernelInv, RegistryOK
  <2>2. e \in RecordType /\ e.before = r.before /\ e.op = r.op
    BY <2>1 DEF RecordType
  <2>3. registry' = [registry EXCEPT ![p] = (@ \ {r}) \cup {e}]
    BY <1>3 DEF RecordLapses
  <2> HIDE DEF e
  <2>4. RegistryOK'
    BY <1>1, <2>1, <2>2, <2>3 DEF KernelInv, RegistryOK, HeadRef
  <2> QED
    BY <1>1, <1>3, <2>4 DEF RecordLapses, KernelInv, LocksOK, CallOK, ProcessOK, HolderOK
<1>4. ASSUME NEW p \in Proc, Crash(p)
      PROVE  KernelInv'
  <2>1. CallOK'
    BY <1>4 DEF Crash, KernelInv, CallOK, Call, Down, Idle, Step
  <2>2. RegistryOK'
    BY <1>1, <1>4 DEF Crash, KernelInv, RegistryOK, HeadRef
  <2> QED
    BY <1>1, <1>4, <2>1, <2>2 DEF Crash, KernelInv, LocksOK, ProcessOK, HolderOK
<1>5. ASSUME NEW p \in Proc, Restart(p)
      PROVE  KernelInv'
  <2>1. CallOK'
    BY <1>5 DEF Restart, KernelInv, CallOK, Call, Idle, Step
  <2>2. ProcessOK'
    <3>1. HeadWorld.audit \in Seq(Nat)
      BY HeadTyped, WorldFields DEF KernelInv
    <3>2. \A q \in Proc : (IF q \in HistoryTracked THEN HeadWorld.audit ELSE seen[q]) \in Seq(Nat)
      BY <3>1 DEF KernelInv, ProcessOK
    <3> QED
      BY <1>5, <3>2 DEF Restart, KernelInv, ProcessOK
  <2>3. HolderOK'
    BY <1>5 DEF Restart, KernelInv, HolderOK
  <2> QED
    BY <1>1, <1>5, <2>1, <2>2, <2>3 DEF Restart, KernelInv, LocksOK, RegistryOK, HeadRef
<1> QED
  BY <1>2, <1>3, <1>4, <1>5

\* Every step of the runtime keeps the invariant.
LEMMA StepKeeps ==
    ASSUME KernelInv, [KernelNext]_kernelVars
    PROVE  KernelInv'
<1>1. ASSUME NEW p \in Proc, ProcessStep(p)
      PROVE  KernelInv'
  <2>1. CASE \E op \in Ops, b \in 1..HeadRef : Admit(p, op, b)
    BY <2>1, AdmitKeeps
  <2>2. CASE \/ \E r \in registry[p] : Cancel(p, r.ticket) \/ CommitResolve(p, r)
             \/ PruneExpired(p)
             \/ CommitRelease(p)
    BY <2>2, ReleaseKeeps
  <2>3. CASE CommitApply(p)
    BY <2>3, CommitApplyKeeps
  <2>4. CASE ObserveRead(p) \/ ObserveSwap(p)
    BY <2>4, ObserveKeeps
  <2> QED
    BY <1>1, <2>1, <2>2, <2>3, <2>4 DEF ProcessStep
<1>2. CASE Environment \/ \E p \in Proc : Crash(p)
  BY <1>2, EnvironmentKeeps DEF Environment
<1>3. CASE UNCHANGED kernelVars
  BY <1>3 DEF kernelVars, KernelInv, HistoryOK, LogOK, LocksOK, RegistryOK, CallOK, ProcessOK,
              HolderOK, HeadRef
<1> QED
  BY <1>1, <1>2, <1>3 DEF KernelNext, KernelStep

\* The inductive invariant holds in every reachable state.
LEMMA KernelInvariance == KernelSpec => []KernelInv
<1>1. KernelInit => KernelInv
  BY InitInv
<1>2. KernelInv /\ [KernelNext]_kernelVars => KernelInv'
  BY StepKeeps
<1> QED
  BY <1>1, <1>2, PTL DEF KernelSpec

\* The runtime's state stays well formed: snapshots, log entries, records and
\* calls keep their fields, every log entry points at stored snapshots, the
\* earlier one first, and every record at a stored snapshot.
THEOREM TypeCorrectness == KernelSpec => []TypeOK
  BY KernelInvariance, InvImpliesTypeOK, PTL

-----------------------------------------------------------------------------
(* The kernel implements WorldHistory.                                     *)

\* WorldHistory's own copy of the world's operators.
LEMMA SameRequires == \A w, op : Abstract!Requires(w, op) <=> Requires(w, op)
  BY DEF Abstract!Requires, Abstract!RolesBound, Abstract!Registered, Abstract!TaskExists,
         Abstract!Holds, Abstract!SessionExists,
         Requires, RolesBound, Registered, TaskExists, Holds, SessionExists

\* The handlers are the same functions on both sides.
LEMMA SameApply == \A w, op : op.kind \in Kind => Abstract!Apply(w, op) = Apply(w, op)
<1> SUFFICES ASSUME NEW w, NEW op, op.kind \in Kind
             PROVE  Abstract!Apply(w, op) = Apply(w, op)
  OBVIOUS
<1>1. Abstract!WithTask(w, op) = WithTask(w, op)
  BY DEF Abstract!WithTask, WithTask
<1>2. Abstract!Delegate(w, op) = Delegate(w, op)
  BY DEF Abstract!Delegate, Abstract!WithSession, Abstract!WithStatus, Abstract!Registered,
         Abstract!HasPeer, Abstract!WithLink,
         Delegate, WithSession, WithStatus, Registered, HasPeer, WithLink
<1>3. Abstract!CreateSession(w, op) = CreateSession(w, op)
  BY DEF Abstract!CreateSession, Abstract!WithSession, Abstract!HasPeer, Abstract!WithLink,
         CreateSession, WithSession, HasPeer, WithLink
<1>4. Abstract!ForkBranch(w, op) = ForkBranch(w, op)
  BY DEF Abstract!ForkBranch, Abstract!WithTask, Abstract!HasPeer, Abstract!WithLink,
         ForkBranch, WithTask, HasPeer, WithLink
<1>5. Abstract!TransferSession(w, op) = TransferSession(w, op)
  BY DEF Abstract!TransferSession, TransferSession
<1>6. \A a, s : Abstract!WithStatus(w, a, s) = WithStatus(w, a, s)
  BY DEF Abstract!WithStatus, WithStatus
<1> QED
  BY <1>1, <1>2, <1>3, <1>4, <1>5, <1>6 DEF Abstract!Apply, Apply, Kind

\* So is what makes a commit acceptable: handler, integrity and ensures.
LEMMA SameCommittable ==
    ASSUME NEW w, NEW op, op.kind \in Kind
    PROVE  Abstract!Committable(w, op) <=> Committable(w, op)
<1>1. Abstract!HandlerAccepts(w, op) <=> HandlerAccepts(w, op)
  BY DEF Abstract!HandlerAccepts, Abstract!TaskExists, Abstract!SessionExists,
         Abstract!MayTransition, Abstract!ValidTransition, Abstract!RegisterAccepts,
         Abstract!ActivateAccepts, Abstract!RetireAccepts, Abstract!SignalDoneAccepts,
         Abstract!StillPresent,
         HandlerAccepts, TaskExists, SessionExists, MayTransition, ValidTransition,
         RegisterAccepts, ActivateAccepts, RetireAccepts, SignalDoneAccepts, StillPresent, Kind
<1>2. \A v : Abstract!Integrity(v) <=> Integrity(v)
  BY DEF Abstract!Integrity, Abstract!Registered, Abstract!TaskExists,
         Integrity, Registered, TaskExists
<1>3. \A v : Abstract!Ensures(v, op) <=> Ensures(v, op)
  BY DEF Abstract!Ensures, Abstract!TaskExists, Abstract!Holds, Abstract!SessionExists,
         Abstract!Registered, Ensures, TaskExists, Holds, SessionExists, Registered, Kind
<1> QED
  BY <1>1, <1>2, <1>3, SameApply DEF Abstract!Committable, Committable

\* Logging a change adds its operation to the committed ones.
LEMMA CommittedGrows ==
    ASSUME NEW l \in Seq(Change), NEW c \in Change
    PROVE  [i \in 1..Len(Append(l, c)) |-> Append(l, c)[i].op]
             = Append([i \in 1..Len(l) |-> l[i].op], c.op)
<1> DEFINE s == [i \in 1..Len(l) |-> l[i].op]
<1>1. s \in Seq(Operation) /\ Len(s) = Len(l) /\ Len(l) \in Nat
  <2>1. Len(l) \in Nat /\ \A i \in 1..Len(l) : l[i] \in Change
    OBVIOUS
  <2>2. \A d \in Change : d.op \in Operation
    BY DEF Change
  <2>3. \A i \in 1..Len(l) : l[i].op \in Operation
    BY <2>1, <2>2
  <2>4. s \in [1..Len(l) -> Operation]
    BY <2>3
  <2> QED
    BY <2>1, <2>4
<1>2. Len(Append(l, c)) = Len(l) + 1 /\ Append(l, c)[Len(l) + 1] = c
      /\ \A i \in 1..Len(l) : Append(l, c)[i] = l[i]
  OBVIOUS
<1>3. c.op \in Operation /\ \A i \in 1..Len(l) : s[i] = l[i].op
  BY DEF Change
<1> HIDE DEF s
<1> DEFINE g == Append(s, c.op)
<1>4. g \in Seq(Operation) /\ Len(g) = Len(l) + 1 /\ g[Len(l) + 1] = c.op
      /\ \A i \in 1..Len(l) : g[i] = s[i]
  BY <1>1, <1>3
<1> HIDE DEF g
<1>5. g = [i \in 1..Len(l) + 1 |-> g[i]]
  BY <1>4
<1>6. \A i \in 1..Len(l) + 1 : g[i] = Append(l, c)[i].op
  <2> SUFFICES ASSUME NEW i \in 1..Len(l) + 1 PROVE g[i] = Append(l, c)[i].op
    OBVIOUS
  <2>1. CASE i = Len(l) + 1
    BY <1>2, <1>4, <2>1
  <2>2. CASE i \in 1..Len(l)
    BY <1>2, <1>3, <1>4, <2>2
  <2> QED
    BY <1>1, <2>1, <2>2
<1>7. [i \in 1..Len(l) + 1 |-> Append(l, c)[i].op] = g
  BY <1>5, <1>6
<1> QED
  BY <1>2, <1>7 DEF g, s

\* The runtime starts where WorldHistory does.
LEMMA InitImplements == KernelInit => Abstract!Init
<1>1. Abstract!Genesis = Genesis
  BY DEF Abstract!Genesis, Genesis
<1>2. KernelInit => HeadWorld = Genesis
  BY DEF KernelInit, HeadWorld, HeadRef
<1>3. KernelInit => [i \in 1..Len(log) |-> log[i].op] = << >>
  BY DEF KernelInit
<1> QED
  BY <1>1, <1>2, <1>3 DEF Abstract!Init

\* A commit that succeeds is the abstract commit of the admitted operation.
LEMMA CommitImplements ==
    ASSUME NEW p \in Proc, NEW r \in registry[p], KernelInv, CommitAccepted(p, r), StoreChange(r)
    PROVE  \E op \in Ops : Abstract!Commit(op)
<1> DEFINE c == [op |-> r.op, before |-> r.before, after |-> HeadRef + 1,
                 epoch |-> history[r.before].epoch, schema |-> r.schema]
           w == Apply(history[r.before], r.op)
<1>1. /\ r.op \in Operation /\ r.before = HeadRef
      /\ Requires(HeadWorld, r.op)
      /\ Committable(HeadWorld, r.op)
      /\ Apply(HeadWorld, r.op) \in World
  BY CommitStores
<1>2. r.op \in Ops /\ r.schema \in Nat
  BY DEF KernelInv, RegistryOK, RecordType
<1>3. w = Apply(HeadWorld, r.op)
  BY <1>1 DEF HeadWorld
<1>4. history' = Append(history, w) /\ log' = Append(log, c)
  BY DEF StoreChange
<1>5. c \in Change /\ c.op = r.op
  <2>1. HeadRef \in Nat /\ history[r.before].epoch \in Nat
    BY <1>1, HeadTyped, WorldFields DEF KernelInv, HeadWorld
  <2> QED
    BY <1>1, <1>2, <2>1 DEF Change
<1> HIDE DEF c, w
<1>6. HeadWorld' = Apply(HeadWorld, r.op)
  BY <1>1, <1>3, <1>4, StoreGrows DEF KernelInv
<1>7. [i \in 1..Len(log') |-> log'[i].op] = Append([i \in 1..Len(log) |-> log[i].op], r.op)
  BY <1>4, <1>5, CommittedGrows DEF KernelInv, LogOK
<1>8. r.op.kind \in Kind
  BY <1>1 DEF Operation
<1>9. Abstract!Commit(r.op)
  BY <1>1, <1>6, <1>7, <1>8, SameRequires, SameCommittable, SameApply DEF Abstract!Commit
<1> QED
  BY <1>2, <1>9

\* An observation that moves the head is the abstract observation.
LEMMA ObserveImplements ==
    ASSUME NEW p \in Proc, KernelInv, ObserveSwap(p), StoreAccepts(call[p].head)
    PROVE  Abstract!Observe
<1> DEFINE entry == HeadRef + 1
           w == WithObservation(HeadWorld, entry)
<1>1. HeadRef \in Nat /\ HeadWorld \in World /\ history[call[p].head] = HeadWorld
  BY HeadTyped DEF KernelInv, StoreAccepts, HeadWorld
<1>2. entry \in Nat /\ w \in World
  BY <1>1, WithObservationTyped
<1>3. history' = Append(history, w) /\ UNCHANGED log
  BY <1>1 DEF ObserveSwap
<1> HIDE DEF entry
<1>4. w.audit = Append(HeadWorld.audit, entry)
  BY <1>1, WorldFields DEF WithObservation, World
<1>5. Len(w.audit) = Len(HeadWorld.audit) + 1 /\ w.audit[Len(w.audit)] = entry
  BY <1>1, <1>2, <1>4, WorldFields
<1>6. \A v, e : Abstract!WithObservation(v, e) = WithObservation(v, e)
  BY DEF Abstract!WithObservation, WithObservation
<1>7. w = WithObservation(HeadWorld, w.audit[Len(w.audit)])
  BY <1>5
<1> HIDE DEF w
<1>8. HeadWorld' = w
  BY <1>2, <1>3, StoreGrows DEF KernelInv
<1> QED
  BY <1>3, <1>5, <1>6, <1>7, <1>8 DEF Abstract!Observe

\* Every step of the runtime is a step of WorldHistory or changes nothing it sees.
LEMMA StepImplements ==
    ASSUME KernelInv, [KernelNext]_kernelVars
    PROVE  [Abstract!Next]_<<HeadWorld, [i \in 1..Len(log) |-> log[i].op]>>
<1>1. CASE UNCHANGED <<history, log>>
  BY <1>1 DEF HeadWorld, HeadRef
<1>2. ASSUME NEW p \in Proc, CommitApply(p)
      PROVE  (\E op \in Ops : Abstract!Commit(op)) \/ UNCHANGED <<history, log>>
  BY <1>2, CommitImplements DEF CommitApply, RecordsOf
<1>3. ASSUME NEW p \in Proc, ObserveSwap(p)
      PROVE  Abstract!Observe \/ UNCHANGED <<history, log>>
  BY <1>3, ObserveImplements DEF ObserveSwap
<1>4. ASSUME NEW p \in Proc, ProcessStep(p), ~ CommitApply(p), ~ ObserveSwap(p)
      PROVE  UNCHANGED <<history, log>>
  BY <1>4 DEF ProcessStep, Admit, Cancel, CommitResolve, PruneExpired, CommitRelease, ObserveRead
<1>5. CASE Environment \/ \E p \in Proc : Crash(p)
  <2>1. UNCHANGED <<history, log>>
    BY <1>5 DEF Environment, LockLapses, RecordLapses, Crash, Restart
  <2> QED
    BY <1>1, <2>1
<1>6. CASE UNCHANGED kernelVars
  BY <1>1, <1>6 DEF kernelVars
<1> QED
  BY <1>1, <1>2, <1>3, <1>4, <1>5, <1>6 DEF KernelNext, KernelStep, Abstract!Next

\* However many processes share the store, and whatever lapses or crashes, the
\* runtime implements WorldHistory: callers see one world, changed by operations
\* that this world allowed, one at a time (executeCommit, durable.commit).
THEOREM Refinement == KernelSpec => Linearizable
<1>1. KernelInit => Abstract!Init
  BY InitImplements
<1>2. KernelInv /\ [KernelNext]_kernelVars
        => [Abstract!Next]_<<HeadWorld, [i \in 1..Len(log) |-> log[i].op]>>
  BY StepImplements
<1> QED
  BY <1>1, <1>2, KernelInvariance, PTL DEF KernelSpec, Linearizable, Abstract!Spec

-----------------------------------------------------------------------------
(* Locks belong to the record their ticket names, for any processes and    *)
(* operations.  The argument is about ids: a gateway's tag is its own and  *)
(* each life has another one, so the ticket it issues next is on no lock   *)
(* and no record.  A lock and a record with one ticket therefore come from *)
(* one admission, and a record is forgotten only together with its lock,   *)
(* after its lock, or with the process that held it.                       *)

\* What has been issued so far: every lock's ticket is of a life its process
\* has had, and within the present life of a number already given.
LocksIssued ==
    \A l \in locks :
        /\ l.ticket.life <= life[l.ticket.by]
        /\ l.ticket.life = life[l.ticket.by] => l.ticket.seq <= issued[l.ticket.by]

\* A process's records are of its present life.
RecordsIssued ==
    \A p \in Proc : \A r \in registry[p] :
        r.ticket.by = p /\ r.ticket.life = life[p] /\ r.ticket.seq <= issued[p]

DownForgets == \A p \in Proc : call[p].step = "down" => registry[p] = {}

SameFootprint ==
    \A p \in Proc : \A r \in registry[p] : \A l \in locks :
        l.ticket = r.ticket => l.footprint = Footprint(r.op)

ExpiredUnlocked == \A p \in Proc : \A r \in registry[p] : r.expired => ~ LockHeld(r.ticket)

TicketInv ==
    /\ LocksIssued
    /\ RecordsIssued
    /\ DownForgets
    /\ SameFootprint
    /\ ExpiredUnlocked
    /\ NoLockWithoutRecord

\* Nothing is locked or registered at first.
LEMMA InitTickets == KernelInit => TicketInv
  BY DEF KernelInit, TicketInv, LocksIssued, RecordsIssued, DownForgets, SameFootprint,
         ExpiredUnlocked, NoLockWithoutRecord, Idle

\* What the inductive invariant says of the components these proofs speak of.
LEMMA TicketTypes ==
    ASSUME KernelInv
    PROVE  /\ \A l \in locks : l.ticket \in Ticket
           /\ DOMAIN registry = Proc /\ registry = [p \in Proc |-> registry[p]]
           /\ \A p \in Proc : \A r \in registry[p] : r \in RecordType
           /\ DOMAIN call = Proc /\ call = [p \in Proc |-> call[p]]
           /\ \A p \in Proc : call[p] \in Call
           /\ issued \in [Proc -> Nat] /\ life \in [Proc -> Nat]
  BY DEF KernelInv, LocksOK, LockType, RegistryOK, CallOK, ProcessOK

-----------------------------------------------------------------------------
(* Every step keeps the invariant.                                         *)

\* The ticket issued next is on no lock and on no record.
LEMMA NextTicketFresh ==
    ASSUME NEW p \in Proc, KernelInv, TicketInv
    PROVE  /\ NextTicket(p) \in Ticket
           /\ ~ LockHeld(NextTicket(p))
           /\ \A q \in Proc : \A r \in registry[q] : r.ticket # NextTicket(p)
<1>1. NextTicket(p) \in Ticket /\ issued[p] \in Nat /\ life[p] \in Nat
  BY TicketTyped DEF KernelInv, ProcessOK
<1>2. /\ NextTicket(p).by = p
      /\ NextTicket(p).life = life[p]
      /\ NextTicket(p).seq = issued[p] + 1
  BY DEF NextTicket
<1>3. ~ LockHeld(NextTicket(p))
  BY <1>1, <1>2 DEF TicketInv, LocksIssued, LockHeld
<1>4. \A q \in Proc : \A r \in registry[q] : r.ticket # NextTicket(p)
  BY <1>1, <1>2 DEF TicketInv, RecordsIssued
<1> QED
  BY <1>1, <1>3, <1>4

\* Admission puts a fresh ticket on a lock and on a record of that footprint.
LEMMA AdmitTickets ==
    ASSUME NEW p \in Proc, NEW op \in Ops, NEW b \in 1..HeadRef,
           KernelInv, TicketInv, Admit(p, op, b)
    PROVE  TicketInv'
<1> DEFINE t == NextTicket(p)
           l == [ticket |-> t, footprint |-> Footprint(op)]
           r == [ticket |-> t, op |-> op, before |-> b, schema |-> holder[p].epoch,
                 expired |-> FALSE]
<1>1. /\ t \in Ticket /\ t.by = p /\ t.life = life[p] /\ t.seq = issued[p] + 1
      /\ ~ LockHeld(t)
      /\ \A q \in Proc : \A s \in registry[q] : s.ticket # t
  BY NextTicketFresh DEF NextTicket
<1>2. /\ locks' = locks \cup {l}
      /\ registry' = [registry EXCEPT ![p] = @ \cup {r}]
      /\ issued' = [issued EXCEPT ![p] = @ + 1]
      /\ UNCHANGED <<call, life>>
      /\ call[p].step = "idle"
  BY DEF Admit
<1>3. l.ticket = t /\ l.footprint = Footprint(op) /\ r.ticket = t /\ r.op = op /\ ~ r.expired
  OBVIOUS
<1> HIDE DEF t, l, r
<1>4. /\ \A q \in Proc : registry'[q] = IF q = p THEN registry[p] \cup {r} ELSE registry[q]
      /\ \A q \in Proc : issued'[q] = IF q = p THEN issued[p] + 1 ELSE issued[q]
      /\ \A q \in Proc : issued[q] \in Nat /\ life[q] \in Nat
  BY <1>2, TicketTypes
<1>5. LocksIssued'
  <2>1. \A k \in locks : k.ticket.by \in Proc /\ k.ticket.seq \in Nat
    BY TicketTypes DEF Ticket
  <2> QED
    BY <1>1, <1>2, <1>3, <1>4, <2>1 DEF TicketInv, LocksIssued
<1>6. RecordsIssued'
  <2>1. \A q \in Proc : \A s \in registry[q] : s.ticket.seq \in Nat
    BY TicketTypes DEF RecordType, Ticket
  <2> QED
    BY <1>1, <1>2, <1>3, <1>4, <2>1 DEF TicketInv, RecordsIssued
<1>7. DownForgets'
  BY <1>2, <1>4 DEF TicketInv, DownForgets
<1>8. SameFootprint'
  BY <1>1, <1>2, <1>3, <1>4 DEF TicketInv, SameFootprint, LockHeld
<1>9. ExpiredUnlocked'
  BY <1>1, <1>2, <1>3, <1>4 DEF TicketInv, ExpiredUnlocked, LockHeld
<1>10. NoLockWithoutRecord'
  <2>1. \A k \in locks : k.ticket.by \in Proc
    BY TicketTypes DEF Ticket
  <2> QED
    BY <1>1, <1>2, <1>3, <1>4, <2>1 DEF TicketInv, NoLockWithoutRecord, RecordsOf
<1> QED
  BY <1>5, <1>6, <1>7, <1>8, <1>9, <1>10 DEF TicketInv

\* A ticket is cancelled, its lock and its records going together.
LEMMA CancelTickets ==
    ASSUME NEW p \in Proc, NEW t \in Ticket \cup {None}, KernelInv, TicketInv,
           CancelTicket(p, t), UNCHANGED <<issued, life>>,
           call[p].step # "down", call'[p].step # "down",
           \A q \in Proc \ {p} : call'[q] = call[q]
    PROVE  TicketInv'
<1>1. /\ locks' = {l \in locks : l.ticket # t}
      /\ registry' = [registry EXCEPT ![p] = {r \in @ : r.ticket # t}]
  BY DEF CancelTicket, WithoutLock, WithoutRecord
<1>2. \A q \in Proc : registry'[q] = IF q = p THEN {r \in registry[p] : r.ticket # t} ELSE registry[q]
  BY <1>1, TicketTypes
<1>3. LocksIssued' /\ RecordsIssued'
  BY <1>1, <1>2 DEF TicketInv, LocksIssued, RecordsIssued
<1>4. DownForgets'
  BY <1>2 DEF TicketInv, DownForgets
<1>5. SameFootprint' /\ ExpiredUnlocked'
  BY <1>1, <1>2 DEF TicketInv, SameFootprint, ExpiredUnlocked, LockHeld
<1>6. NoLockWithoutRecord'
  <2>1. \A k \in locks : k.ticket.by \in Proc
    BY TicketTypes DEF Ticket
  <2> QED
    BY <1>1, <1>2, <2>1 DEF TicketInv, NoLockWithoutRecord, RecordsOf
<1> QED
  BY <1>3, <1>4, <1>5, <1>6 DEF TicketInv

\* The steps of a call that touch neither locks nor records keep the invariant.
LEMMA QuietTickets ==
    ASSUME NEW p \in Proc, KernelInv, TicketInv,
           UNCHANGED <<locks, registry, issued, life>>,
           call[p].step # "down", call'[p].step # "down",
           \A q \in Proc \ {p} : call'[q] = call[q]
    PROVE  TicketInv'
<1>1. \A q \in Proc : call'[q].step = "down" <=> call[q].step = "down"
  OBVIOUS
<1>2. \A l \in locks : l.ticket.by \in Proc
  BY TicketTypes DEF Ticket
<1>3. LocksIssued' /\ RecordsIssued' /\ SameFootprint' /\ ExpiredUnlocked'
  BY DEF TicketInv, LocksIssued, RecordsIssued, SameFootprint, ExpiredUnlocked, LockHeld
<1>4. DownForgets' /\ NoLockWithoutRecord'
  BY <1>1, <1>2 DEF TicketInv, DownForgets, NoLockWithoutRecord, RecordsOf
<1> QED
  BY <1>3, <1>4 DEF TicketInv

\* Forgetting expired records: their locks are gone already.
LEMMA PruneTickets ==
    ASSUME NEW p \in Proc, KernelInv, TicketInv, PruneExpired(p)
    PROVE  TicketInv'
<1>1. /\ \A q \in Proc : registry'[q] = IF q = p THEN {r \in registry[p] : ~ r.expired}
                                                   ELSE registry[q]
      /\ UNCHANGED <<locks, call, issued, life>>
  BY TicketTypes DEF PruneExpired
<1>2. LocksIssued' /\ RecordsIssued' /\ DownForgets'
  BY <1>1 DEF TicketInv, LocksIssued, RecordsIssued, DownForgets
<1>3. SameFootprint' /\ ExpiredUnlocked'
  BY <1>1 DEF TicketInv, SameFootprint, ExpiredUnlocked, LockHeld
<1>4. NoLockWithoutRecord'
  <2> SUFFICES ASSUME NEW l \in locks, l.ticket.life = life[l.ticket.by],
                      call[l.ticket.by].step # "down"
               PROVE  RecordsOf(l.ticket.by, l.ticket)' # {}
    BY <1>1 DEF NoLockWithoutRecord
  <2>1. l.ticket.by \in Proc
    BY TicketTypes DEF Ticket
  <2>2. PICK r \in registry[l.ticket.by] : r.ticket = l.ticket
    BY DEF TicketInv, NoLockWithoutRecord, RecordsOf
  <2>3. ~ r.expired
    BY <2>1, <2>2 DEF TicketInv, ExpiredUnlocked, LockHeld
  <2>4. r \in registry'[l.ticket.by]
    BY <1>1, <2>1, <2>2, <2>3
  <2> QED
    BY <2>2, <2>4 DEF RecordsOf
<1> QED
  BY <1>2, <1>3, <1>4 DEF TicketInv

\* A process's own steps.
LEMMA ProcessTickets ==
    ASSUME NEW p \in Proc, KernelInv, TicketInv, ProcessStep(p)
    PROVE  TicketInv'
<1> USE TicketTypes
<1>1. CASE \E op \in Ops, b \in 1..HeadRef : Admit(p, op, b)
  BY <1>1, AdmitTickets
<1>2. ASSUME NEW r \in registry[p], Cancel(p, r.ticket)
      PROVE  TicketInv'
  <2>1. r.ticket \in Ticket
    BY DEF RecordType
  <2> QED
    BY <1>2, <2>1, CancelTickets DEF Cancel
<1>3. ASSUME NEW r \in registry[p], CommitResolve(p, r)
      PROVE  TicketInv'
  <2>1. r.ticket \in Ticket
    BY DEF RecordType
  <2>2. call[p].step = "idle" /\ UNCHANGED <<issued, life>>
    BY <1>3 DEF CommitResolve
  <2>3. CASE Resolvable(r)
    <3>1. /\ UNCHANGED <<locks, registry>>
          /\ call' = [call EXCEPT ![p] = [step |-> "apply", ticket |-> r.ticket, head |-> 0]]
      BY <1>3, <2>3 DEF CommitResolve
    <3>2. call'[p].step # "down" /\ \A q \in Proc \ {p} : call'[q] = call[q]
      BY <3>1
    <3> QED
      BY <2>2, <3>1, <3>2, QuietTickets
  <2>4. CASE ~ Resolvable(r)
    BY <1>3, <2>1, <2>2, <2>4, CancelTickets DEF CommitResolve
  <2> QED
    BY <2>3, <2>4
<1>4. CASE PruneExpired(p)
  BY <1>4, PruneTickets
<1>5. CASE CommitApply(p)
  BY <1>5, QuietTickets DEF CommitApply
<1>6. CASE CommitRelease(p)
  <2>1. call[p].ticket \in Ticket \cup {None} /\ call[p].step = "release"
    BY <1>6 DEF CommitRelease, Call
  <2>2. call'[p].step # "down" /\ \A q \in Proc \ {p} : call'[q] = call[q]
    BY <1>6 DEF CommitRelease, Idle
  <2> QED
    BY <1>6, <2>1, <2>2, CancelTickets DEF CommitRelease
<1>7. CASE ObserveRead(p)
  BY <1>7, QuietTickets DEF ObserveRead
<1>8. CASE ObserveSwap(p)
  BY <1>8, QuietTickets DEF ObserveSwap, Idle
<1> QED
  BY <1>1, <1>2, <1>3, <1>4, <1>5, <1>6, <1>7, <1>8 DEF ProcessStep

\* Leases that run out, and processes that end and begin.
LEMMA EnvironmentTickets ==
    ASSUME KernelInv, TicketInv, Environment \/ \E p \in Proc : Crash(p)
    PROVE  TicketInv'
<1> USE TicketTypes
<1>1. ASSUME NEW l \in locks, LockLapses(l)
      PROVE  TicketInv'
  BY <1>1 DEF LockLapses, TicketInv, LocksIssued, RecordsIssued, DownForgets, SameFootprint,
              ExpiredUnlocked, LockHeld, NoLockWithoutRecord, RecordsOf
<1>2. ASSUME NEW p \in Proc, NEW r \in registry[p], RecordLapses(p, r)
      PROVE  TicketInv'
  <2> DEFINE e == [r EXCEPT !.expired = TRUE]
  <2>1. e.ticket = r.ticket /\ e.op = r.op
    BY DEF RecordType
  <2>2. registry' = [registry EXCEPT ![p] = (@ \ {r}) \cup {e}] /\ ~ LockHeld(r.ticket)
        /\ UNCHANGED <<locks, call, issued, life>>
    BY <1>2 DEF RecordLapses
  <2> HIDE DEF e
  <2>3. \A q \in Proc : registry'[q] = IF q = p THEN (registry[p] \ {r}) \cup {e} ELSE registry[q]
    BY <2>2
  <2>4. LocksIssued' /\ RecordsIssued' /\ DownForgets'
    BY <2>1, <2>2, <2>3 DEF TicketInv, LocksIssued, RecordsIssued, DownForgets
  <2>5. SameFootprint' /\ ExpiredUnlocked'
    BY <2>1, <2>2, <2>3 DEF TicketInv, SameFootprint, ExpiredUnlocked, LockHeld
  <2>6. NoLockWithoutRecord'
    <3>1. \A l \in locks : l.ticket.by \in Proc
      BY DEF Ticket
    <3> QED
      BY <2>1, <2>2, <2>3, <3>1 DEF TicketInv, NoLockWithoutRecord, RecordsOf
  <2> QED
    BY <2>4, <2>5, <2>6 DEF TicketInv
<1>3. ASSUME NEW p \in Proc, Crash(p)
      PROVE  TicketInv'
  <2>1. /\ \A q \in Proc : registry'[q] = IF q = p THEN {} ELSE registry[q]
        /\ \A q \in Proc : call'[q] = IF q = p THEN Down ELSE call[q]
        /\ UNCHANGED <<locks, issued, life>>
    BY <1>3 DEF Crash
  <2>2. Down.step = "down"
    BY DEF Down, Idle
  <2>3. LocksIssued' /\ RecordsIssued' /\ DownForgets' /\ SameFootprint' /\ ExpiredUnlocked'
    BY <2>1, <2>2 DEF TicketInv, LocksIssued, RecordsIssued, DownForgets, SameFootprint,
                      ExpiredUnlocked, LockHeld
  <2>4. NoLockWithoutRecord'
    <3>1. \A l \in locks : l.ticket.by \in Proc
      BY DEF Ticket
    <3> QED
      BY <2>1, <2>2, <3>1 DEF TicketInv, NoLockWithoutRecord, RecordsOf
  <2> QED
    BY <2>3, <2>4 DEF TicketInv
<1>4. ASSUME NEW p \in Proc, Restart(p)
      PROVE  TicketInv'
  <2>1. /\ registry[p] = {} /\ UNCHANGED <<locks, registry>>
        /\ \A q \in Proc : call'[q] = IF q = p THEN Idle ELSE call[q]
        /\ \A q \in Proc : life'[q] = IF q = p THEN life[p] + 1 ELSE life[q]
        /\ \A q \in Proc : issued'[q] = IF q = p THEN 0 ELSE issued[q]
        /\ \A q \in Proc : life[q] \in Nat
    BY <1>4 DEF Restart, TicketInv, DownForgets
  <2>2. \A l \in locks : l.ticket.by \in Proc /\ l.ticket.life \in Nat
    BY DEF Ticket
  <2>3. \A l \in locks : l.ticket.by = p => l.ticket.life <= life[p] /\ l.ticket.life # life'[p]
    BY <2>1, <2>2 DEF TicketInv, LocksIssued
  <2>4. LocksIssued' /\ NoLockWithoutRecord'
    BY <2>1, <2>2, <2>3 DEF TicketInv, LocksIssued, NoLockWithoutRecord, RecordsOf
  <2>5. RecordsIssued' /\ DownForgets' /\ SameFootprint' /\ ExpiredUnlocked'
    BY <2>1 DEF TicketInv, RecordsIssued, DownForgets, SameFootprint, ExpiredUnlocked, LockHeld, Idle
  <2> QED
    BY <2>4, <2>5 DEF TicketInv
<1> QED
  BY <1>1, <1>2, <1>3, <1>4 DEF Environment

\* Every step of the runtime keeps the invariant.
LEMMA StepTickets ==
    ASSUME KernelInv, TicketInv, [KernelNext]_kernelVars
    PROVE  TicketInv'
<1>1. CASE \E p \in Proc : ProcessStep(p)
  BY <1>1, ProcessTickets
<1>2. CASE Environment \/ \E p \in Proc : Crash(p)
  BY <1>2, EnvironmentTickets
<1>3. CASE UNCHANGED kernelVars
  BY <1>3 DEF kernelVars, TicketInv, LocksIssued, RecordsIssued, DownForgets, SameFootprint,
              ExpiredUnlocked, LockHeld, NoLockWithoutRecord, RecordsOf
<1> QED
  BY <1>1, <1>2, <1>3 DEF KernelNext, KernelStep

\* The invariant holds in every reachable state.
LEMMA TicketInvariance == KernelSpec => []TicketInv
<1>1. KernelInit => TicketInv
  BY InitTickets
<1>2. KernelInv /\ TicketInv /\ [KernelNext]_kernelVars => TicketInv'
  BY StepTickets
<1> QED
  BY <1>1, <1>2, KernelInvariance, PTL DEF KernelSpec

\* A lock that neither lapsed nor was left by a crash has a record its process
\* still holds: refusals, failed commits, cancellation and pruning
\* (admissionRegistry.ts, commitChange.ts) strand no footprint.
THEOREM NoStrandedLock == KernelSpec => []NoLockWithoutRecord
<1>1. TicketInv => NoLockWithoutRecord
  BY DEF TicketInv
<1> QED
  BY <1>1, TicketInvariance, PTL

-----------------------------------------------------------------------------
(* Who releases.                                                           *)

\* A cancelled ticket takes away the lock acquired for its own record.
LEMMA CancelReleasesOwn ==
    ASSUME NEW p \in Proc, NEW t, KernelInv, TicketInv, CancelTicket(p, t),
           NEW q \in Proc, NEW l \in locks \ locks', registry'[q] # registry[q]
    PROVE  \E r \in RecordsOf(q, l.ticket) : l.footprint = Footprint(r.op)
<1>1. l.ticket = t
  BY DEF CancelTicket, WithoutLock
<1>2. registry' = [registry EXCEPT ![p] = {r \in @ : r.ticket # t}]
  BY DEF CancelTicket, WithoutRecord
<1>3. q = p /\ \E r \in registry[p] : r.ticket = t
  <2>1. q = p
    BY <1>2, TicketTypes
  <2>2. ASSUME \A r \in registry[p] : r.ticket # t
        PROVE  FALSE
    <3>1. {r \in registry[p] : r.ticket # t} = registry[p]
      BY <2>2
    <3> QED
      BY <1>2, <2>1, <3>1, TicketTypes
  <2> QED
    BY <2>1, <2>2
<1>4. PICK r \in registry[p] : r.ticket = t
  BY <1>3
<1>5. l.footprint = Footprint(r.op)
  BY <1>1, <1>4 DEF TicketInv, SameFootprint
<1> QED
  BY <1>1, <1>3, <1>4, <1>5 DEF RecordsOf

\* No step that changes a process's records takes away a lock that is not theirs.
LEMMA StepReleasesOwn ==
    ASSUME KernelInv, TicketInv, [KernelNext]_kernelVars,
           NEW q \in Proc, NEW l \in locks \ locks', registry'[q] # registry[q]
    PROVE  \E r \in RecordsOf(q, l.ticket) : l.footprint = Footprint(r.op)
<1>1. CASE \E p \in Proc : ProcessStep(p)
  <2> PICK p \in Proc : ProcessStep(p)
    BY <1>1
  <2>1. CASE \E t : CancelTicket(p, t)
    BY <2>1, CancelReleasesOwn
  <2>2. CASE locks \subseteq locks'
    BY <2>2
  <2>3. (\E t : CancelTicket(p, t)) \/ locks \subseteq locks'
    BY DEF ProcessStep, Admit, Cancel, CommitResolve, PruneExpired, CommitApply, CommitRelease,
           ObserveRead, ObserveSwap
  <2> QED
    BY <2>1, <2>2, <2>3
<1>2. CASE Environment \/ \E p \in Proc : Crash(p)
  BY <1>2 DEF Environment, LockLapses, RecordLapses, Crash, Restart
<1>3. CASE UNCHANGED kernelVars
  BY <1>3 DEF kernelVars
<1> QED
  BY <1>1, <1>2, <1>3 DEF KernelNext, KernelStep

\* Committing or cancelling releases no lock but the record's own: gateways of
\* several processes and lives never share a ticket id (admissionGateway.ts).
THEOREM ReleaseByHolder == KernelSpec => OnlyHolderReleases
<1>1. KernelInv /\ TicketInv /\ [KernelNext]_kernelVars =>
        [\A p \in Proc : \A l \in locks \ locks' :
            registry'[p] # registry[p] =>
               \E r \in RecordsOf(p, l.ticket) : l.footprint = Footprint(r.op)]_kernelVars
  BY StepReleasesOwn
<1> QED
  BY <1>1, KernelInvariance, TicketInvariance, PTL DEF KernelSpec, OnlyHolderReleases

-----------------------------------------------------------------------------
(* The log never wedges.                                                   *)

\* w is v after observations and activations, possibly none.
Advanced(v, w) ==
    /\ w = [v EXCEPT !.audit = w.audit, !.epoch = w.epoch]
    /\ w.epoch >= v.epoch
    /\ Len(w.audit) >= Len(v.audit)
    /\ \A i \in 1..Len(v.audit) : w.audit[i] = v.audit[i]

\* ... and there was at least one.
Moved(v, w) == w.epoch > v.epoch \/ Len(w.audit) > Len(v.audit)

ChainInv ==
    log # << >> =>
      LET last == log[Len(log)].after IN
      /\ Advanced(history[last], HeadWorld)
      /\ last # HeadRef => Moved(history[last], HeadWorld)

-----------------------------------------------------------------------------
(* The bridge.                                                             *)

\* Entries that were only added are found again by replayObservations.
LEMMA PrefixReplayed ==
    ASSUME NEW a \in Seq(Nat), NEW b \in Seq(Nat), Len(b) >= Len(a),
           \A i \in 1..Len(a) : b[i] = a[i]
    PROVE  a \o SubSeq(b, Len(a) + 1, Len(b)) = b
<1> DEFINE tail == SubSeq(b, Len(a) + 1, Len(b))
<1>1. Len(a) \in Nat /\ Len(b) \in Nat
  OBVIOUS
<1>2. \A i \in Len(a) + 1 .. Len(b) : b[i] \in Nat
  BY <1>1
<1>3. /\ tail \in Seq(Nat)
      /\ Len(tail) = Len(b) - Len(a)
      /\ \A i \in 1..Len(b) - Len(a) : tail[i] = b[Len(a) + i]
  <2>1. Len(a) + 1 \in Int /\ Len(b) \in Int
    BY <1>1
  <2>2. /\ tail \in Seq(Nat)
        /\ Len(tail) = IF Len(a) + 1 <= Len(b) THEN Len(b) - (Len(a) + 1) + 1 ELSE 0
        /\ \A i \in 1..Len(b) - (Len(a) + 1) + 1 : tail[i] = b[Len(a) + 1 + i - 1]
    BY <1>2, <2>1, SubSeqProperties
  <2> HIDE DEF tail
  <2>3. Len(b) - (Len(a) + 1) + 1 = Len(b) - Len(a)
    BY <1>1
  <2>4. Len(tail) = Len(b) - Len(a)
    BY <1>1, <2>2
  <2>5. ASSUME NEW i \in 1..Len(b) - Len(a)
        PROVE  tail[i] = b[Len(a) + i]
    <3>1. Len(a) + 1 + i - 1 = Len(a) + i
      BY <1>1
    <3>2. i \in 1..Len(b) - (Len(a) + 1) + 1
      BY <2>3
    <3>3. tail[i] = b[Len(a) + 1 + i - 1]
      BY <2>2, <3>2
    <3> QED
      BY <3>1, <3>3
  <2> QED
    BY <2>2, <2>4, <2>5
<1> HIDE DEF tail
<1>4. /\ a \o tail \in Seq(Nat)
      /\ Len(a \o tail) = Len(b)
      /\ \A i \in 1..Len(b) : (a \o tail)[i] = IF i <= Len(a) THEN a[i] ELSE tail[i - Len(a)]
  BY <1>1, <1>3, ConcatProperties
<1>5. ASSUME NEW i \in 1..Len(b)
      PROVE  (a \o tail)[i] = b[i]
  <2>1. CASE i <= Len(a)
    <3>1. i \in 1..Len(a)
      BY <1>1, <2>1
    <3> QED
      BY <1>4, <2>1, <3>1
  <2>2. CASE ~ i <= Len(a)
    <3>1. i - Len(a) \in 1..Len(b) - Len(a) /\ Len(a) + (i - Len(a)) = i
      BY <1>1, <2>2
    <3>2. tail[i - Len(a)] = b[i]
      BY <1>3, <3>1
    <3> QED
      BY <1>4, <2>2, <3>2
  <2> QED
    BY <2>1, <2>2
<1>6. a \o tail = b
  BY <1>4, <1>5, SeqEqual
<1> QED
  BY <1>6 DEF tail

\* Two advances of one snapshot that agree on audit and epoch differ in nothing
\* the canonical comparison sees.
LEMMA SameAdvance ==
    ASSUME NEW v \in World, NEW w \in World, v.audit = w.audit, v.epoch = w.epoch,
           w = [v EXCEPT !.audit = w.audit, !.epoch = w.epoch]
    PROVE  CanonicallyEqual(v, w)
<1>1. v = w
  BY WorldFields
<1> QED
  BY <1>1, WorldFields DEF CanonicallyEqual

\* An advance that moved is one of the three the bridge accepts.
LEMMA AdvanceIsVerifiable ==
    ASSUME NEW v \in World, NEW w \in World, Advanced(v, w), Moved(v, w)
    PROVE  VerifiableUnloggedAdvance(v, w)
<1> DEFINE u == [v EXCEPT !.audit = w.audit]
<1>1. v.audit \in Seq(Nat) /\ w.audit \in Seq(Nat) /\ v.epoch \in Nat /\ w.epoch \in Nat
  BY WorldFields
<1>2. v.audit \o SubSeq(w.audit, Len(v.audit) + 1, Len(w.audit)) = w.audit
  BY <1>1, PrefixReplayed DEF Advanced
<1>3. ReplayObservations(v, w) = u
  BY <1>2, WorldFields DEF ReplayObservations
<1>4. /\ u \in World
      /\ WithEpoch(u, w.epoch) = w
  <2>1. u \in World
    BY <1>1, WorldFields DEF World
  <2>2. WithEpoch(u, w.epoch) = [v EXCEPT !.audit = w.audit, !.epoch = w.epoch]
    BY WorldFields DEF WithEpoch
  <2> QED
    BY <2>1, <2>2 DEF Advanced
<1>5. CASE w.epoch = v.epoch
  <2>1. u = w
    BY <1>5, WorldFields DEF Advanced
  <2>2. CanonicallyEqual(u, w)
    BY <2>1, WorldFields DEF CanonicallyEqual
  <2> QED
    BY <1>1, <1>3, <1>5, <2>2 DEF Moved, VerifiableUnloggedAdvance, ObservationOnlyAdvance
<1>6. CASE w.epoch # v.epoch /\ Len(w.audit) > Len(v.audit)
  <2>1. CanonicallyEqual(WithEpoch(u, w.epoch), w)
    <3>1. [w EXCEPT !.transcript = w.transcript] = w
      BY DEF World
    <3> QED
      BY <1>4, <3>1 DEF CanonicallyEqual
  <2> QED
    BY <1>3, <1>6, <2>1 DEF VerifiableUnloggedAdvance, ObservationAndEpochOnlyAdvance
<1>7. CASE w.epoch # v.epoch /\ ~ Len(w.audit) > Len(v.audit)
  <2>1. w.audit = v.audit
    <3>1. Len(w.audit) = Len(v.audit)
      BY <1>1, <1>7 DEF Advanced
    <3> QED
      BY <1>1, <3>1, SeqEqual DEF Advanced
  <2>2. v = WithEpoch(w, v.epoch)
    <3>1. w = [v EXCEPT !.audit = v.audit, !.epoch = w.epoch]
      BY <2>1 DEF Advanced
    <3> QED
      BY <3>1 DEF World, WithEpoch
  <2>3. CanonicallyEqual(v, WithEpoch(w, v.epoch))
    BY <2>2, WorldFields DEF CanonicallyEqual
  <2> QED
    BY <1>7, <2>3 DEF VerifiableUnloggedAdvance, EpochOnlyAdvance
<1> QED
  BY <1>5, <1>6, <1>7

\* Every world is an advance of itself.
LEMMA AdvancedItself ==
    ASSUME NEW v \in World
    PROVE  Advanced(v, v)
<1>1. v = [v EXCEPT !.audit = v.audit, !.epoch = v.epoch]
  BY DEF World
<1>2. v.epoch \in Nat /\ Len(v.audit) \in Nat
  BY WorldFields
<1> QED
  BY <1>1, <1>2 DEF Advanced

\* appendObservation advances further.
LEMMA ObservationAdvances ==
    ASSUME NEW v \in World, NEW w \in World, NEW e \in Nat, Advanced(v, w)
    PROVE  Advanced(v, WithObservation(w, e)) /\ Moved(v, WithObservation(w, e))
<1> DEFINE x == WithObservation(w, e)
<1>1. v.audit \in Seq(Nat) /\ w.audit \in Seq(Nat) /\ v.epoch \in Nat /\ w.epoch \in Nat
  BY WorldFields
<1>2. x.audit = Append(w.audit, e) /\ x.epoch = w.epoch /\ x = [w EXCEPT !.audit = x.audit]
  BY WorldFields DEF WithObservation
<1> HIDE DEF x
<1>3. x = [v EXCEPT !.audit = x.audit, !.epoch = x.epoch]
  BY <1>2, WorldFields DEF Advanced
<1>4. Len(x.audit) = Len(w.audit) + 1 /\ \A i \in 1..Len(w.audit) : x.audit[i] = w.audit[i]
  BY <1>1, <1>2
<1>5. Len(v.audit) \in Nat /\ Len(w.audit) \in Nat
  BY <1>1
<1>6. Advanced(v, x) /\ Moved(v, x)
  BY <1>1, <1>2, <1>3, <1>4, <1>5 DEF Advanced, Moved
<1> QED
  BY <1>6 DEF x

-----------------------------------------------------------------------------
(* Every step keeps the invariant.                                         *)

\* A commit makes the head the last change's own world.
LEMMA CommitChain ==
    ASSUME NEW p \in Proc, KernelInv, ChainInv, CommitApply(p)
    PROVE  ChainInv'
<1> PICK r \in RecordsOf(p, call[p].ticket) :
       \/ CommitAccepted(p, r) /\ StoreChange(r)
       \/ UNCHANGED <<history, log>>
  BY DEF CommitApply
<1>1. CASE UNCHANGED <<history, log>>
  BY <1>1 DEF ChainInv, HeadRef, HeadWorld
<1>2. CASE CommitAccepted(p, r) /\ StoreChange(r)
  <2> DEFINE w == Apply(history[r.before], r.op)
             c == [op |-> r.op, before |-> r.before, after |-> HeadRef + 1,
                   epoch |-> history[r.before].epoch, schema |-> r.schema]
  <2>1. r \in registry[p] /\ r \in RecordType
    BY DEF RecordsOf, KernelInv, RegistryOK
  <2>2. r.op \in Operation /\ r.before = HeadRef /\ Apply(HeadWorld, r.op) \in World
    BY <1>2, <2>1, CommitStores
  <2>3. w \in World
    BY <2>2 DEF HeadWorld
  <2>4. history' = Append(history, w) /\ log' = Append(log, c) /\ c.after = HeadRef + 1
    BY <1>2 DEF StoreChange
  <2> HIDE DEF w, c
  <2>5. HeadRef \in Nat /\ HeadRef' = HeadRef + 1 /\ HeadWorld' = w
    BY <2>3, <2>4, StoreGrows DEF KernelInv
  <2>6. log'[Len(log')] = c
    <3>1. log \in Seq(Change)
      BY DEF KernelInv, LogOK
    <3> QED
      BY <2>4, <3>1
  <2>7. history'[HeadRef'] = w
    BY <2>5 DEF HeadWorld
  <2> QED
    BY <2>3, <2>4, <2>5, <2>6, <2>7, AdvancedItself DEF ChainInv
<1> QED
  BY <1>1, <1>2

\* An observation moves the head one entry further.
LEMMA ObserveChain ==
    ASSUME NEW p \in Proc, KernelInv, ChainInv, ObserveSwap(p)
    PROVE  ChainInv'
<1> DEFINE entry == HeadRef + 1
           w == WithObservation(history[call[p].head], entry)
<1>1. CASE StoreAccepts(call[p].head)
  <2>1. HeadRef \in Nat /\ HeadWorld \in World /\ history[call[p].head] = HeadWorld
    BY <1>1, HeadTyped DEF KernelInv, StoreAccepts, HeadWorld
  <2>2. entry \in Nat /\ w = WithObservation(HeadWorld, entry) /\ w \in World
    BY <2>1, WithObservationTyped
  <2>3. history' = Append(history, w) /\ log' = log
    BY <1>1 DEF ObserveSwap
  <2> HIDE DEF w, entry
  <2>4. HeadRef' = HeadRef + 1 /\ HeadWorld' = w /\ \A i \in 1..HeadRef : history'[i] = history[i]
    BY <2>2, <2>3, StoreGrows DEF KernelInv
  <2>5. ASSUME log # << >>
        PROVE  LET last == log[Len(log)].after IN
               Advanced(history'[last], w) /\ Moved(history'[last], w)
    <3> DEFINE last == log[Len(log)].after
    <3>1. last \in 1..HeadRef
      BY <2>5 DEF KernelInv, LogOK
    <3>2. history'[last] = history[last] /\ history[last] \in World
      BY <2>4, <3>1, HeadTyped DEF KernelInv
    <3>3. Advanced(history[last], HeadWorld)
      BY <2>5 DEF ChainInv
    <3> QED
      BY <2>1, <2>2, <3>2, <3>3, ObservationAdvances
  <2> QED
    BY <2>3, <2>4, <2>5 DEF ChainInv
<1>2. CASE ~ StoreAccepts(call[p].head)
  BY <1>2 DEF ObserveSwap, ChainInv, HeadRef, HeadWorld
<1> QED
  BY <1>1, <1>2

\* Every step of the runtime keeps the invariant.
LEMMA StepChain ==
    ASSUME KernelInv, ChainInv, [KernelNext]_kernelVars
    PROVE  ChainInv'
<1>1. ASSUME NEW p \in Proc, ProcessStep(p)
      PROVE  ChainInv'
  <2>1. CASE CommitApply(p)
    BY <2>1, CommitChain
  <2>2. CASE ObserveSwap(p)
    BY <2>2, ObserveChain
  <2>3. CASE UNCHANGED <<history, log>>
    BY <2>3 DEF ChainInv, HeadRef, HeadWorld
  <2>4. CommitApply(p) \/ ObserveSwap(p) \/ UNCHANGED <<history, log>>
    BY <1>1 DEF ProcessStep, Admit, Cancel, CommitResolve, PruneExpired, CommitRelease, ObserveRead
  <2> QED
    BY <2>1, <2>2, <2>3, <2>4
<1>2. CASE UNCHANGED <<history, log>>
  BY <1>2 DEF ChainInv, HeadRef, HeadWorld
<1>3. (\E p \in Proc : ProcessStep(p)) \/ UNCHANGED <<history, log>>
  BY DEF KernelNext, KernelStep, Environment, LockLapses, RecordLapses, Restart, Crash, kernelVars
<1> QED
  BY <1>1, <1>2, <1>3

\* The invariant holds in every reachable state.
LEMMA ChainInvariance == KernelSpec => []ChainInv
<1>1. KernelInit => ChainInv
  BY DEF KernelInit, ChainInv
<1>2. KernelInv /\ ChainInv /\ [KernelNext]_kernelVars => ChainInv'
  BY StepChain
<1> QED
  BY <1>1, <1>2, KernelInvariance, PTL DEF KernelSpec

\* Advances since the last change leave the chain open.
LEMMA ChainOpen ==
    ASSUME KernelInv, ChainInv
    PROVE  HeadExtendsChain
<1> SUFFICES ASSUME log # << >>
             PROVE  Bridges(history, log[Len(log)].after, HeadRef)
  BY DEF HeadExtendsChain, ChainAccepts
<1> DEFINE last == log[Len(log)].after
<1>1. last \in 1..HeadRef
  BY DEF KernelInv, LogOK
<1>2. history[last] \in World /\ HeadWorld \in World
  BY <1>1, HeadTyped DEF KernelInv
<1>3. CASE last = HeadRef
  BY <1>3 DEF Bridges
<1>4. CASE last # HeadRef
  <2>1. Advanced(history[last], HeadWorld) /\ Moved(history[last], HeadWorld)
    BY <1>4 DEF ChainInv
  <2>2. VerifiableUnloggedAdvance(history[last], HeadWorld)
    BY <1>2, <2>1, AdvanceIsVerifiable
  <2> QED
    BY <2>2 DEF Bridges, HeadWorld
<1> QED
  BY <1>3, <1>4

\* Whatever observations came since the last change, the next commit on the head
\* continues the chain (commitChange.ts validatePreCommit): the store is never in
\* a state that refuses every later commit.
THEOREM LogNeverWedges == KernelSpec => []HeadExtendsChain
  BY ChainOpen, KernelInvariance, ChainInvariance, PTL
=============================================================================
