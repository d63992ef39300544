---------------------------- MODULE EpochProofs ----------------------------
(***************************************************************************)
(* Epochs follow one another, the change feed leads across them, and the   *)
(* control plane announces only what was activated, for any processes,     *)
(* operations and admissions.                                              *)
(*                                                                         *)
(* What a process holds either is the durable binding or is of an earlier  *)
(* generation and an earlier epoch.  A commit that passed its checks holds *)
(* the binding of the head it read, so if the head is still that one when  *)
(* it swaps, the binding it stores follows the durable one directly.       *)
(*                                                                         *)
(* The feed rests on what the log and the snapshots between its changes    *)
(* are (FeedInv).  The control plane rests on its decisions: the file has  *)
(* one before the runtime is asked, and one that is applied, or left to    *)
(* recovery, is about an epoch the runtime was moved to with that head, or *)
(* about an admission it refused for good (Workflow).                      *)
(***************************************************************************)
EXTENDS ControlPlane, RuntimeProofs, WellFoundedInduction

-----------------------------------------------------------------------------
(* Epoch administration: what one operation leaves alone.                  *)

SameEpoch(v, w) == "epoch" \in DOMAIN v /\ v.epoch = w.epoch

LEMMA HelpersKeepEpoch ==
    ASSUME NEW w, "epoch" \in DOMAIN w, NEW op
    PROVE  /\ SameEpoch(WithTask(w, op), w)
           /\ \A kind, from, to : SameEpoch(WithLink(w, kind, from, to), w)
           /\ \A controller, members : SameEpoch(WithSession(w, controller, members), w)
           /\ \A a, status : SameEpoch(WithStatus(w, a, status), w)
  BY DEF SameEpoch, WithTask, WithLink, WithSession, WithStatus

\* No handler touches the epoch.
LEMMA ApplyKeepsEpoch ==
    ASSUME NEW w \in World, NEW op, op.kind \in Kind
    PROVE  Apply(w, op).epoch = w.epoch
<1>1. "epoch" \in DOMAIN w
  BY DEF World
<1>2. CASE op.kind = "introduce_artifact"
  BY <1>1, <1>2, HelpersKeepEpoch DEF Apply, SameEpoch
<1>3. CASE op.kind = "create_session"
  <2> DEFINE opened == WithSession(w, op.from, {op.from, op.participant} \ {None})
  <2>1. SameEpoch(opened, w)
    BY <1>1, HelpersKeepEpoch
  <2> HIDE DEF opened
  <2>2. SameEpoch(WithLink(opened, "nested_in", op.from, op.participant), opened)
    BY <2>1, HelpersKeepEpoch DEF SameEpoch
  <2> QED
    BY <1>3, <2>1, <2>2 DEF Apply, CreateSession, SameEpoch, opened
<1>4. CASE op.kind = "fork_branch"
  <2> DEFINE branched == IF op.task = None THEN w ELSE WithTask(w, op)
  <2>1. SameEpoch(branched, w)
    BY <1>1, HelpersKeepEpoch DEF SameEpoch
  <2> HIDE DEF branched
  <2>2. SameEpoch(WithLink(branched, "parallel_with", op.from, op.participant), branched)
    BY <2>1, HelpersKeepEpoch DEF SameEpoch
  <2> QED
    BY <1>4, <2>1, <2>2 DEF Apply, ForkBranch, SameEpoch, branched
<1>5. CASE op.kind = "delegate"
  <2> DEFINE given    == [w EXCEPT !.owner[op.task] = op.to, !.capHolder[op.capability] = op.to]
             moved    == WithSession(given, op.to, {op.to, op.from})
             reviewed == IF Registered(moved, op.participant) THEN moved
                         ELSE WithStatus(moved, op.participant, "active")
  <2>1. SameEpoch(given, w)
    BY <1>1 DEF SameEpoch
  <2> HIDE DEF given
  <2>2. SameEpoch(moved, given)
    BY <2>1, HelpersKeepEpoch DEF SameEpoch
  <2> HIDE DEF moved
  <2>3. SameEpoch(reviewed, moved)
    BY <2>2, HelpersKeepEpoch DEF SameEpoch
  <2> HIDE DEF reviewed
  <2>4. SameEpoch(WithLink(reviewed, "waits_for", op.participant, op.to), reviewed)
    BY <2>3, HelpersKeepEpoch DEF SameEpoch
  <2> QED
    BY <1>5, <2>1, <2>2, <2>3, <2>4 DEF Apply, Delegate, SameEpoch, given, moved, reviewed
<1>6. CASE op.kind \in {"register_participant", "activate_participant", "retire_participant",
                        "signal_done"}
  BY <1>1, <1>6, HelpersKeepEpoch DEF Apply, SameEpoch
<1>7. CASE op.kind \in {"publish_artifact", "transfer_session", "emit_heartbeat", "commit_transcript"}
  BY <1>1, <1>7 DEF Apply, TransferSession
<1> QED
  BY <1>2, <1>3, <1>4, <1>5, <1>6, <1>7 DEF Kind

-----------------------------------------------------------------------------
(* The invariant.                                                          *)

EpochTypes ==
    /\ binding \in Binding
    /\ holder \in [Proc -> Binding]
    /\ plan \in [Admission -> Plan \cup {None}]
    /\ inspected \in [Proc -> SUBSET Admission]
    /\ prepared \in [Proc -> [Admission -> Binding \cup {None}]]
    /\ journal \in [Proc -> [Admission -> Binding \cup {None}]]
    /\ activating \in [Proc -> Admission \cup {None}]

\* b is the durable binding, or older in both respects.
Behind(b) ==
    \/ b = binding
    \/ b.generation < binding.generation /\ b.epoch < binding.epoch

HoldersBehind ==
    /\ \A p \in Proc : Behind(holder[p])
    /\ \A p \in Proc, a \in Admission : journal[p][a] # None => Behind(journal[p][a])

\* A preparation follows its plan's epoch, and a generation p held since then.
Follows(p, a) ==
    /\ plan[a] # None
    /\ prepared[p][a].epoch = plan[a].epoch + 1
    /\ plan[a].generation + 1 <= prepared[p][a].generation
    /\ prepared[p][a].generation <= holder[p].generation + 1

Preparing ==
    \A p \in Proc, a \in Admission :
        /\ a \in inspected[p] => plan[a] # None /\ plan[a].generation <= holder[p].generation
        /\ prepared[p][a] # None => Follows(p, a)

\* A commit that passed its checks: what it read is still true of that head.
Checked(p, a) ==
    /\ prepared[p][a] # None
    /\ plan[a].generation = holder[p].generation
    /\ plan[a].epoch = holder[p].epoch
    /\ call[p].head \in 1..HeadRef
    /\ history[call[p].head].epoch = plan[a].epoch
    /\ SessionsQuiescent(history[call[p].head])

Activating ==
    \A p \in Proc :
        /\ activating[p] # None <=> call[p].step = "activate"
        /\ activating[p] # None => Checked(p, activating[p])

\* Records and changes are of one epoch.
OfOneEpoch ==
    /\ \A p \in Proc : \A r \in registry[p] : r.schema = history[r.before].epoch
    /\ \A i \in 1..Len(log) : log[i].before \in 1..HeadRef
    /\ ChangeWithinEpoch

EpochInv ==
    /\ EpochTypes /\ HoldersBehind /\ Preparing /\ Activating /\ OfOneEpoch
    /\ BindingMatchesHead

-----------------------------------------------------------------------------
(* The runtime's steps.                                                    *)

\* What a step of the runtime may change of what epochs are about.
KernelEffect ==
    /\ binding' = binding
    /\ \/ history' = history /\ log' = log
       \/ \E w \in World : history' = Append(history, w) /\ w.epoch = HeadWorld.epoch
    /\ \A p \in Proc :
          /\ call'[p].step = "activate" <=> call[p].step = "activate"
          /\ call[p].step = "activate" => call'[p] = call[p] /\ holder'[p] = holder[p]
          /\ holder'[p] \in {holder[p], binding}
    /\ holder' = [p \in Proc |-> holder'[p]]

LEMMA RuntimeEffect ==
    ASSUME KernelInv, EpochTypes, KernelStep
    PROVE  KernelEffect
<1>1. call \in [Proc -> Call] /\ holder = [p \in Proc |-> holder[p]]
  BY DEF KernelInv, CallOK, EpochTypes
<1>2. ASSUME NEW p \in Proc, CommitApply(p) PROVE KernelEffect
  <2>1. /\ call[p].step = "apply" /\ call' = [call EXCEPT ![p].step = "release"]
        /\ UNCHANGED <<binding, holder>>
    BY <1>2 DEF CommitApply
  <2>2. \/ history' = history /\ log' = log
        \/ \E w \in World : history' = Append(history, w) /\ w.epoch = HeadWorld.epoch
    <3>1. PICK r \in RecordsOf(p, call[p].ticket) :
             \/ CommitAccepted(p, r) /\ StoreChange(r)
             \/ UNCHANGED <<history, log>>
      BY <1>2 DEF CommitApply
    <3>2. CASE CommitAccepted(p, r) /\ StoreChange(r)
      <4>1. /\ r.op \in Operation /\ r.before = HeadRef
            /\ Apply(HeadWorld, r.op) \in World
        BY <3>2, CommitStores DEF RecordsOf
      <4>2. HeadWorld \in World
        BY HeadTyped DEF KernelInv
      <4>3. Apply(HeadWorld, r.op).epoch = HeadWorld.epoch
        BY <4>1, <4>2, ApplyKeepsEpoch DEF Operation
      <4>4. history' = Append(history, Apply(HeadWorld, r.op))
        BY <3>2, <4>1 DEF StoreChange, HeadWorld
      <4> QED
        BY <4>1, <4>3, <4>4
    <3> QED
      BY <3>1, <3>2
  <2>3. /\ call'[p].step = "release"
        /\ \A q \in Proc \ {p} : call'[q] = call[q]
    BY <1>1, <2>1 DEF Call
  <2> QED
    BY <1>1, <2>1, <2>2, <2>3 DEF KernelEffect
<1>3. ASSUME NEW p \in Proc, ObserveSwap(p) PROVE KernelEffect
  <2>1. /\ call[p].step = "swap" /\ call' = [call EXCEPT ![p] = Idle]
        /\ UNCHANGED <<binding, holder, log>>
    BY <1>3 DEF ObserveSwap
  <2>2. \/ history' = history
        \/ \E w \in World : history' = Append(history, w) /\ w.epoch = HeadWorld.epoch
    <3>1. CASE StoreAccepts(call[p].head)
      <4>1. HeadRef \in Nat /\ HeadWorld \in World /\ history[call[p].head] = HeadWorld
        BY <3>1, HeadTyped DEF KernelInv, StoreAccepts, HeadWorld
      <4>2. WithObservation(HeadWorld, HeadRef + 1) \in World
        BY <4>1, WithObservationTyped
      <4>3. WithObservation(HeadWorld, HeadRef + 1).epoch = HeadWorld.epoch
        BY <4>1 DEF WithObservation, World
      <4>4. history' = Append(history, WithObservation(HeadWorld, HeadRef + 1))
        BY <1>3, <3>1, <4>1 DEF ObserveSwap
      <4> QED
        BY <4>2, <4>3, <4>4
    <3> QED
      BY <1>3, <3>1 DEF ObserveSwap
  <2>3. /\ call'[p].step = "idle"
        /\ \A q \in Proc \ {p} : call'[q] = call[q]
    BY <1>1, <2>1 DEF Idle
  <2> QED
    BY <1>1, <2>1, <2>2, <2>3 DEF KernelEffect
<1>4. ASSUME NEW p \in Proc, NEW to, to.step # "activate", call[p].step # "activate",
             call' = [call EXCEPT ![p] = to], UNCHANGED <<history, log, binding>>,
             holder' = holder \/ holder' = [holder EXCEPT ![p] = binding]
      PROVE  KernelEffect
  <2>1. call'[p] = to /\ \A q \in Proc \ {p} : call'[q] = call[q]
    BY <1>1, <1>4
  <2>2. /\ \A q \in Proc : holder'[q] \in {holder[q], binding}
        /\ \A q \in Proc \ {p} : holder'[q] = holder[q]
        /\ holder' = [q \in Proc |-> holder'[q]]
    BY <1>1, <1>4
  <2> QED
    BY <1>4, <2>1, <2>2 DEF KernelEffect
<1>5. ASSUME UNCHANGED <<history, log, binding, holder, call>>
      PROVE  KernelEffect
  BY <1>1, <1>5 DEF KernelEffect
<1>6. ASSUME NEW p \in Proc, ProcessStep(p), ~ CommitApply(p), ~ ObserveSwap(p)
      PROVE  KernelEffect
  <2>1. CASE UNCHANGED <<history, log, binding, holder, call>>
    BY <1>5, <2>1
  <2>2. CASE \E r \in registry[p] :
                /\ call[p].step = "idle"
                /\ call' = [call EXCEPT ![p] = [step |-> "apply", ticket |-> r.ticket, head |-> 0]]
                /\ UNCHANGED <<history, log, binding, holder>>
    BY <1>4, <2>2
  <2>3. CASE CommitRelease(p)
    BY <1>4, <2>3 DEF CommitRelease, Idle
  <2>4. CASE ObserveRead(p)
    BY <1>4, <2>4 DEF ObserveRead
  <2> QED
    BY <1>6, <2>1, <2>2, <2>3, <2>4 DEF ProcessStep, Admit, Cancel, PruneExpired, CommitResolve
<1>7. CASE Environment
  <2>1. CASE \E p \in Proc : Restart(p)
    BY <1>4, <2>1 DEF Restart, Idle
  <2> QED
    BY <1>5, <1>7, <2>1 DEF Environment, LockLapses, RecordLapses
<1> QED
  BY <1>2, <1>3, <1>6, <1>7 DEF KernelStep

\* Stored snapshots stay, whether one is added or not.
LEMMA OldStays ==
    ASSUME HistoryOK,
           history' = history \/ \E w \in World : history' = Append(history, w)
    PROVE  /\ HeadRef \in Nat /\ HeadRef' \in Nat /\ HeadRef <= HeadRef'
           /\ \A i \in 1..HeadRef : i \in 1..HeadRef' /\ history'[i] = history[i]
<1>1. HeadRef \in Nat
  BY HeadTyped
<1>2. CASE history' = history
  BY <1>1, <1>2 DEF HeadRef
<1>3. CASE \E w \in World : history' = Append(history, w)
  <2>1. HeadRef' = HeadRef + 1 /\ \A i \in 1..HeadRef : history'[i] = history[i]
    BY <1>3, StoreGrows
  <2> QED
    BY <1>1, <2>1
<1> QED
  BY <1>2, <1>3

\* The runtime's steps keep what holders, preparations and commits rely on.
LEMMA EffectKeeps ==
    ASSUME KernelInv, EpochInv, KernelEffect, UNCHANGED epochVars
    PROVE  EpochTypes' /\ HoldersBehind' /\ Preparing' /\ Activating' /\ BindingMatchesHead'
<1>1. EpochTypes /\ HoldersBehind /\ Preparing /\ Activating /\ BindingMatchesHead
  BY DEF EpochInv
<1>2. /\ binding' = binding /\ UNCHANGED <<plan, inspected, prepared, journal, activating>>
      /\ \A p \in Proc :
            /\ call'[p].step = "activate" <=> call[p].step = "activate"
            /\ call[p].step = "activate" => call'[p] = call[p] /\ holder'[p] = holder[p]
            /\ holder'[p] \in {holder[p], binding}
      /\ holder' = [p \in Proc |-> holder'[p]]
  BY DEF KernelEffect, epochVars
<1>3. EpochTypes'
  <2>1. \A p \in Proc : holder'[p] \in Binding
    BY <1>1, <1>2 DEF EpochTypes
  <2> QED
    BY <1>1, <1>2, <2>1 DEF EpochTypes
<1>4. HoldersBehind'
  BY <1>1, <1>2 DEF HoldersBehind, Behind
<1>5. \A p \in Proc : /\ holder[p].generation \in Nat /\ holder'[p].generation \in Nat
                      /\ holder[p].generation <= holder'[p].generation
  <2>1. binding.generation \in Nat /\ \A p \in Proc : holder[p].generation \in Nat
    BY <1>1 DEF EpochTypes, Binding
  <2>2. \A p \in Proc : holder[p].generation <= binding.generation
    BY <1>1, <2>1 DEF HoldersBehind, Behind
  <2> QED
    BY <1>2, <2>1, <2>2
<1>6. Preparing'
  <2>1. ASSUME NEW p \in Proc, NEW a \in Admission, a \in inspected[p]
        PROVE  plan[a] # None /\ plan[a].generation <= holder'[p].generation
    <3>1. plan[a] # None /\ plan[a] \in Plan /\ plan[a].generation <= holder[p].generation
      BY <1>1, <2>1 DEF Preparing, EpochTypes
    <3> QED
      BY <1>5, <3>1 DEF Plan
  <2>2. ASSUME NEW p \in Proc, NEW a \in Admission, prepared[p][a] # None
        PROVE  Follows(p, a)'
    <3>1. Follows(p, a) /\ prepared[p][a].generation \in Nat
      BY <1>1, <2>2 DEF Preparing, EpochTypes, Binding
    <3> QED
      BY <1>2, <1>5, <3>1 DEF Follows
  <2> QED
    BY <1>2, <2>1, <2>2 DEF Preparing
<1>7. \A i \in 1..HeadRef : i \in 1..HeadRef' /\ history'[i] = history[i]
  BY OldStays DEF KernelEffect, KernelInv
<1>8. Activating'
  <2>1. ASSUME NEW p \in Proc, activating[p] # None
        PROVE  Checked(p, activating[p])'
    <3>1. /\ Checked(p, activating[p]) /\ call'[p] = call[p] /\ holder'[p] = holder[p]
          /\ activating'[p] = activating[p]
      BY <1>1, <1>2, <2>1 DEF Activating
    <3> QED
      BY <1>2, <1>7, <3>1 DEF Checked
  <2> QED
    BY <1>1, <1>2, <2>1 DEF Activating
<1>9. BindingMatchesHead'
  <2>1. CASE history' = history
    BY <1>1, <1>2, <2>1 DEF BindingMatchesHead, HeadWorld, HeadRef
  <2>2. CASE \E w \in World : history' = Append(history, w) /\ w.epoch = HeadWorld.epoch
    <3>1. HeadWorld'.epoch = HeadWorld.epoch
      BY <2>2, StoreGrows DEF KernelInv
    <3> QED
      BY <1>1, <1>2, <3>1 DEF BindingMatchesHead
  <2> QED
    BY <2>1, <2>2 DEF KernelEffect
<1> QED
  BY <1>3, <1>4, <1>6, <1>8, <1>9

\* Records and changes of one epoch stay so when no other record is registered.
LEMMA OneEpochKept ==
    ASSUME KernelInv, OfOneEpoch,
           history' = history \/ \E w \in World : history' = Append(history, w),
           log' = log,
           \A p \in Proc : \A r \in registry'[p] :
              \E q \in registry[p] : r.before = q.before /\ r.schema = q.schema
    PROVE  OfOneEpoch'
<1>1. \A i \in 1..HeadRef : i \in 1..HeadRef' /\ history'[i] = history[i]
  BY OldStays DEF KernelInv
<1>2. \A p \in Proc : \A r \in registry'[p] : r.schema = history'[r.before].epoch
  BY <1>1 DEF OfOneEpoch, KernelInv, RegistryOK
<1>3. \A i \in 1..Len(log) : log[i].before \in 1..HeadRef /\ log[i].after \in 1..HeadRef
  BY DEF OfOneEpoch, KernelInv, LogOK
<1>4. ASSUME NEW i \in 1..Len(log)
      PROVE  /\ log[i].before \in 1..HeadRef'
             /\ {log[i].schema, history'[log[i].before].epoch, history'[log[i].after].epoch}
                   = {log[i].epoch}
  BY <1>1, <1>3 DEF OfOneEpoch, ChangeWithinEpoch
<1> QED
  BY <1>2, <1>4 DEF OfOneEpoch, ChangeWithinEpoch

\* A record is of the epoch of the snapshot it was judged on.
LEMMA AdmitOneEpoch ==
    ASSUME KernelInv, OfOneEpoch, NEW p \in Proc, NEW op \in Ops, NEW b \in 1..HeadRef,
           Admit(p, op, b)
    PROVE  OfOneEpoch'
<1> DEFINE r == [ticket |-> NextTicket(p), op |-> op, before |-> b, schema |-> holder[p].epoch,
                 expired |-> FALSE]
<1>1. /\ history[b].epoch = holder[p].epoch /\ UNCHANGED <<history, log>>
      /\ registry' = [registry EXCEPT ![p] = @ \cup {r}]
  BY DEF Admit, AdmissionAllowed
<1>2. r.before = b /\ r.schema = holder[p].epoch
  OBVIOUS
<1> HIDE DEF r
<1>3. \A q \in Proc : \A x \in registry'[q] : x \in registry[q] \/ x = r
  BY <1>1 DEF KernelInv, RegistryOK
<1> QED
  BY <1>1, <1>2, <1>3 DEF OfOneEpoch, ChangeWithinEpoch, HeadRef

\* What is committed is of the epoch of the head it was admitted against.
LEMMA CommitOneEpoch ==
    ASSUME KernelInv, OfOneEpoch, NEW p \in Proc, CommitApply(p)
    PROVE  OfOneEpoch'
<1>1. PICK r \in RecordsOf(p, call[p].ticket) :
         \/ CommitAccepted(p, r) /\ StoreChange(r)
         \/ UNCHANGED <<history, log>>
  BY DEF CommitApply
<1>2. registry' = registry
  BY DEF CommitApply
<1>3. CASE UNCHANGED <<history, log>>
  BY <1>2, <1>3, OneEpochKept
<1>4. CASE CommitAccepted(p, r) /\ StoreChange(r)
  <2> DEFINE w == Apply(HeadWorld, r.op)
             c == [op |-> r.op, before |-> r.before, after |-> HeadRef + 1,
                   epoch |-> history[r.before].epoch, schema |-> r.schema]
  <2>1. r \in registry[p] /\ r.op \in Operation /\ r.before = HeadRef /\ w \in World
    BY <1>4, CommitStores DEF RecordsOf
  <2>2. HeadWorld \in World /\ HeadRef \in Nat /\ HeadRef > 0
    BY HeadTyped DEF KernelInv
  <2>3. w.epoch = HeadWorld.epoch /\ r.schema = HeadWorld.epoch
    BY <2>1, <2>2, ApplyKeepsEpoch DEF Operation, OfOneEpoch, HeadWorld
  <2>4. history' = Append(history, w) /\ log' = Append(log, c)
    BY <1>4, <2>1 DEF StoreChange, HeadWorld
  <2>5. /\ c.before = HeadRef /\ c.after = HeadRef + 1 /\ c.schema = HeadWorld.epoch
        /\ c.epoch = HeadWorld.epoch
    BY <2>1, <2>3 DEF HeadWorld
  <2> HIDE DEF w, c
  <2>6. /\ HeadRef' = HeadRef + 1 /\ history'[HeadRef + 1] = w /\ history'[HeadRef] = HeadWorld
        /\ \A i \in 1..HeadRef : i \in 1..HeadRef' /\ history'[i] = history[i]
    <3>1. /\ HeadRef' = HeadRef + 1 /\ HeadWorld' = w
          /\ \A i \in 1..HeadRef : history'[i] = history[i]
      BY <2>1, <2>4, StoreGrows DEF KernelInv
    <3> QED
      BY <2>2, <3>1 DEF HeadWorld
  <2>7. /\ log \in Seq(Change) /\ Len(log') = Len(log) + 1 /\ log'[Len(log) + 1] = c
        /\ \A i \in 1..Len(log) : log'[i] = log[i]
    <3>1. log \in Seq(Change)
      BY DEF KernelInv, LogOK
    <3> QED
      BY <2>4, <3>1
  <2>8. \A q \in Proc : \A x \in registry'[q] : x.schema = history'[x.before].epoch
    BY <1>2, <2>6 DEF OfOneEpoch, KernelInv, RegistryOK
  <2>9. ASSUME NEW i \in 1..Len(log')
        PROVE  /\ log'[i].before \in 1..HeadRef'
               /\ {log'[i].schema, history'[log'[i].before].epoch, history'[log'[i].after].epoch}
                     = {log'[i].epoch}
    <3>1. CASE i = Len(log) + 1
      BY <2>2, <2>3, <2>5, <2>6, <2>7, <3>1
    <3>2. CASE i # Len(log) + 1
      <4>1. i \in 1..Len(log)
        BY <2>7, <3>2
      <4>2. log[i].before \in 1..HeadRef /\ log[i].after \in 1..HeadRef
        BY <4>1 DEF OfOneEpoch, KernelInv, LogOK
      <4>3. {log[i].schema, history[log[i].before].epoch, history[log[i].after].epoch}
               = {log[i].epoch}
        BY <4>1 DEF OfOneEpoch, ChangeWithinEpoch
      <4> QED
        BY <2>6, <2>7, <4>1, <4>2, <4>3
    <3> QED
      BY <3>1, <3>2
  <2> QED
    BY <2>8, <2>9 DEF OfOneEpoch, ChangeWithinEpoch
<1> QED
  BY <1>1, <1>3, <1>4

LEMMA RuntimeOneEpoch ==
    ASSUME KernelInv, EpochInv, KernelStep
    PROVE  OfOneEpoch'
<1>1. OfOneEpoch /\ KernelEffect
  BY RuntimeEffect DEF EpochInv
<1>2. registry \in [Proc -> SUBSET RecordType]
  BY DEF KernelInv, RegistryOK
<1>3. history' = history \/ \E w \in World : history' = Append(history, w)
  BY <1>1 DEF KernelEffect
<1>4. ASSUME log' = log, \A p \in Proc : registry'[p] \subseteq registry[p]
      PROVE  OfOneEpoch'
  BY <1>1, <1>3, <1>4, OneEpochKept
<1>5. ASSUME NEW p \in Proc, ProcessStep(p) PROVE OfOneEpoch'
  <2>1. CASE \E op \in Ops, b \in 1..HeadRef : Admit(p, op, b)
    BY <1>1, <2>1, AdmitOneEpoch
  <2>2. CASE CommitApply(p)
    BY <1>1, <2>2, CommitOneEpoch
  <2>3. CASE \/ \E r \in registry[p] : Cancel(p, r.ticket) \/ CommitResolve(p, r)
             \/ PruneExpired(p) \/ CommitRelease(p) \/ ObserveRead(p) \/ ObserveSwap(p)
    <3>1. log' = log
      BY <2>3 DEF Cancel, CommitResolve, PruneExpired, CommitRelease, ObserveRead, ObserveSwap
    <3>2. \A q \in Proc : registry'[q] \subseteq registry[q]
      BY <1>2, <2>3 DEF Cancel, CommitResolve, PruneExpired, CommitRelease, ObserveRead,
                        ObserveSwap, CancelTicket, WithoutRecord
    <3> QED
      BY <1>4, <3>1, <3>2
  <2> QED
    BY <1>5, <2>1, <2>2, <2>3 DEF ProcessStep
<1>6. CASE Environment
  <2>1. CASE \E p \in Proc : \E r \in registry[p] : RecordLapses(p, r)
    <3>0. PICK p \in Proc : \E r \in registry[p] : RecordLapses(p, r)
      BY <2>1
    <3>1. PICK r \in registry[p] : RecordLapses(p, r)
      BY <3>0
    <3>2. /\ registry' = [registry EXCEPT ![p] = (@ \ {r}) \cup {[r EXCEPT !.expired = TRUE]}]
          /\ UNCHANGED <<history, log>>
      BY <3>1 DEF RecordLapses
    <3>3. r \in RecordType
      BY <1>2
    <3>4. /\ [r EXCEPT !.expired = TRUE].before = r.before
          /\ [r EXCEPT !.expired = TRUE].schema = r.schema
      BY <3>3 DEF RecordType
    <3>5. \A q \in Proc : \A x \in registry'[q] :
             \E y \in registry[q] : x.before = y.before /\ x.schema = y.schema
      BY <1>2, <3>1, <3>2, <3>4
    <3> QED
      BY <1>1, <3>2, <3>5, OneEpochKept
  <2>2. CASE (\E l \in locks : LockLapses(l)) \/ \E p \in Proc : Restart(p)
    BY <1>4, <2>2 DEF LockLapses, Restart
  <2> QED
    BY <1>6, <2>1, <2>2 DEF Environment
<1> QED
  BY <1>5, <1>6 DEF KernelStep

-----------------------------------------------------------------------------
(* The steps of epoch administration.                                      *)

FullInv == KernelInv /\ ChainInv /\ EpochInv

\* A step that stores nothing and registers no record.
LEMMA AdminKernel ==
    ASSUME KernelInv, ChainInv, OfOneEpoch,
           UNCHANGED <<history, log, locks, issued, life, seen>>,
           registry' \in [Proc -> SUBSET RecordType],
           \A p \in Proc : registry'[p] \subseteq registry[p],
           CallOK', EpochTypes'
    PROVE  KernelInv' /\ ChainInv' /\ OfOneEpoch'
<1>1. HolderOK'
  BY DEF EpochTypes, HolderOK, Binding
<1>2. HistoryOK' /\ LogOK' /\ LocksOK' /\ ProcessOK'
  BY DEF KernelInv, HistoryOK, LogOK, LocksOK, ProcessOK, HeadRef
<1>3. RegistryOK'
  BY DEF KernelInv, RegistryOK, HeadRef
<1>4. ChainInv'
  BY DEF ChainInv, HeadRef, HeadWorld
<1>5. OfOneEpoch'
  BY OneEpochKept
<1> QED
  BY <1>1, <1>2, <1>3, <1>4, <1>5 DEF KernelInv

\* A plan is made, for an admission nobody is at work on.
LEMMA ReplanKeeps ==
    ASSUME FullInv, NEW a \in Admission, NEW r \in Plan, plan' = [plan EXCEPT ![a] = r],
           UNCHANGED <<kernelVars, inspected, prepared, journal, activating>>,
           \A q \in Proc : a \notin inspected[q] /\ prepared[q][a] = None
    PROVE  FullInv'
<1>1. /\ KernelInv /\ ChainInv /\ EpochTypes /\ HoldersBehind /\ Preparing /\ Activating
      /\ OfOneEpoch /\ BindingMatchesHead
  BY DEF FullInv, EpochInv
<1>2. /\ UNCHANGED <<history, log, binding, locks, registry, call, issued, life, seen, holder>>
      /\ UNCHANGED <<inspected, prepared, journal, activating>>
  BY DEF kernelVars
<1>3. EpochTypes'
  BY <1>1, <1>2 DEF EpochTypes
<1>4. KernelInv' /\ ChainInv' /\ OfOneEpoch'
  <2>1. registry \in [Proc -> SUBSET RecordType] /\ CallOK'
    BY <1>1, <1>2 DEF KernelInv, RegistryOK, CallOK
  <2> QED
    BY <1>1, <1>2, <1>3, <2>1, AdminKernel
<1>5. \A b \in Admission \ {a} : plan'[b] = plan[b]
  BY <1>1, <1>2 DEF EpochTypes
<1>6. Preparing' /\ HoldersBehind' /\ BindingMatchesHead'
  BY <1>1, <1>2, <1>5 DEF Preparing, Follows, HoldersBehind, Behind, BindingMatchesHead,
                          HeadWorld, HeadRef
<1>7. Activating'
  <2>1. ASSUME NEW q \in Proc, activating[q] # None
        PROVE  Checked(q, activating[q])'
    <3>1. Checked(q, activating[q]) /\ activating[q] \in Admission
      BY <1>1, <2>1 DEF Activating, EpochTypes
    <3>2. activating[q] # a
      BY <3>1 DEF Checked
    <3>3. plan'[activating[q]] = plan[activating[q]]
      BY <1>5, <3>1, <3>2
    <3> QED
      BY <1>2, <3>1, <3>3 DEF Checked, HeadRef
  <2> QED
    BY <1>1, <1>2, <2>1 DEF Activating
<1> QED
  BY <1>3, <1>4, <1>6, <1>7 DEF FullInv, EpochInv

\* A first plan: nothing is inspected or prepared without one.
LEMMA SubmitKeeps ==
    ASSUME FullInv, NEW p \in Proc, NEW a \in Admission, Submit(p, a)
    PROVE  FullInv'
<1> DEFINE r == [head |-> HeadRef, generation |-> holder[p].generation, epoch |-> holder[p].epoch]
<1>1. KernelInv /\ EpochTypes /\ Preparing
  BY DEF FullInv, EpochInv
<1>2. /\ plan[a] = None /\ plan' = [plan EXCEPT ![a] = r]
      /\ UNCHANGED <<kernelVars, inspected, prepared, journal, activating>>
  BY DEF Submit
<1>3. r \in Plan
  <2>1. HeadRef \in Nat /\ holder[p].generation \in Nat /\ holder[p].epoch \in Nat
    BY <1>1, HeadTyped DEF KernelInv, EpochTypes, Binding
  <2> QED
    BY <2>1 DEF Plan
<1>4. \A q \in Proc : a \notin inspected[q] /\ prepared[q][a] = None
  BY <1>1, <1>2 DEF Preparing, Follows
<1> HIDE DEF r
<1> QED
  BY <1>2, <1>3, <1>4, ReplanKeeps

\* Prepare, up to its await: a plan it judged is not ahead of the holder.
LEMMA InspectKeeps ==
    ASSUME FullInv, NEW p \in Proc, NEW a \in Admission, PrepareInspect(p, a)
    PROVE  FullInv'
<1>1. /\ KernelInv /\ ChainInv /\ EpochTypes /\ HoldersBehind /\ Preparing /\ Activating
      /\ OfOneEpoch /\ BindingMatchesHead
  BY DEF FullInv, EpochInv
<1>2. /\ plan[a] # None /\ plan[a].generation = holder[p].generation
      /\ registry' = Forgotten(p)
      /\ inspected' = [inspected EXCEPT ![p] = @ \cup {a}]
      /\ UNCHANGED <<history, log, binding, locks, call, issued, life, seen, holder>>
      /\ UNCHANGED <<plan, prepared, journal, activating>>
  BY DEF PrepareInspect, PlanCurrent
<1>3. EpochTypes'
  BY <1>1, <1>2 DEF EpochTypes
<1>4. KernelInv' /\ ChainInv' /\ OfOneEpoch'
  <2>1. /\ registry' \in [Proc -> SUBSET RecordType] /\ CallOK'
        /\ \A q \in Proc : registry'[q] \subseteq registry[q]
    BY <1>1, <1>2 DEF KernelInv, RegistryOK, CallOK, Forgotten
  <2> QED
    BY <1>1, <1>2, <1>3, <2>1, AdminKernel
<1>5. holder[p].generation <= holder[p].generation
  BY <1>1 DEF EpochTypes, Binding
<1>6. \A q \in Proc : \A b \in inspected'[q] : b \in inspected[q] \/ (q = p /\ b = a)
  BY <1>1, <1>2 DEF EpochTypes
<1>7. Preparing'
  BY <1>1, <1>2, <1>5, <1>6 DEF Preparing, Follows
<1>8. HoldersBehind' /\ BindingMatchesHead' /\ Activating'
  BY <1>1, <1>2 DEF HoldersBehind, Behind, BindingMatchesHead, HeadWorld, HeadRef, Activating,
                    Checked
<1> QED
  BY <1>3, <1>4, <1>7, <1>8 DEF FullInv, EpochInv

\* Prepare, after it: the holder may have moved on meanwhile.
LEMMA StoreKeeps ==
    ASSUME FullInv, NEW p \in Proc, NEW a \in Admission, PrepareStore(p, a)
    PROVE  FullInv'
<1> DEFINE b == [generation |-> holder[p].generation + 1, epoch |-> plan[a].epoch + 1,
                 admission |-> a]
<1>1. /\ KernelInv /\ ChainInv /\ EpochTypes /\ HoldersBehind /\ Preparing /\ Activating
      /\ OfOneEpoch /\ BindingMatchesHead
  BY DEF FullInv, EpochInv
<1>2. /\ call[p].step = "idle" /\ a \in inspected[p]
      /\ prepared' = [prepared EXCEPT ![p][a] = b]
      /\ inspected' = [inspected EXCEPT ![p] = @ \ {a}]
      /\ UNCHANGED <<history, log, binding, locks, registry, call, issued, life, seen, holder>>
      /\ UNCHANGED <<plan, journal, activating>>
  BY DEF PrepareStore, kernelVars
<1>3. /\ plan[a] # None /\ plan[a] \in Plan /\ plan[a].generation <= holder[p].generation
      /\ holder[p].generation \in Nat
  BY <1>1, <1>2 DEF Preparing, EpochTypes, Binding
<1>4. /\ b \in Binding /\ b.epoch = plan[a].epoch + 1 /\ b.generation = holder[p].generation + 1
  BY <1>3 DEF Binding, Plan
<1> HIDE DEF b
<1>5. /\ prepared'[p][a] = b
      /\ \A q \in Proc, c \in Admission : (q # p \/ c # a) => prepared'[q][c] = prepared[q][c]
  BY <1>1, <1>2 DEF EpochTypes
<1>6. EpochTypes'
  BY <1>1, <1>2, <1>4 DEF EpochTypes
<1>7. KernelInv' /\ ChainInv' /\ OfOneEpoch'
  <2>1. registry \in [Proc -> SUBSET RecordType] /\ CallOK'
    BY <1>1, <1>2 DEF KernelInv, RegistryOK, CallOK
  <2> QED
    BY <1>1, <1>2, <1>6, <2>1, AdminKernel
<1>8. Preparing'
  <2>1. Follows(p, a)'
    BY <1>2, <1>3, <1>4, <1>5 DEF Follows, Plan
  <2>2. ASSUME NEW q \in Proc, NEW c \in Admission, q # p \/ c # a, prepared'[q][c] # None
        PROVE  Follows(q, c)'
    BY <1>1, <1>2, <1>5, <2>2 DEF Preparing, Follows
  <2>3. \A q \in Proc : inspected'[q] \subseteq inspected[q]
    BY <1>1, <1>2 DEF EpochTypes
  <2> QED
    BY <1>1, <1>2, <2>1, <2>2, <2>3 DEF Preparing
<1>9. Activating'
  <2>1. activating[p] = None
    BY <1>1, <1>2 DEF Activating
  <2>2. ASSUME NEW q \in Proc, activating[q] # None PROVE Checked(q, activating[q])'
    <3>1. q # p /\ activating[q] \in Admission /\ Checked(q, activating[q])
      BY <1>1, <2>1, <2>2 DEF Activating, EpochTypes
    <3> QED
      BY <1>2, <1>5, <3>1 DEF Checked, HeadRef
  <2> QED
    BY <1>1, <1>2, <2>2 DEF Activating
<1>10. HoldersBehind' /\ BindingMatchesHead'
  BY <1>1, <1>2 DEF HoldersBehind, Behind, BindingMatchesHead, HeadWorld, HeadRef
<1> QED
  BY <1>6, <1>7, <1>8, <1>9, <1>10 DEF FullInv, EpochInv

\* A preparation that a commit relies on does not lapse.
LEMMA LapseKeeps ==
    ASSUME FullInv, NEW p \in Proc, NEW a \in Admission, PreparationLapses(p, a)
    PROVE  FullInv'
<1>1. /\ KernelInv /\ ChainInv /\ EpochTypes /\ HoldersBehind /\ Preparing /\ Activating
      /\ OfOneEpoch /\ BindingMatchesHead
  BY DEF FullInv, EpochInv
<1>2. /\ activating[p] # a /\ prepared' = [prepared EXCEPT ![p][a] = None]
      /\ UNCHANGED <<history, log, binding, locks, registry, call, issued, life, seen, holder>>
      /\ UNCHANGED <<plan, inspected, journal, activating>>
  BY DEF PreparationLapses, kernelVars
<1>3. EpochTypes'
  BY <1>1, <1>2 DEF EpochTypes
<1>4. KernelInv' /\ ChainInv' /\ OfOneEpoch'
  <2>1. registry \in [Proc -> SUBSET RecordType] /\ CallOK'
    BY <1>1, <1>2 DEF KernelInv, RegistryOK, CallOK
  <2> QED
    BY <1>1, <1>2, <1>3, <2>1, AdminKernel
<1>5. /\ prepared'[p][a] = None
      /\ \A q \in Proc, c \in Admission : (q # p \/ c # a) => prepared'[q][c] = prepared[q][c]
  BY <1>1, <1>2 DEF EpochTypes
<1>6. Preparing'
  <2>1. ASSUME NEW q \in Proc, NEW c \in Admission, prepared'[q][c] # None
        PROVE  Follows(q, c)'
    BY <1>1, <1>2, <1>5, <2>1 DEF Preparing, Follows
  <2> QED
    BY <1>1, <1>2, <2>1 DEF Preparing
<1>7. Activating'
  <2>1. ASSUME NEW q \in Proc, activating[q] # None PROVE Checked(q, activating[q])'
    <3>1. activating[q] \in Admission /\ Checked(q, activating[q])
      BY <1>1, <2>1 DEF Activating, EpochTypes
    <3>2. prepared'[q][activating[q]] = prepared[q][activating[q]]
      BY <1>2, <1>5, <3>1
    <3> QED
      BY <1>2, <3>1, <3>2 DEF Checked, HeadRef
  <2> QED
    BY <1>1, <1>2, <2>1 DEF Activating
<1>8. HoldersBehind' /\ BindingMatchesHead'
  BY <1>1, <1>2 DEF HoldersBehind, Behind, BindingMatchesHead, HeadWorld, HeadRef
<1> QED
  BY <1>3, <1>4, <1>6, <1>7, <1>8 DEF FullInv, EpochInv

\* Commit, up to its swap.
LEMMA ValidateKeeps ==
    ASSUME FullInv, NEW p \in Proc, NEW a \in Admission, EpochValidate(p, a)
    PROVE  FullInv'
<1>1. /\ KernelInv /\ ChainInv /\ EpochTypes /\ HoldersBehind /\ Preparing /\ Activating
      /\ OfOneEpoch /\ BindingMatchesHead
  BY DEF FullInv, EpochInv
<1>2. /\ prepared[p][a] # None /\ PlanCurrent(p, a) /\ SessionsQuiescent(HeadWorld)
      /\ registry' = Forgotten(p)
      /\ call' = [call EXCEPT ![p] = [step |-> "activate", ticket |-> None, head |-> HeadRef]]
      /\ activating' = [activating EXCEPT ![p] = a]
      /\ UNCHANGED <<history, log, binding, locks, issued, life, seen, holder>>
      /\ UNCHANGED <<plan, inspected, prepared, journal>>
  BY DEF EpochValidate, Quiescent
<1>3. EpochTypes'
  BY <1>1, <1>2 DEF EpochTypes
<1>4. HeadRef \in Nat /\ HeadRef > 0
  BY <1>1, HeadTyped DEF KernelInv
<1>5. KernelInv' /\ ChainInv' /\ OfOneEpoch'
  <2>1. CallOK'
    BY <1>1, <1>2, <1>4 DEF KernelInv, CallOK, Call, Step
  <2>2. /\ registry' \in [Proc -> SUBSET RecordType]
        /\ \A q \in Proc : registry'[q] \subseteq registry[q]
    BY <1>1, <1>2 DEF KernelInv, RegistryOK, Forgotten
  <2> QED
    BY <1>1, <1>2, <1>3, <2>1, <2>2, AdminKernel
<1>6. /\ call'[p].step = "activate" /\ call'[p].head = HeadRef /\ activating'[p] = a
      /\ \A q \in Proc \ {p} : call'[q] = call[q] /\ activating'[q] = activating[q]
  BY <1>1, <1>2 DEF KernelInv, CallOK, EpochTypes
<1>7. Activating'
  <2>1. Checked(p, a)'
    <3>1. /\ plan[a].generation = holder[p].generation
          /\ plan[a].epoch = holder[p].epoch
          /\ plan[a].epoch = HeadWorld.epoch
      BY <1>2 DEF PlanCurrent
    <3>2. HeadRef' = HeadRef /\ HeadRef \in 1..HeadRef
      BY <1>2, <1>4 DEF HeadRef
    <3>3. history'[call'[p].head] = HeadWorld
      BY <1>2, <1>6 DEF HeadWorld
    <3> QED
      BY <1>2, <1>6, <3>1, <3>2, <3>3 DEF Checked
  <2>2. a # None
    BY AdmissionAssumption
  <2>3. ASSUME NEW q \in Proc \ {p}, activating[q] # None PROVE Checked(q, activating[q])'
    <3>1. Checked(q, activating[q])
      BY <1>1, <2>3 DEF Activating
    <3> QED
      BY <1>2, <1>6, <3>1 DEF Checked, HeadRef
  <2> QED
    BY <1>1, <1>6, <2>1, <2>2, <2>3 DEF Activating
<1>8. Preparing' /\ HoldersBehind' /\ BindingMatchesHead'
  BY <1>1, <1>2 DEF Preparing, Follows, HoldersBehind, Behind, BindingMatchesHead, HeadWorld,
                    HeadRef
<1> QED
  BY <1>3, <1>5, <1>7, <1>8 DEF FullInv, EpochInv

\* Recovery: what p takes up is the durable binding or leaves p further on.
LEMMA RecoverKeeps ==
    ASSUME FullInv, NEW p \in Proc, NEW a \in Admission, Recover(p, a)
    PROVE  FullInv' /\ holder'[p] = binding /\ \A q \in Proc \ {p} : holder'[q] = holder[q]
<1>1. /\ KernelInv /\ ChainInv /\ EpochTypes /\ HoldersBehind /\ Preparing /\ Activating
      /\ OfOneEpoch /\ BindingMatchesHead
  BY DEF FullInv, EpochInv
<1>2. /\ call[p].step = "idle" /\ Recoverable(p, a)
      /\ holder' = [holder EXCEPT ![p] = IF journal[p][a] # None THEN journal[p][a] ELSE binding]
      /\ UNCHANGED <<history, log, binding, locks, registry, call, issued, life, seen>>
      /\ UNCHANGED <<plan, inspected, prepared, journal, activating>>
  BY DEF Recover, epochVars
<1>3. binding.epoch \in Nat /\ binding.generation \in Nat
  BY <1>1 DEF EpochTypes, Binding
<1>4. journal[p][a] # None => journal[p][a] = binding
  BY <1>1, <1>2, <1>3 DEF HoldersBehind, Behind, Recoverable, BindingMatchesHead
<1>5. holder'[p] = binding /\ \A q \in Proc \ {p} : holder'[q] = holder[q]
  BY <1>1, <1>2, <1>4 DEF EpochTypes
<1>6. EpochTypes'
  BY <1>1, <1>2, <1>4 DEF EpochTypes
<1>7. KernelInv' /\ ChainInv' /\ OfOneEpoch'
  <2>1. registry \in [Proc -> SUBSET RecordType] /\ CallOK'
    BY <1>1, <1>2 DEF KernelInv, RegistryOK, CallOK
  <2> QED
    BY <1>1, <1>2, <1>6, <2>1, AdminKernel
<1>8. HoldersBehind' /\ BindingMatchesHead'
  BY <1>1, <1>2, <1>5 DEF HoldersBehind, Behind, BindingMatchesHead, HeadWorld, HeadRef
<1>9. holder[p].generation \in Nat /\ holder[p].generation <= binding.generation
  BY <1>1, <1>3 DEF HoldersBehind, Behind, EpochTypes, Binding
<1>10. Preparing'
  <2>1. ASSUME NEW q \in Proc, NEW c \in Admission, c \in inspected[q]
        PROVE  plan[c] # None /\ plan[c].generation <= holder'[q].generation
    <3>1. plan[c] # None /\ plan[c] \in Plan /\ plan[c].generation <= holder[q].generation
      BY <1>1, <2>1 DEF Preparing, EpochTypes
    <3> QED
      BY <1>3, <1>5, <1>9, <3>1 DEF Plan
  <2>2. ASSUME NEW q \in Proc, NEW c \in Admission, prepared[q][c] # None
        PROVE  Follows(q, c)'
    <3>1. Follows(q, c) /\ prepared[q][c].generation \in Nat
      BY <1>1, <2>2 DEF Preparing, EpochTypes, Binding
    <3> QED
      BY <1>2, <1>3, <1>5, <1>9, <3>1 DEF Follows
  <2> QED
    BY <1>2, <2>1, <2>2 DEF Preparing
<1>11. Activating'
  <2>1. ASSUME NEW q \in Proc, activating[q] # None PROVE Checked(q, activating[q])'
    <3>1. Checked(q, activating[q]) /\ q # p
      BY <1>1, <1>2, <2>1 DEF Activating
    <3> QED
      BY <1>2, <1>5, <3>1 DEF Checked, HeadRef
  <2> QED
    BY <1>1, <1>2, <2>1 DEF Activating
<1> QED
  BY <1>5, <1>6, <1>7, <1>8, <1>10, <1>11 DEF FullInv, EpochInv

\* A later epoch is a world, and an advance.
LEMMA EpochAdvances ==
    ASSUME NEW w \in World, NEW e \in Nat, e > w.epoch
    PROVE  /\ WithEpoch(w, e) \in World /\ WithEpoch(w, e).epoch = e
           /\ \A v \in World : Advanced(v, w) =>
                 Advanced(v, WithEpoch(w, e)) /\ Moved(v, WithEpoch(w, e))
<1> DEFINE x == WithEpoch(w, e)
<1>1. x = [w EXCEPT !.epoch = e] /\ x.epoch = e /\ x.audit = w.audit
  BY WorldFields DEF WithEpoch, World
<1>2. x \in World
  BY <1>1, WorldFields DEF World
<1> HIDE DEF x
<1>3. ASSUME NEW v \in World, Advanced(v, w)
      PROVE  Advanced(v, x) /\ Moved(v, x)
  <2>1. v.epoch \in Nat /\ w.epoch \in Nat /\ w.epoch >= v.epoch
    BY <1>3, WorldFields DEF Advanced
  <2>2. w = [v EXCEPT !.audit = w.audit, !.epoch = w.epoch]
    BY <1>3 DEF Advanced
  <2>3. x = [v EXCEPT !.audit = x.audit, !.epoch = x.epoch]
    BY <1>1, <2>2, WorldFields
  <2> QED
    BY <1>1, <1>3, <2>1, <2>3 DEF Advanced, Moved
<1> QED
  BY <1>1, <1>2, <1>3 DEF x

\* What a commit stores follows the durable binding directly: its process holds
\* that one, or the head would be of another epoch than the one it read.
LEMMA SwapFollows ==
    ASSUME FullInv, NEW p \in Proc, EpochSwap(p), StoreAccepts(call[p].head),
           NEW b, b = prepared[p][activating[p]]
    PROVE  /\ holder[p] = binding /\ b \in Binding
           /\ b.generation = binding.generation + 1 /\ b.epoch = binding.epoch + 1
           /\ binding' = b /\ holder' = [holder EXCEPT ![p] = b]
           /\ history' = Append(history, WithEpoch(HeadWorld, b.epoch))
           /\ journal' = [journal EXCEPT ![p][activating[p]] = b]
           /\ prepared' = [prepared EXCEPT ![p][activating[p]] = None]
           /\ activating[p] \in Admission /\ SessionsQuiescent(HeadWorld)
<1> DEFINE a == activating[p]
<1>1. /\ EpochTypes /\ HoldersBehind /\ Preparing /\ Activating /\ BindingMatchesHead
  BY DEF FullInv, EpochInv
<1>2. /\ StoreEpoch(call[p].head, b) /\ holder' = [holder EXCEPT ![p] = b]
      /\ journal' = [journal EXCEPT ![p][a] = b] /\ prepared' = [prepared EXCEPT ![p][a] = None]
      /\ call[p].step = "activate" /\ call[p].head = HeadRef
  BY DEF EpochSwap, Adopted, StoreAccepts
<1>3. a \in Admission /\ Checked(p, a)
  BY <1>1, <1>2 DEF Activating, EpochTypes
<1>4. /\ plan[a].generation = holder[p].generation /\ plan[a].epoch = holder[p].epoch
      /\ HeadWorld.epoch = plan[a].epoch /\ SessionsQuiescent(HeadWorld)
      /\ prepared[p][a] # None
  BY <1>2, <1>3 DEF Checked, HeadWorld
<1>5. b \in Binding /\ Follows(p, a)
  BY <1>1, <1>3, <1>4 DEF EpochTypes, Preparing
<1>6. holder[p] = binding
  BY <1>1, <1>4 DEF HoldersBehind, Behind, BindingMatchesHead, EpochTypes, Binding
<1>7. b.generation = binding.generation + 1 /\ b.epoch = binding.epoch + 1
  <2>1. binding.generation \in Nat /\ b.generation \in Nat
    BY <1>1, <1>5 DEF EpochTypes, Binding
  <2> QED
    BY <1>4, <1>5, <1>6, <2>1 DEF Follows
<1> QED
  BY <1>2, <1>3, <1>4, <1>5, <1>6, <1>7 DEF StoreEpoch, HeadWorld

\* A commit whose swap came too late changes nothing but its own standing.
LEMMA SwapRefused ==
    ASSUME FullInv, NEW p \in Proc, EpochSwap(p), ~ StoreAccepts(call[p].head)
    PROVE  FullInv' /\ UNCHANGED <<history, log, binding, holder>>
<1>1. /\ KernelInv /\ ChainInv /\ EpochTypes /\ HoldersBehind /\ Preparing /\ Activating
      /\ OfOneEpoch /\ BindingMatchesHead
  BY DEF FullInv, EpochInv
<1>2. /\ call' = [call EXCEPT ![p] = Idle]
      /\ activating' = [activating EXCEPT ![p] = None]
      /\ UNCHANGED <<history, log, binding, locks, registry, issued, life, seen, holder>>
      /\ UNCHANGED <<plan, inspected, prepared, journal>>
  BY DEF EpochSwap, Adopted
<1>3. EpochTypes'
  BY <1>1, <1>2 DEF EpochTypes
<1>4. KernelInv' /\ ChainInv' /\ OfOneEpoch'
  <2>1. registry \in [Proc -> SUBSET RecordType] /\ CallOK'
    BY <1>1, <1>2 DEF KernelInv, RegistryOK, CallOK, Idle, Call, Step
  <2> QED
    BY <1>1, <1>2, <1>3, <2>1, AdminKernel
<1>5. /\ call'[p].step = "idle" /\ activating'[p] = None
      /\ \A q \in Proc \ {p} : call'[q] = call[q] /\ activating'[q] = activating[q]
  BY <1>1, <1>2 DEF KernelInv, CallOK, EpochTypes, Idle
<1>6. Activating'
  <2>1. ASSUME NEW q \in Proc \ {p}, activating[q] # None PROVE Checked(q, activating[q])'
    <3>1. Checked(q, activating[q])
      BY <1>1, <2>1 DEF Activating
    <3> QED
      BY <1>2, <1>5, <3>1 DEF Checked, HeadRef
  <2> QED
    BY <1>1, <1>5, <2>1 DEF Activating
<1>7. Preparing' /\ HoldersBehind' /\ BindingMatchesHead'
  BY <1>1, <1>2 DEF Preparing, Follows, HoldersBehind, Behind, BindingMatchesHead, HeadWorld,
                    HeadRef
<1> QED
  BY <1>2, <1>3, <1>4, <1>6, <1>7 DEF FullInv, EpochInv

\* A commit whose swap succeeds: the runtime's invariant.
LEMMA SwapKernel ==
    ASSUME FullInv, NEW p \in Proc, EpochSwap(p), StoreAccepts(call[p].head)
    PROVE  KernelInv' /\ ChainInv' /\ OfOneEpoch' /\ BindingMatchesHead'
<1> DEFINE b == prepared[p][activating[p]]
           w == WithEpoch(HeadWorld, b.epoch)
<1>1. /\ KernelInv /\ ChainInv /\ EpochTypes /\ OfOneEpoch /\ BindingMatchesHead
  BY DEF FullInv, EpochInv
<1>2. /\ b \in Binding /\ b.epoch = binding.epoch + 1 /\ binding' = b
      /\ holder' = [holder EXCEPT ![p] = b]
      /\ history' = Append(history, w)
  BY SwapFollows
<1> HIDE DEF b
<1>3. HeadRef \in Nat /\ HeadWorld \in World /\ HeadWorld.epoch = binding.epoch
      /\ binding.epoch \in Nat /\ b.epoch \in Nat
  BY <1>1, <1>2, HeadTyped DEF KernelInv, BindingMatchesHead, EpochTypes, Binding
<1>4. /\ w \in World /\ w.epoch = b.epoch
      /\ \A v \in World : Advanced(v, HeadWorld) => Advanced(v, w) /\ Moved(v, w)
  BY <1>2, <1>3, EpochAdvances
<1> HIDE DEF w
<1>5. /\ log' = log /\ UNCHANGED <<locks, registry, issued, life, seen>>
      /\ call' = [call EXCEPT ![p] = Idle]
  BY DEF EpochSwap
<1>6. /\ HistoryOK' /\ HeadRef' = HeadRef + 1 /\ HeadWorld' = w
      /\ \A i \in 1..HeadRef : history'[i] = history[i]
  BY <1>1, <1>2, <1>4, StoreGrows DEF KernelInv
<1>7. KernelInv'
  <2>1. RegistryOK'
    BY <1>1, <1>2, <1>4, <1>5, StoreKeepsRecords DEF KernelInv
  <2>2. LogOK'
    BY <1>1, <1>2, <1>4, <1>5, StoreKeepsLog DEF KernelInv
  <2>3. LocksOK' /\ ProcessOK' /\ CallOK'
    BY <1>1, <1>5 DEF KernelInv, LocksOK, ProcessOK, CallOK, Idle, Call, Step
  <2>4. HolderOK'
    BY <1>1, <1>2, <1>3 DEF HolderOK, KernelInv
  <2> QED
    BY <1>6, <2>1, <2>2, <2>3, <2>4 DEF KernelInv
<1>8. ChainInv'
  <2>1. ASSUME log # << >>
        PROVE  LET last == log[Len(log)].after IN
               Advanced(history'[last], w) /\ Moved(history'[last], w)
    <3> DEFINE last == log[Len(log)].after
    <3>1. last \in 1..HeadRef
      BY <1>1, <2>1 DEF KernelInv, LogOK
    <3>2. history'[last] = history[last] /\ history[last] \in World
      BY <1>1, <1>6, <3>1, HeadTyped DEF KernelInv
    <3>3. Advanced(history[last], HeadWorld)
      BY <1>1, <2>1 DEF ChainInv
    <3> QED
      BY <1>4, <3>2, <3>3
  <2> QED
    BY <1>5, <1>6, <2>1 DEF ChainInv
<1>9. OfOneEpoch'
  <2>1. \A q \in Proc : \A r \in registry'[q] :
           \E y \in registry[q] : r.before = y.before /\ r.schema = y.schema
    BY <1>5
  <2> QED
    BY <1>1, <1>2, <1>4, <1>5, <2>1, OneEpochKept
<1> QED
  BY <1>2, <1>4, <1>6, <1>7, <1>8, <1>9 DEF BindingMatchesHead

LEMMA SwapKeeps ==
    ASSUME FullInv, NEW p \in Proc, EpochSwap(p)
    PROVE  FullInv'
<1>1. CASE ~ StoreAccepts(call[p].head)
  BY <1>1, SwapRefused
<1>2. CASE StoreAccepts(call[p].head)
  <2> DEFINE a == activating[p]
             b == prepared[p][a]
  <2>1. /\ KernelInv /\ EpochTypes /\ HoldersBehind /\ Preparing /\ Activating
    BY DEF FullInv, EpochInv
  <2>2. /\ holder[p] = binding /\ b \in Binding /\ a \in Admission
        /\ b.generation = binding.generation + 1 /\ b.epoch = binding.epoch + 1
        /\ binding' = b /\ holder' = [holder EXCEPT ![p] = b]
        /\ history' = Append(history, WithEpoch(HeadWorld, b.epoch))
        /\ journal' = [journal EXCEPT ![p][a] = b]
        /\ prepared' = [prepared EXCEPT ![p][a] = None]
    BY <1>2, SwapFollows
  <2>3. KernelInv' /\ ChainInv' /\ OfOneEpoch' /\ BindingMatchesHead'
    BY <1>2, SwapKernel
  <2>4. /\ call' = [call EXCEPT ![p] = Idle] /\ activating' = [activating EXCEPT ![p] = None]
        /\ UNCHANGED <<plan, inspected>>
    BY DEF EpochSwap
  <2> HIDE DEF a, b
  <2>5. /\ binding.generation \in Nat /\ binding.epoch \in Nat
        /\ b.generation \in Nat /\ b.epoch \in Nat
    BY <2>1, <2>2 DEF EpochTypes, Binding
  <2>6. /\ holder'[p] = b /\ \A q \in Proc \ {p} : holder'[q] = holder[q]
        /\ journal'[p][a] = b /\ prepared'[p][a] = None
        /\ \A q \in Proc, c \in Admission : (q # p \/ c # a) =>
              journal'[q][c] = journal[q][c] /\ prepared'[q][c] = prepared[q][c]
        /\ call'[p].step = "idle" /\ activating'[p] = None
        /\ \A q \in Proc \ {p} : call'[q] = call[q] /\ activating'[q] = activating[q]
    BY <2>1, <2>2, <2>4 DEF KernelInv, CallOK, EpochTypes, Idle
  <2>7. EpochTypes'
    BY <2>1, <2>2, <2>4 DEF EpochTypes
  <2> DEFINE Within(x) ==
        x = binding' \/ (x.generation < binding'.generation /\ x.epoch < binding'.epoch)
  <2>8. \A x \in Binding : Behind(x) => Within(x)
    BY <2>2, <2>5 DEF Behind, Binding
  <2>9. HoldersBehind'
    <3>1. Within(b)
      BY <2>2
    <3>2. \A q \in Proc : Within(holder'[q])
      BY <2>1, <2>6, <2>8, <3>1 DEF HoldersBehind, EpochTypes
    <3>3. ASSUME NEW q \in Proc, NEW c \in Admission, journal'[q][c] # None
          PROVE  Within(journal'[q][c])
      <4>1. CASE q = p /\ c = a
        BY <2>6, <3>1, <4>1
      <4>2. CASE q # p \/ c # a
        <5>1. journal'[q][c] = journal[q][c]
          BY <2>6, <4>2
        <5>2. journal[q][c] \in Binding /\ Behind(journal[q][c])
          BY <2>1, <3>3, <5>1 DEF HoldersBehind, EpochTypes
        <5> QED
          BY <2>8, <5>1, <5>2
      <4> QED
        BY <4>1, <4>2
    <3> QED
      BY <3>2, <3>3 DEF HoldersBehind, Behind
  <2>10. \A q \in Proc : /\ holder[q].generation \in Nat /\ holder'[q].generation \in Nat
                         /\ holder[q].generation <= holder'[q].generation
    BY <2>1, <2>2, <2>5, <2>6 DEF EpochTypes, Binding
  <2>11. Preparing'
    <3>1. ASSUME NEW q \in Proc, NEW c \in Admission, c \in inspected[q]
          PROVE  plan[c] # None /\ plan[c].generation <= holder'[q].generation
      <4>1. plan[c] # None /\ plan[c] \in Plan /\ plan[c].generation <= holder[q].generation
        BY <2>1, <3>1 DEF Preparing, EpochTypes
      <4> QED
        BY <2>10, <4>1 DEF Plan
    <3>2. ASSUME NEW q \in Proc, NEW c \in Admission, prepared'[q][c] # None
          PROVE  Follows(q, c)'
      <4>1. prepared'[q][c] = prepared[q][c]
        BY <2>6, <3>2
      <4>2. Follows(q, c) /\ prepared[q][c].generation \in Nat
        BY <2>1, <3>2, <4>1 DEF Preparing, EpochTypes, Binding
      <4> QED
        BY <2>4, <2>10, <4>1, <4>2 DEF Follows
    <3> QED
      BY <2>4, <3>1, <3>2 DEF Preparing
  <2>12. \A i \in 1..HeadRef : i \in 1..HeadRef' /\ history'[i] = history[i]
    <3>1. HeadWorld \in World /\ WithEpoch(HeadWorld, b.epoch) \in World
      BY <2>1, <2>5, HeadTyped, WorldFields DEF KernelInv, WithEpoch, World
    <3> QED
      BY <2>1, <2>2, <3>1, OldStays DEF KernelInv
  <2>13. Activating'
    <3>1. ASSUME NEW q \in Proc \ {p}, activating[q] # None PROVE Checked(q, activating[q])'
      <4>1. Checked(q, activating[q]) /\ activating[q] \in Admission
        BY <2>1, <3>1 DEF Activating, EpochTypes
      <4>2. prepared'[q][activating[q]] = prepared[q][activating[q]]
        BY <2>6, <4>1
      <4> QED
        BY <2>4, <2>6, <2>12, <4>1, <4>2 DEF Checked
    <3> QED
      BY <2>1, <2>6, <3>1 DEF Activating
  <2> QED
    BY <2>3, <2>7, <2>9, <2>11, <2>13 DEF FullInv, EpochInv
<1> QED
  BY <1>1, <1>2

\* A crash forgets preparations and journal; the rest is a crash of the runtime.
LEMMA CrashKeeps ==
    ASSUME FullInv, NEW p \in Proc, EpochCrash(p)
    PROVE  FullInv'
<1>1. /\ KernelInv /\ ChainInv /\ EpochTypes /\ HoldersBehind /\ Preparing /\ Activating
      /\ OfOneEpoch /\ BindingMatchesHead
  BY DEF FullInv, EpochInv
<1>2. /\ call' = [call EXCEPT ![p] = Down]
      /\ registry' = [registry EXCEPT ![p] = {}]
      /\ inspected' = [inspected EXCEPT ![p] = {}]
      /\ prepared' = [prepared EXCEPT ![p] = Nothing]
      /\ journal' = [journal EXCEPT ![p] = Nothing]
      /\ activating' = [activating EXCEPT ![p] = None]
      /\ UNCHANGED <<history, log, binding, locks, issued, life, seen, holder, plan>>
  BY DEF EpochCrash, Crash
<1>3. EpochTypes'
  BY <1>1, <1>2 DEF EpochTypes, Nothing
<1>4. KernelInv' /\ ChainInv' /\ OfOneEpoch'
  <2>1. /\ registry' \in [Proc -> SUBSET RecordType] /\ CallOK'
        /\ \A q \in Proc : registry'[q] \subseteq registry[q]
    BY <1>1, <1>2 DEF KernelInv, RegistryOK, CallOK, Down, Idle, Call, Step
  <2> QED
    BY <1>1, <1>2, <1>3, <2>1, AdminKernel
<1>5. /\ call'[p].step = "down" /\ activating'[p] = None
      /\ inspected'[p] = {} /\ prepared'[p] = Nothing /\ journal'[p] = Nothing
      /\ \A q \in Proc \ {p} :
            /\ call'[q] = call[q] /\ activating'[q] = activating[q]
            /\ inspected'[q] = inspected[q] /\ prepared'[q] = prepared[q]
            /\ journal'[q] = journal[q]
  BY <1>1, <1>2 DEF KernelInv, CallOK, EpochTypes, Down, Idle
<1>6. HoldersBehind' /\ BindingMatchesHead'
  BY <1>1, <1>2, <1>5 DEF HoldersBehind, Behind, Nothing, BindingMatchesHead, HeadWorld, HeadRef
<1>7. Preparing'
  <2>1. ASSUME NEW q \in Proc, NEW c \in Admission, prepared'[q][c] # None
        PROVE  Follows(q, c)'
    BY <1>1, <1>2, <1>5, <2>1 DEF Preparing, Follows, Nothing
  <2>2. ASSUME NEW q \in Proc, NEW c \in Admission, c \in inspected'[q]
        PROVE  plan[c] # None /\ plan[c].generation <= holder[q].generation
    BY <1>1, <1>5, <2>2 DEF Preparing
  <2> QED
    BY <1>2, <2>1, <2>2 DEF Preparing
<1>8. Activating'
  <2>1. ASSUME NEW q \in Proc \ {p}, activating[q] # None PROVE Checked(q, activating[q])'
    <3>1. Checked(q, activating[q])
      BY <1>1, <2>1 DEF Activating
    <3> QED
      BY <1>2, <1>5, <3>1 DEF Checked, HeadRef
  <2> QED
    BY <1>1, <1>5, <2>1 DEF Activating
<1> QED
  BY <1>3, <1>4, <1>6, <1>7, <1>8 DEF FullInv, EpochInv

LEMMA RuntimeKeeps ==
    ASSUME FullInv, KernelStep, UNCHANGED epochVars
    PROVE  FullInv'
<1>1. KernelInv /\ ChainInv /\ EpochInv /\ EpochTypes
  BY DEF FullInv, EpochInv
<1>2. KernelNext
  BY DEF KernelNext
<1>3. KernelInv' /\ ChainInv'
  BY <1>1, <1>2, StepKeeps, StepChain
<1>4. KernelEffect
  BY <1>1, RuntimeEffect
<1>5. EpochTypes' /\ HoldersBehind' /\ Preparing' /\ Activating' /\ BindingMatchesHead'
  BY <1>1, <1>4, EffectKeeps
<1>6. OfOneEpoch'
  BY <1>1, RuntimeOneEpoch
<1> QED
  BY <1>3, <1>5, <1>6 DEF FullInv, EpochInv

LEMMA EpochStepKeeps ==
    ASSUME FullInv, [EpochNext]_vars
    PROVE  FullInv'
<1>1. CASE KernelStep /\ UNCHANGED epochVars
  BY <1>1, RuntimeKeeps
<1>2. ASSUME NEW p \in Proc, NEW a \in Admission, EpochStep(p, a)
      PROVE  FullInv'
  <2>1. CASE Submit(p, a)
    BY <2>1, SubmitKeeps
  <2>2. CASE PrepareInspect(p, a)
    BY <2>2, InspectKeeps
  <2>3. CASE PrepareStore(p, a)
    BY <2>3, StoreKeeps
  <2>4. CASE PreparationLapses(p, a)
    BY <2>4, LapseKeeps
  <2>5. CASE EpochValidate(p, a)
    BY <2>5, ValidateKeeps
  <2>6. CASE Recover(p, a)
    BY <2>6, RecoverKeeps
  <2> QED
    BY <1>2, <2>1, <2>2, <2>3, <2>4, <2>5, <2>6 DEF EpochStep
<1>3. ASSUME NEW p \in Proc, EpochSwap(p) PROVE FullInv'
  BY <1>3, SwapKeeps
<1>4. ASSUME NEW p \in Proc, EpochCrash(p) PROVE FullInv'
  BY <1>4, CrashKeeps
<1>5. CASE UNCHANGED vars
  <2>1. /\ KernelInv /\ ChainInv /\ EpochTypes /\ HoldersBehind /\ Preparing /\ Activating
        /\ OfOneEpoch /\ BindingMatchesHead
    BY DEF FullInv, EpochInv
  <2>2. /\ UNCHANGED <<history, log, binding, locks, registry, call, issued, life, seen, holder>>
        /\ UNCHANGED <<plan, inspected, prepared, journal, activating>>
    BY <1>5 DEF vars, kernelVars, epochVars
  <2>3. EpochTypes'
    BY <2>1, <2>2 DEF EpochTypes
  <2>4. KernelInv' /\ ChainInv' /\ OfOneEpoch'
    <3>1. registry \in [Proc -> SUBSET RecordType] /\ CallOK'
      BY <2>1, <2>2 DEF KernelInv, RegistryOK, CallOK
    <3> QED
      BY <2>1, <2>2, <2>3, <3>1, AdminKernel
  <2>5. HoldersBehind' /\ Preparing' /\ Activating' /\ BindingMatchesHead'
    BY <2>1, <2>2 DEF HoldersBehind, Behind, Preparing, Follows, Activating, Checked,
                      BindingMatchesHead, HeadWorld, HeadRef
  <2> QED
    BY <2>3, <2>4, <2>5 DEF FullInv, EpochInv
<1> QED
  BY <1>1, <1>2, <1>3, <1>4, <1>5 DEF EpochNext

LEMMA EpochInitInv == EpochInit => FullInv
<1> SUFFICES ASSUME EpochInit PROVE FullInv
  OBVIOUS
<1>1. KernelInv /\ ChainInv
  BY InitInv DEF EpochInit, KernelInit, ChainInv
<1>2. /\ history = <<Genesis>> /\ log = << >>
      /\ binding = [generation |-> 1, epoch |-> 1, admission |-> None]
      /\ registry = [p \in Proc |-> {}] /\ call = [p \in Proc |-> Idle]
      /\ holder = [p \in Proc |-> binding] /\ plan = Nothing
      /\ inspected = [p \in Proc |-> {}]
      /\ prepared = [p \in Proc |-> Nothing] /\ journal = [p \in Proc |-> Nothing]
      /\ activating = [p \in Proc |-> None]
  BY DEF EpochInit, KernelInit
<1>3. EpochTypes
  BY <1>2 DEF EpochTypes, Binding, Nothing
<1>4. HoldersBehind /\ Preparing /\ Activating
  BY <1>2 DEF HoldersBehind, Behind, Preparing, Nothing, Activating, Idle
<1>5. OfOneEpoch
  BY <1>2 DEF OfOneEpoch, ChangeWithinEpoch
<1>6. BindingMatchesHead
  <2>1. HeadWorld = Genesis
    BY <1>2 DEF HeadWorld, HeadRef
  <2>2. Genesis.epoch = 1
    BY DEF Genesis
  <2> QED
    BY <1>2, <2>1, <2>2 DEF BindingMatchesHead
<1> QED
  BY <1>1, <1>3, <1>4, <1>5, <1>6 DEF FullInv, EpochInv

LEMMA EpochInvariance == EpochSpec => []FullInv
  BY EpochInitInv, EpochStepKeeps, PTL DEF EpochSpec

-----------------------------------------------------------------------------
(* What epoch administration guarantees.                                   *)

\* The head and its binding are one durable fact through every activation, lost
\* swap, crash and recovery (compareAndSwapHeadWithBinding).
THEOREM HeadHasItsBinding == EpochSpec => []BindingMatchesHead
<1>1. FullInv => BindingMatchesHead
  BY DEF FullInv, EpochInv
<1> QED
  BY <1>1, EpochInvariance, PTL

\* The holders of an invariant state lag behind the durable binding.
LEMMA HoldersLag ==
    ASSUME FullInv
    PROVE  HolderNeverAhead
<1>1. EpochTypes /\ HoldersBehind
  BY DEF FullInv, EpochInv
<1>2. binding.generation \in Nat /\ \A p \in Proc : holder[p].generation \in Nat
  BY <1>1 DEF EpochTypes, Binding
<1> QED
  BY <1>1, <1>2 DEF HolderNeverAhead, HoldersBehind, Behind

\* A process lags behind the durable binding or holds exactly it, whatever was
\* prepared in parallel and whatever it recovered from its journal
\* (memoryEpochAdministration.ts).
THEOREM NobodyAhead == EpochSpec => []HolderNeverAhead
  BY HoldersLag, EpochInvariance, PTL

\* An operation is admitted, recomputed and stored within one epoch although
\* activations come between its admission and its commit (validatePreCommit).
THEOREM OneEpochPerChange == EpochSpec => []ChangeWithinEpoch
<1>1. FullInv => ChangeWithinEpoch
  BY DEF FullInv, EpochInv, OfOneEpoch
<1> QED
  BY <1>1, EpochInvariance, PTL

\* The log does not wedge across epochs either: activations and observations
\* since the last change leave the chain open (changeContinuesChain).
THEOREM NeverWedgesAcrossEpochs == EpochSpec => []HeadExtendsChain
<1>1. FullInv => HeadExtendsChain
  BY ChainOpen DEF FullInv
<1> QED
  BY <1>1, EpochInvariance, PTL

\* What one step does to the durable binding and to a holder.
LEMMA StepActivates ==
    ASSUME FullInv, [EpochNext]_vars
    PROVE  /\ binding' # binding => /\ binding'.generation = binding.generation + 1
                                    /\ binding'.epoch > binding.epoch
           /\ \A p \in Proc : holder'[p].generation >= holder[p].generation
<1>1. EpochTypes /\ HoldersBehind /\ KernelInv
  BY DEF FullInv, EpochInv
<1>2. /\ binding.generation \in Nat /\ binding.epoch \in Nat
      /\ \A p \in Proc : holder[p].generation \in Nat /\ holder[p].generation <= binding.generation
  <2>1. binding.generation \in Nat /\ binding.epoch \in Nat
        /\ \A p \in Proc : holder[p].generation \in Nat
    BY <1>1 DEF EpochTypes, Binding
  <2> QED
    BY <1>1, <2>1 DEF HoldersBehind, Behind
<1>3. CASE UNCHANGED <<binding, holder>>
  BY <1>2, <1>3
<1>4. CASE KernelStep
  <2>1. binding' = binding /\ \A p \in Proc : holder'[p] \in {holder[p], binding}
    BY <1>1, <1>4, RuntimeEffect DEF KernelEffect
  <2> QED
    BY <1>2, <2>1
<1>5. ASSUME NEW p \in Proc, NEW a \in Admission, Recover(p, a)
      PROVE  binding' = binding /\ \A q \in Proc : holder'[q].generation >= holder[q].generation
  <2>1. holder'[p] = binding /\ \A q \in Proc \ {p} : holder'[q] = holder[q]
    BY <1>5, RecoverKeeps
  <2>2. binding' = binding
    BY <1>5 DEF Recover
  <2> QED
    BY <1>2, <2>1, <2>2
<1>6. ASSUME NEW p \in Proc, EpochSwap(p), StoreAccepts(call[p].head)
      PROVE  /\ binding'.generation = binding.generation + 1 /\ binding'.epoch > binding.epoch
             /\ \A q \in Proc : holder'[q].generation >= holder[q].generation
  <2> DEFINE b == prepared[p][activating[p]]
  <2>1. /\ holder[p] = binding /\ b.generation = binding.generation + 1
        /\ b.epoch = binding.epoch + 1 /\ binding' = b /\ holder' = [holder EXCEPT ![p] = b]
    BY <1>6, SwapFollows
  <2> HIDE DEF b
  <2>2. holder'[p] = b /\ \A q \in Proc \ {p} : holder'[q] = holder[q]
    BY <1>1, <2>1 DEF EpochTypes
  <2> QED
    BY <1>2, <2>1, <2>2
<1>7. ASSUME NEW p \in Proc, EpochSwap(p), ~ StoreAccepts(call[p].head)
      PROVE  UNCHANGED <<binding, holder>>
  BY <1>7, SwapRefused
<1>8. ASSUME NEW p \in Proc, NEW a \in Admission, EpochStep(p, a), ~ Recover(p, a)
      PROVE  UNCHANGED <<binding, holder>>
  BY <1>8 DEF EpochStep, Submit, PrepareInspect, PrepareStore, PreparationLapses, EpochValidate,
              kernelVars
<1>9. ASSUME NEW p \in Proc, EpochCrash(p) PROVE UNCHANGED <<binding, holder>>
  BY <1>9 DEF EpochCrash, Crash
<1>10. CASE UNCHANGED vars
  BY <1>3, <1>10 DEF vars, kernelVars
<1> QED
  BY <1>3, <1>4, <1>5, <1>6, <1>7, <1>8, <1>9, <1>10 DEF EpochNext

\* No binding is activated twice and none is skipped, however the calls of several
\* processes interleave (commitEpochTransition).
THEOREM ActivatedInTurn == EpochSpec => GenerationsConsecutive
<1>1. FullInv /\ [EpochNext]_vars =>
        [binding' # binding =>
            binding'.generation = binding.generation + 1 /\ binding'.epoch > binding.epoch]_vars
  BY StepActivates
<1> QED
  BY <1>1, EpochInvariance, PTL DEF EpochSpec, GenerationsConsecutive

\* Neither recovery nor a late commit nor a restart puts a process back to an
\* older schema (recoverEpochTransition).
THEOREM NobodyTurnedBack == EpochSpec => HolderNeverRegresses
<1>1. FullInv /\ [EpochNext]_vars =>
        [\A p \in Proc : holder'[p].generation >= holder[p].generation]_vars
  BY StepActivates
<1> QED
  BY <1>1, EpochInvariance, PTL DEF EpochSpec, HolderNeverRegresses

-----------------------------------------------------------------------------
\* An activation is WorldHistory's: no session is open in the head it replaces.
LEMMA SwapImplements ==
    ASSUME FullInv, NEW p \in Proc, EpochSwap(p), StoreAccepts(call[p].head)
    PROVE  Abstract!Activate
<1> DEFINE b == prepared[p][activating[p]]
           w == WithEpoch(HeadWorld, b.epoch)
<1>1. KernelInv /\ EpochTypes /\ BindingMatchesHead
  BY DEF FullInv, EpochInv
<1>2. /\ b \in Binding /\ b.epoch = binding.epoch + 1
      /\ history' = Append(history, w) /\ SessionsQuiescent(HeadWorld)
  BY SwapFollows
<1> HIDE DEF b
<1>3. HeadWorld \in World /\ HeadWorld.epoch = binding.epoch /\ b.epoch \in Nat
      /\ b.epoch > HeadWorld.epoch
  BY <1>1, <1>2, HeadTyped DEF KernelInv, BindingMatchesHead, EpochTypes, Binding
<1>4. w \in World /\ w.epoch = b.epoch
  BY <1>3, EpochAdvances
<1>5. w = WithEpoch(HeadWorld, w.epoch)
  BY <1>4
<1> HIDE DEF w
<1>6. HeadWorld' = w
  BY <1>1, <1>2, <1>4, StoreGrows DEF KernelInv
<1>7. log' = log
  BY DEF EpochSwap
<1>8. \A v, e : Abstract!WithEpoch(v, e) = WithEpoch(v, e)
  BY DEF Abstract!WithEpoch, WithEpoch
<1>9. Abstract!SessionsQuiescent(HeadWorld)
  BY <1>2 DEF Abstract!SessionsQuiescent, SessionsQuiescent
<1> QED
  BY <1>3, <1>4, <1>5, <1>6, <1>7, <1>8, <1>9 DEF Abstract!Activate

\* A step of the runtime with its epochs is one of WorldHistory, or stores nothing.
LEMMA EpochImplements ==
    ASSUME FullInv, [EpochNext]_vars
    PROVE  [Abstract!Next]_<<HeadWorld, [i \in 1..Len(log) |-> log[i].op]>>
<1>1. CASE UNCHANGED <<history, log>>
  BY <1>1 DEF HeadWorld, HeadRef
<1>2. CASE KernelStep
  BY <1>2, StepImplements DEF FullInv, KernelNext
<1>3. ASSUME NEW p \in Proc, EpochSwap(p)
      PROVE  Abstract!Activate \/ UNCHANGED <<history, log>>
  BY <1>3, SwapImplements, SwapRefused
<1>4. ASSUME NEW p \in Proc, NEW a \in Admission, EpochStep(p, a)
      PROVE  UNCHANGED <<history, log>>
  BY <1>4 DEF EpochStep, Submit, PrepareInspect, PrepareStore, PreparationLapses,
              EpochValidate, Recover, kernelVars
<1>5. ASSUME NEW p \in Proc, EpochCrash(p) PROVE UNCHANGED <<history, log>>
  BY <1>5 DEF EpochCrash, Crash
<1>6. CASE UNCHANGED vars
  BY <1>1, <1>6 DEF vars, kernelVars
<1> QED
  BY <1>1, <1>2, <1>3, <1>4, <1>5, <1>6 DEF EpochNext, Abstract!Next

\* With epochs activated beside it the runtime still implements WorldHistory: an
\* activation is a step of its own between operations, and the operations of one
\* process never act on a world another one has moved past
\* (compareAndSwapHeadWithBinding, executeCommit).
THEOREM RefinementAcrossEpochs == EpochSpec => Linearizable
<1>1. EpochInit => Abstract!Init
  BY InitImplements DEF EpochInit
<1>2. ASSUME FullInv, [EpochNext]_vars
      PROVE  [Abstract!Next]_<<HeadWorld, [i \in 1..Len(log) |-> log[i].op]>>
  BY <1>2, EpochImplements
<1> QED
  BY <1>1, <1>2, EpochInvariance, PTL DEF EpochSpec, Linearizable, Abstract!Spec
-----------------------------------------------------------------------------
(* The change feed and replay: between changes there are unlogged advances *)
(* only, so every snapshot bridges to the next change.                     *)

\* A set of naturals that is not empty has a least element.
LEMMA LeastExists ==
    ASSUME NEW S \in SUBSET Nat, S # {}
    PROVE  \E i \in S : \A j \in S : i <= j
<1> DEFINE R == {ss \in Nat \X Nat : ss[1] < ss[2]}
<1>1. IsWellFoundedOn(R, Nat)
  BY NatLessThanWellFounded, Zenon DEF OpToRel
<1>2. \A x, y \in Nat : x < y => <<x, y>> \in R
  OBVIOUS
<1> HIDE DEF R
<1>3. PICK i \in S : \A j \in S : ~ (<<j, i>> \in R)
  BY <1>1, WFMin, Zenon
<1>4. \A j \in S : ~ (j < i)
  BY <1>2, <1>3
<1> QED
  BY <1>4

\* What Least chooses.
LEMMA LeastIsLeast ==
    ASSUME NEW S \in SUBSET Nat, S # {}
    PROVE  Least(S) \in S /\ \A j \in S : Least(S) <= j
  BY LeastExists DEF Least

\* Changes follow one another along the stored snapshots.
LogSorted == \A i, j \in 1..Len(log) : i < j => log[i].after <= log[j].before

\* Every change leads to the snapshot its recipe recomputes.
Recipes ==
    \A i \in 1..Len(log) :
        /\ log[i].before \in 1..HeadRef
        /\ Committable(history[log[i].before], log[i].op)
        /\ history[log[i].after] = Apply(history[log[i].before], log[i].op)

\* No change was made on a snapshot from u up to v.
NoChange(u, v) == \A i \in 1..Len(log) : ~ (u <= log[i].before /\ log[i].before < v)

\* Between changes there are observations and activations only.
Hops ==
    \A u, v \in 1..HeadRef :
        u < v /\ NoChange(u, v) =>
           Advanced(history[u], history[v]) /\ Moved(history[u], history[v])

FeedInv == LogSorted /\ Recipes /\ Hops

\* A step of the runtime or of epoch administration commits an operation on the
\* head, makes one of the unlogged advances, or stores nothing.
CommitsOn(op, w, c) ==
    /\ op \in Operation /\ w = Apply(HeadWorld, op) /\ Committable(HeadWorld, op)
    /\ c \in Change /\ c.op = op /\ c.before = HeadRef /\ c.after = HeadRef + 1
    /\ history' = Append(history, w) /\ log' = Append(log, c)

AdvancesTo(w) ==
    /\ history' = Append(history, w) /\ log' = log
    /\ \A v \in World : Advanced(v, HeadWorld) => Advanced(v, w) /\ Moved(v, w)

LEMMA StepStores ==
    ASSUME FullInv, [EpochNext]_vars
    PROVE  \/ UNCHANGED <<history, log>>
           \/ \E op \in Ops, w \in World, c \in Change : CommitsOn(op, w, c)
           \/ \E w \in World : AdvancesTo(w)
<1>1. KernelInv /\ EpochTypes
  BY DEF FullInv, EpochInv
<1>2. ASSUME NEW p \in Proc, CommitApply(p), ~ UNCHANGED <<history, log>>
      PROVE  \E op \in Ops, w \in World, c \in Change : CommitsOn(op, w, c)
  <2> PICK r \in RecordsOf(p, call[p].ticket) : CommitAccepted(p, r) /\ StoreChange(r)
    BY <1>2 DEF CommitApply
  <2> DEFINE c == [op |-> r.op, before |-> r.before, after |-> HeadRef + 1,
                   epoch |-> history[r.before].epoch, schema |-> r.schema]
  <2>1. r \in registry[p] /\ r \in RecordType
    BY <1>1 DEF RecordsOf, KernelInv, RegistryOK
  <2>2. /\ r.op \in Operation /\ r.before = HeadRef /\ Apply(HeadWorld, r.op) \in World
        /\ Committable(HeadWorld, r.op)
    BY <1>1, <2>1, CommitStores
  <2>3. history' = Append(history, Apply(HeadWorld, r.op)) /\ log' = Append(log, c)
    BY <2>2 DEF StoreChange, HeadWorld
  <2>4. c \in Change
    <3>1. HeadRef \in Nat /\ history[r.before].epoch \in Nat
      BY <1>1, <2>2, HeadTyped, WorldFields DEF KernelInv, HeadWorld
    <3> QED
      BY <2>1, <2>2, <3>1 DEF Change, RecordType
  <2>5. c.op = r.op /\ c.before = HeadRef /\ c.after = HeadRef + 1
    BY <2>2
  <2> HIDE DEF c
  <2>6. CommitsOn(r.op, Apply(HeadWorld, r.op), c)
    BY <2>2, <2>3, <2>4, <2>5 DEF CommitsOn
  <2> QED
    BY <2>1, <2>2, <2>4, <2>6 DEF RecordType
<1>3. ASSUME NEW p \in Proc, ObserveSwap(p), ~ UNCHANGED <<history, log>>
      PROVE  \E w \in World : AdvancesTo(w)
  <2>1. StoreAccepts(call[p].head) /\ log' = log
    BY <1>3 DEF ObserveSwap
  <2>2. HeadRef \in Nat /\ HeadWorld \in World /\ history[call[p].head] = HeadWorld
    BY <1>1, <2>1, HeadTyped DEF KernelInv, StoreAccepts, HeadWorld
  <2>3. history' = Append(history, WithObservation(HeadWorld, HeadRef + 1))
    BY <1>3, <2>1, <2>2 DEF ObserveSwap
  <2>4. HeadRef + 1 \in Nat /\ WithObservation(HeadWorld, HeadRef + 1) \in World
    BY <2>2, WithObservationTyped
  <2>5. AdvancesTo(WithObservation(HeadWorld, HeadRef + 1))
    BY <2>1, <2>2, <2>3, <2>4, ObservationAdvances DEF AdvancesTo
  <2> QED
    BY <2>4, <2>5
<1>4. ASSUME NEW p \in Proc, EpochSwap(p), ~ UNCHANGED <<history, log>>
      PROVE  \E w \in World : AdvancesTo(w)
  <2> DEFINE b == prepared[p][activating[p]]
  <2>1. StoreAccepts(call[p].head) /\ log' = log
    BY <1>4, SwapRefused DEF EpochSwap
  <2>2. /\ b \in Binding /\ b.epoch = binding.epoch + 1
        /\ history' = Append(history, WithEpoch(HeadWorld, b.epoch))
    BY <1>4, <2>1, SwapFollows
  <2> HIDE DEF b
  <2>3. HeadWorld \in World /\ b.epoch \in Nat /\ b.epoch > HeadWorld.epoch
    BY <1>1, <2>2, HeadTyped DEF KernelInv, FullInv, EpochInv, BindingMatchesHead, EpochTypes, Binding
  <2>4. WithEpoch(HeadWorld, b.epoch) \in World /\ AdvancesTo(WithEpoch(HeadWorld, b.epoch))
    BY <2>1, <2>2, <2>3, EpochAdvances DEF AdvancesTo
  <2> QED
    BY <2>4
<1>5. CASE KernelStep
  <2>1. ASSUME NEW p \in Proc, ProcessStep(p)
        PROVE  CommitApply(p) \/ ObserveSwap(p) \/ UNCHANGED <<history, log>>
    BY <2>1 DEF ProcessStep, Admit, Cancel, CommitResolve, PruneExpired, CommitRelease, ObserveRead
  <2>2. CASE Environment
    BY <2>2 DEF Environment, LockLapses, RecordLapses, Restart
  <2> QED
    BY <1>2, <1>3, <1>5, <2>1, <2>2 DEF KernelStep
<1>6. ASSUME NEW p \in Proc, NEW a \in Admission, EpochStep(p, a)
      PROVE  UNCHANGED <<history, log>>
  BY <1>6 DEF EpochStep, Submit, PrepareInspect, PrepareStore, PreparationLapses,
              EpochValidate, Recover, kernelVars
<1>7. ASSUME NEW p \in Proc, EpochCrash(p) PROVE UNCHANGED <<history, log>>
  BY <1>7 DEF EpochCrash, Crash
<1>8. CASE UNCHANGED vars
  BY <1>8 DEF vars, kernelVars
<1> QED
  BY <1>4, <1>5, <1>6, <1>7, <1>8 DEF EpochNext

\* A change joins the log: the new head is its own world.
LEMMA CommitFeed ==
    ASSUME KernelInv, FeedInv, NEW op \in Ops, NEW w \in World, NEW c \in Change,
           CommitsOn(op, w, c)
    PROVE  FeedInv'
<1>1. /\ HeadRef \in Nat /\ HeadRef > 0 /\ HeadRef' = HeadRef + 1
      /\ \A i \in 1..HeadRef : history'[i] = history[i]
      /\ history'[HeadRef + 1] = w
  BY StoreGrows, HeadTyped DEF KernelInv, CommitsOn, HeadWorld
<1>2. /\ c.op = op /\ c.before = HeadRef /\ c.after = HeadRef + 1
      /\ history[HeadRef] = HeadWorld
      /\ Committable(HeadWorld, op) /\ w = Apply(HeadWorld, op)
  BY DEF CommitsOn, HeadWorld
<1>3. log \in Seq(Change) /\ log' = Append(log, c)
      /\ \A i \in 1..Len(log) : log[i].before < log[i].after /\ log[i].after \in 1..HeadRef
  BY DEF KernelInv, LogOK, CommitsOn
<1>4. /\ Len(log) \in Nat /\ Len(log') = Len(log) + 1
      /\ \A i \in 1..Len(log) : log'[i] = log[i]
      /\ log'[Len(log) + 1] = c
  BY <1>3
<1>5. LogSorted'
  <2> SUFFICES ASSUME NEW i \in 1..Len(log'), NEW j \in 1..Len(log'), i < j
               PROVE  log'[i].after <= log'[j].before
    BY DEF LogSorted
  <2>1. i \in 1..Len(log) /\ log'[i] = log[i]
    BY <1>4
  <2>2. CASE j \in 1..Len(log)
    BY <1>4, <2>1, <2>2 DEF FeedInv, LogSorted
  <2>3. CASE j = Len(log) + 1
    BY <1>1, <1>2, <1>3, <1>4, <2>1, <2>3
  <2> QED
    BY <1>4, <2>2, <2>3
<1>6. Recipes'
  <2> SUFFICES ASSUME NEW i \in 1..Len(log')
               PROVE  /\ log'[i].before \in 1..HeadRef'
                      /\ Committable(history'[log'[i].before], log'[i].op)
                      /\ history'[log'[i].after] = Apply(history'[log'[i].before], log'[i].op)
    BY DEF Recipes
  <2>1. CASE i \in 1..Len(log)
    <3>1. /\ log'[i] = log[i] /\ log[i].before \in 1..HeadRef /\ log[i].after \in 1..HeadRef
          /\ Committable(history[log[i].before], log[i].op)
          /\ history[log[i].after] = Apply(history[log[i].before], log[i].op)
      BY <1>3, <1>4, <2>1 DEF FeedInv, Recipes
    <3>2. history'[log[i].before] = history[log[i].before]
          /\ history'[log[i].after] = history[log[i].after]
      BY <1>1, <3>1
    <3> QED
      BY <1>1, <3>1, <3>2
  <2>2. CASE i = Len(log) + 1
    <3>1. log'[i] = c /\ history'[HeadRef] = HeadWorld /\ history'[HeadRef + 1] = w
      BY <1>1, <1>2, <1>4, <2>2
    <3> QED
      BY <1>1, <1>2, <3>1
  <2> QED
    BY <1>4, <2>1, <2>2
<1>7. Hops'
  <2> SUFFICES ASSUME NEW u \in 1..HeadRef', NEW v \in 1..HeadRef', u < v, NoChange(u, v)'
               PROVE  Advanced(history'[u], history'[v]) /\ Moved(history'[u], history'[v])
    BY DEF Hops
  <2>1. v # HeadRef + 1
    <3>1. ~ (u <= log'[Len(log) + 1].before /\ log'[Len(log) + 1].before < v)
      BY <1>4 DEF NoChange
    <3> QED
      BY <1>1, <1>2, <1>4, <3>1
  <2>2. u \in 1..HeadRef /\ v \in 1..HeadRef
    BY <1>1, <2>1
  <2>3. NoChange(u, v)
    BY <1>4 DEF NoChange
  <2> QED
    BY <1>1, <2>2, <2>3 DEF FeedInv, Hops
<1> QED
  BY <1>5, <1>6, <1>7 DEF FeedInv

\* An observation or an activation adds one more hop.
LEMMA AdvanceFeed ==
    ASSUME KernelInv, FeedInv, NEW w \in World, AdvancesTo(w)
    PROVE  FeedInv'
<1>1. /\ HeadRef \in Nat /\ HeadRef > 0 /\ HeadRef' = HeadRef + 1
      /\ \A i \in 1..HeadRef : history'[i] = history[i] /\ history[i] \in World
      /\ history'[HeadRef + 1] = w /\ history[HeadRef] = HeadWorld /\ HeadWorld \in World
  BY StoreGrows, HeadTyped DEF KernelInv, AdvancesTo, HeadWorld
<1>2. /\ log' = log
      /\ \A v \in World : Advanced(v, HeadWorld) => Advanced(v, w) /\ Moved(v, w)
  BY DEF AdvancesTo
<1>3. LogSorted'
  BY <1>2 DEF FeedInv, LogSorted
<1>4. Recipes'
  <2> SUFFICES ASSUME NEW i \in 1..Len(log)
               PROVE  /\ log[i].before \in 1..HeadRef'
                      /\ Committable(history'[log[i].before], log[i].op)
                      /\ history'[log[i].after] = Apply(history'[log[i].before], log[i].op)
    BY <1>2 DEF Recipes
  <2>1. /\ log[i].before \in 1..HeadRef /\ log[i].after \in 1..HeadRef
        /\ Committable(history[log[i].before], log[i].op)
        /\ history[log[i].after] = Apply(history[log[i].before], log[i].op)
    BY DEF FeedInv, Recipes, KernelInv, LogOK
  <2>2. history'[log[i].before] = history[log[i].before]
        /\ history'[log[i].after] = history[log[i].after]
    BY <1>1, <2>1
  <2> QED
    BY <1>1, <2>1, <2>2
<1>5. Hops'
  <2> SUFFICES ASSUME NEW u \in 1..HeadRef', NEW v \in 1..HeadRef', u < v, NoChange(u, v)
               PROVE  Advanced(history'[u], history'[v]) /\ Moved(history'[u], history'[v])
    BY <1>2 DEF Hops, NoChange
  <2>1. u \in 1..HeadRef /\ history'[u] = history[u] /\ history[u] \in World
    BY <1>1
  <2>2. CASE v \in 1..HeadRef
    BY <1>1, <2>1, <2>2 DEF FeedInv, Hops
  <2>3. CASE v = HeadRef + 1
    <3>1. Advanced(history[u], HeadWorld)
      <4>1. CASE u = HeadRef
        BY <1>1, <4>1, AdvancedItself
      <4>2. CASE u # HeadRef
        <5>1. u < HeadRef /\ HeadRef \in 1..HeadRef
          BY <1>1, <2>1, <4>2
        <5>2. NoChange(u, HeadRef)
          <6>1. \A i \in 1..Len(log) : log[i].before \in 1..HeadRef
            BY DEF FeedInv, Recipes
          <6> QED
            BY <1>1, <2>3, <6>1 DEF NoChange
        <5> QED
          BY <1>1, <2>1, <5>1, <5>2 DEF FeedInv, Hops
      <4> QED
        BY <4>1, <4>2
    <3> QED
      BY <1>1, <1>2, <2>1, <2>3, <3>1
  <2> QED
    BY <1>1, <2>2, <2>3
<1> QED
  BY <1>3, <1>4, <1>5 DEF FeedInv

\* The log is empty at first.
LEMMA FeedStart == EpochInit => FeedInv
<1> SUFFICES ASSUME EpochInit PROVE FeedInv
  OBVIOUS
<1>1. history = <<Genesis>> /\ log = << >> /\ HeadRef = 1
  BY DEF EpochInit, KernelInit, HeadRef
<1> QED
  BY <1>1 DEF FeedInv, LogSorted, Recipes, Hops

\* And a step stores a change, an advance, or nothing.
LEMMA FeedStep ==
    ASSUME FullInv, FeedInv, [EpochNext]_vars
    PROVE  FeedInv'
<1>1. CASE UNCHANGED <<history, log>>
  BY <1>1 DEF FeedInv, LogSorted, Recipes, Hops, NoChange, HeadRef
<1>2. KernelInv
  BY DEF FullInv
<1> QED
  BY <1>1, <1>2, StepStores, CommitFeed, AdvanceFeed

\* The invariant holds in every reachable state.
LEMMA FeedInvariance == EpochSpec => []FeedInv
<1>1. FullInv /\ FeedInv /\ [EpochNext]_vars => FeedInv'
  BY FeedStep
<1> QED
  BY <1>1, FeedStart, EpochInvariance, PTL DEF EpochSpec

-----------------------------------------------------------------------------
(* The feed.                                                               *)

\* A suffix is as long as what it leaves away.
LEMMA SuffixOfLog ==
    ASSUME NEW s \in Seq(Change), NEW k \in 1..Len(s)
    PROVE  /\ Len(SuffixFrom(s, k)) = Len(s) - k + 1
           /\ \A m \in 1..Len(s) - k + 1 : SuffixFrom(s, k)[m] = s[k + m - 1]
<1>1. k \in Int /\ Len(s) \in Int /\ \A i \in k..Len(s) : s[i] \in Change
  OBVIOUS
<1>2. /\ Len(SubSeq(s, k, Len(s))) = IF k <= Len(s) THEN Len(s) - k + 1 ELSE 0
      /\ \A m \in 1..Len(s) - k + 1 : SubSeq(s, k, Len(s))[m] = s[k + m - 1]
  BY <1>1, SubSeqProperties
<1> QED
  BY <1>1, <1>2 DEF SuffixFrom

\* The feed after a snapshot begins at a change the snapshot bridges to, and
\* leaves out no change made on it or on a later one.
LEMMA SinceStarts ==
    ASSUME KernelInv, FeedInv, NEW cursor \in 1..HeadRef
    PROVE  \/ /\ Since(history, log, cursor) = << >>
              /\ \A i \in 1..Len(log) : log[i].before < cursor
           \/ \E k \in 1..Len(log) :
                 /\ Since(history, log, cursor) = SuffixFrom(log, k)
                 /\ Bridges(history, cursor, log[k].before)
                 /\ \A i \in 1..Len(log) : log[i].before >= cursor => k <= i
<1> DEFINE direct  == {i \in 1..Len(log) : log[i].before = cursor}
           anchor  == {i \in 1..Len(log) : log[i].after = cursor}
           bridged == {i \in 1..Len(log) :
                          /\ \A a \in anchor : i > a
                          /\ VerifiableUnloggedAdvance(history[cursor], history[log[i].before])}
           owed    == {i \in 1..Len(log) : log[i].before >= cursor}
<1>1. /\ LogSorted /\ Recipes /\ Hops /\ Len(log) \in Nat /\ HeadRef \in Nat
      /\ \A i \in 1..Len(log) : /\ log[i].before < log[i].after /\ log[i].after \in 1..HeadRef
                                /\ log[i].before \in 1..HeadRef
      /\ \A i \in 1..HeadRef : history[i] \in World
  BY HeadTyped DEF FeedInv, Recipes, KernelInv, LogOK
<1>2. CASE direct # {}
  <2> DEFINE k == Least(direct)
  <2>1. k \in direct
    <3>1. direct \in SUBSET Nat
      OBVIOUS
    <3> HIDE DEF direct
    <3> QED
      BY <1>2, <3>1, LeastIsLeast
  <2>2. Since(history, log, cursor) = SuffixFrom(log, k)
    BY <1>2 DEF Since
  <2> HIDE DEF k
  <2>3. ASSUME NEW i \in 1..Len(log), log[i].before >= cursor, i < k PROVE FALSE
    <3>1. log[i].after <= log[k].before
      BY <1>1, <2>1, <2>3 DEF LogSorted
    <3> QED
      BY <1>1, <2>1, <2>3, <3>1
  <2>4. \A i \in 1..Len(log) : log[i].before >= cursor => k <= i
    BY <1>1, <2>1, <2>3
  <2> QED
    BY <2>1, <2>2, <2>4 DEF Bridges
<1>3. CASE direct = {} /\ owed # {}
  <2> DEFINE j == Least(owed)
             k == Least(bridged)
  <2>1. j \in owed /\ \A i \in owed : j <= i
    <3>1. owed \in SUBSET Nat /\ owed # {}
      BY <1>3
    <3> HIDE DEF owed
    <3> QED
      BY <3>1, LeastIsLeast
  <2> HIDE DEF j
  <2>2. cursor < log[j].before
    BY <1>1, <1>3, <2>1
  <2>3. NoChange(cursor, log[j].before)
    <3> SUFFICES ASSUME NEW i \in 1..Len(log), cursor <= log[i].before, log[i].before < log[j].before
                 PROVE  FALSE
      BY DEF NoChange
    <3>1. i \in owed /\ j <= i
      BY <1>1, <2>1
    <3>2. CASE i = j
      BY <1>1, <2>1, <3>2
    <3>3. CASE j < i
      <4>1. log[j].after <= log[i].before
        BY <1>1, <2>1, <3>3 DEF LogSorted
      <4> QED
        BY <1>1, <2>1, <4>1
    <3> QED
      BY <2>1, <3>1, <3>2, <3>3
  <2>4. VerifiableUnloggedAdvance(history[cursor], history[log[j].before])
    <3>1. log[j].before \in 1..HeadRef
      BY <1>1, <2>1
    <3>2. Advanced(history[cursor], history[log[j].before])
          /\ Moved(history[cursor], history[log[j].before])
      BY <1>1, <2>2, <2>3, <3>1 DEF Hops
    <3> QED
      BY <1>1, <3>1, <3>2, AdvanceIsVerifiable
  <2>5. ASSUME NEW a \in anchor PROVE j > a
    <3>1. a \in 1..Len(log) /\ log[a].after = cursor
      OBVIOUS
    <3>2. CASE a = j
      BY <1>1, <2>1, <2>2, <3>1, <3>2
    <3>3. CASE j < a
      <4>1. log[j].after <= log[a].before
        BY <1>1, <2>1, <3>1, <3>3 DEF LogSorted
      <4> QED
        BY <1>1, <2>1, <2>2, <3>1, <4>1
    <3> QED
      BY <1>1, <2>1, <3>1, <3>2, <3>3
  <2>6. j \in bridged
    BY <2>1, <2>4, <2>5
  <2>7. k \in bridged /\ k <= j
    <3>1. bridged # {} /\ bridged \in SUBSET Nat
      BY <2>6
    <3> QED
      BY <2>6, <3>1, LeastIsLeast
  <2>8. Since(history, log, cursor) = SuffixFrom(log, k)
    BY <1>3, <2>6 DEF Since
  <2> HIDE DEF k
  <2>9. k \in 1..Len(log) /\ Bridges(history, cursor, log[k].before)
    BY <2>7 DEF Bridges
  <2>10. \A i \in 1..Len(log) : log[i].before >= cursor => k <= i
    BY <1>1, <2>1, <2>7, <2>9
  <2> QED
    BY <2>8, <2>9, <2>10
<1>4. CASE direct = {} /\ owed = {} /\ bridged # {}
  <2> DEFINE k == Least(bridged)
  <2>1. k \in bridged
    <3>1. bridged \in SUBSET Nat /\ bridged # {}
      BY <1>4
    <3> HIDE DEF bridged
    <3> QED
      BY <3>1, LeastIsLeast
  <2>2. Since(history, log, cursor) = SuffixFrom(log, k)
    BY <1>4 DEF Since
  <2> HIDE DEF k
  <2>3. k \in 1..Len(log) /\ Bridges(history, cursor, log[k].before)
    BY <2>1 DEF Bridges
  <2> QED
    BY <1>4, <2>2, <2>3
<1>5. CASE direct = {} /\ owed = {} /\ bridged = {}
  <2>1. Since(history, log, cursor) = << >>
    BY <1>5 DEF Since
  <2>2. \A i \in 1..Len(log) : log[i].before < cursor
    BY <1>1, <1>5
  <2> QED
    BY <2>1, <2>2
<1> QED
  BY <1>2, <1>3, <1>4, <1>5

\* A change the feed left out would have been found before the one it begins with.
LEMMA FeedReaches ==
    ASSUME KernelInv, FeedInv
    PROVE  FeedNeverSkips
<1> SUFFICES ASSUME NEW cursor \in 1..HeadRef, NEW i \in 1..Len(log), log[i].before >= cursor
             PROVE  LET fed  == Since(history, log, cursor)
                        left == Len(log) - Len(fed)
                    IN  i > left /\ fed[i - left] = log[i]
  BY DEF FeedNeverSkips
<1>1. log \in Seq(Change) /\ Len(log) \in Nat /\ log[i].before \in Nat /\ HeadRef \in Nat
  <2>1. log \in Seq(Change) /\ HeadRef \in Nat
    BY HeadTyped DEF KernelInv, LogOK
  <2>2. log[i] \in Change
    BY <2>1
  <2> QED
    BY <2>1, <2>2 DEF Change
<1>2. PICK k \in 1..Len(log) : Since(history, log, cursor) = SuffixFrom(log, k) /\ k <= i
  BY <1>1, SinceStarts
<1>3. Len(SuffixFrom(log, k)) = Len(log) - k + 1
      /\ \A m \in 1..Len(log) - k + 1 : SuffixFrom(log, k)[m] = log[k + m - 1]
  BY <1>1, SuffixOfLog
<1>4. Len(log) - Len(SuffixFrom(log, k)) = k - 1 /\ i - (k - 1) \in 1..Len(log) - k + 1
      /\ k + (i - (k - 1)) - 1 = i
  BY <1>1, <1>2, <1>3
<1>5. SuffixFrom(log, k)[i - (k - 1)] = log[i]
  BY <1>3, <1>4
<1> QED
  BY <1>1, <1>2, <1>4, <1>5

\* Whatever observations and activations lie between the snapshot a reader has
\* and the next change, the feed brings every change from there on
\* (changesSince, findBridgedChangeIndex).
THEOREM FeedComplete == EpochSpec => []FeedNeverSkips
<1>1. KernelInv /\ FeedInv => FeedNeverSkips
  BY FeedReaches
<1>2. FullInv => KernelInv
  BY DEF FullInv
<1> QED
  BY <1>1, <1>2, EpochInvariance, FeedInvariance, PTL

-----------------------------------------------------------------------------
(* Replay.                                                                 *)

\* Two changes of the log that follow one another are one chain.
LEMMA ChangesBridge ==
    ASSUME KernelInv, FeedInv, NEW i \in 1..Len(log), i + 1 \in 1..Len(log)
    PROVE  Bridges(history, log[i].after, log[i + 1].before)
<1> DEFINE u == log[i].after
           v == log[i + 1].before
<1>1. /\ LogSorted /\ Recipes /\ Hops /\ Len(log) \in Nat /\ HeadRef \in Nat
      /\ \A n \in 1..Len(log) : /\ log[n].before < log[n].after /\ log[n].after \in 1..HeadRef
                                /\ log[n].before \in 1..HeadRef
      /\ \A n \in 1..HeadRef : history[n] \in World
  BY HeadTyped DEF FeedInv, Recipes, KernelInv, LogOK
<1>2. u <= v /\ u \in 1..HeadRef /\ v \in 1..HeadRef
  BY <1>1 DEF LogSorted
<1>3. CASE u = v
  BY <1>3 DEF Bridges
<1>4. CASE u < v
  <2>1. NoChange(u, v)
    <3> SUFFICES ASSUME NEW n \in 1..Len(log), u <= log[n].before, log[n].before < v
                 PROVE  FALSE
      BY DEF NoChange
    <3>1. CASE n = i
      BY <1>1, <3>1
    <3>2. CASE n < i
      <4>1. log[n].after <= log[i].before
        BY <1>1, <3>2 DEF LogSorted
      <4> QED
        BY <1>1, <4>1
    <3>3. CASE n = i + 1
      BY <1>1, <3>3
    <3>4. CASE n > i + 1
      <4>1. log[i + 1].after <= log[n].before
        BY <1>1, <3>4 DEF LogSorted
      <4> QED
        BY <1>1, <4>1
    <3> QED
      BY <1>1, <3>1, <3>2, <3>3, <3>4
  <2>2. Advanced(history[u], history[v]) /\ Moved(history[u], history[v])
    BY <1>1, <1>2, <1>4, <2>1 DEF Hops
  <2> QED
    BY <1>1, <1>2, <2>2, AdvanceIsVerifiable DEF Bridges
<1> QED
  BY <1>1, <1>2, <1>3, <1>4

\* Every change is recomputed from its recipe.
LEMMA ChangesRecompute ==
    ASSUME KernelInv, FeedInv, ChangeWithinEpoch, NEW i \in 1..Len(log)
    PROVE  RecomputesFrom(history, log[i].before, log[i])
<1>1. /\ Committable(history[log[i].before], log[i].op)
      /\ history[log[i].after] = Apply(history[log[i].before], log[i].op)
      /\ history[log[i].before].epoch = log[i].epoch
      /\ log[i].after \in 1..HeadRef
  BY DEF FeedInv, Recipes, ChangeWithinEpoch, KernelInv, LogOK
<1>2. history[log[i].after] \in World
  BY <1>1, HeadTyped DEF KernelInv
<1>3. CanonicallyEqual(history[log[i].after], history[log[i].after])
  BY <1>2, WorldFields DEF CanonicallyEqual, World
<1> QED
  BY <1>1, <1>3 DEF RecomputesFrom, Committable

\* Replay visits the snapshots its changes lead to, one after the other: a
\* function that does so is the one the recursive definition names, and a first
\* state where it did not would contradict the definition at that state.
LEMMA ReplayVisits ==
    ASSUME NEW h, NEW feed, Len(feed) \in Nat, NEW from \in Nat \ {0},
           \A i \in 1..Len(feed) : feed[i].after \in Nat \ {0},
           \A i \in 1..Len(feed) : RecomputesFrom(h, feed[i].before, feed[i]),
           1 \in 1..Len(feed) => Bridges(h, from, feed[1].before),
           \A i \in 2..Len(feed) : Bridges(h, feed[i - 1].after, feed[i].before)
    PROVE  ReplayState(h, feed, from) # 0
<1> DEFINE D == 0..Len(feed)
           next(s, i) == IF i = 0 THEN from
                         ELSE IF /\ s[i - 1] # 0
                                 /\ Bridges(h, s[i - 1], feed[i].before)
                                 /\ RecomputesFrom(h, feed[i].before, feed[i])
                              THEN feed[i].after ELSE 0
           f == [i \in D |-> IF i = 0 THEN from ELSE feed[i].after]
           g == ReplayStates(h, feed, from)
<1>1. g = CHOOSE s : s = [i \in D |-> next(s, i)]
  BY DEF ReplayStates
<1>2. f = [i \in D |-> next(f, i)]
  <2> SUFFICES ASSUME NEW i \in D PROVE f[i] = next(f, i)
    OBVIOUS
  <2>1. CASE i = 0
    BY <2>1
  <2>2. CASE i = 1
    BY <2>2
  <2>3. CASE i > 1
    <3>1. i \in 2..Len(feed) /\ i - 1 \in 1..Len(feed) /\ i - 1 \in D /\ i - 1 # 0
      BY <2>3
    <3>2. f[i - 1] = feed[i - 1].after /\ f[i] = feed[i].after
      BY <3>1
    <3> QED
      BY <3>1, <3>2
  <2> QED
    BY <2>1, <2>2, <2>3
<1>3. g = [i \in D |-> next(g, i)]
  <2> DEFINE visits(s) == s = [i \in D |-> next(s, i)]
  <2>1. g = CHOOSE s : visits(s)
    BY <1>1
  <2>2. visits(f)
    BY <1>2
  <2> HIDE DEF visits, f, g
  <2>3. visits(g)
    BY <2>1, <2>2
  <2> QED
    BY <2>3 DEF visits
<1>4. g[0] = from /\ \A i \in D : i # 0 => g[i] = next(g, i)
  BY <1>3
<1> HIDE DEF g
<1>5. ASSUME NEW i \in D, g[i] = 0 PROVE FALSE
  <2> DEFINE S == {j \in D : g[j] = 0}
  <2>1. S \in SUBSET Nat /\ S # {}
    BY <1>5
  <2>2. PICK j \in S : \A k \in S : j <= k
    BY <2>1, LeastExists
  <2>3. j \in D /\ g[j] = 0 /\ j # 0
    BY <1>4
  <2>4. j - 1 \in D /\ g[j - 1] # 0
    BY <2>2, <2>3
  <2>5. g[j - 1] = IF j = 1 THEN from ELSE feed[j - 1].after
    <3>1. CASE j = 1
      BY <1>4, <3>1
    <3>2. CASE j # 1
      <4>1. j - 1 # 0 /\ g[j - 1] = next(g, j - 1)
        BY <1>4, <2>3, <2>4, <3>2
      <4> QED
        BY <2>4, <3>2, <4>1
    <3> QED
      BY <3>1, <3>2
  <2>6. Bridges(h, g[j - 1], feed[j].before)
    <3>1. CASE j = 1
      BY <2>3, <2>5, <3>1
    <3>2. CASE j # 1
      BY <2>3, <2>5, <3>2
    <3> QED
      BY <3>1, <3>2
  <2>7. g[j] = feed[j].after
    BY <1>4, <2>3, <2>4, <2>6
  <2> QED
    BY <2>3, <2>7
<1>6. Len(feed) \in D
  OBVIOUS
<1> QED
  BY <1>5, <1>6 DEF ReplayState, g

\* Where replay first refuses, the log would not be what the runtime stored.
LEMMA ReplayReaches ==
    ASSUME KernelInv, FeedInv, ChangeWithinEpoch
    PROVE  ReplayAlwaysSucceeds
<1> SUFFICES ASSUME NEW from \in 1..HeadRef PROVE ReplaySucceeds(history, log, from)
  BY DEF ReplayAlwaysSucceeds
<1> DEFINE feed == Since(history, log, from)
<1>1. log \in Seq(Change) /\ Len(log) \in Nat /\ HeadRef \in Nat /\ from \in Nat \ {0}
  BY HeadTyped DEF KernelInv, LogOK
<1>2. CASE feed = << >>
  <2>1. Len(feed) = 0 /\ Len(feed) \in Nat
    BY <1>2
  <2>2. ReplayState(history, feed, from) # 0
    BY <1>1, <2>1, ReplayVisits
  <2> QED
    BY <2>1, <2>2 DEF ReplaySucceeds, ChainValid
<1>3. CASE \E k \in 1..Len(log) :
              feed = SuffixFrom(log, k) /\ Bridges(history, from, log[k].before)
  <2> PICK k \in 1..Len(log) :
              feed = SuffixFrom(log, k) /\ Bridges(history, from, log[k].before)
    BY <1>3
  <2> HIDE DEF feed
  <2>1. /\ Len(feed) = Len(log) - k + 1 /\ Len(feed) \in Nat
        /\ \A m \in 1..Len(feed) : feed[m] = log[k + m - 1] /\ k + m - 1 \in 1..Len(log)
    <3>1. /\ Len(feed) = Len(log) - k + 1
          /\ \A m \in 1..Len(log) - k + 1 : feed[m] = log[k + m - 1]
      BY <1>1, SuffixOfLog
    <3>2. /\ Len(feed) \in Nat
          /\ \A m \in 1..Len(feed) : m \in 1..Len(log) - k + 1 /\ k + m - 1 \in 1..Len(log)
      BY <1>1, <3>1
    <3> QED
      BY <3>1, <3>2
  <2>2. \A m \in 1..Len(feed) : feed[m].after \in Nat \ {0}
    <3>1. \A n \in 1..Len(log) : log[n].after \in 1..HeadRef
      BY DEF KernelInv, LogOK
    <3> QED
      BY <1>1, <2>1, <3>1
  <2>3. \A m \in 1..Len(feed) : RecomputesFrom(history, feed[m].before, feed[m])
    BY <2>1, ChangesRecompute
  <2>4. Bridges(history, from, feed[1].before)
    <3>1. feed[1] = log[k]
      BY <1>1, <2>1
    <3> QED
      BY <3>1
  <2>5. ASSUME NEW m \in 2..Len(feed)
        PROVE  Bridges(history, feed[m - 1].after, feed[m].before)
    <3> DEFINE i == k + (m - 1) - 1
    <3>1. m \in 1..Len(feed) /\ m - 1 \in 1..Len(feed) /\ i + 1 = k + m - 1
      BY <1>1, <2>1
    <3>2. /\ feed[m - 1] = log[i] /\ i \in 1..Len(log)
          /\ feed[m] = log[i + 1] /\ i + 1 \in 1..Len(log)
      BY <2>1, <3>1
    <3> HIDE DEF i
    <3> QED
      BY <3>2, ChangesBridge
  <2>6. ReplayState(history, feed, from) # 0
    BY <1>1, <2>1, <2>2, <2>3, <2>4, <2>5, ReplayVisits
  <2>7. ChainValid(history, feed)
    BY <2>5 DEF ChainValid
  <2> QED
    BY <2>6, <2>7 DEF ReplaySucceeds, feed
<1> QED
  BY <1>2, <1>3, SinceStarts

\* Replay accepts the feed from every stored snapshot, across observations,
\* activations and the processes the changes came from (verifyResolved).
THEOREM ReplayAccepts == EpochSpec => []ReplayAlwaysSucceeds
<1>1. KernelInv /\ FeedInv /\ ChangeWithinEpoch => ReplayAlwaysSucceeds
  BY ReplayReaches
<1>2. FullInv => KernelInv /\ ChangeWithinEpoch
  BY DEF FullInv, EpochInv, OfOneEpoch
<1> QED
  BY <1>1, <1>2, EpochInvariance, FeedInvariance, PTL

-----------------------------------------------------------------------------
(* The control plane.                                                      *)

\* Preparations and journal entries bear the name of their admission.
Named ==
    \A p \in Proc, c \in Admission :
        /\ prepared[p][c] # None => prepared[p][c].admission = c
        /\ journal[p][c] # None => journal[p][c].admission = c

\* Only Host's runtime is asked for a managed admission.
OthersApart ==
    \A p \in Proc \ {Host}, a \in Managed :
        /\ a \notin inspected[p] /\ activating[p] # a
        /\ prepared[p][a] = None /\ journal[p][a] = None

\* Nothing is under way for an admission that is not submitted, so its plan may
\* be made again after a crash.
Unsubmitted ==
    \A a \in Managed :
        cp.state[a] = "none" => a \notin inspected[Host] /\ prepared[Host][a] = None

\* A store's decisions are about admissions that are prepared, their token used.
Decided(s) ==
    \A a \in Managed :
        /\ s.state[a] # "none" => plan[a] \in Plan
        /\ StatusOf(s, a) # "none" =>
              s.state[a] \in {"prepared", "committed"} /\ s.token[a] = "consumed"

\* The file has a decision when the memory has one, and whenever the runtime was
\* asked, is at work or has moved.
WrittenAhead ==
    \A a \in Managed :
        /\ StatusOf(cp, a) # "none" <=> StatusOf(disk, a) # "none"
        /\ \/ committing[a] # "no" \/ activating[Host] = a
           \/ journal[Host][a] # None \/ binding.admission = a
           => StatusOf(disk, a) # "none"

\* What the runtime was moved to for an admission is what its plan asks for.
AsPlanned ==
    \A a \in Managed :
        /\ binding.admission = a => binding.epoch = plan[a].epoch + 1
        /\ journal[Host][a] # None =>
              /\ journal[Host][a].epoch = plan[a].epoch + 1
              /\ \E h \in 1..HeadRef : history[h].epoch = journal[Host][a].epoch

\* The runtime was moved to this epoch for this admission, with this head.
Real(epoch, head, schema) ==
    /\ head \in 1..HeadRef /\ history[head].epoch = epoch
    /\ epoch <= binding.epoch
    /\ epoch = binding.epoch => schema = binding.admission

\* A store's decision is about an epoch the runtime was moved to.
Realised(s, a) == Real(plan[a].epoch + 1, s.decision[a].head, a)

\* The runtime was not moved for this admission and will not be.
Gone(a) == activating[Host] # a /\ journal[Host][a] = None /\ binding.admission # a

\* A store's active binding and its open decisions are about such epochs, or
\* about admissions the runtime refused for good.
Truthful(s) ==
    /\ Real(s.active.epoch, s.active.head, s.active.schema)
    /\ \A a \in Managed :
          /\ StatusOf(s, a) = "runtime_applied" => Realised(s, a)
          /\ StatusOf(s, a) = "recovery_required" => Realised(s, a) \/ Gone(a)

ControlTypes == cp \in Store /\ disk \in Store /\ committing \in [Managed -> {"no", "runtime", "finalize"}]

Workflow ==
    /\ Named /\ OthersApart /\ Unsubmitted
    /\ Decided(cp) /\ Decided(disk)
    /\ WrittenAhead /\ AsPlanned
    /\ Truthful(cp) /\ Truthful(disk)
    /\ \A a \in Managed : committing[a] = "finalize" => Realised(cp, a)

ControlInv == FullInv /\ ControlTypes /\ Workflow

\* The clauses of the epoch types the runs check.
LEMMA EpochTyped ==
    ASSUME FullInv
    PROVE  EpochTypeOK
<1>1. EpochTypes /\ Preparing /\ Activating
  BY DEF FullInv, EpochInv
<1>2. inspected \in [Proc -> SUBSET {a \in Admission : plan[a] # None}]
  BY <1>1 DEF EpochTypes, Preparing
<1>3. \A p \in Proc : /\ activating[p] # None <=> call[p].step = "activate"
                      /\ activating[p] # None => prepared[p][activating[p]] # None
  BY <1>1 DEF Activating, Checked
<1> QED
  BY <1>1, <1>2, <1>3 DEF EpochTypes, EpochTypeOK

\* What a store holds.
LEMMA StoreFields ==
    ASSUME NEW s \in Store
    PROVE  /\ s = [active |-> s.active, state |-> s.state, token |-> s.token,
                   decision |-> s.decision, policies |-> s.policies]
           /\ s.active.generation \in Nat /\ s.active.epoch \in Nat /\ s.active.head \in Nat
           /\ s.active.schema \in Managed \cup {None}
           /\ s.active = [generation |-> s.active.generation, epoch |-> s.active.epoch,
                          head |-> s.active.head, schema |-> s.active.schema]
           /\ s.state \in [Managed -> AdmissionState]
           /\ s.token \in [Managed -> {"none", "issued", "consumed"}]
           /\ s.decision \in [Managed -> Decision]
           /\ s.policies \in Nat
           /\ \A a \in Managed : StatusOf(s, a) \in DecisionStatus /\ s.decision[a].head \in Nat
  BY DEF Store, Active, Decision, StatusOf

\* Every step of the control plane is one of the runtime's beside it, or plans.
LEMMA StepKinds ==
    ASSUME [ControlNext]_allVars
    PROVE  [EpochNext]_vars \/ \E a \in Managed : SubmitAdmission(a)
<1> USE ControlAssumption
<1>1. ASSUME NEW p \in Proc, OtherStep(p) PROVE EpochNext
  BY <1>1 DEF OtherStep, EpochNext
<1>2. ASSUME NEW a \in Managed, AdmissionStep(a), ~ SubmitAdmission(a) PROVE [EpochNext]_vars
  <2>1. a \in Admission
    OBVIOUS
  <2>2. CASE EpochStep(Host, a)
    BY <2>1, <2>2 DEF EpochNext
  <2>3. EpochStep(Host, a) \/ UNCHANGED vars
    BY <1>2 DEF AdmissionStep, Approve, PrepareBegins, PrepareEnds, PreparationEnds,
         CommitTooLate, CommitBegins, RuntimeAnswers, Applied, Finalize, RecoverForward, EpochStep
  <2> QED
    BY <2>2, <2>3
<1>3. ASSUME HostSwap \/ HostCrash \/ ActivatePolicy PROVE [EpochNext]_vars
  BY <1>3 DEF HostSwap, HostCrash, ActivatePolicy, EpochNext
<1>4. CASE UNCHANGED allVars
  BY <1>4 DEF allVars
<1> QED
  BY <1>1, <1>2, <1>3, <1>4 DEF ControlNext, EpochNext

\* So the runtime's invariant survives.
LEMMA ControlKeepsFull ==
    ASSUME ControlInv, [ControlNext]_allVars
    PROVE  FullInv'
<1> USE ControlAssumption
<1>1. CASE [EpochNext]_vars
  BY <1>1, EpochStepKeeps DEF ControlInv
<1>2. ASSUME NEW a \in Managed, SubmitAdmission(a) PROVE FullInv'
  <2> DEFINE r == [head |-> cp.active.head, generation |-> cp.active.generation,
                   epoch |-> cp.active.epoch]
  <2>1. /\ cp.state[a] = "none" /\ plan' = [plan EXCEPT ![a] = r]
        /\ UNCHANGED <<kernelVars, inspected, prepared, journal, activating>>
    BY <1>2 DEF SubmitAdmission
  <2>2. r \in Plan
    BY StoreFields DEF ControlInv, ControlTypes, Plan
  <2> HIDE DEF r
  <2>3. \A q \in Proc : a \notin inspected[q] /\ prepared[q][a] = None
    BY <2>1 DEF ControlInv, Workflow, OthersApart, Unsubmitted
  <2> QED
    BY <2>1, <2>2, <2>3, ReplanKeeps DEF ControlInv
<1> QED
  BY <1>1, <1>2, StepKinds

-----------------------------------------------------------------------------
(* What the steps leave of the stores.                                     *)

\* Changing an admission's state or token leaves a store a store.
LEMMA StateChanges ==
    ASSUME NEW s \in Store, NEW a \in Managed, NEW x \in AdmissionState,
           NEW y \in {"none", "issued", "consumed"}
    PROVE  /\ [s EXCEPT !.state[a] = x] \in Store
           /\ [s EXCEPT !.state[a] = x, !.token[a] = y] \in Store
           /\ [s EXCEPT !.token[a] = y] \in Store
  BY DEF Store

\* So does changing its decision, alone or with what is decided.
LEMMA DecisionChanges ==
    ASSUME NEW s \in Store, NEW a \in Managed
    PROVE  \A y \in DecisionStatus :
              /\ \A h \in Nat : Decide(s, a, y, h) \in Store
              /\ [s EXCEPT !.decision[a].status = y] \in Store
              /\ \A x \in AdmissionState :
                    /\ [s EXCEPT !.state[a] = x, !.decision[a].status = y] \in Store
                    /\ \A b \in Active :
                          [s EXCEPT !.active = b, !.state[a] = x, !.decision[a].status = y] \in Store
<1> TAKE y \in DecisionStatus
<1> DEFINE d == [s.decision[a] EXCEPT !.status = y]
<1>1. /\ d \in Decision /\ s.decision \in [Managed -> Decision]
      /\ [s EXCEPT !.decision[a].status = y] = [s EXCEPT !.decision[a] = d]
  BY DEF Store, Decision
<1>2. ASSUME NEW x, NEW b
      PROVE  /\ [s EXCEPT !.state[a] = x, !.decision[a].status = y]
                   = [s EXCEPT !.state[a] = x, !.decision[a] = d]
             /\ [s EXCEPT !.active = b, !.state[a] = x, !.decision[a].status = y]
                   = [s EXCEPT !.active = b, !.state[a] = x, !.decision[a] = d]
  BY DEF Store, Decision
<1> HIDE DEF d
<1>3. [s EXCEPT !.decision[a].status = y] \in Store
  BY <1>1 DEF Store
<1>4. \A h \in Nat : Decide(s, a, y, h) \in Store
  BY DEF Decide, Store, Decision
<1>5. ASSUME NEW x \in AdmissionState
      PROVE  [s EXCEPT !.state[a] = x, !.decision[a].status = y] \in Store
  <2>1. [s EXCEPT !.state[a] = x, !.decision[a] = d] \in Store
    BY <1>1 DEF Store
  <2> QED
    BY <1>2, <2>1
<1>6. ASSUME NEW x \in AdmissionState, NEW b \in Active
      PROVE  [s EXCEPT !.active = b, !.state[a] = x, !.decision[a].status = y] \in Store
  <2>1. [s EXCEPT !.active = b, !.state[a] = x, !.decision[a] = d] \in Store
    BY <1>1 DEF Store
  <2> QED
    BY <1>2, <2>1
<1> QED
  BY <1>3, <1>4, <1>5, <1>6

\* A policy activation makes another generation.
LEMMA PolicyChanges ==
    ASSUME NEW s \in Store
    PROVE  [s EXCEPT !.active.generation = @ + 1, !.policies = @ + 1] \in Store
<1> DEFINE b == [s.active EXCEPT !.generation = @ + 1]
           n == s.policies + 1
<1>1. b \in Active /\ n \in Nat
  BY DEF Store, Active
<1>2. [s EXCEPT !.active.generation = @ + 1, !.policies = @ + 1] = [s EXCEPT !.active = b, !.policies = n]
  BY DEF Store
<1> HIDE DEF b, n
<1>3. [s EXCEPT !.active = b, !.policies = n] \in Store
  BY <1>1 DEF Store
<1> QED
  BY <1>2, <1>3

\* Plans have numbers in them.
LEMMA PlanTyped ==
    ASSUME NEW a \in Managed, plan[a] \in Plan
    PROVE  plan[a].head \in Nat /\ plan[a].generation \in Nat /\ plan[a].epoch \in Nat
  BY DEF Plan

LEMMA TypesKept ==
    ASSUME ControlInv, [ControlNext]_allVars
    PROVE  ControlTypes'
<1> USE ControlAssumption
<1>1. /\ cp \in Store /\ disk \in Store /\ FullInv /\ Decided(cp)
      /\ committing \in [Managed -> {"no", "runtime", "finalize"}]
  BY DEF ControlInv, ControlTypes, Workflow
<1>2. CASE UNCHANGED controlVars
  BY <1>1, <1>2 DEF controlVars, ControlTypes
<1>3. ASSUME NEW a \in Managed, AdmissionStep(a) PROVE ControlTypes'
  <2>1. /\ {"awaiting_authorization", "authorized", "prepared", "committed"} \subseteq AdmissionState
        /\ {"decided", "runtime_applied", "finalized", "recovery_required"} \subseteq DecisionStatus
    BY DEF AdmissionState, DecisionStatus
  <2>2. CASE SubmitAdmission(a)
    BY <1>1, <2>1, <2>2, StateChanges DEF SubmitAdmission, ControlTypes
  <2>3. CASE Approve(a)
    BY <1>1, <2>1, <2>3, StateChanges DEF Approve, ControlTypes
  <2>4. CASE PrepareEnds(a)
    BY <1>1, <2>1, <2>4, StateChanges DEF PrepareEnds, ControlTypes
  <2>5. CASE CommitTooLate(a)
    BY <1>1, <2>1, <2>5, StateChanges DEF CommitTooLate, ControlTypes
  <2>6. CASE CommitBegins(a)
    <3>1. plan[a].head \in Nat
      <4>1. plan[a] \in Plan
        BY <1>1, <2>6 DEF CommitBegins, MayCommit, Decided
      <4> QED
        BY <1>1, <4>1, PlanTyped
    <3>2. [cp EXCEPT !.token[a] = "consumed"] \in Store
      BY <1>1, StateChanges DEF AdmissionState
    <3>3. Decide([cp EXCEPT !.token[a] = "consumed"], a, "decided", plan[a].head) \in Store
      BY <2>1, <3>1, <3>2, DecisionChanges
    <3> QED
      BY <1>1, <2>6, <3>3 DEF CommitBegins, RecordDecision, ControlTypes
  <2>7. CASE RuntimeAnswers(a)
    <3>1. cp' \in Store
      <4>1. CASE \E head \in 1..HeadRef : cp' = Decide(cp, a, "runtime_applied", head)
        <5> PICK head \in 1..HeadRef : cp' = Decide(cp, a, "runtime_applied", head)
          BY <4>1
        <5>1. head \in Nat
          BY <1>1, HeadTyped DEF FullInv, KernelInv
        <5> QED
          BY <1>1, <2>1, <5>1, DecisionChanges
      <4>2. CASE cp' = [cp EXCEPT !.decision[a].status = "recovery_required"]
        BY <1>1, <2>1, <4>2, DecisionChanges
      <4> QED
        BY <2>7, <4>1, <4>2 DEF RuntimeAnswers
    <3> QED
      BY <1>1, <2>7, <3>1 DEF RuntimeAnswers, ControlTypes
  <2>8. ASSUME Swaps(a), plan[a] \in Plan PROVE Finalized(a) \in Store
    <3>1. NextActive(a) \in Active
      <4>1. cp.decision[a].head \in Nat
        BY <1>1, StoreFields
      <4> QED
        BY <1>1, <2>8, <4>1, PlanTyped DEF NextActive, Active
    <3> QED
      BY <1>1, <2>1, <3>1, DecisionChanges DEF Finalized
  <2>9. StatusOf(cp, a) # "none" => plan[a] \in Plan
    BY <1>1 DEF Decided
  <2>10. CASE Finalize(a)
    <3>1. plan[a] \in Plan
      BY <2>9, <2>10 DEF Finalize, ControlInv, Workflow, WrittenAhead
    <3>2. disk' \in {disk, cp'} /\ committing' = [committing EXCEPT ![a] = "no"]
          /\ \/ Swaps(a) /\ cp' = Finalized(a)
             \/ cp' = [cp EXCEPT !.state[a] = "committed", !.decision[a].status = "finalized"]
             \/ cp' = [cp EXCEPT !.decision[a].status = "recovery_required"]
      BY <2>10 DEF Finalize
    <3>3. cp' \in Store
      <4>1. /\ [cp EXCEPT !.state[a] = "committed", !.decision[a].status = "finalized"] \in Store
            /\ [cp EXCEPT !.decision[a].status = "recovery_required"] \in Store
        BY <1>1, <2>1, DecisionChanges
      <4> QED
        BY <2>8, <3>1, <3>2, <4>1
    <3> QED
      BY <1>1, <3>2, <3>3 DEF ControlTypes
  <2>11. CASE RecoverForward(a)
    BY <1>1, <2>8, <2>9, <2>11 DEF RecoverForward, ControlTypes
  <2>12. CASE PrepareBegins(a) \/ PreparationEnds(a)
    BY <1>2, <2>12 DEF PrepareBegins, PreparationEnds
  <2> QED
    BY <1>3, <2>2, <2>3, <2>4, <2>5, <2>6, <2>7, <2>10, <2>11, <2>12 DEF AdmissionStep
<1>4. CASE ActivatePolicy
  BY <1>1, <1>4, PolicyChanges DEF ActivatePolicy, ControlTypes
<1>5. CASE HostCrash
  BY <1>1, <1>5 DEF HostCrash, ControlTypes, NoCommit
<1> QED
  BY <1>2, <1>3, <1>4, <1>5 DEF ControlNext, allVars, HostSwap
-----------------------------------------------------------------------------
(* What the steps leave of the runtime.                                    *)

\* Snapshots stay, and the durable binding only moves to a later epoch.
Grows ==
    /\ \A h \in 1..HeadRef : h \in 1..HeadRef' /\ history'[h] = history[h]
    /\ binding' = binding \/ binding.epoch < binding'.epoch

LEMMA StepGrows ==
    ASSUME ControlInv, [ControlNext]_allVars
    PROVE  Grows
<1>1. FullInv /\ KernelInv
  BY DEF ControlInv, FullInv
<1>2. CASE [EpochNext]_vars
  <2>1. history' = history \/ \E w \in World : history' = Append(history, w)
    BY <1>1, <1>2, StepStores DEF CommitsOn, AdvancesTo
  <2>2. \A h \in 1..HeadRef : h \in 1..HeadRef' /\ history'[h] = history[h]
    BY <1>1, <2>1, OldStays DEF KernelInv
  <2>3. binding' = binding \/ binding'.epoch > binding.epoch
    BY <1>1, <1>2, StepActivates
  <2>4. binding \in Binding /\ binding' \in Binding
    BY <1>1, <1>2, EpochStepKeeps DEF FullInv, EpochInv, EpochTypes
  <2> QED
    BY <2>2, <2>3, <2>4 DEF Grows, Binding
<1>3. CASE \E a \in Managed : SubmitAdmission(a)
  BY <1>3 DEF SubmitAdmission, kernelVars, Grows, HeadRef
<1> QED
  BY <1>2, <1>3, StepKinds

\* The swap of the epoch that a asks for.
Activates(a) ==
    /\ HostSwap /\ activating[Host] = a
    /\ journal'[Host][a] = binding' /\ binding'.admission = a
    /\ binding'.epoch = plan[a].epoch + 1
    /\ HeadRef' = HeadRef + 1 /\ history'[HeadRef + 1].epoch = binding'.epoch
    /\ plan'[a] = plan[a]

\* What a step does to the runtime's state about a managed admission.
Viewed(a) ==
    /\ plan'[a] = plan[a] \/ SubmitAdmission(a)
    /\ plan[a] \in Plan => plan'[a] \in Plan
    /\ activating'[Host] = a => activating[Host] = a \/ CommitBegins(a)
    /\ journal'[Host][a] \in {journal[Host][a], None} \/ Activates(a)
    /\ binding' = binding \/ binding'.admission # a \/ Activates(a)
    /\ a \in inspected'[Host] \/ prepared'[Host][a] # None =>
          a \in inspected[Host] \/ prepared[Host][a] # None \/ cp.state[a] = "authorized"

\* Preparations and entries keep their names, and other processes keep away.
Apart == Named /\ OthersApart

\* A step that leaves epoch administration and the binding alone.
LEMMA QuietViewed ==
    ASSUME Apart, binding' = binding, UNCHANGED epochVars
    PROVE  Apart' /\ \A a \in Managed : Viewed(a)
  BY DEF epochVars, Apart, Named, OthersApart, Viewed

\* A preparation that lapses.
LEMMA LapseViewed ==
    ASSUME FullInv, Apart, NEW p \in Proc, NEW c \in Admission, PreparationLapses(p, c)
    PROVE  Apart' /\ \A a \in Managed : Viewed(a)
<1>1. /\ UNCHANGED <<binding, plan, inspected, journal, activating>>
      /\ \A q \in Proc, a \in Admission : prepared'[q][a] \in {prepared[q][a], None}
  BY DEF PreparationLapses, kernelVars, FullInv, EpochInv, EpochTypes
<1> QED
  BY <1>1, ControlAssumption DEF Apart, Named, OthersApart, Viewed

\* An operation of epoch administration, other than a swap.
LEMMA OperationViewed ==
    ASSUME FullInv, Apart, NEW p \in Proc, NEW c \in Admission, EpochStep(p, c),
           c \in Managed => p = Host
    PROVE  Apart' /\ \A a \in Managed \ {c} : Viewed(a)
<1> USE ControlAssumption, AdmissionAssumption
<1>1. /\ plan \in [Admission -> Plan \cup {None}]
      /\ inspected \in [Proc -> SUBSET Admission]
      /\ prepared \in [Proc -> [Admission -> Binding \cup {None}]]
      /\ journal \in [Proc -> [Admission -> Binding \cup {None}]]
      /\ activating \in [Proc -> Admission \cup {None}]
  BY DEF FullInv, EpochInv, EpochTypes
<1>2. CASE Submit(p, c)
  <2>1. /\ UNCHANGED <<kernelVars, inspected, prepared, journal, activating>>
        /\ \A a \in Admission \ {c} : plan'[a] = plan[a]
    BY <1>1, <1>2 DEF Submit
  <2> QED
    BY <1>2, <2>1 DEF kernelVars, Apart, Named, OthersApart, Viewed
<1>3. CASE PrepareInspect(p, c)
  <2>1. /\ UNCHANGED <<binding, plan, prepared, journal, activating>>
        /\ \A q \in Proc, a \in Admission : a # c \/ q # p => (a \in inspected'[q] <=> a \in inspected[q])
    BY <1>1, <1>3 DEF PrepareInspect
  <2> QED
    BY <1>3, <2>1 DEF Apart, Named, OthersApart, Viewed
<1>4. CASE PrepareStore(p, c)
  <2>1. /\ UNCHANGED <<binding, plan, journal, activating>>
        /\ \A q \in Proc, a \in Admission : a \in inspected'[q] => a \in inspected[q]
        /\ \A q \in Proc, a \in Admission : a # c \/ q # p => prepared'[q][a] = prepared[q][a]
        /\ prepared'[p][c].admission = c
    BY <1>1, <1>4 DEF PrepareStore, kernelVars
  <2> QED
    BY <1>4, <2>1 DEF Apart, Named, OthersApart, Viewed
<1>5. CASE PreparationLapses(p, c)
  BY <1>5, LapseViewed
<1>6. CASE EpochValidate(p, c)
  <2>1. /\ UNCHANGED <<binding, plan, inspected, prepared, journal>>
        /\ activating'[p] = c /\ \A q \in Proc \ {p} : activating'[q] = activating[q]
    BY <1>1, <1>6 DEF EpochValidate
  <2> QED
    BY <1>6, <2>1 DEF Apart, Named, OthersApart, Viewed
<1>7. CASE Recover(p, c)
  BY <1>7, QuietViewed DEF Recover
<1> QED
  BY <1>2, <1>3, <1>4, <1>5, <1>6, <1>7 DEF EpochStep

\* A swap: another process's is about no managed admission.
LEMMA SwapViewed ==
    ASSUME FullInv, Apart, NEW p \in Proc, EpochSwap(p), p = Host => HostSwap
    PROVE  Apart' /\ \A a \in Managed : Viewed(a)
<1> USE ControlAssumption, AdmissionAssumption
<1>1. /\ inspected \in [Proc -> SUBSET Admission]
      /\ prepared \in [Proc -> [Admission -> Binding \cup {None}]]
      /\ journal \in [Proc -> [Admission -> Binding \cup {None}]]
      /\ activating \in [Proc -> Admission \cup {None}]
      /\ KernelInv
  BY DEF FullInv, EpochInv, EpochTypes
<1>2. /\ UNCHANGED <<plan, inspected>>
      /\ \A q \in Proc : activating'[q] \in {activating[q], None}
  BY <1>1 DEF EpochSwap
<1>3. CASE ~ StoreAccepts(call[p].head)
  <2>1. UNCHANGED <<binding, journal, prepared>>
    BY <1>3 DEF EpochSwap
  <2> QED
    BY <1>2, <2>1 DEF Apart, Named, OthersApart, Viewed
<1>4. CASE StoreAccepts(call[p].head)
  <2> DEFINE c == activating[p]
             b == prepared[p][c]
  <2>1. /\ binding' = b /\ c \in Admission /\ b \in Binding
        /\ history' = Append(history, WithEpoch(HeadWorld, b.epoch))
        /\ journal' = [journal EXCEPT ![p][c] = b]
        /\ prepared' = [prepared EXCEPT ![p][c] = None]
        /\ b.epoch = binding.epoch + 1
    BY <1>4, SwapFollows
  <2>2. b # None /\ b.epoch = plan[c].epoch + 1
    BY <2>1 DEF EpochSwap, FullInv, EpochInv, Activating, Checked, Preparing, Follows
  <2>3. b.admission = c
    BY <2>1, <2>2 DEF Apart, Named
  <2>4. WithEpoch(HeadWorld, b.epoch) \in World /\ WithEpoch(HeadWorld, b.epoch).epoch = b.epoch
    <3>1. HeadWorld \in World /\ b.epoch \in Nat /\ b.epoch > HeadWorld.epoch
      BY <1>1, <2>1, HeadTyped DEF KernelInv, FullInv, EpochInv, BindingMatchesHead, EpochTypes, Binding
    <3> QED
      BY <3>1, EpochAdvances
  <2>5. HeadRef' = HeadRef + 1 /\ history'[HeadRef + 1].epoch = b.epoch
    <3>1. HeadRef' = HeadRef + 1 /\ HeadWorld' = WithEpoch(HeadWorld, b.epoch)
      BY <1>1, <2>1, <2>4, StoreGrows DEF KernelInv
    <3> QED
      BY <2>4, <3>1 DEF HeadWorld
  <2> HIDE DEF c, b
  <2>6. /\ journal'[p][c] = b
        /\ \A q \in Proc, a \in Admission : q # p \/ a # c => journal'[q][a] = journal[q][a]
        /\ \A q \in Proc, a \in Admission : prepared'[q][a] \in {prepared[q][a], None}
    BY <1>1, <2>1
  <2>7. c \in Managed => p = Host
    BY DEF Apart, OthersApart, c
  <2>8. c \in Managed => Activates(c)
    BY <1>2, <2>1, <2>2, <2>3, <2>5, <2>6, <2>7 DEF Activates, c
  <2>9. Apart'
    BY <1>2, <2>2, <2>3, <2>6, <2>7 DEF Apart, Named, OthersApart
  <2> QED
    BY <1>2, <2>1, <2>3, <2>6, <2>7, <2>8, <2>9 DEF Viewed
<1> QED
  BY <1>3, <1>4

\* A crash takes what its process had.
LEMMA CrashViewed ==
    ASSUME FullInv, Apart, NEW p \in Proc, EpochCrash(p)
    PROVE  Apart' /\ \A a \in Managed : Viewed(a)
<1> USE ControlAssumption, AdmissionAssumption
<1>1. /\ UNCHANGED <<plan, binding>>
      /\ \A q \in Proc : /\ inspected'[q] \subseteq inspected[q]
                         /\ activating'[q] \in {activating[q], None}
                         /\ \A a \in Admission : /\ prepared'[q][a] \in {prepared[q][a], None}
                                                 /\ journal'[q][a] \in {journal[q][a], None}
  BY DEF EpochCrash, Crash, FullInv, EpochInv, EpochTypes, Nothing
<1> QED
  BY <1>1 DEF Apart, Named, OthersApart, Viewed

LEMMA StepViewed ==
    ASSUME ControlInv, [ControlNext]_allVars
    PROVE  Apart' /\ \A a \in Managed : Viewed(a)
<1> USE ControlAssumption, AdmissionAssumption
<1>1. FullInv /\ Apart /\ KernelInv /\ EpochTypes
  BY DEF ControlInv, Workflow, Apart, FullInv, EpochInv
<1>2. CASE KernelStep /\ UNCHANGED <<epochVars, controlVars>>
  BY <1>1, <1>2, QuietViewed, RuntimeEffect DEF KernelEffect
<1>3. ASSUME NEW p \in Proc \ {Host}, OtherStep(p) PROVE Apart' /\ \A a \in Managed : Viewed(a)
  <2>1. ASSUME NEW c \in Admission \ Managed, EpochStep(p, c)
        PROVE  Apart' /\ \A a \in Managed : Viewed(a)
    BY <1>1, <2>1, OperationViewed
  <2> QED
    BY <1>1, <1>3, <2>1, SwapViewed, CrashViewed DEF OtherStep
<1>4. ASSUME NEW c \in Managed, AdmissionStep(c) PROVE Apart' /\ \A a \in Managed : Viewed(a)
  <2>1. CASE SubmitAdmission(c)
    <3>1. /\ UNCHANGED <<kernelVars, inspected, prepared, journal, activating>>
          /\ \A a \in Managed \ {c} : plan'[a] = plan[a]
          /\ plan'[c] \in Plan
      <4>1. cp.active.head \in Nat /\ cp.active.generation \in Nat /\ cp.active.epoch \in Nat
        BY StoreFields DEF ControlInv, ControlTypes
      <4> QED
        BY <1>1, <2>1, <4>1 DEF SubmitAdmission, EpochTypes, Plan
    <3> QED
      BY <1>1, <2>1, <3>1 DEF kernelVars, Apart, Named, OthersApart, Viewed
  <2>2. ASSUME UNCHANGED vars PROVE Apart' /\ \A a \in Managed : Viewed(a)
    BY <1>1, <2>2, QuietViewed DEF vars, kernelVars
  <2>3. CASE EpochStep(Host, c)
    <3>1. Apart' /\ \A a \in Managed \ {c} : Viewed(a)
      BY <1>1, <2>3, OperationViewed
    <3>2. CASE PrepareBegins(c)
      BY <3>1, <3>2 DEF PrepareBegins, PrepareInspect, Viewed
    <3>3. CASE PrepareEnds(c)
      BY <3>1, <3>3 DEF PrepareEnds, PrepareStore, kernelVars, Viewed
    <3>4. CASE CommitBegins(c)
      <4>1. UNCHANGED <<plan, inspected, prepared, journal, binding>>
        BY <3>4 DEF CommitBegins, EpochValidate, vars, kernelVars, epochVars
      <4> QED
        BY <3>1, <3>4, <4>1 DEF Viewed
    <3>5. CASE \/ PreparationLapses(Host, c) \/ Recover(Host, c)
               \/ UNCHANGED vars
      BY <1>1, <2>2, <3>5, LapseViewed, QuietViewed DEF Recover
    <3> QED
      BY <1>4, <2>1, <3>2, <3>3, <3>4, <3>5 DEF AdmissionStep, Approve, PreparationEnds,
         CommitTooLate, RuntimeAnswers, Applied, Finalize, RecoverForward
  <2>4. EpochStep(Host, c) \/ UNCHANGED vars \/ SubmitAdmission(c)
    BY <1>4 DEF AdmissionStep, Approve, PrepareBegins, PrepareEnds, PreparationEnds,
         CommitTooLate, CommitBegins, RuntimeAnswers, Applied, Finalize, RecoverForward, EpochStep
  <2> QED
    BY <2>1, <2>2, <2>3, <2>4
<1>5. CASE HostSwap \/ HostCrash
  BY <1>1, <1>5, SwapViewed, CrashViewed DEF HostSwap, HostCrash
<1>6. CASE ActivatePolicy \/ UNCHANGED allVars
  BY <1>1, <1>6, QuietViewed DEF ActivatePolicy, allVars, vars, kernelVars
<1> QED
  BY <1>2, <1>3, <1>4, <1>5, <1>6 DEF ControlNext
-----------------------------------------------------------------------------
(* What is real stays real.                                                *)

\* Real and Gone, after the step.
RealNext(epoch, head, schema) ==
    /\ head \in 1..HeadRef' /\ history'[head].epoch = epoch
    /\ epoch <= binding'.epoch
    /\ epoch = binding'.epoch => schema = binding'.admission

GoneNext(a) == activating'[Host] # a /\ journal'[Host][a] = None /\ binding'.admission # a

LEMMA RealStays ==
    ASSUME ControlInv, [ControlNext]_allVars, NEW e \in Nat, NEW h, NEW c, Real(e, h, c)
    PROVE  RealNext(e, h, c)
<1>1. FullInv /\ FullInv' /\ Grows
  BY ControlKeepsFull, StepGrows DEF ControlInv
<1>2. binding.epoch \in Nat /\ binding'.epoch \in Nat
  BY <1>1 DEF FullInv, EpochInv, EpochTypes, Binding
<1> QED
  BY <1>1, <1>2 DEF Grows, Real, RealNext

\* Once decided, an admission keeps its plan, and the runtime's refusal is final.
LEMMA DecidedStays ==
    ASSUME ControlInv, [ControlNext]_allVars, NEW a \in Managed, StatusOf(cp, a) # "none"
    PROVE  /\ plan[a] \in Plan /\ plan'[a] = plan[a]
           /\ Gone(a) => GoneNext(a)
<1>1. Viewed(a)
  BY StepViewed
<1>2. /\ plan[a] \in Plan /\ cp.state[a] # "none" /\ cp.token[a] # "issued"
  BY DEF ControlInv, Workflow, Decided
<1>3. ~ SubmitAdmission(a) /\ ~ CommitBegins(a)
  BY <1>2 DEF SubmitAdmission, CommitBegins, MayCommit
<1> QED
  BY <1>1, <1>2, <1>3 DEF Viewed, Gone, GoneNext, Activates

\* A truthful store, after the step.
TruthfulNext(s) ==
    /\ RealNext(s.active.epoch, s.active.head, s.active.schema)
    /\ \A a \in Managed :
          /\ StatusOf(s, a) = "runtime_applied" =>
                RealNext(plan'[a].epoch + 1, s.decision[a].head, a)
          /\ StatusOf(s, a) = "recovery_required" =>
                RealNext(plan'[a].epoch + 1, s.decision[a].head, a) \/ GoneNext(a)

LEMMA RealisedStays ==
    ASSUME ControlInv, [ControlNext]_allVars, NEW a \in Managed, StatusOf(cp, a) # "none",
           NEW h, Real(plan[a].epoch + 1, h, a)
    PROVE  RealNext(plan'[a].epoch + 1, h, a)
<1>1. plan[a] \in Plan /\ plan'[a] = plan[a]
  BY DecidedStays
<1>2. plan[a].epoch + 1 \in Nat
  BY <1>1, PlanTyped
<1> QED
  BY <1>1, <1>2, RealStays

LEMMA TruthStays ==
    ASSUME ControlInv, [ControlNext]_allVars
    PROVE  TruthfulNext(cp) /\ TruthfulNext(disk)
<1>1. ASSUME NEW s \in Store, Truthful(s),
             \A a \in Managed : StatusOf(s, a) # "none" => StatusOf(cp, a) # "none"
      PROVE  TruthfulNext(s)
  <2>1. RealNext(s.active.epoch, s.active.head, s.active.schema)
    BY <1>1, RealStays, StoreFields DEF Truthful
  <2>2. ASSUME NEW a \in Managed, StatusOf(s, a) = "runtime_applied"
        PROVE  RealNext(plan'[a].epoch + 1, s.decision[a].head, a)
    BY <1>1, <2>2, RealisedStays DEF Truthful, Realised
  <2>3. ASSUME NEW a \in Managed, StatusOf(s, a) = "recovery_required"
        PROVE  RealNext(plan'[a].epoch + 1, s.decision[a].head, a) \/ GoneNext(a)
    BY <1>1, <2>3, RealisedStays, DecidedStays DEF Truthful, Realised
  <2> QED
    BY <2>1, <2>2, <2>3 DEF TruthfulNext
<1> QED
  BY <1>1 DEF ControlInv, ControlTypes, Workflow, WrittenAhead

\* What the runtime holds or does for an admission was decided in the file, or
\* is being decided.
LEMMA StepWritten ==
    ASSUME ControlInv, [ControlNext]_allVars, NEW a \in Managed,
           activating'[Host] = a \/ journal'[Host][a] # None \/ binding'.admission = a
    PROVE  StatusOf(disk, a) # "none" \/ CommitBegins(a)
<1>1. Viewed(a)
  BY StepViewed
<1>2. activating[Host] = a \/ journal[Host][a] # None \/ binding.admission = a
      => StatusOf(disk, a) # "none"
  BY DEF ControlInv, Workflow, WrittenAhead
<1> QED
  BY <1>1, <1>2 DEF Viewed, Activates

LEMMA StepPlanned ==
    ASSUME ControlInv, [ControlNext]_allVars
    PROVE  AsPlanned'
<1>1. AsPlanned /\ WrittenAhead /\ Grows /\ HeadRef \in Nat
  BY StepGrows, HeadTyped DEF ControlInv, Workflow, FullInv, KernelInv
<1>2. ASSUME NEW a \in Managed, ~ Activates(a)
      PROVE  /\ binding'.admission = a =>
                   binding' = binding /\ plan'[a] = plan[a]
             /\ journal'[Host][a] # None =>
                   journal'[Host][a] = journal[Host][a] /\ plan'[a] = plan[a]
  <2>1. Viewed(a)
    BY StepViewed
  <2>2. journal[Host][a] # None \/ binding.admission = a => plan'[a] = plan[a]
    BY <1>1, DecidedStays DEF WrittenAhead
  <2> QED
    BY <1>2, <2>1, <2>2 DEF Viewed
<1>3. ASSUME NEW a \in Managed
      PROVE  /\ binding'.admission = a => binding'.epoch = plan'[a].epoch + 1
             /\ journal'[Host][a] # None =>
                   /\ journal'[Host][a].epoch = plan'[a].epoch + 1
                   /\ \E h \in 1..HeadRef' : history'[h].epoch = journal'[Host][a].epoch
  <2>1. CASE Activates(a)
    <3>1. /\ journal'[Host][a] = binding' /\ binding'.epoch = plan'[a].epoch + 1
          /\ HeadRef + 1 \in 1..HeadRef' /\ history'[HeadRef + 1].epoch = binding'.epoch
      BY <1>1, <2>1 DEF Activates
    <3> QED
      BY <3>1
  <2>2. CASE ~ Activates(a)
    <3>1. binding'.admission = a => binding'.epoch = plan'[a].epoch + 1
      BY <1>1, <1>2, <2>2 DEF AsPlanned
    <3>2. ASSUME journal'[Host][a] # None
          PROVE  /\ journal'[Host][a].epoch = plan'[a].epoch + 1
                 /\ \E h \in 1..HeadRef' : history'[h].epoch = journal'[Host][a].epoch
      <4>1. journal'[Host][a] = journal[Host][a] /\ plan'[a] = plan[a]
        BY <1>2, <2>2, <3>2
      <4>2. PICK h \in 1..HeadRef : history[h].epoch = journal[Host][a].epoch
        BY <1>1, <3>2, <4>1 DEF AsPlanned
      <4>3. h \in 1..HeadRef' /\ history'[h].epoch = journal'[Host][a].epoch
        BY <1>1, <4>1, <4>2 DEF Grows
      <4> QED
        BY <1>1, <3>2, <4>1, <4>3 DEF AsPlanned
    <3> QED
      BY <3>1, <3>2
  <2> QED
    BY <2>1, <2>2
<1> QED
  BY <1>3 DEF AsPlanned
-----------------------------------------------------------------------------
(* The stores.                                                             *)

\* Memory and file agree on what is decided; a commit call under way has its
\* decision in the file.
Agreeing ==
    \A a \in Managed :
        /\ StatusOf(cp, a) # "none" <=> StatusOf(disk, a) # "none"
        /\ committing[a] # "no" => StatusOf(disk, a) # "none"

StoresGood ==
    /\ Decided(cp) /\ Decided(disk) /\ Agreeing
    /\ Truthful(cp) /\ Truthful(disk)
    /\ \A a \in Managed : committing[a] = "finalize" => Realised(cp, a)

\* The file forgets no decision.
Remembered == \A a \in Managed : StatusOf(disk, a) # "none" => StatusOf(disk', a) # "none"

LEMMA StoresAreGood ==
    ASSUME ControlInv
    PROVE  StoresGood
  BY DEF ControlInv, Workflow, WrittenAhead, StoresGood, Agreeing

\* No plan is withdrawn.
LEMMA PlansStay ==
    ASSUME ControlInv, [ControlNext]_allVars, NEW a \in Managed, plan[a] \in Plan
    PROVE  plan'[a] \in Plan
  BY StepViewed DEF Viewed

\* The finalizing commits stay entitled to what they will finalize.
LEMMA FinalizingStays ==
    ASSUME ControlInv, [ControlNext]_allVars, NEW a \in Managed, committing[a] = "finalize"
    PROVE  RealNext(plan'[a].epoch + 1, cp.decision[a].head, a)
<1>1. Realised(cp, a) /\ StatusOf(cp, a) # "none"
  BY DEF ControlInv, Workflow, WrittenAhead
<1> QED
  BY <1>1, RealisedStays DEF Realised

\* A step that changes neither the memory nor the file.
LEMMA SilentStores ==
    ASSUME ControlInv, [ControlNext]_allVars, UNCHANGED controlVars
    PROVE  StoresGood' /\ Remembered
<1>1. /\ cp' = cp /\ disk' = disk /\ committing' = committing
      /\ TruthfulNext(cp) /\ TruthfulNext(disk) /\ StoresGood
  BY TruthStays, StoresAreGood DEF controlVars
<1>2. Decided(cp)' /\ Decided(disk)'
  BY <1>1, PlansStay DEF StoresGood, Decided, StatusOf
<1>3. Truthful(cp)' /\ Truthful(disk)'
  BY <1>1 DEF Truthful, TruthfulNext, Real, RealNext, Realised, Gone, GoneNext, StatusOf
<1>4. Agreeing' /\ Remembered
  BY <1>1 DEF StoresGood, Agreeing, Remembered, StatusOf
<1>5. \A a \in Managed : committing'[a] = "finalize" => Realised(cp, a)'
  BY <1>1, FinalizingStays DEF Realised, Real, RealNext
<1> QED
  BY <1>2, <1>3, <1>4, <1>5 DEF StoresGood

\* A step before the decision: the memory changes about one admission.
LEMMA EditedStores ==
    ASSUME ControlInv, [ControlNext]_allVars, NEW a \in Managed, StatusOf(cp, a) = "none",
           cp'.active = cp.active, cp'.decision = cp.decision,
           \A b \in Managed \ {a} : cp'.state[b] = cp.state[b] /\ cp'.token[b] = cp.token[b],
           plan'[a] \in Plan, disk' = disk, committing' = committing
    PROVE  StoresGood' /\ Remembered
<1>1. TruthfulNext(cp) /\ TruthfulNext(disk) /\ StoresGood
  BY TruthStays, StoresAreGood
<1>2. Decided(cp)' /\ Decided(disk)'
  BY <1>1, PlansStay DEF StoresGood, Decided, StatusOf
<1>3. Truthful(cp)' /\ Truthful(disk)'
  BY <1>1 DEF Truthful, TruthfulNext, Real, RealNext, Realised, Gone, GoneNext, StatusOf
<1>4. Agreeing' /\ Remembered
  BY <1>1 DEF StoresGood, Agreeing, Remembered, StatusOf
<1>5. \A b \in Managed : committing'[b] = "finalize" => Realised(cp, b)'
  BY FinalizingStays DEF Realised, Real, RealNext
<1> QED
  BY <1>2, <1>3, <1>4, <1>5 DEF StoresGood

\* A step of one commit from its decision on.
LEMMA RecordedStores ==
    ASSUME ControlInv, [ControlNext]_allVars, NEW a \in Managed, plan'[a] \in Plan,
           StatusOf(cp', a) # "none",
           cp'.state[a] \in {"prepared", "committed"}, cp'.token[a] = "consumed",
           \A b \in Managed \ {a} : /\ cp'.state[b] = cp.state[b] /\ cp'.token[b] = cp.token[b]
                                    /\ cp'.decision[b] = cp.decision[b]
                                    /\ committing'[b] = committing[b],
           disk' = cp' \/ (disk' = disk /\ StatusOf(cp, a) # "none"),
           RealNext(cp'.active.epoch, cp'.active.head, cp'.active.schema),
           StatusOf(cp', a) = "runtime_applied" \/ committing'[a] = "finalize" =>
              RealNext(plan'[a].epoch + 1, cp'.decision[a].head, a),
           StatusOf(cp', a) = "recovery_required" =>
              RealNext(plan'[a].epoch + 1, cp'.decision[a].head, a) \/ GoneNext(a)
    PROVE  StoresGood' /\ Remembered
<1>1. TruthfulNext(cp) /\ TruthfulNext(disk) /\ StoresGood
  BY TruthStays, StoresAreGood
<1>2. Decided(cp)'
  BY <1>1, PlansStay DEF StoresGood, Decided, StatusOf
<1>3. Decided(disk)'
  BY <1>1, <1>2, PlansStay DEF StoresGood, Decided, StatusOf
<1>4. Truthful(cp)'
  BY <1>1 DEF Truthful, TruthfulNext, Real, RealNext, Realised, Gone, GoneNext, StatusOf
<1>5. Truthful(disk)'
  BY <1>1, <1>4 DEF Truthful, TruthfulNext, Real, RealNext, Realised, Gone, GoneNext, StatusOf
<1>6. Agreeing' /\ Remembered
  BY <1>1 DEF StoresGood, Agreeing, Remembered, StatusOf
<1>7. \A b \in Managed : committing'[b] = "finalize" => Realised(cp, b)'
  <2>1. ASSUME NEW b \in Managed \ {a}, committing'[b] = "finalize" PROVE Realised(cp, b)'
    BY <2>1, FinalizingStays DEF Realised, Real, RealNext
  <2>2. committing'[a] = "finalize" => Realised(cp, a)'
    BY DEF Realised, Real, RealNext
  <2> QED
    BY <2>1, <2>2
<1> QED
  BY <1>2, <1>3, <1>4, <1>5, <1>6, <1>7 DEF StoresGood

\* A policy's binding is of the same epoch, head and schema.
LEMMA PolicyStores ==
    ASSUME ControlInv, ActivatePolicy
    PROVE  StoresGood' /\ Remembered
<1>0. [ControlNext]_allVars
  BY DEF ControlNext
<1>1. TruthfulNext(cp) /\ StoresGood /\ cp \in Store
  BY <1>0, TruthStays, StoresAreGood DEF ControlInv, ControlTypes
<1>2. /\ cp' = [cp EXCEPT !.active.generation = @ + 1, !.policies = @ + 1]
      /\ disk' = cp' /\ committing' = committing
  BY DEF ActivatePolicy
<1>3. /\ cp'.state = cp.state /\ cp'.token = cp.token /\ cp'.decision = cp.decision
      /\ cp'.active.epoch = cp.active.epoch /\ cp'.active.head = cp.active.head
      /\ cp'.active.schema = cp.active.schema
  BY <1>1, <1>2 DEF Store, Active
<1>4. Decided(cp)'
  BY <1>0, <1>1, <1>3, PlansStay DEF StoresGood, Decided, StatusOf
<1>5. Truthful(cp)'
  BY <1>1, <1>3 DEF Truthful, TruthfulNext, Real, RealNext, Realised, Gone, GoneNext, StatusOf
<1>6. Decided(disk)' /\ Truthful(disk)'
  BY <1>2, <1>4, <1>5 DEF Decided, Truthful, Real, Realised, Gone, StatusOf
<1>7. Agreeing' /\ Remembered
  BY <1>1, <1>2, <1>3 DEF StoresGood, Agreeing, Remembered, StatusOf
<1>8. \A a \in Managed : committing'[a] = "finalize" => Realised(cp, a)'
  BY <1>0, <1>2, <1>3, FinalizingStays DEF Realised, Real, RealNext
<1> QED
  BY <1>4, <1>5, <1>6, <1>7, <1>8 DEF StoresGood

\* A restart goes back to the file.
LEMMA RestartedStores ==
    ASSUME ControlInv, HostCrash
    PROVE  StoresGood' /\ Remembered
<1>0. [ControlNext]_allVars
  BY DEF ControlNext
<1>1. TruthfulNext(disk) /\ StoresGood
  BY <1>0, TruthStays, StoresAreGood
<1>2. cp' = disk /\ disk' = disk /\ committing' = [a \in Managed |-> "no"]
  BY DEF HostCrash, NoCommit
<1>3. Decided(disk)'
  BY <1>0, <1>1, <1>2, PlansStay DEF StoresGood, Decided, StatusOf
<1>4. Truthful(disk)'
  BY <1>1, <1>2 DEF Truthful, TruthfulNext, Real, RealNext, Realised, Gone, GoneNext, StatusOf
<1>5. Decided(cp)' /\ Truthful(cp)'
  BY <1>2, <1>3, <1>4 DEF Decided, Truthful, Real, Realised, Gone, StatusOf
<1>6. Agreeing' /\ Remembered /\ \A a \in Managed : committing'[a] # "finalize"
  BY <1>2 DEF Agreeing, Remembered, StatusOf
<1> QED
  BY <1>3, <1>4, <1>5, <1>6 DEF StoresGood
-----------------------------------------------------------------------------
(* The steps of an admission.                                              *)

LEMMA BeforeDecision ==
    ASSUME ControlInv, NEW a \in Managed,
           SubmitAdmission(a) \/ Approve(a) \/ PrepareEnds(a) \/ CommitTooLate(a)
    PROVE  StoresGood' /\ Remembered
<1>0. [ControlNext]_allVars
  BY DEF ControlNext, AdmissionStep
<1>1. /\ cp \in Store /\ Decided(cp) /\ Viewed(a)
  BY <1>0, StepViewed DEF ControlInv, ControlTypes, Workflow
<1>2. StatusOf(cp, a) = "none"
  BY <1>1 DEF Decided, SubmitAdmission, Approve, PrepareEnds, CommitTooLate, MayCommit
<1>3. /\ cp'.active = cp.active /\ cp'.decision = cp.decision
      /\ \A b \in Managed \ {a} : cp'.state[b] = cp.state[b] /\ cp'.token[b] = cp.token[b]
      /\ disk' = disk /\ committing' = committing
  <2>1. CASE SubmitAdmission(a)
    BY <1>1, <2>1 DEF Store, SubmitAdmission
  <2>2. CASE Approve(a)
    BY <1>1, <2>2 DEF Store, Approve
  <2>3. CASE PrepareEnds(a)
    BY <1>1, <2>3 DEF Store, PrepareEnds
  <2>4. CASE CommitTooLate(a)
    BY <1>1, <2>4 DEF Store, CommitTooLate
  <2> QED
    BY <2>1, <2>2, <2>3, <2>4
<1>4. plan'[a] \in Plan
  <2>1. CASE SubmitAdmission(a)
    <3>1. cp.active.head \in Nat /\ cp.active.generation \in Nat /\ cp.active.epoch \in Nat
      BY <1>1, StoreFields
    <3>2. plan \in [Admission -> Plan \cup {None}] /\ a \in Admission
      BY ControlAssumption DEF ControlInv, FullInv, EpochInv, EpochTypes
    <3> QED
      BY <2>1, <3>1, <3>2 DEF SubmitAdmission, Plan
  <2>2. CASE Approve(a) \/ PrepareEnds(a) \/ CommitTooLate(a)
    <3>1. plan[a] \in Plan
      BY <1>1, <2>2 DEF Decided, Approve, PrepareEnds, CommitTooLate, MayCommit
    <3> QED
      BY <1>0, <3>1, PlansStay
  <2> QED
    BY <2>1, <2>2
<1> QED
  BY <1>0, <1>2, <1>3, <1>4, EditedStores

\* What a decision touches of a store.
LEMMA DecideFields ==
    ASSUME NEW s \in Store, NEW a \in Managed, NEW y, NEW h, NEW n, n = Decide(s, a, y, h)
    PROVE  /\ StatusOf(n, a) = y /\ n.decision[a].head = h
           /\ n.active = s.active /\ n.state = s.state /\ n.token = s.token
           /\ \A b \in Managed \ {a} : n.decision[b] = s.decision[b]
  BY DEF Store, Decide, StatusOf

\* What leaving it to recovery touches.
LEMMA StatusFields ==
    ASSUME NEW s \in Store, NEW a \in Managed, NEW n,
           n = [s EXCEPT !.decision[a].status = "recovery_required"]
    PROVE  /\ StatusOf(n, a) = "recovery_required" /\ n.decision[a].head = s.decision[a].head
           /\ n.active = s.active /\ n.state = s.state /\ n.token = s.token
           /\ \A b \in Managed \ {a} : n.decision[b] = s.decision[b]
  BY DEF Store, Decision, StatusOf

\* What its end touches.
LEMMA FinalizedFields ==
    ASSUME cp \in Store, NEW a \in Managed, NEW n, n = Finalized(a)
    PROVE  /\ StatusOf(n, a) = "finalized" /\ n.decision[a].head = cp.decision[a].head
           /\ n.active = NextActive(a) /\ n.token = cp.token /\ n.state[a] = "committed"
           /\ \A b \in Managed \ {a} : n.decision[b] = cp.decision[b] /\ n.state[b] = cp.state[b]
  BY DEF Finalized, Store, Decision, StatusOf

LEMMA DecidingStores ==
    ASSUME ControlInv, NEW a \in Managed, CommitBegins(a)
    PROVE  StoresGood' /\ Remembered
<1> DEFINE used == [cp EXCEPT !.token[a] = "consumed"]
<1>0. [ControlNext]_allVars
  BY DEF ControlNext, AdmissionStep
<1>1. cp \in Store /\ Decided(cp) /\ TruthfulNext(cp)
      /\ committing \in [Managed -> {"no", "runtime", "finalize"}]
  BY <1>0, TruthStays DEF ControlInv, ControlTypes, Workflow
<1>2. /\ cp.state[a] = "prepared" /\ cp' = Decide(used, a, "decided", plan[a].head)
      /\ disk' = cp' /\ committing' = [committing EXCEPT ![a] = "runtime"]
  BY DEF CommitBegins, MayCommit, RecordDecision
<1>3. /\ used \in Store /\ used.active = cp.active /\ used.state = cp.state
      /\ used.token[a] = "consumed" /\ used.decision = cp.decision
      /\ \A b \in Managed \ {a} : used.token[b] = cp.token[b]
  BY <1>1 DEF Store
<1> HIDE DEF used
<1>4. /\ StatusOf(cp', a) = "decided" /\ cp'.active = cp.active /\ cp'.state = cp.state
      /\ cp'.token[a] = "consumed"
      /\ \A b \in Managed \ {a} : /\ cp'.token[b] = cp.token[b]
                                  /\ cp'.decision[b] = cp.decision[b]
  <2>1. /\ StatusOf(cp', a) = "decided" /\ cp'.active = used.active
        /\ cp'.state = used.state /\ cp'.token = used.token
        /\ \A b \in Managed \ {a} : cp'.decision[b] = used.decision[b]
    BY <1>2, <1>3, DecideFields
  <2> QED
    BY <1>3, <2>1
<1>5. plan[a] \in Plan /\ plan'[a] \in Plan
  BY <1>0, <1>1, <1>2, PlansStay DEF Decided
<1>6. RealNext(cp'.active.epoch, cp'.active.head, cp'.active.schema)
  BY <1>1, <1>4 DEF TruthfulNext
<1> QED
  BY <1>0, <1>1, <1>2, <1>4, <1>5, <1>6, RecordedStores

\* What the runtime answered was activated for a.
LEMMA AppliedIsReal ==
    ASSUME ControlInv, NEW a \in Managed, NEW head, Applied(a, head)
    PROVE  Real(plan[a].epoch + 1, head, a)
<1>1. /\ EpochTypes /\ HoldersBehind /\ BindingMatchesHead /\ AsPlanned /\ Named
      /\ HeadRef \in Nat /\ HeadRef > 0 /\ Host \in Proc /\ a \in Admission
  BY ControlAssumption, HeadTyped DEF ControlInv, FullInv, KernelInv, EpochInv, Workflow
<1>2. CASE journal[Host][a] # None
  <2> DEFINE e == journal[Host][a].epoch
             S == {h \in 1..HeadRef : history[h].epoch = e}
  <2>1. head = ActivationHead(e) /\ e = plan[a].epoch + 1
    BY <1>1, <1>2 DEF Applied, AsPlanned
  <2>2. \E h \in 1..HeadRef : history[h].epoch = e
    BY <1>1, <1>2 DEF AsPlanned
  <2>3. head \in 1..HeadRef /\ history[head].epoch = e
    <3>1. S \subseteq Nat /\ S # {}
      BY <1>1, <2>2
    <3>2. PICK m \in S : \A i \in S : m <= i
      <4> HIDE DEF S
      <4> QED
        BY <3>1, LeastExists, LeastIsLeast
    <3>3. \E h \in 1..HeadRef : /\ history[h].epoch = e
                                /\ \A i \in 1..HeadRef : history[i].epoch = e => h <= i
      BY <3>2
    <3> HIDE DEF e
    <3> QED
      BY <2>1, <3>3 DEF ActivationHead
  <2>4. journal[Host][a] \in Binding /\ binding \in Binding /\ Behind(journal[Host][a])
        /\ journal[Host][a].admission = a
    BY <1>1, <1>2 DEF EpochTypes, HoldersBehind, Named
  <2>5. e <= binding.epoch /\ (e = binding.epoch => a = binding.admission)
    BY <2>4 DEF Behind, Binding
  <2> QED
    BY <2>1, <2>3, <2>5 DEF Real
<1>3. CASE journal[Host][a] = None
  <2>1. /\ head = HeadRef /\ binding.admission = a /\ binding.epoch = HeadWorld.epoch
    BY <1>3 DEF Applied, Recover, Recoverable
  <2>2. binding.epoch = plan[a].epoch + 1 /\ binding.epoch \in Nat
    BY <1>1, <2>1 DEF AsPlanned, EpochTypes, Binding
  <2> QED
    BY <1>1, <2>1, <2>2 DEF Real, HeadWorld
<1> QED
  BY <1>2, <1>3

\* An idle process has no commit call.
LEMMA FreeMeansIdle ==
    ASSUME ControlInv, Free
    PROVE  activating[Host] = None /\ \A a \in Managed : activating[Host] # a
  BY ControlAssumption, AdmissionAssumption DEF Free, ControlInv, FullInv, EpochInv, Activating

LEMMA AnsweredStores ==
    ASSUME ControlInv, NEW a \in Managed, RuntimeAnswers(a)
    PROVE  StoresGood' /\ Remembered
<1>0. [ControlNext]_allVars
  BY DEF ControlNext, AdmissionStep
<1>1. /\ cp \in Store /\ Decided(cp) /\ TruthfulNext(cp)
      /\ committing \in [Managed -> {"no", "runtime", "finalize"}]
      /\ Free /\ committing[a] = "runtime" /\ disk' = cp'
  BY <1>0, TruthStays DEF ControlInv, ControlTypes, Workflow, RuntimeAnswers
<1>2. StatusOf(cp, a) # "none"
  BY <1>1 DEF ControlInv, Workflow, WrittenAhead
<1>3. /\ cp.state[a] \in {"prepared", "committed"} /\ cp.token[a] = "consumed"
      /\ plan'[a] \in Plan
  BY <1>0, <1>1, <1>2, DecidedStays DEF Decided
<1>4. ASSUME NEW head \in 1..HeadRef, Applied(a, head),
             cp' = Decide(cp, a, "runtime_applied", head),
             committing' = [committing EXCEPT ![a] = "finalize"]
      PROVE  StoresGood' /\ Remembered
  <2>1. RealNext(plan'[a].epoch + 1, head, a)
    BY <1>0, <1>2, <1>4, AppliedIsReal, RealisedStays
  <2>2. /\ StatusOf(cp', a) = "runtime_applied" /\ cp'.decision[a].head = head
        /\ cp'.active = cp.active /\ cp'.state = cp.state /\ cp'.token = cp.token
        /\ \A b \in Managed \ {a} : cp'.decision[b] = cp.decision[b]
    BY <1>1, <1>4, DecideFields
  <2>3. RealNext(cp'.active.epoch, cp'.active.head, cp'.active.schema)
    BY <1>1, <2>2 DEF TruthfulNext
  <2> QED
    BY <1>0, <1>1, <1>3, <1>4, <2>1, <2>2, <2>3, RecordedStores
<1>5. ASSUME RuntimeRefused(a), cp' = [cp EXCEPT !.decision[a].status = "recovery_required"],
             committing' = [committing EXCEPT ![a] = "no"]
      PROVE  StoresGood' /\ Remembered
  <2>1. GoneNext(a)
    <3>1. BindingMatchesHead /\ activating[Host] # a
      BY <1>1, FreeMeansIdle DEF ControlInv, FullInv, EpochInv
    <3>2. Gone(a)
      BY <1>5, <3>1 DEF RuntimeRefused, Recoverable, Gone, BindingMatchesHead
    <3> QED
      BY <1>0, <1>2, <3>2, DecidedStays
  <2>2. /\ StatusOf(cp', a) = "recovery_required"
        /\ cp'.active = cp.active /\ cp'.state = cp.state /\ cp'.token = cp.token
        /\ \A b \in Managed \ {a} : cp'.decision[b] = cp.decision[b]
    BY <1>1, <1>5, StatusFields
  <2>3. RealNext(cp'.active.epoch, cp'.active.head, cp'.active.schema)
    BY <1>1, <2>2 DEF TruthfulNext
  <2> QED
    BY <1>0, <1>1, <1>3, <1>5, <2>1, <2>2, <2>3, RecordedStores
<1> QED
  BY <1>4, <1>5 DEF RuntimeAnswers

\* A finalization, or the recovery that stands in for it.
LEMMA FinalizedStores ==
    ASSUME ControlInv, [ControlNext]_allVars, NEW a \in Managed, StatusOf(cp, a) # "none",
           Real(plan[a].epoch + 1, cp.decision[a].head, a),
           cp' = Finalized(a), disk' = cp',
           committing' = committing \/ committing' = [committing EXCEPT ![a] = "no"]
    PROVE  StoresGood' /\ Remembered
<1>1. /\ cp \in Store /\ Decided(cp)
      /\ committing \in [Managed -> {"no", "runtime", "finalize"}]
  BY DEF ControlInv, ControlTypes, Workflow
<1>2. cp.token[a] = "consumed" /\ plan'[a] = plan[a] /\ plan'[a] \in Plan
  BY <1>1, DecidedStays DEF Decided
<1>3. /\ StatusOf(cp', a) = "finalized" /\ cp'.decision[a].head = cp.decision[a].head
      /\ cp'.active = NextActive(a) /\ cp'.token = cp.token /\ cp'.state[a] = "committed"
      /\ \A b \in Managed \ {a} : cp'.decision[b] = cp.decision[b] /\ cp'.state[b] = cp.state[b]
  BY <1>1, FinalizedFields
<1>4. RealNext(plan'[a].epoch + 1, cp'.decision[a].head, a)
  BY <1>3, RealisedStays
<1>5. /\ cp'.active.epoch = plan'[a].epoch + 1 /\ cp'.active.head = cp'.decision[a].head
      /\ cp'.active.schema = a
  BY <1>2, <1>3 DEF NextActive
<1>6. RealNext(cp'.active.epoch, cp'.active.head, cp'.active.schema)
  BY <1>4, <1>5
<1>7. \A b \in Managed \ {a} : committing'[b] = committing[b]
  BY <1>1
<1> QED
  BY <1>2, <1>3, <1>4, <1>6, <1>7, RecordedStores

LEMMA FinalizeStores ==
    ASSUME ControlInv, NEW a \in Managed, Finalize(a)
    PROVE  StoresGood' /\ Remembered
<1>0. [ControlNext]_allVars
  BY DEF ControlNext, AdmissionStep
<1>1. /\ cp \in Store /\ Decided(cp) /\ TruthfulNext(cp)
      /\ committing \in [Managed -> {"no", "runtime", "finalize"}]
      /\ committing[a] = "finalize" /\ committing' = [committing EXCEPT ![a] = "no"]
  BY <1>0, TruthStays DEF ControlInv, ControlTypes, Workflow, Finalize
<1>2. StatusOf(cp, a) # "none" /\ Real(plan[a].epoch + 1, cp.decision[a].head, a)
  BY <1>1 DEF ControlInv, Workflow, WrittenAhead, Realised
<1>3. /\ cp.state[a] \in {"prepared", "committed"} /\ cp.token[a] = "consumed"
      /\ plan'[a] \in Plan /\ RealNext(plan'[a].epoch + 1, cp.decision[a].head, a)
  BY <1>0, <1>1, <1>2, DecidedStays, RealisedStays DEF Decided
<1>4. CASE Swaps(a) /\ cp' = Finalized(a) /\ disk' = cp'
  BY <1>0, <1>1, <1>2, <1>4, FinalizedStores
<1>5. CASE /\ cp' = [cp EXCEPT !.state[a] = "committed", !.decision[a].status = "finalized"]
           /\ UNCHANGED disk
  <2>1. /\ StatusOf(cp', a) = "finalized" /\ cp'.decision[a].head = cp.decision[a].head
        /\ cp'.active = cp.active /\ cp'.token = cp.token /\ cp'.state[a] = "committed"
        /\ \A b \in Managed \ {a} : cp'.decision[b] = cp.decision[b] /\ cp'.state[b] = cp.state[b]
    BY <1>1, <1>5 DEF Store, Decision, StatusOf
  <2>2. RealNext(cp'.active.epoch, cp'.active.head, cp'.active.schema)
    BY <1>1, <2>1 DEF TruthfulNext
  <2> QED
    BY <1>0, <1>1, <1>2, <1>3, <1>5, <2>1, <2>2, RecordedStores
<1>6. CASE cp' = [cp EXCEPT !.decision[a].status = "recovery_required"] /\ disk' = cp'
  <2>1. /\ StatusOf(cp', a) = "recovery_required" /\ cp'.decision[a].head = cp.decision[a].head
        /\ cp'.active = cp.active /\ cp'.state = cp.state /\ cp'.token = cp.token
        /\ \A b \in Managed \ {a} : cp'.decision[b] = cp.decision[b]
    BY <1>1, <1>6, StatusFields
  <2>2. RealNext(cp'.active.epoch, cp'.active.head, cp'.active.schema)
    BY <1>1, <2>1 DEF TruthfulNext
  <2> QED
    BY <1>0, <1>1, <1>3, <1>6, <2>1, <2>2, RecordedStores
<1> QED
  BY <1>4, <1>5, <1>6 DEF Finalize

LEMMA RecoveredStores ==
    ASSUME ControlInv, NEW a \in Managed, RecoverForward(a)
    PROVE  StoresGood' /\ Remembered
<1>0. [ControlNext]_allVars
  BY DEF ControlNext, AdmissionStep
<1>1. CASE ~ Swaps(a)
  BY <1>0, <1>1, SilentStores DEF RecoverForward, controlVars
<1>2. CASE Swaps(a)
  <2>1. /\ cp' = Finalized(a) /\ disk' = cp' /\ committing' = committing
        /\ StatusOf(cp, a) \in {"runtime_applied", "recovery_required"} /\ Recoverable(Host, a)
    BY <1>2 DEF RecoverForward, Recover
  <2>2. Realised(cp, a) \/ Gone(a)
    BY <2>1 DEF ControlInv, Workflow, Truthful
  <2>3. ~ Gone(a)
    BY <2>1 DEF Recoverable, Gone
  <2> QED
    BY <1>0, <2>1, <2>2, <2>3, FinalizedStores DEF Realised
<1> QED
  BY <1>1, <1>2

\* Every step keeps the stores good and the file's decisions.
LEMMA StoresKept ==
    ASSUME ControlInv, [ControlNext]_allVars
    PROVE  StoresGood' /\ Remembered
<1>1. ASSUME NEW a \in Managed, AdmissionStep(a) PROVE StoresGood' /\ Remembered
  <2>1. CASE SubmitAdmission(a) \/ Approve(a) \/ PrepareEnds(a) \/ CommitTooLate(a)
    BY <2>1, BeforeDecision
  <2>2. CASE PrepareBegins(a) \/ PreparationEnds(a)
    BY <2>2, SilentStores DEF PrepareBegins, PreparationEnds
  <2>3. CASE CommitBegins(a)
    BY <2>3, DecidingStores
  <2>4. CASE RuntimeAnswers(a)
    BY <2>4, AnsweredStores
  <2>5. CASE Finalize(a)
    BY <2>5, FinalizeStores
  <2>6. CASE RecoverForward(a)
    BY <2>6, RecoveredStores
  <2> QED
    BY <1>1, <2>1, <2>2, <2>3, <2>4, <2>5, <2>6 DEF AdmissionStep
<1>2. CASE UNCHANGED controlVars
  BY <1>2, SilentStores
<1> QED
  BY <1>1, <1>2, PolicyStores, RestartedStores DEF ControlNext, HostSwap, allVars

\* Nothing but a restart forgets a submission, and one takes what was prepared.
LEMMA StepUnsubmitted ==
    ASSUME ControlInv, [ControlNext]_allVars
    PROVE  Unsubmitted'
<1>1. cp \in Store /\ Unsubmitted /\ Host \in Proc /\ Managed \subseteq Admission
  BY ControlAssumption DEF ControlInv, ControlTypes, Workflow
<1>2. CASE HostCrash
  <2>1. inspected'[Host] = {} /\ prepared'[Host] = Nothing
    BY <1>1, <1>2 DEF HostCrash, EpochCrash, ControlInv, FullInv, EpochInv, EpochTypes
  <2> QED
    BY <1>1, <2>1 DEF Unsubmitted, Nothing
<1>3. ASSUME ~ HostCrash, NEW a \in Managed, cp'.state[a] = "none"
      PROVE  cp.state[a] = "none"
  <2>1. CASE cp' = cp
    BY <1>3, <2>1
  <2>2. CASE ActivatePolicy
    BY <1>1, <1>3, <2>2 DEF ActivatePolicy, Store
  <2>3. ASSUME NEW b \in Managed, AdmissionStep(b) PROVE cp.state[a] = "none"
    <3>1. CASE cp' = Finalized(b)
      <4>1. cp'.state[b] = "committed" /\ \A c \in Managed \ {b} : cp'.state[c] = cp.state[c]
        BY <1>1, <3>1, FinalizedFields
      <4> QED
        BY <1>3, <4>1
    <3>2. CASE cp' # Finalized(b)
      <4>1. CASE SubmitAdmission(b) \/ Approve(b) \/ PrepareEnds(b)
        <5>1. \/ cp'.state = [cp.state EXCEPT ![b] = "awaiting_authorization"]
              \/ cp'.state = [cp.state EXCEPT ![b] = "authorized"]
              \/ cp'.state = [cp.state EXCEPT ![b] = "prepared"]
          BY <1>1, <4>1 DEF SubmitAdmission, Approve, PrepareEnds, Store
        <5>2. cp.state \in [Managed -> AdmissionState]
          BY <1>1, StoreFields
        <5> QED
          BY <1>3, <5>1, <5>2
      <4>2. CASE CommitTooLate(b) \/ CommitBegins(b)
        BY <1>1, <1>3, <4>2 DEF CommitTooLate, CommitBegins, RecordDecision, Decide, Store
      <4>3. CASE RuntimeAnswers(b)
        BY <1>1, <1>3, <4>3 DEF RuntimeAnswers, Decide, Store
      <4>4. CASE Finalize(b)
        <5>1. cp'.state = cp.state \/ cp'.state = [cp.state EXCEPT ![b] = "committed"]
          BY <1>1, <3>2, <4>4 DEF Finalize, Store
        <5>2. cp.state \in [Managed -> AdmissionState]
          BY <1>1, StoreFields
        <5> QED
          BY <1>3, <5>1, <5>2
      <4>5. CASE PrepareBegins(b) \/ PreparationEnds(b) \/ RecoverForward(b)
        BY <1>1, <1>3, <3>2, <4>5 DEF PrepareBegins, PreparationEnds, RecoverForward, controlVars
      <4> QED
        BY <2>3, <4>1, <4>2, <4>3, <4>4, <4>5 DEF AdmissionStep
    <3> QED
      BY <3>1, <3>2
  <2> QED
    BY <1>3, <2>1, <2>2, <2>3 DEF ControlNext, HostSwap, controlVars, allVars
<1>4. ASSUME ~ HostCrash, NEW a \in Managed, cp'.state[a] = "none"
      PROVE  a \notin inspected'[Host] /\ prepared'[Host][a] = None
  <2>1. cp.state[a] = "none" /\ Viewed(a)
    BY <1>3, <1>4, StepViewed
  <2> QED
    BY <1>1, <2>1 DEF Unsubmitted, Viewed
<1> QED
  BY <1>2, <1>4 DEF Unsubmitted

LEMMA ControlStepKeeps ==
    ASSUME ControlInv, [ControlNext]_allVars
    PROVE  ControlInv'
<1>1. StoresGood' /\ Remembered /\ Apart' /\ AsPlanned' /\ Unsubmitted'
  BY StoresKept, StepViewed, StepPlanned, StepUnsubmitted
<1>2. WrittenAhead'
  <2>1. ASSUME NEW a \in Managed,
               activating'[Host] = a \/ journal'[Host][a] # None \/ binding'.admission = a
        PROVE  StatusOf(disk', a) # "none"
    <3>1. CASE StatusOf(disk, a) # "none"
      BY <1>1, <3>1 DEF Remembered
    <3>2. CASE CommitBegins(a)
      <4>1. committing'[a] = "runtime"
        BY <3>2 DEF CommitBegins, ControlInv, ControlTypes
      <4> QED
        BY <1>1, <4>1 DEF StoresGood, Agreeing, StatusOf
    <3> QED
      BY <2>1, <3>1, <3>2, StepWritten
  <2> QED
    BY <1>1, <2>1 DEF WrittenAhead, StoresGood, Agreeing, StatusOf
<1>3. Workflow'
  BY <1>1, <1>2 DEF Workflow, StoresGood, Apart
<1> QED
  BY <1>3, TypesKept, ControlKeepsFull DEF ControlInv

LEMMA ControlInitInv == ControlInit => ControlInv
<1> SUFFICES ASSUME ControlInit PROVE ControlInv
  OBVIOUS
<1> USE ControlAssumption, AdmissionAssumption
<1>1. FullInv
  BY EpochInitInv DEF ControlInit
<1>2. /\ history = <<Genesis>> /\ binding = [generation |-> 1, epoch |-> 1, admission |-> None]
      /\ inspected = [p \in Proc |-> {}]
      /\ prepared = [p \in Proc |-> Nothing] /\ journal = [p \in Proc |-> Nothing]
      /\ activating = [p \in Proc |-> None]
      /\ cp = [active |-> [generation |-> 1, epoch |-> 1, head |-> 1, schema |-> None],
               state |-> [a \in Managed |-> "none"],
               token |-> [a \in Managed |-> "none"],
               decision |-> [a \in Managed |-> [status |-> "none", head |-> 0]],
               policies |-> 0]
      /\ disk = cp /\ committing = [a \in Managed |-> "no"]
  BY DEF ControlInit, EpochInit, KernelInit, NoCommit
<1>3. ControlTypes
  BY <1>2 DEF ControlTypes, Store, Active, AdmissionState, Decision, DecisionStatus
<1>4. Named /\ OthersApart /\ Unsubmitted
  BY <1>2 DEF Named, OthersApart, Unsubmitted, Nothing
<1>5. /\ \A a \in Managed : /\ cp.state[a] = "none" /\ StatusOf(cp, a) = "none"
                            /\ disk.state[a] = "none" /\ StatusOf(disk, a) = "none"
                            /\ committing[a] = "no" /\ journal[Host][a] = None
                            /\ activating[Host] # a /\ binding.admission # a
  BY <1>2 DEF StatusOf, Nothing
<1>6. Real(1, 1, None)
  <2>1. HeadRef = 1 /\ history[1].epoch = 1
    BY <1>2 DEF HeadRef, Genesis
  <2> QED
    BY <1>2, <2>1 DEF Real
<1>7. Truthful(cp) /\ Truthful(disk)
  BY <1>2, <1>5, <1>6 DEF Truthful
<1>8. Decided(cp) /\ Decided(disk) /\ WrittenAhead /\ AsPlanned
  BY <1>5 DEF Decided, WrittenAhead, AsPlanned
<1> QED
  BY <1>1, <1>3, <1>4, <1>5, <1>7, <1>8 DEF ControlInv, Workflow

LEMMA ControlInvariance == ControlSpec => []ControlInv
  BY ControlInitInv, ControlStepKeeps, PTL DEF ControlSpec

-----------------------------------------------------------------------------
(* What the control plane guarantees.                                      *)

\* Store, file and commit calls keep their types, and epoch administration under
\* them (control-plane/src/engine).
THEOREM ControlTypeCorrect == ControlSpec => []ControlTypeOK
<1>1. ControlInv => ControlTypeOK
  BY EpochTyped DEF ControlInv, ControlTypes, ControlTypeOK
<1> QED
  BY <1>1, ControlInvariance, PTL

\* Whatever crashed when, an epoch the runtime was moved to for an admission has
\* a decision in the file (commitSchemaAdmission persists before it calls).
THEOREM WrittenAheadOfRuntime == ControlSpec => []DecisionWrittenAhead
<1>1. ControlInv => DecisionWrittenAhead
  BY DEF ControlInv, Workflow, WrittenAhead, DecisionWrittenAhead
<1> QED
  BY <1>1, ControlInvariance, PTL

\* What memory or file calls active, the runtime was moved to, with that schema
\* and that head, through refused commits, recoveries and restarts
\* (finalizeAdmissionCommit, recoverForwardCommit).
THEOREM ActiveWasActivated == ControlSpec => []ActiveIsReal
<1>1. ControlInv => ActiveIsReal
  BY DEF ControlInv, Workflow, Truthful, Real, ActiveIsReal
<1> QED
  BY <1>1, ControlInvariance, PTL

\* Each binding is made from the one it replaces, or a restart goes back to the
\* file's (casActiveBinding).
THEOREM NoActivationLost == ControlSpec => BindingsSucceed
<1>1. ASSUME ControlInv, [ControlNext]_allVars, cp'.active # cp.active
      PROVE  \/ cp'.active.generation = cp.active.generation + 1
             \/ HostCrash /\ cp'.active = disk.active
  <2>1. cp \in Store
    BY <1>1 DEF ControlInv, ControlTypes
  <2>2. CASE HostCrash
    BY <2>2 DEF HostCrash
  <2>3. CASE ActivatePolicy
    BY <2>1, <2>3 DEF ActivatePolicy, Store, Active
  <2>4. ASSUME NEW a \in Managed, AdmissionStep(a)
        PROVE  cp'.active.generation = cp.active.generation + 1
    <3>1. CASE cp' = Finalized(a) /\ Swaps(a)
      <4>1. cp'.active = NextActive(a)
        BY <2>1, <3>1, FinalizedFields
      <4> QED
        BY <3>1, <4>1 DEF NextActive, Swaps
    <3>2. CASE ~ (cp' = Finalized(a) /\ Swaps(a))
      BY <1>1, <2>1, <2>4, <3>2 DEF AdmissionStep, SubmitAdmission, Approve, PrepareBegins,
         PrepareEnds, PreparationEnds, CommitTooLate, CommitBegins, RecordDecision,
         RuntimeAnswers, Decide, Finalize, RecoverForward, Store, controlVars
    <3> QED
      BY <3>1, <3>2
  <2> QED
    BY <1>1, <2>2, <2>3, <2>4 DEF ControlNext, HostSwap, controlVars, allVars
<1>2. ControlInv /\ [ControlNext]_allVars =>
        [cp'.active # cp.active =>
            \/ cp'.active.generation = cp.active.generation + 1
            \/ HostCrash /\ cp'.active = disk.active]_allVars
  BY <1>1
<1> QED
  BY <1>2, ControlInvariance, PTL DEF ControlSpec, BindingsSucceed

\* Under the control plane too, head and binding are one fact, nobody is ahead of
\* it, every change is of one epoch and the log stays open: its plans are made
\* from its own store, and made again after a restart (submitSchemaAdmission).
THEOREM RuntimeUnderControl ==
    ControlSpec => []/\ BindingMatchesHead /\ HolderNeverAhead
                     /\ ChangeWithinEpoch /\ HeadExtendsChain
<1>1. ASSUME ControlInv
      PROVE  BindingMatchesHead /\ HolderNeverAhead /\ ChangeWithinEpoch /\ HeadExtendsChain
  BY <1>1, HoldersLag, ChainOpen DEF ControlInv, FullInv, EpochInv, OfOneEpoch
<1> QED
  BY <1>1, ControlInvariance, PTL

\* And no step of an admission skips a generation or puts a process back.
THEOREM ActivationsUnderControl ==
    ControlSpec => GenerationsConsecutive /\ HolderNeverRegresses
<1> DEFINE G == binding' # binding => /\ binding'.generation = binding.generation + 1
                                      /\ binding'.epoch > binding.epoch
           H == \A p \in Proc : holder'[p].generation >= holder[p].generation
<1>1. ASSUME ControlInv, [ControlNext]_allVars PROVE G /\ H
  <2>1. CASE [EpochNext]_vars
    BY <1>1, <2>1, StepActivates DEF ControlInv
  <2>2. CASE \E a \in Managed : SubmitAdmission(a)
    <3>1. binding' = binding /\ holder' = holder
      BY <2>2 DEF SubmitAdmission, kernelVars
    <3>2. \A p \in Proc : holder[p].generation \in Nat
      BY <1>1 DEF ControlInv, FullInv, EpochInv, EpochTypes, Binding
    <3> QED
      BY <3>1, <3>2
  <2> QED
    BY <1>1, <2>1, <2>2, StepKinds
<1>2. ControlInv /\ [ControlNext]_allVars => [G]_vars /\ [H]_vars
  BY <1>1
<1> QED
  BY <1>2, ControlInvariance, PTL DEF ControlSpec, GenerationsConsecutive, HolderNeverRegresses

\* A step of the control plane is a step of epoch administration, or it plans and
\* leaves the runtime's world alone.
LEMMA ControlKinds ==
    ASSUME [ControlNext]_allVars
    PROVE  [EpochNext]_vars \/ UNCHANGED <<history, log>>
<1>1. ASSUME NEW a \in Managed, SubmitAdmission(a) PROVE UNCHANGED <<history, log>>
  BY <1>1 DEF SubmitAdmission, kernelVars
<1> QED
  BY <1>1, StepKinds

\* Under the control plane the runtime implements WorldHistory: its workflow adds
\* activations between operations and nothing else
\* (prepareRuntimeSchemaEpoch, commitRuntimeSchemaEpoch).
THEOREM RefinementUnderControl == ControlSpec => Linearizable
<1>1. ControlInit => Abstract!Init
  BY InitImplements DEF ControlInit, EpochInit
<1>2. ASSUME ControlInv, [ControlNext]_allVars
      PROVE  [Abstract!Next]_<<HeadWorld, [i \in 1..Len(log) |-> log[i].op]>>
  <2>1. CASE [EpochNext]_vars
    BY <1>2, <2>1, EpochImplements DEF ControlInv
  <2>2. CASE UNCHANGED <<history, log>>
    BY <2>2 DEF HeadWorld, HeadRef
  <2> QED
    BY <1>2, <2>1, <2>2, ControlKinds
<1> QED
  BY <1>1, <1>2, ControlInvariance, PTL DEF ControlSpec, Linearizable, Abstract!Spec

\* And whatever it admits, commits again or recovers, the feed skips no change and
\* replay accepts it from every snapshot (changesSince, verifyResolved).
THEOREM FeedUnderControl == ControlSpec => []/\ FeedNeverSkips /\ ReplayAlwaysSucceeds
<1>1. ControlInit => FeedInv
  BY FeedStart DEF ControlInit
<1>2. ASSUME ControlInv, FeedInv, [ControlNext]_allVars
      PROVE  FeedInv'
  <2>1. CASE [EpochNext]_vars
    BY <1>2, <2>1, FeedStep DEF ControlInv
  <2>2. CASE UNCHANGED <<history, log>>
    BY <1>2, <2>2 DEF FeedInv, LogSorted, Recipes, Hops, NoChange, HeadRef
  <2> QED
    BY <1>2, <2>1, <2>2, ControlKinds
<1>3. ControlInv /\ FeedInv => FeedNeverSkips /\ ReplayAlwaysSucceeds
  <2> SUFFICES ASSUME ControlInv, FeedInv PROVE FeedNeverSkips /\ ReplayAlwaysSucceeds
    OBVIOUS
  <2>1. KernelInv /\ ChangeWithinEpoch
    BY DEF ControlInv, FullInv, EpochInv, OfOneEpoch
  <2> QED
    BY <2>1, FeedReaches, ReplayReaches
<1> QED
  BY <1>1, <1>2, <1>3, ControlInvariance, PTL DEF ControlSpec

=============================================================================
