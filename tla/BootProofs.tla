----------------------------- MODULE BootProofs -----------------------------
(***************************************************************************)
(* What the runs of ToolLedger and SwarmSupervisor check on small          *)
(* instances, proved for all values of their constants.                    *)
(*                                                                         *)
(* One inductive invariant carries the six properties of the tool ledger   *)
(* (LedgerInv), another the four safety properties of the swarm supervisor *)
(* (SwarmInv).  The latter ties the supervisor's reading of the feed to    *)
(* the world (Reading, Recorded), the queue and the start counters to what *)
(* was read (Counted), the handles to the slots (Held, Slots), and the     *)
(* stall detector to the last dispatch (Quiet).                            *)
(***************************************************************************)
EXTENDS ToolLedger, SwarmSupervisor, FiniteSetTheorems, TLAPS

-----------------------------------------------------------------------------
\* The tool ledger.

Working == {"lookup", "reconcile", "execute", "store", "observe"}

\* The entry of the journal stands between the approval and the effect.
Journalled ==
    /\ journal \subseteq approved
    /\ \A c \in Call : landed[c] > 0 => c \in journal
    /\ phase \in {"reconcile", "execute", "store", "observe"} => current \in journal

\* What is about to be executed may be.
MayExecute ==
    /\ phase = "execute" /\ Tier[Subject[current]] = "non-idempotent"
         => landed[current] <= misread[current]
    /\ phase = "reconcile" => Tier[Subject[current]] = "idempotent"
    /\ phase \in {"lookup", "reconcile", "execute"} => Same(current, Unresolved) = {}

\* A receipt is written before its observation is tried.
Receipts ==
    /\ phase = "observe" => current \in stored
    /\ phase = "retry" => current \in pending

\* The ledger accounts for everything the run owes.
Accounted ==
    /\ phase # "idle" =>
         owed \subseteq observed \cup Unresolved
                          \cup (IF phase \in Working THEN {current} ELSE {})
    /\ outcome # "none" => phase = "checkpoint"
    /\ outcome = "ok" => Unresolved = {}
    /\ result # "none" => phase = "idle"

\* A receipt of the durable history is observed, or the process has it.
Kept ==
    /\ phase # "idle" =>
         saved \subseteq pending \cup observed \cup (IF phase = "observe" THEN {current} ELSE {})
    /\ phase = "turn" => history = pending
    /\ phase = "idle" /\ ~poisoned => saved \subseteq history \cup observed

\* The type invariant in four parts.
ControlOK ==
    /\ phase \in {"idle", "turn", "group", "lookup", "reconcile", "execute",
                  "store", "observe", "retry", "checkpoint"}
    /\ current \in Call \cup {None}
    /\ (current # None) <=> phase \in {"lookup", "reconcile", "execute", "store",
                                       "observe", "retry"}
    /\ claimed \in BOOLEAN /\ poisoned \in BOOLEAN
    /\ outcome \in {"none", "ok", "failed"}
    /\ result \in {"none", "ok", "failed"}

GroupOK == todo \in Seq(Item) /\ Len(todo) <= MaxGroup

CallsOK ==
    /\ {pending, failed, history, journal, stored, saved, observed, approved, owed}
         \subseteq SUBSET Call
    /\ pending \cup history \cup saved \subseteq stored

CountsOK ==
    /\ turns \in 0 .. MaxTurns
    /\ {landed, misread} \subseteq [Call -> Nat]
    /\ runs \in 0 .. MaxRuns
    /\ stops \in 0 .. MaxStops

LedgerInv ==
    /\ TypeOK
    /\ EffectOnce
    /\ HonestSuccess
    /\ Journalled
    /\ MayExecute
    /\ Receipts
    /\ Accounted
    /\ Kept

\* A response is a sequence of at most MaxGroup items.
LEMMA GroupSequence ==
    ASSUME NEW n \in 0 .. MaxGroup, NEW g \in [1 .. n -> Item]
    PROVE  g \in Seq(Item) /\ Len(g) <= MaxGroup
BY LedgerAssumption

\* A turn without calls is a group.
LEMMA EmptyGroup == <<>> \in Seq(Item) /\ Len(<<>>) <= MaxGroup
BY LedgerAssumption

\* Taking the first item leaves a sequence that is no longer.
LEMMA TailSequence ==
    ASSUME NEW g \in Seq(Item), g # <<>>
    PROVE  /\ Head(g) \in Item
           /\ Tail(g) \in Seq(Item)
           /\ Len(Tail(g)) <= Len(g)
OBVIOUS

\* The type invariant, in the parts the steps disturb.
LEMMA TypeParts == TypeOK <=> ControlOK /\ GroupOK /\ CallsOK /\ CountsOK
BY DEF TypeOK, ControlOK, GroupOK, CallsOK, CountsOK

\* Nothing was called or executed at first.
LEMMA LedgerInit == Init => LedgerInv
<1> SUFFICES ASSUME Init PROVE LedgerInv
  OBVIOUS
<1>1. ControlOK
  BY DEF Init, ControlOK
<1>2. GroupOK
  BY EmptyGroup DEF Init, GroupOK
<1>3. CallsOK
  BY DEF Init, CallsOK
<1>4. CountsOK
  BY LedgerAssumption DEF Init, CountsOK
<1>5. Journalled /\ EffectOnce
  BY DEF Init, Journalled, EffectOnce
<1>6. HonestSuccess /\ MayExecute /\ Receipts /\ Accounted /\ Kept
  BY DEF Init, HonestSuccess, MayExecute, Receipts, Accounted, Kept, Unresolved
<1> QED
  BY <1>1, <1>2, <1>3, <1>4, <1>5, <1>6, TypeParts DEF LedgerInv

-----------------------------------------------------------------------------
\* Type correctness, part by part.
LEMMA ControlStep == LedgerInv /\ [Next]_vars => ControlOK'
<1> SUFFICES ASSUME ControlOK, GroupOK, CallsOK, [Next]_vars PROVE ControlOK'
  BY TypeParts DEF LedgerInv
<1> USE LedgerAssumption DEF ControlOK, response, process
<1>1. CASE StartRun \/ StopBetweenTurns \/ Respond \/ Checkpoint \/ Reboot
  BY <1>1 DEF StartRun, StopBetweenTurns, Respond, Checkpoint, Reboot
<1>2. CASE Verdict \/ StopInGroup
  BY <1>2 DEF Verdict, StopInGroup, Refuse, Close, Settled
<1>3. CASE NextCall
  <2>1. Head(todo).call \in Call
    BY <1>3, TailSequence DEF NextCall, GroupOK, Item
  <2>2. CASE Use(Head(todo).call)
    BY <1>3, <2>1, <2>2 DEF NextCall, Use, Refuse, Close, Begin, CallsOK
  <2>3. CASE Retry(Head(todo).call)
    BY <1>3, <2>1, <2>3 DEF NextCall, Retry, Refuse, Close, Begin
  <2> QED
    BY <1>3, <2>2, <2>3 DEF NextCall
<1>4. CASE Lookup
  BY <1>4 DEF Lookup, Misread, Recover, Authorize, Step, Fail, Broken, Close
<1>5. CASE Reconcile \/ Execute
  BY <1>5 DEF Reconcile, Execute, Step, Fail
<1>6. CASE Store \/ Observe \/ RetryObservation
  BY <1>6 DEF Store, Observe, RetryObservation, Step, Broken, Close
<1>7. CASE UNCHANGED vars
  BY <1>7 DEF vars
<1> QED
  BY <1>1, <1>2, <1>3, <1>4, <1>5, <1>6, <1>7 DEF Next

\* The group of a turn stays one of at most MaxGroup calls.
LEMMA GroupStep == LedgerInv /\ [Next]_vars => GroupOK'
<1> SUFFICES ASSUME GroupOK, [Next]_vars PROVE GroupOK'
  BY TypeParts DEF LedgerInv
<1> USE DEF GroupOK, response
<1>1. CASE StartRun \/ StopBetweenTurns \/ Checkpoint \/ Reconcile \/ Execute \/ Observe
  BY <1>1 DEF StartRun, StopBetweenTurns, Checkpoint, Reconcile, Execute, Observe, Step, Fail
<1>2. CASE Verdict \/ StopInGroup \/ Reboot
  BY <1>2, EmptyGroup DEF Verdict, StopInGroup, Reboot, Refuse, Close
<1>3. CASE Respond
  <2>1. PICK n \in 0 .. MaxGroup : todo' \in [1 .. n -> Item]
    BY <1>3 DEF Respond
  <2> QED
    BY <2>1, GroupSequence
<1>4. CASE NextCall
  <2>1. Tail(todo) \in Seq(Item) /\ Len(Tail(todo)) <= MaxGroup
    BY <1>4, TailSequence, LedgerAssumption DEF NextCall
  <2> QED
    BY <1>4, <2>1, EmptyGroup DEF NextCall, Use, Retry, Refuse, Close, Begin
<1>5. CASE Lookup
  BY <1>5, EmptyGroup DEF Lookup, Misread, Recover, Authorize, Step, Fail, Broken, Close
<1>6. CASE Store \/ RetryObservation
  BY <1>6, EmptyGroup DEF Store, RetryObservation, Step, Broken, Close
<1>7. CASE UNCHANGED vars
  BY <1>7 DEF vars
<1> QED
  BY <1>1, <1>2, <1>3, <1>4, <1>5, <1>6, <1>7 DEF Next

\* The records kept of each call keep their types.
LEMMA CallsStep == LedgerInv /\ [Next]_vars => CallsOK'
<1> SUFFICES ASSUME ControlOK, GroupOK, CallsOK, Receipts, [Next]_vars PROVE CallsOK'
  BY TypeParts DEF LedgerInv
<1> USE DEF CallsOK, ledger, process, durable, ghost
<1>1. CASE StartRun \/ StopBetweenTurns \/ Respond \/ Checkpoint \/ Reboot
  BY <1>1 DEF StartRun, Restored, StopBetweenTurns, Respond, Checkpoint, Reboot
<1>2. CASE Verdict \/ StopInGroup
  BY <1>2 DEF Verdict, StopInGroup, Refuse
<1>3. CASE NextCall
  <2>1. Head(todo).call \in Call
    BY <1>3, TailSequence DEF NextCall, GroupOK, Item
  <2> QED
    BY <1>3, <2>1 DEF NextCall, Use, Retry, Refuse, Begin
<1>4. phase \in {"lookup", "reconcile", "execute", "store", "observe", "retry"} => current \in Call
  BY DEF ControlOK
<1>5. CASE Lookup
  BY <1>4, <1>5 DEF Lookup, Misread, Recover, Authorize, Step, Fail, Broken
<1>6. CASE Reconcile \/ Execute
  BY <1>4, <1>6 DEF Reconcile, Execute, Step, Fail
<1>7. CASE Store
  BY <1>4, <1>7 DEF Store, Step, Broken
<1>8. CASE Observe \/ RetryObservation
  BY <1>4, <1>8 DEF Observe, RecordPending, RetryObservation, Receipts
<1>9. CASE UNCHANGED vars
  BY <1>9 DEF vars
<1> QED
  BY <1>1, <1>2, <1>3, <1>5, <1>6, <1>7, <1>8, <1>9 DEF Next

\* So do the counters.
LEMMA CountsStep == LedgerInv /\ [Next]_vars => CountsOK'
<1> SUFFICES ASSUME ControlOK, CountsOK, [Next]_vars PROVE CountsOK'
  BY TypeParts DEF LedgerInv
<1> USE LedgerAssumption DEF CountsOK
<1>1. CASE StartRun \/ StopBetweenTurns \/ Respond \/ Checkpoint \/ Reboot
  BY <1>1 DEF StartRun, StopBetweenTurns, Respond, Checkpoint, Reboot, ghost
<1>2. CASE Verdict \/ StopInGroup \/ NextCall \/ Reconcile
  BY <1>2 DEF Verdict, StopInGroup, NextCall, Reconcile, ghost
<1>3. CASE Lookup \/ Execute
  BY <1>3 DEF Lookup, Misread, Execute, ControlOK, ghost
<1>4. CASE Store \/ Observe \/ RetryObservation
  BY <1>4 DEF Store, Observe, RetryObservation, ghost
<1>5. CASE UNCHANGED vars
  BY <1>5 DEF vars, ghost
<1> QED
  BY <1>1, <1>2, <1>3, <1>4, <1>5 DEF Next

\* Every step keeps the type invariant.
LEMMA TypeStep == LedgerInv /\ [Next]_vars => TypeOK'
<1>1. TypeOK' <=> ControlOK' /\ GroupOK' /\ CallsOK' /\ CountsOK'
  BY DEF TypeOK, ControlOK, GroupOK, CallsOK, CountsOK
<1> QED
  BY <1>1, ControlStep, GroupStep, CallsStep, CountsStep

-----------------------------------------------------------------------------
\* What holds while a call is executed, and what the actions of useTool share.
LEMMA JournalledStep == LedgerInv /\ [Next]_vars => Journalled'
<1> SUFFICES ASSUME ControlOK, CountsOK, Journalled, [Next]_vars PROVE Journalled'
  BY TypeParts DEF LedgerInv
<1> USE DEF Journalled, response, ledger, process, durable, ghost
<1>1. CASE StartRun \/ StopBetweenTurns \/ Respond \/ Checkpoint \/ Reboot
  BY <1>1 DEF StartRun, StopBetweenTurns, Respond, Checkpoint, Reboot
<1>2. CASE Verdict \/ StopInGroup \/ NextCall
  BY <1>2 DEF Verdict, StopInGroup, NextCall, Use, Retry, Refuse, Begin, Close
<1>3. CASE Lookup
  BY <1>3 DEF Lookup, Misread, Recover, Authorize, Step, Fail, Broken, Close
<1>4. CASE Reconcile
  BY <1>4 DEF Reconcile, Step, Fail
<1>5. CASE Execute
  BY <1>5 DEF Execute, Step, Fail, CountsOK
<1>6. CASE Store \/ Observe \/ RetryObservation
  BY <1>6 DEF Store, Observe, RetryObservation, Step, Broken, Close
<1>7. CASE UNCHANGED vars
  BY <1>7 DEF vars
<1> QED
  BY <1>1, <1>2, <1>3, <1>4, <1>5, <1>6, <1>7 DEF Next

\* No step makes a non-idempotent effect more often than the reads allow.
LEMMA OnceStep == LedgerInv /\ [Next]_vars => EffectOnce'
<1> SUFFICES ASSUME ControlOK, CountsOK, EffectOnce, MayExecute, [Next]_vars PROVE EffectOnce'
  BY TypeParts DEF LedgerInv
<1>1. CASE Execute
  BY <1>1 DEF Execute, EffectOnce, MayExecute, CountsOK, ControlOK, ghost
<1>2. CASE Lookup
  BY <1>2 DEF Lookup, Misread, EffectOnce, CountsOK, ControlOK
<1>3. CASE ~Execute /\ ~Lookup
  <2>1. landed' = landed /\ misread' = misread
    BY <1>3 DEF Next, vars, StartRun, StopBetweenTurns, Respond, Verdict, StopInGroup, ghost,
                NextCall, Reconcile, Store, Observe, RetryObservation, Checkpoint, Reboot
  <2> QED
    BY <2>1 DEF EffectOnce
<1> QED
  BY <1>1, <1>2, <1>3

\* A non-idempotent call about to execute has had an effect for each failed read
\* of its entry, at most.
LEMMA MayExecuteStep == LedgerInv /\ [Next]_vars => MayExecute'
<1> SUFFICES ASSUME ControlOK, CountsOK, GroupOK, EffectOnce, Journalled, MayExecute,
                    [Next]_vars
             PROVE  MayExecute'
  BY TypeParts DEF LedgerInv
<1> USE DEF MayExecute, Unresolved, Same, response, ledger, process, durable, ghost
<1>1. CASE StartRun \/ StopBetweenTurns \/ Respond \/ Checkpoint \/ Reboot
  BY <1>1 DEF StartRun, StopBetweenTurns, Respond, Checkpoint, Reboot
<1>2. CASE Verdict \/ StopInGroup
  BY <1>2 DEF Verdict, StopInGroup, Refuse, Close
<1>3. CASE NextCall
  BY <1>3 DEF NextCall, Use, Retry, Refuse, Begin, Close
<1>4. CASE Lookup
  <2>1. /\ current \in Call /\ landed[current] \in Nat /\ misread[current] \in Nat
        /\ current \notin journal => landed[current] = 0
    BY <1>4 DEF Lookup, Misread, ControlOK, CountsOK, Journalled
  <2>2. Tier[Subject[current]] \in {"read", "idempotent", "non-idempotent"}
    BY <1>4, LedgerAssumption DEF Lookup, Misread, ControlOK
  <2>3. CASE Recover /\ UNCHANGED misread
    BY <1>4, <2>2, <2>3 DEF Lookup, Misread, Recover, Step, Fail, OfTier
  <2>4. CASE Authorize /\ current \notin journal /\ UNCHANGED misread
    BY <1>4, <2>1, <2>4 DEF Lookup, Misread, Authorize, Step, Fail, Broken, Close
  <2>5. CASE Authorize /\ misread' = [misread EXCEPT ![current] = @ + 1]
    <3>1. Tier[Subject[current]] = "non-idempotent" => landed[current] <= misread'[current]
      BY <2>1, <2>5 DEF EffectOnce, CountsOK
    <3>2. phase' # "reconcile" /\ landed' = landed
      BY <1>4, <2>5 DEF Lookup, Misread, Authorize, Step, Fail, Broken, Close
    <3>3. phase' = "execute" => current' = current
      BY <1>4, <2>5 DEF Lookup, Misread, Authorize, Step, Fail, Broken, Close
    <3>4. phase' \in {"lookup", "reconcile", "execute"} => Same(current, Unresolved)' = {}
      BY <1>4, <2>5 DEF Lookup, Misread, Authorize, Step, Fail, Broken, Close
    <3> QED
      BY <3>1, <3>2, <3>3, <3>4
  <2> QED
    BY <1>4, <2>3, <2>4, <2>5 DEF Lookup, Misread
<1>5. CASE Reconcile
  BY <1>5 DEF Reconcile, Step, Fail
<1>6. CASE Execute \/ Store \/ Observe \/ RetryObservation
  BY <1>6 DEF Execute, Store, Observe, RetryObservation, Step, Fail, Broken, Close
<1>7. CASE UNCHANGED vars
  BY <1>7 DEF vars
<1> QED
  BY <1>1, <1>2, <1>3, <1>4, <1>5, <1>6, <1>7 DEF Next

\* A receipt is stored before it is observed.
LEMMA ReceiptsStep == LedgerInv /\ [Next]_vars => Receipts'
<1> SUFFICES ASSUME GroupOK, Receipts, [Next]_vars PROVE Receipts'
  BY TypeParts DEF LedgerInv
<1> USE DEF Receipts, response, ledger, process, durable, ghost
<1>1. CASE StartRun \/ StopBetweenTurns \/ Respond \/ Checkpoint \/ Reboot
  BY <1>1 DEF StartRun, StopBetweenTurns, Respond, Checkpoint, Reboot
<1>2. CASE Verdict \/ StopInGroup \/ NextCall
  BY <1>2 DEF Verdict, StopInGroup, NextCall, Use, Retry, Refuse, Begin, Close
<1>3. CASE Lookup \/ Reconcile \/ Execute
  BY <1>3 DEF Lookup, Misread, Recover, Authorize, Reconcile, Execute, Step, Fail, Broken, Close
<1>4. CASE Store \/ Observe \/ RetryObservation
  BY <1>4 DEF Store, Observe, RetryObservation, Step, Broken, Close
<1>5. CASE UNCHANGED vars
  BY <1>5 DEF vars
<1> QED
  BY <1>1, <1>2, <1>3, <1>4, <1>5 DEF Next

-----------------------------------------------------------------------------
\* What a run owes, and what the durable history keeps.
LEMMA AccountedStep == LedgerInv /\ [Next]_vars => Accounted'
<1> SUFFICES ASSUME ControlOK, Receipts, Accounted, Kept, [Next]_vars PROVE Accounted'
  BY TypeParts DEF LedgerInv
<1> USE DEF Accounted, Unresolved, Working, response, ledger, process, durable, ghost
<1>1. CASE StartRun
  BY <1>1 DEF StartRun, Restored
<1>2. CASE StopBetweenTurns \/ Respond \/ Checkpoint \/ Reboot
  BY <1>2 DEF StopBetweenTurns, Respond, Checkpoint, Reboot
<1>3. CASE Verdict \/ StopInGroup
  BY <1>3 DEF Verdict, StopInGroup, Refuse, Close, Settled
<1>4. CASE NextCall
  BY <1>4 DEF NextCall, Use, Retry, Refuse, Begin, Close
<1>5. CASE Lookup
  BY <1>5 DEF Lookup, Misread, Recover, Authorize, Step, Fail, Broken, Close
<1>6. CASE Reconcile \/ Execute
  BY <1>6 DEF Reconcile, Execute, Step, Fail
<1>7. CASE Store
  BY <1>7 DEF Store, Step, Broken, Close
<1>8. CASE Observe
  BY <1>8 DEF Observe, RecordPending
<1>9. CASE RetryObservation
  BY <1>9 DEF RetryObservation, Close
<1>10. CASE UNCHANGED vars
  BY <1>10 DEF vars
<1> QED
  BY <1>1, <1>2, <1>3, <1>4, <1>5, <1>6, <1>7, <1>8, <1>9, <1>10 DEF Next

\* Success is reported of what took effect.
LEMMA HonestStep == LedgerInv /\ [Next]_vars => HonestSuccess'
<1> SUFFICES ASSUME HonestSuccess, Accounted, [Next]_vars PROVE HonestSuccess'
  BY DEF LedgerInv
<1> USE DEF HonestSuccess, Accounted, ghost, durable
<1>1. CASE Checkpoint
  BY <1>1 DEF Checkpoint, Working, Unresolved
<1>2. CASE StartRun \/ StopBetweenTurns \/ Respond \/ Reboot
  BY <1>2 DEF StartRun, StopBetweenTurns, Respond, Reboot
<1>3. CASE Verdict \/ StopInGroup \/ NextCall \/ Lookup \/ Reconcile \/ Execute
           \/ Store \/ Observe \/ RetryObservation
  BY <1>3 DEF Verdict, StopInGroup, NextCall, Lookup, Misread, Reconcile, Execute, Store, Observe,
              RetryObservation
<1>4. CASE UNCHANGED vars
  BY <1>4 DEF vars
<1> QED
  BY <1>1, <1>2, <1>3, <1>4 DEF Next

\* Every step accounts for the receipts of the durable history.
LEMMA KeptStep == LedgerInv /\ [Next]_vars => Kept'
<1> SUFFICES ASSUME ControlOK, Receipts, Kept, [Next]_vars PROVE Kept'
  BY TypeParts DEF LedgerInv
<1> USE DEF Kept, response, ledger, process, durable, ghost
<1>1. CASE StartRun \/ StopBetweenTurns \/ Respond
  BY <1>1 DEF StartRun, Restored, StopBetweenTurns, Respond
<1>2. CASE Checkpoint \/ Reboot
  BY <1>2 DEF Checkpoint, Reboot
<1>3. CASE Verdict \/ StopInGroup \/ NextCall
  BY <1>3 DEF Verdict, StopInGroup, NextCall, Use, Retry, Refuse, Begin, Close
<1>4. CASE Lookup \/ Reconcile \/ Execute
  BY <1>4 DEF Lookup, Misread, Recover, Authorize, Reconcile, Execute, Step, Fail, Broken, Close
<1>5. CASE Store
  BY <1>5 DEF Store, Step, Broken, Close
<1>6. CASE Observe
  BY <1>6 DEF Observe, RecordPending
<1>7. CASE RetryObservation
  BY <1>7 DEF RetryObservation, Close
<1>8. CASE UNCHANGED vars
  BY <1>8 DEF vars
<1> QED
  BY <1>1, <1>2, <1>3, <1>4, <1>5, <1>6, <1>7, <1>8 DEF Next

\* Every step keeps the invariant.
LEMMA LedgerStep == LedgerInv /\ [Next]_vars => LedgerInv'
BY TypeStep, OnceStep, HonestStep, JournalledStep, MayExecuteStep, ReceiptsStep,
   AccountedStep, KeptStep
   DEF LedgerInv

\* So it holds of every run.
LEMMA LedgerInvariant == ToolSpec => []LedgerInv
BY LedgerInit, LedgerStep, PTL DEF ToolSpec

-----------------------------------------------------------------------------
\* The variables keep their types: in particular no receipt is recorded, in the
\* ledger, the history or its checkpoint, without a stored output behind it.
THEOREM ToolTypes == ToolSpec => []TypeOK
<1>1. LedgerInv => TypeOK
  BY DEF LedgerInv
<1> QED
  BY <1>1, LedgerInvariant, PTL

\* The effect of a non-idempotent call lands once, and once more at most for every
\* read of its journal entry that failed, through any number of runs, crashes and
\* repetitions of the call.
THEOREM EffectsLandOnce == ToolSpec => []EffectOnce
<1>1. LedgerInv => EffectOnce
  BY DEF LedgerInv
<1> QED
  BY <1>1, LedgerInvariant, PTL

\* No effect lands that the approver did not allow.
THEOREM EffectsAreApproved == ToolSpec => []EffectApproved
<1>1. LedgerInv => EffectApproved
  BY DEF LedgerInv, Journalled, EffectApproved
<1> QED
  BY <1>1, LedgerInvariant, PTL

\* A run that reports success has had everything it owes observed.
THEOREM SuccessIsHonest == ToolSpec => []HonestSuccess
<1>1. LedgerInv => HonestSuccess
  BY DEF LedgerInv
<1> QED
  BY <1>1, LedgerInvariant, PTL

\* A request with a stored, unobserved output in the durable history is not
\* executed again under any identifier.
THEOREM NothingStoredIsRepeated == ToolSpec => StoredNotRepeated
<1>1. LedgerInv /\ [Next]_vars =>
        [\A c \in Call : landed'[c] # landed[c] =>
           \A p \in saved \ observed : Subject[p] # Subject[c]]_vars
  <2> SUFFICES ASSUME LedgerInv, Next,
                      NEW c \in Call, landed'[c] # landed[c],
                      NEW p \in saved \ observed
               PROVE  Subject[p] # Subject[c]
    OBVIOUS
  <2>1. Execute
    BY DEF Next, vars, StartRun, StopBetweenTurns, Respond, Verdict, StopInGroup, NextCall,
           Lookup, Misread, Reconcile, Store, Observe, RetryObservation, Checkpoint, Reboot
  <2>2. c = current /\ phase = "execute"
    BY <2>1, TypeParts DEF Execute, LedgerInv, CountsOK
  <2>3. p \in pending
    BY <2>2 DEF LedgerInv, Kept
  <2> QED
    BY <2>2, <2>3 DEF LedgerInv, MayExecute, Same, Unresolved
<1> QED
  BY <1>1, LedgerInvariant, PTL DEF ToolSpec, StoredNotRepeated

\* A receipt leaves the durable history only when its output is observed.
THEOREM NoReceiptIsLost == ToolSpec => ReceiptsKept
<1>1. LedgerInv /\ [Next]_vars => [saved \ saved' \subseteq observed]_vars
  <2> SUFFICES ASSUME LedgerInv, Next PROVE saved \ saved' \subseteq observed
    OBVIOUS
  <2>1. CASE Checkpoint
    BY <2>1 DEF Checkpoint, LedgerInv, Kept
  <2>2. CASE ~Checkpoint
    BY <2>2 DEF Next, durable, StartRun, StopBetweenTurns, Respond, Verdict, StopInGroup,
                NextCall, Lookup, Misread, Reconcile, Execute, Store, Observe, RetryObservation, Reboot
  <2> QED
    BY <2>1, <2>2
<1> QED
  BY <1>1, LedgerInvariant, PTL DEF ToolSpec, ReceiptsKept

-----------------------------------------------------------------------------
\* The swarm supervisor.
Entry == [kind : {"activate", "done", "retire"}, agent : Agent]
Activation(a) == [kind |-> "activate", agent |-> a]

Scheduler == [known : SUBSET Agent, pending : SUBSET Agent, running : SUBSET Agent,
              started : Nat, moved : BOOLEAN, stalls : Nat]

SwarmTypes ==
    /\ status \in [Agent -> {"registered", "active", "done", "retired"}]
    /\ log \in Seq(Entry)
    /\ up \in {"down", "running", "stopped"}
    /\ cursor \in Nat /\ seed \in Nat
    /\ drain \in Nat \cup {Nothing}
    /\ resolving \in Agent \cup {Nothing}
    /\ orphans \in SUBSET Agent /\ agents \in SUBSET Agent
    /\ loop \in [Agent -> {"off", "running", "aborted"}]
    /\ liveness \in [Agent -> {"none", "fresh", "expired"}]
    /\ sched \in Scheduler
    /\ terminal \in {"none", "stalled", "budget_exhausted"}
    /\ polled \in BOOLEAN
    /\ abandoned \in SUBSET Agent
    /\ starts \in [Agent -> Nat]
    /\ crashes \in Nat

\* A process that is not there holds nothing.
AtRest ==
    up = "down" =>
        /\ cursor = 0 /\ drain = Nothing /\ resolving = Nothing
        /\ orphans = {} /\ agents = {}
        /\ loop = Unstarted /\ liveness = NoLiveness
        /\ sched = FreshScheduler
        /\ terminal = "none" /\ polled = FALSE

\* How far the supervisor has read, and what its drain is at.
Reading ==
    up # "down" =>
        /\ seed <= cursor /\ cursor <= Len(log)
        /\ drain # Nothing => cursor <= drain /\ drain <= Len(log)
        /\ resolving # Nothing =>
              /\ drain # Nothing /\ cursor < drain
              /\ log[cursor + 1] = Activation(resolving)

\* A participant is activated once, and the changes agree with the world.
Recorded ==
    /\ \A i \in DOMAIN log, j \in DOMAIN log :
          log[i].kind = "activate" /\ log[j] = log[i] => i = j
    /\ \A a \in Agent :
          status[a] # "registered" <=> \E i \in DOMAIN log : log[i] = Activation(a)
    /\ \A i \in DOMAIN log :
          log[i].kind \in {"done", "retire"} => status[log[i].agent] \in {"done", "retired"}

\* Who was started: not one whose activation is unread, nor one who waits.
Counted ==
    \A a \in Agent :
        /\ starts[a] <= 1
        /\ starts[a] > 0 \/ a \in sched.known => status[a] # "registered"
        /\ a \in sched.pending => a \in sched.known /\ starts[a] = 0
        /\ a \in agents \/ loop[a] # "off" \/ liveness[a] = "fresh" => starts[a] > 0
        /\ up # "down" /\ Unseen(a) => starts[a] = 0 /\ a \notin sched.known

\* A loop that works for an active participant has its handle and its slot.
Held ==
    \A a \in Agent : status[a] = "active" =>
        /\ loop[a] = "running" \/ liveness[a] = "fresh" => a \in agents
        /\ a \in agents => a \in sched.running /\ loop[a] # "off"

Slots ==
    /\ IsFiniteSet({a \in Agent : status[a] # "registered"})
    /\ IsFiniteSet(sched.pending) /\ IsFiniteSet(sched.running)
    /\ Cardinality(sched.running) <= MaxConcurrent

\* What the reconciliation still awaits was activated before the start.
Orphaned ==
    \A a \in orphans : \E i \in 1 .. seed : log[i] = Activation(a)

\* Nothing moved since the last poll: who waits, waits for a change to come.
Quiet ==
    Running /\ polled /\ terminal = "none" /\ ~sched.moved /\ sched.running = {} =>
        \A a \in sched.pending : ~MetByDrained(a)

SwarmInv ==
    /\ SwarmTypes /\ AtRest /\ Reading /\ Recorded /\ Counted
    /\ Held /\ Slots /\ Orphaned /\ Quiet /\ NobodyForgotten

Standing == {"registered", "active", "done", "retired"}

\* What a step does to the world when it ends participants: the changes name
\* those that are done or retired after it.
Ends(changes) ==
    /\ changes \in Seq([kind : {"done", "retire"}, agent : Agent])
    /\ log' = log \o changes
    /\ status' \in [Agent -> Standing]
    /\ \A a \in Agent :
          \/ status'[a] = status[a]
          \/ status[a] \in {"active", "done"} /\ status'[a] \in {"done", "retired"}
    /\ \A i \in DOMAIN changes : status'[changes[i].agent] \in {"done", "retired"}

\* What every step does to the world, as the rest of the state needs it.
WorldGrows ==
    /\ status' \in [Agent -> Standing]
    /\ log' \in Seq(Entry) /\ Len(log) <= Len(log')
    /\ \A i \in DOMAIN log : log'[i] = log[i]
    /\ \A a \in Agent :
          /\ status[a] # "registered" => status'[a] # "registered"
          /\ status[a] \in {"done", "retired"} => status'[a] \in {"done", "retired"}
          /\ status'[a] = "active" /\ status[a] # "active" =>
                status[a] = "registered"
                /\ \E i \in Len(log) + 1 .. Len(log') : log'[i] = Activation(a)
    /\ \A a \in Agent, i \in Len(log) + 1 .. Len(log') :
          log'[i] = Activation(a) => status[a] = "registered"

USE DEF ghosts

\* There is room for one agent at least, and a stall takes one tick at least.
LEMMA Limits ==
    /\ MaxConcurrent \in Nat /\ MaxConcurrent > 0
    /\ MaxTotal \in Nat /\ MaxTotal > 0
    /\ StallTicks \in Nat /\ StallTicks > 0
    /\ Nothing \notin Agent
BY SwarmAssumption

\* Nothing is recorded, held or started at first.
LEMMA SwarmStart == SwarmInit => SwarmInv
<1> SUFFICES ASSUME SwarmInit PROVE SwarmInv
  OBVIOUS
<1>1. SwarmTypes
  <2>1. <<>> \in Seq(Entry)
    OBVIOUS
  <2>2. FreshScheduler \in Scheduler
    BY DEF FreshScheduler, Scheduler
  <2> QED
    BY <2>1, <2>2 DEF SwarmInit, SwarmTypes, Unstarted, NoLiveness
<1>2. AtRest /\ Reading /\ Orphaned /\ Quiet /\ NobodyForgotten
  BY DEF SwarmInit, AtRest, Reading, Orphaned, Quiet, NobodyForgotten, Running
<1>3. Recorded
  BY DEF SwarmInit, Recorded
<1>4. Counted /\ Held
  BY DEF SwarmInit, Counted, Held, FreshScheduler, Unstarted, NoLiveness
<1>5. Slots
  <2>1. {a \in Agent : status[a] # "registered"} = {}
    BY DEF SwarmInit
  <2>2. sched.pending = {} /\ sched.running = {}
    BY DEF SwarmInit, FreshScheduler
  <2> QED
    BY <2>1, <2>2, FS_EmptySet, Limits DEF Slots
<1> QED
  BY <1>1, <1>2, <1>3, <1>4, <1>5 DEF SwarmInv

\* A step leaves the world alone, activates a participant, or ends some.
LEMMA WorldCases ==
    ASSUME SwarmTypes, Slots, SwarmNext
    PROVE  \/ UNCHANGED world
           \/ \E a \in Agent : Activate(a)
           \/ \E changes : Ends(changes)
<1> USE DEF world
<1>1. ASSUME NEW a \in Agent, NEW k \in {"done", "retire"},
             status[a] = "active",
             log' = log \o <<[kind |-> k, agent |-> a]>>,
             NEW s \in {"done", "retired"}, status' = [status EXCEPT ![a] = s]
      PROVE  Ends(<<[kind |-> k, agent |-> a]>>)
  <2> DEFINE one == <<[kind |-> k, agent |-> a]>>
  <2>1. one \in Seq([kind : {"done", "retire"}, agent : Agent])
    OBVIOUS
  <2>2. \A i \in DOMAIN one : one[i].agent = a
    OBVIOUS
  <2>3. status' \in [Agent -> Standing] /\ status'[a] = s
        /\ \A b \in Agent : b # a => status'[b] = status[b]
    BY <1>1 DEF SwarmTypes, Standing
  <2>4. one = <<[kind |-> k, agent |-> a]>>
    OBVIOUS
  <2> HIDE DEF one
  <2> QED
    BY <1>1, <2>1, <2>2, <2>3, <2>4 DEF Ends
<1>2. CASE \E a \in Agent : PeerRetires(a)
  BY <1>1, <1>2 DEF PeerRetires, Commit
<1>3. CASE \E a \in Agent : AgentSignalsDone(a)
  BY <1>1, <1>3 DEF AgentSignalsDone, Commit
<1>4. CASE \E a \in Agent : OnAgentComplete(a)
  BY <1>1, <1>4 DEF OnAgentComplete, SignalDone, Commit
<1>5. CASE LivenessTick
  <2>0. PICK gone \in SUBSET Overdue : Tick(gone)
    BY <1>5 DEF LivenessTick
  <2>1. PICK order \in SetToSeqs(gone) :
          /\ log' = log \o [i \in DOMAIN order |-> [kind |-> "retire", agent |-> order[i]]]
          /\ status' = [a \in Agent |-> IF a \in gone THEN "retired" ELSE status[a]]
    BY <2>0 DEF Tick, Commit
  <2>2. IsFiniteSet(gone)
    <3>1. gone \in SUBSET {a \in Agent : status[a] # "registered"}
      BY DEF Overdue, MayRetire
    <3> QED
      BY <3>1, FS_Subset DEF Slots
  <2>3. Cardinality(gone) \in Nat
    BY <2>2, FS_CardinalityType
  <2>4. order \in [1 .. Cardinality(gone) -> gone]
    BY <2>1 DEF SetToSeqs
  <2> DEFINE changes == [i \in DOMAIN order |-> [kind |-> "retire", agent |-> order[i]]]
  <2>5. /\ changes \in Seq([kind : {"done", "retire"}, agent : Agent])
        /\ \A i \in DOMAIN changes : changes[i].agent \in gone
    <3> DEFINE n == Cardinality(gone)
    <3>1. n \in Nat /\ DOMAIN order = 1 .. n /\ \A i \in 1 .. n : order[i] \in gone
      BY <2>3, <2>4
    <3>2. gone \subseteq Agent
      BY DEF Overdue
    <3> HIDE DEF n
    <3>3. changes \in [1 .. n -> [kind : {"done", "retire"}, agent : Agent]]
      BY <3>1, <3>2
    <3>4. \A i \in DOMAIN changes : changes[i].agent \in gone
      BY <3>1
    <3> QED
      BY <3>1, <3>3, <3>4
  <2>6. log' = log \o changes
    BY <2>1
  <2>7. /\ status' \in [Agent -> Standing]
        /\ \A a \in gone : status[a] \in {"active", "done"} /\ status'[a] = "retired"
        /\ \A a \in Agent : a \notin gone => status'[a] = status[a]
    BY <2>1 DEF SwarmTypes, Standing, Overdue, MayRetire
  <2> HIDE DEF changes
  <2>8. Ends(changes)
    BY <2>5, <2>6, <2>7 DEF Ends
  <2> QED
    BY <2>8
<1>6. CASE \E a \in Agent : BeatsOverdue(a) \/ OnHeartbeat(a) \/ ReconcileOrphan(a)
  BY <1>6 DEF BeatsOverdue, OnHeartbeat, ReconcileOrphan
<1>7. CASE Start \/ DrainBegin \/ DrainNothing \/ DrainEnd
  <2>1. CASE DrainNothing \/ DrainEnd
    BY <2>1 DEF DrainNothing, DrainEnd
  <2> QED
    BY <1>7, <2>1 DEF Start, DrainBegin
<1>8. CASE Supervise
  BY <1>8 DEF Supervise, OnActivated, OnManifest, OnSignalDone, OnRetired
<1>9. CASE Stop \/ Crash
  BY <1>9 DEF Stop, Crash
<1> QED
  BY <1>2, <1>3, <1>4, <1>5, <1>6, <1>7, <1>8, <1>9 DEF SwarmNext

\* Changes are appended.
LEMMA Appended ==
    ASSUME NEW T, NEW s \in Seq(T), NEW t \in Seq(T)
    PROVE  /\ s \o t \in Seq(T)
           /\ Len(s \o t) = Len(s) + Len(t)
           /\ \A i \in DOMAIN s : (s \o t)[i] = s[i]
           /\ \A i \in Len(s) + 1 .. Len(s) + Len(t) :
                 i - Len(s) \in DOMAIN t /\ (s \o t)[i] = t[i - Len(s)]
           /\ \A i \in DOMAIN t : (s \o t)[Len(s) + i] = t[i]
OBVIOUS

\* The world and its changes go together.
LEMMA WorldStep ==
    ASSUME SwarmTypes, Recorded, Slots, SwarmNext
    PROVE  /\ WorldGrows
           /\ Recorded'
           /\ IsFiniteSet({a \in Agent : status'[a] # "registered"})
<1>1. CASE UNCHANGED world
  <2> USE <1>1 DEF world
  <2>1. WorldGrows
    BY DEF WorldGrows, SwarmTypes, Standing
  <2>2. Recorded'
    BY DEF Recorded
  <2> QED
    BY <2>1, <2>2 DEF Slots
<1>2. ASSUME NEW a \in Agent, Activate(a)
      PROVE  /\ WorldGrows
             /\ Recorded'
             /\ IsFiniteSet({b \in Agent : status'[b] # "registered"})
  <2>1. /\ log' = log \o <<Activation(a)>>
        /\ status[a] = "registered"
        /\ status' = [status EXCEPT ![a] = "active"]
    BY <1>2 DEF Activate, Commit, Activation
  <2>2. Activation(a) \in Entry /\ Activation(a).agent = a /\ Activation(a).kind = "activate"
    BY DEF Activation, Entry
  <2>3. /\ log' \in Seq(Entry)
        /\ Len(log') = Len(log) + 1
        /\ \A i \in DOMAIN log : log'[i] = log[i]
        /\ log'[Len(log) + 1] = Activation(a)
    BY <2>1, <2>2 DEF SwarmTypes
  <2>4. /\ status' \in [Agent -> Standing]
        /\ status'[a] = "active"
        /\ \A b \in Agent : b # a => status'[b] = status[b]
    BY <2>1 DEF SwarmTypes, Standing
  <2>5. \A b \in Agent : Activation(b) = Activation(a) => b = a
    BY DEF Activation
  <2>6. /\ log \in Seq(Entry) /\ Len(log) \in Nat
        /\ DOMAIN log = 1 .. Len(log)
        /\ DOMAIN log' = 1 .. Len(log) + 1
    BY <2>3 DEF SwarmTypes
  <2>7. WorldGrows
    <3>1. Len(log) + 1 .. Len(log') = {Len(log) + 1}
      BY <2>3, <2>6
    <3> QED
      BY <3>1, <2>1, <2>3, <2>4, <2>5, <2>6 DEF WorldGrows
  <2>8. ~ \E i \in DOMAIN log : log[i] = Activation(a)
    BY <2>1 DEF Recorded
  <2>9. Recorded'
    <3>1. \A i \in DOMAIN log', j \in DOMAIN log' :
             log'[i].kind = "activate" /\ log'[j] = log'[i] => i = j
      BY <2>2, <2>3, <2>6, <2>8 DEF Recorded
    <3>2. \A b \in Agent :
             status'[b] # "registered" <=> \E i \in DOMAIN log' : log'[i] = Activation(b)
      BY <2>3, <2>4, <2>5, <2>6 DEF Recorded
    <3>3. \A i \in DOMAIN log' :
             log'[i].kind \in {"done", "retire"} => status'[log'[i].agent] \in {"done", "retired"}
      <4> SUFFICES ASSUME NEW i \in DOMAIN log', log'[i].kind \in {"done", "retire"}
                   PROVE  status'[log'[i].agent] \in {"done", "retired"}
        OBVIOUS
      <4>1. i \in DOMAIN log /\ log'[i] = log[i]
        BY <2>2, <2>3, <2>6
      <4>2. log[i] \in Entry
        BY <4>1, <2>6
      <4> QED
        BY <4>1, <4>2, <2>1, <2>4 DEF Recorded, Entry
    <3> QED
      BY <3>1, <3>2, <3>3 DEF Recorded
  <2>10. IsFiniteSet({b \in Agent : status'[b] # "registered"})
    <3>1. {b \in Agent : status'[b] # "registered"}
            = {b \in Agent : status[b] # "registered"} \cup {a}
      BY <2>1, <2>4
    <3> QED
      BY <3>1, FS_AddElement DEF Slots
  <2> QED
    BY <2>7, <2>9, <2>10
<1>3. ASSUME NEW changes, Ends(changes)
      PROVE  /\ WorldGrows
             /\ Recorded'
             /\ IsFiniteSet({b \in Agent : status'[b] # "registered"})
  <2> DEFINE End == [kind : {"done", "retire"}, agent : Agent]
  <2>0. changes \in Seq(End) /\ \A i \in DOMAIN changes : changes[i] \in End
    <3>1. changes \in Seq(End)
      BY <1>3 DEF Ends
    <3> HIDE DEF End
    <3> QED
      BY <3>1
  <2>1. changes \in Seq(Entry) /\ log \in Seq(Entry)
    <3>1. End \subseteq Entry
      BY DEF Entry
    <3> HIDE DEF End
    <3> QED
      BY <2>0, <3>1 DEF SwarmTypes
  <2>2. log' = log \o changes
    BY <1>3 DEF Ends
  <2>3. /\ log' \in Seq(Entry)
        /\ Len(log') = Len(log) + Len(changes)
        /\ \A i \in DOMAIN log : log'[i] = log[i]
        /\ \A i \in Len(log) + 1 .. Len(log') :
              i - Len(log) \in DOMAIN changes /\ log'[i] = changes[i - Len(log)]
    BY <2>1, <2>2, Appended
  <2>4. /\ Len(log) \in Nat /\ Len(changes) \in Nat
        /\ DOMAIN log = 1 .. Len(log) /\ DOMAIN log' = 1 .. Len(log')
    BY <2>1, <2>3
  <2>5. \A i \in DOMAIN changes : changes[i].kind # "activate"
    BY <2>0
  <2>6. \A i \in Len(log) + 1 .. Len(log') :
           log'[i].kind # "activate" /\ status'[log'[i].agent] \in {"done", "retired"}
    BY <2>3, <2>5, <1>3 DEF Ends
  <2>7. \A b \in Agent : Activation(b).kind = "activate"
    BY DEF Activation
  <2>8. \A i \in DOMAIN log' : i \in DOMAIN log \/ i \in Len(log) + 1 .. Len(log')
    BY <2>3, <2>4
  <2>9. /\ status' \in [Agent -> Standing]
        /\ \A a \in Agent :
              \/ status'[a] = status[a]
              \/ status[a] \in {"active", "done"} /\ status'[a] \in {"done", "retired"}
    BY <1>3 DEF Ends
  <2>10. WorldGrows
    BY <2>3, <2>4, <2>6, <2>7, <2>9 DEF WorldGrows
  <2>11. Recorded'
    <3>1. \A i \in DOMAIN log', j \in DOMAIN log' :
             log'[i].kind = "activate" /\ log'[j] = log'[i] => i = j
      BY <2>3, <2>6, <2>8 DEF Recorded
    <3>2. \A b \in Agent :
             status'[b] # "registered" <=> \E i \in DOMAIN log' : log'[i] = Activation(b)
      <4> SUFFICES ASSUME NEW b \in Agent
                   PROVE  status'[b] # "registered"
                            <=> \E i \in DOMAIN log' : log'[i] = Activation(b)
        OBVIOUS
      <4>1. status'[b] # "registered" <=> status[b] # "registered"
        BY <2>9
      <4>2. (\E i \in DOMAIN log' : log'[i] = Activation(b))
              <=> (\E i \in DOMAIN log : log[i] = Activation(b))
        <5>1. \A i \in DOMAIN log' : log'[i] = Activation(b) => i \in DOMAIN log
          BY <2>6, <2>7, <2>8
        <5>2. DOMAIN log \subseteq DOMAIN log'
          BY <2>3, <2>4
        <5> QED
          BY <5>1, <5>2, <2>3
      <4> QED
        BY <4>1, <4>2 DEF Recorded
    <3>3. \A i \in DOMAIN log' :
             log'[i].kind \in {"done", "retire"} => status'[log'[i].agent] \in {"done", "retired"}
      <4> SUFFICES ASSUME NEW i \in DOMAIN log, log[i].kind \in {"done", "retire"}
                   PROVE  status'[log[i].agent] \in {"done", "retired"}
        BY <2>3, <2>6, <2>8
      <4>1. log[i] \in Entry
        BY <2>1
      <4> QED
        BY <4>1, <2>9 DEF Recorded, Entry
    <3> QED
      BY <3>1, <3>2, <3>3 DEF Recorded
  <2>12. IsFiniteSet({b \in Agent : status'[b] # "registered"})
    <3>1. {b \in Agent : status'[b] # "registered"} = {b \in Agent : status[b] # "registered"}
      BY <2>9
    <3> QED
      BY <3>1 DEF Slots
  <2> QED
    BY <2>10, <2>11, <2>12
<1> QED
  BY <1>1, <1>2, <1>3, WorldCases

\* What the scheduler's operations do to its sets.
LEMMA MovedFields ==
    ASSUME NEW s \in Scheduler
    PROVE  /\ Moved(s) \in Scheduler /\ Moved(s).moved
           /\ Moved(s).known = s.known /\ Moved(s).pending = s.pending
           /\ Moved(s).running = s.running
BY DEF Moved, Scheduler

LEMMA CompletedFields ==
    ASSUME NEW s \in Scheduler, NEW a \in Agent
    PROVE  /\ Completed(s, a) \in Scheduler /\ Completed(s, a).moved
           /\ Completed(s, a).known = s.known /\ Completed(s, a).pending = s.pending
           /\ Completed(s, a).running = s.running \ {a}
BY DEF Completed, Scheduler

LEMMA DiscardedFields ==
    ASSUME NEW s \in Scheduler, NEW a \in Agent
    PROVE  /\ Discarded(s, a) \in Scheduler
           /\ Discarded(s, a).known = s.known /\ Discarded(s, a).running = s.running
           /\ Discarded(s, a).pending = s.pending \ {a}
BY DEF Discarded, Scheduler

LEMMA AdmittedFields ==
    ASSUME NEW s \in Scheduler, NEW a \in Agent
    PROVE  /\ Admitted(s, a) \in Scheduler
           /\ Admitted(s, a).known = s.known \cup {a}
           /\ Admitted(s, a).pending = IF a \in s.known THEN s.pending ELSE s.pending \cup {a}
           /\ Admitted(s, a).running = s.running
BY DEF Admitted, Scheduler

\* A tick of the stall detector leaves the sets alone.
LEMMA ObservedFields ==
    ASSUME NEW s \in Scheduler
    PROVE  /\ Observed(s) \in Scheduler
           /\ Observed(s).known = s.known /\ Observed(s).pending = s.pending
           /\ Observed(s).running = s.running
           /\ Observed(s).stalls = StallTicks => ~s.moved /\ s.running = {}
<1>1. CASE s.moved \/ s.running # {} \/ s.pending = {}
  <2>1. Observed(s) = [s EXCEPT !.moved = FALSE, !.stalls = 0]
    BY <1>1 DEF Observed
  <2>2. /\ Observed(s).known = s.known /\ Observed(s).pending = s.pending
        /\ Observed(s).running = s.running /\ Observed(s).stalls = 0
    BY <2>1 DEF Scheduler
  <2>3. Observed(s) \in Scheduler
    <3>1. Observed(s) = [known |-> s.known, pending |-> s.pending, running |-> s.running,
                         started |-> s.started, moved |-> FALSE, stalls |-> 0]
      BY <2>1 DEF Scheduler
    <3>2. /\ s.known \in SUBSET Agent /\ s.pending \in SUBSET Agent
          /\ s.running \in SUBSET Agent /\ s.started \in Nat
      BY DEF Scheduler
    <3> QED
      BY <3>1, <3>2 DEF Scheduler
  <2> QED
    BY <2>2, <2>3, Limits
<1>2. CASE ~(s.moved \/ s.running # {} \/ s.pending = {})
  <2>1. PICK n \in Nat : Observed(s) = [s EXCEPT !.stalls = n]
    <3> DEFINE n == IF s.stalls < StallTicks THEN s.stalls + 1 ELSE s.stalls
    <3>1. s.stalls \in Nat
      BY DEF Scheduler
    <3>2. n \in Nat
      BY <3>1
    <3>3. Observed(s) = [s EXCEPT !.stalls = n]
      BY <1>2 DEF Observed
    <3> HIDE DEF n
    <3> QED
      BY <3>2, <3>3
  <2> QED
    BY <1>2, <2>1 DEF Scheduler
<1> QED
  BY <1>1, <1>2

\* What a dispatch takes from the queue.
Takes(S) ==
    /\ S \in SUBSET sched.pending
    /\ sched' \in Scheduler
    /\ sched'.known = sched.known
    /\ sched'.pending = sched.pending \ S
    /\ sched'.running = sched.running \cup S
    /\ agents' = agents \cup S
    /\ loop' = [a \in Agent |-> IF a \in S THEN "running" ELSE loop[a]]
    /\ liveness' = [a \in Agent |-> IF a \in S THEN "fresh" ELSE liveness[a]]
    /\ starts' = [a \in Agent |-> IF a \in S THEN starts[a] + 1 ELSE starts[a]]
    /\ terminal' \in {"none", "stalled", "budget_exhausted"}
    /\ polled' = TRUE

\* What a dispatch leaves in the queue has no room, no budget or no reason.
LeavesWaiting ==
    Running /\ terminal' = "none" /\ ~sched'.moved /\ sched'.running = {} =>
        \A a \in sched'.pending : ~ConditionMet(a)

\* A dispatch takes whom it may: no more than there are slots for.
LEMMA DispatchStep ==
    ASSUME SwarmTypes, Slots, Dispatch
    PROVE  /\ \E S \in SUBSET sched.pending : Takes(S)
           /\ IsFiniteSet(sched'.pending) /\ IsFiniteSet(sched'.running)
           /\ Cardinality(sched'.running) <= MaxConcurrent
           /\ LeavesWaiting
<1>0. sched \in Scheduler
  BY DEF SwarmTypes
<1>1. CASE ~Running
  <2>1. UNCHANGED <<sched, agents, loop, liveness, starts, terminal>> /\ polled' = TRUE
    BY <1>1 DEF Dispatch
  <2>2. Takes({})
    BY <2>1, <1>0 DEF Takes, SwarmTypes
  <2> QED
    BY <2>1, <2>2, <1>1 DEF Slots, LeavesWaiting
<1>2. CASE Running
  <2>1. PICK S \in Batches(sched) : DispatchBatch(S)
    BY <1>2 DEF Dispatch
  <2>2. S \in SUBSET sched.pending /\ S \in SUBSET Eligible(sched)
    BY <2>1 DEF Batches, Eligible
  <2>3. IsFiniteSet(S) /\ Cardinality(S) \in Nat
    BY <2>2, FS_Subset, FS_CardinalityType DEF Slots
  <2>4. IsFiniteSet(S \ sched.running) /\ Cardinality(S \ sched.running) \in Nat
    <3>1. S \ sched.running \in SUBSET S
      OBVIOUS
    <3> QED
      BY <3>1, <2>3, FS_Subset, FS_CardinalityType
  <2>5. /\ sched' \in Scheduler
        /\ sched'.known = sched.known
        /\ sched'.pending = sched.pending \ S
        /\ sched'.running = sched.running \cup S
        /\ sched'.started = sched.started + Cardinality(S \ sched.running)
        /\ ~sched'.moved => S = {}
    <3>1. sched' = Started(sched, S)
      BY <2>1 DEF DispatchBatch
    <3>2. /\ sched'.known = sched.known
          /\ sched'.pending = sched.pending \ S
          /\ sched'.running = sched.running \cup S
          /\ sched'.started = sched.started + Cardinality(S \ sched.running)
          /\ sched'.moved = (sched.moved \/ S # {})
          /\ sched'.stalls = sched.stalls
          /\ DOMAIN sched' = DOMAIN sched
      BY <1>0, <3>1 DEF Started, Scheduler
    <3>3. sched' \in Scheduler
      <4>1. S \subseteq Agent
        BY <1>0, <2>2 DEF Scheduler
      <4>2. (sched.moved \/ S # {}) \in BOOLEAN
        OBVIOUS
      <4>3. /\ sched.known \in SUBSET Agent /\ sched.pending \in SUBSET Agent
            /\ sched.running \in SUBSET Agent
            /\ sched.started \in Nat /\ sched.stalls \in Nat
        BY <1>0 DEF Scheduler
      <4>4. sched' = [known |-> sched.known, pending |-> sched.pending \ S,
                      running |-> sched.running \cup S,
                      started |-> sched.started + Cardinality(S \ sched.running),
                      moved |-> (sched.moved \/ S # {}), stalls |-> sched.stalls]
        BY <1>0, <3>1 DEF Started, Scheduler
      <4>5. sched.started + Cardinality(S \ sched.running) \in Nat
        BY <2>4, <4>3
      <4> QED
        BY <4>1, <4>2, <4>3, <4>4, <4>5 DEF Scheduler
    <3> QED
      BY <3>2, <3>3
  <2>6. Takes(S)
    <3>1. terminal' \in {"none", "stalled", "budget_exhausted"}
      BY <2>1 DEF DispatchBatch, SwarmTypes
    <3> QED
      BY <3>1, <2>1, <2>2, <2>5 DEF Takes, DispatchBatch, Dispatch
  <2>7. Cardinality(sched.running) \in Nat /\ IsFiniteSet(sched.running)
    BY FS_CardinalityType DEF Slots
  <2>8. sched.started \in Nat
    BY <1>0 DEF Scheduler
  <2>9. /\ Cardinality(S) <= MaxConcurrent - Cardinality(sched.running)
        /\ Cardinality(S) < Room(sched) => S = Eligible(sched)
    BY <2>1, <2>3, <2>7, <2>8, Limits DEF Batches, Room
  <2>10. /\ IsFiniteSet(sched.running \cup S)
         /\ Cardinality(sched.running \cup S) <= Cardinality(sched.running) + Cardinality(S)
    <3>1. sched.running \cap S \in SUBSET S
      OBVIOUS
    <3>2. IsFiniteSet(sched.running \cap S)
      BY <3>1, <2>3, FS_Subset
    <3>3. Cardinality(sched.running \cap S) \in Nat
      BY <3>2, FS_CardinalityType
    <3>4. /\ IsFiniteSet(sched.running \cup S)
          /\ Cardinality(sched.running \cup S)
               = Cardinality(sched.running) + Cardinality(S) - Cardinality(sched.running \cap S)
      BY <2>3, <2>7, FS_Union
    <3> QED
      BY <3>3, <3>4, <2>3, <2>7
  <2>11. Cardinality(sched'.running) <= MaxConcurrent /\ IsFiniteSet(sched'.running)
    <3>1. Cardinality(sched.running \cup S) \in Nat
      BY <2>10, FS_CardinalityType
    <3> QED
      BY <3>1, <2>3, <2>5, <2>7, <2>9, <2>10, Limits
  <2>12. IsFiniteSet(sched'.pending)
    <3>1. sched.pending \ S \in SUBSET sched.pending
      OBVIOUS
    <3> QED
      BY <3>1, <2>5, FS_Subset DEF Slots
  <2>13. LeavesWaiting
    <3> SUFFICES ASSUME terminal' = "none", ~sched'.moved, sched'.running = {},
                        NEW a \in sched'.pending
                 PROVE  ~ConditionMet(a)
      BY DEF LeavesWaiting
    <3>1. S = {} /\ sched.running = {}
      BY <2>5
    <3>2. Cardinality(S) = 0 /\ Cardinality(sched.running) = 0 /\ Cardinality(S \ sched.running) = 0
      <4>1. S \ sched.running = {}
        BY <3>1
      <4> QED
        BY <3>1, <4>1, FS_EmptySet
    <3>3. ~Exhausted(sched') /\ sched'.started = sched.started
      BY <2>1, <2>5, <2>8, <3>2 DEF DispatchBatch
    <3>4. sched.started < MaxTotal
      BY <3>3, <2>8, Limits DEF Exhausted
    <3>5. Room(sched) > 0
      BY <3>2, <3>4, <2>8, Limits DEF Room
    <3>6. Eligible(sched) = {}
      BY <3>1, <3>2, <3>5, <2>9
    <3>7. a \in sched.pending /\ ~Exhausted(sched)
      BY <2>5, <3>4, <2>8, Limits DEF Exhausted
    <3> QED
      BY <3>6, <3>7 DEF Eligible
  <2> QED
    BY <2>2, <2>5, <2>6, <2>11, <2>12, <2>13
<1> QED
  BY <1>1, <1>2

\* The entry the drain is at.
LEMMA CurrentEntry ==
    ASSUME SwarmTypes, AtRest, Reading, NEW k, Batched(k)
    PROVE  /\ up # "down" /\ cursor + 1 \in DOMAIN log
           /\ log[cursor + 1] \in Entry /\ Current \in Agent
           /\ log[cursor + 1] = [kind |-> k, agent |-> Current]
<1>1. drain # Nothing /\ cursor < drain /\ log[cursor + 1].kind = k
  BY DEF Batched
<1>2. up # "down"
  BY <1>1 DEF AtRest
<1>3. drain \in Nat /\ drain <= Len(log) /\ cursor \in Nat /\ log \in Seq(Entry)
  BY <1>1, <1>2 DEF Reading, SwarmTypes
<1>4. cursor + 1 \in DOMAIN log
  BY <1>1, <1>3
<1>5. log[cursor + 1] \in Entry
  BY <1>3, <1>4
<1> QED
  BY <1>1, <1>2, <1>4, <1>5 DEF Current, Entry

\* The agent whose manifest came.
LEMMA ResolvingEntry ==
    ASSUME SwarmTypes, AtRest, Reading, Recorded, Counted, resolving # Nothing
    PROVE  /\ up # "down" /\ cursor + 1 \in DOMAIN log /\ drain # Nothing
           /\ resolving \in Agent
           /\ log[cursor + 1] = Activation(resolving)
           /\ status[resolving] # "registered"
           /\ starts[resolving] = 0 /\ resolving \notin sched.known
<1>1. up # "down" /\ resolving \in Agent
  BY DEF AtRest, SwarmTypes
<1>2. /\ drain # Nothing /\ cursor < drain /\ drain <= Len(log)
      /\ log[cursor + 1] = Activation(resolving)
  BY <1>1 DEF Reading
<1>3. cursor + 1 \in DOMAIN log /\ cursor + 1 \in cursor + 1 .. Len(log)
  BY <1>2 DEF SwarmTypes
<1>4. Unseen(resolving)
  BY <1>2, <1>3 DEF Unseen, Activation
<1> QED
  BY <1>1, <1>2, <1>3, <1>4 DEF Recorded, Counted

\* How far a step reads: a start skips to the head, a drain goes entry by entry.
LEMMA CursorStep ==
    ASSUME SwarmTypes, AtRest, Reading, Recorded, Counted, SwarmNext
    PROVE  \/ Start /\ up' = "running" /\ cursor' = Len(log) /\ seed' = Len(log) /\ log' = log
           \/ Crash
           \/ /\ seed' = seed /\ (up' = "down" <=> up = "down")
              /\ \/ cursor' = cursor
                 \/ Supervise /\ up # "down" /\ cursor' = cursor + 1
                    /\ cursor + 1 \in DOMAIN log /\ log' = log
<1>1. CASE Supervise
  <2>1. CASE OnActivated
    <3>1. Batched("activate")
      BY <2>1 DEF OnActivated
    <3> QED
      BY <1>1, <2>1, <3>1, CurrentEntry DEF OnActivated, Advance, world
  <2>2. CASE OnManifest
    BY <1>1, <2>2, ResolvingEntry DEF OnManifest, Advance, world
  <2>3. CASE OnSignalDone
    <3>1. Batched("done")
      BY <2>3 DEF OnSignalDone
    <3> QED
      BY <1>1, <2>3, <3>1, CurrentEntry DEF OnSignalDone, Advance, world
  <2>4. CASE OnRetired
    <3>1. Batched("retire")
      BY <2>4 DEF OnRetired
    <3> QED
      BY <1>1, <2>4, <3>1, CurrentEntry DEF OnRetired, Advance, world
  <2> QED
    BY <1>1, <2>1, <2>2, <2>3, <2>4 DEF Supervise
<1>2. CASE Start
  BY <1>2 DEF Start, HeadCursor, world
<1>3. CASE \E a \in Agent : Activate(a) \/ PeerRetires(a) \/ AgentSignalsDone(a)
  BY <1>3 DEF Activate, PeerRetires, AgentSignalsDone
<1>4. CASE \E a \in Agent : BeatsOverdue(a) \/ OnHeartbeat(a) \/ OnAgentComplete(a) \/ ReconcileOrphan(a)
  BY <1>4 DEF BeatsOverdue, OnHeartbeat, OnAgentComplete, ReconcileOrphan
<1>5. CASE DrainBegin \/ DrainNothing \/ DrainEnd \/ LivenessTick
  BY <1>5 DEF DrainBegin, DrainNothing, DrainEnd, LivenessTick, Tick
<1>6. CASE Stop
  BY <1>6 DEF Stop, Running
<1> QED
  BY <1>1, <1>2, <1>3, <1>4, <1>5, <1>6 DEF SwarmNext

\* An activation that is still unread was unread before, or is new.
LEMMA UnseenBefore ==
    ASSUME SwarmTypes, AtRest, Reading, Recorded, Counted, Slots, SwarmNext,
           up' # "down", NEW a \in Agent, Unseen(a)'
    PROVE  status[a] = "registered" \/ (up # "down" /\ Unseen(a))
<1>1. WorldGrows
  BY WorldStep
<1>2. PICK i \in cursor' + 1 .. Len(log') : log'[i].kind = "activate" /\ log'[i].agent = a
  BY DEF Unseen
<1>3. log' \in Seq(Entry) /\ Len(log') \in Nat /\ log \in Seq(Entry) /\ Len(log) \in Nat
      /\ cursor \in Nat /\ Len(log) <= Len(log')
  BY <1>1 DEF WorldGrows, SwarmTypes
<1>4. ~Crash
  BY DEF Crash
<1>5. CASE i > Len(log)
  <2>1. i \in DOMAIN log'
    BY <1>2, <1>3, <1>5, CursorStep, <1>4
  <2>2. log'[i] \in Entry
    BY <1>3, <2>1
  <2>3. log'[i] = Activation(a)
    BY <1>2, <2>2 DEF Entry, Activation
  <2>4. i \in Len(log) + 1 .. Len(log')
    BY <1>3, <1>5, <2>1
  <2>5. \A b \in Agent, j \in Len(log) + 1 .. Len(log') :
           log'[j] = Activation(b) => status[b] = "registered"
    BY <1>1 DEF WorldGrows
  <2> QED
    BY <2>3, <2>4, <2>5
<1>6. CASE i <= Len(log)
  <2>1. /\ up # "down" /\ (cursor' = cursor \/ cursor' = cursor + 1)
    BY <1>2, <1>3, <1>4, <1>6, CursorStep
  <2>2. i \in cursor + 1 .. Len(log) /\ i \in DOMAIN log
    BY <1>2, <1>3, <1>6, <2>1
  <2>3. log'[i] = log[i]
    BY <1>1, <2>2 DEF WorldGrows
  <2> QED
    BY <1>2, <2>1, <2>2, <2>3 DEF Unseen
<1> QED
  BY <1>2, <1>3, <1>5, <1>6, <1>4, CursorStep

\* An unread activation stays unread until the drain is past it.
LEMMA UnseenAfter ==
    ASSUME SwarmTypes, AtRest, Reading, Recorded, Counted, Slots, SwarmNext,
           ~Start, ~Crash, NEW a \in Agent, Unseen(a),
           cursor' = cursor \/ log[cursor + 1] # Activation(a)
    PROVE  Unseen(a)'
<1>1. WorldGrows
  BY WorldStep
<1>2. PICK i \in cursor + 1 .. Len(log) : log[i].kind = "activate" /\ log[i].agent = a
  BY DEF Unseen
<1>3. log' \in Seq(Entry) /\ Len(log') \in Nat /\ log \in Seq(Entry) /\ Len(log) \in Nat
      /\ cursor \in Nat /\ Len(log) <= Len(log')
  BY <1>1 DEF WorldGrows, SwarmTypes
<1>4. i \in DOMAIN log
  BY <1>2, <1>3
<1>5. log[i] = Activation(a)
  <2>1. log[i] \in Entry
    BY <1>3, <1>4
  <2> QED
    BY <1>2, <2>1 DEF Entry, Activation
<1>6. i \in cursor' + 1 .. Len(log')
  BY <1>2, <1>3, <1>5, CursorStep
<1>7. log'[i] = log[i]
  BY <1>1, <1>4 DEF WorldGrows
<1> QED
  BY <1>2, <1>6, <1>7 DEF Unseen

\* The activation a drain has passed is not ahead of it.
LEMMA PassedIsSeen ==
    ASSUME SwarmTypes, Recorded, NEW a \in Agent,
           cursor + 1 \in DOMAIN log, log[cursor + 1] = Activation(a),
           cursor' = cursor + 1, log' = log
    PROVE  ~Unseen(a)'
<1> SUFFICES ASSUME NEW i \in cursor' + 1 .. Len(log'),
                    log'[i].kind = "activate", log'[i].agent = a
             PROVE  FALSE
  BY DEF Unseen
<1>1. cursor \in Nat /\ log \in Seq(Entry) /\ Len(log) \in Nat
  BY DEF SwarmTypes
<1>2. i \in DOMAIN log /\ i # cursor + 1
  BY <1>1
<1>3. log[i] \in Entry
  BY <1>1, <1>2
<1>4. log[i] = Activation(a)
  BY <1>3 DEF Entry, Activation
<1> QED
  BY <1>2, <1>4 DEF Recorded, Activation

\* A process that is down stays empty, and only a crash takes one down.
LEMMA AtRestStep ==
    ASSUME SwarmTypes, AtRest, Reading, Recorded, Counted, SwarmNext
    PROVE  AtRest'
<1> SUFFICES ASSUME up' = "down" PROVE AtRest'
  BY DEF AtRest
<1>1. CASE Crash
  BY <1>1 DEF Crash, AtRest, Unstarted, NoLiveness, FreshScheduler
<1>2. CASE ~Crash
  <2>1. up = "down" /\ ~Start /\ ~Supervise
    <3>1. ~Supervise \/ up # "down"
      BY ResolvingEntry, CurrentEntry DEF Supervise, OnActivated, OnManifest, OnSignalDone, OnRetired
    <3> QED
      BY <1>2, <3>1, CursorStep DEF Start
  <2>2. /\ cursor = 0 /\ drain = Nothing /\ resolving = Nothing
        /\ orphans = {} /\ agents = {}
        /\ loop = Unstarted /\ liveness = NoLiveness
        /\ sched = FreshScheduler
        /\ terminal = "none" /\ polled = FALSE
    BY <2>1 DEF AtRest
  <2>3. ~DrainBegin /\ ~DrainNothing /\ ~DrainEnd /\ ~LivenessTick /\ ~Stop
    BY <2>1, <2>2 DEF DrainBegin, DrainNothing, DrainEnd, LivenessTick, Tick, Stop, Drainable, Running
  <2>4. ASSUME NEW a \in Agent
        PROVE  ~BeatsOverdue(a) /\ ~OnHeartbeat(a) /\ ~OnAgentComplete(a) /\ ~ReconcileOrphan(a)
    BY <2>1, <2>2 DEF BeatsOverdue, OnHeartbeat, OnAgentComplete, ReconcileOrphan,
                      Drainable, Running, NoLiveness, Unstarted
  <2>5. PICK a \in Agent : Activate(a) \/ PeerRetires(a) \/ AgentSignalsDone(a)
    BY <1>2, <2>1, <2>3, <2>4 DEF SwarmNext
  <2>6. UNCHANGED <<cursor, drain, resolving, orphans, agents, loop, liveness, sched,
                    terminal, polled>>
    BY <2>5 DEF Activate, PeerRetires, AgentSignalsDone
  <2> QED
    BY <2>2, <2>6 DEF AtRest, Unstarted, NoLiveness, FreshScheduler
<1> QED
  BY <1>1, <1>2

\* A drain stays within the batch it began with, an awaited manifest is that of
\* the entry it is at.
LEMMA ReadingStep ==
    ASSUME SwarmTypes, AtRest, Reading, Recorded, Counted, Slots, SwarmNext
    PROVE  Reading'
<1> SUFFICES ASSUME up' # "down" PROVE Reading'
  BY DEF Reading
<1>1. WorldGrows
  BY WorldStep
<1>2. /\ log' \in Seq(Entry) /\ Len(log') \in Nat /\ log \in Seq(Entry) /\ Len(log) \in Nat
      /\ cursor \in Nat /\ seed \in Nat /\ Len(log) <= Len(log')
      /\ \A i \in DOMAIN log : log'[i] = log[i]
  BY <1>1 DEF WorldGrows, SwarmTypes
<1>3. ~Crash
  BY DEF Crash
<1>4. CASE Start
  BY <1>2, <1>4 DEF Start, HeadCursor, AtRest, Reading, world
<1>5. CASE Supervise
  <2>1. up # "down" /\ cursor + 1 \in DOMAIN log /\ drain # Nothing /\ drain \in Nat
        /\ cursor < drain /\ drain <= Len(log) /\ seed <= cursor
    BY <1>2, <1>3, <1>5, CurrentEntry, ResolvingEntry
       DEF Supervise, OnActivated, OnManifest, OnSignalDone, OnRetired, Batched, Reading, SwarmTypes
  <2>2. log' = log /\ seed' = seed /\ drain' = drain
    BY <1>5 DEF Supervise, OnActivated, OnManifest, OnSignalDone, OnRetired, world
  <2>3. CASE cursor' = cursor + 1 /\ resolving' = Nothing
    BY <1>2, <2>1, <2>2, <2>3 DEF Reading
  <2>4. CASE OnActivated /\ Current \notin agents
    <3>1. resolving' = Current /\ cursor' = cursor
      BY <2>4 DEF OnActivated
    <3>2. log[cursor + 1] = Activation(Current)
      BY <2>4, CurrentEntry DEF OnActivated, Activation
    <3> QED
      BY <1>2, <2>1, <2>2, <3>1, <3>2 DEF Reading, Activation
  <2> QED
    BY <1>5, <2>3, <2>4 DEF Supervise, OnActivated, OnManifest, OnSignalDone, OnRetired, Batched, Advance
<1>6. CASE \E a \in Agent : OnAgentComplete(a)
  <2>1. /\ UNCHANGED <<up, seed, cursor, resolving>>
        /\ drain' = IF Drainable THEN Len(log') ELSE drain
    BY <1>6 DEF OnAgentComplete
  <2>2. up # "down" /\ seed <= cursor /\ cursor <= Len(log)
    BY <2>1 DEF Reading
  <2>3. CASE drain = Nothing
    <3>1. resolving = Nothing
      BY <2>2, <2>3 DEF Reading
    <3> QED
      BY <1>2, <2>1, <2>2, <2>3, <3>1 DEF Reading
  <2>4. CASE drain # Nothing
    <3>1. drain' = drain /\ drain \in Nat /\ cursor <= drain /\ drain <= Len(log)
      BY <2>1, <2>2, <2>4 DEF Drainable, Reading, SwarmTypes
    <3>2. resolving # Nothing => cursor < drain /\ log[cursor + 1] = Activation(resolving)
                                   /\ cursor + 1 \in DOMAIN log
      BY <1>2, <2>2, <3>1 DEF Reading
    <3> QED
      BY <1>2, <2>1, <2>2, <2>4, <3>1, <3>2 DEF Reading, Activation
  <2> QED
    BY <2>3, <2>4
<1>7. CASE DrainBegin
  <2>1. UNCHANGED <<up, seed, cursor, resolving, log>> /\ drain = Nothing /\ drain' = Len(log)
    BY <1>7 DEF DrainBegin, Drainable, world
  <2>2. resolving = Nothing /\ seed <= cursor /\ cursor <= Len(log)
    BY <2>1 DEF Reading
  <2> QED
    BY <1>2, <2>1, <2>2 DEF Reading
<1>8. ASSUME UNCHANGED <<seed, cursor, drain, resolving>>, up' = "down" <=> up = "down"
      PROVE  Reading'
  <2>1. up # "down" /\ seed <= cursor /\ cursor <= Len(log)
    BY <1>8 DEF Reading
  <2>2. drain # Nothing => drain \in Nat /\ cursor <= drain /\ drain <= Len(log)
    BY <2>1 DEF Reading, SwarmTypes
  <2>3. resolving # Nothing => drain # Nothing /\ cursor < drain
            /\ log[cursor + 1] = Activation(resolving) /\ cursor + 1 \in DOMAIN log
    BY <1>2, <2>1, <2>2 DEF Reading
  <2> QED
    BY <1>2, <1>8, <2>1, <2>2, <2>3 DEF Reading, Activation
<1>9. CASE \E a \in Agent : \/ Activate(a) \/ PeerRetires(a) \/ AgentSignalsDone(a)
                            \/ BeatsOverdue(a) \/ OnHeartbeat(a) \/ ReconcileOrphan(a)
  BY <1>8, <1>9 DEF Activate, PeerRetires, AgentSignalsDone, BeatsOverdue, OnHeartbeat, ReconcileOrphan
<1>10. CASE DrainNothing \/ LivenessTick \/ Stop
  BY <1>8, <1>10 DEF DrainNothing, LivenessTick, Tick, Stop, Running
<1>11. CASE DrainEnd
  <2>1. UNCHANGED <<up, seed, cursor, resolving, log>> /\ resolving = Nothing /\ drain' = Nothing
    BY <1>11 DEF DrainEnd, world
  <2>2. seed <= cursor /\ cursor <= Len(log)
    BY <2>1 DEF Reading
  <2> QED
    BY <1>2, <2>1, <2>2 DEF Reading
<1> QED
  BY <1>3, <1>4, <1>5, <1>6, <1>7, <1>9, <1>10, <1>11 DEF SwarmNext

\* The scheduler's record, the handles and the loops stay what they are.
LEMMA SwarmTypesStep ==
    ASSUME SwarmTypes, AtRest, Reading, Recorded, Counted, Slots, SwarmNext
    PROVE  SwarmTypes'
<1>1. /\ status' \in [Agent -> {"registered", "active", "done", "retired"}]
      /\ log' \in Seq(Entry) /\ Len(log) \in Nat /\ Len(log') \in Nat
  BY WorldStep DEF WorldGrows, Standing, SwarmTypes
<1>2. sched \in Scheduler
  BY DEF SwarmTypes
<1>3. CASE \E a \in Agent : Activate(a) \/ PeerRetires(a) \/ AgentSignalsDone(a) \/ BeatsOverdue(a)
  BY <1>1, <1>3 DEF SwarmTypes, Activate, PeerRetires, AgentSignalsDone, BeatsOverdue
<1>4. CASE \E a \in Agent : OnHeartbeat(a)
  <2>1. sched' \in Scheduler
    <3>1. PICK a \in Agent : sched' = Moved(sched)
      BY <1>4 DEF OnHeartbeat
    <3> QED
      BY <1>2, <3>1, MovedFields
  <2> QED
    BY <1>1, <1>4, <2>1 DEF SwarmTypes, OnHeartbeat
<1>5. CASE \E a \in Agent : OnAgentComplete(a)
  <2>1. PICK a \in Agent : OnAgentComplete(a)
    BY <1>5
  <2>2. sched' \in Scheduler
    BY <1>2, <2>1, CompletedFields DEF OnAgentComplete
  <2>3. drain' \in Nat \cup {Nothing}
    BY <1>1, <2>1 DEF OnAgentComplete, SwarmTypes
  <2>4. abandoned' \in SUBSET Agent
    BY <2>1 DEF OnAgentComplete, SignalDone, SwarmTypes
  <2> QED
    BY <1>1, <2>1, <2>2, <2>3, <2>4 DEF SwarmTypes, OnAgentComplete, Forgotten
<1>6. CASE \E a \in Agent : ReconcileOrphan(a)
  BY <1>1, <1>6 DEF SwarmTypes, ReconcileOrphan, Expired
<1>7. CASE Start
  BY <1>1, <1>7 DEF SwarmTypes, Start, HeadCursor
<1>8. CASE DrainBegin
  BY <1>1, <1>8 DEF SwarmTypes, DrainBegin
<1>9. CASE DrainNothing \/ DrainEnd
  <2>1. PICK S \in SUBSET sched.pending : Takes(S)
    BY <1>9, DispatchStep DEF DrainNothing, DrainEnd
  <2>2. S \in SUBSET Agent
    BY <2>1, <1>2 DEF Scheduler
  <2>3. /\ agents' \in SUBSET Agent
        /\ loop' \in [Agent -> {"off", "running", "aborted"}]
        /\ liveness' \in [Agent -> {"none", "fresh", "expired"}]
        /\ starts' \in [Agent -> Nat]
        /\ sched' \in Scheduler
        /\ terminal' \in {"none", "stalled", "budget_exhausted"}
        /\ polled' \in BOOLEAN
    BY <2>1, <2>2 DEF Takes, SwarmTypes
  <2>4. UNCHANGED <<up, seed, cursor, resolving, orphans, abandoned, crashes>>
        /\ drain' \in {drain, Nothing}
    BY <1>9 DEF DrainNothing, DrainEnd
  <2> QED
    BY <1>1, <2>3, <2>4 DEF SwarmTypes
<1>10. CASE OnActivated
  <2>1. Batched("activate")
    BY <1>10 DEF OnActivated
  <2>2. Current \in Agent
    BY <2>1, CurrentEntry
  <2> QED
    <3>1. sched' \in Scheduler /\ cursor' \in Nat /\ resolving' \in Agent \cup {Nothing}
      <4>1. Moved(sched) \in Scheduler
        BY <1>2, <2>2, MovedFields
      <4> QED
        BY <1>2, <1>10, <2>2, <4>1 DEF SwarmTypes, OnActivated, Advance
    <3> QED
      BY <1>1, <1>10, <3>1 DEF SwarmTypes, OnActivated
<1>11. CASE OnManifest
  <2>1. resolving \in Agent
    BY <1>11, ResolvingEntry DEF OnManifest
  <2>2. /\ cursor' = cursor + 1 /\ resolving' = Nothing
        /\ sched' \in Scheduler
        /\ liveness' \in [Agent -> {"none", "fresh", "expired"}]
    <3>1. Admitted(sched, resolving) \in Scheduler /\ Moved(sched) \in Scheduler
      BY <1>2, <2>1, MovedFields, AdmittedFields
    <3>2. Moved(Admitted(sched, resolving)) \in Scheduler
      BY <2>1, <3>1, MovedFields
    <3> QED
      BY <1>11, <2>1, <3>1, <3>2 DEF SwarmTypes, OnManifest, Advance, Expired
  <2> QED
    BY <1>1, <1>11, <2>2 DEF SwarmTypes, OnManifest
<1>12. CASE OnSignalDone
  <2>1. Current \in Agent
    <3>1. Batched("done")
      BY <1>12 DEF OnSignalDone
    <3> QED
      BY <3>1, CurrentEntry
  <2>2. sched' \in Scheduler
    <3>1. Released(sched, Current) \in Scheduler
      BY <1>2, <2>1, CompletedFields DEF Released
    <3> QED
      BY <1>12, <2>1, <3>1, MovedFields DEF OnSignalDone, Advance
  <2> QED
    BY <1>1, <1>12, <2>1, <2>2 DEF SwarmTypes, OnSignalDone, Advance, Forgotten
<1>13. CASE OnRetired
  <2>1. Current \in Agent
    <3>1. Batched("retire")
      BY <1>13 DEF OnRetired
    <3> QED
      BY <3>1, CurrentEntry
  <2>2. sched' \in Scheduler
    <3>1. Released(sched, Current) \in Scheduler
      BY <1>2, <2>1, CompletedFields DEF Released
    <3>2. Discarded(Released(sched, Current), Current) \in Scheduler
      BY <2>1, <3>1, DiscardedFields
    <3> QED
      BY <1>13, <2>1, <3>2, MovedFields DEF OnRetired, Advance
  <2> QED
    BY <1>1, <1>13, <2>1, <2>2 DEF SwarmTypes, OnRetired, Advance, Forgotten, Aborted
<1>14. CASE LivenessTick
  <2>1. sched' \in Scheduler /\ terminal' \in {"none", "stalled", "budget_exhausted"}
    BY <1>2, <1>14, ObservedFields DEF LivenessTick, Tick, SwarmTypes
  <2> QED
    BY <1>1, <1>14, <2>1 DEF SwarmTypes, LivenessTick, Tick
<1>15. CASE Stop
  BY <1>1, <1>15 DEF SwarmTypes, Stop, Aborted
<1>16. CASE Crash
  <2>1. FreshScheduler \in Scheduler
    BY DEF FreshScheduler, Scheduler
  <2> QED
    <3>1. loop' \in [Agent -> {"off", "running", "aborted"}]
          /\ liveness' \in [Agent -> {"none", "fresh", "expired"}]
      BY <1>16 DEF Crash, Unstarted, NoLiveness
    <3>2. /\ sched' \in Scheduler /\ up' = "down" /\ cursor' = 0 /\ seed' = 0
          /\ drain' = Nothing /\ resolving' = Nothing
          /\ orphans' = {} /\ agents' = {}
          /\ terminal' = "none" /\ polled' = FALSE
          /\ starts' \in [Agent -> Nat] /\ crashes' \in Nat
          /\ abandoned' = {}
      BY <1>16, <2>1 DEF SwarmTypes, Crash
    <3> QED
      BY <1>1, <3>1, <3>2 DEF SwarmTypes
<1> QED
  BY <1>3, <1>4, <1>5, <1>6, <1>7, <1>8, <1>9, <1>10, <1>11, <1>12, <1>13, <1>14, <1>15, <1>16
     DEF SwarmNext, Supervise

\* What a drain's step does to the scheduler and the handles.
LEMMA SuperviseFields ==
    ASSUME SwarmTypes, AtRest, Reading, Recorded, Counted, Supervise
    PROVE  /\ UNCHANGED <<starts, seed, up, polled, terminal, log, status, orphans>>
           /\ \/ sched' = sched /\ cursor' = cursor /\ UNCHANGED <<agents, loop, liveness>>
              \/ sched'.moved /\ cursor' = cursor + 1
           /\ \/ /\ sched'.known = sched.known /\ sched'.pending = sched.pending
                 /\ ~OnManifest
              \/ /\ OnManifest /\ resolving # Nothing /\ resolving \notin BadManifest
                 /\ sched'.known = sched.known \cup {resolving}
                 /\ sched'.pending = sched.pending \cup {resolving}
                 /\ UNCHANGED liveness
              \/ /\ OnManifest /\ resolving # Nothing /\ resolving \in BadManifest
                 /\ sched'.known = sched.known /\ sched'.pending = sched.pending
                 /\ liveness' = Expired(liveness, resolving)
              \/ /\ OnRetired
                 /\ sched'.known = sched.known /\ sched'.pending = sched.pending \ {Current}
           /\ \/ UNCHANGED <<agents, loop>> /\ sched'.running = sched.running
                 /\ ~OnSignalDone /\ ~OnRetired /\ (OnActivated => UNCHANGED liveness)
              \/ /\ OnSignalDone \/ OnRetired
                 /\ log[cursor + 1].kind \in {"done", "retire"}
                 /\ Current \in Agent
                 /\ agents' = agents \ {Current}
                 /\ liveness' \in {liveness, Forgotten(liveness, Current)}
                 /\ loop' \in [Agent -> {"off", "running", "aborted"}]
                 /\ \A a \in Agent : /\ loop'[a] # "off" <=> loop[a] # "off"
                                     /\ loop'[a] = "running" => loop[a] = "running"
                 /\ sched'.running \in SUBSET sched.running
                 /\ sched.running \ {Current} \in SUBSET sched'.running
<1>0. sched \in Scheduler
  BY DEF SwarmTypes
<1>1. CASE OnActivated
  <2>1. ~OnManifest /\ ~OnSignalDone /\ ~OnRetired
    BY <1>1, CurrentEntry DEF OnActivated, OnManifest, OnSignalDone, OnRetired, Batched
  <2>2. Current \in Agent
    BY <1>1, CurrentEntry DEF OnActivated
  <2>3. UNCHANGED <<starts, seed, up, polled, terminal, log, status, orphans, agents, loop, liveness>>
    BY <1>1 DEF OnActivated, world
  <2>4. CASE Current \in agents
    <3>1. sched' = Moved(sched) /\ cursor' = cursor + 1
      BY <1>1, <2>4 DEF OnActivated, Advance
    <3> QED
      BY <1>0, <2>1, <2>2, <2>3, <3>1, MovedFields
  <2>5. CASE Current \notin agents
    <3>1. sched' = sched /\ cursor' = cursor
      BY <1>1, <2>5 DEF OnActivated
    <3> QED
      BY <2>1, <2>3, <3>1
  <2> QED
    BY <2>4, <2>5
<1>2. CASE OnManifest
  <2>1. ~OnActivated /\ ~OnSignalDone /\ ~OnRetired /\ resolving # Nothing
    BY <1>2 DEF OnActivated, OnManifest, OnSignalDone, OnRetired, Batched
  <2>2. resolving \in Agent /\ resolving \notin sched.known
    BY <2>1, ResolvingEntry
  <2>3. UNCHANGED <<starts, seed, up, polled, terminal, log, status, orphans, agents, loop>>
        /\ cursor' = cursor + 1
    BY <1>2 DEF OnManifest, Advance, world
  <2>4. CASE resolving \in BadManifest
    <3>1. sched' = Moved(sched) /\ liveness' = Expired(liveness, resolving)
      BY <1>2, <2>4 DEF OnManifest, Advance
    <3>2. /\ sched'.moved /\ sched'.known = sched.known /\ sched'.pending = sched.pending
          /\ sched'.running = sched.running
      BY <1>0, <2>2, <3>1, MovedFields
    <3> QED
      BY <1>2, <2>1, <2>3, <2>4, <3>1, <3>2
  <2>5. CASE resolving \notin BadManifest
    <3>1. sched' = Moved(Admitted(sched, resolving)) /\ UNCHANGED liveness
      BY <1>2, <2>5 DEF OnManifest, Advance
    <3>2. /\ Admitted(sched, resolving) \in Scheduler
          /\ Admitted(sched, resolving).known = sched.known \cup {resolving}
          /\ Admitted(sched, resolving).pending = sched.pending \cup {resolving}
          /\ Admitted(sched, resolving).running = sched.running
      BY <1>0, <2>2, AdmittedFields
    <3>3. /\ sched'.moved /\ sched'.running = sched.running
          /\ sched'.known = sched.known \cup {resolving}
          /\ sched'.pending = sched.pending \cup {resolving}
      BY <2>2, <3>1, <3>2, MovedFields
    <3> QED
      BY <1>2, <2>1, <2>3, <2>5, <3>1, <3>3
  <2> QED
    BY <2>4, <2>5
<1>3. CASE OnSignalDone
  <2>1. Batched("done") /\ ~OnManifest
    BY <1>3 DEF OnSignalDone, OnManifest, Batched
  <2>2. Current \in Agent /\ log[cursor + 1].kind = "done"
    BY <2>1, CurrentEntry DEF Batched
  <2>3. UNCHANGED <<starts, seed, up, polled, terminal, log, status, orphans, loop>>
        /\ cursor' = cursor + 1
        /\ agents' = agents \ {Current}
        /\ liveness' \in {liveness, Forgotten(liveness, Current)}
    BY <1>3 DEF OnSignalDone, Advance, world
  <2>4. /\ Released(sched, Current) \in Scheduler
        /\ Released(sched, Current).known = sched.known
        /\ Released(sched, Current).pending = sched.pending
        /\ Released(sched, Current).running \in {sched.running, sched.running \ {Current}}
    BY <1>0, <2>2, CompletedFields DEF Released
  <2>5. sched' = Moved(Released(sched, Current))
    BY <1>3 DEF OnSignalDone, Advance
  <2>6. /\ sched'.moved /\ sched'.known = sched.known /\ sched'.pending = sched.pending
        /\ sched'.running \in {sched.running, sched.running \ {Current}}
    BY <2>2, <2>4, <2>5, MovedFields
  <2>7. loop' \in [Agent -> {"off", "running", "aborted"}]
    BY <2>3 DEF SwarmTypes
  <2> QED
    BY <1>3, <2>1, <2>2, <2>3, <2>6, <2>7
<1>4. CASE OnRetired
  <2>1. Batched("retire") /\ ~OnManifest
    BY <1>4 DEF OnRetired, OnManifest, Batched
  <2>2. Current \in Agent /\ log[cursor + 1].kind = "retire"
    BY <2>1, CurrentEntry DEF Batched
  <2>3. UNCHANGED <<starts, seed, up, polled, terminal, log, status, orphans>>
        /\ cursor' = cursor + 1
        /\ agents' = agents \ {Current}
        /\ liveness' = Forgotten(liveness, Current)
        /\ loop' = Aborted(agents \cap {Current})
    BY <1>4 DEF OnRetired, Advance, world
  <2>4. /\ Released(sched, Current) \in Scheduler
        /\ Released(sched, Current).known = sched.known
        /\ Released(sched, Current).pending = sched.pending
        /\ Released(sched, Current).running \in {sched.running, sched.running \ {Current}}
    <3>1. CASE Current \in agents
      BY <1>0, <2>2, <3>1, CompletedFields DEF Released
    <3>2. CASE Current \notin agents
      BY <1>0, <3>2 DEF Released
    <3> QED
      BY <3>1, <3>2
  <2> DEFINE s == Discarded(Released(sched, Current), Current)
  <2>5. sched' = Moved(s)
    BY <1>4 DEF OnRetired, Advance
  <2>6. /\ s \in Scheduler
        /\ s.known = sched.known /\ s.pending = sched.pending \ {Current}
        /\ s.running \in {sched.running, sched.running \ {Current}}
    <3>1. PICK r \in Scheduler : r = Released(sched, Current)
      BY <2>4
    <3>2. /\ Discarded(r, Current) \in Scheduler
          /\ Discarded(r, Current).known = r.known
          /\ Discarded(r, Current).pending = r.pending \ {Current}
          /\ Discarded(r, Current).running = r.running
      BY <2>2, DiscardedFields
    <3> QED
      BY <2>4, <3>1, <3>2
  <2> HIDE DEF s
  <2>7. /\ sched'.moved /\ sched'.known = sched.known
        /\ sched'.pending = sched.pending \ {Current}
        /\ sched'.running \in {sched.running, sched.running \ {Current}}
    BY <2>2, <2>5, <2>6, MovedFields
  <2>8. /\ loop' \in [Agent -> {"off", "running", "aborted"}]
        /\ \A a \in Agent : /\ loop'[a] # "off" <=> loop[a] # "off"
                            /\ loop'[a] = "running" => loop[a] = "running"
    BY <2>3 DEF Aborted, SwarmTypes
  <2> QED
    BY <1>4, <2>1, <2>2, <2>3, <2>7, <2>8
<1> QED
  BY <1>1, <1>2, <1>3, <1>4 DEF Supervise

\* What a step other than a crash does to one participant's bookkeeping: it is
\* started from the queue only, and only a resolved manifest admits it.
LEMMA AgentFields ==
    ASSUME SwarmTypes, AtRest, Reading, Recorded, Counted, Slots, SwarmNext, ~Crash,
           NEW a \in Agent
    PROVE  /\ \/ starts'[a] = starts[a]
              \/ a \in sched.pending /\ a \notin sched'.pending /\ starts'[a] = starts[a] + 1
           /\ a \in sched.known => a \in sched'.known
           /\ a \in sched'.known => a \in sched.known \/ (OnManifest /\ a = resolving)
           /\ a \in sched'.pending =>
                 \/ a \in sched.pending
                 \/ OnManifest /\ a = resolving /\ a \in sched'.known
           /\ a \in agents' \/ loop'[a] # "off" \/ liveness'[a] = "fresh" =>
                 \/ a \in agents \/ loop[a] # "off" \/ liveness[a] = "fresh"
                 \/ starts'[a] = starts[a] + 1
<1>0. sched \in Scheduler
  BY DEF SwarmTypes
<1>1. CASE \E b \in Agent : \/ Activate(b) \/ PeerRetires(b) \/ AgentSignalsDone(b)
                            \/ BeatsOverdue(b) \/ ReconcileOrphan(b)
  BY <1>1 DEF SwarmTypes, Activate, PeerRetires, AgentSignalsDone, BeatsOverdue,
              ReconcileOrphan, Expired
<1>2. CASE Start \/ DrainBegin \/ Stop
  BY <1>2 DEF SwarmTypes, Start, DrainBegin, Stop, Aborted
<1>3. CASE \E b \in Agent : OnHeartbeat(b)
  <2>1. PICK b \in Agent : OnHeartbeat(b)
    BY <1>3
  <2>2. /\ sched'.known = sched.known /\ sched'.pending = sched.pending
    BY <1>0, <2>1, MovedFields DEF OnHeartbeat
  <2> QED
    BY <2>1, <2>2 DEF SwarmTypes, OnHeartbeat
<1>4. CASE \E b \in Agent : OnAgentComplete(b)
  <2>1. PICK b \in Agent : OnAgentComplete(b)
    BY <1>4
  <2>2. /\ sched'.known = sched.known /\ sched'.pending = sched.pending
    BY <1>0, <2>1, CompletedFields DEF OnAgentComplete
  <2> QED
    BY <2>1, <2>2 DEF SwarmTypes, OnAgentComplete, Forgotten
<1>5. CASE LivenessTick
  <2>1. /\ sched'.known = sched.known /\ sched'.pending = sched.pending
    BY <1>0, <1>5, ObservedFields DEF LivenessTick, Tick
  <2> QED
    BY <1>5, <2>1 DEF LivenessTick, Tick
<1>6. CASE DrainNothing \/ DrainEnd
  <2>1. PICK S \in SUBSET sched.pending : Takes(S)
    BY <1>6, DispatchStep DEF DrainNothing, DrainEnd
  <2> QED
    BY <2>1 DEF Takes, SwarmTypes
<1>7. CASE Supervise
  <2>1. starts'[a] = starts[a]
    BY <1>7, SuperviseFields
  <2>2. /\ a \in sched.known => a \in sched'.known
        /\ a \in sched'.known => a \in sched.known \/ (OnManifest /\ a = resolving)
        /\ a \in sched'.pending =>
              \/ a \in sched.pending
              \/ OnManifest /\ a = resolving /\ a \in sched'.known
    BY <1>7, SuperviseFields
  <2>3. a \in agents' => a \in agents
    BY <1>7, SuperviseFields
  <2>4. loop'[a] # "off" => loop[a] # "off"
    BY <1>7, SuperviseFields
  <2>5. liveness'[a] = "fresh" => liveness[a] = "fresh"
    <3>1. \/ UNCHANGED liveness
          \/ liveness' = Expired(liveness, resolving)
          \/ liveness' = Forgotten(liveness, Current)
      BY <1>7, SuperviseFields DEF Supervise
    <3> QED
      BY <3>1 DEF Expired, Forgotten, SwarmTypes
  <2> QED
    BY <2>1, <2>2, <2>3, <2>4, <2>5
<1> QED
  BY <1>1, <1>2, <1>3, <1>4, <1>5, <1>6, <1>7 DEF SwarmNext

\* Nobody is started twice, nobody before its activation was read.
LEMMA CountedStep ==
    ASSUME SwarmTypes, AtRest, Reading, Recorded, Counted, Slots, SwarmNext
    PROVE  Counted'
<1> SUFFICES ASSUME NEW a \in Agent
             PROVE  /\ starts'[a] <= 1
                    /\ starts'[a] > 0 \/ a \in sched'.known => status'[a] # "registered"
                    /\ a \in sched'.pending => a \in sched'.known /\ starts'[a] = 0
                    /\ a \in agents' \/ loop'[a] # "off" \/ liveness'[a] = "fresh"
                          => starts'[a] > 0
                    /\ up' # "down" /\ Unseen(a)' => starts'[a] = 0 /\ a \notin sched'.known
  BY DEF Counted
<1>1. /\ starts[a] \in Nat /\ starts[a] <= 1
      /\ starts[a] > 0 \/ a \in sched.known => status[a] # "registered"
      /\ a \in sched.pending => a \in sched.known /\ starts[a] = 0
      /\ a \in agents \/ loop[a] # "off" \/ liveness[a] = "fresh" => starts[a] > 0
      /\ up # "down" /\ Unseen(a) => starts[a] = 0 /\ a \notin sched.known
  BY DEF Counted, SwarmTypes
<1>2. status[a] # "registered" => status'[a] # "registered"
  BY WorldStep DEF WorldGrows
<1>3. CASE Crash
  BY <1>1, <1>2, <1>3 DEF Crash, FreshScheduler, Unstarted, NoLiveness
<1>4. CASE ~Crash
  <2>1. /\ \/ starts'[a] = starts[a]
           \/ a \in sched.pending /\ a \notin sched'.pending /\ starts'[a] = starts[a] + 1
        /\ a \in sched.known => a \in sched'.known
        /\ a \in sched'.known => a \in sched.known \/ (OnManifest /\ a = resolving)
        /\ a \in sched'.pending =>
              \/ a \in sched.pending
              \/ OnManifest /\ a = resolving /\ a \in sched'.known
        /\ a \in agents' \/ loop'[a] # "off" \/ liveness'[a] = "fresh" =>
              \/ a \in agents \/ loop[a] # "off" \/ liveness[a] = "fresh"
              \/ starts'[a] = starts[a] + 1
    BY <1>4, AgentFields
  <2>2. OnManifest /\ a = resolving =>
           /\ status[a] # "registered" /\ starts[a] = 0 /\ a \notin sched.known
           /\ ~Unseen(a)'
    <3> SUFFICES ASSUME OnManifest, a = resolving
                 PROVE  /\ status[a] # "registered" /\ starts[a] = 0 /\ a \notin sched.known
                        /\ ~Unseen(a)'
      OBVIOUS
    <3>1. resolving # Nothing /\ cursor' = cursor + 1 /\ log' = log
      BY DEF OnManifest, Advance, world
    <3> QED
      BY <3>1, ResolvingEntry, PassedIsSeen
  <2>3. up' # "down" /\ Unseen(a)' => status[a] = "registered" \/ (up # "down" /\ Unseen(a))
    BY UnseenBefore
  <2> QED
    BY <1>1, <1>2, <2>1, <2>2, <2>3
<1> QED
  BY <1>3, <1>4

\* What a step other than a crash leaves of an active participant's tracks.
LEMMA ActiveFields ==
    ASSUME SwarmTypes, AtRest, Reading, Recorded, Counted, Slots, SwarmNext, ~Crash,
           NEW a \in Agent, status[a] = "active", status'[a] = "active"
    PROVE  \/ a \in agents' /\ a \in sched'.running /\ loop'[a] # "off"
           \/ /\ a \in abandoned' /\ a \notin agents'
              /\ loop'[a] = "off" /\ liveness'[a] = "none"
           \/ /\ loop'[a] = "running" => loop[a] = "running"
              /\ liveness'[a] = "fresh" => liveness[a] = "fresh" \/ loop[a] = "running"
              /\ a \in agents' <=> a \in agents
              /\ a \in agents /\ a \in sched.running => a \in sched'.running
              /\ loop[a] # "off" => loop'[a] # "off"
              /\ a \in sched.pending => a \in sched'.pending
              /\ liveness[a] = "expired" => liveness'[a] = "expired" \/ loop[a] = "running"
<1>0. sched \in Scheduler
  BY DEF SwarmTypes
<1>1. CASE \E b \in Agent : \/ Activate(b) \/ PeerRetires(b) \/ AgentSignalsDone(b)
                            \/ BeatsOverdue(b) \/ ReconcileOrphan(b)
  BY <1>1 DEF SwarmTypes, Activate, PeerRetires, AgentSignalsDone, BeatsOverdue,
              ReconcileOrphan, Expired
<1>2. CASE Start \/ DrainBegin \/ Stop
  BY <1>2 DEF SwarmTypes, Start, DrainBegin, Stop, Aborted
<1>3. CASE \E b \in Agent : OnHeartbeat(b)
  <2>1. PICK b \in Agent : OnHeartbeat(b)
    BY <1>3
  <2>2. sched'.running = sched.running /\ sched'.pending = sched.pending
    BY <1>0, <2>1, MovedFields DEF OnHeartbeat
  <2> QED
    BY <2>1, <2>2 DEF SwarmTypes, OnHeartbeat
<1>4. CASE \E b \in Agent : OnAgentComplete(b)
  <2>1. PICK b \in Agent : OnAgentComplete(b)
    BY <1>4
  <2>2. sched'.running = sched.running \ {b} /\ sched'.pending = sched.pending
    BY <1>0, <2>1, CompletedFields DEF OnAgentComplete
  <2>3. CASE b # a
    BY <2>1, <2>2, <2>3 DEF SwarmTypes, OnAgentComplete, Forgotten
  <2>4. CASE b = a
    <3>1. a \in abandoned'
      BY <2>1, <2>4 DEF OnAgentComplete, SignalDone, Commit, SwarmTypes
    <3> QED
      BY <2>1, <2>4, <3>1 DEF SwarmTypes, OnAgentComplete, Forgotten
  <2> QED
    BY <2>3, <2>4
<1>5. CASE LivenessTick
  <2>1. sched'.running = sched.running /\ sched'.pending = sched.pending
    BY <1>0, <1>5, ObservedFields DEF LivenessTick, Tick
  <2> QED
    BY <1>5, <2>1 DEF LivenessTick, Tick
<1>6. CASE DrainNothing \/ DrainEnd
  <2>1. PICK S \in SUBSET sched.pending : Takes(S)
    BY <1>6, DispatchStep DEF DrainNothing, DrainEnd
  <2> QED
    BY <2>1 DEF Takes, SwarmTypes
<1>7. CASE Supervise
  <2>1. CASE OnSignalDone \/ OnRetired
    <3>1. /\ log[cursor + 1].kind \in {"done", "retire"} /\ Current \in Agent
          /\ cursor + 1 \in DOMAIN log
      BY <2>1, CurrentEntry, SuperviseFields
         DEF OnSignalDone, OnRetired, Batched, Supervise
    <3>2. Current # a
      BY <3>1 DEF Recorded, Current
    <3>3. /\ agents' = agents \ {Current}
          /\ liveness' \in {liveness, Forgotten(liveness, Current)}
          /\ \A b \in Agent : /\ loop'[b] # "off" <=> loop[b] # "off"
                              /\ loop'[b] = "running" => loop[b] = "running"
          /\ sched.running \ {Current} \in SUBSET sched'.running
          /\ sched.pending \ {Current} \in SUBSET sched'.pending
      BY <1>7, <2>1, SuperviseFields
    <3>4. liveness'[a] = liveness[a]
      BY <3>2, <3>3 DEF Forgotten, SwarmTypes
    <3> QED
      BY <3>2, <3>3, <3>4
  <2>2. CASE OnActivated \/ OnManifest
    <3>1. /\ UNCHANGED <<agents, loop>> /\ sched'.running = sched.running
          /\ sched.pending \in SUBSET sched'.pending
          /\ liveness' \in {liveness, Expired(liveness, resolving)}
      BY <1>7, <2>2, SuperviseFields
         DEF OnActivated, OnManifest, OnSignalDone, OnRetired, Batched
    <3>2. liveness'[a] = "fresh" => liveness[a] = "fresh"
      BY <3>1 DEF Expired, SwarmTypes
    <3>3. liveness[a] = "expired" => liveness'[a] = "expired"
      BY <3>1 DEF Expired, SwarmTypes
    <3> QED
      BY <3>1, <3>2, <3>3
  <2> QED
    BY <1>7, <2>1, <2>2 DEF Supervise
<1> QED
  BY <1>1, <1>2, <1>3, <1>4, <1>5, <1>6, <1>7 DEF SwarmNext

\* Whoever works for an active participant holds a handle and a slot.
LEMMA HeldStep ==
    ASSUME SwarmTypes, AtRest, Reading, Recorded, Counted, Slots, Held, SwarmNext
    PROVE  Held'
<1> SUFFICES ASSUME NEW a \in Agent, status'[a] = "active"
             PROVE  /\ loop'[a] = "running" \/ liveness'[a] = "fresh" => a \in agents'
                    /\ a \in agents' => a \in sched'.running /\ loop'[a] # "off"
  BY DEF Held
<1>1. CASE Crash
  BY <1>1 DEF Crash, Unstarted, NoLiveness
<1>2. CASE ~Crash /\ status[a] = "active"
  <2>1. /\ loop[a] = "running" \/ liveness[a] = "fresh" => a \in agents
        /\ a \in agents => a \in sched.running /\ loop[a] # "off"
    BY <1>2 DEF Held
  <2> QED
    BY <1>2, <2>1, ActiveFields
<1>3. CASE ~Crash /\ status[a] # "active"
  <2>1. status[a] = "registered"
    BY <1>3, WorldStep DEF WorldGrows
  <2>2. starts[a] = 0 /\ a \notin sched.pending
    BY <2>1 DEF Counted, SwarmTypes
  <2>3. starts'[a] = 0
    BY <1>3, <2>2, AgentFields
  <2>4. ~(a \in agents' \/ loop'[a] # "off" \/ liveness'[a] = "fresh")
    BY <2>3, CountedStep DEF Counted
  <2> QED
    BY <2>4
<1> QED
  BY <1>1, <1>2, <1>3

\* The slots are never overcommitted.
LEMMA SlotsStep ==
    ASSUME SwarmTypes, AtRest, Reading, Recorded, Counted, Slots, SwarmNext
    PROVE  Slots'
<1>0. sched \in Scheduler
  BY DEF SwarmTypes
<1>1. IsFiniteSet({a \in Agent : status'[a] # "registered"})
  BY WorldStep
<1>2. ASSUME sched'.running \in SUBSET sched.running,
             \E x : sched'.pending \in SUBSET (sched.pending \cup {x})
      PROVE  Slots'
  <2>1. PICK x : sched'.pending \in SUBSET (sched.pending \cup {x})
    BY <1>2
  <2>2. IsFiniteSet(sched.pending \cup {x})
    BY FS_AddElement DEF Slots
  <2>3. IsFiniteSet(sched'.pending)
    BY <2>1, <2>2, FS_Subset
  <2>4. IsFiniteSet(sched'.running) /\ Cardinality(sched'.running) <= Cardinality(sched.running)
    BY <1>2, FS_Subset DEF Slots
  <2>5. /\ Cardinality(sched'.running) \in Nat /\ Cardinality(sched.running) \in Nat
        /\ Cardinality(sched.running) <= MaxConcurrent
    BY <2>4, FS_CardinalityType DEF Slots
  <2> QED
    BY <1>1, <2>3, <2>4, <2>5, Limits DEF Slots
<1>3. CASE \E b \in Agent : \/ Activate(b) \/ PeerRetires(b) \/ AgentSignalsDone(b)
                            \/ BeatsOverdue(b) \/ ReconcileOrphan(b)
  <2>1. sched' = sched
    BY <1>3 DEF Activate, PeerRetires, AgentSignalsDone, BeatsOverdue, ReconcileOrphan
  <2> QED
    BY <1>2, <2>1
<1>4. CASE Start \/ DrainBegin \/ Stop
  <2>1. sched' = sched
    BY <1>4 DEF Start, DrainBegin, Stop
  <2> QED
    BY <1>2, <2>1
<1>5. CASE \E b \in Agent : OnHeartbeat(b) \/ OnAgentComplete(b)
  <2>1. PICK b \in Agent : sched' = Moved(sched) \/ sched' = Completed(sched, b)
    BY <1>5 DEF OnHeartbeat, OnAgentComplete
  <2>2. sched'.running \in SUBSET sched.running /\ sched'.pending = sched.pending
    <3>1. CASE sched' = Moved(sched)
      BY <1>0, <3>1, MovedFields
    <3>2. CASE sched' = Completed(sched, b)
      <4>1. sched'.running = sched.running \ {b} /\ sched'.pending = sched.pending
        BY <1>0, <3>2, CompletedFields
      <4> QED
        BY <4>1
    <3> QED
      BY <2>1, <3>1, <3>2
  <2> QED
    BY <1>2, <2>2
<1>6. CASE LivenessTick
  <2>1. sched'.running = sched.running /\ sched'.pending = sched.pending
    BY <1>0, <1>6, ObservedFields DEF LivenessTick, Tick
  <2> QED
    BY <1>2, <2>1
<1>7. CASE DrainNothing \/ DrainEnd
  <2>1. Dispatch
    BY <1>7 DEF DrainNothing, DrainEnd
  <2> QED
    BY <1>1, <2>1, DispatchStep DEF Slots
<1>8. CASE Supervise
  <2>1. sched'.running \in SUBSET sched.running
    BY <1>8, SuperviseFields
  <2>2. sched'.pending \in SUBSET (sched.pending \cup {resolving})
    BY <1>8, SuperviseFields
  <2> QED
    BY <1>2, <2>1, <2>2
<1>9. CASE Crash
  <2>1. sched'.running = {} /\ sched'.pending = {}
    BY <1>9 DEF Crash, FreshScheduler
  <2> QED
    BY <1>2, <2>1
<1> QED
  BY <1>3, <1>4, <1>5, <1>6, <1>7, <1>8, <1>9 DEF SwarmNext

\* What the reconciliation awaits was in the feed at the start.
LEMMA OrphanedStep ==
    ASSUME SwarmTypes, AtRest, Reading, Recorded, Counted, Slots, Orphaned, SwarmNext
    PROVE  Orphaned'
<1>1. /\ log \in Seq(Entry) /\ Len(log) \in Nat /\ seed \in Nat /\ cursor \in Nat
      /\ \A i \in DOMAIN log : log'[i] = log[i]
  BY WorldStep DEF WorldGrows, SwarmTypes
<1>2. CASE Start
  <2>1. seed' = Len(log) /\ log' = log
    BY <1>2 DEF Start, HeadCursor, world
  <2>2. \A a \in orphans' : status[a] # "registered" /\ a \in Agent
    BY <1>2 DEF Start
  <2>3. 1 .. seed' = DOMAIN log
    BY <1>1, <2>1
  <2> QED
    BY <2>1, <2>2, <2>3 DEF Orphaned, Recorded, Activation
<1>3. CASE Crash
  BY <1>3 DEF Crash, Orphaned
<1>4. CASE ~Start /\ ~Crash
  <2>1. seed' = seed
    BY <1>4, CursorStep
  <2>2. orphans' \in SUBSET orphans
    <3>1. CASE \E b \in Agent : \/ Activate(b) \/ PeerRetires(b) \/ AgentSignalsDone(b)
                                \/ BeatsOverdue(b) \/ ReconcileOrphan(b)
                                \/ OnHeartbeat(b) \/ OnAgentComplete(b)
      BY <3>1 DEF Activate, PeerRetires, AgentSignalsDone, BeatsOverdue, ReconcileOrphan,
                  OnHeartbeat, OnAgentComplete
    <3>2. CASE DrainBegin \/ DrainNothing \/ DrainEnd \/ LivenessTick \/ Stop
      BY <3>2 DEF DrainBegin, DrainNothing, DrainEnd, LivenessTick, Tick, Stop
    <3>3. CASE Supervise
      BY <3>3, SuperviseFields
    <3> QED
      BY <1>4, <3>1, <3>2, <3>3 DEF SwarmNext
  <2>3. CASE up = "down"
    BY <2>2, <2>3 DEF AtRest, Orphaned
  <2>4. CASE up # "down"
    <3>1. seed <= Len(log)
      BY <1>1, <2>4 DEF Reading
    <3> SUFFICES ASSUME NEW a \in orphans' PROVE \E i \in 1 .. seed' : log'[i] = Activation(a)
      BY DEF Orphaned, Activation
    <3>2. PICK i \in 1 .. seed : log[i] = Activation(a)
      BY <2>2 DEF Orphaned
    <3>3. i \in DOMAIN log
      BY <1>1, <3>1
    <3> QED
      BY <1>1, <2>1, <3>2, <3>3
  <2> QED
    BY <2>3, <2>4
<1> QED
  BY <1>2, <1>3, <1>4

\* A condition that the drained changes meet is met in the world.
LEMMA DrainedIsMet ==
    ASSUME SwarmTypes, Reading, Recorded, up # "down", NEW a \in Agent, MetByDrained(a)
    PROVE  ConditionMet(a)
<1> SUFFICES ASSUME NEW b \in Needs[a] PROVE status[b] \in {"done", "retired"}
  BY DEF ConditionMet
<1>1. PICK i \in 1 .. cursor : log[i] \in [kind : {"done", "retire"}, agent : {b}]
  BY DEF MetByDrained
<1>2. i \in DOMAIN log
  BY DEF Reading, SwarmTypes
<1> QED
  BY <1>1, <1>2 DEF Recorded

\* What has been read does not change.
LEMMA DrainedBefore ==
    ASSUME SwarmTypes, Reading, WorldGrows, up # "down", cursor' = cursor,
           NEW a \in Agent, MetByDrained(a)'
    PROVE  MetByDrained(a)
<1>1. /\ log \in Seq(Entry) /\ Len(log) \in Nat /\ cursor \in Nat /\ cursor <= Len(log)
      /\ \A i \in DOMAIN log : log'[i] = log[i]
  BY DEF WorldGrows, SwarmTypes, Reading
<1>2. \A i \in 1 .. cursor : log'[i] = log[i]
  BY <1>1
<1>3. \A b \in Needs[a] : \E i \in 1 .. cursor' :
         log'[i] \in [kind : {"done", "retire"}, agent : {b}]
  BY DEF MetByDrained
<1> QED
  BY <1>2, <1>3 DEF MetByDrained

\* Whoever a dispatch leaves waiting, waits for changes not drained yet.
LEMMA QuietStep ==
    ASSUME SwarmTypes, AtRest, Reading, Recorded, Counted, Slots, Quiet, SwarmNext
    PROVE  Quiet'
<1> SUFFICES ASSUME up' = "running", polled', terminal' = "none", ~sched'.moved,
                    sched'.running = {}, NEW a \in sched'.pending
             PROVE  ~MetByDrained(a)'
  BY DEF Quiet, Running
<1>0. sched \in Scheduler
  BY DEF SwarmTypes
<1>1. a \in Agent
  BY SwarmTypesStep DEF SwarmTypes, Scheduler
<1>2. WorldGrows
  BY WorldStep
<1>3. ASSUME up = "running", UNCHANGED <<polled, terminal, sched, cursor>>
      PROVE  ~MetByDrained(a)'
  BY <1>1, <1>2, <1>3, DrainedBefore DEF Quiet, Running
<1>4. CASE \E b \in Agent : \/ Activate(b) \/ PeerRetires(b) \/ AgentSignalsDone(b)
                            \/ BeatsOverdue(b) \/ ReconcileOrphan(b)
  BY <1>3, <1>4 DEF Activate, PeerRetires, AgentSignalsDone, BeatsOverdue, ReconcileOrphan
<1>5. CASE \E b \in Agent : OnHeartbeat(b) \/ OnAgentComplete(b)
  <2>1. PICK b \in Agent : sched' = Moved(sched) \/ sched' = Completed(sched, b)
    BY <1>5 DEF OnHeartbeat, OnAgentComplete
  <2>2. CASE sched' = Moved(sched)
    BY <1>0, <2>2, MovedFields
  <2>3. CASE sched' = Completed(sched, b)
    BY <1>0, <2>3, CompletedFields
  <2> QED
    BY <2>1, <2>2, <2>3
<1>6. CASE Start
  BY <1>6 DEF Start, AtRest
<1>7. CASE DrainBegin
  BY <1>3, <1>7 DEF DrainBegin
<1>8. CASE DrainNothing \/ DrainEnd
  <2>1. Dispatch /\ UNCHANGED <<up, cursor, log, status>>
    BY <1>8 DEF DrainNothing, DrainEnd, world
  <2>2. ~ConditionMet(a)
    BY <2>1, DispatchStep DEF LeavesWaiting, Running
  <2>3. ~MetByDrained(a)
    BY <1>1, <2>1, <2>2, DrainedIsMet
  <2> QED
    BY <2>1, <2>3 DEF MetByDrained
<1>9. CASE Supervise
  <2>1. sched' = sched /\ cursor' = cursor /\ UNCHANGED <<up, polled, terminal>>
    BY <1>9, SuperviseFields
  <2> QED
    BY <1>3, <2>1
<1>10. CASE LivenessTick \/ Stop \/ Crash
  BY <1>10 DEF LivenessTick, Tick, Stop, Crash
<1> QED
  BY <1>4, <1>5, <1>6, <1>7, <1>8, <1>9, <1>10 DEF SwarmNext

\* An active participant a supervisor tracks is tracked after any step in which
\* the supervisor goes on, unless the reconciliation passes it over or its end
\* was refused.
LEMMA TrackedStep ==
    ASSUME SwarmTypes, AtRest, Reading, Recorded, Counted, Slots, Held, Orphaned, SwarmNext,
           ~Start, ~Crash, Running, Running',
           NEW a \in Agent, status[a] = "active", status'[a] = "active",
           ~PassedOver(a), a \notin abandoned', Tracked(a)
    PROVE  Tracked(a)'
<1>1. \/ a \in agents' /\ a \in sched'.running /\ loop'[a] # "off"
      \/ /\ loop'[a] = "running" => loop[a] = "running"
         /\ liveness'[a] = "fresh" => liveness[a] = "fresh" \/ loop[a] = "running"
         /\ a \in agents' <=> a \in agents
         /\ a \in agents /\ a \in sched.running => a \in sched'.running
         /\ loop[a] # "off" => loop'[a] # "off"
         /\ a \in sched.pending => a \in sched'.pending
         /\ liveness[a] = "expired" => liveness'[a] = "expired" \/ loop[a] = "running"
  BY ActiveFields
<1>2. /\ loop[a] = "running" \/ liveness[a] = "fresh" => a \in agents
      /\ a \in agents => a \in sched.running /\ loop[a] # "off"
  BY DEF Held
<1>3. CASE a \in orphans
  <2>1. CASE a \in orphans'
    BY <2>1 DEF Tracked
  <2>2. CASE a \notin orphans'
    <3>1. ReconcileOrphan(a)
      <4>1. CASE \E b \in Agent : \/ Activate(b) \/ PeerRetires(b) \/ AgentSignalsDone(b)
                                  \/ BeatsOverdue(b) \/ OnHeartbeat(b) \/ OnAgentComplete(b)
        BY <1>3, <2>2, <4>1 DEF Activate, PeerRetires, AgentSignalsDone, BeatsOverdue,
                                OnHeartbeat, OnAgentComplete
      <4>2. CASE DrainBegin \/ DrainNothing \/ DrainEnd \/ LivenessTick \/ Stop
        BY <1>3, <2>2, <4>2 DEF DrainBegin, DrainNothing, DrainEnd, LivenessTick, Tick, Stop
      <4>3. CASE Supervise
        BY <1>3, <2>2, <4>3, SuperviseFields
      <4>4. CASE \E b \in Agent : ReconcileOrphan(b)
        BY <1>3, <2>2, <4>4 DEF ReconcileOrphan
      <4> QED
        BY <4>1, <4>2, <4>3, <4>4 DEF SwarmNext
    <3>2. PICK i \in 1 .. seed : log[i] = Activation(a)
      BY <1>3 DEF Orphaned
    <3>3. a \notin BadManifest
      BY <3>2 DEF PassedOver, Activation
    <3>4. liveness' = Expired(liveness, a)
      BY <3>1, <3>3 DEF ReconcileOrphan
    <3>5. liveness'[a] = "expired" \/ liveness[a] = "fresh"
      BY <3>4 DEF Expired, SwarmTypes
    <3> QED
      BY <1>1, <1>2, <3>5 DEF Tracked
  <2> QED
    BY <2>1, <2>2
<1>4. CASE a \notin orphans
  BY <1>1, <1>2, <1>4 DEF Tracked
<1> QED
  BY <1>3, <1>4

\* An active participant whose activation the drain passes is tracked from then on.
LEMMA ReadStep ==
    ASSUME SwarmTypes, AtRest, Reading, Recorded, Counted, Slots, SwarmNext,
           ~Start, ~Crash, NEW a \in Agent, Unseen(a), up # "down"
    PROVE  Unseen(a)' \/ Tracked(a)'
<1>1. CASE cursor' = cursor \/ log[cursor + 1] # Activation(a)
  BY <1>1, UnseenAfter
<1>2. CASE cursor' # cursor /\ log[cursor + 1] = Activation(a)
  <2>1. Supervise
    BY <1>2, CursorStep
  <2>2. starts[a] = 0 /\ a \notin agents /\ liveness[a] # "fresh"
    BY DEF Counted, SwarmTypes
  <2>3. ~OnSignalDone /\ ~OnRetired
    BY <1>2 DEF OnSignalDone, OnRetired, Batched, Activation
  <2>4. ~OnActivated
    BY <1>2, <2>2 DEF OnActivated, Current, Activation
  <2>5. OnManifest /\ resolving # Nothing
    BY <2>1, <2>3, <2>4 DEF Supervise, OnManifest
  <2>6. resolving = a
    BY <1>2, <2>5, ResolvingEntry DEF Activation
  <2>7. \/ a \in sched'.pending
        \/ liveness' = Expired(liveness, a)
    BY <2>1, <2>3, <2>5, <2>6, SuperviseFields DEF OnManifest, Advance
  <2>8. liveness' = Expired(liveness, a) => liveness'[a] = "expired"
    BY <2>2 DEF Expired, SwarmTypes
  <2> QED
    BY <2>7, <2>8 DEF Tracked
<1> QED
  BY <1>1, <1>2

\* Only the end of the process forgets whose end was refused.
LEMMA AbandonedGrows == SwarmNext /\ ~Crash => abandoned \subseteq abandoned'
<1> SUFFICES ASSUME SwarmNext, ~Crash PROVE abandoned \subseteq abandoned'
  OBVIOUS
<1>1. CASE \E b \in Agent : \/ Activate(b) \/ PeerRetires(b) \/ AgentSignalsDone(b)
                            \/ BeatsOverdue(b) \/ ReconcileOrphan(b) \/ OnHeartbeat(b)
  BY <1>1 DEF Activate, PeerRetires, AgentSignalsDone, BeatsOverdue, ReconcileOrphan, OnHeartbeat
<1>2. CASE \E b \in Agent : OnAgentComplete(b)
  BY <1>2 DEF OnAgentComplete, SignalDone
<1>3. CASE Start \/ DrainBegin \/ DrainNothing \/ DrainEnd \/ LivenessTick \/ Stop
  BY <1>3 DEF Start, DrainBegin, DrainNothing, DrainEnd, LivenessTick, Tick, Stop
<1>4. CASE Supervise
  BY <1>4 DEF Supervise, OnActivated, OnManifest, OnSignalDone, OnRetired
<1> QED
  BY <1>1, <1>2, <1>3, <1>4 DEF SwarmNext

\* Nobody active is lost sight of.
LEMMA NobodyForgottenStep ==
    ASSUME SwarmTypes, AtRest, Reading, Recorded, Counted, Slots, Held, Orphaned,
           NobodyForgotten, SwarmNext
    PROVE  NobodyForgotten'
<1> SUFFICES ASSUME Running', NEW a \in Agent, status'[a] = "active",
                    ~PassedOver(a)', a \notin abandoned'
             PROVE  Tracked(a)' \/ Unseen(a)'
  BY DEF NobodyForgotten, Excused
<1>1. WorldGrows
  BY WorldStep
<1>2. /\ log \in Seq(Entry) /\ Len(log) \in Nat /\ seed \in Nat /\ cursor \in Nat
      /\ log' \in Seq(Entry) /\ Len(log') \in Nat
      /\ \A i \in DOMAIN log : log'[i] = log[i]
  BY <1>1 DEF WorldGrows, SwarmTypes
<1>3. ~Crash
  BY DEF Crash, Running
<1>4. CASE Start
  <2>1. status[a] = "active" /\ liveness[a] = "none"
    BY <1>4 DEF Start, world, AtRest, NoLiveness
  <2>2. a \in orphans'
    BY <1>4, <2>1 DEF Start
  <2> QED
    BY <2>2 DEF Tracked
<1>5. CASE ~Start
  <2>1. seed' = seed /\ up # "down"
    BY <1>3, <1>5, CursorStep DEF Running
  <2>2. CASE status[a] # "active"
    <3>1. PICK i \in Len(log) + 1 .. Len(log') : log'[i] = Activation(a)
      BY <1>1, <2>2 DEF WorldGrows
    <3>2. cursor' = cursor /\ cursor <= Len(log)
      <4>1. log' # log
        BY <1>2, <3>1
      <4> QED
        BY <1>3, <1>5, <2>1, <4>1, CursorStep DEF Reading
    <3> QED
      BY <1>2, <3>1, <3>2 DEF Unseen, Activation
  <2>3. CASE status[a] = "active"
    <3>1. Running
      <4>1. up' = up
        <5>1. CASE \E b \in Agent : \/ Activate(b) \/ PeerRetires(b) \/ AgentSignalsDone(b)
                                    \/ BeatsOverdue(b) \/ ReconcileOrphan(b)
                                    \/ OnHeartbeat(b) \/ OnAgentComplete(b)
          BY <5>1 DEF Activate, PeerRetires, AgentSignalsDone, BeatsOverdue, ReconcileOrphan,
                      OnHeartbeat, OnAgentComplete
        <5>2. CASE DrainBegin \/ DrainNothing \/ DrainEnd \/ LivenessTick
          BY <5>2 DEF DrainBegin, DrainNothing, DrainEnd, LivenessTick, Tick
        <5>3. CASE Supervise
          BY <5>3, SuperviseFields
        <5>4. CASE Stop
          BY <5>4 DEF Stop, Running
        <5> QED
          BY <1>3, <1>5, <5>1, <5>2, <5>3, <5>4 DEF SwarmNext
      <4> QED
        BY <4>1 DEF Running
    <3>2. ~PassedOver(a)
      <4> SUFFICES ASSUME a \in BadManifest,
                          NEW i \in 1 .. seed, log[i].kind = "activate", log[i].agent = a
                   PROVE  FALSE
        BY DEF PassedOver
      <4>1. i \in DOMAIN log
        BY <1>2, <2>1 DEF Reading
      <4>2. log'[i] = log[i]
        BY <1>2, <4>1
      <4> QED
        BY <2>1, <4>2 DEF PassedOver
    <3>3. Tracked(a) \/ Unseen(a)
      BY <1>3, <2>3, <3>1, <3>2, AbandonedGrows DEF NobodyForgotten, Excused
    <3>4. CASE Tracked(a)
      BY <1>3, <1>5, <2>3, <3>1, <3>2, <3>4, TrackedStep
    <3>5. CASE Unseen(a)
      BY <1>3, <1>5, <2>1, <3>5, ReadStep
    <3> QED
      BY <3>3, <3>4, <3>5
  <2> QED
    BY <2>2, <2>3
<1> QED
  BY <1>4, <1>5

\* The invariant as one: it holds at first and no step breaks it.
LEMMA SwarmStep == SwarmInv /\ [SwarmNext]_swarmVars => SwarmInv'
<1> SUFFICES ASSUME SwarmInv, [SwarmNext]_swarmVars PROVE SwarmInv'
  OBVIOUS
<1> USE DEF SwarmInv
<1>1. CASE SwarmNext
  <2>1. Recorded'
    BY <1>1, WorldStep
  <2>2. SwarmTypes' /\ AtRest' /\ Reading' /\ Counted' /\ Slots'
    BY <1>1, SwarmTypesStep, AtRestStep, ReadingStep, CountedStep, SlotsStep
  <2>3. Held' /\ Orphaned' /\ Quiet' /\ NobodyForgotten'
    BY <1>1, HeldStep, OrphanedStep, QuietStep, NobodyForgottenStep
  <2> QED
    BY <2>1, <2>2, <2>3
<1>2. CASE UNCHANGED swarmVars
  <2> USE <1>2 DEF swarmVars
  <2>1. SwarmTypes' /\ AtRest' /\ Reading' /\ Recorded'
    BY DEF SwarmTypes, AtRest, Reading, Recorded, Unstarted, NoLiveness, FreshScheduler, Activation
  <2>2. Counted' /\ Held' /\ Slots' /\ Orphaned'
    BY DEF Counted, Unseen, Held, Slots, Orphaned, Activation
  <2>3. Quiet' /\ NobodyForgotten'
    BY DEF Quiet, Running, MetByDrained, NobodyForgotten, Excused, PassedOver,
           Tracked, Unseen
  <2> QED
    BY <2>1, <2>2, <2>3
<1> QED
  BY <1>1, <1>2

LEMMA SwarmInvariance == SwarmSpec => []SwarmInv
BY SwarmStart, SwarmStep, PTL DEF SwarmSpec

\* One activation is one agent: across crashes, restarts and replays of the feed
\* no participant's agent is started twice (admit, start).
THEOREM OneActivationOneAgent == SwarmSpec => []StartedOnce
<1>1. SwarmInv => StartedOnce
  BY DEF SwarmInv, Counted, StartedOnce
<1> QED
  BY <1>1, SwarmInvariance, PTL

\* At most maxConcurrentAgents agents work for active participants
\* (selectDispatchable, onCompleted).
THEOREM CeilingHolds == SwarmSpec => []WithinCeiling
<1>1. SwarmInv => WithinCeiling
  <2> SUFFICES ASSUME SwarmInv PROVE WithinCeiling
    OBVIOUS
  <2> DEFINE working == {a \in Agent : loop[a] = "running" /\ status[a] = "active"}
  <2>1. working \in SUBSET sched.running
    BY DEF SwarmInv, Held
  <2>2. /\ IsFiniteSet(sched.running) /\ Cardinality(sched.running) \in Nat
        /\ Cardinality(sched.running) <= MaxConcurrent
    BY FS_CardinalityType DEF SwarmInv, Slots
  <2>3. /\ Cardinality(working) <= Cardinality(sched.running)
        /\ Cardinality(working) \in Nat
    BY <2>1, <2>2, FS_Subset, FS_CardinalityType
  <2> QED
    BY <2>2, <2>3, Limits DEF WithinCeiling
<1> QED
  BY <1>1, SwarmInvariance, PTL

\* While the supervisor runs, every active participant is in the queue, at work,
\* on its way to retirement or still in the feed, unless the reconciliation
\* passed it over or the kernel refused to write its end, which the supervisor
\* does not look at (onManifestUnresolved, reconcileLivenessFromWorld,
\* onAgentComplete).
THEOREM NobodyIsForgotten == SwarmSpec => []NobodyForgotten
<1>1. SwarmInv => NobodyForgotten
  BY DEF SwarmInv
<1> QED
  BY <1>1, SwarmInvariance, PTL

\* The stall verdict is given when no agent runs; and when none that waits has
\* its condition met by the changes drained so far, if a drain came to its end
\* since the tick before (checkStall, observeStall).
THEOREM StallIsReal == SwarmSpec => StallAsDrained
<1>1. ASSUME SwarmInv, SwarmNext, terminal' = "stalled", terminal # "stalled"
      PROVE  /\ sched.running = {}
             /\ polled => \A a \in sched.pending : ~MetByDrained(a)
  <2>1. sched \in Scheduler
    BY <1>1 DEF SwarmInv, SwarmTypes
  <2>2. CASE LivenessTick
    <3>1. Running /\ terminal = "none" /\ Observed(sched).stalls = StallTicks
      BY <1>1, <2>2 DEF LivenessTick, Tick, SwarmInv, SwarmTypes
    <3>2. ~sched.moved /\ sched.running = {}
      BY <2>1, <3>1, ObservedFields
    <3> QED
      BY <1>1, <3>1, <3>2 DEF SwarmInv, Quiet
  <2>3. CASE DrainNothing \/ DrainEnd
    <3>1. terminal' \in {terminal, "budget_exhausted"}
      BY <2>3 DEF DrainNothing, DrainEnd, Dispatch, DispatchBatch
    <3> QED
      BY <1>1, <3>1
  <2>4. CASE \E b \in Agent : \/ Activate(b) \/ PeerRetires(b) \/ AgentSignalsDone(b)
                              \/ BeatsOverdue(b) \/ ReconcileOrphan(b)
                              \/ OnHeartbeat(b) \/ OnAgentComplete(b)
    BY <1>1, <2>4 DEF Activate, PeerRetires, AgentSignalsDone, BeatsOverdue, ReconcileOrphan,
                      OnHeartbeat, OnAgentComplete
  <2>5. CASE Start \/ DrainBegin \/ Stop \/ Crash
    BY <1>1, <2>5 DEF Start, DrainBegin, Stop, Crash
  <2>6. CASE Supervise
    BY <1>1, <2>6, SuperviseFields DEF SwarmInv
  <2> QED
    BY <1>1, <2>2, <2>3, <2>4, <2>5, <2>6 DEF SwarmNext
<1>2. SwarmInv /\ [SwarmNext]_swarmVars =>
         [terminal' = "stalled" /\ terminal # "stalled" =>
            /\ sched.running = {}
            /\ polled => \A a \in sched.pending : ~MetByDrained(a)]_swarmVars
  BY <1>1
<1> QED
  BY <1>2, SwarmInvariance, PTL DEF SwarmSpec, StallAsDrained
=============================================================================
