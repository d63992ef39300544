---------------------------- MODULE EpochRuntime ----------------------------
(***************************************************************************)
(* Epoch administration (engine/memoryEpochAdministration.ts) beside the   *)
(* coordination runtime: a schema admission is prepared against the head,  *)
(* committed as a new epoch with its binding, and recovered after a crash. *)
(*                                                                         *)
(* An epoch id and its ordinal are one number.  A schema revision is named *)
(* by the epoch it is activated in, so `holder` stands for both the schema *)
(* context and the binding a process works under, which are always set     *)
(* together.  Resolving and digesting schemas is left out.                 *)
(***************************************************************************)
EXTENDS RuntimeProperties

CONSTANT Admission      \* schema admissions that may be requested

ASSUME AdmissionAssumption == None \notin Admission

VARIABLES
    plan,        \* plan[a]: the transition admission a asks for
    inspected,   \* inspected[p]: admissions whose prepare call passed its checks
    prepared,    \* prepared[p][a]: the binding p prepared for a
    journal,     \* journal[p][a]: the binding p committed for a
    activating   \* activating[p]: the admission whose commit call p runs

epochVars == <<plan, inspected, prepared, journal, activating>>

vars == <<kernelVars, epochVars>>

-----------------------------------------------------------------------------
Binding == [generation : Nat, epoch : Nat, admission : Admission \cup {None}]

\* EpochTransitionRequest: what its author expects to find.
Plan == [head : Nat, generation : Nat, epoch : Nat]

EpochTypeOK ==
    /\ binding \in Binding
    /\ holder \in [Proc -> Binding]
    /\ plan \in [Admission -> Plan \cup {None}]
    /\ inspected \in [Proc -> SUBSET {a \in Admission : plan[a] # None}]
    /\ prepared \in [Proc -> [Admission -> Binding \cup {None}]]
    /\ journal \in [Proc -> [Admission -> Binding \cup {None}]]
    /\ activating \in [Proc -> Admission \cup {None}]
    /\ \A p \in Proc :
          /\ activating[p] # None <=> call[p].step = "activate"
          /\ activating[p] # None => prepared[p][activating[p]] # None

Nothing == [a \in Admission |-> None]

EpochInit ==
    /\ KernelInit
    /\ plan = Nothing
    /\ inspected = [p \in Proc |-> {}]
    /\ prepared = [p \in Proc |-> Nothing]
    /\ journal = [p \in Proc |-> Nothing]
    /\ activating = [p \in Proc |-> None]

-----------------------------------------------------------------------------
\* The control plane requests the epoch after the one p works under.
Submit(p, a) ==
    /\ call[p].step = "idle"
    /\ plan[a] = None
    /\ plan' = [plan EXCEPT ![a] = [head |-> HeadRef, generation |-> holder[p].generation,
                                    epoch |-> holder[p].epoch]]
    /\ UNCHANGED <<kernelVars, inspected, prepared, journal, activating>>

\* Variant: the epoch is compared with the one p holds, not with the head's.
PlanCurrentForHolder(p, a) ==
    /\ plan[a].head = HeadRef
    /\ plan[a].generation = holder[p].generation
    /\ plan[a].epoch = holder[p].epoch

\* The checks prepare and commit share: head, binding generation, epoch.
PlanCurrent(p, a) ==
    /\ plan[a].head = HeadRef
    /\ plan[a].generation = holder[p].generation
    /\ plan[a].epoch = holder[p].epoch
    /\ plan[a].epoch = HeadWorld.epoch

\* No lock is held, no session open, no admission pending in p.
Quiescent(p) ==
    /\ locks = {}
    /\ SessionsQuiescent(HeadWorld)
    /\ \A r \in registry[p] : r.expired

Forgotten(p) == [registry EXCEPT ![p] = {r \in @ : ~ r.expired}]

\* prepareEpochTransition up to its await: the activation point is read and
\* judged.  A call refused here, or answered from an earlier preparation or
\* activation of the same admission, forgets expired records at most.
PrepareInspect(p, a) ==
    /\ call[p].step = "idle"
    /\ plan[a] # None
    /\ prepared[p] = Nothing /\ journal[p][a] = None
    /\ PlanCurrent(p, a)
    /\ Quiescent(p)
    /\ registry' = Forgotten(p)
    /\ inspected' = [inspected EXCEPT ![p] = @ \cup {a}]
    /\ UNCHANGED <<history, log, binding, locks, call, issued, life, seen, holder>>
    /\ UNCHANGED <<plan, prepared, journal, activating>>

\* After the await: the new binding follows the one p holds by now.
PrepareStore(p, a) ==
    /\ call[p].step = "idle"
    /\ a \in inspected[p]
    /\ prepared' = [prepared EXCEPT ![p][a] =
          [generation |-> holder[p].generation + 1, epoch |-> plan[a].epoch + 1, admission |-> a]]
    /\ inspected' = [inspected EXCEPT ![p] = @ \ {a}]
    /\ UNCHANGED <<kernelVars, plan, journal, activating>>

\* Variant: pruned even under the commit call that is using it.
PreparationLapsesAnyTime(p, a) ==
    /\ prepared[p][a] # None
    /\ prepared' = [prepared EXCEPT ![p][a] = None]
    /\ UNCHANGED <<kernelVars, plan, inspected, journal, activating>>

\* A preparation outlives its time to live and is pruned or refused.
PreparationLapses(p, a) ==
    /\ prepared[p][a] # None
    /\ activating[p] # a
    /\ prepared' = [prepared EXCEPT ![p][a] = None]
    /\ UNCHANGED <<kernelVars, plan, inspected, journal, activating>>

-----------------------------------------------------------------------------
\* commitEpochTransition up to the swap: everything prepare judged is judged
\* again.  One that was committed already is answered from the journal.
EpochValidate(p, a) ==
    /\ call[p].step = "idle"
    /\ prepared[p][a] # None /\ journal[p][a] = None
    /\ PlanCurrent(p, a)
    /\ Quiescent(p)
    /\ registry' = Forgotten(p)
    /\ call' = [call EXCEPT ![p] = [step |-> "activate", ticket |-> None, head |-> HeadRef]]
    /\ activating' = [activating EXCEPT ![p] = a]
    /\ UNCHANGED <<history, log, binding, locks, issued, life, seen, holder>>
    /\ UNCHANGED <<plan, inspected, prepared, journal>>

\* Variant: the head moves by itself, the binding is left to the process.
StoreEpochAlone(head, b) ==
    /\ history' = Append(history, WithEpoch(history[head], b.epoch))
    /\ UNCHANGED binding

\* compareAndSwapHeadWithBinding: head and binding move together.
StoreEpoch(head, b) ==
    /\ history' = Append(history, WithEpoch(history[head], b.epoch))
    /\ binding' = b

\* Variant: the new binding is adopted before the swap is known to succeed.
AdoptedRegardless(p, b, stored) == [holder EXCEPT ![p] = b]

Adopted(p, b, stored) == IF stored THEN [holder EXCEPT ![p] = b] ELSE holder

EpochSwap(p) ==
    LET a      == activating[p]
        b      == prepared[p][a]
        stored == StoreAccepts(call[p].head)
    IN
    /\ call[p].step = "activate"
    /\ IF stored
       THEN /\ StoreEpoch(call[p].head, b)
            /\ journal' = [journal EXCEPT ![p][a] = b]
            /\ prepared' = [prepared EXCEPT ![p][a] = None]
       ELSE UNCHANGED <<history, binding, journal, prepared>>
    /\ holder' = Adopted(p, b, stored)
    /\ call' = [call EXCEPT ![p] = Idle]
    /\ activating' = [activating EXCEPT ![p] = None]
    /\ UNCHANGED <<log, locks, registry, issued, life, seen>>
    /\ UNCHANGED <<plan, inspected>>

-----------------------------------------------------------------------------
\* Variant: a journal entry is taken up whatever the head's epoch is.
JournalRecoverable(p, a) ==
    \/ journal[p][a] # None
    \/ binding.admission = a /\ binding.epoch = HeadWorld.epoch

\* What p committed itself, or what the store carries, if it is the head's.
Recoverable(p, a) ==
    \/ journal[p][a] # None /\ journal[p][a].epoch = HeadWorld.epoch
    \/ journal[p][a] = None /\ binding.admission = a /\ binding.epoch = HeadWorld.epoch

Recover(p, a) ==
    /\ call[p].step = "idle"
    /\ Recoverable(p, a)
    /\ holder' = [holder EXCEPT ![p] = IF journal[p][a] # None THEN journal[p][a] ELSE binding]
    /\ UNCHANGED <<history, log, binding, locks, registry, call, issued, life, seen>>
    /\ UNCHANGED epochVars

\* Preparations, the journal and pending calls live in memory.
EpochCrash(p) ==
    /\ Crash(p)
    /\ inspected' = [inspected EXCEPT ![p] = {}]
    /\ prepared' = [prepared EXCEPT ![p] = Nothing]
    /\ journal' = [journal EXCEPT ![p] = Nothing]
    /\ activating' = [activating EXCEPT ![p] = None]
    /\ UNCHANGED plan

-----------------------------------------------------------------------------
EpochStep(p, a) ==
    \/ Submit(p, a)
    \/ PrepareInspect(p, a)
    \/ PrepareStore(p, a)
    \/ PreparationLapses(p, a)
    \/ EpochValidate(p, a)
    \/ Recover(p, a)

EpochNext ==
    \/ KernelStep /\ UNCHANGED epochVars
    \/ \E p \in Proc, a \in Admission : EpochStep(p, a)
    \/ \E p \in Proc : EpochSwap(p) \/ EpochCrash(p)

EpochSpec == EpochInit /\ [][EpochNext]_vars

-----------------------------------------------------------------------------
\* Head and binding are one durable fact: after any crash the store's binding is
\* the one its head was written under (ADR-0014, compareAndSwapHeadWithBinding).
BindingMatchesHead == binding.epoch = HeadWorld.epoch

\* No binding is activated twice and none is skipped, however prepare, commit and
\* recovery of several processes interleave (memoryEpochAdministration.ts).
GenerationsConsecutive ==
    [][binding' # binding =>
          binding'.generation = binding.generation + 1 /\ binding'.epoch > binding.epoch]_vars

\* A process never works under a binding the store has not: it lags behind the
\* durable one or holds exactly it, so no two processes hold different schemas
\* of one generation (the holders are reconstructions of the durable state).
HolderNeverAhead ==
    \A p \in Proc :
        /\ holder[p].generation <= binding.generation
        /\ holder[p].generation = binding.generation => holder[p] = binding

\* Recovery, restart and late commits never put a process back to an older
\* schema (recoverEpochTransition refuses a stale request).
HolderNeverRegresses ==
    [][\A p \in Proc : holder'[p].generation >= holder[p].generation]_vars

\* A change is admitted, recomputed and stored within one epoch: no operation is
\* admitted under one schema and committed under the next (admissionGateway.ts
\* epoch_mismatch; validatePreCommit).
ChangeWithinEpoch ==
    \A i \in 1..Len(log) :
        {log[i].schema, history[log[i].before].epoch, history[log[i].after].epoch} = {log[i].epoch}
=============================================================================
