---------------------------- MODULE ControlPlane ----------------------------
(***************************************************************************)
(* The control plane's schema admission workflow (control-plane/src/       *)
(* engine) above the runtime's epoch administration: an admission is       *)
(* submitted against the active binding, authorised, prepared and          *)
(* committed in two phases, decided -> runtime_applied -> finalized, each  *)
(* phase persisted before the next begins; a policy activation replaces    *)
(* the active binding in between, and a commit that a crash or a refused   *)
(* swap cut short is recovered forward.                                    *)
(*                                                                         *)
(* The service lives in one process, Host, beside its runtime; its store   *)
(* is memory (cp) with a file that persist() replaces as a whole (disk).   *)
(* Other processes on the runtime's store request epochs by themselves.    *)
(* The optional hook onBindingActivated is not installed, so the runtime's *)
(* binding moves only with an epoch.  Digests, roles, reviews and events   *)
(* are left out: what they tie an admission to is its subject (Subject).   *)
(***************************************************************************)
EXTENDS EpochRuntime

CONSTANTS
    Host,           \* the process the control plane runs in
    Managed,        \* the admissions that go through the control plane
    MaxPolicies     \* bound: policy activations

ASSUME ControlAssumption ==
    /\ Host \in Proc
    /\ Managed \subseteq Admission
    /\ MaxPolicies \in Nat

VARIABLES
    cp,         \* the control plane's store
    disk,       \* the snapshot file: what persist() wrote last
    committing  \* committing[a]: where a's commit call stands

controlVars == <<cp, disk, committing>>

allVars == <<vars, controlVars>>

-----------------------------------------------------------------------------
AdmissionState == {"none", "awaiting_authorization", "authorized", "prepared", "committed"}

DecisionStatus == {"none", "decided", "runtime_applied", "finalized", "recovery_required"}

\* The active binding; `schema` is the admission that brought its schema in.
Active == [generation : Nat, epoch : Nat, head : Nat, schema : Managed \cup {None}]

\* A decision keeps the head of the binding it would activate (toBinding).
Decision == [status : DecisionStatus, head : Nat]

Store ==
    [active : Active,
     state : [Managed -> AdmissionState],
     token : [Managed -> {"none", "issued", "consumed"}],
     decision : [Managed -> Decision],
     policies : Nat]

StatusOf(s, a) == s.decision[a].status

ControlTypeOK ==
    /\ EpochTypeOK
    /\ cp \in Store
    /\ disk \in Store
    /\ committing \in [Managed -> {"no", "runtime", "finalize"}]

NoCommit == [a \in Managed |-> "no"]

ControlInit ==
    /\ EpochInit
    /\ cp = [active |-> [generation |-> 1, epoch |-> 1, head |-> 1, schema |-> None],
             state |-> [a \in Managed |-> "none"],
             token |-> [a \in Managed |-> "none"],
             decision |-> [a \in Managed |-> [status |-> "none", head |-> 0]],
             policies |-> 0]
    /\ disk = cp
    /\ committing = NoCommit

\* No call of Host is in the middle of a synchronous stretch.
Free == call[Host].step = "idle"

\* What qualification and authorisation were bound to is still what is active.
Subject(a) ==
    /\ cp.active.generation = plan[a].generation
    /\ cp.active.epoch = plan[a].epoch

Decide(store, a, status, head) ==
    [store EXCEPT !.decision[a] = [status |-> status, head |-> head]]

-----------------------------------------------------------------------------
\* submitSchemaAdmission: the request names the active binding as it stands.
SubmitAdmission(a) ==
    /\ Free
    /\ cp.state[a] = "none"
    /\ plan' = [plan EXCEPT ![a] = [head |-> cp.active.head,
                                    generation |-> cp.active.generation,
                                    epoch |-> cp.active.epoch]]
    /\ cp' = [cp EXCEPT !.state[a] = "awaiting_authorization"]
    /\ UNCHANGED <<kernelVars, inspected, prepared, journal, activating, disk, committing>>

Approve(a) ==
    /\ Free
    /\ cp.state[a] = "awaiting_authorization"
    /\ Subject(a)
    /\ cp' = [cp EXCEPT !.state[a] = "authorized"]
    /\ UNCHANGED <<vars, disk, committing>>

\* prepareSchemaAdmission up to the runtime's await.
PrepareBegins(a) ==
    /\ cp.state[a] = "authorized"
    /\ PrepareInspect(Host, a)
    /\ UNCHANGED controlVars

\* After it: the server-side token, and the admission is prepared.
PrepareEnds(a) ==
    /\ cp.state[a] = "authorized"
    /\ PrepareStore(Host, a)
    /\ cp' = [cp EXCEPT !.state[a] = "prepared", !.token[a] = "issued"]
    /\ UNCHANGED <<disk, committing>>

PreparationEnds(a) == PreparationLapses(Host, a) /\ UNCHANGED controlVars

-----------------------------------------------------------------------------
(* Commit.                                                                 *)

MayCommit(a) ==
    /\ Free
    /\ committing[a] = "no"
    /\ cp.state[a] = "prepared"
    /\ cp.token[a] = "issued"
    /\ Subject(a)

\* The token is used up before its expiry is looked at.
CommitTooLate(a) ==
    /\ MayCommit(a)
    /\ prepared[Host][a] = None
    /\ cp' = [cp EXCEPT !.token[a] = "consumed"]
    /\ UNCHANGED <<vars, disk, committing>>

\* Variant: the decision is left to the next persist().
DecideInMemory(a) ==
    /\ cp' = Decide([cp EXCEPT !.token[a] = "consumed"], a, "decided", plan[a].head)
    /\ UNCHANGED disk

\* The decision is durable before the runtime is asked.
RecordDecision(a) ==
    /\ cp' = Decide([cp EXCEPT !.token[a] = "consumed"], a, "decided", plan[a].head)
    /\ disk' = cp'

RuntimeAccepts(a) ==
    /\ prepared[Host][a] # None /\ journal[Host][a] = None
    /\ PlanCurrent(Host, a)
    /\ Quiescent(Host)

CommitBegins(a) ==
    /\ MayCommit(a)
    /\ RecordDecision(a)
    /\ committing' = [committing EXCEPT ![a] = "runtime"]
    /\ \/ EpochValidate(Host, a)
       \/ ~ RuntimeAccepts(a) /\ UNCHANGED vars

HostSwap == EpochSwap(Host) /\ UNCHANGED controlVars

\* The snapshot an epoch was activated with.
ActivationHead(epoch) ==
    CHOOSE h \in 1..HeadRef :
        /\ history[h].epoch = epoch
        /\ \A i \in 1..HeadRef : history[i].epoch = epoch => h <= i

\* Variant: recovery is taken for granted.
AppliedOrPresumed(a, head) ==
    \/ /\ journal[Host][a] # None
       /\ head = ActivationHead(journal[Host][a].epoch)
       /\ UNCHANGED vars
    \/ /\ journal[Host][a] = None
       /\ UNCHANGED vars
       /\ head = HeadRef

\* commitEpochTransition's answer or, if it refused, what
\* recoverEpochTransition says; the head the new binding is recorded with.
Applied(a, head) ==
    \/ /\ journal[Host][a] # None
       /\ head = ActivationHead(journal[Host][a].epoch)
       /\ UNCHANGED vars
    \/ /\ journal[Host][a] = None
       /\ Recover(Host, a)
       /\ head = HeadRef

RuntimeRefused(a) == journal[Host][a] = None /\ ~ Recoverable(Host, a)

RuntimeAnswers(a) ==
    /\ Free
    /\ committing[a] = "runtime"
    /\ \/ \E head \in 1..HeadRef :
             /\ Applied(a, head)
             /\ cp' = Decide(cp, a, "runtime_applied", head)
             /\ committing' = [committing EXCEPT ![a] = "finalize"]
       \/ /\ RuntimeRefused(a)
          /\ cp' = [cp EXCEPT !.decision[a].status = "recovery_required"]
          /\ committing' = [committing EXCEPT ![a] = "no"]
          /\ UNCHANGED vars
    /\ disk' = cp'

NextActive(a) ==
    [generation |-> plan[a].generation + 1, epoch |-> plan[a].epoch + 1,
     head |-> cp.decision[a].head, schema |-> a]

\* Variant: the new binding replaces whatever is active.
SwapsUnconditionally(a) == TRUE

\* finalizeAdmissionCommit's compare: the binding the commit started from.
Swaps(a) == cp.active.generation = plan[a].generation

Finalized(a) ==
    [cp EXCEPT !.active = NextActive(a), !.state[a] = "committed",
               !.decision[a].status = "finalized"]

\* finalizeAdmissionCommit, or handleFinalizeCasConflict: finalized by a
\* recovery meanwhile, or overtaken by another activation.
Finalize(a) ==
    /\ Free
    /\ committing[a] = "finalize"
    /\ committing' = [committing EXCEPT ![a] = "no"]
    /\ \/ Swaps(a) /\ cp' = Finalized(a) /\ disk' = cp'
       \/ /\ ~ Swaps(a)
          /\ cp.active.generation = plan[a].generation + 1 /\ cp.active.schema = a
          /\ cp' = [cp EXCEPT !.state[a] = "committed", !.decision[a].status = "finalized"]
          /\ UNCHANGED disk
       \/ /\ ~ Swaps(a)
          /\ ~ (cp.active.generation = plan[a].generation + 1 /\ cp.active.schema = a)
          /\ cp' = [cp EXCEPT !.decision[a].status = "recovery_required"]
          /\ disk' = cp'
    /\ UNCHANGED vars

\* recoverForwardCommit.  One that the runtime or the swap refuses puts Host's
\* holder right at most.
RecoverForward(a) ==
    /\ Free
    /\ StatusOf(cp, a) \in {"runtime_applied", "recovery_required"}
    /\ Recover(Host, a)
    /\ IF Swaps(a) THEN cp' = Finalized(a) /\ disk' = cp' ELSE UNCHANGED <<cp, disk>>
    /\ UNCHANGED committing

-----------------------------------------------------------------------------
\* activatePolicyRevision: same epoch, schema and head under a new generation.
ActivatePolicy ==
    /\ Free
    /\ cp.policies < MaxPolicies
    /\ cp' = [cp EXCEPT !.active.generation = @ + 1, !.policies = @ + 1]
    /\ disk' = cp'
    /\ UNCHANGED <<vars, committing>>

\* Restarted, the control plane starts from its file.
HostCrash ==
    /\ EpochCrash(Host)
    /\ cp' = disk
    /\ committing' = NoCommit
    /\ UNCHANGED disk

-----------------------------------------------------------------------------
AdmissionStep(a) ==
    \/ SubmitAdmission(a)
    \/ Approve(a)
    \/ PrepareBegins(a)
    \/ PrepareEnds(a)
    \/ PreparationEnds(a)
    \/ CommitTooLate(a)
    \/ CommitBegins(a)
    \/ RuntimeAnswers(a)
    \/ Finalize(a)
    \/ RecoverForward(a)

\* A process without a control plane, and what drives its admissions.
OtherStep(p) ==
    \/ \E a \in Admission \ Managed : EpochStep(p, a)
    \/ EpochSwap(p)
    \/ EpochCrash(p)

ControlNext ==
    \/ KernelStep /\ UNCHANGED <<epochVars, controlVars>>
    \/ \E p \in Proc \ {Host} : OtherStep(p) /\ UNCHANGED controlVars
    \/ \E a \in Managed : AdmissionStep(a)
    \/ HostSwap
    \/ ActivatePolicy
    \/ HostCrash

ControlSpec == ControlInit /\ [][ControlNext]_allVars

-----------------------------------------------------------------------------
\* The decision log is written ahead: whatever crashed, an epoch the runtime was
\* moved to for an admission has a decision in the file (ADR-0006, "durable
\* decision, idempotent runtime apply, atomic finalize").
DecisionWrittenAhead ==
    \A a \in Managed : binding.admission = a => StatusOf(disk, a) # "none"

\* The control plane never announces an epoch the runtime was not moved to, nor
\* another schema for one it was, in memory or in the file; and the head it
\* records for a binding carries that binding's epoch (finalizeAdmissionCommit
\* after commitEpochTransition or recoverEpochTransition).
ActiveIsReal ==
    \A b \in {cp.active, disk.active} :
        /\ b.epoch <= binding.epoch
        /\ b.epoch = binding.epoch => b.schema = binding.admission
        /\ history[b.head].epoch = b.epoch

\* No activation is lost to another: a binding is replaced by the one made from
\* it, whatever commits, recoveries and policy activations ran at once, except
\* that a restart goes back to the file (casActiveBinding).
BindingsSucceed ==
    [][cp'.active # cp.active =>
          \/ cp'.active.generation = cp.active.generation + 1
          \/ HostCrash /\ cp'.active = disk.active]_allVars
=============================================================================
