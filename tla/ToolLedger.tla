----------------------------- MODULE ToolLedger -----------------------------
(***************************************************************************)
(* The agent loop and its external tools (packages/boot: agentLoop,        *)
(* bootCantilune; packages/syscall: act).  A run is a sequence of turns; a *)
(* turn asks the language model, executes the group of calls it answers,   *)
(* and checkpoints the private history.  Every external call is journalled *)
(* before it is executed, its output is stored before it is observed, and  *)
(* a failed observation leaves a receipt that later turns, later runs and  *)
(* later processes may retry.                                              *)
(*                                                                         *)
(* A call identifier fixes tool and arguments (Subject), so it stands for  *)
(* the invocation key.  Coordination and content calls, the transcript and *)
(* the provider's context are left out; so is the `completed` entry of the *)
(* journal, which nothing reads.                                           *)
(***************************************************************************)
EXTENDS Naturals, Sequences, FiniteSets

CONSTANTS
    Call,           \* call identifiers the language model may use
    Request,        \* a tool with its arguments
    Subject,        \* Subject[c]: what call c asks for
    Tier,           \* Tier[r]: the tier its executor declares for r
    None,
    MaxTurns,       \* config.maxTurns
    MaxGroup,       \* bound: calls in one response
    MaxRuns,        \* bound: runs
    MaxStops        \* bound: crashes and new instances together

ASSUME LedgerAssumption ==
    /\ Subject \in [Call -> Request]
    /\ Tier \in [Request -> {"read", "idempotent", "non-idempotent"}]
    /\ {MaxTurns, MaxGroup, MaxRuns, MaxStops} \subseteq Nat
    /\ None \notin Call

VARIABLES
    phase,      \* where the run is, "idle" between runs
    current,    \* the call being executed or retried
    todo,       \* calls of the response not begun
    claimed,    \* the termination controller judges the response
    outcome,    \* how the run ends after the checkpoint, "none": it goes on
    pending,    \* OperationLedger: failures that hold a receipt
    failed,     \* OperationLedger: failures without one
    history,    \* AgentLoopHistory.pendingToolObservations
    poisoned,   \* checkpointPoison
    turns,
    journal,    \* content store: calls with a dispatched entry
    stored,     \* content store: calls whose output and receipt are there
    saved,      \* the receipts of the last durable checkpoint
    observed,   \* calls whose stored output the runtime has observed
    landed,     \* how often the effect of each call landed
    misread,    \* how often the entry of each call was there and not read
    approved,   \* calls the approver allowed
    owed,       \* what the run must have observed to succeed
    result,     \* how the last run ended
    runs, stops

response == <<todo, claimed, outcome>>
ledger == <<pending, failed>>
process == <<history, poisoned>>
durable == <<journal, stored, saved, observed>>
ghost == <<misread, approved, owed>>
vars == <<phase, current, response, ledger, process, turns, durable, landed,
          ghost, result, runs, stops>>

\* Use a tool, or retry the observation a failure left (by _recovery_of or
\* with retry_tool_observation).
Item == [kind : {"use", "retry"}, call : Call]

TypeOK ==
    /\ phase \in {"idle", "turn", "group", "lookup", "reconcile", "execute",
                  "store", "observe", "retry", "checkpoint"}
    /\ current \in Call \cup {None}
    /\ (current # None) <=> phase \in {"lookup", "reconcile", "execute", "store",
                                       "observe", "retry"}
    /\ todo \in Seq(Item) /\ Len(todo) <= MaxGroup
    /\ claimed \in BOOLEAN /\ poisoned \in BOOLEAN
    /\ outcome \in {"none", "ok", "failed"}
    /\ {pending, failed, history, journal, stored, saved, observed, approved, owed}
         \subseteq SUBSET Call
    /\ pending \cup history \cup saved \subseteq stored
    /\ turns \in 0 .. MaxTurns
    /\ {landed, misread} \subseteq [Call -> Nat]
    /\ result \in {"none", "ok", "failed"}
    /\ runs \in 0 .. MaxRuns
    /\ stops \in 0 .. MaxStops

Init ==
    /\ phase = "idle" /\ current = None
    /\ todo = <<>> /\ claimed = FALSE /\ outcome = "none"
    /\ pending = {} /\ failed = {}
    /\ history = {} /\ poisoned = FALSE /\ turns = 0
    /\ journal = {} /\ stored = {} /\ saved = {} /\ observed = {}
    /\ landed = [c \in Call |-> 0] /\ misread = landed
    /\ approved = {} /\ owed = {}
    /\ result = "none" /\ runs = 0 /\ stops = 0

-----------------------------------------------------------------------------
\* Variant of Restored: the ledger of a run begins empty.
RestoredEmpty == {}

\* A run begins with the receipts of the history, and nothing else, in its
\* ledger.
Restored == history

StartRun ==
    /\ phase = "idle" /\ ~poisoned
    /\ runs < MaxRuns
    /\ phase' = "turn"
    /\ pending' = Restored /\ failed' = {}
    /\ turns' = 0
    /\ owed' = history
    /\ result' = "none"
    /\ runs' = runs + 1
    /\ UNCHANGED <<current, response, process, durable, landed, misread, approved, stops>>

\* Abort, limit, or the language model failed, before the response is
\* processed.  It may happen at any turn; after the last turn it must.
StopBetweenTurns ==
    /\ phase = "turn"
    /\ phase' = "idle" /\ result' = "failed"
    /\ UNCHANGED <<current, response, ledger, process, turns, durable, landed,
                   ghost, runs, stops>>

\* The calls of the response, in order; done comes last.  The controller judges
\* a response that is done, and one without calls.
Respond ==
    /\ phase = "turn"
    /\ turns < MaxTurns
    /\ phase' = "group"
    /\ turns' = turns + 1
    /\ todo' \in UNION {[1 .. n -> Item] : n \in 0 .. MaxGroup}
    /\ \A i, j \in DOMAIN todo' : i # j => todo'[i] # todo'[j]
    /\ claimed' \in BOOLEAN
    /\ todo' = <<>> => claimed'
    /\ UNCHANGED <<current, outcome, ledger, process, durable, landed, ghost,
                   result, runs, stops>>

\* The turn is over: what follows is the checkpoint, and then the outcome.
Close(how) ==
    /\ phase' = "checkpoint" /\ current' = None
    /\ todo' = <<>> /\ claimed' = FALSE
    /\ outcome' = how

Unresolved == pending \cup failed

\* Variant of Settled: only failures with a receipt count.
SettledByReceipts ==
    IF pending = {} THEN "ok" ELSE "failed"

\* settleRun: a claim of success counts only with nothing unresolved.
Settled ==
    IF Unresolved = {} THEN "ok" ELSE "failed"

\* The group is executed.  The controller may end the run or have it go on.
Verdict ==
    /\ phase = "group" /\ todo = <<>>
    /\ \E how \in IF claimed THEN {"none", "failed", Settled} ELSE {"none"} : Close(how)
    /\ UNCHANGED <<ledger, process, turns, durable, landed, ghost, result, runs, stops>>

\* The call is refused by the loop itself, or the run has been aborted or is
\* out of time: the rest of the group is skipped.
Refuse ==
    /\ Close("failed")
    /\ UNCHANGED <<ledger, owed>>

StopInGroup ==
    /\ phase = "group" /\ todo # <<>>
    /\ Refuse
    /\ UNCHANGED <<process, turns, durable, landed, misread, approved, result, runs,
                   stops>>

Begin(step, c) ==
    /\ phase' = step /\ current' = c
    /\ todo' = Tail(todo)
    /\ UNCHANGED <<claimed, outcome, ledger>>

\* Variant of Same: failures are matched by identifier.
SameCall(c, calls) == calls \cap {c}

\* Failures of the same request in the ledger.
Same(c, calls) == {d \in calls : Subject[d] = Subject[c]}

\* dispatchExternalToolCall: a stored output is observed again, an unresolved
\* failure is not executed again.
Use(c) ==
    \/ \E p \in pending : Same(c, pending) = {p} /\ Begin("retry", p) /\ owed' = owed
    \/ /\ Same(c, Unresolved) # {}
       /\ \A p \in pending : Same(c, pending) # {p}
       /\ Refuse
    \/ /\ Same(c, Unresolved) = {}
       /\ Begin("lookup", c)
       /\ owed' = owed \cup {c}

Retry(p) ==
    IF p \in pending THEN Begin("retry", p) /\ owed' = owed ELSE Refuse

NextCall ==
    /\ phase = "group" /\ todo # <<>>
    /\ LET item == Head(todo) IN
       IF item.kind = "use" THEN Use(item.call) ELSE Retry(item.call)
    /\ UNCHANGED <<process, turns, durable, landed, misread, approved, result, runs,
                   stops>>

-----------------------------------------------------------------------------
\* useTool, from one await to the next.
Step(to) ==
    /\ phase' = to
    /\ UNCHANGED <<current, response, ledger>>

\* The call returns to the loop with a failure that holds no receipt.
Fail ==
    /\ phase' = "group" /\ current' = None
    /\ failed' = failed \cup {current}
    /\ UNCHANGED <<response, pending>>

\* The store throws under the call: the run is over.
Broken ==
    /\ Close("failed")
    /\ failed' = failed \cup {current}
    /\ UNCHANGED pending

OfTier(tier) == Tier[Subject[current]] = tier

\* Variant of Recover: every side effect is reconciled.
RecoverReconciled ==
    /\ IF OfTier("read") THEN Step("execute") ELSE Step("reconcile")
    /\ UNCHANGED <<journal, approved>>

\* With a dispatched entry: by tier.
Recover ==
    /\ \/ OfTier("read") /\ Step("execute")
       \/ OfTier("non-idempotent") /\ Fail
       \/ OfTier("idempotent") /\ Step("reconcile")
    /\ UNCHANGED <<journal, approved>>

\* Variant of Authorize: the entry is written before the approver is asked.
AuthorizeLate ==
    /\ journal' = journal \cup {current}
    /\ \/ ~OfTier("read") /\ Fail /\ UNCHANGED approved
       \/ Step("execute") /\ approved' = approved \cup {current}

\* Without one: the approver of side effects, then the entry.
Authorize ==
    \/ /\ ~OfTier("read")
       /\ Fail
       /\ UNCHANGED <<journal, approved>>
    \/ /\ approved' = approved \cup {current}
       /\ \/ journal' = journal \cup {current} /\ Step("execute")
          \/ journal' = journal /\ Broken

\* readIntent: a store that throws, and an entry that does not parse, are taken
\* for an absent entry.
Misread ==
    /\ current \in journal
    /\ Authorize
    /\ misread' = [misread EXCEPT ![current] = @ + 1]

Lookup ==
    /\ phase = "lookup"
    /\ \/ /\ IF current \in journal THEN Recover ELSE Authorize
          /\ UNCHANGED misread
       \/ Misread
    /\ UNCHANGED <<process, turns, stored, saved, observed, landed, owed, result,
                   runs, stops>>

\* The executor is asked what became of the call: it knows the output, knows
\* of none (also one that cannot tell), or cannot be asked.
Reconcile ==
    /\ phase = "reconcile"
    /\ \/ landed[current] > 0 /\ Step("store")
       \/ Step("execute")
       \/ Fail
    /\ UNCHANGED <<process, turns, durable, landed, ghost, result, runs, stops>>

\* The executor answers with an output, or fails with the effect done or not.
Execute ==
    /\ phase = "execute"
    /\ \/ /\ landed' = [landed EXCEPT ![current] = @ + 1]
          /\ Step("store") \/ Fail
       \/ landed' = landed /\ Fail
    /\ UNCHANGED <<process, turns, durable, ghost, result, runs, stops>>

\* Output, receipt and completed entry are put in the store.
Store ==
    /\ phase = "store"
    /\ \/ /\ stored' = stored \cup {current}
          /\ observed' = observed \ {current}
          /\ Step("observe")
       \/ UNCHANGED <<stored, observed>> /\ Broken
    /\ UNCHANGED <<process, turns, journal, saved, landed, ghost, result, runs, stops>>

\* The failure of an observation is recorded with its receipt.
RecordPending == pending' = pending \cup {current}

Observe ==
    /\ phase = "observe"
    /\ phase' = "group" /\ current' = None
    /\ \/ observed' = observed \cup {current} /\ UNCHANGED pending
       \/ RecordPending /\ UNCHANGED observed
    /\ UNCHANGED <<response, failed, process, turns, journal, stored, saved, landed,
                   ghost, result, runs, stops>>

\* retryToolObservation: only the observation.  If it fails again the run ends,
\* and the receipt stays.
RetryObservation ==
    /\ phase = "retry"
    /\ \/ /\ current \in stored
          /\ observed' = observed \cup {current}
          /\ pending' = pending \ {current}
          /\ phase' = "group" /\ current' = None
          /\ UNCHANGED response
       \/ /\ Close("failed")
          /\ UNCHANGED <<pending, observed>>
    /\ UNCHANGED <<failed, process, turns, journal, stored, saved, landed, ghost,
                   result, runs, stops>>

-----------------------------------------------------------------------------
\* The ledger's receipts go to the history, and the history to the world and to
\* onHistoryCheckpoint.  A failed checkpoint may have been written; it ends the
\* run, and with it the use of this instance.
Checkpoint ==
    /\ phase = "checkpoint"
    /\ history' = pending
    /\ \/ /\ saved' = pending
          /\ UNCHANGED poisoned
          /\ phase' = IF outcome = "none" THEN "turn" ELSE "idle"
          /\ result' = outcome
       \/ /\ saved' \in {saved, pending}
          /\ poisoned' = TRUE
          /\ phase' = "idle" /\ result' = "failed"
    /\ outcome' = "none"
    /\ UNCHANGED <<current, todo, claimed, ledger, turns, journal, stored, observed,
                   landed, ghost, runs, stops>>

\* The process is gone, at any point of a run, or the instance has been
\* poisoned.  A new one starts from the last durable history.
Reboot ==
    /\ phase # "idle" \/ poisoned
    /\ stops < MaxStops
    /\ stops' = stops + 1
    /\ phase' = "idle" /\ current' = None
    /\ todo' = <<>> /\ claimed' = FALSE /\ outcome' = "none"
    /\ pending' = {} /\ failed' = {}
    /\ history' = saved /\ poisoned' = FALSE
    /\ turns' = 0
    /\ result' = "none"
    /\ UNCHANGED <<durable, landed, ghost, runs>>

Next ==
    \/ StartRun \/ StopBetweenTurns \/ Respond \/ Verdict \/ StopInGroup \/ NextCall
    \/ Lookup \/ Reconcile \/ Execute \/ Store \/ Observe \/ RetryObservation
    \/ Checkpoint \/ Reboot

ToolSpec == Init /\ [][Next]_vars

-----------------------------------------------------------------------------
\* The effect of a non-idempotent call lands once, however often the process
\* crashes and the language model repeats the call, and once more at most for
\* every time the entry of the journal was there and could not be read: the
\* entry comes before the execution, and nothing else lets another one happen.
EffectOnce ==
    \A c \in Call : Tier[Subject[c]] = "non-idempotent" => landed[c] <= 1 + misread[c]

\* No effect without the approver's consent, even when the effect is caused by
\* the recovery of an earlier run's call, which does not ask: a denial leaves
\* nothing a later run could take for a dispatched call.
EffectApproved ==
    \A c \in Call : landed[c] > 0 => c \in approved

\* A run reports success only when the runtime has observed the output of every
\* external call it made and of every receipt it took over from earlier runs,
\* whatever the language model claims.
HonestSuccess == result = "ok" => owed \subseteq observed

\* A request whose output lies in the store, with a receipt in the durable
\* history and not yet observed, is not executed again under any identifier,
\* in this process or a later one.
StoredNotRepeated ==
    [][\A c \in Call : landed'[c] # landed[c] =>
         \A p \in saved \ observed : Subject[p] # Subject[c]]_vars

\* The durable history loses a receipt only once its output has been observed:
\* no run, failed checkpoint or restart drops one.
ReceiptsKept == [][saved \ saved' \subseteq observed]_vars
=============================================================================
