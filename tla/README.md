# Cantilune in TLA+

TLA+ modules, TLC configurations and TLAPS proofs kept beside the Cantilune
monorepo (`src/packages/*`).  Cantilune coordinates agents: every change any of
them makes to the shared *collaboration world* is admitted, locked, recomputed,
verified and stored by one kernel, `packages/runtime`, and everything else hangs
off that kernel.  The project models the kernel and its stores in full, and the
machinery around it (messages, tools, swarm, control plane) where its
concurrency and its failures are.

- [What is here](#what-is-here)
- [Inventory of the system](#inventory-of-the-system)
- [The modules and the code](#the-modules-and-the-code)
- [What the models leave out](#what-the-models-leave-out)
- [Not modelled](#not-modelled)
- [Runs](#runs)
- [Fairness](#fairness)
- [Proofs](#proofs)
- [Disagreements found](#disagreements-found)
- [Behaviours worth knowing](#behaviours-worth-knowing)
- [Plan](#plan)

## What is here

| module | what it is |
|---|---|
| `CollaborationWorld` | one snapshot as a value; the twelve operations of the default schema on it, their conditions, refusals and integrity check |
| `WorldOperations` | all operations on one world, one after the other; the world's own invariants |
| `ChangeFeed` | reading the change log: unlogged advances, the feed after a cursor, replay |
| `WorldHistory` | abstract specification: one world changed by one allowed operation at a time |
| `CoordinationRuntime` | processes sharing a store and a lock table: admission, commit, cancel, observation, leases, crashes |
| `RuntimeProperties` | what the runtime guarantees, including that it implements `WorldHistory` |
| `EpochRuntime` | epoch administration beside the runtime: prepare, commit, expiry, recovery |
| `ControlPlane` | the control plane's admission workflow above `EpochRuntime`, with its two-phase commit and its file |
| `FileStore` | the file-backed store and lock table below the runtime: directory lock, rename, flush, deaths, power loss |
| `DurableStore` | abstract specification of a durable coordinator: one writer at a time, head and log together |
| `RaftStore` | the etcd-backed store and lock table: requests, leases, transactions, late answers; implements `DurableStore` |
| `CommsDelivery` | envelopes: outbox, saga, dispatchers, retries, dead letters, inbox |
| `ToolLedger` | the agent loop's external tools: journal, approval, reconciliation, receipts, checkpoints |
| `SwarmSupervisor` | supervisor and scheduler of a swarm: feed, slots, start conditions, liveness, stall |
| `MCRuntime`, `MCEpoch`, `MCWorld`, `MCControl`, `MCFile`, `MCRaft`, `MCComms`, `MCAgent`, `MCSwarm` | small instances for TLC |
| `WorldLemmas`, `WorldProofs`, `RuntimeProofs`, `EpochProofs`, `FileProofs`, `RaftProofs`, `CommsProofs`, `BootProofs` | TLAPS proofs |

    CollaborationWorld <- ChangeFeed <- CoordinationRuntime <- RuntimeProperties <- EpochRuntime <- ControlPlane
           ^                                                    |  INSTANCE
           +-- WorldOperations      WorldHistory <--------------+

    RaftStore -- INSTANCE --> DurableStore        FileStore   CommsDelivery   ToolLedger   SwarmSupervisor

The modules of the second line stand alone: each takes from its neighbours only
what it uses of them (the swarm takes the kernel's feed and its refusals, comms
the kernel's receipts, the ledger its observations), and says so in its header.

Run `tlc -config runtime.cfg MCRuntime` and likewise for the others, and
`tlapm RuntimeProofs.tla` and likewise for the other modules with proofs.

Operators commented *Variant* are not used by any specification.  Each states a
plausible slip in the definition that follows it (a dropped guard, ids without
their tag, a head stored without its binding), and each property is known to
fail when the slip replaces the definition: `PROJECT.json` pairs them.

## Inventory of the system

About 92,000 lines of TypeScript in fifteen packages; a `website` and the
fixtures are not part of the program's logic.

### Collaboration world (`core`, `runtime/src/schema`, `runtime/src/execution/handlers`)

*State.* A `CollaborationSnapshot`: participants with lifecycle status,
artifacts with owner and content, scoped write-lock capabilities, sessions,
links, heartbeats, transcripts, the audit tail, the schema epoch.  Snapshots are
immutable; a ref names each.
*Operations.* introduce_artifact, delegate, create_session, fork_branch,
publish_artifact, transfer_session, register / activate / retire_participant,
signal_done, emit_heartbeat, commit_transcript.  Each has a template (required
roles, `requires`, `ensures`) and a handler with refusals of its own.
*Hard.* The handlers are small, but each trusts what the other eleven left:
ownership and lock move separately, an intent may bind a capability that belongs
to another artifact, sessions change controller without being closed.
*Correct when.* A write lock is with its artifact's owner and is never copied;
participants follow the lifecycle; a controller is a member of its session;
every snapshot passes the integrity check.
→ `CollaborationWorld`, `WorldOperations` (modelled)

### Coordination runtime (`runtime/src/{engine,admission,execution,observe,memory}`)

*State.* Durable and shared: snapshots, head, change log, active schema binding
(`DurableCoordinator`) and the resource locks (`ResourceLockTable`).  Per
process: the admission registry, the gateway's tag and counter, the run history,
the schema context.
*Operations.* `admit` → ticket; `commit(ticket)`; `cancel`; `observe`;
`changes(since)`; replay.
*Interactions.* The gateway judges an intent on a snapshot, takes the
footprint's locks, registers the record; commit resolves the ticket against the
head, applies, verifies the chain, stores with a head comparison, releases in a
`finally`.  Observations bypass admission and swap the head.
*Hard.* Several processes on one store, none of whose reads and writes are one
transaction; leases lapsing at any point; crashes between acquire and release;
observations and epoch activations that move the head without a logged change,
which commit, the feed and replay all have to bridge in the same way.
*Correct when.* Callers see one world changed by one allowed operation at a
time; no footprint stays locked for nobody; the log is never wedged; no reader
of the feed misses a change; every stored history replays.
→ `CoordinationRuntime`, `ChangeFeed`, `RuntimeProperties`, `WorldHistory` (modelled)

### Epoch administration (`runtime/src/engine/memoryEpochAdministration.ts`)

*State.* Preparations and a journal in memory; head and binding durable.
*Operations.* `prepareEpochTransition` (asynchronous: it awaits its inspection),
`commitEpochTransition`, `recoverEpochTransition`, expiry of preparations.
*Hard.* The await; two admissions prepared at once; another process activating
in between; a footprint acquired after the quiescence check; crash between the
swap and the in-memory updates; recovery retried late.
*Correct when.* Binding and head agree; generations are consecutive; no process
works under a binding the store does not have, nor goes back; no change spans two
epochs; the runtime's own guarantees hold across activations.
→ `EpochRuntime` (modelled)

### Durable back ends (`runtime/src/memory`)

- *File*: every access takes an exclusive directory lock (`fileLock.ts`, a hard
  link published only if absent), reads a file as a whole, decides, and replaces
  it by a rename between two flushes.  *Hard.* Deaths inside an access, failing
  writes, power losses that undo what was not flushed, two first boots.
  *Correct when.* Accesses take turns, what returned is not lost, every process
  works on the same genesis, a lock that was told is in the table.
  → `FileStore` (modelled)
- *Raft/etcd*: `raftDurableCoordinator.ts` validates on reads of a key-value
  store and writes in a transaction fenced by a writer lease; a new coordinator
  takes the lease unconditionally; a worker thread carries the requests.
  *Hard.* Requests of others between any two of one call; a lease that lapses; a
  request that is served after its caller gave up, and its answer.
  *Correct when.* Head, log and binding move together, by the writer of that
  moment; what a caller is told is so. → `DurableStore`, `RaftStore` (partly)
- *PostgreSQL*: the same contract in SQL transactions. → not modelled

### Communications (`comms`)

*State.* Envelopes, outbox deliveries with attempts and state (queued,
dispatched, retryWait, deadLettered), sagas by phase, inbox, replay protector,
reconnect and close state.
*Operations.* `executeSend` (persist, observe in the runtime, commit, dispatch),
`dispatchPending` with retries up to a budget, `reconcile`, authorised replay of
dead letters, `acceptInboundFrame`, reconnect, close.
*Hard.* The dispatcher iterates over a snapshot of the outbox and awaits the
transport for each delivery, then writes back a record derived from what it
read; saga and pump run side by side; frames are lost and repeated; emergency
stop in the middle; crash of either side.
*Correct when.* A message is consumed at most once, a record says only what
happened, a delivery that waits is not stuck, every delivery ends, nothing is
sent that the runtime refused. → `CommsDelivery` (partly)

### Control plane (`control-plane`)

*State.* Schema admissions with approvals and status, prepared tokens, decisions,
the active binding, policy revisions: in memory, replaced as a whole in a file.
*Operations.* submit / approve / prepare / commit SchemaAdmission,
recoverSchemaAdmissionCommit, activatePolicyRevision, the runtime's fleet and
tool-surface epochs.
*Hard.* A crash between the runtime's activation and the control plane's own
record; a policy activation between a decision and its finalisation; another
process's epoch in between; recovery while the commit is under way.
*Correct when.* A decision is durable before the runtime is moved; no epoch is
announced that the runtime was not moved to; no activation is lost to another.
→ `ControlPlane` (partly)

### Boot: scheduler, supervisor, termination (`boot/src/cluster`)

*State.* Pending and running agents, slots, budgets, stall counter, the feed's
cursor, the liveness table; termination state machine.
*Operations.* drain of the feed (activated, heartbeat, done, retired), dispatch,
completion, liveness tick with stall detection, reconciliation at start, stop.
*Hard.* Loops outlive their handles; manifests are awaited while other tasks
run; a feed replayed or skipped across a restart; a stall reported while an
activation is on its way; an agent nobody watches.
*Correct when.* No agent is started twice, the ceiling holds, nobody is
forgotten, a stall is real, the run ends. → `SwarmSupervisor` (partly)

### Agent loop and system calls (`boot/src/agentLoop.ts`, `syscall`)

*State.* A content-addressed journal: a `dispatched` entry per invocation key,
written before the tool runs; the stored output with a receipt; the run's ledger
of unresolved calls; the checkpointed history.
*Operations.* a turn with its group of calls, `useTool`, recovery of a dispatched
call by the tool's idempotency tier, `retryToolObservation`, checkpoint, restart.
*Hard.* A crash after the tool ran and before its outcome was recorded; the same
call asked for under another identifier; an observation that fails after the
output was stored; a checkpoint that failed but was written.
*Correct when.* A non-idempotent effect lands at most once per call as long as
its journal entry can be read, and only
approved; a stored output is observed, not produced again; no receipt is lost; a
run does not claim success over an open call. → `ToolLedger` (partly)

### Others

See [Not modelled](#not-modelled).  `PROJECT.json` lists all components with
their sources, and every hazard with the line where it bites.

## The modules and the code

### CollaborationWorld, WorldOperations

| definition | code |
|---|---|
| `World`, `Genesis` | `collaborationSnapshot.ts`; the CLI's genesis snapshot |
| `Requires`, `Ensures`, `RolesBound`, `Holds` | `defaultSchema.ts` templates, evaluated as `conditionEvaluator.ts` does |
| `HandlerAccepts` and the named guards before it | the refusals of `execution/handlers/*.ts` |
| `Apply` and its helpers | what each handler returns |
| `ValidTransition` | the transitions `lifecycleTransitions.ts` registers |
| `Integrity` | `snapshotIntegrity.ts` |
| `Committable` | handler, integrity check and `ensures` together (`applyChange.ts`) |
| `Footprint`, `Overlaps` | the touch set of `isolation.ts` |
| `WithObservation`, `WithEpoch` | the two advances that log no change |

The status `absent` stands for a participant the snapshot does not have.  An
artifact's name also names its default capability `write-lock-<artifact>`, so an
operation that binds a capability may bind any artifact's: this is what makes
`introduce_artifact` replace another artifact's lock.

### CoordinationRuntime

State: `history` (all stored snapshots, the last the head; a ref is a position),
`log`, `binding`: the durable store; `locks`: the lock table, without expired
entries; `registry`, `issued`, `life`, `seen`, `holder`: what is in a process's
memory; `call`: where it stands in a call that touches shared state repeatedly.

| action | code |
|---|---|
| `Admit` | `admissionGateway.ts` admit, with `acquire` and `register` |
| `Cancel`, `PruneExpired` | `admissionRegistry.ts` cancel, activeCount |
| `CommitResolve` | `commitChange.ts` up to `resolve`; an unresolvable ticket is cancelled |
| `CommitApply` | `executeCommit`: handler, pre-commit validation, `durable.commit` |
| `CommitRelease` | the `finally` block |
| `ObserveRead`, `ObserveSwap` | `ingestObservation.ts` around `compareAndSwapHead`, run history afterwards |
| `LockLapses`, `RecordLapses` | time: a lock counts while `expiresAt > now`, a record is expired once `now > expiresAt`; the record is registered after the lock was taken, with the same lease, so it cannot lapse first |
| `Crash`, `Restart` | a process's end and its successor: a new gateway tag, history seeded from the head's audit tail, schema context from the stored binding |

A call runs to its end in its process without yielding (none of these paths
awaits), so calls of one process do not interleave; those of different processes
do, between any two accesses to the store or the lock table.  Admission reads
and locks in one step: what it read is read again by `durable.commit`, which
compares the head, so a coarser admission loses no outcome that reaches the
store.  An access is one step here; `FileStore` and `RaftStore` are what makes
it look like one.

### ChangeFeed

State functions over `history` and `log`: `VerifiableUnloggedAdvance` and its
three kinds (`observationBridge.ts`), `CanonicallyEqual` (which, as in
`canonicalSnapshot.ts`, does not look at transcripts), `Since`
(`memoryChangeLog.ts`, `memoryDurableCoordinator.ts`), `ReplaySucceeds`
(`replayVerifier.ts`: chain, then each recipe recomputed on the running state).

### EpochRuntime

Adds `plan` (the transitions requested), `inspected` (prepare calls past their
checks and inside their await), `prepared`, `journal` and `activating`.
`PrepareInspect` and `PrepareStore` are the two sides of the await;
`EpochValidate` and `EpochSwap` the two sides of
`compareAndSwapHeadWithBinding`; `Recover` is recovery from the journal or from
the store; `EpochCrash` loses everything but the store and the requests.  An
epoch's id and ordinal are one number, and a schema is named by the epoch it is
activated in.

### WorldHistory and the refinement

`Abstract == INSTANCE WorldHistory` maps `world` to the head snapshot and
`committed` to the operations in the log.  `CommitApply` that stores is `Commit`,
`ObserveSwap` that stores is `Observe`, `EpochSwap` that stores is `Activate`;
every other step stutters.  What it says of the code: whatever tickets, locks and
leases do, the snapshot an operation changes is one on which the template's
conditions hold, and nothing else but observations and activations moves the
head.

### ControlPlane

Extends `EpochRuntime`: one process, `Host`, has the control plane beside its
runtime; other processes on the same store drive admissions without one.  `cp` is
the in-memory store, `disk` the file `persist()` replaces as a whole,
`committing` where a commit call stands between its awaits.

| action | code |
|---|---|
| `SubmitAdmission`, `Approve`, `PrepareBegins`, `PrepareEnds` | `controlPlaneService.ts`; the runtime's prepare in the middle |
| `CommitTooLate`, `CommitBegins` | `controlPlaneWorker.ts`: the token is consumed, the decision persisted, the runtime asked |
| `RuntimeAnswers` | its answer or, if it refused, `recoverEpochTransition`'s |
| `Finalize`, `RecoverForward` | `commitAdmissionTransaction.ts`: finalise, conflict of the binding, recovery |
| `ActivatePolicy` | the binding's generation moves, the epoch stays |
| `HostCrash` | the process is gone and starts from its file |

### FileStore

State: `lock` (holder of `.durable.lock`, or `Abandoned`), `file` (what readers
find), `kept` (what a power loss may leave), `at` and `job` (where a process is
in its access, and what it decided), `t0`, `seen`, `held` (what it was told),
`acked` (the writes that returned).

| action | code |
|---|---|
| `Open`, `Access` | `createFileRuntimePersistence`; the calls of the coordinator and of the lock table |
| `AcquireFileLock`, `GiveUp`, `Release` | `fileLock.ts`: `linkSync`, the deadline, `releaseOwnedLock` and its ignored failure |
| `Load` | read, decide: genesis, head comparison, generation check, overlap |
| `Publish`, `SyncDirectory` | `atomicWrite.ts`: flushed temporary file and rename, then the directory |
| `Crash`, `PowerLoss`, `Operator` | death in the middle; what was not flushed is gone, the lock perhaps back; the operator of `fileLock.ts`'s message |

### RaftStore and DurableStore

`kv` has the keys with what transactions compare of them; `call` the call a
process is in and how far; `late` the answers in its worker's port that nobody
took; `sent` a request given up on and not served yet; `told` and `held` what
callers were told; `misled` the clients that took an answer to an earlier
request.

| action | code |
|---|---|
| `CallWrite`, `CallLocks` | `commit`, `compareAndSwapHead(WithBinding)`; `acquire`, `release`, `isHeld` |
| `Post` | one request served, the first answer in the port taken: `etcdRaftKv.ts` post; what it leads to is `Continue` |
| `Timeout`, `ServedLate` | the wait runs out and the call throws; the request stays under way, the client goes on |
| `Open`, `Crash`, `LeaseLapses` | a new client with its token; death; the lease's TTL |

`Fenced` instantiates `DurableStore` with the head key, the binding and the lease
(`Heads`), and with the numbered changes too (`Durable`) for every step before the
first client was misled.

### CommsDelivery

| action | code |
|---|---|
| `Send`, `Observe`, `CommitRefused`, `Commit`, `SagaAnswered` | `messagingSagaCoordinator.ts` executeSend, await by await |
| `PassBegin`, `DispatchOne`, `DispatchAnswered`, `PassThrows`, `PassEnd` | `outboxDispatcher.ts` dispatchPending; a transport or store that throws ends the pass without a record; `deliveryRecovery.ts` reconcile is a pass that quarantines at its end, as far as it comes |
| `ReplayDeadLetter` | `dlqAuthorizedReplay.ts`, and what it does to the record |
| `Receive`, `Consume` | `commsIngress.ts`: replay protector, inbox claim, consumer |
| `Lose`, `Freeze`, `Unfreeze`, `SenderCrash`, `ReceiverCrash` | the network, the emergency stop, deaths |

`pass` keeps the records as they were read, which is what is written back.  The
transport does not look at the emergency stop: what is under way still sends.

### ToolLedger

A run is `StartRun`, then turns: `Respond` (what the language model asks),
`NextCall` for each call (`Use`, `Retry` or a refusal), `Verdict`, `Checkpoint`.
A call goes through `Lookup` (`Authorize` without a journal entry, `Recover` with
one), `Reconcile`, `Execute`, `Store`, `Observe`: the awaits of `act.ts` useTool.
A read that throws is an absent entry (`Misread`, `readIntent`); `misread` counts
those of an entry that was there.
`pending` and `failed` are the run's ledger, `history`, `saved` the receipts in
memory and in the last checkpoint.  `Reboot` is a crash or a new instance.

### SwarmSupervisor

A step is what runs between two macrotasks, or between two awaits where another
chain's microtask may come in (`BetweenTasks`).  `DrainBegin`, `OnActivated`,
`OnManifest`, `OnSignalDone`, `OnRetired`, `DrainEnd` are a drain of the feed
with its awaited manifests; `Dispatch` picks a batch the scheduler may choose;
`LivenessTick` retires whoever is `Overdue`, as far as the kernel does not refuse
it, and observes stalls; `OnAgentComplete` is a loop's end, whether its
`SignalDone` was committed or refused (`abandoned`: refused though active);
`Start`, `ReconcileOrphan`, `Stop`, `Crash` the supervisor's own life.  The kernel is
`Commit`: a change of a participant whose status allows none is refused, any
intent of the supervisor may be, and what is taken comes back with the feed.

## What the models leave out

- *World.* Contents, manifests, namespaces, transcript visibility, policy and
  principals.  That the content authority may refuse is a choice in
  `CommitApply`.  One binding per role in an intent; ids are always fresh;
  digests never collide.  The caller-supplied revision of `commit_transcript`:
  the model counts.  The statuses `waiting` and `blocked`: no operation of the
  default schema sets them.
- *Runtime.* The change-epoch check of `executeCommit`: handlers never alter the
  epoch, so it holds (`ApplyKeepsEpoch` is the proof).  Composition intents: admitted by the
  same gateway, not modelled apart.
- *Files.* Log and binding, which ride in the bundle's file; leases of locks,
  which are the runtime's; the creation of the directory itself, taken as
  durable; all footprints overlap.
- *Raft.* Reads that write nothing, the TTL of locks, `refreshLease` (a lease may
  lapse at any moment), the embedded etcd.  An answer taken early leaves the
  caller's own request under way; the model serves it at once, and a process has
  one request given up on at a time: fewer late writes than the code may have.
  What the properties say of a misled client rests on what each request carries
  and compares, not on when it is served.
- *Comms.* Reconnect, close, receipts' contents, ordering of the outbox (a pass
  may take its deliveries in any order), the list of dead letters (written, never
  read).
- *Control plane.* Freeze, tool-surface epochs, fleet rollout, idempotency keys,
  namespaces, reviews and roles; one prepare call per admission at a time; the
  hook `onBindingActivated` is not installed.
- *Swarm.* Priorities and aging (any eligible agent may be chosen), remote
  handles, turn and wall-clock budgets, the termination state machine.
- *Agent.* Prompting, compaction, budgets, transcripts, coordination and content
  calls; the journal's `completed` entry, which nothing reads.

## Not modelled

- **PostgreSQL** (`postgresDurableCoordinator.ts`): the contract of
  `DurableStore` by SQL transactions; isolation is the database's, and a model
  would take it as given.  Its worker hands out answers like etcd's does.
- **Transports and the A2A binding**: wire protocols and codecs; what they do to
  delivery (loss, repetition, a call that fails with the frame sent) is in
  `CommsDelivery`.
- **Reconnect and close** (`comms`): session binding and drain of a channel; one
  behaviour is noted below.
- **Evaluation**: measurement beside the system.  Its leases with fencing tokens
  are the one concurrent part; two behaviours of theirs, read in the source, are
  noted below.
- **Conformance certificates**: a short linear life; the verifiers recompute
  digests, which an abstraction would take as given.
- **Petri nets**: analyses nothing else in the runtime calls; firing is its own
  definition.
- **Content store**: seen as an authority that may refuse and a store that may
  throw.
- **Observability, adapters, tools, command line**: I/O, formatting and wiring;
  the CLI's history seeding and genesis are in `Restart` and `Genesis`.

## Runs

All runs stop at bounds, and an idle system is a normal state, so deadlock is not
checked; what must not stop is stated as liveness.  States are distinct states.

| run | instance | states | what it checks |
|---|---|---|---|
| `runtime` | 2 processes (one with a run history), 2 operations that share no footprint but the store, 3 snapshots, 1 ticket per life, 2 lives | 228,411 | `NoLockWithoutRecord`, `Linearizable`, `OnlyHolderReleases`, `OrphanLocksLapse` |
| `epoch_commits` | 2 processes, 1 admission, 1 operation, 4 snapshots | 177,265 | `ChangeWithinEpoch`, `HeadExtendsChain`, `FeedNeverSkips`, `ReplayAlwaysSucceeds` across an activation |
| `world` | 2 actors (one unknown at first), 2 artifacts, every operation and binding, 1 session, 1 link, 1 heartbeat or transcript | 85,002 | `LockWithOwner`, `LockNotCopied`, `ControllerIsMember`, `LifecycleRespected` |
| `control` | 2 processes, 3 admissions (one managed), observations, 3 snapshots, 2 lives, 1 policy | 222,292 | `ControlTypeOK`, `BindingMatchesHead`, `HolderNeverAhead`, `DecisionWrittenAhead`, `ActiveIsReal`, `GenerationsConsecutive`, `HolderNeverRegresses`, `BindingsSucceed` |
| `file` | 2 processes, 5 names, 3 deaths or power losses | 750,176 | `ReturnedStays`, `OneGenesis`, `LocksAreTold`, `OneWriteAtATime` |
| `raft` | 2 processes, 1 life each, 3 calls, 2 rounds, timeouts and late answers | 874,559 | `ToldUnlessMisled`, `Fenced` |
| `comms` | 1 message, pump and recovery, 2 attempts, 2 copies, 1 crash, 1 replay, 1 stop | 257,136 | `ConsumedOnce`, `RecordsEarned`, `WaitingIsAlive`, `EventuallySettled` |
| `agent` | 4 calls for 3 requests of all tiers (two ids for one edit), 2 turns, 2 runs, 2 crashes, reads that fail | 696,626 | `EffectOnce`, `EffectApproved`, `HonestSuccess`, `StoredNotRepeated`, `ReceiptsKept` |
| `swarm` | 3 agents, one waiting for one whose manifest is missing, 1 slot, budget 2, 2 stall ticks, refused intents, 1 crash | 571,889 | `StartedOnce`, `WithinCeiling`, `NobodyForgotten`, `StallAsDrained`, `Convergence` |
| `feed_exact` | 1 process, an activation | violation | `FeedExact` |
| `comms_uncommitted` | 1 message | violation | `RefusedNotSent` |
| `raft_late` | `raft` with 4 calls | violation | `ToldTheTruth` |

*Why the bounds suffice.*  A race on the head needs two processes and two tickets
outstanding; a stale one needs one snapshot more.  Four snapshots hold the
sequences the bridges distinguish: change–observation–change,
change–activation–change, and observation and activation together.  Two lives let
a successor meet what its predecessor left.  The operations of `runtime` were
picked so that one (`commit_transcript`) is invisible to the canonical comparison
and the other (`introduce_artifact`) is one the world refuses to repeat and the
content authority may refuse.  Three admissions let a managed one be overtaken
and two prepare calls cross in the await.  Two artifacts let a lock be claimed by
the wrong one.  In `file`, five names are two first boots, a write on each side
and a lock; three deaths are one inside each kind of access and a power loss.  In
`raft`, three calls are a write, the rival's and a third that takes a late answer;
a second life comes only with other bounds (two lives with two calls, 1.1 million
states, passed) and with the proofs, which know no bound.  In `comms`, two attempts make
the first failure and the last one differ, and two dispatchers make a record
stale.  Larger instances of `agent` (groups of two calls, 18.9 million states)
and of `control` (two managed admissions, 479,329) passed as well.  `Symmetry` is
only over processes an instance treats alike, in runs without liveness.

## Fairness

- `runtime`: `LeasesRunOut`, weak fairness of `LockLapses` per ticket: wall-clock
  time passes a lease's `expiresAt`.  Nothing is assumed of processes.
- `comms`: the pump's loop goes on (`boot/src/cluster/agentCommsPump.ts`, every
  50 ms; a pass that throws is caught and followed by the next), so its calls
  return or throw: the transport boot installs answers at once
  (`meshHubEndpoint.ts`), and one that never answered would end delivery for good.
  Strong fairness of the pump's `DispatchAnswered`: a transport and a store that
  are called again and again do not throw every time, because a pass that throws
  counts no attempt.  Frames arrive or are lost, and an emergency stop ends.
  Nothing is assumed of the saga, recovery, senders or replay, nor that any call
  succeeds.
- `swarm`: timers fire (`LivenessTick`, the poll that is `DrainBegin` or
  `DrainNothing`), a drain goes on once begun, awaited manifests come, an agent's
  run ends (`maxTurns`, `maxTimeMs`), and a supervisor that is down is started.
  Strong fairness of the ticks that retire everyone overdue: a tick asks again
  for what the last one was refused, and what made the kernel refuse (another
  operation's lock, a head that moved) passes; an active participant, be it the
  overdue one itself, is there to commit it as.  Not assumed: that peers act, that
  heartbeats come or fail to come, that a drain ends between two ticks, that the
  kernel takes a `signal_done`.

## Proofs

Assumptions are those the modules declare (`WorldAssumption`, `OpsAssumption`,
`RuntimeAssumption`, `AdmissionAssumption`, `FileAssumption`, `RaftAssumption`,
`DeliveryAssumption`, `LedgerAssumption`, `ControlAssumption`, `SwarmAssumption`):
which constants are sets of what, and that `None` (`Nothing` in the swarm) is not
in them.  Sets of processes, actors, operations, messages and
calls are otherwise arbitrary, finite or not.

| module | theorems |
|---|---|
| `RuntimeProofs` | `TypeCorrectness`; `Refinement` (`KernelSpec => Linearizable`); `NoStrandedLock`; `ReleaseByHolder`; `LogNeverWedges` |
| `EpochProofs` | of `EpochSpec`: `NeverWedgesAcrossEpochs`, `RefinementAcrossEpochs`, `OneEpochPerChange`, `HeadHasItsBinding`, `NobodyAhead`, `ActivatedInTurn`, `NobodyTurnedBack`, `FeedComplete`, `ReplayAccepts`; of `ControlSpec`: `ControlTypeCorrect`, `WrittenAheadOfRuntime`, `ActiveWasActivated`, `NoActivationLost`, `RuntimeUnderControl`, `ActivationsUnderControl`, `RefinementUnderControl`, `FeedUnderControl` |
| `WorldProofs` | `WorldTypes`, `LockOwnership`, `LockUniqueness`, `ControllersTakePart`, `LifecycleHolds` |
| `FileProofs` | `WritesTakeTurns`, `WritesStay`, `OneWorld`, `TableIsTold` |
| `RaftProofs` | `WritersAreFenced` (`Spec => Fenced`), `ToldIsSo` |
| `CommsProofs` | `CommsTypes`, `ConsumptionAtMostOnce`, `RecordsAreEarned`, `WaitingHasAttempts` |
| `BootProofs` | of `ToolSpec`: `ToolTypes`, `EffectsLandOnce`, `EffectsAreApproved`, `SuccessIsHonest`, `NothingStoredIsRepeated`, `NoReceiptIsLost`; of `SwarmSpec`: `OneActivationOneAgent`, `CeilingHolds`, `NobodyIsForgotten`, `StallIsReal` |

*Runtime.*  The inductive invariant `KernelInv` is the type invariant with one
addition: every registered record's operation satisfies `Requires` in the
snapshot it was admitted against, and that snapshot is stored.  Without it the
commit step could not be matched: `CommitApply` does not evaluate the template's
`requires` again, it relies on the head still being the record's `before`.
Snapshots are only ever appended, so the fact survives every step
(`StoreKeepsRecords`).  `StepImplements` then maps each storing step to its
abstract action.

*Tickets.*  `TicketInv` adds what has been issued so far: a lock's ticket is of a
life its process has had and, within the present life, of a number already given;
so are a record's, and a record is of the present life.  Hence the next ticket is
fresh (`NextTicketFresh`), a lock and a record with one ticket come from one
admission (`SameFootprint`), and pruning an expired record strands nothing,
because its lock lapsed before it (`ExpiredUnlocked`).

*Chain.*  `ChainInv` says what may lie between the last change and the head: the
head is that change's world with audit entries added at the end, perhaps under a
later epoch, and if it is another snapshot at least one of the two happened.
`AdvanceIsVerifiable` shows that such a world is always one of the three advances
the bridge accepts.

*Epochs.*  `FullInv` joins both with `EpochInv`.  Its core is `Behind`: what a
process holds, or has in its journal, is the durable binding or is older in
generation *and* epoch.  So whoever holds a binding of the head's epoch holds the
durable one.  `Checked` says of a commit past its checks that its plan is of the
generation and epoch its process holds, and that the head it read was of that
epoch; if the head is still that one when it swaps, the process holds the durable
binding, and what it stores (`Follows`: its plan's epoch, its holder's generation,
plus one) comes directly after it (`SwapFollows`).  Recovery takes up an entry
only if it is of the head's epoch, hence the durable binding itself
(`RecoverKeeps`).  `Follows` also has to survive the await: a plan judged before
it may be stored under a later holder, whose generation only grows.

*Feed and replay.*  `FeedInv`: changes follow one another along the stored
snapshots (`LogSorted`), each leads to what its recipe recomputes (`Recipes`), and
between two snapshots with no change between them there are observations and
activations only (`Hops`).  The feed of a cursor begins at the least change it
finds, so the theorem that nothing is skipped needs no induction: a skipped change
would be a lesser one.  `ReplayState` is the last value of a recursive function
(`ReplayStates`); that it reaches the log's states is shown by taking the least
place where it would not (`LeastExists`).

*Control plane.*  `ControlInv` is `FullInv` with what the admission workflow knows
(`Workflow`).  Epoch administration by itself makes a plan once; the control plane
makes one again after a crash, which `FullInv` survives if nobody is at work on
that admission (`ReplanKeeps`), and nothing of a lost submission is
(`Unsubmitted`).  `WrittenAhead`: the file has a decision before the
runtime is asked, and keeps it.  `AsPlanned`: what the runtime was moved to for an
admission is what its plan asks for, so a decision that records only the head
names the epoch too.  `Truthful` says of memory *and* file that their active
binding and their applied decisions are about epochs the runtime was moved to
(`Real`, which no later step undoes), and that a decision left to recovery is
either that or was refused for good (`Gone`): a recovery that finds its head is
then right to finalise.  Every other step of the workflow is one of epoch
administration (`StepKinds`), so the refinement of `WorldHistory` and the feed's
theorems hold under `ControlSpec` too.

*World.*  `LockInv` is `LockWithOwner` and `LockNotCopied` with the world's
typing and `LockComplete`: a capability has a holder exactly when it has a scope,
and its scope is an artifact that exists.  The two properties are not inductive
separately: replacing a lock by introducing an artifact keeps the owner relation
only because a fresh artifact has no lock yet, and delegation only because
`Holds` ties the bound capability to the task and no second lock for it exists.
Sessions need that members take part, and taking part is never undone.

*Files.*  Whoever is between acquiring the directory lock and releasing it is
alone (exclusion), so what it decided on still holds when it publishes.  Every
content a power loss may leave is a beginning of the file and has all writes that
returned, because the directory was flushed before any of them did; nothing on
the device is torn, because files are flushed before their rename.  A name is in
the hands of one process, so an access that finds its name in the file wrote it.

*Raft.*  Two invariants.  `HeadInv` holds whatever answers are taken for whose:
head, binding and lease are compared by the transaction itself, and what a request
carries is of its client's own token and made from the head it compares; a request
served late is one its call could have made, and if the lease is still its token's
the write is an ordinary one.  `LogInv` holds while nobody was misled: then a port
holds no answer but the one its call waits for, so what a call has read was true
once, and the number of a new change, which the transaction compares by its
version alone, is the next one.  What a client was told is tied to that client:
its reading goes wrong only once it is misled itself; a lock, once anybody is.

*Comms.*  A pass holds records that are stale when it writes them back; the
invariant says of passes and saga what the properties say of the store (no
attempt counted that was not made, nothing dispatched that did not leave).

*Tools.*  The journal's entry stands between approval and effect
(`Journalled`), what is about to run is unresolved under no other identifier and
has landed no more often than its entry was misread (`MayExecute`), a receipt is written before its observation is tried
(`Receipts`).

*Swarm.*  `SwarmInv` ties four things together.  `Reading`, `Recorded`: the cursor
stays within the drain's batch, a participant is activated once in the log, and
the log agrees with the world.  `Counted`: who is in the queue has not been
started, and neither has anyone whose activation is unread; so an activation
that is admitted is admitted for the first time, in this life or in any.  `Held`,
`Slots`: a loop that works for an active participant has its handle, and a handle
of an active one has a slot, of which a dispatch never takes more than `Room`.
`Quiet`: if nothing moved since the last dispatch, whoever it left waiting lacks
a change that is not drained; every step that could give it one counts as
movement.  `Orphaned` is what makes one exception in `NobodyForgotten` exact:
what the reconciliation awaits was activated before the start.  The other,
`abandoned`, grows only where a `signal_done` of an active agent is refused.  The invariant
carries that its sets are finite, so participants need not be.

*Model-checked only.*  Liveness (`OrphanLocksLapse`, `EventuallySettled`,
`Convergence`), which is outside the prover's reach.  Every invariant and every
action property of a passing run is a theorem.

## Disagreements found

1. **`FeedExact`** (run `feed_exact`).  `coordinationRuntime.ts:30` promises
   "every committed change after the given cursor snapshot ref".  For a cursor
   that no logged change touches, `since()` bridges to the *first* change in the
   log whose before-snapshot the cursor's snapshot "reaches", without requiring
   that it comes later: epoch-only advances are compared in either direction, and
   transcripts are not compared.  After `commit_transcript` 1→2 and an activation
   2→3, `since(3)` returns the change 1→2 again.  Nothing is missed
   (`FeedNeverSkips` holds), but a change is delivered to a reader that already
   has it.
2. **`RefusedNotSent`** (run `comms_uncommitted`).  `messagingSagaCoordinator.ts:39`
   documents "persist outbox → runtime observe → runtime commit receipt →
   transport dispatch".  When the runtime refuses, only the saga's in-memory
   record becomes `failed`; the delivery stays `queued`, and the pump transmits
   it although its sender was told that the send failed.
3. **`ToldTheTruth`** (run `raft_late`).  ADR-0029 and `raftKv.ts` call the store
   linearizable.  Answers of the worker carry no request id, and a request whose
   wait ran out is answered all the same: from then on every request of that
   client is answered with an earlier one's answer.  A refused write is reported
   as stored, or a lock as acquired that is not in the table.  Head and binding
   stay whole (`Fenced`), the log does not: a sequence number read from another
   key's answer stores a change under "NaN", which is why `Fenced` speaks of the
   log only while no client is misled (`Durable!Spec` by itself is violated in
   the same instance).  A lease, change or snapshot read as the lock table empties
   it.  `postgresSqlExecutor.ts` waits for its worker in the same
   way.

## Behaviours worth knowing

Seen while modelling; nothing is checked of them, or a property names them as an
exception.

*Kernel.*
- `core/src/consistency/index.ts:17` asks for `auditTail` and run history to be
  aligned.  Only the process that ingests an observation records it; another
  process with a run history then refuses its own commits ("auditTail/history
  mismatch before commit", `commitChange.ts:107`) until it restarts
  (`HistoryAccepts`).
- Nothing ever removes a session, and an activation requires that there is none:
  after the first `create_session` or `delegate`, no epoch can be activated.
- Introducing an artifact with a capability that belongs to another artifact
  takes the lock away from that artifact, which is left without one.
- A retired participant is still "registered" for the template conditions.
- An activation may slip in while another process holds a footprint it acquired
  after the quiescence check; that process's commit then fails on the head.
- `release` in the `finally` block may throw after the change was stored: the
  caller sees a failure for a change that is there.

*Files.*
- A process that dies inside an access, or whose unlink fails on release, leaves
  the directory lock: every process then times out until an operator removes it
  (`fileLock.ts` fails closed).  A power loss may bring a released lock back.
- A head read by another process after its writer died between rename and flush
  may vanish in a power loss although it was shown; only writes that returned are
  safe.  Errors of the directory flush are swallowed.

*Raft.*
- A writer that is idle for the lease's TTL is fenced for good: nothing keeps the
  lease alive in the background; an old writer's `refreshLease` keeps its
  successor's.  Sixteen lost rounds make a lock access throw.

*Comms.*
- A replayed dead letter keeps its attempts, so every later pass fails it with
  "retry budget exhausted" although `replayDeadLetter` answered
  `redispatched: true` (`reopened` in `WaitingIsAlive` and `EventuallySettled`).
- The emergency stop is looked at before a call, not in the transport: a pass or
  a saga under way still sends.  A transport or store that throws ends the pass
  and counts no attempt, so a delivery at which it throws every time is tried
  without end.
- With two dispatchers a stale write-back may bring a dead-lettered or dispatched
  delivery back to `retryWait`.
- A consumer that fails, or a crash between inbox and consumer, loses the
  message: at most once, not exactly once.
- Reconnect advances the session's binding before it awaits the runtime; if that
  fails, `recover()` finds an "unexpected channel generation" from then on.

*Control plane.*
- A crash after the runtime's swap, while the decision is still `decided`, leaves
  an activated epoch the control plane does not record: `recoverForwardCommit`
  refuses a decision in that state (ADR-0014 says recovery goes forward).
- A policy activation between decision and finalisation makes the finalisation
  conflict, and recovery compares with the same old generation: it conflicts for
  good.  A commit refused by the runtime has consumed its token and cannot be
  retried although it is marked retryable.
- Submit and prepare ask for the head of the last activation: any commit or
  observation since blocks further admissions.
- Policy revisions move the control plane's generation without the runtime's, so
  a later prepare is refused.
- `commitToolSurfaceEpoch` (the CLI attaching a tool server) puts the next epoch
  into the control plane's active binding and leaves the runtime where it is
  (ADR-0026 asks for no schema change).  `ActiveIsReal` speaks of the other
  operations: with this one the two bindings differ (not modelled).
- Two concurrent prepare calls of one admission may put a committed one back to
  `prepared` (not modelled).

*Swarm.*
- A participant activated before the supervisor started, whose manifest cannot be
  resolved, is passed over by the reconciliation (`clusterSupervisor.ts:252`) and
  stays active with nobody to retire it (`PassedOver`).
- `clusterSupervisor.ts:646` says that an agent's end is committed before the
  supervisor lets go of it.  The result of `proposeAndCommit` is not looked at
  (`:698-706`): if the kernel refuses (a resource conflict, a moved head, a run
  history that lags), handle, liveness and slot go all the same, and the
  participant stays active with nobody to end or retire it; `waitForCompletion`
  then waits without end unless a verdict comes (`abandoned` in `NobodyForgotten`
  and `Convergence`).  An intent that throws leaves them where they are and is an
  unhandled rejection.
- A refused retirement is asked for again by every tick (`:832-855`).
- An agent that calls `signal_done` itself loses its handle and not its loop,
  which no `stop()` aborts.  A start that fails in `dispatchPending` is an
  unhandled rejection.  A stall may be called although a change that satisfies a
  condition was committed after the last drain, or although it was drained, if the
  drain awaits a manifest over several ticks and dispatches nobody meanwhile.

*Agent.*
- A journal read that throws counts as no entry (`act.ts:451-455`): a
  non-idempotent tool whose effect has landed is then asked about and run again.
  `EffectOnce` allows one more landing for each such read.
- Once per call identifier only: another identifier for the same request is held
  back by the run's ledger while the first is unresolved (`Same`), not after.
- A plain failure is forgotten by the next run's ledger; receipts of a turn are
  lost if the process dies before that turn's checkpoint; the recovery of a
  dispatched call does not ask the approver again; the built-in
  `filesystem_write` cannot be reconciled, so its effect may repeat.

*Evaluation* (not modelled).
- The holder file of `withLeaseLock` (`fileLeaseCoordinator.ts:38`) has a fresh
  UUID in its name, so creating it never fails and two acquisitions may read the
  file of leases before either writes it.
- `executeAttempt` validates its fencing token once, before the runner starts
  (`evaluationEngine.ts:273`): a worker whose lease went to another one while its
  case ran saves its result all the same.
- A crash or failed write between the three saves of `executeAttempt` leaves a run
  queued or leased, and no call takes it up from there.

## Plan

Done: the kernel with its refinement, across epochs; both modelled stores with
their contracts; delivery; the tool ledger; the swarm; the admission workflow.

Next, in this order:

1. `CommsChannel`: reconnect and close, with the session binding advanced before
   the runtime's answer; recovery of a failed reconnect.
2. The control plane's freeze, tool-surface epochs and fleet rollout; concurrent
   prepare calls of one admission.
3. The refinement of the runtime's store accesses by `FileStore` and `RaftStore`
   as one composition, rather than by contract.
4. Evaluation leases; the termination state machine of the swarm.
