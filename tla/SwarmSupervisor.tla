-------------------------- MODULE SwarmSupervisor --------------------------
(***************************************************************************)
(* The swarm supervisor (boot/src/cluster/clusterSupervisor.ts) and its    *)
(* scheduler (swarmScheduler.ts).  The supervisor drains the feed of       *)
(* committed changes, admits activated participants to the scheduler,      *)
(* starts their agents, writes the end of an agent back to the world and   *)
(* retires participants whose heartbeats ran out.                          *)
(*                                                                         *)
(* One process runs one event loop: a step is what runs between two macro- *)
(* tasks (BetweenTasks), or between two awaits where a microtask of        *)
(* another chain may come in between.  The one await of the supervisor     *)
(* that leaves the event loop is the read of a manifest from the content   *)
(* store.                                                                  *)
(*                                                                         *)
(* A start condition is the set of agents it waits for (`agentsDone`); an  *)
(* agent that waits for itself has a condition nothing can satisfy.        *)
(* Priorities and aging are left out: any eligible agent may be chosen.    *)
(* So are the turn and wall-clock budgets, which only end a run earlier.   *)
(***************************************************************************)
EXTENDS Naturals, Sequences, SequencesExt

CONSTANTS
    Agent,          \* participants that may be activated with a manifest
    Needs,          \* Needs[a]: the agents a's start condition waits for
    BadManifest,    \* agents whose manifest cannot be resolved
    Nothing,        \* no drain, no manifest awaited
    MaxConcurrent,  \* maxConcurrentAgents
    MaxTotal,       \* maxTotalAgents
    StallTicks,     \* stallTicksBeforeDeadlock
    Retirable,      \* bound: agents a peer may retire
    MaxCrashes      \* bound: crashes of the supervisor's process

ASSUME SwarmAssumption ==
    /\ Needs \in [Agent -> SUBSET Agent]
    /\ BadManifest \subseteq Agent
    /\ Retirable \subseteq Agent
    /\ Nothing \notin Agent
    /\ {MaxConcurrent, MaxTotal, StallTicks} \subseteq Nat \ {0}
    /\ MaxCrashes \in Nat

VARIABLES
    status,      \* the participants in the committed world
    log,         \* the committed changes a supervisor reacts to
    up,          \* the supervisor's `running`, "down" when its process is gone
    cursor,      \* lastObservedHead
    seed,        \* the head start() was called at
    drain,       \* the drain in progress: the end of its batch, or Nothing
    resolving,   \* the activated agent whose manifest the drain awaits
    orphans,     \* agents whose manifests the reconciliation still awaits
    agents,      \* agents: the handles the supervisor holds
    loop,        \* the agent loops of the process
    liveness,    \* livenessTable
    sched,       \* the SwarmScheduler
    terminal,    \* the verdict that ends the wait
    polled,      \* a drain ran to its end since the last liveness tick
    abandoned,   \* agents of this life whose end the kernel refused to write
    starts,      \* starts[a]: how often a's loop was started, in all lives
    crashes

world == <<status, log>>
\* What only the properties and the statements about the code look at.
ghosts == <<polled, abandoned, starts>>
swarmVars == <<status, log, up, cursor, seed, drain, resolving, orphans, agents, loop,
               liveness, sched, terminal, ghosts, crashes>>

\* What the scheduler keeps: who it has seen, who waits, who holds a slot.
FreshScheduler == [known |-> {}, pending |-> {}, running |-> {},
                   started |-> 0, moved |-> FALSE, stalls |-> 0]

Unstarted == [a \in Agent |-> "off"]
NoLiveness == [a \in Agent |-> "none"]

SwarmInit ==
    /\ status = [a \in Agent |-> "registered"]
    /\ log = <<>>
    /\ up = "down" /\ cursor = 0 /\ seed = 0 /\ drain = Nothing /\ resolving = Nothing
    /\ orphans = {} /\ agents = {}
    /\ loop = Unstarted /\ liveness = NoLiveness
    /\ sched = FreshScheduler
    /\ terminal = "none" /\ polled = FALSE
    /\ abandoned = {} /\ starts = [a \in Agent |-> 0]
    /\ crashes = 0

Running == up = "running"

\* No microtask is left: the next step may be a timer, a result or a peer's.
BetweenTasks == drain = Nothing \/ resolving # Nothing

-----------------------------------------------------------------------------
\* The world.  The kernel is CoordinationRuntime: an intent commits or is
\* refused, and what it commits comes with the feed.
Commit(changes, next) ==
    /\ log' = log \o changes
    /\ status' = next

MayRetire(a) == status[a] \in {"active", "done"}

Activate(a) ==
    /\ BetweenTasks /\ status[a] = "registered"
    /\ Commit(<<[kind |-> "activate", agent |-> a]>>, [status EXCEPT ![a] = "active"])
    /\ UNCHANGED <<up, seed, cursor, drain, resolving, orphans, agents, loop,
                   liveness, sched, terminal, ghosts, crashes>>

\* A peer retires an agent that works, or waits to be started.
PeerRetires(a) ==
    /\ BetweenTasks /\ a \in Retirable /\ status[a] = "active"
    /\ Commit(<<[kind |-> "retire", agent |-> a]>>, [status EXCEPT ![a] = "retired"])
    /\ UNCHANGED <<up, seed, cursor, drain, resolving, orphans, agents, loop,
                   liveness, sched, terminal, ghosts, crashes>>

\* An agent calls signal_done itself and goes on with its loop.
AgentSignalsDone(a) ==
    /\ BetweenTasks /\ loop[a] = "running" /\ status[a] = "active"
    /\ Commit(<<[kind |-> "done", agent |-> a]>>, [status EXCEPT ![a] = "done"])
    /\ UNCHANGED <<up, seed, cursor, drain, resolving, orphans, agents, loop,
                   liveness, sched, terminal, ghosts, crashes>>

\* Heartbeats stay away longer than the threshold.
BeatsOverdue(a) ==
    /\ BetweenTasks /\ liveness[a] = "fresh"
    /\ liveness' = [liveness EXCEPT ![a] = "expired"]
    /\ UNCHANGED <<world, up, seed, cursor, drain, resolving, orphans, agents, loop,
                   sched, terminal, ghosts, crashes>>

-----------------------------------------------------------------------------
\* The scheduler.  An agent admitted once is never admitted again.
Admitted(s, a) ==
    IF a \in s.known THEN s
    ELSE [s EXCEPT !.known = @ \cup {a}, !.pending = @ \cup {a}, !.moved = TRUE]

Discarded(s, a) ==
    IF a \in s.pending THEN [s EXCEPT !.pending = @ \ {a}, !.moved = TRUE] ELSE s

Started(s, S) ==
    [s EXCEPT !.pending = @ \ S, !.running = @ \cup S,
              !.started = @ + Cardinality(S \ s.running), !.moved = @ \/ S # {}]

Moved(s) == [s EXCEPT !.moved = TRUE]

\* Variant: the slot stays taken.
CompletedKeepingSlot(s, a) == Moved(s)
Completed(s, a) == [s EXCEPT !.running = @ \ {a}, !.moved = TRUE]

ConditionMet(a) == \A b \in Needs[a] : status[b] \in {"done", "retired"}

Exhausted(s) == s.started >= MaxTotal

Eligible(s) == {a \in s.pending : ConditionMet(a) /\ ~Exhausted(s)}

\* Variant: the spawn budget only.
RoomForSpawns(s) == MaxTotal - s.started
Room(s) ==
    LET slots == MaxConcurrent - Cardinality(s.running)
        spawns == MaxTotal - s.started
    IN  IF slots < spawns THEN slots ELSE spawns

Batches(s) ==
    {S \in SUBSET Eligible(s) :
        \/ Cardinality(S) = Room(s)
        \/ S = Eligible(s) /\ Cardinality(S) < Room(s)}

\* Variant: movement of the world is not looked at.
ObservedStanding(s) ==
    IF s.running # {} \/ s.pending = {}
    THEN [s EXCEPT !.moved = FALSE, !.stalls = 0]
    ELSE [s EXCEPT !.moved = FALSE, !.stalls = IF @ < StallTicks THEN @ + 1 ELSE @]
\* observeStall: nothing runs, something waits, and nothing moved.
Observed(s) ==
    IF s.moved \/ s.running # {} \/ s.pending = {}
    THEN [s EXCEPT !.moved = FALSE, !.stalls = 0]
    ELSE [s EXCEPT !.stalls = IF @ < StallTicks THEN @ + 1 ELSE @]

-----------------------------------------------------------------------------
\* start(): the cursor is seeded from the head, and every participant that is
\* active there without a liveness entry is reconciled.
\* Variant: everything is read again.
CursorAtGenesis == 0
HeadCursor == Len(log)

Start ==
    /\ up = "down"
    /\ up' = "running"
    /\ cursor' = HeadCursor /\ seed' = HeadCursor
    /\ orphans' = {a \in Agent : status[a] = "active" /\ liveness[a] = "none"}
    /\ UNCHANGED <<world, drain, resolving, agents, loop, liveness, sched, terminal,
                   ghosts, crashes>>

\* An orphan whose manifest is there is seeded expired, unless a drain has
\* made an entry meanwhile; one without a manifest is passed over.  Variant:
\* nothing is seeded.
NeverExpired(table, a) == table
Expired(table, a) == [table EXCEPT ![a] = IF @ = "none" THEN "expired" ELSE @]

ReconcileOrphan(a) ==
    /\ BetweenTasks /\ a \in orphans
    /\ orphans' = orphans \ {a}
    /\ liveness' = IF a \in BadManifest THEN liveness ELSE Expired(liveness, a)
    /\ UNCHANGED <<world, up, seed, cursor, drain, resolving, agents, loop, sched,
                   terminal, ghosts, crashes>>

\* dispatchPending: claim the slots, start the agents, look at the budget.  A
\* stopped supervisor dispatches no more.
DispatchBatch(S) ==
    /\ sched' = Started(sched, S)
    /\ agents' = agents \cup S
    /\ loop' = [a \in Agent |-> IF a \in S THEN "running" ELSE loop[a]]
    /\ liveness' = [a \in Agent |-> IF a \in S THEN "fresh" ELSE liveness[a]]
    /\ starts' = [a \in Agent |-> IF a \in S THEN starts[a] + 1 ELSE starts[a]]
    /\ terminal' = IF terminal = "none" /\ Exhausted(sched') THEN "budget_exhausted"
                   ELSE terminal

Dispatch ==
    /\ polled' = TRUE
    /\ IF Running
       THEN \E S \in Batches(sched) : DispatchBatch(S)
       ELSE UNCHANGED <<sched, agents, loop, liveness, starts, terminal>>

\* drainFeed: at most one drain at a time, over the changes there are now.
Drainable == Running /\ drain = Nothing

DrainBegin ==
    /\ BetweenTasks /\ Drainable
    /\ cursor < Len(log)
    /\ drain' = Len(log)
    /\ UNCHANGED <<world, up, seed, cursor, resolving, orphans, agents, loop,
                   liveness, sched, terminal, ghosts, crashes>>

\* A drain that finds no change dispatches all the same.
DrainNothing ==
    /\ BetweenTasks /\ Drainable
    /\ cursor = Len(log)
    /\ Dispatch
    /\ UNCHANGED <<world, up, seed, cursor, drain, resolving, orphans, abandoned, crashes>>

Batched(kind) ==
    /\ drain # Nothing /\ resolving = Nothing
    /\ cursor < drain
    /\ log[cursor + 1].kind = kind

Current == log[cursor + 1].agent

Advance(s) ==
    /\ cursor' = cursor + 1
    /\ sched' = Moved(s)

\* onParticipantActivated, up to the manifest.
OnActivated ==
    /\ Batched("activate")
    /\ IF Current \in agents
       THEN Advance(sched) /\ UNCHANGED resolving
       ELSE resolving' = Current /\ UNCHANGED <<cursor, sched>>
    /\ UNCHANGED <<world, up, seed, drain, orphans, agents, loop, liveness,
                   terminal, ghosts, crashes>>

\* onParticipantActivated, with the manifest or without.
OnManifest ==
    /\ resolving # Nothing
    /\ resolving' = Nothing
    /\ IF resolving \in BadManifest
       THEN liveness' = Expired(liveness, resolving) /\ Advance(sched)
       ELSE Advance(Admitted(sched, resolving)) /\ UNCHANGED liveness
    /\ UNCHANGED <<world, up, seed, drain, orphans, agents, loop, terminal, ghosts,
                   crashes>>

\* The slot of an agent that has a handle is released with the handle.
Released(s, a) == IF a \in agents THEN Completed(s, a) ELSE s

Forgotten(table, a) == [table EXCEPT ![a] = "none"]

\* A late heartbeat is drained: it refreshes the entry there is.  The kernel
\* takes heartbeats of active participants only.
OnHeartbeat(a) ==
    /\ BetweenTasks /\ Drainable
    /\ loop[a] = "running" /\ status[a] = "active" /\ liveness[a] = "expired"
    /\ liveness' = [liveness EXCEPT ![a] = "fresh"]
    /\ sched' = Moved(sched)
    /\ UNCHANGED <<world, up, seed, cursor, drain, resolving, orphans, agents, loop,
                   terminal, ghosts, crashes>>

\* signal_done: the handle goes; the loop is not aborted.
OnSignalDone ==
    /\ Batched("done")
    /\ agents' = agents \ {Current}
    /\ liveness' = IF Current \in agents THEN Forgotten(liveness, Current) ELSE liveness
    /\ Advance(Released(sched, Current))
    /\ UNCHANGED <<world, up, seed, drain, resolving, orphans, loop, terminal,
                   ghosts, crashes>>

Aborted(S) == [a \in Agent |-> IF a \in S /\ loop[a] = "running" THEN "aborted" ELSE loop[a]]

OnRetired ==
    /\ Batched("retire")
    /\ agents' = agents \ {Current}
    /\ loop' = Aborted(agents \cap {Current})
    /\ liveness' = Forgotten(liveness, Current)
    /\ Advance(Discarded(Released(sched, Current), Current))
    /\ UNCHANGED <<world, up, seed, drain, resolving, orphans, terminal, ghosts,
                   crashes>>

DrainEnd ==
    /\ drain # Nothing /\ cursor = drain /\ resolving = Nothing
    /\ drain' = Nothing
    /\ Dispatch
    /\ UNCHANGED <<world, up, seed, cursor, resolving, orphans, abandoned, crashes>>

-----------------------------------------------------------------------------
\* onAgentComplete: the run is over.  signal_done is submitted in the agent's
\* name, and nobody looks at what became of it: the kernel refuses it of one that
\* is not active, and may refuse it of one that is (a resource conflict, a moved
\* head).  Handle, liveness and slot are released all the same, and a drain
\* begins if none is running.  Its await lets no other task in.
SignalDone(a) ==
    \/ /\ status[a] = "active"
       /\ Commit(<<[kind |-> "done", agent |-> a]>>, [status EXCEPT ![a] = "done"])
       /\ UNCHANGED abandoned
    \/ /\ abandoned' = IF status[a] = "active" THEN abandoned \cup {a} ELSE abandoned
       /\ UNCHANGED world

OnAgentComplete(a) ==
    /\ BetweenTasks /\ loop[a] \in {"running", "aborted"}
    /\ SignalDone(a)
    /\ loop' = [loop EXCEPT ![a] = "off"]
    /\ agents' = agents \ {a}
    /\ liveness' = Forgotten(liveness, a)
    /\ sched' = Completed(sched, a)
    /\ drain' = IF Drainable THEN Len(log') ELSE drain
    /\ UNCHANGED <<up, seed, cursor, resolving, orphans, terminal, polled, starts,
                   crashes>>

\* The liveness timer: ask for the retirement of whoever expired, then look for
\* a stall.  An intent may be refused, or find no principal to commit it as; the
\* entry stays, and the next tick asks again.
Overdue == {a \in Agent : liveness[a] = "expired" /\ MayRetire(a)}

Tick(gone) ==
    /\ BetweenTasks /\ Running
    /\ polled' = FALSE
    /\ \E order \in SetToSeqs(gone) :
          Commit([i \in DOMAIN order |-> [kind |-> "retire", agent |-> order[i]]],
                 [a \in Agent |-> IF a \in gone THEN "retired" ELSE status[a]])
    /\ IF terminal = "none"
       THEN /\ sched' = Observed(sched)
            /\ terminal' = IF sched'.stalls = StallTicks THEN "stalled" ELSE "none"
       ELSE UNCHANGED <<sched, terminal>>
    /\ UNCHANGED <<up, seed, cursor, drain, resolving, orphans, agents, loop,
                   liveness, abandoned, starts, crashes>>

LivenessTick == \E gone \in SUBSET Overdue : Tick(gone)

\* waitForCompletion returned, and its caller stops the supervisor.
Complete == \A a \in Agent : status[a] \in {"done", "retired"}

Stop ==
    /\ BetweenTasks /\ Running
    /\ Complete \/ terminal # "none"
    /\ up' = "stopped"
    /\ loop' = Aborted(agents)
    /\ UNCHANGED <<world, seed, cursor, drain, resolving, orphans, agents, liveness,
                   sched, terminal, ghosts, crashes>>

\* The process dies: by itself, or of a start that failed in dispatchPending or
\* an intent that threw, which nothing catches.  The world stays.
Crash ==
    /\ Running /\ crashes < MaxCrashes
    /\ crashes' = crashes + 1
    /\ up' = "down" /\ cursor' = 0 /\ seed' = 0 /\ drain' = Nothing /\ resolving' = Nothing
    /\ orphans' = {} /\ agents' = {}
    /\ loop' = Unstarted /\ liveness' = NoLiveness
    /\ sched' = FreshScheduler
    /\ terminal' = "none" /\ polled' = FALSE /\ abandoned' = {}
    /\ UNCHANGED <<world, starts>>

Supervise == OnActivated \/ OnManifest \/ OnSignalDone \/ OnRetired

SwarmNext ==
    \/ \E a \in Agent :
          \/ Activate(a) \/ PeerRetires(a)
          \/ AgentSignalsDone(a) \/ BeatsOverdue(a) \/ OnHeartbeat(a)
          \/ OnAgentComplete(a) \/ ReconcileOrphan(a)
    \/ Start \/ DrainBegin \/ DrainNothing \/ Supervise \/ DrainEnd
    \/ LivenessTick \/ Stop \/ Crash

SwarmSpec == SwarmInit /\ [][SwarmNext]_swarmVars

\* The timers fire, awaited manifests come, runs are bounded (maxTurns,
\* maxTimeMs), and somebody starts the supervisor again.  A retirement that is
\* asked for by tick after tick is not refused every time: the resource another
\* operation holds is released, or lapses.
Fairness ==
    /\ WF_swarmVars(Start)
    /\ WF_swarmVars(DrainBegin \/ Supervise \/ DrainEnd)
    /\ WF_swarmVars(DrainNothing)
    /\ WF_swarmVars(LivenessTick)
    /\ SF_swarmVars(LivenessTick /\ \A a \in Overdue : status'[a] = "retired")
    /\ WF_swarmVars(\E a \in Agent : OnAgentComplete(a))
    /\ WF_swarmVars(\E a \in Agent : ReconcileOrphan(a))

FairSwarmSpec == SwarmSpec /\ Fairness

-----------------------------------------------------------------------------
\* One activation is one agent: across replays of the feed, crashes and
\* restarts no participant's agent is started twice (admit, start).
StartedOnce == \A a \in Agent : starts[a] <= 1

\* However loops end, signal and retire, those that still work in the world
\* are never more than maxConcurrentAgents (selectDispatchable, onCompleted).
WithinCeiling ==
    Cardinality({a \in Agent : loop[a] = "running" /\ status[a] = "active"}) <= MaxConcurrent

\* Where a supervisor that has seen a's activation keeps track of a: in the
\* queue, as a running agent, or on the way to retirement.
Tracked(a) ==
    \/ a \in sched.pending
    \/ a \in agents /\ a \in sched.running /\ loop[a] # "off"
    \/ liveness[a] = "expired"
    \/ a \in orphans

Unseen(a) ==
    \E i \in cursor + 1 .. Len(log) : log[i].kind = "activate" /\ log[i].agent = a

\* The participant the reconciliation passes over: activated before the
\* supervisor started, its manifest unresolvable.
PassedOver(a) ==
    /\ Running /\ a \in BadManifest
    /\ \E i \in 1 .. seed : log[i].kind = "activate" /\ log[i].agent = a

\* Nobody else is forgotten, unless the kernel refused to write the agent's end,
\* which the supervisor does not notice: while it runs, every other active
\* participant is tracked or its activation is still in the feed
\* (onManifestUnresolved, reconcileLivenessFromWorld, onAgentComplete).
Excused(a) == PassedOver(a) \/ a \in abandoned

NobodyForgotten ==
    Running => \A a \in Agent : status[a] = "active" /\ ~Excused(a) => Tracked(a) \/ Unseen(a)

\* As far as the feed was read, a stall is real: the verdict is never given
\* while an agent runs; nor while one that waits has its condition met by the
\* changes already drained, if a drain came to its end since the tick before
\* (checkStall, observeStall).  A drain that awaits a manifest for several ticks
\* dispatches nobody, and the verdict may be early.
MetByDrained(a) ==
    \A b \in Needs[a] : \E i \in 1 .. cursor : log[i] \in [kind : {"done", "retire"}, agent : {b}]

StallAsDrained ==
    [][terminal' = "stalled" /\ terminal # "stalled" =>
          /\ sched.running = {}
          /\ polled => \A a \in sched.pending : ~MetByDrained(a)]_swarmVars

\* Every activated participant ends, or the run ends with a verdict
\* (waitForCompletion), unless the reconciliation passes it over or the kernel
\* refused to write its end: then the wait has no end.
Convergence ==
    []<>(\/ terminal # "none"
         \/ \A a \in Agent : status[a] = "active" => Excused(a))
=============================================================================
