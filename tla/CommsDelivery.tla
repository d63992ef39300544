--------------------------- MODULE CommsDelivery ---------------------------
(***************************************************************************)
(* Delivery of envelopes between two agents (packages/comms): the durable  *)
(* outbox, the sending saga, the dispatchers that drain the outbox, dead   *)
(* letters and their replay, and the receiver's inbox.                     *)
(*                                                                         *)
(* Each agent keeps its own file-backed store; an access to it is atomic.  *)
(* What a process remembers (saga records, passes, the replay protector)   *)
(* is gone after a crash.  Every await is a step boundary: the ports of    *)
(* runtime and transport are asynchronous.  A message stands for its       *)
(* envelope, digest and idempotency key.  The list of dead letters is      *)
(* written and never read, and left out; so is the order of the outbox: a  *)
(* pass may take its deliveries in any order.  A write that fails leaves   *)
(* no record (in memory it is there until the next access reloads).        *)
(***************************************************************************)
EXTENDS Naturals, FiniteSets

CONSTANTS
    Message,
    Dispatcher,     \* callers of OutboxDispatcher.dispatchPending
    Reconciler,     \* those that call it in DeliveryRecovery.reconcile
    None,
    MaxAttempts,    \* COMMS_LIMITS.maxRetryAttempts
    MaxCopies,      \* bound: frames of one message on the wire
    MaxCrashes,     \* bound: crashes of sender and receiver together
    MaxReplays,     \* bound: dead letters replayed
    MaxFreezes      \* bound: emergency stops

ASSUME DeliveryAssumption ==
    /\ Reconciler \subseteq Dispatcher
    /\ {MaxAttempts, MaxCopies} \subseteq Nat \ {0}
    /\ {MaxCrashes, MaxReplays, MaxFreezes} \subseteq Nat
    /\ None \notin [state : {"queued", "retryWait", "dispatched", "deadLettered"},
                    attempt : 0 .. MaxAttempts]

VARIABLES
    delivery,   \* sender's store: the delivery record of each message, or None
    saga,       \* sender: phase of executeSend
    pass,       \* sender: the dispatch pass of each dispatcher, or None
    frozen,     \* the emergency stop
    wire,       \* frames on the way
    seen,       \* receiver: digests the replay protector has seen
    inbox,      \* receiver's store: messages claimed
    consuming,  \* receiver: messages whose consumer is awaited
    consumed,   \* how often each message was consumed
    calls,      \* how often the transport was called for each, counted to MaxAttempts
    left,       \* messages of which a frame was put on the wire
    committed,  \* messages the runtime gave a commit receipt for
    reopened,   \* messages whose dead letter was replayed
    freezes, crashes, replays

sender == <<delivery, saga, pass>>
receiver == <<seen, inbox, consuming, consumed>>
history == <<calls, left, committed, reopened>>
bounds == <<freezes, crashes, replays>>
vars == <<sender, frozen, wire, receiver, history, bounds>>

Delivery == [state : {"queued", "retryWait", "dispatched", "deadLettered"},
             attempt : 0 .. MaxAttempts]

\* A delivery as a pass has read it; `sent`: the awaited call put a frame on
\* the wire.
Held == [message : Message, state : {"queued", "retryWait"}, attempt : 0 .. MaxAttempts - 1]
Call == [message : Message, attempt : 0 .. MaxAttempts - 1, sent : BOOLEAN]
Pass == [todo : SUBSET Held, call : Call \cup {None}, failed : SUBSET Message]

Phase == {"none", "persisted", "observed", "sent", "unsent", "dispatched", "failed"}

TypeOK ==
    /\ delivery \in [Message -> Delivery \cup {None}]
    /\ saga \in [Message -> Phase]
    /\ pass \in [Dispatcher -> Pass \cup {None}]
    /\ frozen \in BOOLEAN
    /\ wire \in [Message -> 0 .. MaxCopies]
    /\ seen \subseteq Message
    /\ consuming \subseteq inbox /\ inbox \subseteq Message
    /\ consumed \in [Message -> Nat]
    /\ calls \in [Message -> 0 .. MaxAttempts]
    /\ {left, committed, reopened} \subseteq SUBSET Message
    /\ freezes \in 0 .. MaxFreezes
    /\ crashes \in 0 .. MaxCrashes
    /\ replays \in 0 .. MaxReplays

Init ==
    /\ delivery = [m \in Message |-> None]
    /\ saga = [m \in Message |-> "none"]
    /\ pass = [d \in Dispatcher |-> None]
    /\ frozen = FALSE
    /\ wire = [m \in Message |-> 0]
    /\ seen = {} /\ inbox = {} /\ consuming = {}
    /\ consumed = [m \in Message |-> 0]
    /\ calls = [m \in Message |-> 0]
    /\ left = {} /\ committed = {} /\ reopened = {}
    /\ freezes = 0 /\ crashes = 0 /\ replays = 0

-----------------------------------------------------------------------------
\* The transport, which knows nothing of an emergency stop.  A call may put a
\* frame on the wire or not; a frame may be lost on its way; with a frame on the
\* wire the call may still fail.
Transmit(m, sent) ==
    /\ sent => wire[m] < MaxCopies
    /\ wire' = [wire EXCEPT ![m] = IF sent THEN @ + 1 ELSE @]
    /\ left' = IF sent THEN left \cup {m} ELSE left
    /\ calls' = [calls EXCEPT ![m] = IF @ < MaxAttempts THEN @ + 1 ELSE @]

Lose(m) ==
    /\ wire[m] > 0
    /\ wire' = [wire EXCEPT ![m] = @ - 1]
    /\ UNCHANGED <<sender, frozen, receiver, history, bounds>>

-----------------------------------------------------------------------------
\* executeSend.  A message the outbox already has is answered from the records
\* and changes nothing.
Send(m) ==
    /\ ~frozen
    /\ delivery[m] = None
    /\ delivery' = [delivery EXCEPT ![m] = [state |-> "queued", attempt |-> 0]]
    /\ saga' = [saga EXCEPT ![m] = "persisted"]
    /\ UNCHANGED <<pass, frozen, wire, receiver, history, bounds>>

\* The runtime takes the observation or refuses it.
Observe(m) ==
    /\ saga[m] = "persisted"
    /\ \E phase \in {"observed", "failed"} : saga' = [saga EXCEPT ![m] = phase]
    /\ UNCHANGED <<delivery, pass, frozen, wire, receiver, history, bounds>>

\* commitMessage: refused when the head has moved since the observation.
CommitRefused(m) ==
    /\ saga[m] = "observed"
    /\ saga' = [saga EXCEPT ![m] = "failed"]
    /\ UNCHANGED <<delivery, pass, frozen, wire, receiver, history, bounds>>

\* Committed, and the transport is called.
Commit(m) ==
    /\ saga[m] = "observed"
    /\ committed' = committed \cup {m}
    /\ \E sent \in BOOLEAN :
          /\ Transmit(m, sent)
          /\ saga' = [saga EXCEPT ![m] = IF sent THEN "sent" ELSE "unsent"]
    /\ UNCHANGED <<delivery, pass, frozen, receiver, reopened, bounds>>

\* The transport answered, or it or the store threw; only a success is written
\* to the store, over whatever is there.
SagaAnswered(m) ==
    /\ saga[m] \in {"sent", "unsent"}
    /\ \/ /\ saga[m] = "sent"
          /\ delivery' = [delivery EXCEPT ![m] = [state |-> "dispatched", attempt |-> 1]]
          /\ saga' = [saga EXCEPT ![m] = "dispatched"]
       \/ /\ saga' = [saga EXCEPT ![m] = "failed"]
          /\ UNCHANGED delivery
    /\ UNCHANGED <<pass, frozen, wire, receiver, history, bounds>>

-----------------------------------------------------------------------------
\* dispatchPending and reconcile.

\* Variant: only what was never tried.
DispatchableQueued == {m \in Message : delivery[m] # None /\ delivery[m].state = "queued"}
Dispatchable ==
    {m \in Message : delivery[m] # None /\ delivery[m].state \in {"queued", "retryWait"}}

Spent(m) == delivery[m].attempt >= MaxAttempts

\* A pass reads the outbox once; what it skips or fails without a call it
\* decides on what it read.
PassBegin(d) ==
    /\ ~frozen
    /\ pass[d] = None
    /\ Dispatchable # {}
    /\ pass' = [pass EXCEPT ![d] =
          [todo |-> {[message |-> m, state |-> delivery[m].state, attempt |-> delivery[m].attempt] :
                        m \in {n \in Dispatchable : ~Spent(n)}},
           call |-> None,
           failed |-> {n \in Dispatchable : Spent(n)}]]
    /\ UNCHANGED <<delivery, saga, frozen, wire, receiver, history, bounds>>

DispatchOne(d) ==
    /\ pass[d] # None /\ pass[d].call = None
    /\ \E held \in pass[d].todo, sent \in BOOLEAN :
          /\ Transmit(held.message, sent)
          /\ pass' = [pass EXCEPT
                ![d].todo = @ \ {held},
                ![d].call = [message |-> held.message, attempt |-> held.attempt, sent |-> sent]]
    /\ UNCHANGED <<delivery, saga, frozen, receiver, committed, reopened, bounds>>

\* markRetry, on the attempt that was read.  Variants: dead one attempt early,
\* or never.
RetriedEarly(attempt) ==
    IF attempt + 2 >= MaxAttempts
    THEN [state |-> "deadLettered", attempt |-> attempt + 1]
    ELSE [state |-> "retryWait", attempt |-> attempt + 1]
RetriedForever(attempt) == [state |-> "retryWait", attempt |-> attempt + 1]
Retried(attempt) ==
    IF attempt + 1 >= MaxAttempts
    THEN [state |-> "deadLettered", attempt |-> attempt + 1]
    ELSE [state |-> "retryWait", attempt |-> attempt + 1]

\* The transport answered the pass; the record it read is written back.
DispatchAnswered(d) ==
    /\ pass[d] # None /\ pass[d].call # None
    /\ LET call == pass[d].call
           m == call.message
       IN  \/ /\ call.sent
              /\ delivery' = [delivery EXCEPT ![m] =
                    [state |-> "dispatched", attempt |-> call.attempt + 1]]
              /\ pass' = [pass EXCEPT ![d].call = None]
           \/ /\ delivery' = [delivery EXCEPT ![m] = Retried(call.attempt)]
              /\ pass' = [pass EXCEPT
                    ![d].call = None,
                    ![d].failed = IF delivery'[m].state = "deadLettered" THEN @ \cup {m} ELSE @]
    /\ UNCHANGED <<saga, frozen, wire, receiver, history, bounds>>

\* The transport throws, or the store under the record: the pass ends there, and
\* the call is counted nowhere.
PassThrows(d) ==
    /\ pass[d] # None /\ pass[d].call # None
    /\ pass' = [pass EXCEPT ![d] = None]
    /\ UNCHANGED <<delivery, saga, frozen, wire, receiver, history, bounds>>

\* The pass is over; reconcile makes dead letters of what failed, unless the
\* store throws between two of them.
Quarantined(S) ==
    [m \in Message |-> IF m \in S THEN [delivery[m] EXCEPT !.state = "deadLettered"]
                       ELSE delivery[m]]

PassEnd(d) ==
    /\ pass[d] # None /\ pass[d].call = None /\ pass[d].todo = {}
    /\ \E done \in IF d \in Reconciler THEN SUBSET pass[d].failed ELSE {{}} :
          delivery' = Quarantined(done)
    /\ pass' = [pass EXCEPT ![d] = None]
    /\ UNCHANGED <<saga, frozen, wire, receiver, history, bounds>>

\* replayDeadLetter, authorised.  The attempts stay what they are.
ReplayDeadLetter(m) ==
    /\ replays < MaxReplays
    /\ delivery[m] # None /\ delivery[m].state = "deadLettered"
    /\ delivery' = [delivery EXCEPT ![m].state = "queued"]
    /\ reopened' = reopened \cup {m}
    /\ replays' = replays + 1
    /\ UNCHANGED <<saga, pass, frozen, wire, receiver, calls, left, committed, freezes, crashes>>

-----------------------------------------------------------------------------
\* acceptInboundFrame.  A frame that fails identity, authorization or expiry is
\* dropped before it is recorded anywhere (Lose).

\* Variant: what this process is working on, not what it has stored.
ClaimedInMemory(m) == m \in consuming
Claimed(m) == m \in inbox

Receive(m) ==
    /\ ~frozen
    /\ wire[m] > 0
    /\ wire' = [wire EXCEPT ![m] = @ - 1]
    /\ seen' = seen \cup {m}
    /\ inbox' = IF m \in seen THEN inbox ELSE inbox \cup {m}
    /\ consuming' = IF m \in seen \/ Claimed(m) THEN consuming ELSE consuming \cup {m}
    /\ UNCHANGED <<sender, frozen, consumed, history, bounds>>

\* The consumer took the message or refused it; either way it is over.
Consume(m) ==
    /\ m \in consuming
    /\ consuming' = consuming \ {m}
    /\ \E n \in {0, 1} : consumed' = [consumed EXCEPT ![m] = @ + n]
    /\ UNCHANGED <<sender, frozen, wire, seen, inbox, history, bounds>>

-----------------------------------------------------------------------------
Freeze ==
    /\ ~frozen /\ freezes < MaxFreezes
    /\ frozen' = TRUE /\ freezes' = freezes + 1
    /\ UNCHANGED <<sender, wire, receiver, history, crashes, replays>>

Unfreeze ==
    /\ frozen /\ frozen' = FALSE
    /\ UNCHANGED <<sender, wire, receiver, history, bounds>>

\* A process dies and is started again: its store is there, its calls are not.
SenderCrash ==
    /\ crashes < MaxCrashes /\ crashes' = crashes + 1
    /\ saga' = [m \in Message |-> "none"]
    /\ pass' = [d \in Dispatcher |-> None]
    /\ UNCHANGED <<delivery, frozen, wire, receiver, history, freezes, replays>>

ReceiverCrash ==
    /\ crashes < MaxCrashes /\ crashes' = crashes + 1
    /\ seen' = {} /\ consuming' = {}
    /\ UNCHANGED <<sender, frozen, wire, inbox, consumed, history, freezes, replays>>

Dispatch(d) == PassBegin(d) \/ DispatchOne(d) \/ DispatchAnswered(d) \/ PassEnd(d)

Next ==
    \/ \E m \in Message :
          \/ Send(m) \/ Observe(m) \/ CommitRefused(m) \/ Commit(m) \/ SagaAnswered(m)
          \/ ReplayDeadLetter(m) \/ Lose(m) \/ Receive(m) \/ Consume(m)
    \/ \E d \in Dispatcher : Dispatch(d) \/ PassThrows(d)
    \/ Freeze \/ Unfreeze \/ SenderCrash \/ ReceiverCrash

CommsSpec == Init /\ [][Next]_vars

\* The pump's loop goes on, a transport that is called again and again does not
\* throw every time, frames arrive or are lost, and somebody ends an emergency
\* stop.
Fairness ==
    /\ \A d \in Dispatcher \ Reconciler :
          WF_vars(Dispatch(d)) /\ SF_vars(DispatchAnswered(d))
    /\ WF_vars(Unfreeze)
    /\ \A m \in Message :
          WF_vars(Receive(m) \/ Lose(m))

FairCommsSpec == CommsSpec /\ Fairness

-----------------------------------------------------------------------------
\* Sends are at least once; consumption is at most once, across repeated
\* frames, crashes of both sides and replays (appendInbox before consume).
ConsumedOnce == \A m \in Message : consumed[m] <= 1

\* A record is earned: "dispatched" means a frame left, a dead letter that the
\* transport was called maxRetryAttempts times, and no record counts a call
\* that was not made, however stale the record a dispatcher writes back.
RecordsEarned ==
    \A m \in Message : delivery[m] # None =>
        /\ delivery[m].state = "dispatched" => m \in left
        /\ delivery[m].state = "deadLettered" => calls[m] = MaxAttempts
        /\ delivery[m].attempt <= calls[m]

\* A delivery that still waits has attempts left, so that the next pass calls
\* the transport for it, unless it is a replayed dead letter.
WaitingIsAlive ==
    \A m \in Message \ reopened :
        delivery[m] # None /\ delivery[m].state \in {"queued", "retryWait"} => ~Spent(m)

Settled(m) ==
    delivery[m] = None \/ delivery[m].state \in {"dispatched", "deadLettered"}

\* With the pump running, every delivery is dispatched or dead-lettered in the
\* end, unless it is a replayed dead letter (markRetry, dispatchPending).
EventuallySettled == []<>(\A m \in Message : Settled(m) \/ m \in reopened)

\* "persist outbox -> runtime observe -> runtime commit receipt -> transport
\* dispatch" (messagingSagaCoordinator.ts): no frame leaves of a message whose
\* send ended with the runtime's refusal.
RefusedNotSent ==
    [][\A m \in left' \ left : saga[m] = "failed" => m \in committed]_vars
=============================================================================
