---------------------------- MODULE CommsProofs ----------------------------
(***************************************************************************)
(* The safety properties of CommsDelivery, proved for any messages,        *)
(* dispatchers and bounds.  What a pass holds is stale by the time it is   *)
(* written back, so the inductive invariant says of the passes and of the  *)
(* saga what the properties say of the store: no attempt is counted that   *)
(* was not made, and nothing is called dispatched that did not leave.      *)
(***************************************************************************)
EXTENDS CommsDelivery, TLAPS

RecordsOK ==
    /\ delivery \in [Message -> Delivery \cup {None}]
    /\ saga \in [Message -> Phase]
    /\ pass \in [Dispatcher -> Pass \cup {None}]

CountersOK ==
    /\ wire \in [Message -> 0 .. MaxCopies]
    /\ calls \in [Message -> 0 .. MaxAttempts]
    /\ freezes \in 0 .. MaxFreezes
    /\ crashes \in 0 .. MaxCrashes
    /\ replays \in 0 .. MaxReplays

StopOK == frozen \in BOOLEAN

SetsOK ==
    /\ seen \subseteq Message
    /\ consuming \subseteq inbox /\ inbox \subseteq Message
    /\ consumed \in [Message -> Nat]
    /\ {left, committed, reopened} \subseteq SUBSET Message

\* A message is in the inbox before it is consumed, and consumed by one call of
\* the consumer.
Claims ==
    \A m \in Message :
        /\ consumed[m] > 0 => m \in inbox
        /\ m \in consuming => consumed[m] = 0
        /\ consumed[m] <= 1

\* What the passes hold was true when they read it, and stays true.
PassEarned ==
    \A d \in Dispatcher : pass[d] # None =>
        /\ \A held \in pass[d].todo : held.attempt <= calls[held.message]
        /\ pass[d].call # None =>
              /\ pass[d].call.attempt + 1 <= calls[pass[d].call.message]
              /\ pass[d].call.sent => pass[d].call.message \in left
        /\ \A m \in pass[d].failed : delivery[m] # None /\ calls[m] = MaxAttempts

SagaEarned ==
    \A m \in Message :
        /\ saga[m] = "sent" => m \in left
        /\ saga[m] \in {"sent", "unsent"} => calls[m] >= 1

CommsInv ==
    /\ RecordsOK /\ CountersOK /\ SetsOK
    /\ Claims
    /\ RecordsEarned /\ PassEarned /\ SagaEarned
    /\ WaitingIsAlive

\* The type invariant, in the parts the steps disturb.
LEMMA TypeParts == TypeOK <=> RecordsOK /\ CountersOK /\ SetsOK /\ StopOK
BY DEF TypeOK, RecordsOK, CountersOK, SetsOK, StopOK

\* Nothing is on its way at first.
LEMMA CommsInit == Init => CommsInv
<1> SUFFICES ASSUME Init PROVE CommsInv
  OBVIOUS
<1> USE DEF Init
<1>1. RecordsOK
  BY DEF RecordsOK, Phase
<1>2. CountersOK
  BY DeliveryAssumption DEF CountersOK
<1>4. SetsOK
  BY DEF SetsOK
<1>3. Claims /\ RecordsEarned /\ PassEarned /\ SagaEarned /\ WaitingIsAlive
  BY DEF Claims, RecordsEarned, PassEarned, SagaEarned, WaitingIsAlive
<1> QED
  BY <1>1, <1>2, <1>3, <1>4 DEF CommsInv

-----------------------------------------------------------------------------
\* The receiver.
LEMMA ReceiverStep == RecordsOK /\ SetsOK /\ Claims /\ [Next]_vars => SetsOK' /\ Claims'
<1> SUFFICES ASSUME RecordsOK, SetsOK, Claims, [Next]_vars PROVE SetsOK' /\ Claims'
  OBVIOUS
<1> USE DEF SetsOK, Claims, sender, receiver, history, bounds
<1>1. ASSUME NEW m \in Message, Receive(m) PROVE SetsOK' /\ Claims'
  BY <1>1 DEF Receive, Claimed
<1>2. ASSUME NEW m \in Message, Consume(m) PROVE SetsOK' /\ Claims'
  BY <1>2 DEF Consume
<1>3. CASE ReceiverCrash
  BY <1>3 DEF ReceiverCrash
<1>4. ASSUME NEW m \in Message, Commit(m) \/ ReplayDeadLetter(m) PROVE SetsOK' /\ Claims'
  BY <1>4 DEF Commit, ReplayDeadLetter, Transmit
<1>5. ASSUME NEW m \in Message,
             Send(m) \/ Observe(m) \/ CommitRefused(m) \/ SagaAnswered(m) \/ Lose(m)
      PROVE  SetsOK' /\ Claims'
  BY <1>5 DEF Send, Observe, CommitRefused, SagaAnswered, Lose
<1>6. ASSUME NEW d \in Dispatcher, Dispatch(d) \/ PassThrows(d) PROVE SetsOK' /\ Claims'
  <2>1. CASE DispatchOne(d)
    <3>1. PICK held \in pass[d].todo, sent \in BOOLEAN : Transmit(held.message, sent)
      BY <2>1 DEF DispatchOne
    <3>2. held.message \in Message
      BY <2>1 DEF DispatchOne, RecordsOK, Pass, Held
    <3> QED
      BY <2>1, <3>1, <3>2 DEF DispatchOne, Transmit
  <2> QED
    BY <1>6, <2>1 DEF Dispatch, PassBegin, DispatchAnswered, PassThrows, PassEnd
<1>7. CASE Freeze \/ Unfreeze \/ SenderCrash
  BY <1>7 DEF Freeze, Unfreeze, SenderCrash
<1>8. CASE UNCHANGED vars
  BY <1>8 DEF vars
<1> QED
  BY <1>1, <1>2, <1>3, <1>4, <1>5, <1>6, <1>7, <1>8 DEF Next

-----------------------------------------------------------------------------
\* The bounded counters.
LEMMA CountersStep == RecordsOK /\ CountersOK /\ [Next]_vars => CountersOK'
<1> SUFFICES ASSUME RecordsOK, CountersOK, [Next]_vars PROVE CountersOK'
  OBVIOUS
<1> USE DeliveryAssumption DEF CountersOK, sender, receiver, history, bounds
<1>1. ASSUME NEW m \in Message, NEW sent \in BOOLEAN, Transmit(m, sent)
      PROVE  /\ wire' \in [Message -> 0 .. MaxCopies]
             /\ calls' \in [Message -> 0 .. MaxAttempts]
  BY <1>1 DEF Transmit
<1>2. ASSUME NEW m \in Message, Commit(m) PROVE CountersOK'
  <2>1. PICK sent \in BOOLEAN : Transmit(m, sent)
    BY <1>2 DEF Commit
  <2> QED
    BY <1>1, <1>2, <2>1 DEF Commit
<1>3. ASSUME NEW d \in Dispatcher, Dispatch(d) \/ PassThrows(d) PROVE CountersOK'
  <2>1. CASE DispatchOne(d)
    <3>1. PICK held \in pass[d].todo, sent \in BOOLEAN : Transmit(held.message, sent)
      BY <2>1 DEF DispatchOne
    <3>2. held.message \in Message
      BY <2>1 DEF DispatchOne, RecordsOK, Pass, Held
    <3> QED
      BY <2>1, <3>1, <3>2, <1>1 DEF DispatchOne
  <2> QED
    BY <1>3, <2>1 DEF Dispatch, PassBegin, DispatchAnswered, PassThrows, PassEnd
<1>4. ASSUME NEW m \in Message, Receive(m) \/ Lose(m) PROVE CountersOK'
  BY <1>4 DEF Receive, Lose
<1>5. ASSUME NEW m \in Message,
             \/ Send(m) \/ Observe(m) \/ CommitRefused(m) \/ SagaAnswered(m)
             \/ ReplayDeadLetter(m) \/ Consume(m)
      PROVE  CountersOK'
  BY <1>5 DEF Send, Observe, CommitRefused, SagaAnswered, ReplayDeadLetter, Consume
<1>6. CASE Freeze \/ Unfreeze \/ SenderCrash \/ ReceiverCrash
  BY <1>6 DEF Freeze, Unfreeze, SenderCrash, ReceiverCrash
<1>7. CASE UNCHANGED vars
  BY <1>7 DEF vars
<1> QED
  BY <1>2, <1>3, <1>4, <1>5, <1>6, <1>7 DEF Next

-----------------------------------------------------------------------------
\* A call of the transport only adds: calls are counted up to the bound, what
\* has left has left, and the called message has been called.
LEMMA TransmitAdds ==
    ASSUME CountersOK, NEW m \in Message, NEW sent \in BOOLEAN, Transmit(m, sent)
    PROVE  /\ \A n \in Message : calls[n] <= calls'[n]
           /\ \A n \in Message : calls[n] = MaxAttempts => calls'[n] = MaxAttempts
           /\ left \subseteq left'
           /\ sent => m \in left'
           /\ calls'[m] >= 1
           /\ \A a \in 0 .. MaxAttempts - 1 : a <= calls[m] => a + 1 <= calls'[m]
BY DeliveryAssumption DEF Transmit, CountersOK

\* The record a failed call leaves.
LEMMA RetriedRecord ==
    ASSUME NEW a \in 0 .. MaxAttempts - 1
    PROVE  /\ Retried(a) \in Delivery
           /\ Retried(a).attempt = a + 1
           /\ Retried(a).state \in {"retryWait", "deadLettered"}
           /\ Retried(a).state = "deadLettered" => a + 1 = MaxAttempts
           /\ Retried(a).state = "retryWait" => a + 1 < MaxAttempts
BY DeliveryAssumption DEF Retried, Delivery

-----------------------------------------------------------------------------
\* The records of the sender keep their types.
LEMMA RecordsStep == CommsInv /\ [Next]_vars => RecordsOK'
<1> SUFFICES ASSUME RecordsOK, PassEarned, [Next]_vars PROVE RecordsOK'
  BY DEF CommsInv
<1> USE DEF RecordsOK, sender
<1>1. ASSUME NEW m \in Message, Send(m) PROVE RecordsOK'
  BY <1>1, DeliveryAssumption DEF Send, Delivery, Phase
<1>2. ASSUME NEW m \in Message, Observe(m) \/ CommitRefused(m) \/ Commit(m) PROVE RecordsOK'
  BY <1>2 DEF Observe, CommitRefused, Commit, Phase
<1>3. ASSUME NEW m \in Message, SagaAnswered(m) PROVE RecordsOK'
  BY <1>3, DeliveryAssumption DEF SagaAnswered, Delivery, Phase
<1>4. ASSUME NEW m \in Message, ReplayDeadLetter(m) PROVE RecordsOK'
  BY <1>4 DEF ReplayDeadLetter, Delivery
<1>5. ASSUME NEW m \in Message, Lose(m) \/ Receive(m) \/ Consume(m) PROVE RecordsOK'
  BY <1>5 DEF Lose, Receive, Consume
<1>6. ASSUME NEW d \in Dispatcher, PassBegin(d) PROVE RecordsOK'
  <2> DEFINE held == {[message |-> m, state |-> delivery[m].state,
                       attempt |-> delivery[m].attempt] :
                        m \in {n \in Dispatchable : ~Spent(n)}}
             failing == {n \in Dispatchable : Spent(n)}
  <2>1. \A m \in Dispatchable : m \in Message /\ delivery[m] \in Delivery
                                  /\ delivery[m].state \in {"queued", "retryWait"}
    BY DEF Dispatchable
  <2>2. held \subseteq Held
    BY <2>1, DeliveryAssumption DEF Held, Delivery, Spent
  <2>3. [todo |-> held, call |-> None, failed |-> failing] \in Pass
    BY <2>1, <2>2 DEF Pass
  <2> QED
    BY <1>6, <2>3 DEF PassBegin
<1>7. ASSUME NEW d \in Dispatcher, DispatchOne(d) PROVE RecordsOK'
  <2>1. pass[d] \in Pass
    BY <1>7 DEF DispatchOne
  <2>2. PICK held \in pass[d].todo, sent \in BOOLEAN :
          pass' = [pass EXCEPT
             ![d].todo = @ \ {held},
             ![d].call = [message |-> held.message, attempt |-> held.attempt, sent |-> sent]]
    BY <1>7 DEF DispatchOne
  <2>3. [message |-> held.message, attempt |-> held.attempt, sent |-> sent] \in Call
    BY <2>1 DEF Pass, Held, Call
  <2>4. pass'[d] \in Pass
    BY <2>1, <2>2, <2>3 DEF Pass
  <2> QED
    BY <1>7, <2>2, <2>4 DEF DispatchOne
<1>8. ASSUME NEW d \in Dispatcher, DispatchAnswered(d) PROVE RecordsOK'
  <2>1. pass[d] \in Pass /\ pass[d].call \in Call
    BY <1>8 DEF DispatchAnswered, Pass
  <2>2. /\ pass[d].call.message \in Message
        /\ pass[d].call.attempt \in 0 .. MaxAttempts - 1
    BY <2>1 DEF Call
  <2>3. /\ [state |-> "dispatched", attempt |-> pass[d].call.attempt + 1] \in Delivery
        /\ Retried(pass[d].call.attempt) \in Delivery
    BY <2>2, RetriedRecord, DeliveryAssumption DEF Delivery
  <2>4. delivery' \in [Message -> Delivery \cup {None}]
    BY <1>8, <2>2, <2>3 DEF DispatchAnswered
  <2>5. pass'[d] \in Pass
    BY <1>8, <2>1, <2>2 DEF DispatchAnswered, Pass
  <2>6. pass' = [pass EXCEPT ![d] = pass'[d]]
    BY <1>8 DEF DispatchAnswered
  <2> QED
    BY <1>8, <2>4, <2>5, <2>6 DEF DispatchAnswered
<1>9. ASSUME NEW d \in Dispatcher, PassEnd(d) PROVE RecordsOK'
  <2>1. \A m \in pass[d].failed : delivery[m] # None
    BY <1>9 DEF PassEnd, PassEarned
  <2>2. \A m \in Message : delivery[m] # None =>
          [delivery[m] EXCEPT !.state = "deadLettered"] \in Delivery
    BY DEF Delivery
  <2>3. \A done \in SUBSET pass[d].failed :
          Quarantined(done) \in [Message -> Delivery \cup {None}]
    BY <2>1, <2>2 DEF Quarantined
  <2>4. \E done \in SUBSET pass[d].failed : delivery' = Quarantined(done)
    BY <1>9 DEF PassEnd
  <2>5. pass' \in [Dispatcher -> Pass \cup {None}]
    BY <1>9 DEF PassEnd
  <2> QED
    BY <1>9, <2>3, <2>4, <2>5 DEF PassEnd
<1>10. ASSUME NEW d \in Dispatcher, PassThrows(d) PROVE RecordsOK'
  BY <1>10 DEF PassThrows
<1>11. CASE Freeze \/ Unfreeze \/ SenderCrash \/ ReceiverCrash
  BY <1>11 DEF Freeze, Unfreeze, SenderCrash, ReceiverCrash, Phase
<1>12. CASE UNCHANGED vars
  BY <1>12 DEF vars
<1> QED
  BY <1>1, <1>2, <1>3, <1>4, <1>5, <1>6, <1>7, <1>8, <1>9, <1>10, <1>11, <1>12 DEF Next, Dispatch

-----------------------------------------------------------------------------
\* A delivery is never taken out of the store.
LEMMA DeliveryStays ==
    ASSUME RecordsOK, [Next]_vars
    PROVE  \A m \in Message : delivery[m] # None => delivery'[m] # None
<1> SUFFICES ASSUME NEW n \in Message, delivery[n] # None PROVE delivery'[n] # None
  OBVIOUS
<1>1. None \notin Delivery /\ delivery[n] \in Delivery
  BY DeliveryAssumption DEF Delivery, RecordsOK
<1> USE DEF RecordsOK, sender
<1>2. ASSUME NEW m \in Message,
             Send(m) \/ SagaAnswered(m) \/ ReplayDeadLetter(m)
      PROVE  delivery'[n] # None
  <2>1. /\ [state |-> "queued", attempt |-> 0] \in Delivery
        /\ [state |-> "dispatched", attempt |-> 1] \in Delivery
        /\ [delivery[n] EXCEPT !.state = "queued"] \in Delivery
    BY <1>1, DeliveryAssumption DEF Delivery
  <2> QED
    BY <1>1, <1>2, <2>1 DEF Send, SagaAnswered, ReplayDeadLetter
<1>3. ASSUME NEW m \in Message,
             \/ Observe(m) \/ CommitRefused(m) \/ Commit(m)
             \/ Lose(m) \/ Receive(m) \/ Consume(m)
      PROVE  delivery'[n] # None
  BY <1>3 DEF Observe, CommitRefused, Commit, Lose, Receive, Consume
<1>4. ASSUME NEW d \in Dispatcher, DispatchAnswered(d) PROVE delivery'[n] # None
  <2>1. pass[d].call \in Call
    BY <1>4 DEF DispatchAnswered, Pass
  <2>2. pass[d].call.attempt \in 0 .. MaxAttempts - 1
    BY <2>1 DEF Call
  <2>3. /\ [state |-> "dispatched", attempt |-> pass[d].call.attempt + 1] \in Delivery
        /\ Retried(pass[d].call.attempt) \in Delivery
    BY <2>2, RetriedRecord, DeliveryAssumption DEF Delivery
  <2> QED
    BY <1>1, <1>4, <2>3 DEF DispatchAnswered
<1>5. ASSUME NEW d \in Dispatcher, PassEnd(d) PROVE delivery'[n] # None
  <2>1. [delivery[n] EXCEPT !.state = "deadLettered"] \in Delivery
    BY <1>1 DEF Delivery
  <2> QED
    BY <1>1, <1>5, <2>1 DEF PassEnd, Quarantined
<1>6. ASSUME NEW d \in Dispatcher, PassBegin(d) \/ DispatchOne(d) \/ PassThrows(d)
      PROVE  delivery'[n] # None
  BY <1>6 DEF PassBegin, DispatchOne, PassThrows
<1>7. CASE Freeze \/ Unfreeze \/ SenderCrash \/ ReceiverCrash
  BY <1>7 DEF Freeze, Unfreeze, SenderCrash, ReceiverCrash
<1>8. CASE UNCHANGED vars
  BY <1>8 DEF vars
<1> QED
  BY <1>2, <1>3, <1>4, <1>5, <1>6, <1>7, <1>8 DEF Next, Dispatch

\* What was called stays called, what left stays left.
LEMMA CallsStay ==
    ASSUME RecordsOK, CountersOK, [Next]_vars
    PROVE  /\ left \subseteq left'
           /\ \A n \in Message : calls[n] <= calls'[n]
           /\ \A n \in Message : calls[n] = MaxAttempts => calls'[n] = MaxAttempts
<1> USE DEF sender, receiver, history, bounds
<1>1. ASSUME NEW m \in Message, Commit(m)
      PROVE  \E sent \in BOOLEAN : Transmit(m, sent)
  BY <1>1 DEF Commit
<1>2. ASSUME NEW d \in Dispatcher, DispatchOne(d)
      PROVE  \E m \in Message, sent \in BOOLEAN : Transmit(m, sent)
  <2>1. PICK held \in pass[d].todo, sent \in BOOLEAN : Transmit(held.message, sent)
    BY <1>2 DEF DispatchOne
  <2>2. held.message \in Message
    BY <1>2 DEF DispatchOne, RecordsOK, Pass, Held
  <2> QED
    BY <2>1, <2>2
<1>3. CASE \E m \in Message, sent \in BOOLEAN : Transmit(m, sent)
  BY <1>3, TransmitAdds
<1>4. CASE UNCHANGED <<calls, left>>
  BY <1>4 DEF CountersOK
<1>5. ASSUME NEW d \in Dispatcher, Dispatch(d) \/ PassThrows(d), ~DispatchOne(d)
      PROVE  UNCHANGED <<calls, left>>
  BY <1>5 DEF Dispatch, PassBegin, DispatchAnswered, PassThrows, PassEnd
<1>6. ASSUME NEW m \in Message,
             \/ Send(m) \/ Observe(m) \/ CommitRefused(m) \/ SagaAnswered(m)
             \/ ReplayDeadLetter(m) \/ Lose(m) \/ Receive(m) \/ Consume(m)
      PROVE  UNCHANGED <<calls, left>>
  BY <1>6 DEF Send, Observe, CommitRefused, SagaAnswered, ReplayDeadLetter, Lose, Receive, Consume
<1>7. CASE Freeze \/ Unfreeze \/ SenderCrash \/ ReceiverCrash \/ UNCHANGED vars
  BY <1>4, <1>7 DEF Freeze, Unfreeze, SenderCrash, ReceiverCrash, vars
<1> QED
  BY <1>1, <1>2, <1>3, <1>4, <1>5, <1>6, <1>7 DEF Next

-----------------------------------------------------------------------------
\* What the saga, the passes and the records say was earned.
LEMMA SagaEarnedStep == CommsInv /\ [Next]_vars => SagaEarned'
<1> SUFFICES ASSUME RecordsOK, CountersOK, SagaEarned, [Next]_vars PROVE SagaEarned'
  BY DEF CommsInv
<1>1. /\ left \subseteq left'
      /\ \A n \in Message : calls[n] <= calls'[n] /\ calls[n] \in Nat /\ calls'[n] \in Nat
  BY CallsStay, CountersStep, DeliveryAssumption DEF CountersOK
<1> USE DEF SagaEarned, RecordsOK, sender
<1>2. ASSUME NEW m \in Message, Commit(m) PROVE SagaEarned'
  <2>1. PICK sent \in BOOLEAN :
          Transmit(m, sent) /\ saga' = [saga EXCEPT ![m] = IF sent THEN "sent" ELSE "unsent"]
    BY <1>2 DEF Commit
  <2>2. (sent => m \in left') /\ calls'[m] >= 1
    BY <2>1, TransmitAdds
  <2> QED
    BY <1>1, <2>1, <2>2
<1>3. ASSUME NEW m \in Message,
             Send(m) \/ Observe(m) \/ CommitRefused(m) \/ SagaAnswered(m)
      PROVE  SagaEarned'
  BY <1>1, <1>3 DEF Send, Observe, CommitRefused, SagaAnswered
<1>4. CASE saga' = saga
  BY <1>1, <1>4
<1>5. CASE SenderCrash
  BY <1>5 DEF SenderCrash
<1>6. ASSUME NEW m \in Message,
             ReplayDeadLetter(m) \/ Lose(m) \/ Receive(m) \/ Consume(m)
      PROVE  saga' = saga
  BY <1>6 DEF ReplayDeadLetter, Lose, Receive, Consume
<1>7. ASSUME NEW d \in Dispatcher, Dispatch(d) \/ PassThrows(d) PROVE saga' = saga
  BY <1>7 DEF Dispatch, PassBegin, DispatchOne, DispatchAnswered, PassThrows, PassEnd
<1>8. CASE Freeze \/ Unfreeze \/ ReceiverCrash \/ UNCHANGED vars
  BY <1>4, <1>8 DEF Freeze, Unfreeze, ReceiverCrash, vars
<1> QED
  BY <1>2, <1>3, <1>4, <1>5, <1>6, <1>7, <1>8 DEF Next

\* A pass that is left alone stays earned: records are only added to.
LEMMA PassEarnedStep == CommsInv /\ [Next]_vars => PassEarned'
<1> SUFFICES ASSUME RecordsOK, CountersOK, RecordsEarned, PassEarned, [Next]_vars,
                    NEW e \in Dispatcher, pass'[e] # None
             PROVE  /\ \A held \in pass'[e].todo : held.attempt <= calls'[held.message]
                    /\ pass'[e].call # None =>
                         /\ pass'[e].call.attempt + 1 <= calls'[pass'[e].call.message]
                         /\ pass'[e].call.sent => pass'[e].call.message \in left'
                    /\ \A m \in pass'[e].failed : delivery'[m] # None /\ calls'[m] = MaxAttempts
  BY DEF CommsInv, PassEarned
<1>1. /\ left \subseteq left'
      /\ \A n \in Message : calls[n] <= calls'[n] /\ calls[n] \in Nat /\ calls'[n] \in Nat
      /\ \A n \in Message : calls[n] = MaxAttempts => calls'[n] = MaxAttempts
      /\ \A n \in Message : delivery[n] # None => delivery'[n] # None
  BY CallsStay, CountersStep, DeliveryStays, DeliveryAssumption DEF CountersOK
<1>2. CASE pass'[e] = pass[e]
  <2>1. pass[e] \in Pass
    BY <1>2 DEF RecordsOK
  <2>2. \A held \in pass[e].todo : held.message \in Message /\ held.attempt \in Nat
    BY <2>1, DeliveryAssumption DEF Pass, Held
  <2>3. pass[e].call # None => pass[e].call.message \in Message /\ pass[e].call.attempt \in Nat
    BY <2>1, DeliveryAssumption DEF Pass, Call
  <2>4. pass[e].failed \subseteq Message
    BY <2>1 DEF Pass
  <2> QED
    BY <1>1, <1>2, <2>2, <2>3, <2>4 DEF PassEarned
<1>3. CASE PassBegin(e)
  <2>1. \A m \in Dispatchable : m \in Message /\ delivery[m] \in Delivery
    BY DEF Dispatchable, RecordsOK
  <2>2. \A m \in Dispatchable : delivery[m] # None /\ delivery[m].attempt <= calls[m]
    BY DEF Dispatchable, RecordsEarned
  <2>3. \A m \in Dispatchable : Spent(m) => calls[m] = MaxAttempts
    BY <2>1, <2>2, DeliveryAssumption DEF Spent, Delivery, CountersOK
  <2>4. calls' = calls /\ delivery' = delivery
    BY <1>3 DEF PassBegin, history
  <2>5. pass'[e] =
          [todo |-> {[message |-> m, state |-> delivery[m].state, attempt |-> delivery[m].attempt] :
                        m \in {n \in Dispatchable : ~Spent(n)}},
           call |-> None,
           failed |-> {n \in Dispatchable : Spent(n)}]
    BY <1>3 DEF PassBegin, RecordsOK
  <2> QED
    BY <2>2, <2>3, <2>4, <2>5
<1>4. CASE DispatchOne(e)
  <2>1. pass[e] \in Pass
    BY <1>4 DEF DispatchOne, RecordsOK
  <2>2. PICK held \in pass[e].todo, sent \in BOOLEAN :
          /\ Transmit(held.message, sent)
          /\ pass' = [pass EXCEPT
               ![e].todo = @ \ {held},
               ![e].call = [message |-> held.message, attempt |-> held.attempt, sent |-> sent]]
    BY <1>4 DEF DispatchOne
  <2>3. held.message \in Message /\ held.attempt \in 0 .. MaxAttempts - 1
    BY <2>1 DEF Pass, Held
  <2>4. held.attempt <= calls[held.message]
    BY <1>4 DEF DispatchOne, PassEarned
  <2>5. held.attempt + 1 <= calls'[held.message] /\ (sent => held.message \in left')
    BY <2>2, <2>3, <2>4, TransmitAdds, DeliveryAssumption
  <2>6. /\ pass'[e].todo = pass[e].todo \ {held}
        /\ pass'[e].call = [message |-> held.message, attempt |-> held.attempt, sent |-> sent]
        /\ pass'[e].failed = pass[e].failed
    BY <2>1, <2>2 DEF RecordsOK, Pass
  <2>7. \A other \in pass[e].todo : other.attempt <= calls'[other.message]
    <3>1. \A other \in pass[e].todo : other.message \in Message /\ other.attempt \in Nat
      BY <2>1, DeliveryAssumption DEF Pass, Held
    <3>2. \A other \in pass[e].todo : other.attempt <= calls[other.message]
      BY <1>4 DEF DispatchOne, PassEarned
    <3> QED
      BY <1>1, <3>1, <3>2
  <2>8. \A m \in pass[e].failed : delivery'[m] # None /\ calls'[m] = MaxAttempts
    BY <1>1, <1>4, <2>1 DEF DispatchOne, PassEarned, Pass
  <2> QED
    BY <2>5, <2>6, <2>7, <2>8
<1>5. CASE DispatchAnswered(e)
  <2> DEFINE m == pass[e].call.message
             a == pass[e].call.attempt
  <2>1. pass[e] \in Pass /\ pass[e].call \in Call
    BY <1>5 DEF DispatchAnswered, RecordsOK, Pass
  <2>2. m \in Message /\ a \in 0 .. MaxAttempts - 1
    BY <2>1 DEF Call
  <2>3. a + 1 <= calls[m]
    BY <1>5 DEF DispatchAnswered, PassEarned
  <2>4. calls' = calls
    BY <1>5 DEF DispatchAnswered, history
  <2>5. /\ pass'[e].todo = pass[e].todo
        /\ pass'[e].call = None
        /\ \/ pass'[e].failed = pass[e].failed
           \/ /\ delivery' = [delivery EXCEPT ![m] = Retried(a)]
              /\ pass'[e].failed =
                   IF delivery'[m].state = "deadLettered" THEN pass[e].failed \cup {m}
                   ELSE pass[e].failed
    BY <1>5, <2>1 DEF DispatchAnswered, RecordsOK, Pass
  <2>6. ASSUME delivery' = [delivery EXCEPT ![m] = Retried(a)],
               delivery'[m].state = "deadLettered"
        PROVE  delivery'[m] # None /\ calls'[m] = MaxAttempts
    <3>1. delivery'[m] = Retried(a)
      BY <2>2, <2>6 DEF RecordsOK
    <3>2. Retried(a) \in Delivery /\ a + 1 = MaxAttempts
      BY <2>2, <2>6, <3>1, RetriedRecord
    <3> QED
      BY <2>2, <2>3, <2>4, <3>1, <3>2, DeliveryAssumption DEF Delivery, CountersOK
  <2>7. \A held \in pass[e].todo : held.attempt <= calls'[held.message]
    BY <1>5, <2>4 DEF DispatchAnswered, PassEarned
  <2>8. \A n \in pass[e].failed : delivery'[n] # None /\ calls'[n] = MaxAttempts
    BY <1>1, <1>5, <2>1 DEF DispatchAnswered, PassEarned, Pass
  <2> QED
    BY <2>5, <2>6, <2>7, <2>8
<1>6. CASE PassEnd(e) \/ PassThrows(e) \/ SenderCrash
  BY <1>6 DEF PassEnd, PassThrows, SenderCrash, RecordsOK
<1>7. ASSUME NEW d \in Dispatcher, d # e, Dispatch(d) \/ PassThrows(d) PROVE pass'[e] = pass[e]
  BY <1>7 DEF Dispatch, PassBegin, DispatchOne, DispatchAnswered, PassThrows, PassEnd, RecordsOK
<1>8. ASSUME NEW m \in Message,
             \/ Send(m) \/ Observe(m) \/ CommitRefused(m) \/ Commit(m) \/ SagaAnswered(m)
             \/ ReplayDeadLetter(m) \/ Lose(m) \/ Receive(m) \/ Consume(m)
      PROVE  pass' = pass
  BY <1>8 DEF Send, Observe, CommitRefused, Commit, SagaAnswered, ReplayDeadLetter, Lose,
              Receive, Consume, sender
<1>9. CASE Freeze \/ Unfreeze \/ ReceiverCrash \/ UNCHANGED vars
  BY <1>2, <1>9 DEF Freeze, Unfreeze, ReceiverCrash, vars, sender
<1> QED
  BY <1>2, <1>3, <1>4, <1>5, <1>6, <1>7, <1>8, <1>9 DEF Next, Dispatch

\* The two properties of one record; a record that is not written keeps them.
Earned(m, r) ==
    /\ r.state = "dispatched" => m \in left'
    /\ r.state = "deadLettered" => calls'[m] = MaxAttempts
    /\ r.attempt <= calls'[m]

Alive(m, r) ==
    m \notin reopened' /\ r.state \in {"queued", "retryWait"} => r.attempt < MaxAttempts

\* Every record after a step is the record before it, or one the step wrote.
LEMMA WrittenRecords ==
    ASSUME CommsInv, [Next]_vars, NEW m \in Message, delivery'[m] # None
    PROVE  Earned(m, delivery'[m]) /\ Alive(m, delivery'[m])
<1>1. RecordsOK /\ CountersOK
  BY DEF CommsInv
<1>2. /\ left \subseteq left'
      /\ \A n \in Message : calls[n] <= calls'[n] /\ calls[n] \in Nat /\ calls'[n] \in Nat
      /\ \A n \in Message : calls[n] = MaxAttempts => calls'[n] = MaxAttempts
  BY <1>1, CallsStay, CountersStep, DeliveryAssumption DEF CountersOK
<1>3. reopened \subseteq reopened'
  BY DEF Next, vars, history, Send, Observe, CommitRefused, Commit, SagaAnswered, ReplayDeadLetter,
         Lose, Receive, Consume, Dispatch, PassBegin, DispatchOne, DispatchAnswered, PassThrows,
         PassEnd, Freeze, Unfreeze, SenderCrash, ReceiverCrash
<1>4. CASE delivery'[m] = delivery[m]
  <2>1. delivery[m] \in Delivery
    BY <1>1, <1>4 DEF RecordsOK
  <2>2. Earned(m, delivery[m])
    BY <1>2, <1>4, <2>1, DeliveryAssumption DEF Earned, Delivery, CommsInv, RecordsEarned
  <2>3. Alive(m, delivery[m])
    BY <1>3, <1>4, <2>1, DeliveryAssumption DEF Alive, Delivery, CommsInv, WaitingIsAlive, Spent
  <2> QED
    BY <1>4, <2>2, <2>3
<1>5. ASSUME NEW n \in Message, Send(n), delivery'[m] # delivery[m]
      PROVE  Earned(m, delivery'[m]) /\ Alive(m, delivery'[m])
  <2>1. delivery'[m] = [state |-> "queued", attempt |-> 0]
    BY <1>1, <1>5 DEF Send, RecordsOK
  <2> QED
    BY <1>2, <2>1, DeliveryAssumption DEF Earned, Alive
<1>6. ASSUME NEW n \in Message, SagaAnswered(n), delivery'[m] # delivery[m]
      PROVE  Earned(m, delivery'[m]) /\ Alive(m, delivery'[m])
  <2>1. m = n /\ delivery'[m] = [state |-> "dispatched", attempt |-> 1] /\ saga[n] = "sent"
    BY <1>1, <1>6 DEF SagaAnswered, RecordsOK
  <2>2. m \in left' /\ 1 <= calls'[m]
    BY <1>2, <2>1 DEF CommsInv, SagaEarned
  <2> QED
    BY <2>1, <2>2 DEF Earned, Alive
<1>7. ASSUME NEW n \in Message, ReplayDeadLetter(n), delivery'[m] # delivery[m]
      PROVE  Earned(m, delivery'[m]) /\ Alive(m, delivery'[m])
  <2>1. m = n /\ delivery[m] \in Delivery /\ delivery'[m] = [delivery[m] EXCEPT !.state = "queued"]
    BY <1>1, <1>7 DEF ReplayDeadLetter, RecordsOK
  <2>2. m \in reopened'
    BY <1>7, <2>1 DEF ReplayDeadLetter
  <2>3. delivery[m].attempt <= calls'[m]
    BY <1>2, <1>7, <2>1, DeliveryAssumption DEF ReplayDeadLetter, CommsInv, RecordsEarned, Delivery
  <2> QED
    BY <2>1, <2>2, <2>3 DEF Earned, Alive, Delivery
<1>8. ASSUME NEW d \in Dispatcher, DispatchAnswered(d), delivery'[m] # delivery[m]
      PROVE  Earned(m, delivery'[m]) /\ Alive(m, delivery'[m])
  <2> DEFINE n == pass[d].call.message
             a == pass[d].call.attempt
  <2>1. pass[d] # None /\ pass[d].call # None /\ pass[d].call \in Call
    BY <1>1, <1>8 DEF DispatchAnswered, RecordsOK, Pass
  <2>2. n \in Message /\ a \in 0 .. MaxAttempts - 1
    BY <2>1 DEF Call
  <2>3. a + 1 <= calls'[n] /\ (pass[d].call.sent => n \in left')
    BY <1>2, <2>1, <2>2, DeliveryAssumption DEF CommsInv, PassEarned
  <2>4. m = n
    BY <1>1, <1>8, <2>2 DEF DispatchAnswered, RecordsOK
  <2>5. CASE pass[d].call.sent /\ delivery'[m] = [state |-> "dispatched", attempt |-> a + 1]
    BY <2>3, <2>4, <2>5 DEF Earned, Alive
  <2>6. CASE delivery'[m] = Retried(a)
    <3>1. calls'[m] <= MaxAttempts
      BY <1>1, CountersStep DEF CountersOK
    <3>2. /\ Retried(a).attempt = a + 1
          /\ Retried(a).state \in {"retryWait", "deadLettered"}
          /\ Retried(a).state = "deadLettered" => a + 1 = MaxAttempts
          /\ Retried(a).state = "retryWait" => a + 1 < MaxAttempts
      BY <2>2, RetriedRecord
    <3> QED
      BY <1>2, <2>2, <2>3, <2>4, <2>6, <3>1, <3>2, DeliveryAssumption DEF Earned, Alive
  <2> QED
    BY <1>1, <1>8, <2>2, <2>4, <2>5, <2>6 DEF DispatchAnswered, RecordsOK
<1>9. ASSUME NEW d \in Dispatcher, PassEnd(d), delivery'[m] # delivery[m]
      PROVE  Earned(m, delivery'[m]) /\ Alive(m, delivery'[m])
  <2>0. PICK done : done \subseteq pass[d].failed /\ delivery' = Quarantined(done)
    BY <1>9 DEF PassEnd
  <2>5. delivery'[m] = IF m \in done THEN [delivery[m] EXCEPT !.state = "deadLettered"]
                      ELSE delivery[m]
    BY <2>0 DEF Quarantined
  <2>1. m \in pass[d].failed /\ delivery'[m] = [delivery[m] EXCEPT !.state = "deadLettered"]
    BY <1>9, <2>0, <2>5
  <2>2. delivery[m] # None /\ calls[m] = MaxAttempts
    BY <1>9, <2>1 DEF PassEnd, CommsInv, PassEarned
  <2>3. delivery[m] \in Delivery
    BY <1>1, <2>2 DEF RecordsOK
  <2>4. delivery[m].attempt <= calls'[m]
    BY <1>2, <2>2, <2>3, DeliveryAssumption DEF CommsInv, RecordsEarned, Delivery
  <2> QED
    BY <1>2, <2>1, <2>2, <2>3, <2>4 DEF Earned, Alive, Delivery
<1>10. ASSUME NEW n \in Message,
              \/ Observe(n) \/ CommitRefused(n) \/ Commit(n)
              \/ Lose(n) \/ Receive(n) \/ Consume(n)
       PROVE  delivery' = delivery
  BY <1>10 DEF Observe, CommitRefused, Commit, Lose, Receive, Consume, sender
<1>11. ASSUME NEW d \in Dispatcher, PassBegin(d) \/ DispatchOne(d) \/ PassThrows(d)
       PROVE  delivery' = delivery
  BY <1>11 DEF PassBegin, DispatchOne, PassThrows
<1>12. CASE Freeze \/ Unfreeze \/ SenderCrash \/ ReceiverCrash \/ UNCHANGED vars
  BY <1>4, <1>12 DEF Freeze, Unfreeze, SenderCrash, ReceiverCrash, vars, sender
<1> QED
  BY <1>4, <1>5, <1>6, <1>7, <1>8, <1>9, <1>10, <1>11, <1>12 DEF Next, Dispatch

\* Every step of the communications keeps the invariant.
LEMMA CommsStep == CommsInv /\ [Next]_vars => CommsInv'
<1> SUFFICES ASSUME CommsInv, [Next]_vars PROVE CommsInv'
  OBVIOUS
<1>1. RecordsOK' /\ CountersOK' /\ SetsOK' /\ Claims'
  BY RecordsStep, CountersStep, ReceiverStep DEF CommsInv
<1>2. PassEarned' /\ SagaEarned'
  BY PassEarnedStep, SagaEarnedStep
<1>3. RecordsEarned'
  BY WrittenRecords DEF RecordsEarned, Earned
<1>4. WaitingIsAlive'
  <2> SUFFICES ASSUME NEW m \in Message, m \notin reopened', delivery'[m] # None,
                      delivery'[m].state \in {"queued", "retryWait"}
               PROVE  ~(delivery'[m].attempt >= MaxAttempts)
    BY DEF WaitingIsAlive, Spent
  <2>1. delivery'[m].attempt < MaxAttempts
    BY WrittenRecords DEF Alive
  <2>2. delivery'[m] \in Delivery
    BY <1>1 DEF RecordsOK
  <2> QED
    BY <2>1, <2>2, DeliveryAssumption DEF Delivery
<1> QED
  BY <1>1, <1>2, <1>3, <1>4 DEF CommsInv

\* So it holds of every run.
LEMMA CommsInvariant == CommsSpec => []CommsInv
BY CommsInit, CommsStep, PTL DEF CommsSpec

-----------------------------------------------------------------------------
\* The variables keep their types (the stop is Boolean in every state).
THEOREM CommsTypes == CommsSpec => []TypeOK
<1>1. Init => StopOK
  BY Zenon DEF Init, StopOK
<1>2. StopOK /\ [Next]_vars => StopOK'
  <2> SUFFICES ASSUME frozen \in BOOLEAN, [Next]_vars PROVE frozen' \in BOOLEAN
    BY DEF StopOK
  <2>1. CASE Freeze
    BY <2>1, Zenon DEF Freeze
  <2>2. CASE Unfreeze
    BY <2>2, Zenon DEF Unfreeze
  <2>3. CASE frozen' = frozen
    BY <2>3, Zenon
  <2>4. ASSUME ~Freeze, ~Unfreeze PROVE frozen' = frozen
    BY <2>4 DEF Next, vars, Send, Observe, CommitRefused, Commit, SagaAnswered, ReplayDeadLetter,
           Lose, Receive, Consume, Dispatch, PassBegin, DispatchOne, DispatchAnswered, PassThrows,
           PassEnd, SenderCrash, ReceiverCrash
  <2> QED
    BY <2>1, <2>2, <2>3, <2>4, Zenon
<1>3. CommsInv /\ StopOK => TypeOK
  BY TypeParts DEF CommsInv
<1> QED
  BY <1>1, <1>2, <1>3, CommsInvariant, PTL DEF CommsSpec

\* A message is consumed at most once.
THEOREM ConsumptionAtMostOnce == CommsSpec => []ConsumedOnce
<1>1. CommsInv => ConsumedOnce
  BY DEF CommsInv, Claims, ConsumedOnce
<1> QED
  BY <1>1, CommsInvariant, PTL

\* No record of the outbox claims more than was done.
THEOREM RecordsAreEarned == CommsSpec => []RecordsEarned
<1>1. CommsInv => RecordsEarned
  BY DEF CommsInv
<1> QED
  BY <1>1, CommsInvariant, PTL

\* A waiting delivery can still be dispatched, unless it is a replayed dead
\* letter.
THEOREM WaitingHasAttempts == CommsSpec => []WaitingIsAlive
<1>1. CommsInv => WaitingIsAlive
  BY DEF CommsInv
<1> QED
  BY <1>1, CommsInvariant, PTL
=============================================================================
