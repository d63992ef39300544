----------------------------- MODULE ChangeFeed -----------------------------
(***************************************************************************)
(* Reading the change log: which hops between two stored snapshots need no *)
(* change (codec/observationBridge.ts), the feed after a cursor            *)
(* (DurableCoordinator.since) and replay (execution/replayVerifier.ts).    *)
(*                                                                         *)
(* A history h is the sequence of stored snapshots; a snapshot ref is a    *)
(* position in it, the last one being the head.  A log l is the sequence   *)
(* of committed changes, each naming the refs before and after it.         *)
(***************************************************************************)
EXTENDS CollaborationWorld

Prefix(s, t) == Len(s) <= Len(t) /\ s = SubSeq(t, 1, Len(s))

\* snapshotsCanonicallyEqual: everything but the ref and the transcripts.
CanonicallyEqual(v, w) == [v EXCEPT !.transcript = w.transcript] = w

\* The audit entries `to` has beyond the length of `from`, appended to `from`.
ReplayObservations(from, to) ==
    [from EXCEPT !.audit = @ \o SubSeq(to.audit, Len(@) + 1, Len(to.audit))]

ObservationOnlyAdvance(from, to) ==
    /\ Len(to.audit) > Len(from.audit)
    /\ CanonicallyEqual(ReplayObservations(from, to), to)

EpochOnlyAdvance(from, to) ==
    /\ from.epoch # to.epoch
    /\ CanonicallyEqual(from, WithEpoch(to, from.epoch))

ObservationAndEpochOnlyAdvance(from, to) ==
    /\ from.epoch # to.epoch
    /\ Len(to.audit) > Len(from.audit)
    /\ CanonicallyEqual(WithEpoch(ReplayObservations(from, to), to.epoch), to)

\* Variant: observations or an activation, but not both.
AdvanceOfOneKind(from, to) ==
    \/ ObservationOnlyAdvance(from, to)
    \/ EpochOnlyAdvance(from, to)

VerifiableUnloggedAdvance(from, to) ==
    \/ ObservationOnlyAdvance(from, to)
    \/ EpochOnlyAdvance(from, to)
    \/ ObservationAndEpochOnlyAdvance(from, to)

\* The rule this one replaced: the before-ref is the previous after-ref.
BridgesByRefOnly(h, after, before) == before = after

\* changeContinuesChain, over the refs of the two changes.
Bridges(h, after, before) ==
    before = after \/ VerifiableUnloggedAdvance(h[after], h[before])

-----------------------------------------------------------------------------
(* The feed.                                                               *)

Least(S) == CHOOSE i \in S : \A j \in S : i <= j

SuffixFrom(l, i) == SubSeq(l, i, Len(l))

\* The feed stops looking once the change that produced the cursor is passed.
SinceWithoutBridge(h, l, cursor) ==
    LET direct == {i \in 1..Len(l) : l[i].before = cursor}
    IN  IF direct # {} THEN SuffixFrom(l, Least(direct)) ELSE << >>

\* The changes from the first one whose before-ref is the cursor or, failing
\* that, from the first one after the cursor's own change whose before
\* snapshot the cursor's snapshot reaches without a change.
Since(h, l, cursor) ==
    LET direct  == {i \in 1..Len(l) : l[i].before = cursor}
        anchor  == {i \in 1..Len(l) : l[i].after = cursor}
        bridged == {i \in 1..Len(l) :
                       /\ \A a \in anchor : i > a
                       /\ VerifiableUnloggedAdvance(h[cursor], h[l[i].before])}
    IN  IF direct # {} THEN SuffixFrom(l, Least(direct))
        ELSE IF bridged # {} THEN SuffixFrom(l, Least(bridged))
        ELSE << >>

\* What a reader of the feed is owed: every change committed on top of the
\* cursor's snapshot or a later one, and no other.
CommittedAfter(l, cursor) == SelectSeq(l, LAMBDA c : c.before >= cursor)

-----------------------------------------------------------------------------
(* Replay.                                                                 *)

\* replayOneChange recomputes a change from its recipe on the running state.
RecomputesFrom(h, state, c) ==
    /\ state = c.before
    /\ h[state].epoch = c.epoch
    /\ HandlerAccepts(h[state], c.op)
    /\ Integrity(Apply(h[state], c.op))
    /\ CanonicallyEqual(Apply(h[state], c.op), h[c.after])

\* The states verify goes through; 0 stands for a violation.
ReplayStates(h, feed, from) ==
    LET state[i \in 0..Len(feed)] ==
          IF i = 0 THEN from
          ELSE LET c == feed[i] IN
               IF /\ state[i - 1] # 0
                  /\ Bridges(h, state[i - 1], c.before)
                  /\ RecomputesFrom(h, c.before, c)
               THEN c.after ELSE 0
    IN  state

\* The state verify ends in.
ReplayState(h, feed, from) == ReplayStates(h, feed, from)[Len(feed)]

ChainValid(h, feed) == \A i \in 2..Len(feed) : Bridges(h, feed[i - 1].after, feed[i].before)

\* verifyResolved from a ref over the feed that follows it.
ReplaySucceeds(h, l, from) ==
    LET feed == Since(h, l, from)
    IN  ChainValid(h, feed) /\ ReplayState(h, feed, from) # 0
=============================================================================
