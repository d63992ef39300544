------------------------------ MODULE MCEpoch ------------------------------
(* Small instances of the runtime with epoch administration for TLC.        *)
EXTENDS EpochRuntime, TLC

CONSTANTS a1, a2, t1, p1, p2, s1, s2

MCActor == {a1, a2}
MCArtifact == {t1}
MCFounder == {a1, a2}
MCProc == {p1, p2}
OneProc == {p1}
NoProc == {}
OneAdmission == {s1}

Intent(kind, from) ==
    [kind |-> kind, from |-> from, to |-> None, participant |-> None,
     task |-> None, capability |-> None, session |-> 0]

\* Invisible to the canonical comparison of snapshots.
Transcript == Intent("commit_transcript", a1)
Done == Intent("signal_done", a2)

CommitOps == {Transcript, Done}
OneOp == {Transcript}

ProcSymmetry == Permutations(MCProc)
=============================================================================
