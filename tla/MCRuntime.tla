----------------------------- MODULE MCRuntime -----------------------------
(* Small instances of the coordination runtime for TLC.                    *)
EXTENDS RuntimeProperties

CONSTANTS a1, a2, t1, p1, p2

MCActor == {a1, a2}
MCArtifact == {t1}
OneFounder == {a1}
MCProc == {p1, p2}
OneProc == {p1}

Intent(kind, from) ==
    [kind |-> kind, from |-> from, to |-> None, participant |-> None,
     task |-> None, capability |-> None, session |-> 0]

Transcript == Intent("commit_transcript", a1)
Introduce == [Intent("introduce_artifact", a1) EXCEPT !.task = t1]

\* One operation the canonical comparison does not see, and one that the world
\* refuses to repeat and that may fail for its content; both of one actor, so
\* that they contend for its locks.
ContendedOps == {Transcript, Introduce}
=============================================================================
