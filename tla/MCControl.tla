----------------------------- MODULE MCControl -----------------------------
(* A small instance of the control plane above two runtime processes.      *)
EXTENDS ControlPlane, TLC

CONSTANTS a1, a2, t1, p1, p2, s1, s2, s3

MCActor == {a1, a2}
MCArtifact == {t1}
MCProc == {p1, p2}
NoProc == {}
MCAdmission == {s1, s2, s3}
MCManaged == {s1}
NoOps == {}

OtherSymmetry == Permutations(MCAdmission \ MCManaged)
=============================================================================
