------------------------------- MODULE MCRaft -------------------------------
(* A small instance of the etcd store: two processes.                      *)
EXTENDS RaftStore, TLC

CONSTANTS p1, p2

MCProc == {p1, p2}

ProcSymmetry == Permutations(MCProc)
=============================================================================
