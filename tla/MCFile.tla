-------------------------------- MODULE MCFile --------------------------------
(* A small instance of the file store: two processes on one directory.     *)
EXTENDS FileStore

CONSTANTS p1, p2

MCProc == {p1, p2}

ProcSymmetry == Permutations(MCProc)
=============================================================================
