---------------------------- MODULE DurableStore ----------------------------
(***************************************************************************)
(* What a durable coordinator promises to the processes that share it      *)
(* (runtime/src/ports/durableCoordinator.ts): one head, a log of changes   *)
(* and the active binding, replaced together by one writer at a time; who  *)
(* was superseded as the writer writes no more.  Nothing here knows of     *)
(* keys, versions, requests or answers.                                    *)
(***************************************************************************)
EXTENDS Naturals, Sequences

CONSTANTS
    Writer,     \* the tokens writers are told apart by
    Nobody      \* not one of them

VARIABLES
    head,       \* the current snapshot
    log,        \* the changes, each with the snapshots before and after it
    bound,      \* the snapshot the active binding was stored with
    writer      \* the writer of this moment, or Nobody

vars == <<head, log, bound, writer>>

\* A snapshot names the writer that made it and the snapshot it was made from.
Absent == [by |-> Nobody, n |-> 0, base |-> 0]

Genesis == [by |-> Nobody, n |-> 1, base |-> 0]

Init ==
    /\ head = Absent
    /\ log = << >>
    /\ bound = Absent
    /\ writer = Nobody

Seed == head = Absent /\ head' = Genesis /\ UNCHANGED <<log, bound, writer>>

\* The last to open is the writer; a lease that runs out leaves none.
Open == writer' \in Writer /\ UNCHANGED <<head, log, bound>>

Lapse == writer' = Nobody /\ UNCHANGED <<head, log, bound>>

\* A snapshot the writer made from the one it replaces.
NewHead ==
    /\ writer # Nobody
    /\ head # Absent
    /\ head'.by = writer
    /\ head'.base = head.n

Commit ==
    /\ NewHead
    /\ log' = Append(log, [before |-> head, after |-> head'])
    /\ UNCHANGED <<bound, writer>>

\* An observation, or an epoch with its binding.
Swap ==
    /\ NewHead
    /\ bound' \in {bound, head'}
    /\ UNCHANGED <<log, writer>>

Next == Seed \/ Open \/ Lapse \/ Commit \/ Swap

Spec == Init /\ [][Next]_vars
=============================================================================
