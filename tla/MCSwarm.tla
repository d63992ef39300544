------------------------------ MODULE MCSwarm ------------------------------
EXTENDS SwarmSupervisor

CONSTANTS a1, a2, a3

MCAgent == {a1, a2, a3}

\* a2 waits for a3, whose manifest is missing.
FanIn == [a \in MCAgent |-> IF a = a2 THEN {a3} ELSE {}]
OneBad == {a3}
Waiting == {a2}
=============================================================================
