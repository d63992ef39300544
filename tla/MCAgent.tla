------------------------------ MODULE MCAgent ------------------------------
EXTENDS ToolLedger

CONSTANTS c1, c2, c3, c4, edit, write, read

Calls == {c1, c2, c3, c4}
Requests == {edit, write, read}

\* Two identifiers for one edit, one for a write and one for a read.
Subjects == [c \in Calls |-> IF c = c3 THEN write ELSE IF c = c4 THEN read ELSE edit]

Tiers == [r \in Requests |->
            IF r = edit THEN "non-idempotent" ELSE IF r = write THEN "idempotent" ELSE "read"]
=============================================================================
