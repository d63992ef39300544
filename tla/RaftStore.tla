------------------------------ MODULE RaftStore ------------------------------
(***************************************************************************)
(* The durable coordinator and the lock table over etcd                    *)
(* (runtime/src/memory/raftDurableCoordinator.ts, raftResourceLockTable.ts *)
(* and etcdRaftKv.ts).  A call is a sequence of requests, each served      *)
(* atomically, and another process's requests come between any two of      *)
(* them; only the transaction at the end compares and writes at once.      *)
(*                                                                         *)
(* A request is posted to a worker thread, and the caller takes the first  *)
(* answer in the port.  A request that takes too long makes the call throw *)
(* and stays under way: it may be served any time later, or after the      *)
(* process died, and its answer then stays in the port, so that every      *)
(* later request of that client is answered with an earlier one's answer.  *)
(*                                                                         *)
(* Left out: the TTL of a lock (CoordinationRuntime has it); the reads     *)
(* head(), get(), changes() and since() and the look at what made a commit *)
(* fail, which write nothing; time, and with it refreshLease: a fencing    *)
(* lease may lapse at any moment.  A change's id and the ref of its        *)
(* snapshot are one name.                                                  *)
(***************************************************************************)
EXTENDS Naturals, Sequences, FiniteSets, FiniteSetsExt

CONSTANTS
    Proc,           \* the processes
    None,
    MaxLives,       \* bound: clients a process opens, one after the other
    MaxCalls,       \* bound: calls made by all of them
    MaxRounds       \* rounds of compare-and-swap on the lock table (16)

ASSUME RaftAssumption ==
    /\ None \notin Proc
    /\ {MaxLives, MaxCalls, MaxRounds} \subseteq Nat

VARIABLES
    kv,         \* the keys
    call,       \* call[p]: the call p is in, and how far it is
    late,       \* late[p]: answers in p's port that nobody took
    sent,       \* sent[p]: a request given up on, and not served yet: one at most
    life,       \* life[p]: the client p has open
    misled,     \* the clients that took an answer to an earlier request
    told,       \* the snapshots whose call was answered with success
    held,       \* held[p]: the lock p was told it has
    calls

store == <<kv, misled, told, held>>

vars == <<kv, call, late, sent, life, misled, told, held, calls>>

-----------------------------------------------------------------------------
Token(p, n) == [owner |-> p, token |-> n]

Nobody == Token(None, 0)

\* A snapshot, by the client that made it, and the snapshot it was made from;
\* or an admission, by the client it was made to.
Name(w, n, base) == [by |-> w, n |-> n, base |-> base]

Absent == Name(Nobody, 0, 0)

Genesis == Name(Nobody, 1, 0)

EmptyStore ==
    [lease |-> Nobody, leaseVersion |-> 0,
     head |-> Absent, stored |-> {}, bound |-> Absent,
     changes |-> << >>,                          \* changes/<number>
     seq |-> 0, seqVersion |-> 0,
     locks |-> {}, locksVersion |-> 0]

\* What the code makes of a number that is none.
NaN == 0

Idle == [op |-> "idle"]

Down == [op |-> "down"]

Writes == {"commit", "observe", "activate"}

Locking == {"acquire", "release", "isHeld"}

Init ==
    /\ kv = EmptyStore
    /\ call = [p \in Proc |-> Down]
    /\ late = [p \in Proc |-> << >>]
    /\ sent = [p \in Proc |-> None]
    /\ life = [p \in Proc |-> 0]
    /\ misled = {}
    /\ told = {}
    /\ held = [p \in Proc |-> Absent]
    /\ calls = 0

-----------------------------------------------------------------------------
(* The store's side: requests and their answers.                           *)

Nothing == [key |-> "none", value |-> Absent, version |-> 0, succeeded |-> FALSE]

Found(key, value, version) ==
    [key |-> key, value |-> value, version |-> version, succeeded |-> FALSE]

Done(ok) == [Nothing EXCEPT !.succeeded = ok]

\* The last one by its key: NaN comes after every number.
LastChange(s) ==
    s.changes[IF NaN \in DOMAIN s.changes THEN NaN ELSE Max(DOMAIN s.changes)]

\* What a get of `key` finds; of a snapshot, by `name`.
Read(s, key, name) ==
    CASE key = "lease" /\ s.lease # Nobody -> Found(key, s.lease, s.leaseVersion)
      [] key = "head" /\ s.head # Absent -> Found(key, s.head, 1)
      [] key = "changes" /\ s.changes # << >> -> Found(key, LastChange(s).after, 1)
      [] key = "snapshot" /\ name \in s.stored -> Found(key, name, 1)
      [] key = "seq" /\ s.seqVersion > 0 -> Found(key, s.seq, s.seqVersion)
      [] key = "locks" /\ s.locksVersion > 0 -> Found(key, s.locks, s.locksVersion)
      [] OTHER -> Nothing

\* Variant: the transaction trusts the lease read before it.
HeadOnly(s, r) == s.head = r.expected

\* The compares of every write: the lease is the caller's, the head as expected.
WriterAndHead(s, r) == s.lease = r.by /\ s.head = r.expected

CommitCompares(s, r) ==
    /\ WriterAndHead(s, r)
    /\ r.ref \notin s.stored
    /\ s.seqVersion = r.version

Committed(s, r) ==
    [s EXCEPT !.stored = @ \cup {r.ref},
              !.changes = [i \in DOMAIN @ \cup {r.seq} |->
                              IF i = r.seq THEN [before |-> r.expected, after |-> r.ref]
                              ELSE @[i]],
              !.head = r.ref,
              !.seq = r.seq,
              !.seqVersion = @ + 1]

Swapped(s, r) ==
    [s EXCEPT !.stored = @ \cup {r.ref},
              !.head = r.ref,
              !.bound = IF r.op = "activate" THEN r.ref ELSE @]

Owned(s, r) ==
    [s EXCEPT !.lease = r.by, !.leaseVersion = @ + 1]

Seeded(s) == [s EXCEPT !.stored = @ \cup {Genesis}, !.head = Genesis]

\* Variant: the table is put whatever its version is.
LocksStoredAnyway(s, r) == TRUE

LocksCompare(s, r) == s.locksVersion = r.version

\* A transaction: whether its compares hold, and what it writes then.
Txn(s, r) ==
    CASE r.op = "commit" -> <<CommitCompares(s, r), Committed(s, r)>>
      [] r.op \in Writes \ {"commit"} -> <<WriterAndHead(s, r), Swapped(s, r)>>
      [] r.op = "own" -> <<TRUE, Owned(s, r)>>
      [] r.op = "seed" -> <<s.head = Absent, Seeded(s)>>
      [] r.op = "locks" ->
            <<LocksCompare(s, r), [s EXCEPT !.locks = r.locks, !.locksVersion = @ + 1]>>

\* Served: the store afterwards and the answer.
Serve(s, r) ==
    IF r.op = "get" THEN <<s, Read(s, r.key, r.name)>>
    ELSE IF Txn(s, r)[1] THEN <<Txn(s, r)[2], Done(TRUE)>>
    ELSE <<s, Done(FALSE)>>

-----------------------------------------------------------------------------
(* The client's side: which request comes next, and what its answer does.  *)

Get(key, name) == [op |-> "get", key |-> key, name |-> name]

WriteRequest(c) ==
    [op |-> c.op, by |-> c.ref.by, expected |-> c.expected, ref |-> c.ref,
     version |-> c.version, seq |-> c.seq]

\* The lock table as the call would leave it.
TableAfter(c) ==
    CASE c.op = "acquire" -> IF c.view = {} THEN {c.ref} ELSE c.view
      [] c.op = "release" -> c.view \ {c.ref}
      [] c.op = "isHeld" -> c.view

Request(c) ==
    CASE c.at \in {"lease", "head", "changes", "seq", "locks"} -> Get(c.at, Absent)
      [] c.at = "from" -> Get("snapshot", c.last)
      [] c.at = "to" -> Get("snapshot", c.expected)
      [] c.at = "after" -> Get("snapshot", c.ref)
      [] c.at = "write" -> WriteRequest(c)
      [] c.at = "own" -> [op |-> "own", by |-> c.ref.by]
      [] c.at = "seed" -> [op |-> "seed"]
      [] c.at = "putLocks" -> [op |-> "locks", version |-> c.version, locks |-> TableAfter(c)]

At(c, at) == [c EXCEPT !.at = at]

IsOwned(c, got) == got.key = "lease" /\ got.value = c.ref.by

\* The caller's own snapshot comes after the last change, or after heads that
\* left none.
AfterChanges(c, got) ==
    CASE got.key = "none" -> At(c, "after")
      [] got.key = "changes" /\ got.value = c.expected -> At(c, "after")
      [] got.key = "changes" /\ got.value # c.expected ->
            [c EXCEPT !.at = "from", !.last = got.value]
      [] OTHER -> Idle

IsSnapshot(got, name) == got.key = "snapshot" /\ got.value = name

\* A value of another key has no number: the change would be stored under NaN.
Numbered(c, got) ==
    [c EXCEPT !.at = "write", !.version = got.version,
              !.seq = CASE got.key = "none" -> 1
                        [] got.key = "seq" /\ got.value # NaN -> got.value + 1
                        [] OTHER -> NaN]

\* An object without the field `locks` is read as a table without locks; a
\* value that is no object makes the call throw.
View(c, got) ==
    CASE got.key = "none" -> [c EXCEPT !.at = "putLocks", !.view = {}, !.version = 0]
      [] got.key = "locks" ->
            [c EXCEPT !.at = "putLocks", !.view = got.value, !.version = got.version]
      [] got.key \in {"lease", "changes", "snapshot"} ->
            [c EXCEPT !.at = "putLocks", !.view = {}, !.version = got.version]
      [] OTHER -> Idle

If(test, c) == IF test THEN c ELSE Idle

\* Where the call stands after an answer; Idle when it returned or threw.
Continue(c, got) ==
    CASE c.at = "lease" ->
            If(IsOwned(c, got), At(c, IF c.op = "commit" THEN "head" ELSE "write"))
      [] c.at = "head" ->
            If(got.key = "head" /\ got.value = c.expected, At(c, "changes"))
      [] c.at = "changes" -> AfterChanges(c, got)
      [] c.at = "from" -> If(IsSnapshot(got, c.last), At(c, "to"))
      [] c.at = "to" -> If(IsSnapshot(got, c.expected), At(c, "after"))
      [] c.at = "after" -> If(got.key = "none", At(c, "seq"))
      [] c.at = "seq" -> Numbered(c, got)
      [] c.at = "write" -> Idle
      [] c.at = "locks" -> View(c, got)
      [] c.at = "putLocks" ->
            If(~ got.succeeded /\ c.round < MaxRounds,
               [c EXCEPT !.at = "locks", !.round = @ + 1])
      [] c.at = "own" -> At(c, "seed")
      [] c.at = "seed" -> Idle

-----------------------------------------------------------------------------
(* Calls.                                                                  *)

\* Each begins with a read: of the lock table, or of the writer's lease.
Begin(p, op, ref, expected) ==
    /\ call[p] = Idle
    /\ calls < MaxCalls
    /\ calls' = calls + 1
    /\ call' = [call EXCEPT ![p] =
                    [op |-> op, at |-> IF op \in Locking THEN "locks" ELSE "lease",
                     ref |-> ref, expected |-> expected, last |-> Absent,
                     version |-> 0, seq |-> 0, view |-> {}, round |-> 1]]

\* A name no call used before.
Fresh(p, base) == Name(Token(p, life[p]), calls + 2, base)

\* commit, compareAndSwapHead, compareAndSwapHeadWithBinding, on a head the
\* caller has seen, now or earlier.
CallWrite(p) ==
    /\ \E op \in Writes, expected \in kv.stored : Begin(p, op, Fresh(p, expected.n), expected)
    /\ UNCHANGED <<late, sent, life, store>>

\* acquire, release and isHeld of the lock table.
CallLocks(p) ==
    /\ \/ held[p] = Absent /\ Begin(p, "acquire", Fresh(p, 0), Absent) /\ UNCHANGED held
       \/ /\ held[p] # Absent
          /\ Begin(p, "release", held[p], Absent)
          /\ held' = [held EXCEPT ![p] = Absent]
       \/ held[p] # Absent /\ Begin(p, "isHeld", held[p], Absent) /\ UNCHANGED held
    /\ UNCHANGED <<kv, late, sent, life, misled, told>>

\* The call's transaction was answered with success.
Succeeded(c, got) == c.at = "write" /\ got.succeeded

Acquired(c, got) ==
    c.at = "putLocks" /\ got.succeeded /\ c.op = "acquire" /\ c.view = {}

\* The next request of p's call, with the answer that is first in p's port.
Post(p) ==
    /\ call[p] \notin {Idle, Down}
    /\ LET served == Serve(kv, Request(call[p]))
           port == Append(late[p], served[2])
           got == Head(port)
       IN  /\ kv' = served[1]
           /\ late' = [late EXCEPT ![p] = Tail(port)]
           /\ call' = [call EXCEPT ![p] = Continue(call[p], got)]
           /\ misled' = IF late[p] = << >> THEN misled ELSE misled \cup {Token(p, life[p])}
           /\ told' = IF Succeeded(call[p], got) THEN told \cup {call[p].ref} ELSE told
           /\ held' = [held EXCEPT ![p] =
                           IF Acquired(call[p], got) THEN call[p].ref ELSE @]
    /\ UNCHANGED <<sent, life, calls>>

\* The wait runs out and the call throws.  Opening, the process fails to start;
\* otherwise the client goes on, with the lock it has.
Timeout(p) ==
    /\ call[p] \notin {Idle, Down}
    /\ sent[p] = None
    /\ sent' = [sent EXCEPT ![p] = [request |-> Request(call[p]), life |-> life[p]]]
    /\ call' = [call EXCEPT ![p] = IF @.op = "open" THEN Down ELSE Idle]
    /\ UNCHANGED <<late, life, store, calls>>

\* The request is served after all, and its answer left in the port.
ServedLate(p) ==
    /\ sent[p] # None
    /\ LET served == Serve(kv, sent[p].request)
       IN  /\ kv' = served[1]
           /\ late' = [late EXCEPT ![p] =
                           IF sent[p].life = life[p] /\ call[p] # Down
                           THEN Append(@, served[2]) ELSE @]
    /\ sent' = [sent EXCEPT ![p] = None]
    /\ UNCHANGED <<call, life, misled, told, held, calls>>

-----------------------------------------------------------------------------
\* A new client, with its own port and token.
Open(p) ==
    /\ call[p] = Down
    /\ life[p] < MaxLives
    /\ life' = [life EXCEPT ![p] = @ + 1]
    /\ late' = [late EXCEPT ![p] = << >>]
    /\ call' = [call EXCEPT ![p] =
                    [op |-> "open", at |-> "own", ref |-> Name(Token(p, life[p] + 1), 0, 0)]]
    /\ UNCHANGED <<sent, store, calls>>

Crash(p) ==
    /\ call[p] # Down
    /\ call' = [call EXCEPT ![p] = Down]
    /\ late' = [late EXCEPT ![p] = << >>]
    /\ held' = [held EXCEPT ![p] = Absent]
    /\ UNCHANGED <<kv, sent, life, misled, told, calls>>

LeaseLapses ==
    /\ kv.lease # Nobody
    /\ kv' = [kv EXCEPT !.lease = Nobody, !.leaseVersion = 0]
    /\ UNCHANGED <<call, late, sent, life, misled, told, held, calls>>

Next ==
    \/ \E p \in Proc :
          \/ CallWrite(p)
          \/ CallLocks(p)
          \/ Post(p)
          \/ Timeout(p)
          \/ ServedLate(p)
          \/ Open(p)
          \/ Crash(p)
    \/ LeaseLapses

Spec == Init /\ [][Next]_vars

-----------------------------------------------------------------------------
\* The log as the numbered keys spell it.
ChangeLog == [i \in 1..kv.seq |-> kv.changes[i]]

Client == [owner : Proc, token : 1..MaxLives]

Durable ==
    INSTANCE DurableStore WITH
        Writer <- Client, Nobody <- Nobody,
        head <- kv.head, log <- ChangeLog, bound <- kv.bound, writer <- kv.lease

\* The same without the log.
Heads ==
    INSTANCE DurableStore WITH
        Writer <- Client, Nobody <- Nobody,
        head <- kv.head, log <- << >>, bound <- kv.bound, writer <- kv.lease

\* Whatever requests of whichever processes come between those of one call,
\* whatever lapses, dies, is served late or is answered with another request's
\* answer, head and binding change together, by the writer of that moment only
\* and to a snapshot made from the head it replaces.  The log gets one change at
\* a time, and that between the two heads, as long as no client has taken
\* another request's answer: the number of a change comes from an answer, and
\* the transaction compares the version of that number alone
\* (raftDurableCoordinator.ts, commitAtomic and casHead).
Fenced ==
    /\ Heads!Spec
    /\ Durable!Init
    /\ [][misled' = {} => Durable!Next \/ UNCHANGED Durable!vars]_vars

\* What a client is told is so unless it took another request's answer: the
\* snapshot of a write that was answered with success is stored.  A lock a
\* process was told it has is in the table, alone, unless any client took such
\* an answer: the table is put whole, and one client's wrong reading takes away
\* the locks of all (commitAtomic, casHead, RaftResourceLockTable.mutate).
ToldUnlessMisled ==
    /\ \A n \in told : n.by \notin misled => n \in kv.stored
    /\ misled = {} => \A p \in Proc : held[p] # Absent => kv.locks = {held[p]}

\* What a process is told is so: the snapshot of a write that was answered with
\* success is stored, and a lock a process was told it has is in the table, alone
\* (commitAtomic, casHead, RaftResourceLockTable.mutate).
ToldTheTruth ==
    /\ told \subseteq kv.stored
    /\ \A p \in Proc : held[p] # Absent => kv.locks = {held[p]}
=============================================================================
