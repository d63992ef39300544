----------------------------- MODULE RaftProofs -----------------------------
(***************************************************************************)
(* What the run `raft` checks of RaftStore on a small instance, proved for *)
(* any processes, bounds and number of rounds.                             *)
(*                                                                         *)
(* The invariant has two halves.  HeadInv holds whatever a client takes    *)
(* for the answer to its request: what a call sends to the store names its *)
(* own token and a snapshot made from the head it expects, and the         *)
(* transaction compares both.  LogInv holds as long as no client has taken *)
(* an earlier request's answer (misled): then the numbers and versions in  *)
(* a call are the ones it read, the change it writes is the next of the    *)
(* log, the lock table it puts is the one it read changed by itself alone, *)
(* and so is what a request given up on, and served late, would put.       *)
(***************************************************************************)
EXTENDS RaftStore, TLAPS

WriterSet == [owner : Proc, token : 1..MaxLives]

StoreFields == {"lease", "leaseVersion", "head", "stored", "bound", "changes", "seq",
                "seqVersion", "locks", "locksVersion"}

\* The snapshot that is not there is nowhere stored.
StoreOK(s) ==
    /\ DOMAIN s = StoreFields
    /\ s.lease \in WriterSet \cup {Nobody}
    /\ Absent \notin s.stored

\* The number of changes is what the transaction compares and what names the
\* last change.
Counted(s) ==
    /\ s.seq \in Nat /\ s.seqVersion = s.seq
    /\ DOMAIN s.changes = 1..s.seq
    /\ s.locksVersion \in Nat
    /\ s.locksVersion = 0 => s.locks = {}

\* A write names the writer it is for and a snapshot made from the head it
\* expects.
WriteOK(by, ref, expected) ==
    /\ by \in WriterSet
    /\ ref.by = by
    /\ ref.base = expected.n
    /\ expected # Absent

RequestOK(r) ==
    /\ r.op \in {"get", "own", "seed", "locks"} \cup Writes
    /\ r.op = "own" => r.by \in WriterSet
    /\ r.op \in Writes => WriteOK(r.by, r.ref, r.expected)

\* A change is numbered after the version it was read under.
Exact(r) ==
    /\ r.op = "commit" => r.version \in Nat /\ r.seq = r.version + 1
    /\ r.op = "locks" => r.version \in Nat

Log(s) == [i \in 1..s.seq |-> s.changes[i]]

\* What a request may do to the store, field by field: the steps of DurableStore.
Kept(s, t) == t.lease = s.lease /\ t.head = s.head /\ t.bound = s.bound

NextHead(s, t) ==
    /\ s.lease \in WriterSet
    /\ s.head # Absent
    /\ t.head.by = s.lease
    /\ t.head.base = s.head.n
    /\ t.lease = s.lease

Moved(s, t) ==
    \/ Kept(s, t)
    \/ s.head = Absent /\ t.head = Genesis /\ t.lease = s.lease /\ t.bound = s.bound
    \/ t.lease \in WriterSet /\ t.head = s.head /\ t.bound = s.bound
    \/ NextHead(s, t) /\ t.bound \in {s.bound, t.head}

Logged(s, t) ==
    \/ Log(t) = Log(s)
    \/ /\ NextHead(s, t)
       /\ t.bound = s.bound
       /\ Log(t) = Append(Log(s), [before |-> s.head, after |-> t.head])

\* No client has the token that stands for a lapsed lease.
LEMMA NobodyWrites == Nobody \notin WriterSet
BY RaftAssumption DEF WriterSet, Nobody, Token

\* A snapshot some client made is not the one that is nowhere.
LEMMA NotAbsent ==
    ASSUME NEW by \in WriterSet, NEW ref, ref.by = by
    PROVE  ref # Absent
BY NobodyWrites DEF Absent, Name

\* Neither is the first snapshot.
LEMMA GenesisNotAbsent == Genesis # Absent
BY DEF Genesis, Absent, Name

\* A stored change is a head of its writer, and the next of the log if it is
\* numbered as it was read.
LEMMA CommitMoves ==
    ASSUME NEW s, NEW r, StoreOK(s), RequestOK(r), r.op = "commit", CommitCompares(s, r)
    PROVE  /\ StoreOK(Committed(s, r)) /\ Moved(s, Committed(s, r))
           /\ Committed(s, r).stored = s.stored \cup {r.ref}
           /\ Committed(s, r).locks = s.locks
           /\ Committed(s, r).locksVersion = s.locksVersion
           /\ Counted(s) /\ Exact(r) => Counted(Committed(s, r)) /\ Logged(s, Committed(s, r))
<1> DEFINE t == Committed(s, r)
           entry == [before |-> r.expected, after |-> r.ref]
<1>1. r.op \in Writes /\ WriteOK(r.by, r.ref, r.expected)
  BY DEF RequestOK, Writes
<1>2. s.lease = r.by /\ s.head = r.expected /\ s.seqVersion = r.version
  BY DEF CommitCompares, WriterAndHead
<1>3. /\ DOMAIN t = StoreFields
      /\ t.lease = s.lease /\ t.head = r.ref /\ t.bound = s.bound
      /\ t.stored = s.stored \cup {r.ref}
      /\ t.seq = r.seq /\ t.seqVersion = s.seqVersion + 1
      /\ t.locks = s.locks /\ t.locksVersion = s.locksVersion
      /\ t.changes = [i \in DOMAIN s.changes \cup {r.seq} |->
                          IF i = r.seq THEN entry ELSE s.changes[i]]
  BY DEF StoreOK, StoreFields, Committed
<1>4. StoreOK(t)
  <2>1. Absent \notin t.stored
    BY <1>1, <1>3, NotAbsent DEF StoreOK, WriteOK
  <2> HIDE DEF t
  <2> QED
    BY <1>3, <2>1 DEF StoreOK
<1>5. NextHead(s, t)
  BY <1>1, <1>2, <1>3 DEF NextHead, WriteOK
<1>6. ASSUME Counted(s), Exact(r) PROVE Counted(t) /\ Logged(s, t)
  <2>1. /\ s.seq \in Nat /\ s.seqVersion = s.seq /\ r.seq = s.seq + 1
        /\ DOMAIN s.changes = 1..s.seq
    BY <1>2, <1>6 DEF Counted, Exact
  <2>2. DOMAIN t.changes = 1..t.seq
    BY <1>3, <2>1
  <2>3. Log(t) = Append(Log(s), entry)
    <3>1. \A i \in 1..s.seq + 1 : t.changes[i] = IF i = s.seq + 1 THEN entry ELSE s.changes[i]
      BY <1>3, <2>1
    <3>2. Len(Log(s)) = s.seq
      BY <2>1 DEF Log
    <3>3. Append(Log(s), entry) = [i \in 1..s.seq + 1 |-> IF i = s.seq + 1 THEN entry ELSE Log(s)[i]]
      BY <2>1, <3>2 DEF Log
    <3> HIDE DEF t, entry
    <3> QED
      BY <1>3, <2>1, <3>1, <3>3 DEF Log
  <2>4. entry = [before |-> s.head, after |-> t.head]
    BY <1>2, <1>3
  <2> HIDE DEF t, entry
  <2>5. Counted(t)
    BY <1>3, <1>6, <2>1, <2>2 DEF Counted
  <2> QED
    BY <1>3, <1>5, <2>3, <2>4, <2>5 DEF Logged
<1> QED
  BY <1>3, <1>4, <1>5, <1>6 DEF Moved

\* A head moved without a change leaves the log as it is.
LEMMA SwapMoves ==
    ASSUME NEW s, NEW r, StoreOK(s), RequestOK(r), r.op \in Writes, WriterAndHead(s, r)
    PROVE  /\ StoreOK(Swapped(s, r)) /\ Moved(s, Swapped(s, r))
           /\ Swapped(s, r).stored = s.stored \cup {r.ref}
           /\ Swapped(s, r).locks = s.locks
           /\ Swapped(s, r).locksVersion = s.locksVersion
           /\ Logged(s, Swapped(s, r))
           /\ Counted(s) => Counted(Swapped(s, r))
<1> DEFINE t == Swapped(s, r)
<1>1. WriteOK(r.by, r.ref, r.expected) /\ s.lease = r.by /\ s.head = r.expected
  BY DEF RequestOK, WriterAndHead
<1>2. /\ DOMAIN t = StoreFields
      /\ t.lease = s.lease /\ t.head = r.ref /\ t.bound \in {s.bound, r.ref}
      /\ t.stored = s.stored \cup {r.ref}
      /\ t.seq = s.seq /\ t.seqVersion = s.seqVersion /\ t.changes = s.changes
      /\ t.locks = s.locks /\ t.locksVersion = s.locksVersion
  BY DEF StoreOK, StoreFields, Swapped
<1>3. Absent \notin t.stored
  BY <1>1, <1>2, NotAbsent DEF StoreOK, WriteOK
<1> HIDE DEF t
<1>4. StoreOK(t) /\ (Counted(s) => Counted(t))
  BY <1>2, <1>3 DEF StoreOK, Counted
<1>5. NextHead(s, t) /\ Logged(s, t)
  BY <1>1, <1>2 DEF NextHead, WriteOK, Log, Logged
<1> QED
  BY <1>2, <1>4, <1>5 DEF Moved, t

\* A client that opens takes the lease and leaves the rest.
LEMMA OwnMoves ==
    ASSUME NEW s, NEW r, StoreOK(s), RequestOK(r), r.op = "own"
    PROVE  /\ StoreOK(Owned(s, r)) /\ Moved(s, Owned(s, r))
           /\ Owned(s, r).stored = s.stored
           /\ Owned(s, r).locks = s.locks
           /\ Owned(s, r).locksVersion = s.locksVersion
           /\ Logged(s, Owned(s, r))
           /\ Counted(s) => Counted(Owned(s, r))
<1> DEFINE t == Owned(s, r)
<1>1. /\ DOMAIN t = StoreFields
      /\ t.lease = r.by /\ t.head = s.head /\ t.bound = s.bound /\ t.stored = s.stored
      /\ t.seq = s.seq /\ t.seqVersion = s.seqVersion /\ t.changes = s.changes
      /\ t.locks = s.locks /\ t.locksVersion = s.locksVersion
  BY DEF StoreOK, StoreFields, Owned
<1>2. r.by \in WriterSet
  BY DEF RequestOK
<1> HIDE DEF t
<1>3. StoreOK(t) /\ Moved(s, t) /\ Logged(s, t) /\ (Counted(s) => Counted(t))
  BY <1>1, <1>2 DEF StoreOK, Counted, Moved, Logged, Log
<1> QED
  BY <1>1, <1>3 DEF t

\* The first to open stores the first head.
LEMMA SeedMoves ==
    ASSUME NEW s, StoreOK(s), s.head = Absent
    PROVE  /\ StoreOK(Seeded(s)) /\ Moved(s, Seeded(s))
           /\ Seeded(s).stored = s.stored \cup {Genesis}
           /\ Seeded(s).locks = s.locks
           /\ Seeded(s).locksVersion = s.locksVersion
           /\ Logged(s, Seeded(s))
           /\ Counted(s) => Counted(Seeded(s))
<1> DEFINE t == Seeded(s)
<1>1. /\ DOMAIN t = StoreFields
      /\ t.lease = s.lease /\ t.head = Genesis /\ t.bound = s.bound
      /\ t.stored = s.stored \cup {Genesis}
      /\ t.seq = s.seq /\ t.seqVersion = s.seqVersion /\ t.changes = s.changes
      /\ t.locks = s.locks /\ t.locksVersion = s.locksVersion
  BY DEF StoreOK, StoreFields, Seeded
<1> HIDE DEF t
<1>2. StoreOK(t) /\ Moved(s, t) /\ Logged(s, t) /\ (Counted(s) => Counted(t))
  BY <1>1, GenesisNotAbsent DEF StoreOK, Counted, Moved, Logged, Log
<1> QED
  BY <1>1, <1>2 DEF t

Locked(s, r) == [s EXCEPT !.locks = r.locks, !.locksVersion = @ + 1]

\* The lock table is no part of what DurableStore shows.
LEMMA LocksMove ==
    ASSUME NEW s, NEW r, StoreOK(s)
    PROVE  /\ StoreOK(Locked(s, r)) /\ Moved(s, Locked(s, r))
           /\ Locked(s, r).stored = s.stored
           /\ Locked(s, r).locks = r.locks
           /\ Locked(s, r).locksVersion = s.locksVersion + 1
           /\ Logged(s, Locked(s, r))
           /\ Counted(s) => Counted(Locked(s, r))
<1> DEFINE t == Locked(s, r)
<1>1. /\ DOMAIN t = StoreFields
      /\ t.lease = s.lease /\ t.head = s.head /\ t.bound = s.bound /\ t.stored = s.stored
      /\ t.seq = s.seq /\ t.seqVersion = s.seqVersion /\ t.changes = s.changes
      /\ t.locks = r.locks /\ t.locksVersion = s.locksVersion + 1
  BY DEF StoreOK, StoreFields, Locked
<1> HIDE DEF t
<1>2. StoreOK(t) /\ Moved(s, t) /\ Logged(s, t) /\ (Counted(s) => Counted(t))
  BY <1>1 DEF StoreOK, Counted, Moved, Kept, Logged, Log
<1> QED
  BY <1>1, <1>2 DEF t

\* What a served request did: moved the store, kept what it held, and put the
\* lock table only under its version; and moved the log, if it was numbered as it
\* was read.
Served(s, r, t, got) ==
    /\ StoreOK(t)
    /\ Moved(s, t)
    /\ s.stored \subseteq t.stored
    /\ r.op # "locks" \/ r.version # s.locksVersion =>
          t.locks = s.locks /\ t.locksVersion = s.locksVersion
    /\ r.op = "locks" /\ r.version = s.locksVersion =>
          t.locks = r.locks /\ t.locksVersion = s.locksVersion + 1
    /\ r.op \in Writes /\ got.succeeded => r.ref \in t.stored
    /\ r.op = "locks" => (got.succeeded <=> r.version = s.locksVersion)
    /\ r.op = "get" => t = s /\ got = Read(s, r.key, r.name)
    /\ Counted(s) /\ Exact(r) => Counted(t) /\ Logged(s, t)

\* A transaction's answer tells whether it applied.
LEMMA Answers == Done(TRUE).succeeded = TRUE /\ Done(FALSE).succeeded = FALSE
BY DEF Done, Nothing

\* A transaction that applied, and one that did not.
LEMMA Applies ==
    ASSUME NEW s, NEW r, NEW t, r.op # "get", Txn(s, r) = <<TRUE, t>>
    PROVE  Serve(s, r)[1] = t /\ Serve(s, r)[2] = Done(TRUE)
BY DEF Serve

\* One that did not apply leaves the store.
LEMMA Refuses ==
    ASSUME NEW s, NEW r, NEW t, r.op # "get", Txn(s, r) = <<FALSE, t>>
    PROVE  Serve(s, r)[1] = s /\ Serve(s, r)[2] = Done(FALSE)
BY DEF Serve

\* Every request is served as one step of DurableStore, or none.
LEMMA ServeMoves ==
    ASSUME NEW s, NEW r, StoreOK(s), RequestOK(r)
    PROVE  Served(s, r, Serve(s, r)[1], Serve(s, r)[2])
<1> DEFINE t == Serve(s, r)[1]
           got == Serve(s, r)[2]
<1>0. Moved(s, s) /\ Logged(s, s)
  BY DEF Moved, Kept, Logged
<1>1. CASE r.op = "get"
  BY <1>0, <1>1 DEF Serve, Served, Writes
<1>2. CASE r.op = "commit"
  <2>1. Txn(s, r) = <<CommitCompares(s, r), Committed(s, r)>>
    BY <1>2 DEF Txn
  <2>2. CASE CommitCompares(s, r)
    <3>0. Txn(s, r) = <<TRUE, Committed(s, r)>>
      BY <2>1, <2>2
    <3>1. t = Committed(s, r) /\ got = Done(TRUE)
      BY <1>2, <3>0, Applies
    <3>2. /\ StoreOK(t) /\ Moved(s, t) /\ t.stored = s.stored \cup {r.ref}
          /\ t.locks = s.locks /\ t.locksVersion = s.locksVersion
          /\ Counted(s) /\ Exact(r) => Counted(t) /\ Logged(s, t)
      BY <1>2, <2>2, <3>1, CommitMoves
    <3> HIDE DEF t, got
    <3>3. Served(s, r, t, got)
      BY <1>2, <3>2 DEF Served
    <3> QED
      BY <3>3 DEF t, got
  <2>3. CASE ~ CommitCompares(s, r)
    <3>0. Txn(s, r) = <<FALSE, Committed(s, r)>>
      BY <2>1, <2>3 DEF CommitCompares
    <3>1. t = s /\ got = Done(FALSE)
      BY <1>2, <3>0, Refuses
    <3> QED
      BY <1>0, <1>2, <3>1, Answers DEF Served
  <2> QED
    BY <2>2, <2>3
<1>3. CASE r.op \in Writes \ {"commit"}
  <2>0. r.op \notin {"get", "commit", "own", "seed", "locks"} /\ r.op \in Writes
    BY <1>3 DEF Writes
  <2>1. Txn(s, r) = <<WriterAndHead(s, r), Swapped(s, r)>>
    BY <1>3, <2>0 DEF Txn
  <2>2. CASE WriterAndHead(s, r)
    <3>0. Txn(s, r) = <<TRUE, Swapped(s, r)>>
      BY <2>1, <2>2
    <3>1. t = Swapped(s, r) /\ got = Done(TRUE)
      BY <2>0, <3>0, Applies
    <3>2. /\ StoreOK(t) /\ Moved(s, t) /\ t.stored = s.stored \cup {r.ref}
          /\ t.locks = s.locks /\ t.locksVersion = s.locksVersion
          /\ Counted(s) /\ Exact(r) => Counted(t) /\ Logged(s, t)
      BY <2>0, <2>2, <3>1, SwapMoves
    <3> HIDE DEF t, got
    <3>3. Served(s, r, t, got)
      BY <2>0, <3>2 DEF Served
    <3> QED
      BY <3>3 DEF t, got
  <2>3. CASE ~ WriterAndHead(s, r)
    <3>0. Txn(s, r) = <<FALSE, Swapped(s, r)>>
      BY <2>1, <2>3 DEF WriterAndHead
    <3>1. t = s /\ got = Done(FALSE)
      BY <2>0, <3>0, Refuses
    <3> QED
      BY <1>0, <2>0, <3>1, Answers DEF Served
  <2> QED
    BY <2>2, <2>3
<1>4. CASE r.op = "own"
  <2>1. Txn(s, r) = <<TRUE, Owned(s, r)>>
    BY <1>4 DEF Txn, Writes
  <2>2. t = Owned(s, r)
    BY <1>4, <2>1, Applies
  <2> QED
    BY <1>4, <2>2, OwnMoves DEF Served, Writes
<1>5. CASE r.op = "seed"
  <2>1. Txn(s, r) = <<s.head = Absent, Seeded(s)>>
    BY <1>5 DEF Txn, Writes
  <2>2. CASE s.head = Absent
    <3>0. Txn(s, r) = <<TRUE, Seeded(s)>>
      BY <2>1, <2>2
    <3>1. t = Seeded(s)
      BY <1>5, <3>0, Applies
    <3> QED
      BY <1>5, <2>2, <3>1, SeedMoves DEF Served, Writes
  <2>3. CASE s.head # Absent
    <3>0. Txn(s, r) = <<FALSE, Seeded(s)>>
      BY <2>1, <2>3
    <3>1. t = s
      BY <1>5, <3>0, Refuses
    <3> QED
      BY <1>0, <1>5, <3>1 DEF Served, Writes
  <2> QED
    BY <2>2, <2>3
<1>6. CASE r.op = "locks"
  <2>1. Txn(s, r) = <<LocksCompare(s, r), Locked(s, r)>>
    BY <1>6 DEF Txn, Writes, Locked
  <2>2. CASE LocksCompare(s, r)
    <3>0. Txn(s, r) = <<TRUE, Locked(s, r)>>
      BY <2>1, <2>2
    <3>1. t = Locked(s, r) /\ got = Done(TRUE)
      BY <1>6, <3>0, Applies
    <3>2. /\ StoreOK(t) /\ Moved(s, t) /\ t.stored = s.stored
          /\ t.locks = r.locks /\ t.locksVersion = s.locksVersion + 1
          /\ Counted(s) => Counted(t) /\ Logged(s, t)
      BY <3>1, LocksMove
    <3>3. got.succeeded /\ r.version = s.locksVersion
      BY <2>2, <3>1, Answers DEF LocksCompare
    <3> HIDE DEF t, got
    <3>4. Served(s, r, t, got)
      BY <1>6, <3>2, <3>3 DEF Served, Writes
    <3> QED
      BY <3>4 DEF t, got
  <2>3. CASE ~ LocksCompare(s, r)
    <3>0. Txn(s, r) = <<FALSE, Locked(s, r)>>
      BY <2>1, <2>3 DEF LocksCompare
    <3>1. t = s /\ got = Done(FALSE)
      BY <1>6, <3>0, Refuses
    <3> QED
      BY <1>0, <1>6, <2>3, <3>1, Answers DEF Served, Writes, LocksCompare
  <2> QED
    BY <2>2, <2>3
<1> QED
  BY <1>1, <1>2, <1>3, <1>4, <1>5, <1>6 DEF RequestOK

-----------------------------------------------------------------------------
(* Calls, and the requests they make.                                      *)

CallFields == {"op", "at", "ref", "expected", "last", "version", "seq", "view", "round"}

\* A call of the client with token w.
WriteCall(c, w) ==
    /\ c.op \in Writes
    /\ DOMAIN c = CallFields
    /\ c.at \in {"lease", "head", "changes", "from", "to", "after", "seq", "write"}
    /\ c.ref.by = w
    /\ c.ref.base = c.expected.n
    /\ c.expected # Absent

LockCall(c, w) ==
    /\ c.op \in Locking
    /\ DOMAIN c = CallFields
    /\ c.at \in {"locks", "putLocks"}
    /\ c.ref.by = w

OpenCall(c, w) ==
    /\ c.op = "open"
    /\ DOMAIN c = {"op", "at", "ref"}
    /\ c.at \in {"own", "seed"}
    /\ c.ref.by = w

CallOK(c, w) == WriteCall(c, w) \/ LockCall(c, w) \/ OpenCall(c, w)

\* What its own requests told it is in it.
ExactCall(c) ==
    /\ c.op = "commit" /\ c.at = "write" => c.version \in Nat /\ c.seq = c.version + 1
    /\ c.op \in Locking /\ c.at = "putLocks" => c.version \in Nat

\* What a call of the lock table read is still there, or the table's version is
\* past it.
ViewOK(c, s) ==
    c.op \in Locking /\ c.at = "putLocks" =>
        /\ c.version <= s.locksVersion
        /\ c.version = s.locksVersion => c.view = s.locks

\* Writes, calls of the lock table and opening are told apart by name.
LEMMA ByOp == Writes \cap Locking = {} /\ "open" \notin Writes \cup Locking
BY DEF Writes, Locking

\* Every request of a call is one RequestOK admits.
LEMMA RequestFits ==
    ASSUME NEW c, NEW w \in WriterSet, CallOK(c, w)
    PROVE  RequestOK(Request(c)) /\ (ExactCall(c) => Exact(Request(c)))
<1>1. CASE WriteCall(c, w)
  <2>1. CASE c.at = "write"
    <3>1. Request(c) = WriteRequest(c)
      BY <2>1 DEF Request
    <3>2. /\ WriteRequest(c).op = c.op /\ WriteRequest(c).by = w
          /\ WriteRequest(c).ref = c.ref /\ WriteRequest(c).expected = c.expected
          /\ WriteRequest(c).version = c.version /\ WriteRequest(c).seq = c.seq
      BY <1>1 DEF WriteCall, WriteRequest
    <3> QED
      BY <1>1, <2>1, <3>1, <3>2 DEF RequestOK, WriteOK, WriteCall, Writes, Exact, ExactCall
  <2>2. CASE c.at # "write"
    <3>1. Request(c).op = "get"
      BY <1>1, <2>2 DEF WriteCall, Request, Get
    <3> QED
      BY <3>1 DEF RequestOK, Writes, Exact
  <2> QED
    BY <2>1, <2>2
<1>2. CASE LockCall(c, w)
  <2>1. CASE c.at = "locks"
    <3>1. Request(c).op = "get"
      BY <2>1 DEF Request, Get
    <3> QED
      BY <3>1 DEF RequestOK, Writes, Exact
  <2>2. CASE c.at = "putLocks"
    <3>1. Request(c).op = "locks" /\ Request(c).version = c.version
      BY <2>2 DEF Request
    <3> QED
      BY <1>2, <2>2, <3>1 DEF RequestOK, Writes, LockCall, Exact, ExactCall
  <2> QED
    BY <1>2, <2>1, <2>2 DEF LockCall
<1>3. CASE OpenCall(c, w)
  <2>1. CASE c.at = "own"
    <3>1. Request(c).op = "own" /\ Request(c).by = w
      BY <1>3, <2>1 DEF Request, OpenCall
    <3> QED
      BY <3>1 DEF RequestOK, Writes, Exact
  <2>2. CASE c.at = "seed"
    <3>1. Request(c).op = "seed"
      BY <2>2 DEF Request
    <3> QED
      BY <3>1 DEF RequestOK, Writes, Exact
  <2> QED
    BY <1>3, <2>1, <2>2 DEF OpenCall
<1> QED
  BY <1>1, <1>2, <1>3 DEF CallOK

\* What a write keeps when it has read the number of changes.
LEMMA NumberedFields ==
    ASSUME NEW c, NEW got, DOMAIN c = CallFields
    PROVE  LET n == Numbered(c, got)
           IN  /\ DOMAIN n = CallFields
               /\ n.at = "write" /\ n.version = got.version
               /\ n.op = c.op /\ n.ref = c.ref /\ n.expected = c.expected
               /\ got.key = "none" => n.seq = 1
               /\ got.key = "seq" /\ got.value # NaN => n.seq = got.value + 1
<1> DEFINE number == CASE got.key = "none" -> 1
                       [] got.key = "seq" /\ got.value # NaN -> got.value + 1
                       [] OTHER -> NaN
<1>1. /\ got.key = "none" => number = 1
      /\ got.key = "seq" /\ got.value # NaN => number = got.value + 1
  OBVIOUS
<1>2. Numbered(c, got) =
        [c EXCEPT !.at = "write", !.version = got.version, !.seq = number]
  BY DEF Numbered
<1> HIDE DEF number
<1> QED
  BY <1>1, <1>2 DEF CallFields

\* The number read is the version read.
LEMMA SeqRead ==
    ASSUME NEW s, Counted(s), NEW c, DOMAIN c = CallFields
    PROVE  LET n == Numbered(c, Read(s, "seq", Absent))
           IN  n.version \in Nat /\ n.seq = n.version + 1
<1> DEFINE got == Read(s, "seq", Absent)
           n == Numbered(c, got)
<1>1. /\ n.version = got.version
      /\ got.key = "none" => n.seq = 1
      /\ got.key = "seq" /\ got.value # NaN => n.seq = got.value + 1
  BY NumberedFields
<1>2. CASE s.seqVersion > 0
  <2>1. got = Found("seq", s.seq, s.seqVersion)
    BY <1>2 DEF Read
  <2>2. got.key = "seq" /\ got.value = s.seq /\ got.version = s.seqVersion
    BY <2>1 DEF Found
  <2>3. s.seq \in Nat /\ s.seq # NaN /\ s.seqVersion = s.seq
    BY <1>2 DEF Counted, NaN
  <2> HIDE DEF got, n
  <2>4. n.version \in Nat /\ n.seq = n.version + 1
    BY <1>1, <2>2, <2>3
  <2> QED
    BY <2>4 DEF n, got
<1>3. CASE ~ (s.seqVersion > 0)
  <2>1. got = Nothing
    BY <1>3 DEF Read
  <2>2. got.key = "none" /\ got.version = 0
    BY <2>1 DEF Nothing
  <2> HIDE DEF got, n
  <2>3. n.version \in Nat /\ n.seq = n.version + 1
    BY <1>1, <2>2
  <2> QED
    BY <2>3 DEF n, got
<1> QED
  BY <1>2, <1>3

\* So is the table, with its version.
LEMMA LocksRead ==
    ASSUME NEW s, Counted(s)
    PROVE  LET got == Read(s, "locks", Absent)
           IN  \/ got.key = "none" /\ s.locks = {} /\ s.locksVersion = 0
               \/ got.key = "locks" /\ got.value = s.locks /\ got.version = s.locksVersion
<1> DEFINE got == Read(s, "locks", Absent)
<1>1. CASE s.locksVersion > 0
  <2>1. got = Found("locks", s.locks, s.locksVersion)
    BY <1>1 DEF Read
  <2> QED
    BY <2>1 DEF Found
<1>2. CASE ~ (s.locksVersion > 0)
  <2>1. got = Nothing
    BY <1>2 DEF Read
  <2> QED
    BY <1>2, <2>1 DEF Nothing, Counted
<1> QED
  BY <1>1, <1>2

\* What a call keeps from one request to the next.
LEMMA AtFields ==
    ASSUME NEW c, NEW at, DOMAIN c = CallFields
    PROVE  LET d == At(c, at)
           IN  /\ DOMAIN d = CallFields /\ d.at = at
               /\ d.op = c.op /\ d.ref = c.ref /\ d.expected = c.expected
BY DEF At, CallFields

\* A write goes on with its next request, or ends, whatever it takes for the
\* answer; a change is written after its number was read.
LEMMA WriteContinues ==
    ASSUME NEW c, NEW w, WriteCall(c, w), NEW got
    PROVE  LET d == Continue(c, got)
           IN  \/ d = Idle
               \/ /\ WriteCall(d, w) /\ d.op = c.op
                  /\ c.op = "commit" /\ d.at = "write" => c.at = "seq"
<1> DEFINE d == Continue(c, got)
<1>0. DOMAIN c = CallFields
  BY DEF WriteCall
<1>1. ASSUME NEW at \in {"head", "changes", "from", "to", "after", "seq"}, d = At(c, at)
      PROVE  WriteCall(d, w) /\ d.op = c.op /\ d.at # "write"
  BY <1>0, <1>1, AtFields DEF WriteCall
<1>2. CASE c.at = "lease"
  <2>1. d = If(IsOwned(c, got), At(c, IF c.op = "commit" THEN "head" ELSE "write"))
    BY <1>2 DEF Continue
  <2>2. d = Idle \/ d = At(c, IF c.op = "commit" THEN "head" ELSE "write")
    BY <2>1 DEF If
  <2>3. CASE d = At(c, "write") /\ c.op # "commit"
    BY <1>0, <2>3, AtFields DEF WriteCall
  <2> QED
    BY <1>1, <2>2, <2>3
<1>3. CASE c.at = "head"
  <2>1. d = If(got.key = "head" /\ got.value = c.expected, At(c, "changes"))
    BY <1>3 DEF Continue
  <2>2. d = Idle \/ d = At(c, "changes")
    BY <2>1 DEF If
  <2> QED
    BY <1>1, <2>2
<1>4. CASE c.at = "changes"
  <2>1. d = AfterChanges(c, got)
    BY <1>4 DEF Continue
  <2>2. d = At(c, "after") \/ d = [c EXCEPT !.at = "from", !.last = got.value] \/ d = Idle
    BY <2>1 DEF AfterChanges
  <2>3. ASSUME d = [c EXCEPT !.at = "from", !.last = got.value]
        PROVE  WriteCall(d, w) /\ d.op = c.op /\ d.at # "write"
    <3>1. /\ DOMAIN d = CallFields /\ d.at = "from"
          /\ d.op = c.op /\ d.ref = c.ref /\ d.expected = c.expected
      BY <1>0, <2>3 DEF CallFields
    <3> HIDE DEF d
    <3> QED
      BY <3>1 DEF WriteCall
  <2> QED
    BY <1>1, <2>2, <2>3
<1>5. CASE c.at = "from"
  <2>1. d = If(IsSnapshot(got, c.last), At(c, "to"))
    BY <1>5 DEF Continue
  <2>2. d = Idle \/ d = At(c, "to")
    BY <2>1 DEF If
  <2> QED
    BY <1>1, <2>2
<1>6. CASE c.at = "to"
  <2>1. d = If(IsSnapshot(got, c.expected), At(c, "after"))
    BY <1>6 DEF Continue
  <2>2. d = Idle \/ d = At(c, "after")
    BY <2>1 DEF If
  <2> QED
    BY <1>1, <2>2
<1>7. CASE c.at = "after"
  <2>1. d = If(got.key = "none", At(c, "seq"))
    BY <1>7 DEF Continue
  <2>2. d = Idle \/ d = At(c, "seq")
    BY <2>1 DEF If
  <2> QED
    BY <1>1, <2>2
<1>8. CASE c.at = "seq"
  <2>1. d = Numbered(c, got)
    BY <1>8 DEF Continue
  <2>2. /\ DOMAIN d = CallFields /\ d.at = "write"
        /\ d.op = c.op /\ d.ref = c.ref /\ d.expected = c.expected
    BY <1>0, <2>1, NumberedFields
  <2> HIDE DEF d
  <2>3. WriteCall(d, w) /\ d.op = c.op
    BY <2>2 DEF WriteCall
  <2> QED
    BY <1>8, <2>3 DEF d
<1>9. CASE c.at = "write"
  BY <1>9 DEF Continue
<1> QED
  BY <1>2, <1>3, <1>4, <1>5, <1>6, <1>7, <1>8, <1>9 DEF WriteCall

\* A call of the lock table reads it and puts it by turns, or ends.
LEMMA LockContinues ==
    ASSUME NEW c, NEW w, LockCall(c, w), NEW got
    PROVE  LET d == Continue(c, got)
           IN  \/ d = Idle
               \/ /\ LockCall(d, w) /\ d.op = c.op
                  /\ c.at # "locks" => d.at = "locks"
<1> DEFINE d == Continue(c, got)
<1>0. DOMAIN c = CallFields /\ c.op \in Locking /\ c.ref.by = w
  BY DEF LockCall
<1>1. CASE c.at = "locks"
  <2>1. d = View(c, got)
    BY <1>1 DEF Continue
  <2>2. \/ d = Idle
        \/ \E view, version :
              d = [c EXCEPT !.at = "putLocks", !.view = view, !.version = version]
    BY <2>1 DEF View
  <2>3. ASSUME NEW view, NEW version,
               d = [c EXCEPT !.at = "putLocks", !.view = view, !.version = version]
        PROVE  LockCall(d, w) /\ d.op = c.op
    <3>1. /\ DOMAIN d = CallFields /\ d.at = "putLocks"
          /\ d.op = c.op /\ d.ref = c.ref
      BY <1>0, <2>3 DEF CallFields
    <3> HIDE DEF d
    <3> QED
      BY <1>0, <3>1 DEF LockCall
  <2> QED
    BY <1>1, <2>2, <2>3
<1>2. CASE c.at = "putLocks"
  <2>1. d = If(~ got.succeeded /\ c.round < MaxRounds,
               [c EXCEPT !.at = "locks", !.round = @ + 1])
    BY <1>2 DEF Continue
  <2>2. CASE d = [c EXCEPT !.at = "locks", !.round = @ + 1]
    <3>1. DOMAIN d = CallFields /\ d.at = "locks" /\ d.op = c.op /\ d.ref = c.ref
      BY <1>0, <2>2 DEF CallFields
    <3> HIDE DEF d
    <3>2. LockCall(d, w)
      BY <1>0, <3>1 DEF LockCall
    <3> QED
      BY <1>2, <3>1, <3>2 DEF d
  <2> QED
    BY <2>1, <2>2 DEF If
<1> QED
  BY <1>1, <1>2 DEF LockCall

\* One that has read it holds what is in it, with its version.
LEMMA LocksViewed ==
    ASSUME NEW s, Counted(s), NEW c, NEW w, LockCall(c, w), c.at = "locks"
    PROVE  LET d == Continue(c, Read(s, "locks", Absent))
           IN  d.view = s.locks /\ d.version = s.locksVersion
<1> DEFINE got == Read(s, "locks", Absent)
           d == Continue(c, got)
<1>0. DOMAIN c = CallFields
  BY DEF LockCall
<1>1. d = View(c, got)
  BY DEF Continue
<1>2. CASE got.key = "none" /\ s.locks = {} /\ s.locksVersion = 0
  <2>1. d = [c EXCEPT !.at = "putLocks", !.view = {}, !.version = 0]
    BY <1>1, <1>2 DEF View
  <2>2. d.view = {} /\ d.version = 0
    BY <1>0, <2>1 DEF CallFields
  <2> QED
    BY <1>2, <2>2
<1>3. CASE got.key = "locks" /\ got.value = s.locks /\ got.version = s.locksVersion
  <2>1. d = [c EXCEPT !.at = "putLocks", !.view = got.value, !.version = got.version]
    BY <1>1, <1>3 DEF View
  <2>2. d.view = got.value /\ d.version = got.version
    BY <1>0, <2>1 DEF CallFields
  <2> QED
    BY <1>3, <2>2
<1> QED
  BY <1>2, <1>3, LocksRead

\* Opening takes the lease, then stores the first head.
LEMMA OpenContinues ==
    ASSUME NEW c, NEW w, OpenCall(c, w), NEW got
    PROVE  LET d == Continue(c, got) IN d = Idle \/ (OpenCall(d, w) /\ d.op = c.op)
<1> DEFINE d == Continue(c, got)
<1>1. CASE c.at = "own"
  <2>1. d = At(c, "seed")
    BY <1>1 DEF Continue
  <2>2. DOMAIN d = {"op", "at", "ref"} /\ d.op = c.op /\ d.at = "seed" /\ d.ref = c.ref
    BY <2>1 DEF At, OpenCall
  <2> HIDE DEF d
  <2>3. OpenCall(d, w) /\ d.op = c.op
    BY <2>2 DEF OpenCall
  <2> QED
    BY <2>3 DEF d
<1>2. CASE c.at = "seed"
  BY <1>2 DEF Continue
<1> QED
  BY <1>1, <1>2 DEF OpenCall

\* A call goes on as itself, or ends, whatever it takes for the answer.
LEMMA CallGoesOn ==
    ASSUME NEW c, NEW w, CallOK(c, w), NEW got
    PROVE  LET d == Continue(c, got) IN d = Idle \/ (CallOK(d, w) /\ d.op = c.op)
<1>1. CASE WriteCall(c, w)
  BY <1>1, WriteContinues DEF CallOK
<1>2. CASE LockCall(c, w)
  BY <1>2, LockContinues DEF CallOK
<1>3. CASE OpenCall(c, w)
  BY <1>3, OpenContinues DEF CallOK
<1> QED
  BY <1>1, <1>2, <1>3 DEF CallOK

\* With the answer to the request it made, it goes on with what is in the store.
LEMMA CallContinues ==
    ASSUME NEW s, Counted(s), NEW c, NEW w, CallOK(c, w),
           NEW t, NEW got, Served(s, Request(c), t, got), Continue(c, got) # Idle
    PROVE  ExactCall(Continue(c, got)) /\ ViewOK(Continue(c, got), t)
<1> DEFINE d == Continue(c, got)
<1>1. ASSUME c.at \in {"seq", "locks"}
      PROVE  t = s /\ got = Read(s, c.at, Absent)
  <2>1. Request(c) = Get(c.at, Absent)
    BY <1>1 DEF Request
  <2>2. /\ Request(c).op = "get" /\ Request(c).key = c.at /\ Request(c).name = Absent
    BY <2>1 DEF Get
  <2> QED
    BY <2>2 DEF Served
<1>2. CASE WriteCall(c, w)
  <2>1. WriteCall(d, w) /\ d.op = c.op /\ (c.op = "commit" /\ d.at = "write" => c.at = "seq")
    BY <1>2, WriteContinues
  <2>2. ASSUME c.at = "seq" PROVE d.version \in Nat /\ d.seq = d.version + 1
    <3>1. d = Numbered(c, Read(s, "seq", Absent)) /\ DOMAIN c = CallFields
      BY <1>1, <1>2, <2>2 DEF Continue, WriteCall
    <3> QED
      BY <3>1, SeqRead
  <2> HIDE DEF d
  <2>3. d.op \notin Locking
    BY <2>1, ByOp DEF WriteCall
  <2>4. ExactCall(d) /\ ViewOK(d, t)
    BY <2>1, <2>2, <2>3 DEF ExactCall, ViewOK
  <2> QED
    BY <2>4 DEF d
<1>3. CASE LockCall(c, w)
  <2>1. LockCall(d, w) /\ d.op = c.op /\ (c.at # "locks" => d.at = "locks")
    BY <1>3, LockContinues
  <2>2. c.at = "locks" => d.view = t.locks /\ d.version = t.locksVersion
    BY <1>1, <1>3, LocksViewed
  <2>3. c.at = "locks" => t.locksVersion \in Nat
    BY <1>1 DEF Counted
  <2> HIDE DEF d
  <2>4. d.op # "commit"
    BY <2>1, ByOp DEF LockCall, Writes
  <2>5. ExactCall(d) /\ ViewOK(d, t)
    BY <2>1, <2>2, <2>3, <2>4 DEF ExactCall, ViewOK
  <2> QED
    BY <2>5 DEF d
<1>4. CASE OpenCall(c, w)
  <2>1. OpenCall(d, w)
    BY <1>4, OpenContinues
  <2> HIDE DEF d
  <2>2. ExactCall(d) /\ ViewOK(d, t)
    BY <2>1, ByOp DEF ExactCall, ViewOK, OpenCall
  <2> QED
    BY <2>2 DEF d
<1> QED
  BY <1>2, <1>3, <1>4 DEF CallOK

-----------------------------------------------------------------------------
(* The invariant.                                                          *)

\* What a put of the table does to it, made by the call that is named x.
Puts(locks, x, new) == new = locks \/ (locks = {} /\ new = {x}) \/ new = locks \ {x}

\* A request given up on by client l of p is one it could make; while the same
\* client is told it has a lock, the request would leave it that.
SentFits(p, s, l, e, h) ==
    /\ Exact(e.request)
    /\ e.life \in Nat /\ e.life <= l
    /\ e.request.op = "locks" =>
          /\ e.request.version <= s.locksVersion
          /\ e.request.version = s.locksVersion =>
                /\ \E x : x.by = Token(p, e.life) /\ Puts(s.locks, x, e.request.locks)
                /\ e.life = l /\ h # Absent => e.request.locks = s.locks

\* Client p, with its number l, its call c, the request e it gave up on and the
\* lock h it was told it has.
ClientOK(p, l, c, e, h) ==
    /\ l \in 0..MaxLives
    /\ c.op # "down" => l # 0
    /\ c \in {Idle, Down} \/ CallOK(c, Token(p, l))
    /\ e # None => RequestOK(e.request)
    /\ h # Absent => h.by = Token(p, l) /\ c.op \notin {"down", "open"}

\* The same on store s, when every answer was taken by the request it is for.
ExactClient(p, s, l, c, e, h) ==
    /\ ExactCall(c) /\ ViewOK(c, s)
    /\ e # None => SentFits(p, s, l, e, h)
    /\ h # Absent => c.op \notin {"acquire", "release"} /\ s.locks = {h}

ShapeOK ==
    /\ DOMAIN late = Proc /\ DOMAIN life = Proc /\ DOMAIN call = Proc
    /\ DOMAIN sent = Proc /\ DOMAIN held = Proc
    /\ calls \in Nat

ToldOK == \A n \in told : n.by \notin misled => n \in kv.stored

HeadInv ==
    /\ ShapeOK
    /\ StoreOK(kv)
    /\ ToldOK
    /\ \A p \in Proc : ClientOK(p, life[p], call[p], sent[p], held[p])

LogInv ==
    /\ Counted(kv)
    /\ \A p \in Proc : ExactClient(p, kv, life[p], call[p], sent[p], held[p])

RaftInv == HeadInv /\ (misled = {} => LogInv)

\* A client between calls is not one that is gone, nor one that opens.
LEMMA IdleDown ==
    /\ Idle.op = "idle" /\ Down.op = "down" /\ Idle # Down
    /\ "commit" \notin {"idle", "down"} /\ Locking \cap {"idle", "down"} = {}
BY DEF Idle, Down, Locking

\* So nothing was told to it.
LEMMA IdleExact ==
    ASSUME NEW c \in {Idle, Down}, NEW s
    PROVE  ExactCall(c) /\ ViewOK(c, s)
BY IdleDown DEF ExactCall, ViewOK

\* A call that is under way is known by its name.
LEMMA CallsOp ==
    ASSUME NEW c, NEW w, CallOK(c, w)
    PROVE  /\ c.op \notin {"idle", "down"}
           /\ c.op \in Locking <=> LockCall(c, w)
           /\ c.op \in Writes <=> WriteCall(c, w)
           /\ c.op = "open" <=> OpenCall(c, w)
BY DEF CallOK, WriteCall, LockCall, OpenCall, Writes, Locking

\* No two clients have one token.
LEMMA TokensDiffer ==
    ASSUME NEW p, NEW q, NEW l, NEW m, p # q \/ l # m
    PROVE  Token(p, l) # Token(q, m)
BY DEF Token

\* The client of a call that is under way is a writer's.
LEMMA TokenOfLife ==
    ASSUME NEW p \in Proc, NEW l \in 0..MaxLives, l # 0
    PROVE  Token(p, l) \in WriterSet
BY RaftAssumption DEF Token, WriterSet

\* A call under way is one its client may make, and so is its request.
LEMMA CallOfClient ==
    ASSUME HeadInv, NEW p \in Proc, call[p] \notin {Idle, Down}
    PROVE  /\ CallOK(call[p], Token(p, life[p]))
           /\ life[p] \in 0..MaxLives /\ life[p] # 0
           /\ Token(p, life[p]) \in WriterSet
           /\ RequestOK(Request(call[p]))
           /\ ExactCall(call[p]) => Exact(Request(call[p]))
<1>1. CallOK(call[p], Token(p, life[p])) /\ life[p] \in 0..MaxLives
  BY DEF HeadInv, ClientOK
<1>2. life[p] # 0
  <2>1. call[p].op # "down"
    BY <1>1, CallsOp
  <2> QED
    BY <2>1 DEF HeadInv, ClientOK
<1>3. Token(p, life[p]) \in WriterSet
  BY <1>1, <1>2, TokenOfLife
<1> QED
  BY <1>1, <1>2, <1>3, RequestFits

\* What a client holds, does or gave up on is left by a request that leaves its
\* lock alone in the table.
LEMMA Bystander ==
    ASSUME NEW q, NEW s, NEW l, NEW c, NEW e, NEW h,
           ExactClient(q, s, l, c, e, h), Counted(s),
           NEW r, NEW t, NEW got, Served(s, r, t, got),
           h # Absent => t.locks = {h}
    PROVE  ExactClient(q, t, l, c, e, h)
<1>1. \/ t.locks = s.locks /\ t.locksVersion = s.locksVersion
      \/ t.locksVersion = s.locksVersion + 1
  BY DEF Served
<1>2. s.locksVersion \in Nat
  BY DEF Counted
<1>3. ViewOK(c, t)
  <2>1. c.op \in Locking /\ c.at = "putLocks" => c.version \in Nat
    BY DEF ExactClient, ExactCall
  <2>2. ViewOK(c, s)
    BY DEF ExactClient
  <2> QED
    BY <1>1, <1>2, <2>1, <2>2 DEF ViewOK
<1>4. ASSUME e # None PROVE SentFits(q, t, l, e, h)
  <2>1. SentFits(q, s, l, e, h)
    BY <1>4 DEF ExactClient
  <2>2. e.request.op = "locks" => e.request.version \in Nat
    BY <2>1 DEF SentFits, Exact
  <2> QED
    BY <1>1, <1>2, <2>1, <2>2 DEF SentFits
<1> QED
  BY <1>3, <1>4 DEF ExactClient

\* A call of the lock table puts what it read, changed by itself alone.
LEMMA TablePuts ==
    ASSUME NEW c, NEW w, LockCall(c, w), NEW s, ViewOK(c, s),
           c.at = "putLocks", c.version = s.locksVersion
    PROVE  /\ Puts(s.locks, c.ref, TableAfter(c))
           /\ c.op = "isHeld" => TableAfter(c) = s.locks
           /\ c.op = "acquire" /\ c.view = {} => TableAfter(c) = {c.ref} /\ s.locks = {}
<1>1. c.view = s.locks /\ c.op \in {"acquire", "release", "isHeld"}
  BY DEF ViewOK, LockCall, Locking
<1>2. CASE c.op = "acquire"
  <2>1. TableAfter(c) = IF c.view = {} THEN {c.ref} ELSE c.view
    BY <1>2 DEF TableAfter
  <2> QED
    BY <1>1, <1>2, <2>1 DEF Puts
<1>3. CASE c.op = "release"
  <2>1. TableAfter(c) = c.view \ {c.ref}
    BY <1>3 DEF TableAfter
  <2> QED
    BY <1>1, <1>3, <2>1 DEF Puts
<1>4. CASE c.op = "isHeld"
  <2>1. TableAfter(c) = c.view
    BY <1>4 DEF TableAfter
  <2> QED
    BY <1>1, <1>4, <2>1 DEF Puts
<1> QED
  BY <1>1, <1>2, <1>3, <1>4

\* A put of the lock table is made by a call that has read it.
LEMMA LockRequest ==
    ASSUME NEW c, NEW w, CallOK(c, w), Request(c).op = "locks"
    PROVE  /\ LockCall(c, w) /\ c.at = "putLocks"
           /\ Request(c).version = c.version /\ Request(c).locks = TableAfter(c)
<1>1. CASE WriteCall(c, w)
  <2>1. Request(c).op # "locks"
    BY <1>1 DEF WriteCall, Request, Get, WriteRequest, Writes
  <2> QED
    BY <2>1
<1>2. CASE OpenCall(c, w)
  <2>1. Request(c).op # "locks"
    BY <1>2 DEF OpenCall, Request
  <2> QED
    BY <2>1
<1>3. CASE LockCall(c, w)
  <2>1. c.at = "locks" => Request(c).op = "get"
    BY DEF Request, Get
  <2>2. c.at = "putLocks"
    BY <1>3, <2>1 DEF LockCall
  <2>3. Request(c) = [op |-> "locks", version |-> c.version, locks |-> TableAfter(c)]
    BY <2>2 DEF Request
  <2> QED
    BY <1>3, <2>2, <2>3
<1> QED
  BY <1>1, <1>2, <1>3 DEF CallOK

\* What the put of a call does to the table it is for.
LEMMA RequestPuts ==
    ASSUME HeadInv, LogInv, NEW p \in Proc, call[p] \notin {Idle, Down},
           Request(call[p]).op = "locks"
    PROVE  LET c == call[p]
               r == Request(c)
           IN  /\ c.op \in Locking /\ c.at = "putLocks"
               /\ r.version = c.version /\ r.version \in Nat /\ r.version <= kv.locksVersion
               /\ r.version = kv.locksVersion =>
                     /\ c.ref.by = Token(p, life[p]) /\ Puts(kv.locks, c.ref, r.locks)
                     /\ c.op = "isHeld" => r.locks = kv.locks
                     /\ c.op = "acquire" /\ c.view = {} => r.locks = {c.ref}
<1> DEFINE c == call[p]
<1>1. CallOK(c, Token(p, life[p]))
  BY CallOfClient
<1>2. /\ LockCall(c, Token(p, life[p])) /\ c.at = "putLocks"
      /\ Request(c).version = c.version /\ Request(c).locks = TableAfter(c)
  BY <1>1, LockRequest
<1>3. ViewOK(c, kv) /\ ExactCall(c)
  BY DEF LogInv, ExactClient
<1>4. c.op \in Locking /\ c.ref.by = Token(p, life[p])
  BY <1>2 DEF LockCall
<1>5. c.version \in Nat /\ c.version <= kv.locksVersion
  BY <1>2, <1>3, <1>4 DEF ViewOK, ExactCall
<1> QED
  BY <1>2, <1>3, <1>4, <1>5, TablePuts

\* A lock that is alone in the table stays, whatever another call puts.
LEMMA LockStays ==
    ASSUME NEW s, NEW r, NEW t, NEW got, Served(s, r, t, got),
           NEW h, s.locks = {h},
           r.op = "locks" /\ r.version = s.locksVersion =>
               \E x : x # h /\ Puts(s.locks, x, r.locks)
    PROVE  t.locks = {h}
<1>1. CASE r.op = "locks" /\ r.version = s.locksVersion
  <2>1. PICK x : x # h /\ Puts(s.locks, x, r.locks)
    BY <1>1
  <2>2. {h} \ {x} = {h}
    BY <2>1
  <2> QED
    BY <1>1, <2>1, <2>2 DEF Served, Puts
<1>2. CASE ~ (r.op = "locks" /\ r.version = s.locksVersion)
  BY <1>2 DEF Served
<1> QED
  BY <1>1, <1>2

\* A request of client l of p leaves every other process as it is.
LEMMA OthersKept ==
    ASSUME HeadInv, LogInv, NEW p \in Proc, NEW l, NEW r,
           NEW t, NEW got, Served(kv, r, t, got),
           r.op = "locks" /\ r.version = kv.locksVersion =>
               \E x : x.by = Token(p, l) /\ Puts(kv.locks, x, r.locks),
           NEW q \in Proc, q # p
    PROVE  ExactClient(q, t, life[q], call[q], sent[q], held[q])
<1>1. ExactClient(q, kv, life[q], call[q], sent[q], held[q]) /\ Counted(kv)
  BY DEF LogInv
<1>2. ASSUME held[q] # Absent PROVE t.locks = {held[q]}
  <2> DEFINE h == held[q]
  <2>1. h.by = Token(q, life[q]) /\ kv.locks = {h}
    BY <1>1, <1>2 DEF HeadInv, ClientOK, ExactClient
  <2> HIDE DEF h
  <2>2. \A x : x.by = Token(p, l) => x # h
    BY <2>1, TokensDiffer
  <2>3. r.op = "locks" /\ r.version = kv.locksVersion =>
           \E x : x # h /\ Puts(kv.locks, x, r.locks)
    BY <2>2
  <2>4. t.locks = {h}
    BY <2>1, <2>3, LockStays
  <2> QED
    BY <2>4 DEF h
<1> QED
  BY <1>1, <1>2, Bystander

-----------------------------------------------------------------------------
(* Every step keeps HeadInv.                                               *)

\* No client is open at first.
LEMMA InitInv == Init => RaftInv
<1> SUFFICES ASSUME Init PROVE RaftInv
  OBVIOUS
<1>1. ShapeOK /\ ToldOK
  BY DEF Init, ShapeOK, ToldOK
<1>2. StoreOK(kv) /\ Counted(kv)
  <2>1. /\ DOMAIN kv = StoreFields
        /\ kv.lease = Nobody /\ kv.stored = {} /\ kv.seq = 0 /\ kv.seqVersion = 0
        /\ kv.changes = << >> /\ kv.locks = {} /\ kv.locksVersion = 0
    BY DEF Init, EmptyStore, StoreFields
  <2>2. DOMAIN << >> = 1..0
    OBVIOUS
  <2> QED
    BY <2>1, <2>2 DEF StoreOK, Counted
<1>3. ASSUME NEW p \in Proc
      PROVE  /\ ClientOK(p, life[p], call[p], sent[p], held[p])
             /\ ExactClient(p, kv, life[p], call[p], sent[p], held[p])
  <2>1. /\ life[p] = 0 /\ call[p] = Down
        /\ sent[p] = None /\ held[p] = Absent
    BY DEF Init
  <2>2. 0 \in 0..MaxLives
    BY RaftAssumption
  <2> QED
    BY <2>1, <2>2, IdleDown, IdleExact DEF ClientOK, ExactClient
<1> QED
  BY <1>1, <1>2, <1>3 DEF RaftInv, HeadInv, LogInv

\* What every call begins with.
LEMMA BeginsCall ==
    ASSUME ShapeOK, NEW p \in Proc, NEW op, NEW ref, NEW expected,
           Begin(p, op, ref, expected), ref.by = Token(p, life[p])
    PROVE  /\ call[p] = Idle /\ calls' \in Nat /\ DOMAIN call' = Proc
           /\ \A q \in Proc \ {p} : call'[q] = call[q]
           /\ call'[p].op = op /\ call'[p].at \in {"lease", "locks"}
           /\ op \in Writes /\ expected # Absent /\ ref.base = expected.n =>
                 WriteCall(call'[p], Token(p, life[p]))
           /\ op \in Locking => LockCall(call'[p], Token(p, life[p]))
<1> DEFINE c == [op |-> op, at |-> IF op \in Locking THEN "locks" ELSE "lease",
                 ref |-> ref, expected |-> expected, last |-> Absent,
                 version |-> 0, seq |-> 0, view |-> {}, round |-> 1]
<1>1. call[p] = Idle /\ calls' \in Nat /\ call' = [call EXCEPT ![p] = c]
  BY DEF Begin, ShapeOK
<1>2. DOMAIN call' = Proc /\ call'[p] = c /\ \A q \in Proc \ {p} : call'[q] = call[q]
  BY <1>1 DEF ShapeOK
<1>3. /\ c.op = op /\ c.ref = ref /\ c.expected = expected /\ DOMAIN c = CallFields
      /\ op \in Locking => c.at = "locks"
      /\ op \notin Locking => c.at = "lease"
  BY DEF CallFields
<1> HIDE DEF c
<1>4. op \in Writes /\ expected # Absent /\ ref.base = expected.n =>
         WriteCall(c, Token(p, life[p]))
  BY <1>3, ByOp DEF WriteCall
<1>5. op \in Locking => LockCall(c, Token(p, life[p]))
  BY <1>3 DEF LockCall
<1> QED
  BY <1>1, <1>2, <1>3, <1>4, <1>5

\* A call of p begins: everything else stays, but a lock whose release it is.
Begins(p) ==
    /\ call[p] = Idle /\ calls' \in Nat
    /\ DOMAIN call' = Proc /\ DOMAIN held' = Proc
    /\ \A q \in Proc \ {p} : call'[q] = call[q] /\ held'[q] = held[q]
    /\ CallOK(call'[p], Token(p, life[p]))
    /\ call'[p].at \in {"lease", "locks"}
    /\ call'[p].op # "open"
    /\ held'[p] \in {held[p], Absent}
    /\ call'[p].op \in {"acquire", "release"} => held'[p] = Absent
    /\ UNCHANGED <<kv, late, sent, life, misled, told>>

\* A write begins from a head that was stored.
LEMMA CallWriteBegins ==
    ASSUME HeadInv, NEW p \in Proc, CallWrite(p)
    PROVE  Begins(p)
<1>1. PICK op \in Writes, expected \in kv.stored : Begin(p, op, Fresh(p, expected.n), expected)
  BY DEF CallWrite
<1>2. Fresh(p, expected.n).by = Token(p, life[p]) /\ Fresh(p, expected.n).base = expected.n
  BY DEF Fresh, Name
<1>3. expected # Absent
  BY DEF HeadInv, StoreOK
<1>4. UNCHANGED <<late, sent, life, kv, misled, told, held>>
  BY DEF CallWrite, store
<1>5. /\ call[p] = Idle /\ calls' \in Nat /\ DOMAIN call' = Proc
      /\ \A q \in Proc \ {p} : call'[q] = call[q]
      /\ call'[p].op = op /\ call'[p].at \in {"lease", "locks"}
      /\ WriteCall(call'[p], Token(p, life[p]))
  BY <1>1, <1>2, <1>3, BeginsCall DEF HeadInv
<1>6. call'[p].op \notin {"acquire", "release", "open"}
  BY <1>1, <1>5 DEF Writes
<1> QED
  BY <1>4, <1>5, <1>6 DEF Begins, CallOK, HeadInv, ShapeOK

\* A lock is no longer relied on once its release has begun.
LEMMA CallLocksBegins ==
    ASSUME HeadInv, NEW p \in Proc, CallLocks(p)
    PROVE  Begins(p)
<1>1. UNCHANGED <<kv, late, sent, life, misled, told>>
  BY DEF CallLocks
<1>2. \/ held[p] = Absent /\ Begin(p, "acquire", Fresh(p, 0), Absent) /\ held' = held
      \/ /\ held[p] # Absent /\ Begin(p, "release", held[p], Absent)
         /\ held' = [held EXCEPT ![p] = Absent]
      \/ held[p] # Absent /\ Begin(p, "isHeld", held[p], Absent) /\ held' = held
  BY DEF CallLocks
<1>3. Fresh(p, 0).by = Token(p, life[p])
  BY DEF Fresh, Name
<1>4. held[p] # Absent => held[p].by = Token(p, life[p])
  BY DEF HeadInv, ClientOK
<1>5. PICK op, ref :
         /\ op \in Locking
         /\ ref.by = Token(p, life[p])
         /\ Begin(p, op, ref, Absent)
         /\ DOMAIN held' = Proc
         /\ \A q \in Proc \ {p} : held'[q] = held[q]
         /\ held'[p] \in {held[p], Absent}
         /\ op \in {"acquire", "release"} => held'[p] = Absent
  <2>1. CASE held[p] = Absent /\ Begin(p, "acquire", Fresh(p, 0), Absent) /\ held' = held
    BY <1>3, <2>1 DEF Locking, HeadInv, ShapeOK
  <2>2. CASE /\ held[p] # Absent /\ Begin(p, "release", held[p], Absent)
             /\ held' = [held EXCEPT ![p] = Absent]
    BY <1>4, <2>2 DEF Locking, HeadInv, ShapeOK
  <2>3. CASE held[p] # Absent /\ Begin(p, "isHeld", held[p], Absent) /\ held' = held
    BY <1>4, <2>3 DEF Locking, HeadInv, ShapeOK
  <2> QED
    BY <1>2, <2>1, <2>2, <2>3
<1>. op \in Locking
  BY <1>5
<1>6. /\ call[p] = Idle /\ calls' \in Nat /\ DOMAIN call' = Proc
      /\ \A q \in Proc \ {p} : call'[q] = call[q]
      /\ call'[p].op = op /\ call'[p].at \in {"lease", "locks"}
      /\ LockCall(call'[p], Token(p, life[p]))
  BY <1>5, BeginsCall DEF HeadInv
<1> QED
  BY <1>1, <1>5, <1>6, ByOp DEF Begins, CallOK

\* A call that begins has read nothing yet.
LEMMA BeginsKeeps ==
    ASSUME RaftInv, NEW p \in Proc, Begins(p)
    PROVE  RaftInv'
<1>1. /\ call[p] = Idle /\ call'[p].op \notin {"down", "open"}
      /\ CallOK(call'[p], Token(p, life[p]))
      /\ call'[p].at \notin {"write", "putLocks"}
  BY CallsOp DEF Begins
<1>2. ASSUME NEW q \in Proc
      PROVE  ClientOK(q, life'[q], call'[q], sent'[q], held'[q])
  <2>0. ClientOK(q, life[q], call[q], sent[q], held[q])
    BY DEF RaftInv, HeadInv
  <2>1. CASE q # p
    BY <2>0, <2>1 DEF Begins
  <2>2. CASE q = p
    BY <1>1, <2>0, <2>2, IdleDown DEF Begins, ClientOK
  <2> QED
    BY <2>1, <2>2
<1>3. HeadInv'
  BY <1>2 DEF Begins, RaftInv, HeadInv, ShapeOK, ToldOK
<1>4. ASSUME LogInv, NEW q \in Proc
      PROVE  ExactClient(q, kv', life'[q], call'[q], sent'[q], held'[q])
  <2>0. ExactClient(q, kv, life[q], call[q], sent[q], held[q])
    BY <1>4 DEF LogInv
  <2>1. CASE q # p
    BY <2>0, <2>1 DEF Begins
  <2>2. CASE q = p
    <3>1. ExactCall(call'[p]) /\ ViewOK(call'[p], kv)
      BY <1>1 DEF ExactCall, ViewOK
    <3>2. sent[p] # None => SentFits(p, kv, life[p], sent[p], held'[p])
      BY <2>0, <2>2 DEF Begins, ExactClient, SentFits
    <3>3. held'[p] # Absent => kv.locks = {held'[p]} /\ call'[p].op \notin {"acquire", "release"}
      BY <2>0, <2>2 DEF Begins, ExactClient
    <3> QED
      BY <2>2, <3>1, <3>2, <3>3 DEF Begins, ExactClient
  <2> QED
    BY <2>1, <2>2
<1>5. misled' = {} => LogInv'
  BY <1>4 DEF Begins, RaftInv, LogInv
<1> QED
  BY <1>3, <1>5 DEF RaftInv

\* Whatever answer a call takes, its request is one it may make.
LEMMA PostKeepsHead ==
    ASSUME HeadInv, NEW p \in Proc, Post(p)
    PROVE  HeadInv'
<1> DEFINE c == call[p]
           r == Request(c)
           w == Token(p, life[p])
           answer == Serve(kv, r)[2]
           got == Head(Append(late[p], answer))
<1>0. c \notin {Idle, Down} /\ StoreOK(kv) /\ ShapeOK /\ ToldOK
  BY DEF Post, HeadInv
<1>1. CallOK(c, w) /\ life[p] \in 0..MaxLives /\ life[p] # 0 /\ RequestOK(r)
  BY <1>0, CallOfClient
<1>2. Served(kv, r, Serve(kv, r)[1], answer)
  BY <1>0, <1>1, ServeMoves
<1>3. late[p] = << >> => got = answer
  OBVIOUS
<1>4. /\ kv' = Serve(kv, r)[1]
      /\ \E port : late' = [late EXCEPT ![p] = port]
      /\ call' = [call EXCEPT ![p] = Continue(c, got)]
      /\ misled' = IF late[p] = << >> THEN misled ELSE misled \cup {w}
      /\ told' = IF Succeeded(c, got) THEN told \cup {c.ref} ELSE told
      /\ held' = [held EXCEPT ![p] = IF Acquired(c, got) THEN c.ref ELSE @]
      /\ UNCHANGED <<sent, life, calls>>
  BY DEF Post
<1>5. StoreOK(kv') /\ kv.stored \subseteq kv'.stored
      /\ (r.op \in Writes /\ answer.succeeded => r.ref \in kv'.stored)
  BY <1>2, <1>4 DEF Served
<1>6. Continue(c, got) = Idle \/ (CallOK(Continue(c, got), w) /\ Continue(c, got).op = c.op)
  BY <1>1, CallGoesOn
<1>7. Acquired(c, got) => Continue(c, got) = Idle
  BY DEF Acquired, Continue, If
<1> HIDE DEF answer, got
<1>8. ShapeOK'
  BY <1>0, <1>4 DEF ShapeOK
<1>9. ToldOK'
  <2>1. ASSUME Succeeded(c, got) PROVE c.ref.by \notin misled' => c.ref \in kv'.stored
    <3>1. c.at = "write" /\ got.succeeded
      BY <2>1 DEF Succeeded
    <3>2. WriteCall(c, w)
      BY <1>1, <3>1 DEF CallOK, LockCall, OpenCall
    <3>3. c.ref.by = w
      BY <3>2 DEF WriteCall
    <3>4. r.op \in Writes /\ r.ref = c.ref
      BY <3>1, <3>2 DEF Request, WriteRequest, WriteCall
    <3>5. c.ref.by \notin misled' => got = answer
      BY <1>3, <1>4, <3>3
    <3> QED
      BY <1>5, <3>1, <3>4, <3>5
  <2>2. \A n \in told : n.by \notin misled' => n \in kv'.stored
    BY <1>0, <1>4, <1>5 DEF ToldOK
  <2> QED
    BY <1>4, <2>1, <2>2 DEF ToldOK
<1>10. ASSUME NEW q \in Proc
       PROVE  ClientOK(q, life'[q], call'[q], sent'[q], held'[q])
  <2>0. ClientOK(q, life[q], call[q], sent[q], held[q])
    BY DEF HeadInv
  <2>1. CASE q # p
    <3>1. call'[q] = call[q] /\ held'[q] = held[q]
      BY <1>0, <1>4, <2>1 DEF ShapeOK
    <3> QED
      BY <1>4, <2>0, <3>1
  <2>2. CASE q = p
    <3>1. /\ call'[p] = Continue(c, got)
          /\ held'[p] = IF Acquired(c, got) THEN c.ref ELSE held[p]
      BY <1>0, <1>4 DEF ShapeOK
    <3>2. Acquired(c, got) => c.ref.by = w /\ call'[p] = Idle
      BY <1>1, <1>7, <3>1, CallsOp DEF CallOK, WriteCall, LockCall, OpenCall
    <3>3. call'[p] = Idle \/ (CallOK(call'[p], w) /\ call'[p].op = c.op)
      BY <1>6, <3>1
    <3>4. held'[p] # Absent => held'[p].by = w /\ call'[p].op \notin {"down", "open"}
      BY <2>0, <2>2, <3>1, <3>2, <3>3, IdleDown DEF ClientOK
    <3> QED
      BY <1>1, <1>4, <2>0, <2>2, <3>3, <3>4 DEF ClientOK
  <2> QED
    BY <2>1, <2>2
<1> QED
  BY <1>5, <1>8, <1>9, <1>10 DEF HeadInv

\* With nothing else in the port, the answer taken is the request's own.
LEMMA PostKeepsLog ==
    ASSUME HeadInv, LogInv, NEW p \in Proc, Post(p), late[p] = << >>
    PROVE  LogInv'
<1> DEFINE c == call[p]
           r == Request(c)
           w == Token(p, life[p])
           got == Serve(kv, r)[2]
<1>0. /\ c \notin {Idle, Down} /\ StoreOK(kv) /\ ShapeOK /\ Counted(kv)
      /\ ExactClient(p, kv, life[p], c, sent[p], held[p])
  BY DEF Post, HeadInv, LogInv
<1>1. CallOK(c, w) /\ RequestOK(r) /\ Exact(r)
  BY <1>0, CallOfClient DEF ExactClient
<1>2. Append(late[p], got) = <<got>> /\ Head(<<got>>) = got
  OBVIOUS
<1>3. /\ kv' = Serve(kv, r)[1]
      /\ call' = [call EXCEPT ![p] = Continue(c, got)]
      /\ held' = [held EXCEPT ![p] = IF Acquired(c, got) THEN c.ref ELSE @]
      /\ UNCHANGED <<sent, life>>
  BY <1>2 DEF Post
<1>4. Served(kv, r, kv', got)
  BY <1>0, <1>1, <1>3, ServeMoves
<1>5. Continue(c, got) # Idle =>
         /\ ExactCall(Continue(c, got)) /\ ViewOK(Continue(c, got), kv')
         /\ Continue(c, got).op = c.op
  BY <1>0, <1>1, <1>4, CallContinues, CallGoesOn
<1>6. r.op = "locks" =>
         /\ c.op \in Locking /\ c.at = "putLocks"
         /\ r.version = kv.locksVersion =>
               /\ c.ref.by = w /\ Puts(kv.locks, c.ref, r.locks)
               /\ c.op = "isHeld" => r.locks = kv.locks
               /\ c.op = "acquire" /\ c.view = {} => r.locks = {c.ref}
  BY <1>0, RequestPuts
<1> HIDE DEF got
<1>7. Counted(kv')
  BY <1>0, <1>1, <1>4 DEF Served
<1>8. ASSUME NEW q \in Proc, q # p
      PROVE  ExactClient(q, kv', life'[q], call'[q], sent'[q], held'[q])
  <2>1. ExactClient(q, kv', life[q], call[q], sent[q], held[q])
    <3>1. r.op = "locks" /\ r.version = kv.locksVersion =>
             \E x : x.by = Token(p, life[p]) /\ Puts(kv.locks, x, r.locks)
      BY <1>6
    <3> QED
      BY <1>4, <1>8, <3>1, OthersKept
  <2>2. call'[q] = call[q] /\ held'[q] = held[q]
    BY <1>0, <1>3, <1>8 DEF ShapeOK
  <2> QED
    BY <1>3, <2>1, <2>2
<1>9. ExactClient(p, kv', life'[p], call'[p], sent'[p], held'[p])
  <2>1. /\ call'[p] = Continue(c, got)
        /\ life'[p] = life[p] /\ sent'[p] = sent[p]
        /\ held'[p] = IF Acquired(c, got) THEN c.ref ELSE held[p]
    BY <1>0, <1>3 DEF ShapeOK
  <2>2. ExactCall(call'[p]) /\ ViewOK(call'[p], kv')
    BY <1>5, <2>1, IdleExact
  <2>3. call'[p] = Idle \/ call'[p].op = c.op
    BY <1>5, <2>1
  <2>4. CASE Acquired(c, got)
    <3>1. c.at = "putLocks" /\ got.succeeded /\ c.op = "acquire" /\ c.view = {}
      BY <2>4 DEF Acquired
    <3>2. r.op = "locks"
      BY <3>1 DEF Request
    <3>3. r.version = kv.locksVersion
      BY <1>4, <3>1, <3>2 DEF Served
    <3>4. kv'.locks = {c.ref} /\ kv'.locksVersion = kv.locksVersion + 1
      BY <1>4, <1>6, <3>1, <3>2, <3>3 DEF Served
    <3>5. call'[p] = Idle
      BY <2>1, <3>1 DEF Continue, If
    <3>6. ExactClient(p, kv, life[p], c, sent[p], Absent)
      BY <1>0 DEF ExactClient, SentFits
    <3>7. ExactClient(p, kv', life[p], c, sent[p], Absent)
      BY <1>0, <1>4, <3>6, Bystander
    <3>8. sent[p] # None => SentFits(p, kv, life[p], sent[p], held[p])
      BY <1>0 DEF ExactClient
    <3>9. kv.locksVersion \in Nat
      BY <1>0 DEF Counted
    <3>10. ASSUME sent[p] # None PROVE SentFits(p, kv', life[p], sent[p], c.ref)
      <4>1. SentFits(p, kv', life[p], sent[p], Absent)
        BY <3>7, <3>10 DEF ExactClient
      <4>2. ASSUME sent[p].request.op = "locks"
            PROVE  sent[p].request.version # kv'.locksVersion
        <5>1. sent[p].request.version \in Nat /\ sent[p].request.version <= kv.locksVersion
          BY <3>8, <3>10, <4>2 DEF SentFits, Exact
        <5> QED
          BY <3>4, <3>9, <5>1
      <4> QED
        BY <4>1, <4>2 DEF SentFits
    <3> QED
      BY <2>1, <2>2, <2>4, <3>4, <3>5, <3>10, IdleDown DEF ExactClient
  <2>5. CASE ~ Acquired(c, got)
    <3>1. held'[p] = held[p]
      BY <2>1, <2>5
    <3>2. ASSUME held[p] # Absent
          PROVE  kv'.locks = {held[p]} /\ call'[p].op \notin {"acquire", "release"}
      <4>1. kv.locks = {held[p]} /\ c.op \notin {"acquire", "release"}
        BY <1>0, <3>2 DEF ExactClient
      <4>2. r.op = "locks" => c.op = "isHeld"
        BY <1>6, <4>1 DEF Locking
      <4>3. kv'.locks = kv.locks
        BY <1>4, <1>6, <4>2 DEF Served
      <4>4. call'[p].op \notin {"acquire", "release"}
        BY <2>3, <4>1, IdleDown
      <4> QED
        BY <4>1, <4>3, <4>4
    <3>3. ExactClient(p, kv', life[p], c, sent[p], held[p])
      <4>1. ExactClient(p, kv, life[p], c, sent[p], held[p]) /\ Counted(kv)
        BY <1>0
      <4>2. held[p] # Absent => kv'.locks = {held[p]}
        BY <3>2
      <4> QED
        BY <1>4, <4>1, <4>2, Bystander
    <3>4. sent[p] # None => SentFits(p, kv', life[p], sent[p], held[p])
      BY <3>3 DEF ExactClient
    <3> QED
      BY <2>1, <2>2, <3>1, <3>2, <3>4 DEF ExactClient
  <2> QED
    BY <2>4, <2>5
<1> QED
  BY <1>7, <1>8, <1>9 DEF LogInv

\* A request that is given up on is one its client may make.
LEMMA TimeoutKeeps ==
    ASSUME RaftInv, NEW p \in Proc, Timeout(p)
    PROVE  RaftInv'
<1> DEFINE c == call[p]
           w == Token(p, life[p])
           e == [request |-> Request(c), life |-> life[p]]
           d == IF c.op = "open" THEN Down ELSE Idle
<1>0. c \notin {Idle, Down} /\ HeadInv /\ ShapeOK
  BY DEF Timeout, RaftInv, HeadInv
<1>1. /\ CallOK(c, w) /\ life[p] \in 0..MaxLives /\ RequestOK(Request(c))
      /\ ExactCall(c) => Exact(Request(c))
  BY <1>0, CallOfClient
<1>2. /\ sent' = [sent EXCEPT ![p] = e]
      /\ call' = [call EXCEPT ![p] = d]
      /\ UNCHANGED <<late, life, kv, misled, told, held, calls>>
  BY DEF Timeout, store
<1>3. /\ e.request = Request(c) /\ e.life = life[p]
      /\ d \in {Idle, Down} /\ (d.op = "down" => c.op = "open")
      /\ d.op \notin {"open", "acquire", "release"}
  BY DEF Idle, Down
<1> HIDE DEF e, d
<1>4. /\ sent'[p] = e /\ call'[p] = d
      /\ \A q \in Proc \ {p} : sent'[q] = sent[q] /\ call'[q] = call[q]
  BY <1>0, <1>2 DEF ShapeOK
<1>5. ASSUME NEW q \in Proc
      PROVE  ClientOK(q, life'[q], call'[q], sent'[q], held'[q])
  <2>0. ClientOK(q, life[q], call[q], sent[q], held[q])
    BY <1>0 DEF HeadInv
  <2>1. CASE q # p
    BY <1>2, <1>4, <2>0, <2>1
  <2>2. CASE q = p
    <3>1. life[p] # 0
      BY <1>0, CallOfClient
    <3>2. held[p] # Absent => held[p].by = w /\ d.op \notin {"down", "open"}
      BY <1>3, <2>0, <2>2 DEF ClientOK
    <3> QED
      BY <1>1, <1>2, <1>3, <1>4, <2>2, <3>1, <3>2 DEF ClientOK
  <2> QED
    BY <2>1, <2>2
<1>6. HeadInv'
  BY <1>0, <1>2, <1>5 DEF HeadInv, ShapeOK, ToldOK
<1>7. ASSUME LogInv PROVE LogInv'
  <2>0. ExactClient(p, kv, life[p], c, sent[p], held[p])
    BY <1>7 DEF LogInv
  <2>1. SentFits(p, kv, life[p], e, held[p])
    <3>1. life[p] \in Nat
      BY <1>1, RaftAssumption
    <3>2. Exact(e.request)
      BY <1>1, <1>3, <2>0 DEF ExactClient
    <3>3. ASSUME e.request.op = "locks"
          PROVE  /\ e.request.version <= kv.locksVersion
                 /\ e.request.version = kv.locksVersion =>
                       /\ \E x : x.by = Token(p, e.life) /\ Puts(kv.locks, x, e.request.locks)
                       /\ held[p] # Absent => e.request.locks = kv.locks
      <4>1. /\ c.op \in Locking /\ e.request.version <= kv.locksVersion
            /\ e.request.version = kv.locksVersion =>
                  /\ c.ref.by = w /\ Puts(kv.locks, c.ref, e.request.locks)
                  /\ c.op = "isHeld" => e.request.locks = kv.locks
        BY <1>0, <1>3, <1>7, <3>3, RequestPuts
      <4>2. held[p] # Absent => c.op = "isHeld"
        BY <2>0, <4>1 DEF ExactClient, Locking
      <4> QED
        BY <1>3, <4>1, <4>2
    <3> QED
      BY <1>3, <3>1, <3>2, <3>3 DEF SentFits
  <2>2. ASSUME NEW q \in Proc
        PROVE  ExactClient(q, kv', life'[q], call'[q], sent'[q], held'[q])
    <3>0. ExactClient(q, kv, life[q], call[q], sent[q], held[q])
      BY <1>7 DEF LogInv
    <3>1. CASE q # p
      BY <1>2, <1>4, <3>0, <3>1
    <3>2. CASE q = p
      <4>1. ExactCall(d) /\ ViewOK(d, kv)
        BY <1>3, IdleExact
      <4> QED
        BY <1>2, <1>3, <1>4, <2>1, <3>0, <3>2, <4>1 DEF ExactClient
    <3> QED
      BY <3>1, <3>2
  <2> QED
    BY <1>2, <1>7, <2>2 DEF LogInv
<1> QED
  BY <1>2, <1>6, <1>7 DEF RaftInv

\* A request served late is one its client could make, and what the store does
\* with it is in no call's answer yet.
LEMMA ServedLateKeeps ==
    ASSUME RaftInv, NEW p \in Proc, ServedLate(p)
    PROVE  RaftInv'
<1> DEFINE e == sent[p]
           r == e.request
           got == Serve(kv, r)[2]
<1>0. /\ e # None /\ HeadInv /\ ShapeOK /\ StoreOK(kv) /\ ToldOK
      /\ RequestOK(r)
  BY DEF ServedLate, RaftInv, HeadInv, ClientOK
<1>1. Served(kv, r, Serve(kv, r)[1], got)
  BY <1>0, ServeMoves
<1>2. /\ kv' = Serve(kv, r)[1]
      /\ \E port : late' = [late EXCEPT ![p] = port]
      /\ sent' = [sent EXCEPT ![p] = None]
      /\ UNCHANGED <<call, life, misled, told, held, calls>>
  <2>1. late' = [late EXCEPT ![p] = IF sent[p].life = life[p] /\ call[p] # Down
                                    THEN Append(late[p], got) ELSE late[p]]
    BY DEF ServedLate
  <2> HIDE DEF got
  <2> QED
    BY <2>1 DEF ServedLate
<1>3. Served(kv, r, kv', got)
  BY <1>1, <1>2
<1> HIDE DEF got
<1>4. StoreOK(kv') /\ ShapeOK' /\ ToldOK'
  BY <1>0, <1>2, <1>3 DEF Served, ShapeOK, ToldOK
<1>5. sent'[p] = None /\ \A q \in Proc \ {p} : sent'[q] = sent[q]
  BY <1>0, <1>2 DEF ShapeOK
<1>6. ASSUME NEW q \in Proc
      PROVE  ClientOK(q, life'[q], call'[q], sent'[q], held'[q])
  <2>1. ClientOK(q, life[q], call[q], sent[q], held[q])
    BY <1>0 DEF HeadInv
  <2>2. sent'[q] \in {sent[q], None}
    BY <1>5
  <2> QED
    BY <1>2, <2>1, <2>2 DEF ClientOK
<1>7. HeadInv'
  BY <1>4, <1>6 DEF HeadInv
<1>8. ASSUME LogInv PROVE LogInv'
  <2>1. /\ ExactClient(p, kv, life[p], call[p], e, held[p])
        /\ SentFits(p, kv, life[p], e, held[p]) /\ Counted(kv)
    BY <1>0, <1>8 DEF LogInv, ExactClient
  <2>2. Counted(kv')
    BY <1>3, <2>1 DEF Served, SentFits
  <2>3. r.op = "locks" /\ r.version = kv.locksVersion =>
           /\ \E x : x.by = Token(p, e.life) /\ Puts(kv.locks, x, r.locks)
           /\ e.life = life[p] /\ held[p] # Absent => r.locks = kv.locks
    BY <2>1 DEF SentFits
  <2>4. ASSUME held[p] # Absent PROVE kv'.locks = {held[p]}
    <3> DEFINE h == held[p]
    <3>1. h.by = Token(p, life[p]) /\ kv.locks = {h}
      BY <1>0, <2>1, <2>4 DEF HeadInv, ClientOK, ExactClient
    <3>2. CASE e.life = life[p]
      <4>1. kv'.locks = kv.locks
        BY <1>3, <2>3, <2>4, <3>2 DEF Served
      <4> QED
        BY <3>1, <4>1
    <3>3. CASE e.life # life[p]
      <4> HIDE DEF h
      <4>1. \A x : x.by = Token(p, e.life) => x # h
        BY <3>1, <3>3, TokensDiffer
      <4>2. r.op = "locks" /\ r.version = kv.locksVersion =>
               \E x : x # h /\ Puts(kv.locks, x, r.locks)
        BY <2>3, <4>1
      <4> HIDE DEF r
      <4>3. kv'.locks = {h}
        BY <1>3, <3>1, <4>2, LockStays
      <4> QED
        BY <4>3 DEF h
    <3> QED
      BY <3>2, <3>3
  <2>5. ASSUME NEW q \in Proc
        PROVE  ExactClient(q, kv', life'[q], call'[q], sent'[q], held'[q])
    <3>1. ExactClient(q, kv', life[q], call[q], sent[q], held[q])
      <4>1. CASE q # p
        BY <1>0, <1>3, <1>8, <2>3, <4>1, OthersKept
      <4>2. CASE q = p
        BY <1>3, <2>1, <2>4, <4>2, Bystander
      <4> QED
        BY <4>1, <4>2
    <3>2. sent'[q] \in {sent[q], None}
      BY <1>5
    <3> QED
      BY <1>2, <3>1, <3>2 DEF ExactClient
  <2> QED
    BY <2>2, <2>5 DEF LogInv
<1> QED
  BY <1>2, <1>7, <1>8 DEF RaftInv

\* A new client has a token no earlier one had.
LEMMA OpenKeeps ==
    ASSUME RaftInv, NEW p \in Proc, Open(p)
    PROVE  RaftInv'
<1> DEFINE c == [op |-> "open", at |-> "own", ref |-> Name(Token(p, life[p] + 1), 0, 0)]
<1>0. /\ call[p] = Down /\ life[p] < MaxLives /\ ShapeOK /\ MaxLives \in Nat
      /\ ClientOK(p, life[p], call[p], sent[p], held[p])
  BY RaftAssumption DEF Open, RaftInv, HeadInv
<1>1. /\ life' = [life EXCEPT ![p] = @ + 1]
      /\ late' = [late EXCEPT ![p] = << >>]
      /\ call' = [call EXCEPT ![p] = c]
      /\ UNCHANGED <<sent, kv, misled, told, held, calls>>
  BY DEF Open, store
<1>2. c.op = "open" /\ OpenCall(c, Token(p, life[p] + 1))
  BY DEF OpenCall, Name
<1>3. ExactCall(c) /\ ViewOK(c, kv)
  BY <1>2, ByOp DEF ExactCall, ViewOK
<1> HIDE DEF c
<1>4. /\ life'[p] = life[p] + 1 /\ call'[p] = c
      /\ \A q \in Proc \ {p} : life'[q] = life[q] /\ call'[q] = call[q]
  BY <1>0, <1>1 DEF ShapeOK
<1>5. held[p] = Absent /\ life[p] + 1 \in 0..MaxLives /\ life[p] + 1 # 0
  BY <1>0, IdleDown DEF ClientOK
<1>6. ASSUME NEW q \in Proc
      PROVE  ClientOK(q, life'[q], call'[q], sent'[q], held'[q])
  <2>0. ClientOK(q, life[q], call[q], sent[q], held[q])
    BY DEF RaftInv, HeadInv
  <2>1. CASE q # p
    BY <1>1, <1>4, <2>0, <2>1
  <2>2. CASE q = p
    BY <1>1, <1>2, <1>4, <1>5, <2>0, <2>2 DEF ClientOK, CallOK
  <2> QED
    BY <2>1, <2>2
<1>7. HeadInv'
  BY <1>1, <1>6 DEF RaftInv, HeadInv, ShapeOK, ToldOK
<1>8. ASSUME LogInv PROVE LogInv'
  <2>1. ASSUME NEW q \in Proc
        PROVE  ExactClient(q, kv', life'[q], call'[q], sent'[q], held'[q])
    <3>0. ExactClient(q, kv, life[q], call[q], sent[q], held[q])
      BY <1>8 DEF LogInv
    <3>1. CASE q # p
      BY <1>1, <1>4, <3>0, <3>1
    <3>2. CASE q = p
      <4>1. life[p] \in Nat
        BY <1>0 DEF ClientOK
      <4>2. sent[p] # None => SentFits(p, kv, life[p] + 1, sent[p], Absent)
        BY <3>0, <3>2, <4>1 DEF ExactClient, SentFits
      <4> QED
        BY <1>1, <1>3, <1>4, <1>5, <3>2, <4>2 DEF ExactClient
    <3> QED
      BY <3>1, <3>2
  <2> QED
    BY <1>1, <1>8, <2>1 DEF LogInv
<1> QED
  BY <1>1, <1>7, <1>8 DEF RaftInv

\* A process that dies forgets its call and its lock.
LEMMA CrashKeeps ==
    ASSUME RaftInv, NEW p \in Proc, Crash(p)
    PROVE  RaftInv'
<1>0. ShapeOK
  BY DEF RaftInv, HeadInv
<1>1. /\ call' = [call EXCEPT ![p] = Down]
      /\ late' = [late EXCEPT ![p] = << >>]
      /\ held' = [held EXCEPT ![p] = Absent]
      /\ UNCHANGED <<kv, sent, life, misled, told, calls>>
  BY DEF Crash
<1>2. /\ call'[p] = Down /\ held'[p] = Absent
      /\ \A q \in Proc \ {p} : call'[q] = call[q] /\ held'[q] = held[q]
  BY <1>0, <1>1 DEF ShapeOK
<1>3. ASSUME NEW q \in Proc
      PROVE  ClientOK(q, life'[q], call'[q], sent'[q], held'[q])
  <2>0. ClientOK(q, life[q], call[q], sent[q], held[q])
    BY DEF RaftInv, HeadInv
  <2>1. CASE q # p
    BY <1>1, <1>2, <2>0, <2>1
  <2>2. CASE q = p
    BY <1>1, <1>2, <2>0, <2>2, IdleDown DEF ClientOK
  <2> QED
    BY <2>1, <2>2
<1>4. HeadInv'
  BY <1>1, <1>3 DEF RaftInv, HeadInv, ShapeOK, ToldOK
<1>5. ASSUME LogInv PROVE LogInv'
  <2>1. ASSUME NEW q \in Proc
        PROVE  ExactClient(q, kv', life'[q], call'[q], sent'[q], held'[q])
    <3>0. ExactClient(q, kv, life[q], call[q], sent[q], held[q])
      BY <1>5 DEF LogInv
    <3>1. CASE q # p
      BY <1>1, <1>2, <3>0, <3>1
    <3>2. CASE q = p
      <4>1. sent[p] # None => SentFits(p, kv, life[p], sent[p], Absent)
        BY <3>0, <3>2 DEF ExactClient, SentFits
      <4> QED
        BY <1>1, <1>2, <3>2, <4>1, IdleExact DEF ExactClient
    <3> QED
      BY <3>1, <3>2
  <2> QED
    BY <1>1, <1>5, <2>1 DEF LogInv
<1> QED
  BY <1>1, <1>4, <1>5 DEF RaftInv

\* The lease is not what a client relies on: the transaction compares it.
LEMMA LapseKeeps ==
    ASSUME RaftInv, LeaseLapses
    PROVE  RaftInv'
<1>1. /\ kv' = [kv EXCEPT !.lease = Nobody, !.leaseVersion = 0]
      /\ UNCHANGED <<call, late, sent, life, misled, told, held, calls>>
      /\ StoreOK(kv)
  BY DEF LeaseLapses, RaftInv, HeadInv
<1>2. /\ DOMAIN kv' = StoreFields /\ kv'.lease = Nobody
      /\ kv'.stored = kv.stored
      /\ kv'.seq = kv.seq /\ kv'.seqVersion = kv.seqVersion /\ kv'.changes = kv.changes
      /\ kv'.locks = kv.locks /\ kv'.locksVersion = kv.locksVersion
  BY <1>1 DEF StoreOK, StoreFields
<1>3. HeadInv'
  BY <1>1, <1>2 DEF RaftInv, HeadInv, StoreOK, ShapeOK, ToldOK
<1>4. LogInv => LogInv'
  BY <1>1, <1>2 DEF LogInv, Counted, ExactClient, ViewOK, SentFits
<1> QED
  BY <1>1, <1>3, <1>4 DEF RaftInv

\* A step that changes nothing keeps the invariant.
LEMMA StutterKeeps ==
    ASSUME RaftInv, UNCHANGED vars
    PROVE  RaftInv'
<1>1. UNCHANGED <<kv, call, late, sent, life, misled, told, held, calls>>
  BY DEF vars, store
<1>2. HeadInv'
  BY <1>1 DEF RaftInv, HeadInv, ShapeOK, ToldOK
<1>3. LogInv => LogInv'
  BY <1>1 DEF LogInv
<1> QED
  BY <1>1, <1>2, <1>3 DEF RaftInv

\* Every step keeps the invariant.
LEMMA StepKeeps ==
    ASSUME RaftInv, [Next]_vars
    PROVE  RaftInv'
<1>1. ASSUME NEW p \in Proc, CallWrite(p) PROVE RaftInv'
  BY <1>1, CallWriteBegins, BeginsKeeps DEF RaftInv
<1>2. ASSUME NEW p \in Proc, CallLocks(p) PROVE RaftInv'
  BY <1>2, CallLocksBegins, BeginsKeeps DEF RaftInv
<1>3. ASSUME NEW p \in Proc, Post(p) PROVE RaftInv'
  <2>1. HeadInv'
    BY <1>3, PostKeepsHead DEF RaftInv
  <2>2. misled' = {} => misled = {} /\ late[p] = << >>
    BY <1>3 DEF Post
  <2>3. misled' = {} => LogInv'
    BY <1>3, <2>2, PostKeepsLog DEF RaftInv
  <2> QED
    BY <2>1, <2>3 DEF RaftInv
<1>4. ASSUME NEW p \in Proc, Timeout(p) PROVE RaftInv'
  BY <1>4, TimeoutKeeps
<1>5. ASSUME NEW p \in Proc, ServedLate(p) PROVE RaftInv'
  BY <1>5, ServedLateKeeps
<1>6. ASSUME NEW p \in Proc, Open(p) PROVE RaftInv'
  BY <1>6, OpenKeeps
<1>7. ASSUME NEW p \in Proc, Crash(p) PROVE RaftInv'
  BY <1>7, CrashKeeps
<1>8. CASE LeaseLapses
  BY <1>8, LapseKeeps
<1>9. CASE UNCHANGED vars
  BY <1>9, StutterKeeps
<1> QED
  BY <1>1, <1>2, <1>3, <1>4, <1>5, <1>6, <1>7, <1>8, <1>9 DEF Next

-----------------------------------------------------------------------------
(* The refinement.                                                         *)

\* What a step does to the keys: a step of DurableStore, or none.
LEMMA StepMoves ==
    ASSUME HeadInv, [Next]_vars
    PROVE  \/ Moved(kv, kv') /\ (LogInv => Logged(kv, kv'))
           \/ LeaseLapses
<1> DEFINE Goal == Moved(kv, kv') /\ (LogInv => Logged(kv, kv'))
<1>0. ASSUME kv' = kv PROVE Goal
  BY <1>0 DEF Moved, Kept, Logged
<1>1. ASSUME NEW p \in Proc, CallWrite(p) PROVE Goal
  BY <1>0, <1>1 DEF CallWrite, store
<1>2. ASSUME NEW p \in Proc, CallLocks(p) PROVE Goal
  BY <1>0, <1>2 DEF CallLocks
<1>3. ASSUME NEW p \in Proc, Post(p) PROVE Goal
  <2>1. call[p] \notin {Idle, Down} /\ kv' = Serve(kv, Request(call[p]))[1]
    BY <1>3 DEF Post
  <2>2. RequestOK(Request(call[p])) /\ (LogInv => Exact(Request(call[p])))
    BY <2>1, CallOfClient DEF LogInv, ExactClient
  <2> QED
    BY <2>1, <2>2, ServeMoves DEF Served, HeadInv, LogInv
<1>4. ASSUME NEW p \in Proc, Timeout(p) PROVE Goal
  BY <1>0, <1>4 DEF Timeout, store
<1>5. ASSUME NEW p \in Proc, ServedLate(p) PROVE Goal
  <2>1. sent[p] # None /\ kv' = Serve(kv, sent[p].request)[1]
    BY <1>5 DEF ServedLate
  <2>2. RequestOK(sent[p].request) /\ (LogInv => Exact(sent[p].request))
    BY <2>1 DEF HeadInv, ClientOK, LogInv, ExactClient, SentFits
  <2> QED
    BY <2>1, <2>2, ServeMoves DEF Served, HeadInv, LogInv
<1>6. ASSUME NEW p \in Proc, Open(p) PROVE Goal
  BY <1>0, <1>6 DEF Open, store
<1>7. ASSUME NEW p \in Proc, Crash(p) PROVE Goal
  BY <1>0, <1>7 DEF Crash
<1>8. CASE UNCHANGED vars
  BY <1>0, <1>8 DEF vars, store
<1> QED
  BY <1>1, <1>2, <1>3, <1>4, <1>5, <1>6, <1>7, <1>8 DEF Next

\* What a request does to head, binding and writer is a step of DurableStore on
\* the mapped variables.
LEMMA MovedIsDurable ==
    ASSUME Moved(kv, kv')
    PROVE  [Heads!Next]_(Heads!vars)
<1>0. Heads!Absent = Absent /\ Heads!Genesis = Genesis
  BY DEF Heads!Absent, Absent, Heads!Genesis, Genesis, Name
<1>1. CASE Kept(kv, kv')
  BY <1>1 DEF Kept, Heads!vars
<1>2. CASE /\ kv.head = Absent /\ kv'.head = Genesis /\ kv'.lease = kv.lease
           /\ kv'.bound = kv.bound
  <2>1. Heads!Seed
    BY <1>0, <1>2 DEF Heads!Seed
  <2> QED
    BY <2>1 DEF Heads!Next
<1>3. CASE kv'.lease \in WriterSet /\ kv'.head = kv.head /\ kv'.bound = kv.bound
  <2>1. Heads!Open
    BY <1>3 DEF Heads!Open, WriterSet, Client
  <2> QED
    BY <2>1 DEF Heads!Next
<1>4. CASE NextHead(kv, kv') /\ kv'.bound \in {kv.bound, kv'.head}
  <2>1. Heads!Swap
    BY <1>0, <1>4, NobodyWrites DEF Heads!Swap, Heads!NewHead, NextHead
  <2> QED
    BY <2>1 DEF Heads!Next
<1> QED
  BY <1>1, <1>2, <1>3, <1>4 DEF Moved

\* With the log, it is one as long as the log is moved as it should be.
LEMMA LoggedIsDurable ==
    ASSUME Moved(kv, kv'), Logged(kv, kv')
    PROVE  Durable!Next \/ UNCHANGED Durable!vars
<1>0. ChangeLog = Log(kv) /\ ChangeLog' = Log(kv') /\ Durable!Absent = Absent /\ Durable!Genesis = Genesis
  BY DEF ChangeLog, Log, Durable!Absent, Absent, Durable!Genesis, Genesis, Name
<1>1. ASSUME NextHead(kv, kv') PROVE Durable!NewHead
  BY <1>0, <1>1, NobodyWrites DEF NextHead, Durable!NewHead
<1>2. CASE /\ NextHead(kv, kv') /\ kv'.bound = kv.bound
           /\ Log(kv') = Append(Log(kv), [before |-> kv.head, after |-> kv'.head])
  <2>1. Durable!Commit
    BY <1>0, <1>1, <1>2 DEF Durable!Commit, NextHead
  <2> QED
    BY <2>1 DEF Durable!Next
<1>3. CASE Log(kv') = Log(kv)
  <2>1. CASE Kept(kv, kv')
    BY <1>0, <1>3, <2>1 DEF Kept, Durable!vars
  <2>2. CASE /\ kv.head = Absent /\ kv'.head = Genesis /\ kv'.lease = kv.lease
             /\ kv'.bound = kv.bound
    <3>1. Durable!Seed
      BY <1>0, <1>3, <2>2 DEF Durable!Seed
    <3> QED
      BY <3>1 DEF Durable!Next
  <2>3. CASE kv'.lease \in WriterSet /\ kv'.head = kv.head /\ kv'.bound = kv.bound
    <3>1. Durable!Open
      BY <1>0, <1>3, <2>3 DEF Durable!Open, WriterSet, Client
    <3> QED
      BY <3>1 DEF Durable!Next
  <2>4. CASE NextHead(kv, kv') /\ kv'.bound \in {kv.bound, kv'.head}
    <3>1. Durable!Swap
      BY <1>0, <1>1, <1>3, <2>4 DEF Durable!Swap, NextHead
    <3> QED
      BY <3>1 DEF Durable!Next
  <2> QED
    BY <2>1, <2>2, <2>3, <2>4 DEF Moved
<1> QED
  BY <1>2, <1>3 DEF Logged

\* A lease that lapses is a step of DurableStore.
LEMMA LapseIsDurable ==
    ASSUME HeadInv, LeaseLapses
    PROVE  Heads!Next /\ Durable!Next
<1>1. DOMAIN kv = StoreFields /\ kv' = [kv EXCEPT !.lease = Nobody, !.leaseVersion = 0]
  BY DEF HeadInv, StoreOK, LeaseLapses
<1>2. /\ kv'.lease = Nobody /\ kv'.head = kv.head /\ kv'.bound = kv.bound
      /\ kv'.seq = kv.seq /\ kv'.changes = kv.changes
  BY <1>1 DEF StoreFields
<1>3. Heads!Lapse /\ Durable!Lapse
  BY <1>2 DEF Heads!Lapse, Durable!Lapse, ChangeLog
<1> QED
  BY <1>3 DEF Heads!Next, Durable!Next

\* The empty store is DurableStore's first state.
LEMMA InitIsDurable == Init => Heads!Init /\ Durable!Init
<1> SUFFICES ASSUME Init PROVE Heads!Init /\ Durable!Init
  OBVIOUS
<1>1. kv.head = Absent /\ kv.bound = Absent /\ kv.lease = Nobody /\ kv.seq = 0
  BY DEF Init, EmptyStore
<1>2. ChangeLog = << >>
  BY <1>1 DEF ChangeLog
<1>3. Heads!Init
  BY <1>1 DEF Heads!Init, Heads!Absent, Absent, Name
<1> QED
  BY <1>1, <1>2, <1>3 DEF Durable!Init, Durable!Absent, Absent, Name

\* No client that was misled is forgotten.
LEMMA MisledGrows ==
    ASSUME [Next]_vars, misled' = {}
    PROVE  misled = {}
<1>1. ASSUME NEW p \in Proc, Post(p) PROVE misled = {}
  BY <1>1 DEF Post
<1>2. CASE \A p \in Proc : ~ Post(p)
  BY <1>2 DEF Next, vars, store, CallWrite, CallLocks, Timeout, ServedLate, Open, Crash,
              LeaseLapses
<1> QED
  BY <1>1, <1>2

\* The invariant holds of every run.
LEMMA Invariance == Spec => []RaftInv
<1>1. RaftInv /\ [Next]_vars => RaftInv'
  BY StepKeeps
<1> QED
  BY <1>1, InitInv, PTL DEF Spec

\* For any processes, clients, calls and rounds: head and binding in etcd move
\* together, one write at a time and by the writer of that moment only, whatever
\* answers a client takes; and as long as none took another request's answer the
\* log gets the change between the two heads (raftDurableCoordinator.ts,
\* commitAtomic and casHead).
THEOREM WritersAreFenced == Spec => Fenced
<1>1. RaftInv /\ [Next]_vars => [Heads!Next]_(Heads!vars)
  BY StepMoves, MovedIsDurable, LapseIsDurable DEF RaftInv
<1>2. RaftInv /\ [Next]_vars =>
         [misled' = {} => Durable!Next \/ UNCHANGED Durable!vars]_vars
  BY StepMoves, MisledGrows, LoggedIsDurable, LapseIsDurable DEF RaftInv
<1> QED
  BY <1>1, <1>2, Invariance, InitIsDurable, PTL DEF Spec, Fenced, Heads!Spec

\* So a write that was answered with success is stored, unless its client took
\* another request's answer; and as long as no client did, a lock a process was
\* told it has is in the table, alone (RaftResourceLockTable.mutate).
THEOREM ToldIsSo == Spec => []ToldUnlessMisled
<1>1. RaftInv => ToldUnlessMisled
  BY DEF RaftInv, HeadInv, LogInv, ToldOK, ExactClient, ToldUnlessMisled
<1> QED
  BY <1>1, Invariance, PTL
=============================================================================
