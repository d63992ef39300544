------------------------------ MODULE FileStore ------------------------------
(***************************************************************************)
(* The durable coordinator and the lock table in the files of one          *)
(* directory (runtime/src/memory: fileLock.ts, atomicWrite.ts,             *)
(* fileDurablePersistence.ts, fileResourceLockTable.ts).  Every access     *)
(* takes the directory lock, reads a file as a whole, decides on what it   *)
(* read, publishes the next content by a rename and gives the lock back.   *)
(* CoordinationRuntime takes an access as one step; here it is several,    *)
(* and a process may die, or the machine lose its power, between any two.  *)
(*                                                                         *)
(* The bundle is the sequence of the snapshots written to it, each by a    *)
(* name; log and binding are in the same file.  All footprints overlap,    *)
(* and the leases of locks are left out.  Directories can be flushed; the  *)
(* directory itself, created at the first boot, is taken as durable.       *)
(***************************************************************************)
EXTENDS Naturals, Sequences, SequencesExt

CONSTANTS
    Proc,           \* the processes on the directory
    None,
    Abandoned,      \* the directory lock in the hands of nobody who is alive
    MaxNames,       \* bound: snapshots and tickets together
    MaxCrashes      \* bound: deaths of processes and power losses

ASSUME FileAssumption ==
    /\ {None, Abandoned} \cap Proc = {} /\ None # Abandoned
    /\ None \notin Nat
    /\ {MaxNames, MaxCrashes} \subseteq Nat

VARIABLES
    lock,       \* the holder of .durable.lock
    file,       \* file[f]: the content readers find under the name f
    kept,       \* kept[f]: the contents a power loss may leave there
    at,         \* at[p]: where p stands in its access, "off" without a process
    job,        \* job[p]: the access, what it publishes and what it answers
    t0,         \* t0[p]: the genesis p was opened with
    seen,       \* seen[p]: the head p has read last
    held,       \* held[p]: the ticket p was told it has locked
    acked,      \* the snapshots whose write returned with success
    names, crashes

disk == <<lock, file, kept>>
memory == <<t0, seen, held>>
bounds == <<names, crashes>>
vars == <<disk, at, job, memory, acked, bounds>>

File == {"bundle", "locks"}

BundleOps == {"open", "read", "swap"}

LockOps == {"acquire", "release", "isHeld"}

\* Contents: in the page cache, on the device, or neither (zeroes).
Content(data, where) == [data |-> data, where |-> where]

\* Variant: written and closed, and never flushed.
WriteCached(data) == Content(data, "cached")

\* writeFileDurable: the temporary file is flushed before its rename.
WriteFileDurable(data) == Content(data, "device")

Missing == Content(<<>>, "device")

Job(op, name) == [op |-> op, name |-> name, data |-> <<>>, result |-> "failure"]

NoJob == Job("none", None)

Init ==
    /\ lock = None
    /\ file = [f \in File |-> Missing]
    /\ kept = [f \in File |-> {Missing}]
    /\ at = [p \in Proc |-> "off"]
    /\ job = [p \in Proc |-> NoJob]
    /\ t0 = [p \in Proc |-> None] /\ seen = t0 /\ held = t0
    /\ acked = {}
    /\ names = 0 /\ crashes = 0

-----------------------------------------------------------------------------
(* The directory lock.                                                     *)

Name == names + 1

\* p begins an access; those that bring something new have a name for it.
Begin(p, op, name) ==
    /\ at' = [at EXCEPT ![p] = "wait"]
    /\ job' = [job EXCEPT ![p] = Job(op, name)]
    /\ IF name = Name THEN Name <= MaxNames /\ names' = Name ELSE UNCHANGED names
    /\ UNCHANGED <<disk, acked, crashes>>

\* createFileRuntimePersistence, with an initial snapshot.
Open(p) ==
    /\ at[p] = "off"
    /\ Begin(p, "open", Name)
    /\ UNCHANGED memory

Access(p) ==
    /\ at[p] = "idle"
    /\ \/ Begin(p, "read", None) /\ UNCHANGED memory
       \/ seen[p] # None /\ Begin(p, "swap", Name) /\ UNCHANGED memory
       \/ held[p] = None /\ Begin(p, "acquire", Name) /\ UNCHANGED memory
       \/ /\ held[p] # None
          /\ Begin(p, "release", held[p])
          /\ held' = [held EXCEPT ![p] = None]
          /\ UNCHANGED <<t0, seen>>
       \/ held[p] # None /\ Begin(p, "isHeld", held[p]) /\ UNCHANGED memory

\* Variant: the candidate is renamed over the lock file.
Overwrites == TRUE

\* linkSync fails if the name exists, whoever holds it.
LinksIfAbsent == lock = None

AcquireFileLock(p) ==
    /\ at[p] = "wait"
    /\ LinksIfAbsent
    /\ lock' = p
    /\ at' = [at EXCEPT ![p] = "load"]
    /\ UNCHANGED <<file, kept, job, memory, acked, bounds>>

\* The access throws.  A process that cannot open does not come up.
Thrown(p) == at' = [at EXCEPT ![p] = IF job[p].op = "open" THEN "off" ELSE "idle"]

GiveUp(p) ==
    /\ at[p] = "wait"
    /\ Thrown(p)
    /\ UNCHANGED <<disk, job, memory, acked, bounds>>

-----------------------------------------------------------------------------
(* An access under the lock.                                               *)

\* What to do after the read: publish `data`, answer, or throw.
Decided(to, data, result) == [at |-> to, data |-> data, result |-> result]

Throws == Decided("release", <<>>, "failure")

\* Variant: two first boots each publish their own genesis.
InitialAnyway(j) == Decided("publish", <<j.name>>, "success")

\* The first to open finds no bundle and publishes its own genesis.
Opened(j) ==
    IF file["bundle"].data = <<>> THEN Decided("publish", <<j.name>>, "success")
    ELSE Decided("release", file["bundle"].data, "success")

\* commit and compareAndSwapHead: a refused one publishes what it read.
Swapped(p, bundle) ==
    IF Last(bundle) = seen[p] THEN Decided("publish", Append(bundle, job[p].name), "success")
    ELSE Decided("publish", bundle, "failure")

\* The generation of the bundle is the one p was opened with.
SameGeneration(p) == file["bundle"].data # <<>> /\ Head(file["bundle"].data) = t0[p]

\* Variant: an acquire does not look for footprints that overlap.
PushesAnyway(j, table) ==
    CASE j.op = "acquire" -> Decided("publish", Append(table, j.name), "success")
      [] j.op = "release" -> Decided("publish", Remove(table, j.name), "success")
      [] j.op = "isHeld" -> Decided("publish", table, "failure")

\* The lock table is published by every access, changed or not.
TableAccess(j, table) ==
    CASE j.op = "acquire" ->
           IF table = <<>> THEN Decided("publish", <<j.name>>, "success")
                           ELSE Decided("publish", table, "failure")
      [] j.op = "release" -> Decided("publish", Remove(table, j.name), "success")
      [] j.op = "isHeld" -> Decided("publish", table, "failure")

FileOf(op) == IF op \in LockOps THEN "locks" ELSE "bundle"

Decision(p) ==
    LET j == job[p]
        f == FileOf(j.op)
    IN  IF file[f].where = "torn" THEN Throws
        ELSE CASE j.op = "open" -> Opened(j)
               [] j.op = "read" ->
                    IF SameGeneration(p) THEN Decided("release", file[f].data, "success") ELSE Throws
               [] j.op = "swap" ->
                    IF SameGeneration(p) THEN Swapped(p, file[f].data) ELSE Throws
               [] j.op \in LockOps -> TableAccess(j, file[f].data)

Load(p) ==
    /\ at[p] = "load"
    /\ LET d == Decision(p)
       IN  /\ at' = [at EXCEPT ![p] = d.at]
           /\ job' = [job EXCEPT ![p].data = d.data, ![p].result = d.result]
    /\ UNCHANGED <<disk, memory, acked, bounds>>

\* atomicWriteFileSync up to its rename, which is visible at once; or one of
\* the two fails for good.
Publish(p) ==
    /\ at[p] = "publish"
    /\ LET f == FileOf(job[p].op)
           next == WriteFileDurable(job[p].data)
       IN  \/ /\ file' = [file EXCEPT ![f] = next]
              /\ kept' = [kept EXCEPT ![f] = @ \cup {next}]
              /\ at' = [at EXCEPT ![p] = "sync"]
              /\ UNCHANGED job
           \/ /\ at' = [at EXCEPT ![p] = "release"]
              /\ job' = [job EXCEPT ![p].result = "failure"]
              /\ UNCHANGED <<file, kept>>
    /\ UNCHANGED <<lock, memory, acked, bounds>>

\* Every rename in the directory so far is then on the device.
SyncDirectory(p) ==
    /\ at[p] = "sync"
    /\ kept' = [f \in File |-> {file[f]}]
    /\ at' = [at EXCEPT ![p] = "release"]
    /\ UNCHANGED <<lock, file, job, memory, acked, bounds>>

-----------------------------------------------------------------------------
(* What the caller is told.                                                *)

Returns(p) ==
    LET j == job[p]
    IN  /\ t0' = IF j.op = "open" THEN [t0 EXCEPT ![p] = Head(j.data)] ELSE t0
        /\ seen' = CASE j.op = "read" -> [seen EXCEPT ![p] = Last(j.data)]
                     [] j.op = "swap" -> [seen EXCEPT ![p] = j.name]
                     [] OTHER -> seen
        /\ held' = IF j.op = "acquire" THEN [held EXCEPT ![p] = j.name] ELSE held
        /\ acked' = IF j.name \in ToSet(j.data) /\ j.op \in {"open", "swap"}
                    THEN acked \cup {j.name} ELSE acked
        /\ at' = [at EXCEPT ![p] = "idle"]

\* releaseOwnedLock, which ignores a failure, and the end of the access.
Release(p) ==
    /\ at[p] = "release"
    /\ lock' \in IF lock = p THEN {None, Abandoned} ELSE {lock}
    /\ IF job[p].result = "success" THEN Returns(p) ELSE Thrown(p) /\ UNCHANGED <<memory, acked>>
    /\ job' = [job EXCEPT ![p] = NoJob]
    /\ UNCHANGED <<file, kept, bounds>>

-----------------------------------------------------------------------------
(* Deaths.                                                                 *)

\* The processes of `gone` lose what they had in memory.
Forget(gone) ==
    /\ crashes < MaxCrashes
    /\ crashes' = crashes + 1
    /\ at' = [p \in Proc |-> IF p \in gone THEN "off" ELSE at[p]]
    /\ job' = [p \in Proc |-> IF p \in gone THEN NoJob ELSE job[p]]
    /\ t0' = [p \in Proc |-> IF p \in gone THEN None ELSE t0[p]]
    /\ seen' = [p \in Proc |-> IF p \in gone THEN None ELSE seen[p]]
    /\ held' = [p \in Proc |-> IF p \in gone THEN None ELSE held[p]]

Crash(p) ==
    /\ at[p] # "off"
    /\ Forget({p})
    /\ lock' = IF lock = p THEN Abandoned ELSE lock
    /\ UNCHANGED <<file, kept, acked, names>>

\* What the device makes of a content.
Survives(c) == IF c.where = "cached" THEN Content(c.data, "torn") ELSE c

\* Neither link nor unlink of the lock is flushed: it may be back.
PowerLoss ==
    /\ Forget(Proc)
    /\ \E bundle \in kept["bundle"], locks \in kept["locks"] :
          file' = [f \in File |-> Survives(IF f = "bundle" THEN bundle ELSE locks)]
    /\ kept' = [f \in File |-> {file'[f]}]
    /\ lock' \in {None, Abandoned}
    /\ UNCHANGED <<acked, names>>

\* "An operator may remove an abandoned lock only after quiescing every process
\* that can access this storage directory."
Operator ==
    /\ lock = Abandoned
    /\ \A p \in Proc : at[p] \in {"off", "idle"}
    /\ lock' = None
    /\ UNCHANGED <<file, kept, at, job, memory, acked, bounds>>

Next ==
    \/ \E p \in Proc :
          \/ Open(p) \/ Access(p) \/ AcquireFileLock(p) \/ GiveUp(p) \/ Load(p)
          \/ Publish(p) \/ SyncDirectory(p) \/ Release(p) \/ Crash(p)
    \/ PowerLoss \/ Operator

FileSpec == Init /\ [][Next]_vars

-----------------------------------------------------------------------------
\* The snapshots of the bundle, the head at the end.
Bundle == file["bundle"].data

\* Whoever dies, waits, or cannot write, and when the power goes: snapshots are
\* added one at a time, each to the head its caller had read, and none is taken
\* away again but by a power loss, before its write returned (withMutate,
\* acquireFileLock, atomicWriteFileSync).
OneWriteAtATime ==
    [][ \/ Bundle = <<>> /\ Len(Bundle') = 1
        \/ \E p \in Proc :
              /\ job[p].op = "swap"
              /\ seen[p] = Last(Bundle)
              /\ Bundle' = Append(Bundle, job[p].name)
        \/ /\ \A p \in Proc : at'[p] = "off"
           /\ IsStrictPrefix(Bundle', Bundle)
      ]_Bundle

\* "A crash cannot lose an already-returned write" (atomicWrite.ts): it is in
\* the file, and the file can be read.
ReturnedStays ==
    /\ file["bundle"].where # "torn"
    /\ acked \subseteq ToSet(Bundle)

\* Processes that have the directory open work on one world, whoever of them
\* booted first (createFileRuntimePersistence).
OneGenesis == \A p \in Proc : t0[p] # None => Bundle # <<>> /\ Head(Bundle) = t0[p]

\* A lock a process was told it has is in the table, alone
\* (FileResourceLockTable.acquire).
LocksAreTold == \A p \in Proc : held[p] # None => file["locks"].data = <<held[p]>>
=============================================================================
