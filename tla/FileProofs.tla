----------------------------- MODULE FileProofs -----------------------------
(***************************************************************************)
(* The directory lock does what it is for, for any processes, crashes and  *)
(* power losses.  Whoever is between acquiring the lock and giving it back *)
(* is alone, so what it decided on still holds when it publishes.  Every   *)
(* content a power loss may leave is a beginning of the file, and has all  *)
(* writes that returned: the directory was flushed before any of them did. *)
(* A name is in the hands of one process and in the file at most once it   *)
(* published it, so an access that returns with its name in what it read   *)
(* is the one that wrote it.                                               *)
(***************************************************************************)
EXTENDS FileStore, SequenceTheorems, TLAPS

Place == {"off", "idle", "wait", "load", "publish", "sync", "release"}

Result == {"success", "failure"}

Op == BundleOps \cup LockOps \cup {"none"}

\* Functions and records have their fields; nothing on the device is torn.
FileTypes ==
    /\ file = [f \in File |-> file[f]] /\ kept = [f \in File |-> kept[f]]
    /\ \A f \in File :
          /\ file[f] \in kept[f]
          /\ \A c \in kept[f] : c = Content(c.data, "device")
    /\ \A c \in kept["bundle"] : c.data \in Seq(Nat)

ProcTypes ==
    /\ at \in [Proc -> Place]
    /\ job = [p \in Proc |-> job[p]]
    /\ \A p \in Proc :
          /\ job[p] = [op |-> job[p].op, name |-> job[p].name, data |-> job[p].data,
                      result |-> job[p].result]
          /\ job[p].op \in Op /\ job[p].result \in Result
          /\ job[p].name = None \/ job[p].name \in 1..names
    /\ t0 = [p \in Proc |-> t0[p]] /\ seen = [p \in Proc |-> seen[p]]
    /\ held = [p \in Proc |-> held[p]]
    /\ \A p \in Proc : held[p] = None \/ held[p] \in 1..names
    /\ names \in Nat

Types == FileTypes /\ ProcTypes

\* Between acquiring the lock and giving it back.
Critical(p) == at[p] \in {"load", "publish", "sync", "release"}

Exclusion == \A p \in Proc : Critical(p) => lock = p

\* A name belongs to the process it was made for.
NamesApart ==
    \A p, q \in Proc : p # q =>
        /\ job[p].name # None => job[p].name \notin {job[q].name, held[q]}
        /\ held[p] # None => held[p] # held[q]

\* Only names that were given, and none that an opening process waits to write.
NamesInFile ==
    /\ \A i \in 1..Len(Bundle) : Bundle[i] <= names
    /\ \A p \in Proc : at[p] \in {"wait", "load"} /\ job[p].op = "open"
          => job[p].name \notin ToSet(Bundle)
    /\ \A p \in Proc : at[p] \in {"wait", "load"} /\ job[p].op \in {"open", "swap"}
          => job[p].name # None

\* What is about to be published follows from what is there.
Prepared(p) ==
    /\ job[p].op \in {"open", "swap"} \cup LockOps
    /\ job[p].op = "open" => Bundle = <<>> /\ job[p].data = <<job[p].name>> /\ job[p].name # None
    /\ job[p].op = "swap" =>
          /\ Bundle # <<>>
          /\ \/ /\ job[p].result = "success" /\ job[p].name # None
                /\ seen[p] = Last(Bundle) /\ job[p].data = Append(Bundle, job[p].name)
             \/ job[p].result = "failure" /\ job[p].data = Bundle
    /\ job[p].op = "acquire" =>
          \/ job[p].result = "success" /\ file["locks"].data = <<>> /\ job[p].data = <<job[p].name>>
          \/ job[p].result = "failure" /\ job[p].data = file["locks"].data
    /\ job[p].op = "isHeld" => job[p].data = file["locks"].data

\* What an access that succeeds returns is in the file ...
Answered(p) ==
    /\ job[p].op = "open" => Bundle # <<>> /\ job[p].data = Bundle
    /\ job[p].op = "acquire" => file["locks"].data = <<job[p].name>>
    /\ job[p].op = "swap" => job[p].name \in ToSet(job[p].data)
    /\ job[p].op \in {"open", "swap"} /\ job[p].name \in ToSet(job[p].data)
          => job[p].data = Bundle

\* ... and on the device.
Flushed(p) ==
    job[p].op \in {"open", "swap"} /\ job[p].name \in ToSet(job[p].data)
       => kept["bundle"] = {file["bundle"]}

Places ==
    \A p \in Proc :
        /\ Critical(p) \/ at[p] = "wait" => job[p].op # "none"
        /\ at[p] = "publish" => Prepared(p)
        /\ at[p] = "sync" /\ job[p].result = "success" => Answered(p)
        /\ at[p] = "release" /\ job[p].result = "success" => Answered(p) /\ Flushed(p)

\* A process that releases a lock finds its own entry, and nobody holds one.
Releasing ==
    \A p \in Proc : at[p] \in {"wait", "load", "publish"} /\ job[p].op = "release" =>
        job[p].name # None /\ held[p] = None /\ file["locks"].data = <<job[p].name>>

Begins(s, t) == Len(s) <= Len(t) /\ \A i \in 1..Len(s) : s[i] = t[i]

\* Every content a power loss may leave.
OnDevice ==
    \A c \in kept["bundle"] : Begins(c.data, Bundle) /\ acked \subseteq ToSet(c.data)

FileInv ==
    /\ Types /\ Exclusion /\ NamesApart /\ NamesInFile /\ Places /\ Releasing
    /\ OnDevice /\ OneGenesis /\ LocksAreTold

-----------------------------------------------------------------------------
(* Sequences.                                                              *)

\* A sequence begins with every beginning of what it was before an append.
LEMMA AppendBegins ==
    ASSUME NEW s \in Seq(Nat), NEW t \in Seq(Nat), NEW n \in Nat, Begins(s, t)
    PROVE  /\ Append(t, n) \in Seq(Nat)
           /\ Begins(s, Append(t, n))
           /\ Begins(Append(t, n), Append(t, n))
  BY DEF Begins

\* What an append adds to the elements, to the head and to the length.
LEMMA AppendAdds ==
    ASSUME NEW t \in Seq(Nat), NEW n \in Nat
    PROVE  /\ ToSet(t) \subseteq ToSet(Append(t, n))
           /\ n \in ToSet(Append(t, n))
           /\ ToSet(Append(t, n)) \subseteq ToSet(t) \cup {n}
           /\ Append(t, n) # <<>>
           /\ t # <<>> => Head(Append(t, n)) = Head(t)
<1>1. /\ Len(Append(t, n)) = Len(t) + 1
      /\ \A i \in 1..Len(t) : Append(t, n)[i] = t[i]
      /\ Append(t, n)[Len(t) + 1] = n
      /\ DOMAIN Append(t, n) = 1 .. Len(t) + 1
      /\ DOMAIN t = 1 .. Len(t) /\ Len(t) \in Nat
  OBVIOUS
<1>2. ToSet(t) \subseteq ToSet(Append(t, n))
  BY <1>1 DEF ToSet
<1>3. n \in ToSet(Append(t, n))
  BY <1>1 DEF ToSet
<1>4. ToSet(Append(t, n)) \subseteq ToSet(t) \cup {n}
  BY <1>1 DEF ToSet
<1>5. t # <<>> => Head(Append(t, n)) = Head(t)
  OBVIOUS
<1>6. Append(t, n) # <<>>
  OBVIOUS
<1> QED
  BY <1>2, <1>3, <1>4, <1>5, <1>6

\* A sequence that begins another and is not it is a strict prefix.
LEMMA BeginsStrictly ==
    ASSUME NEW s \in Seq(Nat), NEW t \in Seq(Nat), Begins(s, t), s # t
    PROVE  IsStrictPrefix(s, t)
<1>1. Len(s) \in Nat /\ Len(t) \in Nat /\ Len(s) <= Len(t)
  BY DEF Begins
<1>2. SubSeq(s, 1, Len(s)) = SubSeq(t, 1, Len(s))
  <2>1. \A i \in 1..Len(s) : s[i] \in Nat /\ t[i] \in Nat /\ s[i] = t[i]
    BY <1>1 DEF Begins
  <2>2. /\ SubSeq(s, 1, Len(s)) \in Seq(Nat) /\ SubSeq(t, 1, Len(s)) \in Seq(Nat)
        /\ Len(SubSeq(s, 1, Len(s))) = Len(s) /\ Len(SubSeq(t, 1, Len(s))) = Len(s)
        /\ \A i \in 1..Len(s) : SubSeq(s, 1, Len(s))[i] = s[i] /\ SubSeq(t, 1, Len(s))[i] = t[i]
    BY <1>1, <2>1
  <2> QED
    BY <2>1, <2>2, SeqEqual
<1> QED
  BY <1>1, <1>2 DEF IsStrictPrefix, IsPrefix

-----------------------------------------------------------------------------
(* The directory lock, and what leaves the files alone.                    *)

\* Nothing on disk changes but perhaps the lock: files, kept contents and what
\* was acknowledged stay right.
LEMMA FilesKept ==
    ASSUME FileTypes, OnDevice, UNCHANGED <<file, kept, acked>>
    PROVE  FileTypes' /\ OnDevice'
  BY DEF FileTypes, OnDevice, Begins, Bundle

\* An access begins, with a fresh name, the ticket held or none.
LEMMA BeginKeeps ==
    ASSUME FileInv, NEW p \in Proc, NEW op \in Op \ {"none"}, NEW name,
           at[p] \in {"off", "idle"},
           Begin(p, op, name), UNCHANGED <<t0, seen>>,
           op \in {"open", "swap"} => name = Name,
           \/ /\ op = "release" /\ held[p] # None /\ name = held[p]
              /\ held' = [held EXCEPT ![p] = None]
           \/ /\ op # "release" /\ UNCHANGED held
              /\ name \in {None, Name} \/ (held[p] # None /\ name = held[p])
    PROVE  FileInv'
<1>1. FileTypes /\ ProcTypes /\ Exclusion /\ NamesApart /\ NamesInFile
      /\ Places /\ Releasing /\ OnDevice /\ OneGenesis /\ LocksAreTold
  BY DEF FileInv, Types
<1>2. /\ UNCHANGED <<lock, file, kept, acked>>
      /\ at' = [at EXCEPT ![p] = "wait"]
      /\ job' = [job EXCEPT ![p] = [op |-> op, name |-> name, data |-> <<>>, result |-> "failure"]]
  BY DEF Begin, Job, disk
<1>3. /\ names \in Nat /\ names' \in Nat /\ names <= names'
      /\ name = Name => names' = names + 1
  BY <1>1 DEF Begin, Name, ProcTypes
<1>4. name = None \/ name \in 1..names'
  BY <1>1, <1>3 DEF ProcTypes, Name
<1>5. /\ \A q \in Proc : held'[q] = held[q] \/ (q = p /\ held'[q] = None)
      /\ held' = [q \in Proc |-> held'[q]]
  BY <1>1 DEF ProcTypes
<1>6. \A q \in Proc \ {p} : at'[q] = at[q] /\ job'[q] = job[q] /\ held'[q] = held[q]
  BY <1>1, <1>2, <1>5 DEF ProcTypes
<1>7. /\ at'[p] = "wait" /\ job'[p].op = op /\ job'[p].name = name
      /\ job'[p] = [op |-> op, name |-> name, data |-> <<>>, result |-> "failure"]
  BY <1>1, <1>2 DEF ProcTypes
<1>8. FileTypes' /\ OnDevice'
  BY <1>1, <1>2, FilesKept
<1>9. ProcTypes'
  <2>1. at' \in [Proc -> Place] /\ job' = [q \in Proc |-> job'[q]]
    BY <1>1, <1>2 DEF ProcTypes, Place
  <2>2. \A q \in Proc :
          /\ job'[q] = [op |-> job'[q].op, name |-> job'[q].name, data |-> job'[q].data,
                      result |-> job'[q].result]
          /\ job'[q].op \in Op /\ job'[q].result \in Result
          /\ job'[q].name = None \/ job'[q].name \in 1..names'
    <3>1. ASSUME NEW q \in Proc \ {p}
          PROVE  /\ job'[q] = [op |-> job'[q].op, name |-> job'[q].name, data |-> job'[q].data,
                               result |-> job'[q].result]
                 /\ job'[q].op \in Op /\ job'[q].result \in Result
                 /\ job'[q].name = None \/ job'[q].name \in 1..names'
      <4>1. job'[q] = job[q]
        BY <1>6
      <4>2. 1..names \subseteq 1..names'
        BY <1>3
      <4> QED
        BY <1>1, <4>1, <4>2 DEF ProcTypes
    <3>2. /\ job'[p] = [op |-> job'[p].op, name |-> job'[p].name, data |-> job'[p].data,
                         result |-> job'[p].result]
          /\ job'[p].op \in Op /\ job'[p].result \in Result
          /\ job'[p].name = None \/ job'[p].name \in 1..names'
      BY <1>4, <1>7 DEF Result
    <3> QED
      BY <3>1, <3>2
  <2>3. \A q \in Proc : held'[q] = None \/ held'[q] \in 1..names'
    BY <1>1, <1>3, <1>5 DEF ProcTypes
  <2> QED
    BY <1>1, <1>3, <1>5, <2>1, <2>2, <2>3 DEF ProcTypes
<1>10. Exclusion'
  BY <1>1, <1>2, <1>6, <1>7 DEF Exclusion, Critical
<1>11. NamesApart'
  <2>1. \A q \in Proc \ {p} : name # None => name \notin {job[q].name, held[q]}
    BY <1>1, <1>3 DEF NamesApart, ProcTypes, Name
  <2>2. \A q \in Proc \ {p} : job[q].name # None => job[q].name # name
    BY <2>1
  <2> QED
    BY <1>1, <1>5, <1>6, <1>7, <2>1, <2>2 DEF NamesApart
<1>12. NamesInFile'
  <2>1. Bundle' = Bundle
    BY <1>2 DEF Bundle
  <2>2. Bundle \in Seq(Nat)
    BY <1>1 DEF FileTypes, Bundle, File
  <2>3. op \in {"open", "swap"} => name # None /\ name \notin ToSet(Bundle)
    <3>1. \A i \in 1..Len(Bundle) : Bundle[i] # names + 1
      BY <1>1, <1>3, <2>2 DEF NamesInFile
    <3>2. DOMAIN Bundle = 1..Len(Bundle)
      BY <2>2
    <3>3. names + 1 \notin ToSet(Bundle)
      BY <3>1, <3>2 DEF ToSet
    <3>4. names + 1 # None
      BY <1>3, FileAssumption
    <3> QED
      BY <3>3, <3>4 DEF Name
  <2>4. \A i \in 1..Len(Bundle) : Bundle[i] <= names'
    BY <1>1, <1>3, <2>2 DEF NamesInFile
  <2> QED
    BY <1>1, <1>6, <1>7, <2>1, <2>3, <2>4 DEF NamesInFile
<1>13. Places'
  BY <1>1, <1>2, <1>6, <1>7 DEF Places, Critical, Prepared, Answered, Flushed, Bundle
<1>14. Releasing'
  BY <1>1, <1>2, <1>5, <1>6, <1>7 DEF Releasing, LocksAreTold
<1>15. OneGenesis' /\ LocksAreTold'
  BY <1>1, <1>2, <1>5 DEF OneGenesis, LocksAreTold, Bundle
<1> QED
  BY <1>8, <1>9, <1>10, <1>11, <1>12, <1>13, <1>14, <1>15 DEF FileInv, Types

\* Opening and the accesses of a process begin like that.
LEMMA AccessKeeps ==
    ASSUME FileInv, NEW p \in Proc, Open(p) \/ Access(p)
    PROVE  FileInv'
<1>1. CASE Open(p)
  BY <1>1, BeginKeeps DEF Open, memory, Op, BundleOps, LockOps
<1>2. CASE Access(p)
  <2>1. at[p] = "idle"
    BY <1>2 DEF Access
  <2>2. CASE held[p] # None /\ Begin(p, "release", held[p])
             /\ held' = [held EXCEPT ![p] = None] /\ UNCHANGED <<t0, seen>>
    <3>1. "release" \in Op \ {"none"} /\ "release" \notin {"open", "swap"}
      BY DEF Op, BundleOps, LockOps
    <3>2. at[p] \in {"off", "idle"} /\ Begin(p, "release", held[p])
          /\ UNCHANGED <<t0, seen>> /\ ("release" \in {"open", "swap"} => held[p] = Name)
      BY <2>1, <2>2, <3>1
    <3>3. \/ /\ "release" = "release" /\ held[p] # None /\ held[p] = held[p]
             /\ held' = [held EXCEPT ![p] = None]
          \/ /\ "release" # "release" /\ UNCHANGED held
             /\ held[p] \in {None, Name} \/ (held[p] # None /\ held[p] = held[p])
      BY <2>2
    <3> QED
      BY <3>1, <3>2, <3>3, BeginKeeps
  <2>3. CASE UNCHANGED memory /\ \/ Begin(p, "read", None)
                                 \/ Begin(p, "swap", Name)
                                 \/ Begin(p, "acquire", Name)
    BY <2>1, <2>3, BeginKeeps DEF Op, BundleOps, LockOps, memory
  <2>4. CASE UNCHANGED memory /\ held[p] # None /\ Begin(p, "isHeld", held[p])
    BY <2>1, <2>4, BeginKeeps DEF Op, BundleOps, LockOps, memory
  <2> QED
    BY <1>2, <2>2, <2>3, <2>4 DEF Access
<1> QED
  BY <1>1, <1>2

\* A process moves to another place and changes nothing else it has.
LEMMA MoveKeeps ==
    ASSUME FileInv, NEW p \in Proc, NEW to \in Place,
           at' = [at EXCEPT ![p] = to],
           UNCHANGED <<file, kept, job, memory, acked, names>>,
           \/ at[p] = "wait" /\ to \in {"off", "idle"} /\ UNCHANGED lock
           \/ at[p] = "wait" /\ to = "load" /\ lock = None /\ lock' = p
    PROVE  FileInv'
<1>1. FileTypes /\ ProcTypes /\ Exclusion /\ NamesApart /\ NamesInFile
      /\ Places /\ Releasing /\ OnDevice /\ OneGenesis /\ LocksAreTold
  BY DEF FileInv, Types
<1>2. /\ at'[p] = to /\ \A q \in Proc \ {p} : at'[q] = at[q]
      /\ at' \in [Proc -> Place]
      /\ UNCHANGED <<t0, seen, held>> /\ UNCHANGED Bundle
  BY <1>1 DEF ProcTypes, memory, Bundle
<1>3. FileTypes' /\ OnDevice' /\ ProcTypes' /\ NamesApart' /\ OneGenesis' /\ LocksAreTold'
  BY <1>1, <1>2, FilesKept DEF ProcTypes, NamesApart, OneGenesis, LocksAreTold
<1>4. Exclusion'
  BY <1>1, <1>2, FileAssumption DEF Exclusion, Critical
<1>5. NamesInFile' /\ Releasing'
  BY <1>1, <1>2 DEF NamesInFile, Releasing
<1>6. Places'
  <2>1. to = "load" => job[p].op # "none"
    BY <1>1 DEF Places
  <2> QED
    BY <1>1, <1>2, <2>1 DEF Places, Critical, Prepared, Answered, Flushed
<1> QED
  BY <1>1, <1>3, <1>4, <1>5, <1>6 DEF FileInv, Types

-----------------------------------------------------------------------------
(* An access under the lock.                                               *)

Is(d, to, data, result) == d.at = to /\ d.data = data /\ d.result = result

\* What reading the file leads to, access by access.
DecidesWell(p, d) ==
    /\ d.at \in {"publish", "release"} /\ d.result \in Result
    /\ job[p].op \in Op \ {"none"}
    /\ job[p].op = "open" =>
          \/ Bundle = <<>> /\ Is(d, "publish", <<job[p].name>>, "success")
          \/ Bundle # <<>> /\ Is(d, "release", Bundle, "success")
    /\ job[p].op = "read" => d.at = "release"
    /\ job[p].op = "swap" =>
          \/ Is(d, "release", <<>>, "failure")
          \/ /\ Bundle # <<>> /\ seen[p] = Last(Bundle)
             /\ Is(d, "publish", Append(Bundle, job[p].name), "success")
          \/ Bundle # <<>> /\ Is(d, "publish", Bundle, "failure")
    /\ job[p].op = "acquire" =>
          \/ file["locks"].data = <<>> /\ Is(d, "publish", <<job[p].name>>, "success")
          \/ Is(d, "publish", file["locks"].data, "failure")
    /\ job[p].op = "release" => d.at = "publish"
    /\ job[p].op = "isHeld" => Is(d, "publish", file["locks"].data, "failure")

LEMMA Decisions ==
    ASSUME FileInv, NEW p \in Proc, at[p] = "load"
    PROVE  DecidesWell(p, Decision(p))
<1> DEFINE f == FileOf(job[p].op)
<1>1. job[p].op \in Op \ {"none"}
  BY DEF FileInv, Types, ProcTypes, Places, Critical
<1>2. file[f].where # "torn"
  BY DEF FileInv, Types, FileTypes, FileOf, File, Content
<1>3. CASE job[p].op = "open"
  <2>1. Decision(p) = Opened(job[p])
    BY <1>2, <1>3 DEF Decision, LockOps
  <2> QED
    BY <1>1, <1>3, <2>1 DEF DecidesWell, Is, Opened, Decided, Bundle, Result
<1>4. CASE job[p].op = "read"
  <2>1. Decision(p) = Throws \/ Decision(p) = Decided("release", file[f].data, "success")
    BY <1>2, <1>4 DEF Decision, LockOps
  <2>2. Decision(p).at = "release" /\ Decision(p).result \in Result
    BY <2>1 DEF Decided, Throws, Result
  <2> QED
    BY <1>1, <1>4, <2>2 DEF DecidesWell
<1>5. CASE job[p].op = "swap"
  <2>1. \/ Decision(p) = Throws
        \/ Decision(p) = Swapped(p, Bundle) /\ Bundle # <<>>
    BY <1>2, <1>5 DEF Decision, FileOf, LockOps, SameGeneration, Bundle
  <2> QED
    BY <1>1, <1>5, <2>1 DEF DecidesWell, Is, Swapped, Decided, Throws, Result
<1>6. CASE job[p].op \in LockOps
  <2>1. Decision(p) = TableAccess(job[p], file["locks"].data)
    BY <1>2, <1>6 DEF Decision, FileOf, LockOps
  <2> QED
    BY <1>1, <1>6, <2>1 DEF DecidesWell, Is, TableAccess, Decided, LockOps, Result
<1> QED
  BY <1>1, <1>3, <1>4, <1>5, <1>6 DEF Op, BundleOps

\* Reading and deciding.
LEMMA LoadKeeps ==
    ASSUME FileInv, NEW p \in Proc, Load(p)
    PROVE  FileInv'
<1> DEFINE d == Decision(p)
<1>1. FileTypes /\ ProcTypes /\ Exclusion /\ NamesApart /\ NamesInFile
      /\ Places /\ Releasing /\ OnDevice /\ OneGenesis /\ LocksAreTold
  BY DEF FileInv, Types
<1>2. /\ at[p] = "load" /\ at' = [at EXCEPT ![p] = d.at]
      /\ job' = [job EXCEPT ![p].data = d.data, ![p].result = d.result]
      /\ UNCHANGED <<lock, file, kept, t0, seen, held, acked, names>>
  BY DEF Load, disk, memory, bounds
<1>3. DecidesWell(p, d)
  BY <1>2, Decisions
<1> HIDE DEF d
<1>0. d.at \in {"publish", "release"} /\ d.result \in Result /\ job[p].op \in Op \ {"none"}
  BY <1>3 DEF DecidesWell
<1>4. /\ at'[p] = d.at /\ job'[p].op = job[p].op /\ job'[p].name = job[p].name
      /\ job'[p].data = d.data /\ job'[p].result = d.result
      /\ job'[p] = [op |-> job[p].op, name |-> job[p].name, data |-> d.data, result |-> d.result]
  <2>1. job[p] = [op |-> job[p].op, name |-> job[p].name, data |-> job[p].data,
                      result |-> job[p].result]
    BY <1>1 DEF ProcTypes
  <2>2. at'[p] = d.at
    BY <1>1, <1>2 DEF ProcTypes
  <2>3. p \in DOMAIN job
    BY <1>1 DEF ProcTypes
  <2>4. job'[p] = [[job[p] EXCEPT !.data = d.data] EXCEPT !.result = d.result]
    BY <1>2, <2>3
  <2> QED
    BY <2>1, <2>2, <2>4
<1>5. /\ \A q \in Proc \ {p} : at'[q] = at[q] /\ job'[q] = job[q]
      /\ at' \in [Proc -> Place] /\ job' = [q \in Proc |-> job'[q]]
  BY <1>1, <1>2, <1>0 DEF ProcTypes, Place
<1>6. UNCHANGED Bundle /\ \A q \in Proc : job'[q].op = job[q].op /\ job'[q].name = job[q].name
  BY <1>2, <1>4, <1>5 DEF Bundle
<1>7. FileTypes' /\ OnDevice' /\ OneGenesis' /\ LocksAreTold'
  BY <1>1, <1>2, FilesKept DEF OneGenesis, LocksAreTold, Bundle
<1>8. ProcTypes'
  <2>1. \A q \in Proc :
          /\ job'[q] = [op |-> job'[q].op, name |-> job'[q].name, data |-> job'[q].data,
                      result |-> job'[q].result]
          /\ job'[q].op \in Op /\ job'[q].result \in Result
          /\ job'[q].name = None \/ job'[q].name \in 1..names'
    BY <1>1, <1>2, <1>0, <1>4, <1>5 DEF ProcTypes
  <2> QED
    BY <1>1, <1>2, <1>5, <2>1 DEF ProcTypes
<1>9. Exclusion'
  BY <1>1, <1>2, <1>5 DEF Exclusion, Critical
<1>10. NamesApart' /\ NamesInFile' /\ Releasing'
  <2>1. NamesApart'
    BY <1>1, <1>2, <1>6 DEF NamesApart
  <2>2. NamesInFile'
    BY <1>1, <1>2, <1>0, <1>4, <1>5, <1>6 DEF NamesInFile
  <2>3. Releasing'
    <3>1. \A q \in Proc : at'[q] \in {"wait", "load", "publish"} => at[q] \in {"wait", "load", "publish"}
      BY <1>2, <1>5
    <3> QED
      BY <1>1, <1>2, <1>6, <3>1 DEF Releasing
  <2> QED
    BY <2>1, <2>2, <2>3
<1>11. Places'
  <2>1. ASSUME NEW q \in Proc \ {p}
        PROVE  /\ Critical(q)' \/ at'[q] = "wait" => job'[q].op # "none"
               /\ at'[q] = "publish" => Prepared(q)'
               /\ at'[q] = "sync" /\ job'[q].result = "success" => Answered(q)'
               /\ at'[q] = "release" /\ job'[q].result = "success" => Answered(q)' /\ Flushed(q)'
    BY <1>1, <1>2, <1>5, <1>6 DEF Places, Critical, Prepared, Answered, Flushed
  <2>2. at'[p] = "publish" => Prepared(p)'
    <3>1. CASE job[p].op = "open" /\ at'[p] = "publish"
      <4>1. job[p].name # None
        BY <1>1, <1>2, <3>1 DEF NamesInFile
      <4>2. Bundle = <<>> /\ d.data = <<job[p].name>>
        BY <1>3, <1>4, <3>1 DEF DecidesWell, Is
      <4> QED
        BY <1>4, <1>6, <3>1, <4>1, <4>2 DEF Prepared
    <3>2. CASE job[p].op = "swap" /\ at'[p] = "publish"
      <4>1. job[p].name # None
        BY <1>1, <1>2, <3>2 DEF NamesInFile
      <4>2. /\ Bundle # <<>>
            /\ \/ d.result = "success" /\ seen[p] = Last(Bundle)
                  /\ d.data = Append(Bundle, job[p].name)
               \/ d.result = "failure" /\ d.data = Bundle
        BY <1>3, <1>4, <3>2 DEF DecidesWell, Is
      <4>3. seen'[p] = seen[p]
        BY <1>2
      <4> QED
        BY <1>4, <1>6, <3>2, <4>1, <4>2, <4>3 DEF Prepared
    <3>3. CASE job[p].op \in LockOps
      <4>1. file' = file
        BY <1>2
      <4>2. job'[p].op = job[p].op /\ job'[p].name = job[p].name
            /\ job'[p].data = d.data /\ job'[p].result = d.result
        BY <1>4
      <4>3. /\ job[p].op = "acquire" =>
                  \/ d.result = "success" /\ file["locks"].data = <<>> /\ d.data = <<job[p].name>>
                  \/ d.result = "failure" /\ d.data = file["locks"].data
            /\ job[p].op = "isHeld" => d.data = file["locks"].data
        BY <1>3 DEF DecidesWell, Is
      <4> QED
        BY <3>3, <4>1, <4>2, <4>3 DEF Prepared, LockOps
    <3>4. CASE job[p].op = "read"
      BY <1>3, <1>4, <3>4 DEF DecidesWell
    <3> QED
      BY <1>0, <3>1, <3>2, <3>3, <3>4 DEF Op, BundleOps
  <2>3. at'[p] = "release" /\ job'[p].result = "success" => Answered(p)' /\ Flushed(p)'
    <3>1. CASE job[p].op = "open" /\ at'[p] = "release"
      <4>1. Bundle # <<>> /\ d.data = Bundle
        BY <1>3, <1>4, <3>1 DEF DecidesWell, Is
      <4>2. job[p].name \notin ToSet(Bundle)
        BY <1>1, <1>2, <3>1 DEF NamesInFile
      <4> QED
        BY <1>4, <1>6, <3>1, <4>1, <4>2 DEF Answered, Flushed
    <3>2. CASE job[p].op = "read"
      BY <1>4, <3>2 DEF Answered, Flushed
    <3>3. CASE job[p].op = "swap" /\ at'[p] = "release"
      <4>1. d.result = "failure"
        BY <1>3, <1>4, <3>3 DEF DecidesWell, Is
      <4> QED
        BY <1>4, <4>1
    <3>4. CASE job[p].op \in LockOps
      <4>1. d.at = "publish"
        BY <1>3, <3>4 DEF DecidesWell, Is, LockOps
      <4> QED
        BY <1>4, <4>1
    <3> QED
      BY <1>0, <3>1, <3>2, <3>3, <3>4 DEF Op, BundleOps
  <2>4. at'[p] \in {"publish", "release"} /\ job'[p].op # "none"
    BY <1>0, <1>4 DEF Op
  <2> QED
    BY <2>1, <2>2, <2>3, <2>4 DEF Places
<1> QED
  BY <1>7, <1>8, <1>9, <1>10, <1>11 DEF FileInv, Types

\* The next bundle is the last one with at most the writer's name added.
LEMMA NextBundle ==
    ASSUME FileInv, NEW p \in Proc, at[p] = "publish", job[p].op \in {"open", "swap"}
    PROVE  /\ job[p].data \in Seq(Nat) /\ job[p].data # <<>>
           /\ \A c \in kept["bundle"] : Begins(c.data, job[p].data)
           /\ Begins(job[p].data, job[p].data)
           /\ ToSet(Bundle) \subseteq ToSet(job[p].data)
           /\ ToSet(job[p].data) \subseteq ToSet(Bundle) \cup {job[p].name}
           /\ \A i \in 1..Len(job[p].data) : job[p].data[i] <= names
           /\ Bundle # <<>> => Head(job[p].data) = Head(Bundle)
           /\ job[p].result = "success" => job[p].name \in ToSet(job[p].data)
<1>1. FileTypes /\ ProcTypes /\ NamesInFile /\ Prepared(p) /\ OnDevice
  BY DEF FileInv, Types, Places
<1>2. /\ Bundle \in Seq(Nat) /\ \A c \in kept["bundle"] : c.data \in Seq(Nat)
      /\ names \in Nat
  BY <1>1 DEF FileTypes, ProcTypes, Bundle, File
<1>3. /\ \A c \in kept["bundle"] : Begins(c.data, Bundle)
      /\ \A i \in 1..Len(Bundle) : Bundle[i] <= names
  BY <1>1 DEF OnDevice, NamesInFile
<1>4. \/ Bundle # <<>> /\ job[p].data = Bundle /\ job[p].result = "failure"
      \/ job[p].data = Append(Bundle, job[p].name) /\ job[p].name # None
  <2>1. \A n \in Nat : Append(<<>>, n) = <<n>>
    OBVIOUS
  <2>2. job[p].name # None => job[p].name \in Nat
    BY <1>1, <1>2 DEF ProcTypes
  <2>3. CASE job[p].op = "open"
    BY <1>1, <2>1, <2>2, <2>3 DEF Prepared
  <2>4. CASE job[p].op = "swap"
    BY <1>1, <2>4 DEF Prepared
  <2> QED
    BY <2>3, <2>4
<1>5. CASE Bundle # <<>> /\ job[p].data = Bundle /\ job[p].result = "failure"
  BY <1>2, <1>3, <1>5 DEF Begins
<1>6. CASE job[p].data = Append(Bundle, job[p].name) /\ job[p].name # None
  <2> DEFINE n == job[p].name
  <2>1. n \in Nat /\ n <= names
    BY <1>1, <1>2, <1>6 DEF ProcTypes
  <2> HIDE DEF n
  <2>2. job[p].data = Append(Bundle, n)
    BY <1>6 DEF n
  <2>3. /\ Append(Bundle, n) \in Seq(Nat)
        /\ Begins(Append(Bundle, n), Append(Bundle, n))
        /\ \A c \in kept["bundle"] : Begins(c.data, Append(Bundle, n))
    <3>1. Begins(Bundle, Bundle)
      BY <1>2 DEF Begins
    <3> QED
      BY <1>2, <1>3, <2>1, <3>1, AppendBegins
  <2>4. /\ ToSet(Bundle) \subseteq ToSet(Append(Bundle, n))
        /\ n \in ToSet(Append(Bundle, n))
        /\ ToSet(Append(Bundle, n)) \subseteq ToSet(Bundle) \cup {n}
        /\ Append(Bundle, n) # <<>>
        /\ Bundle # <<>> => Head(Append(Bundle, n)) = Head(Bundle)
    BY <1>2, <2>1, AppendAdds
  <2>5. \A i \in 1..Len(Append(Bundle, n)) : Append(Bundle, n)[i] <= names
    BY <1>2, <1>3, <2>1
  <2> QED
    BY <2>2, <2>3, <2>4, <2>5 DEF n
<1> QED
  BY <1>4, <1>5, <1>6

\* Whoever publishes the table leaves the entries of the others in it.
LEMMA NextTable ==
    ASSUME FileInv, NEW p \in Proc, at[p] = "publish", job[p].op \in LockOps
    PROVE  /\ \A q \in Proc : held[q] # None => job[p].data = <<held[q]>>
           /\ \A q \in Proc \ {p} :
                 at[q] \in {"wait", "load", "publish"} /\ job[q].op = "release"
                    => job[p].data = <<job[q].name>>
           /\ job[p].op = "acquire" /\ job[p].result = "success"
                 => job[p].data = <<job[p].name>>
<1>1. Prepared(p) /\ Releasing /\ LocksAreTold /\ NamesApart
  BY DEF FileInv, Places
<1>2. CASE job[p].op = "release"
  <2>1. job[p].name # None /\ held[p] = None /\ file["locks"].data = <<job[p].name>>
    BY <1>1, <1>2 DEF Releasing
  <2>2. \A q \in Proc : held[q] = None
    <3>1. ASSUME NEW q \in Proc, held[q] # None PROVE FALSE
      <4>1. q # p /\ held[q] # job[p].name
        BY <1>1, <2>1, <3>1 DEF NamesApart
      <4>2. <<held[q]>> = <<job[p].name>>
        BY <1>1, <2>1, <3>1 DEF LocksAreTold
      <4> QED
        BY <4>1, <4>2
    <3> QED
      BY <3>1
  <2>3. \A q \in Proc \ {p} :
           ~ (at[q] \in {"wait", "load", "publish"} /\ job[q].op = "release")
    <3>1. ASSUME NEW q \in Proc \ {p}, at[q] \in {"wait", "load", "publish"},
                 job[q].op = "release"
          PROVE  FALSE
      <4>1. <<job[q].name>> = <<job[p].name>>
        BY <1>1, <2>1, <3>1 DEF Releasing
      <4>2. job[q].name # job[p].name
        BY <1>1, <2>1 DEF NamesApart
      <4> QED
        BY <4>1, <4>2
    <3> QED
      BY <3>1
  <2> QED
    BY <1>2, <2>2, <2>3
<1>3. CASE job[p].op \in {"acquire", "isHeld"}
  <2>1. \/ file["locks"].data = <<>> /\ job[p].data = <<job[p].name>>
        \/ job[p].data = file["locks"].data /\ ~ (job[p].op = "acquire" /\ job[p].result = "success")
        \/ job[p].data = file["locks"].data /\ file["locks"].data = <<>>
              /\ job[p].data = <<job[p].name>>
    BY <1>1, <1>3 DEF Prepared
  <2>2. \A q \in Proc : held[q] # None => file["locks"].data = <<held[q]>>
    BY <1>1 DEF LocksAreTold
  <2>3. \A q \in Proc : at[q] \in {"wait", "load", "publish"} /\ job[q].op = "release"
           => file["locks"].data = <<job[q].name>>
    BY <1>1 DEF Releasing
  <2>4. file["locks"].data = <<>> => \A x : file["locks"].data # <<x>>
    OBVIOUS
  <2> QED
    BY <2>1, <2>2, <2>3, <2>4
<1> QED
  BY <1>2, <1>3 DEF LockOps

\* A content is renamed into place, or the writing fails.
LEMMA PublishKeeps ==
    ASSUME FileInv, NEW p \in Proc, Publish(p)
    PROVE  FileInv'
<1> DEFINE f == FileOf(job[p].op)
           next == WriteFileDurable(job[p].data)
<1>1. FileTypes /\ ProcTypes /\ Exclusion /\ NamesApart /\ NamesInFile
      /\ Places /\ Releasing /\ OnDevice /\ OneGenesis /\ LocksAreTold
  BY DEF FileInv, Types
<1>2. /\ at[p] = "publish" /\ UNCHANGED <<lock, t0, seen, held, acked, names>>
      /\ Prepared(p)
  BY <1>1 DEF Publish, Places, memory, bounds
<1>3. \A q \in Proc \ {p} : ~ Critical(q)
  BY <1>1, <1>2 DEF Exclusion, Critical
<1>4. CASE /\ at' = [at EXCEPT ![p] = "release"]
           /\ job' = [job EXCEPT ![p].result = "failure"]
           /\ UNCHANGED <<file, kept>>
  <2>1. /\ at'[p] = "release" /\ \A q \in Proc \ {p} : at'[q] = at[q] /\ job'[q] = job[q]
        /\ at' \in [Proc -> Place] /\ job' = [q \in Proc |-> job'[q]]
    BY <1>1, <1>4 DEF ProcTypes, Place
  <2>2. job'[p] = [op |-> job[p].op, name |-> job[p].name, data |-> job[p].data,
                   result |-> "failure"]
    <3>1. job[p] = [op |-> job[p].op, name |-> job[p].name, data |-> job[p].data,
                    result |-> job[p].result]
      BY <1>1 DEF ProcTypes
    <3>2. job'[p] = [job[p] EXCEPT !.result = "failure"]
      BY <1>1, <1>4 DEF ProcTypes
    <3> QED
      BY <3>1, <3>2
  <2>3. \A q \in Proc : job'[q].op = job[q].op /\ job'[q].name = job[q].name
    BY <2>1, <2>2
  <2>4. FileTypes' /\ OnDevice' /\ OneGenesis' /\ LocksAreTold' /\ UNCHANGED Bundle
    BY <1>1, <1>2, <1>4, FilesKept DEF OneGenesis, LocksAreTold, Bundle
  <2>5. ProcTypes'
    BY <1>1, <1>2, <2>1, <2>2 DEF ProcTypes, Result
  <2>6. Exclusion' /\ NamesApart' /\ NamesInFile'
    BY <1>1, <1>2, <2>1, <2>3, <2>4 DEF Exclusion, Critical, NamesApart, NamesInFile
  <2>7. Releasing'
    BY <1>1, <1>2, <1>4, <2>1, <2>3 DEF Releasing
  <2>8. Places'
    <3>1. job'[p].op # "none" /\ job'[p].result = "failure"
      BY <1>2, <2>2 DEF Prepared, LockOps
    <3>2. \A q \in Proc \ {p} : ~ Critical(q)' /\ (at'[q] = "wait" => job'[q].op # "none")
      BY <1>1, <1>3, <2>1 DEF Critical, Places
    <3> QED
      BY <2>1, <3>1, <3>2 DEF Places, Critical
  <2> QED
    BY <2>4, <2>5, <2>6, <2>7, <2>8 DEF FileInv, Types
<1>5. CASE /\ file' = [file EXCEPT ![f] = next]
           /\ kept' = [kept EXCEPT ![f] = @ \cup {next}]
           /\ at' = [at EXCEPT ![p] = "sync"]
           /\ UNCHANGED job
  <2>1. /\ at'[p] = "sync" /\ \A q \in Proc \ {p} : at'[q] = at[q]
        /\ at' \in [Proc -> Place]
    BY <1>1, <1>5 DEF ProcTypes, Place
  <2>2. /\ f \in File /\ file'[f] = next /\ kept'[f] = kept[f] \cup {next}
        /\ \A g \in File \ {f} : file'[g] = file[g] /\ kept'[g] = kept[g]
        /\ file' = [g \in File |-> file'[g]] /\ kept' = [g \in File |-> kept'[g]]
        /\ next.data = job[p].data /\ next = Content(next.data, "device")
    BY <1>1, <1>5 DEF FileTypes, FileOf, File, WriteFileDurable, Content
  <2> HIDE DEF next
  <2>3. CASE job[p].op \in {"open", "swap"}
    <3>1. f = "bundle"
      BY <2>3 DEF FileOf, LockOps
    <3>2. /\ Bundle' = job[p].data /\ UNCHANGED file["locks"]
          /\ kept'["bundle"] = kept["bundle"] \cup {next}
      BY <2>2, <3>1 DEF Bundle, File
    <3>3. /\ job[p].data \in Seq(Nat) /\ job[p].data # <<>>
          /\ \A c \in kept["bundle"] : Begins(c.data, job[p].data)
          /\ Begins(job[p].data, job[p].data)
          /\ ToSet(Bundle) \subseteq ToSet(job[p].data)
          /\ ToSet(job[p].data) \subseteq ToSet(Bundle) \cup {job[p].name}
          /\ \A i \in 1..Len(job[p].data) : job[p].data[i] <= names
          /\ Bundle # <<>> => Head(job[p].data) = Head(Bundle)
          /\ job[p].result = "success" => job[p].name \in ToSet(job[p].data)
      BY <1>2, <2>3, NextBundle
    <3>4. FileTypes'
      BY <1>1, <2>2, <3>1, <3>3 DEF FileTypes, File
    <3>5. OnDevice'
      <4>1. acked \subseteq ToSet(Bundle)
        BY <1>1 DEF OnDevice, FileTypes, Bundle, File
      <4>2. \A c \in kept'["bundle"] : Begins(c.data, Bundle') /\ acked' \subseteq ToSet(c.data)
        BY <1>1, <1>2, <2>2, <3>2, <3>3, <4>1 DEF OnDevice
      <4> QED
        BY <4>2 DEF OnDevice, Begins
    <3>6. OneGenesis' /\ LocksAreTold' /\ Releasing'
      BY <1>1, <1>2, <1>5, <2>1, <3>2, <3>3 DEF OneGenesis, LocksAreTold, Releasing
    <3>7. NamesInFile'
      <4>1. ASSUME NEW q \in Proc, at'[q] \in {"wait", "load"}, job[q].op = "open"
            PROVE  job[q].name \notin ToSet(job[p].data)
        <5>1. q # p /\ at[q] = at'[q]
          BY <2>1, <4>1
        <5>2. job[q].name # None /\ job[q].name \notin ToSet(Bundle)
          BY <1>1, <4>1, <5>1 DEF NamesInFile
        <5>3. job[q].name # job[p].name
          BY <1>1, <5>1, <5>2 DEF NamesApart
        <5> QED
          BY <3>3, <5>2, <5>3
      <4>2. \A q \in Proc : at'[q] \in {"wait", "load"} /\ job[q].op \in {"open", "swap"}
               => job[q].name # None
        BY <1>1, <2>1 DEF NamesInFile
      <4> QED
        BY <1>2, <1>5, <3>2, <3>3, <4>1, <4>2 DEF NamesInFile
    <3>8. Places'
      <4>1. job[p].op # "none" /\ job[p].op # "acquire"
        BY <2>3
      <4>2. job'[p].result = "success" => Answered(p)'
        BY <1>5, <3>2, <3>3, <4>1 DEF Answered
      <4>3. \A q \in Proc \ {p} : ~ Critical(q)' /\ (at'[q] = "wait" => job'[q].op # "none")
        BY <1>1, <1>3, <1>5, <2>1 DEF Critical, Places
      <4> QED
        BY <1>5, <2>1, <4>1, <4>2, <4>3 DEF Places, Critical
    <3>9. ProcTypes' /\ Exclusion' /\ NamesApart'
      BY <1>1, <1>2, <1>5, <2>1 DEF ProcTypes, Exclusion, Critical, NamesApart
    <3> QED
      BY <3>4, <3>5, <3>6, <3>7, <3>8, <3>9 DEF FileInv, Types
  <2>4. CASE job[p].op \in LockOps
    <3>1. f = "locks"
      BY <2>4 DEF FileOf
    <3>2. UNCHANGED file["bundle"] /\ UNCHANGED kept["bundle"] /\ UNCHANGED Bundle
      BY <2>2, <3>1 DEF Bundle, File
    <3>3. file'["locks"].data = job[p].data
      BY <2>2, <3>1
    <3>4. /\ \A q \in Proc : held[q] # None => job[p].data = <<held[q]>>
          /\ \A q \in Proc \ {p} :
                at[q] \in {"wait", "load", "publish"} /\ job[q].op = "release"
                   => job[p].data = <<job[q].name>>
          /\ job[p].op = "acquire" /\ job[p].result = "success"
                => job[p].data = <<job[p].name>>
      BY <1>2, <2>4, NextTable
    <3>5. FileTypes'
      BY <1>1, <2>2, <3>1, <3>2 DEF FileTypes, File
    <3>6. OnDevice' /\ OneGenesis' /\ NamesInFile'
      BY <1>1, <1>2, <1>5, <2>1, <3>2 DEF OnDevice, Begins, OneGenesis, NamesInFile
    <3>7. LocksAreTold'
      BY <1>2, <3>3, <3>4 DEF LocksAreTold
    <3>8. Releasing'
      BY <1>1, <1>2, <1>5, <2>1, <3>3, <3>4 DEF Releasing
    <3>9. Places'
      <4>1. job[p].op \notin {"none", "open", "swap"}
        BY <2>4 DEF LockOps
      <4>2. job'[p].result = "success" => Answered(p)'
        BY <1>5, <3>3, <3>4, <4>1 DEF Answered
      <4>3. \A q \in Proc \ {p} : ~ Critical(q)' /\ (at'[q] = "wait" => job'[q].op # "none")
        BY <1>1, <1>3, <1>5, <2>1 DEF Critical, Places
      <4> QED
        BY <1>5, <2>1, <4>1, <4>2, <4>3 DEF Places, Critical
    <3>10. ProcTypes' /\ Exclusion' /\ NamesApart'
      BY <1>1, <1>2, <1>5, <2>1 DEF ProcTypes, Exclusion, Critical, NamesApart
    <3> QED
      BY <3>5, <3>6, <3>7, <3>8, <3>9, <3>10 DEF FileInv, Types
  <2> QED
    BY <1>2, <2>3, <2>4 DEF Prepared
<1> QED
  BY <1>4, <1>5 DEF Publish

\* The directory is flushed: what was renamed stays.
LEMMA SyncKeeps ==
    ASSUME FileInv, NEW p \in Proc, SyncDirectory(p)
    PROVE  FileInv'
<1>1. FileTypes /\ ProcTypes /\ Exclusion /\ NamesApart /\ NamesInFile
      /\ Places /\ Releasing /\ OnDevice /\ OneGenesis /\ LocksAreTold
  BY DEF FileInv, Types
<1>2. /\ at[p] = "sync" /\ at' = [at EXCEPT ![p] = "release"]
      /\ kept' = [f \in File |-> {file[f]}]
      /\ UNCHANGED <<lock, file, job, t0, seen, held, acked, names>>
  BY DEF SyncDirectory, memory, bounds
<1>3. \A q \in Proc \ {p} : ~ Critical(q)
  BY <1>1, <1>2 DEF Exclusion, Critical
<1>4. /\ at'[p] = "release" /\ \A q \in Proc \ {p} : at'[q] = at[q]
      /\ at' \in [Proc -> Place] /\ UNCHANGED Bundle
  BY <1>1, <1>2 DEF ProcTypes, Place, Bundle
<1>5. FileTypes'
  BY <1>1, <1>2 DEF FileTypes, File
<1>6. OnDevice'
  <2>1. kept'["bundle"] = {file["bundle"]} /\ file["bundle"] \in kept["bundle"]
    BY <1>1, <1>2 DEF FileTypes, File
  <2> QED
    BY <1>1, <1>2, <1>4, <2>1 DEF OnDevice, Begins
<1>7. ProcTypes' /\ Exclusion' /\ NamesApart' /\ NamesInFile' /\ Releasing'
      /\ OneGenesis' /\ LocksAreTold'
  BY <1>1, <1>2, <1>4 DEF ProcTypes, Exclusion, Critical, NamesApart, NamesInFile,
                         Releasing, OneGenesis, LocksAreTold
<1>8. Places'
  <2>1. job[p].op # "none" /\ (job[p].result = "success" => Answered(p))
    BY <1>1, <1>2 DEF Places, Critical
  <2>2. Flushed(p)'
    BY <1>2 DEF Flushed, File
  <2>3. job[p].result = "success" => Answered(p)'
    BY <1>2, <1>4, <2>1 DEF Answered
  <2>4. \A q \in Proc \ {p} : ~ Critical(q)' /\ (at'[q] = "wait" => job'[q].op # "none")
    BY <1>1, <1>2, <1>3, <1>4 DEF Critical, Places
  <2> QED
    BY <1>2, <1>4, <2>1, <2>2, <2>3, <2>4 DEF Places, Critical
<1> QED
  BY <1>5, <1>6, <1>7, <1>8 DEF FileInv, Types

\* The lock is given back and the caller told.
LEMMA ReleaseKeeps ==
    ASSUME FileInv, NEW p \in Proc, Release(p)
    PROVE  FileInv'
<1>1. FileTypes /\ ProcTypes /\ Exclusion /\ NamesApart /\ NamesInFile
      /\ Places /\ Releasing /\ OnDevice /\ OneGenesis /\ LocksAreTold
  BY DEF FileInv, Types
<1>2. /\ at[p] = "release" /\ UNCHANGED <<file, kept, names>>
      /\ job' = [job EXCEPT ![p] = NoJob]
      /\ IF job[p].result = "success" THEN Returns(p) ELSE Thrown(p) /\ UNCHANGED <<memory, acked>>
  BY DEF Release, bounds
<1>3. \A q \in Proc \ {p} : ~ Critical(q)
  BY <1>1, <1>2 DEF Exclusion, Critical
<1>4. /\ at'[p] \in {"off", "idle"} /\ \A q \in Proc \ {p} : at'[q] = at[q]
      /\ at' \in [Proc -> Place]
  BY <1>1, <1>2 DEF ProcTypes, Place, Returns, Thrown
<1>5. /\ \A q \in Proc \ {p} : job'[q] = job[q]
      /\ job'[p] = [op |-> "none", name |-> None, data |-> <<>>, result |-> "failure"]
      /\ job' = [q \in Proc |-> job'[q]]
  BY <1>1, <1>2 DEF ProcTypes, NoJob, Job
<1>6. UNCHANGED Bundle
  BY <1>2 DEF Bundle
<1>7. /\ held' = [q \in Proc |-> held'[q]]
      /\ \A q \in Proc \ {p} : held'[q] = held[q]
      /\ \/ held'[p] = held[p]
         \/ held'[p] = job[p].name /\ file["locks"].data = <<job[p].name>>
  BY <1>1, <1>2 DEF ProcTypes, Returns, Places, Answered, memory
<1>8. /\ t0' = [q \in Proc |-> t0'[q]] /\ seen' = [q \in Proc |-> seen'[q]]
      /\ \A q \in Proc \ {p} : t0'[q] = t0[q]
      /\ \/ t0'[p] = t0[p]
         \/ Bundle # <<>> /\ t0'[p] = Head(Bundle)
  BY <1>1, <1>2 DEF ProcTypes, Returns, Places, Answered, memory
<1>9. \/ acked' = acked
      \/ /\ acked' = acked \cup {job[p].name} /\ job[p].name \in ToSet(Bundle)
         /\ kept["bundle"] = {file["bundle"]}
  BY <1>1, <1>2 DEF Returns, Places, Answered, Flushed
<1>10. FileTypes' /\ OnDevice'
  <2>1. FileTypes'
    BY <1>1, <1>2 DEF FileTypes
  <2>2. \A c \in kept["bundle"] : Begins(c.data, Bundle) /\ acked' \subseteq ToSet(c.data)
    BY <1>1, <1>9 DEF OnDevice, Bundle
  <2> QED
    BY <1>2, <1>6, <2>1, <2>2 DEF OnDevice, Begins
<1>11. ProcTypes'
  <2>1. \A q \in Proc :
          /\ job'[q] = [op |-> job'[q].op, name |-> job'[q].name, data |-> job'[q].data,
                      result |-> job'[q].result]
          /\ job'[q].op \in Op /\ job'[q].result \in Result
          /\ job'[q].name = None \/ job'[q].name \in 1..names
    BY <1>1, <1>5 DEF ProcTypes, Op, Result
  <2>2. \A q \in Proc : held'[q] = None \/ held'[q] \in 1..names
    BY <1>1, <1>7 DEF ProcTypes
  <2> QED
    BY <1>1, <1>2, <1>4, <1>5, <1>7, <1>8, <2>1, <2>2 DEF ProcTypes
<1>12. Exclusion'
  <2>1. \A q \in Proc : ~ Critical(q)'
    BY <1>3, <1>4 DEF Critical
  <2> QED
    BY <2>1 DEF Exclusion
<1>13. NamesApart'
  BY <1>1, <1>5, <1>7 DEF NamesApart
<1>14. NamesInFile' /\ Releasing'
  <2>1. \A q \in Proc \ {p} : at[q] \in {"wait", "load", "publish"} /\ job[q].op = "release"
           => held'[q] = held[q]
    BY <1>7
  <2> QED
    BY <1>1, <1>2, <1>4, <1>5, <1>6, <2>1 DEF NamesInFile, Releasing
<1>15. Places'
  <2>1. \A q \in Proc : ~ Critical(q)'
    BY <1>3, <1>4 DEF Critical
  <2>2. \A q \in Proc : at'[q] = "wait" => job'[q].op # "none"
    BY <1>1, <1>4, <1>5 DEF Places
  <2> QED
    BY <2>1, <2>2 DEF Places, Critical
<1>16. OneGenesis' /\ LocksAreTold'
  BY <1>1, <1>2, <1>6, <1>7, <1>8 DEF OneGenesis, LocksAreTold
<1> QED
  BY <1>10, <1>11, <1>12, <1>13, <1>14, <1>15, <1>16 DEF FileInv, Types

-----------------------------------------------------------------------------
(* Deaths.                                                                 *)

\* What those who are gone leave behind, if the files are right.
LEMMA ForgetKeeps ==
    ASSUME FileInv, NEW gone \in SUBSET Proc, Forget(gone), UNCHANGED names,
           FileTypes', OnDevice', Exclusion',
           \A i \in 1..Len(Bundle') : Bundle'[i] <= names,
           gone = Proc \/ UNCHANGED <<file, kept>>
    PROVE  FileInv'
<1>1. FileTypes /\ ProcTypes /\ Exclusion /\ NamesApart /\ NamesInFile
      /\ Places /\ Releasing /\ OnDevice /\ OneGenesis /\ LocksAreTold
  BY DEF FileInv, Types
<1>2. /\ at' = [p \in Proc |-> IF p \in gone THEN "off" ELSE at[p]]
      /\ job' = [p \in Proc |-> IF p \in gone THEN NoJob ELSE job[p]]
      /\ t0' = [p \in Proc |-> IF p \in gone THEN None ELSE t0[p]]
      /\ seen' = [p \in Proc |-> IF p \in gone THEN None ELSE seen[p]]
      /\ held' = [p \in Proc |-> IF p \in gone THEN None ELSE held[p]]
  BY DEF Forget
<1>3. \A p \in gone : /\ at'[p] = "off" /\ t0'[p] = None /\ held'[p] = None
                      /\ job'[p] = [op |-> "none", name |-> None, data |-> <<>>,
                                    result |-> "failure"]
  BY <1>2 DEF NoJob, Job
<1>4. \A p \in Proc \ gone : /\ at'[p] = at[p] /\ t0'[p] = t0[p] /\ held'[p] = held[p]
                             /\ job'[p] = job[p] /\ seen'[p] = seen[p]
  BY <1>2
<1>5. \A p \in Proc \ gone : UNCHANGED <<file, kept>> /\ UNCHANGED Bundle
  BY DEF Bundle
<1>6. ProcTypes'
  <2>1. \A q \in Proc :
          /\ job'[q] = [op |-> job'[q].op, name |-> job'[q].name, data |-> job'[q].data,
                      result |-> job'[q].result]
          /\ job'[q].op \in Op /\ job'[q].result \in Result
          /\ job'[q].name = None \/ job'[q].name \in 1..names
          /\ held'[q] = None \/ held'[q] \in 1..names
    BY <1>1, <1>3, <1>4 DEF ProcTypes, Op, Result
  <2>2. at' \in [Proc -> Place]
    BY <1>1, <1>2 DEF ProcTypes, Place
  <2>3. /\ job' = [p \in Proc |-> job'[p]] /\ t0' = [p \in Proc |-> t0'[p]]
        /\ seen' = [p \in Proc |-> seen'[p]] /\ held' = [p \in Proc |-> held'[p]]
    BY <1>2
  <2> QED
    BY <1>1, <2>1, <2>2, <2>3 DEF ProcTypes
<1>7. NamesApart'
  BY <1>1, <1>3, <1>4 DEF NamesApart
<1>8. NamesInFile' /\ Releasing'
  BY <1>1, <1>3, <1>4, <1>5 DEF NamesInFile, Releasing
<1>9. Places'
  <2>1. ASSUME NEW q \in Proc \ gone
        PROVE  /\ Critical(q)' \/ at'[q] = "wait" => job'[q].op # "none"
               /\ at'[q] = "publish" => Prepared(q)'
               /\ at'[q] = "sync" /\ job'[q].result = "success" => Answered(q)'
               /\ at'[q] = "release" /\ job'[q].result = "success" => Answered(q)' /\ Flushed(q)'
    BY <1>1, <1>4, <1>5 DEF Places, Critical, Prepared, Answered, Flushed
  <2> QED
    BY <1>3, <2>1 DEF Places, Critical
<1>10. OneGenesis' /\ LocksAreTold'
  BY <1>1, <1>3, <1>4, <1>5 DEF OneGenesis, LocksAreTold
<1> QED
  BY <1>6, <1>7, <1>8, <1>9, <1>10 DEF FileInv, Types

LEMMA CrashKeeps ==
    ASSUME FileInv, NEW p \in Proc, Crash(p)
    PROVE  FileInv'
<1>1. FileTypes /\ ProcTypes /\ Exclusion /\ NamesInFile /\ OnDevice
  BY DEF FileInv, Types
<1>2. /\ Forget({p}) /\ UNCHANGED <<file, kept, acked, names>>
      /\ lock' = IF lock = p THEN Abandoned ELSE lock
  BY DEF Crash
<1>3. FileTypes' /\ OnDevice'
  BY <1>1, <1>2, FilesKept
<1>4. Exclusion'
  BY <1>1, <1>2 DEF Exclusion, Critical, Forget
<1>5. \A i \in 1..Len(Bundle') : Bundle'[i] <= names
  BY <1>1, <1>2 DEF NamesInFile, Bundle
<1> QED
  BY <1>2, <1>3, <1>4, <1>5, ForgetKeeps

\* What is left of the bundle is a content that was kept.
LEMMA LeftOver ==
    ASSUME FileInv, PowerLoss
    PROVE  /\ file'["bundle"] \in kept["bundle"] /\ file'["locks"] \in kept["locks"]
           /\ file' = [f \in File |-> file'[f]]
           /\ kept' = [f \in File |-> {file'[f]}]
<1>1. PICK bundle \in kept["bundle"], locks \in kept["locks"] :
         file' = [f \in File |-> Survives(IF f = "bundle" THEN bundle ELSE locks)]
  BY DEF PowerLoss
<1>2. bundle = Content(bundle.data, "device") /\ locks = Content(locks.data, "device")
  BY DEF FileInv, Types, FileTypes, File
<1>3. Survives(bundle) = bundle /\ Survives(locks) = locks
  BY <1>2 DEF Survives, Content
<1>4. file'["bundle"] = bundle /\ file'["locks"] = locks
  BY <1>1, <1>3 DEF File
<1> QED
  BY <1>1, <1>4 DEF PowerLoss

LEMMA PowerLossKeeps ==
    ASSUME FileInv, PowerLoss
    PROVE  FileInv'
<1>1. FileTypes /\ ProcTypes /\ NamesInFile /\ OnDevice
  BY DEF FileInv, Types
<1>2. Forget(Proc) /\ UNCHANGED <<acked, names>>
  BY DEF PowerLoss
<1>3. /\ file'["bundle"] \in kept["bundle"] /\ file'["locks"] \in kept["locks"]
      /\ file' = [f \in File |-> file'[f]] /\ kept' = [f \in File |-> {file'[f]}]
  BY LeftOver
<1>4. \A f \in File : file'[f] \in kept[f] /\ kept'[f] = {file'[f]}
  BY <1>3 DEF File
<1>5. FileTypes'
  <2>1. kept' = [f \in File |-> kept'[f]]
    BY <1>3
  <2>2. "bundle" \in File
    BY DEF File
  <2> QED
    BY <1>1, <1>3, <1>4, <2>1, <2>2 DEF FileTypes
<1>6. /\ Begins(Bundle', Bundle) /\ Bundle' \in Seq(Nat) /\ Bundle \in Seq(Nat)
      /\ acked \subseteq ToSet(Bundle')
  BY <1>1, <1>3 DEF OnDevice, FileTypes, Bundle, File
<1>7. OnDevice'
  <2>1. kept'["bundle"] = {file'["bundle"]}
    BY <1>4 DEF File
  <2>2. Begins(Bundle', Bundle')
    BY <1>6 DEF Begins
  <2> QED
    BY <1>2, <1>6, <2>1, <2>2 DEF OnDevice, Begins, Bundle
<1>8. Exclusion'
  BY <1>2 DEF Exclusion, Critical, Forget
<1>9. \A i \in 1..Len(Bundle') : Bundle'[i] <= names
  BY <1>1, <1>6 DEF NamesInFile, Begins
<1> QED
  BY <1>2, <1>5, <1>7, <1>8, <1>9, ForgetKeeps

LEMMA OperatorKeeps ==
    ASSUME FileInv, Operator
    PROVE  FileInv'
<1>1. FileTypes /\ ProcTypes /\ Exclusion /\ NamesApart /\ NamesInFile
      /\ Places /\ Releasing /\ OnDevice /\ OneGenesis /\ LocksAreTold
  BY DEF FileInv, Types
<1>2. /\ UNCHANGED <<file, kept, at, job, t0, seen, held, acked, names>> /\ UNCHANGED Bundle
      /\ \A p \in Proc : ~ Critical(p)'
  BY DEF Operator, memory, bounds, Bundle, Critical
<1>3. FileTypes' /\ OnDevice' /\ Exclusion'
  BY <1>1, <1>2, FilesKept DEF Exclusion
<1>4. ProcTypes' /\ NamesApart' /\ NamesInFile' /\ Releasing' /\ OneGenesis' /\ LocksAreTold'
  BY <1>1, <1>2 DEF ProcTypes, NamesApart, NamesInFile, Releasing, OneGenesis, LocksAreTold
<1>5. Places'
  BY <1>1, <1>2 DEF Places, Critical, Prepared, Answered, Flushed
<1> QED
  BY <1>3, <1>4, <1>5 DEF FileInv, Types

-----------------------------------------------------------------------------
(* The theorems.                                                           *)

LEMMA FileInit == Init => FileInv
<1> SUFFICES ASSUME Init PROVE FileInv
  OBVIOUS
<1>1. FileTypes /\ OnDevice
  <2>1. <<>> \in Seq(Nat) /\ Len(<<>>) = 0
    OBVIOUS
  <2>2. /\ file = [f \in File |-> [data |-> <<>>, where |-> "device"]]
        /\ kept = [f \in File |-> {[data |-> <<>>, where |-> "device"]}]
        /\ acked = {}
    BY DEF Init, Missing, Content
  <2>3. FileTypes
    <3>1. \A f \in File : /\ file[f] = [data |-> <<>>, where |-> "device"]
                          /\ kept[f] = {[data |-> <<>>, where |-> "device"]}
      BY <2>2
    <3>2. file = [f \in File |-> file[f]] /\ kept = [f \in File |-> kept[f]]
      BY <2>2
    <3>3. \A f \in File : /\ file[f] \in kept[f]
                          /\ \A c \in kept[f] : c = Content(c.data, "device")
      BY <3>1 DEF Content
    <3>4. \A c \in kept["bundle"] : c.data \in Seq(Nat)
      <4>1. kept["bundle"] = {[data |-> <<>>, where |-> "device"]}
        BY <3>1 DEF File
      <4>2. [data |-> <<>>, where |-> "device"].data = <<>>
        OBVIOUS
      <4>3. ASSUME NEW c \in kept["bundle"] PROVE c.data = <<>>
        BY <4>1, <4>2
      <4> QED
        BY <2>1, <4>3
    <3> QED
      BY <3>2, <3>3, <3>4 DEF FileTypes
  <2>4. OnDevice
    BY <2>1, <2>2 DEF OnDevice, Begins, Bundle, File
  <2> QED
    BY <2>3, <2>4
<1>2. \A p \in Proc : /\ at[p] = "off" /\ held[p] = None /\ t0[p] = None
                      /\ job[p] = [op |-> "none", name |-> None, data |-> <<>>,
                                   result |-> "failure"]
  BY DEF Init, NoJob, Job
<1>3. ProcTypes
  BY <1>2 DEF Init, ProcTypes, Place, Op, Result
<1>4. Exclusion /\ NamesApart /\ Places /\ Releasing /\ OneGenesis /\ LocksAreTold
  BY <1>2 DEF Exclusion, Critical, NamesApart, Places, Releasing, OneGenesis, LocksAreTold
<1>5. NamesInFile
  <2>1. Len(Bundle) = 0
    BY DEF Init, Missing, Content, Bundle, File
  <2> QED
    BY <1>2, <2>1 DEF NamesInFile
<1> QED
  BY <1>1, <1>3, <1>4, <1>5 DEF FileInv, Types

LEMMA FileNext == FileInv /\ [Next]_vars => FileInv'
<1> SUFFICES ASSUME FileInv, [Next]_vars PROVE FileInv'
  OBVIOUS
<1>1. ASSUME NEW p \in Proc, Open(p) \/ Access(p) PROVE FileInv'
  BY <1>1, AccessKeeps
<1>2. ASSUME NEW p \in Proc, AcquireFileLock(p) PROVE FileInv'
  <2>1. "load" \in Place
    BY DEF Place
  <2> QED
    BY <1>2, <2>1, MoveKeeps DEF AcquireFileLock, LinksIfAbsent, bounds
<1>3. ASSUME NEW p \in Proc, GiveUp(p) PROVE FileInv'
  <2>1. PICK to \in {"off", "idle"} : at' = [at EXCEPT ![p] = to]
    BY <1>3 DEF GiveUp, Thrown
  <2>2. to \in Place
    BY <2>1 DEF Place
  <2> QED
    BY <1>3, <2>1, <2>2, MoveKeeps DEF GiveUp, bounds, disk
<1>4. ASSUME NEW p \in Proc, Load(p) PROVE FileInv'
  BY <1>4, LoadKeeps
<1>5. ASSUME NEW p \in Proc, Publish(p) PROVE FileInv'
  BY <1>5, PublishKeeps
<1>6. ASSUME NEW p \in Proc, SyncDirectory(p) PROVE FileInv'
  BY <1>6, SyncKeeps
<1>7. ASSUME NEW p \in Proc, Release(p) PROVE FileInv'
  BY <1>7, ReleaseKeeps
<1>8. ASSUME NEW p \in Proc, Crash(p) PROVE FileInv'
  BY <1>8, CrashKeeps
<1>9. CASE UNCHANGED vars
  <2>1. /\ UNCHANGED <<lock, file, kept, at, job, t0, seen, held, acked, names>>
    BY <1>9 DEF vars, disk, memory, bounds
  <2> QED
    <3>1. FileTypes' /\ OnDevice' /\ UNCHANGED Bundle
      BY <2>1, FilesKept DEF FileInv, Types, Bundle
    <3>2. ProcTypes' /\ Exclusion' /\ NamesApart' /\ Releasing' /\ OneGenesis' /\ LocksAreTold'
      BY <2>1, <3>1 DEF FileInv, Types, ProcTypes, Exclusion, Critical, NamesApart, Releasing,
                        OneGenesis, LocksAreTold
    <3>3. NamesInFile' /\ Places'
      BY <2>1, <3>1 DEF FileInv, NamesInFile, Places, Critical, Prepared, Answered, Flushed
    <3> QED
      BY <3>1, <3>2, <3>3 DEF FileInv, Types
<1> QED
  BY <1>1, <1>2, <1>3, <1>4, <1>5, <1>6, <1>7, <1>8, <1>9, PowerLossKeeps, OperatorKeeps
     DEF Next

LEMMA FileInvariant == FileSpec => []FileInv
  BY FileInit, FileNext, PTL DEF FileSpec

\* A write that returned with success is in the bundle whatever dies
\* afterwards, and the bundle can be read (atomicWriteFileSync).
THEOREM WritesStay == FileSpec => []ReturnedStays
<1>1. FileInv => ReturnedStays
  <2> SUFFICES ASSUME FileInv PROVE ReturnedStays
    OBVIOUS
  <2>1. file["bundle"] \in kept["bundle"] /\ file["bundle"] = Content(file["bundle"].data, "device")
    BY DEF FileInv, Types, FileTypes, File
  <2>2. file["bundle"].where # "torn"
    BY <2>1 DEF Content
  <2> QED
    BY <2>1, <2>2 DEF FileInv, OnDevice, ReturnedStays, Bundle
<1> QED
  BY <1>1, FileInvariant, PTL

\* All processes with the directory open work on one world
\* (createFileRuntimePersistence).
THEOREM OneWorld == FileSpec => []OneGenesis
<1>1. FileInv => OneGenesis
  BY DEF FileInv
<1> QED
  BY <1>1, FileInvariant, PTL

\* The table never disagrees with what a process was told of its lock
\* (FileResourceLockTable).
THEOREM TableIsTold == FileSpec => []LocksAreTold
<1>1. FileInv => LocksAreTold
  BY DEF FileInv
<1> QED
  BY <1>1, FileInvariant, PTL

\* Commits are appended one at a time, each to the head its writer had read
\* (withMutate).
THEOREM WritesTakeTurns == FileSpec => OneWriteAtATime
<1>1. ASSUME FileInv, [Next]_vars
      PROVE  [ \/ Bundle = <<>> /\ Len(Bundle') = 1
               \/ \E p \in Proc :
                     /\ job[p].op = "swap"
                     /\ seen[p] = Last(Bundle)
                     /\ Bundle' = Append(Bundle, job[p].name)
               \/ /\ \A p \in Proc : at'[p] = "off"
                  /\ IsStrictPrefix(Bundle', Bundle) ]_Bundle
  <2>1. ASSUME NEW p \in Proc, Publish(p), Bundle' # Bundle
        PROVE  \/ Bundle = <<>> /\ Len(Bundle') = 1
               \/ /\ job[p].op = "swap" /\ seen[p] = Last(Bundle)
                  /\ Bundle' = Append(Bundle, job[p].name)
    <3>1. at[p] = "publish" /\ Prepared(p)
      BY <1>1, <2>1 DEF Publish, FileInv, Places
    <3>2. file' = [file EXCEPT ![FileOf(job[p].op)] = WriteFileDurable(job[p].data)]
      BY <2>1 DEF Publish, Bundle
    <3>3. FileOf(job[p].op) = "bundle"
      BY <2>1, <3>2 DEF FileOf, Bundle
    <3>4. Bundle' = job[p].data
      BY <1>1, <3>2, <3>3 DEF Bundle, WriteFileDurable, Content, FileInv, Types, FileTypes, File
    <3>5. job[p].op \in {"open", "swap"}
      BY <3>1, <3>3 DEF Prepared, FileOf
    <3> QED
      BY <2>1, <3>1, <3>4, <3>5 DEF Prepared
  <2>2. ASSUME PowerLoss, Bundle' # Bundle
        PROVE  (\A p \in Proc : at'[p] = "off") /\ IsStrictPrefix(Bundle', Bundle)
    <3>1. Begins(Bundle', Bundle) /\ Bundle' \in Seq(Nat) /\ Bundle \in Seq(Nat)
      BY <1>1, <2>2, LeftOver DEF FileInv, Types, FileTypes, OnDevice, Bundle, File
    <3>2. IsStrictPrefix(Bundle', Bundle)
      BY <2>2, <3>1, BeginsStrictly
    <3> QED
      BY <2>2, <3>2 DEF PowerLoss, Forget
  <2>3. ASSUME NEW p \in Proc,
               \/ Open(p) \/ Access(p) \/ AcquireFileLock(p) \/ GiveUp(p) \/ Load(p)
               \/ SyncDirectory(p) \/ Release(p) \/ Crash(p)
        PROVE  UNCHANGED file
    BY <2>3 DEF Open, Access, Begin, AcquireFileLock, GiveUp, Load, SyncDirectory, Release,
                Crash, disk
  <2>4. Operator \/ UNCHANGED vars => UNCHANGED file
    BY DEF Operator, vars, disk
  <2> QED
    BY <1>1, <2>1, <2>2, <2>3, <2>4 DEF Next, Bundle
<1> QED
  BY <1>1, FileInvariant, PTL DEF FileSpec, OneWriteAtATime
=============================================================================
