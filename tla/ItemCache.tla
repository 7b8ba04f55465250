----------------------------- MODULE ItemCache ------------------------------
(***************************************************************************)
(* Measurements kept per item: itemcache.rs (the item files), itemreuse.rs  *)
(* (the plan of a measurement and what it keeps), codekey/mod.rs (the key   *)
(* of what an item executed) and `cache merge' of item files.               *)
(*                                                                          *)
(* A binary maps functions to their content, and a content says which       *)
(* functions it calls.  An item executes what is reachable from its root,   *)
(* and its counts are a function of the code executed (callgrind), so that  *)
(* code stands for them.  Hashes do not collide: a key is the code it       *)
(* hashes.  One scope: the conditions `item_scope' hashes are equal for all *)
(* invocations here.  A file is a set of entries, `at' their place in it,   *)
(* or cannot be parsed.                                                     *)
(***************************************************************************)
EXTENDS Naturals, FiniteSets

CONSTANTS
  Procs,      \* concurrent invocations on one machine
  Items, Functions, Contents,
  Binaries,
  Code,       \* per binary, the content of each function
  Calls,      \* per content, the functions it calls
  Root,       \* per item, the function it starts in
  Listing,    \* per binary, the items it lists under the filter and shard
  Finger,     \* per binary and item, the fingerprint of its claims
  Hashed,     \* per binary, the functions that can be hashed in it
  Broken,     \* <<content, fingerprint>>: claims that fail over that content
  Starts,     \* what is measured: one binary (measure, a gate against a
              \* baseline) or HEAD's and the merge-base's, recording or not
  PerItem,    \* PER_ITEM
  KEEP,
  MaxJobs,    \* bound: jobs that follow each other on the runner
  None, Absent, Empty, Torn   \* no value; no file; truncated; garbled

Fingers == UNION {{Finger[b][i] : i \in Items} : b \in Binaries}

(* Some functions with their contents: what an item executed.               *)
Codes == UNION {[S -> Contents] : S \in SUBSET Functions}
Outcomes == [code : Codes, finger : Fingers, ok : BOOLEAN]
IsEntry(e) ==
  /\ DOMAIN e.code \subseteq Functions
  /\ \A f \in DOMAIN e.code : e.code[f] \in Contents
  /\ e.finger \in Fingers /\ e.ok \in BOOLEAN /\ e.at \in Nat

ASSUME BinariesAssumption ==
  /\ Code \in [Binaries -> [Functions -> Contents]]
  /\ Calls \in [Contents -> SUBSET Functions]
  /\ Root \in [Items -> Functions]
  /\ Listing \in [Binaries -> SUBSET Items]
  /\ Hashed \in [Binaries -> SUBSET Functions]
  /\ \A b \in Binaries : Finger[b] \in [Items -> Fingers]
ASSUME StartsAssumption ==
  \A s \in Starts :
    /\ s.recording \in BOOLEAN
    /\ \/ \E b \in Binaries : s.bins = <<b>>
       \/ \E h, b \in Binaries : s.bins = <<h, b>>
ASSUME BoundsAssumption == PerItem \in Nat \ {0} /\ KEEP \in Nat /\ MaxJobs \in Nat
ASSUME NoneAssumption ==
  /\ None \notin Outcomes \cup Codes \cup Items
  /\ Cardinality({None, Absent, Empty, Torn}) = 4

VARIABLES
  file,      \* <item>.json
  written,   \* the order files were last written in, 1 the latest, 0 no file
  archive,   \* item files another job left, as `cache merge --from' finds them
  job,       \* what each invocation is at
  jobs

vars == <<file, written, archive, job, jobs>>

(* What an item of a binary executes: the least set of functions that has   *)
(* its root and what each member calls.                                     *)
Closed(b, S) == \A f \in S : Calls[Code[b][f]] \subseteq S
Reach(b, i) ==
  {f \in Functions : \A S \in SUBSET Functions : Root[i] \in S /\ Closed(b, S) => f \in S}
Executed == [b \in Binaries |-> [i \in Items |-> [f \in Reach(b, i) |-> Code[b][f]]]]

(* The item's claims, judged over the code it executed.                     *)
Holds(code, finger) == \A f \in DOMAIN code : <<code[f], finger>> \notin Broken

(* What measuring an item of a binary gives.                                *)
Outcome(b, i) ==
  [code |-> Executed[b][i], finger |-> Finger[b][i], ok |-> Holds(Executed[b][i], Finger[b][i])]

(* The key of some functions in binary b, None if one has no hash there.    *)
CodeKey(b, code) ==
  IF DOMAIN code \subseteq Hashed[b] THEN [f \in DOMAIN code |-> Code[b][f]] ELSE None

Readable(f) == f \notin {Absent, Empty, Torn}
Read(f) == IF Readable(f) THEN f ELSE {}

(* The stored metrics and verdicts of an item, as they go into a run.       *)
Spliced(e) == [code |-> e.code, finger |-> e.finger, ok |-> e.ok]

(* The entries that stand for an item in binary b, and the newest of them.  *)
(* Slip: the claims' fingerprint is not compared.                           *)
FitsAnyClaims(e, b, i) == CodeKey(b, e.code) = e.code
(* Slip: a hash of the item's first function only.                          *)
FitsAtRoot(e, b, i) ==
  /\ e.finger = Finger[b][i]
  /\ Root[i] \in DOMAIN e.code
  /\ DOMAIN e.code \subseteq Hashed[b]
  /\ e.code[Root[i]] = Code[b][Root[i]]
Fits(e, b, i) == e.finger = Finger[b][i] /\ CodeKey(b, e.code) = e.code

Lookup(entries, b, i) ==
  LET fit == {e \in entries : Fits(e, b, i)}
  IN  IF fit = {} THEN None ELSE Spliced(CHOOSE e \in fit : \A o \in fit : e.at <= o.at)

(* An item is looked up only if every binary measured lists it.             *)
Reusable(bins, i) == \A s \in DOMAIN bins : i \in Listing[bins[s]]
Hits(bins, recording) ==
  [s \in DOMAIN bins |-> [i \in Items |->
     IF recording \/ ~Reusable(bins, i) THEN None ELSE Lookup(Read(file[i]), bins[s], i)]]

(* What is left to measure of each side, by that side's own hits.           *)
Pending(bins, hits, s) == {i \in Listing[bins[s]] : hits[s][i] = None}

(* A side's run: what was left is measured, the rest is spliced in.         *)
RunOf(bins, hits, s) ==
  [i \in Pending(bins, hits, s) \cup {j \in Items : hits[s][j] # None} |->
     IF hits[s][i] # None THEN hits[s][i] ELSE Outcome(bins[s], i)]

(* A measured item is kept if all it executed can be hashed and no claim of *)
(* it failed.  Slip: failed claims are kept as well.                        *)
KeepsFailing(b, i) == CodeKey(b, Executed[b][i]) # None
Keeps(b, i) == CodeKey(b, Executed[b][i]) # None /\ Outcome(b, i).ok

-----------------------------------------------------------------------------
(* The first PerItem entries of a list.                                     *)
Place(S, e) == 1 + Cardinality({o \in S : o.at < e.at})
FirstOf(S) == {[e EXCEPT !.at = Place(S, e)] : e \in {o \in S : Place(S, o) <= PerItem}}

(* An entry put in front of the others of its file, in place of one of its  *)
(* code.                                                                    *)
Put(e, S) ==
  FirstOf({o \in S : o.code # e.code}
            \cup {[code |-> e.code, finger |-> e.finger, ok |-> e.ok, at |-> 0]})

(* Two files of one item: the restored one's entries, then the others.      *)
Union(ours, theirs) ==
  FirstOf(ours \cup {[o EXCEPT !.at = @ + PerItem] :
                       o \in {e \in theirs : \A u \in ours : u.code # e.code}})

(* What a job does to one file: store an outcome, or merge the restored     *)
(* file.  A side is stored after the side before it, and with no item the   *)
(* task is the prune that ends a side.                                      *)
Task(s, i, e) == [side |-> s, item |-> i, entry |-> e]
StoresOf(bins, hits, s) ==
  {Task(s, None, None)}
  \cup {Task(s, i, Outcome(bins[s], i)) : i \in {j \in Pending(bins, hits, s) : Keeps(bins[s], j)}}
Stores(bins, hits) == UNION {StoresOf(bins, hits, s) : s \in DOMAIN bins}
Merges == {Task(1, i, None) : i \in {j \in Items : Readable(archive.file[j])}}
NextTask(todo) ==
  CHOOSE t \in todo : \A u \in todo : t.side <= u.side /\ (t.side = u.side /\ t.item = None => u = t)

Between(pc, bins, run, todo) ==
  [pc |-> pc, bins |-> bins, run |-> run, todo |-> todo, task |-> None, held |-> {}]
At(j, pc, todo, task, held) ==
  [pc |-> pc, bins |-> j.bins, run |-> j.run, todo |-> todo, task |-> task, held |-> held]
Idle == Between("idle", <<>>, <<>>, {})

Measured == {s.bins : s \in Starts}

Become(p, j) == job' = [job EXCEPT ![p] = j]
NoFile == [file |-> [i \in Items |-> Absent], written |-> [i \in Items |-> 0]]

(* Plan and measure the binaries.  Reading item files, listing and          *)
(* measuring change nothing others see, and an item's lookup depends on its *)
(* own file only.                                                           *)
Measure(p, bins, recording) ==
  /\ job[p].pc = "idle"
  /\ LET hits == Hits(bins, recording)
     IN  Become(p, Between("next", bins, [s \in DOMAIN bins |-> RunOf(bins, hits, s)],
                           Stores(bins, hits)))
  /\ UNCHANGED <<file, written, archive, jobs>>

(* Fold the files of the restored cache into this one's.                    *)
Merge(p) ==
  /\ job[p].pc = "idle"
  /\ Become(p, Between("next", <<>>, <<>>, Merges \cup {Task(1, None, None)}))
  /\ UNCHANGED <<file, written, archive, jobs>>

(* Read the file of the next item ...                                       *)
ReadItem(p) ==
  /\ job[p].pc = "next"
  /\ job[p].todo # {}
  /\ LET t == NextTask(job[p].todo)
         held == IF t.entry # None THEN Put(t.entry, Read(file[t.item]))
                 ELSE IF Readable(file[t.item]) THEN Union(archive.file[t.item], file[t.item])
                 ELSE archive.file[t.item]
     IN  /\ t.item # None
         /\ Become(p, At(job[p], "truncate", job[p].todo \ {t}, t, held))
  /\ UNCHANGED <<file, written, archive, jobs>>

WrittenLast(i) ==
  [j \in Items |-> IF j = i THEN 1
                   ELSE IF written[j] # 0 /\ (written[i] = 0 \/ written[j] < written[i])
                   THEN written[j] + 1 ELSE written[j]]

(* ... empty it ...                                                        *)
Truncate(p) ==
  /\ job[p].pc = "truncate"
  /\ file' = [file EXCEPT ![job[p].task.item] = Empty]
  /\ written' = WrittenLast(job[p].task.item)
  /\ Become(p, At(job[p], "write", job[p].todo, job[p].task, job[p].held))
  /\ UNCHANGED <<archive, jobs>>

(* ... and write it.  Of two that write at once either's text stays, or a   *)
(* mixture; a file removed meanwhile stays removed.                         *)
Writing(i) == {q \in Procs : job[q].pc = "write" /\ job[q].task.item = i}
Write(p) ==
  /\ job[p].pc = "write"
  /\ LET i == job[p].task.item
         alone == file[i] = Empty /\ Writing(i) = {p}
     IN  IF file[i] = Absent THEN UNCHANGED <<file, written>>
         ELSE /\ \E f \in IF alone THEN {job[p].held} ELSE {job[p].held, file[i], Torn} :
                   file' = [file EXCEPT ![i] = f]
              /\ written' = WrittenLast(i)
  /\ Become(p, At(job[p], "next", job[p].todo, None, {}))
  /\ UNCHANGED <<archive, jobs>>

(* Drop the item files written before the last KEEP.                        *)
Prune(p) ==
  /\ job[p].pc = "next"
  /\ job[p].todo # {}
  /\ file' = [i \in Items |-> IF written[i] > KEEP THEN Absent ELSE file[i]]
  /\ written' = [i \in Items |-> IF written[i] > KEEP THEN 0 ELSE written[i]]
  /\ LET t == NextTask(job[p].todo)
     IN  /\ t.item = None
         /\ Become(p, At(job[p], "next", job[p].todo \ {t}, None, {}))
  /\ UNCHANGED <<archive, jobs>>

(* An invocation ends, or is killed before.                                 *)
Exit(p) ==
  /\ job[p].pc # "idle"
  /\ Become(p, Idle)
  /\ UNCHANGED <<file, written, archive, jobs>>

(* The job ends and another begins: its cache may be saved, and the next    *)
(* one starts with what is saved, or with none.                             *)
NextJob ==
  /\ jobs < MaxJobs
  /\ \A p \in Procs : job[p].pc = "idle"
  /\ archive' \in {archive, [file |-> file, written |-> written]}
  /\ \E start \in {archive', NoFile} : file' = start.file /\ written' = start.written
  /\ jobs' = jobs + 1
  /\ UNCHANGED job

Init ==
  /\ file = NoFile.file
  /\ written = NoFile.written
  /\ archive = NoFile
  /\ job = [p \in Procs |-> Idle]
  /\ jobs = 0

Next ==
  \/ \E p \in Procs :
       \/ \E s \in Starts : Measure(p, s.bins, s.recording)
       \/ Merge(p) \/ ReadItem(p) \/ Truncate(p) \/ Write(p) \/ Prune(p) \/ Exit(p)
  \/ NextJob

Spec == Init /\ [][Next]_vars

-----------------------------------------------------------------------------
(* Properties *)

(* Files hold entries or cannot be read, and a job has a task exactly while *)
(* it is changing a file (itemcache.rs: Items::read, Items::store).         *)
IsFile(f) == f \in {Absent, Empty, Torn} \/ \A e \in f : IsEntry(e)
IsTask(t) ==
  /\ t.item \in Items \cup {None} /\ t.side \in {1, 2}
  /\ t.entry # None => IsEntry([code |-> t.entry.code, finger |-> t.entry.finger, ok |-> t.entry.ok, at |-> 0])
TypeOK ==
  /\ \A i \in Items : IsFile(file[i]) /\ IsFile(archive.file[i])
  /\ written \in [Items -> Nat] /\ archive.written \in [Items -> Nat]
  /\ \A i \in Items : written[i] = 0 => file[i] = Absent
  /\ \A p \in Procs :
       /\ job[p].pc \in {"idle", "next", "truncate", "write"}
       /\ job[p].bins \in Measured \cup {<<>>}
       /\ \A t \in job[p].todo : IsTask(t)
       /\ IF job[p].pc \in {"truncate", "write"}
          THEN IsTask(job[p].task) /\ job[p].task.item # None /\ IsFile(job[p].held)
          ELSE job[p].task = None /\ job[p].held = {}
  /\ jobs \in 0..MaxJobs

(* A run has for every item its binary lists what measuring it would give,  *)
(* counts and verdicts, whichever were spliced in from whatever was stored  *)
(* (itemreuse.rs: Reuse::measure_side, splice).                             *)
RunsAreMeasured ==
  \A p \in Procs : \A s \in DOMAIN job[p].bins :
    job[p].run[s] = [i \in Listing[job[p].bins[s]] |-> Outcome(job[p].bins[s], i)]

(* A failed claim is never kept, so it is measured again and never answered *)
(* from a file (itemreuse.rs: record).                                       *)
FailuresAreMeasured ==
  \A i \in Items : \A e \in Read(file[i]) \cup Read(archive.file[i]) : e.ok

(* However stores and merges interleave, a file has at most one entry of a  *)
(* code and no more than PerItem (itemcache.rs: store, union).              *)
OneEntryACode ==
  \A i \in Items : Readable(file[i]) =>
    /\ \A d, e \in file[i] : d.code = e.code => d = e
    /\ Cardinality(file[i]) <= PerItem

(* The promise, without files: see ItemMemo.  What is known is what a file, *)
(* the archive or a writer's hands hold.                                    *)
FactOf(i, e) == [item |-> i, code |-> e.code, finger |-> e.finger, ok |-> e.ok]
MemoFact(b, i) == FactOf(i, Outcome(b, i))
HeldBy(p, i) ==
  IF job[p].pc \in {"truncate", "write"} /\ job[p].task.item = i THEN job[p].held ELSE {}
Known ==
  UNION {{FactOf(i, e) : e \in Read(file[i]) \cup Read(archive.file[i])
                                \cup UNION {HeldBy(p, i) : p \in Procs}} : i \in Items}
Results == [p \in Procs |-> [bins |-> job[p].bins, run |-> job[p].run]]

Memo == INSTANCE ItemMemo
  WITH known <- Known, results <- Results, Outcome <- Outcome, Fact <- MemoFact

(* The files implement the promise: what is measured is what measuring      *)
(* gives, only measured facts are ever stored, and losing any is allowed    *)
(* (itemcache.rs:1-8).                                                      *)
ImplementsMemo == Memo!Spec
=============================================================================
