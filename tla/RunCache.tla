------------------------------ MODULE RunCache ------------------------------
(***************************************************************************)
(* The run cache: measured runs kept under the commit or the bench binary    *)
(* they were measured from (runcache.rs), what `measure' stores and takes    *)
(* from it (headrun.rs), and how `gate --against-ref' finds both of its      *)
(* sides: the merge-base's run and HEAD's (gate.rs, measure_ref_interleaved). *)
(*                                                                          *)
(* Invocations run side by side in one checkout, under one toolchain, host,  *)
(* harness and set of flags but for the shard and the filter, so a key is a  *)
(* commit or binary, a shard and a filter.  History is a line of commits.    *)
(* A shard and a filter are the item ids they own or match; Items is none.   *)
(* A run's numbers are its binary's: what can go wrong is whose they are,    *)
(* which items they cover, whether counters were taken, and which claims     *)
(* were judged on them.  The item cache, the --measure-new path of a         *)
(* merge-base without a bench target and harness mismatches are left out.    *)
(***************************************************************************)
EXTENDS Integers, Sequences, FiniteSets

CONSTANTS
  Procs,       \* invocations of measure or gate
  Trees,       \* contents of the checkout
  Binaries,    \* digests of a bench binary's loaded sections
  Bin,         \* the binary a tree builds
  Items,       \* item ids
  Listing,     \* the ids a binary registers
  Claims,      \* those of them with a complexity claim
  Breaks,      \* those whose complexity claim fails on counters
  Shards, Filters,
  Starts,      \* the invocations made: see Invocations
  KEEP,        \* runs kept before the oldest is dropped
  Gating,      \* the backend that counts
  Moves,       \* the checkout and the reference move while invocations run
  MaxCommits,  \* bound: commits made
  MaxRuns,     \* bound: invocations started
  None, HEAD   \* nothing; HEAD's commit when a run is stored

ASSUME BinaryAssumption ==
  /\ Bin \in [Trees -> Binaries] /\ Listing \in [Binaries -> SUBSET Items]
  /\ \A b \in Binaries : Breaks[b] \subseteq Claims[b] /\ Claims[b] \subseteq Listing[b]
ASSUME ScopeAssumption ==
  Shards \subseteq SUBSET Items /\ Filters \subseteq SUBSET Items /\ Items \in Shards \cap Filters
ASSUME NameAssumption ==
  /\ Binaries \cap Nat = {} /\ HEAD \notin Binaries \cup Nat
  /\ None \notin Binaries \cup Nat \cup {HEAD}
ASSUME BoundAssumption ==
  /\ Moves \in BOOLEAN /\ Gating \in {"callgrind", "perfcnt"}
  /\ MaxCommits \in Nat \ {0} /\ MaxRuns \in Nat /\ KEEP \in Nat

VARIABLES
  commits,  \* the tree of each commit
  at,       \* the commit checked out
  ref,      \* the commit --against-ref names
  tree,     \* the checkout
  runs,     \* .soothfast/runs
  pc, job, started

repo == <<commits, at, ref, tree>>
vars == <<repo, runs, pc, job, started>>

Scopes == [shard : Shards, filter : Filters]

(* `measure', or `gate --against-ref'; `reuse' without --no-reuse and         *)
(* --no-reuse-base, `record' under SOOTHFAST_RECORD=1.                       *)
Invocations == [cmd : {"measure", "gate"}, scope : Scopes, reuse : BOOLEAN, record : BOOLEAN]
ASSUME StartsAssumption == Starts \subseteq Invocations

InScope(s) == s.shard \cap s.filter

Clean == tree = commits[at]
MergeBase == IF ref < at THEN ref ELSE at

Keys == [id : Binaries \cup 1..MaxCommits, shard : Shards, filter : Filters]
Key(id, s) == [id |-> id, shard |-> s.shard, filter |-> s.filter]

-----------------------------------------------------------------------------
(* Runs.  `claims' are the complexity claims judged, `fails' those that      *)
(* failed, `late' whether a claim on time failed; `stamped' is head_format.  *)
Run == [bin : Binaries, ids : SUBSET Items, counted : BOOLEAN,
         claims : SUBSET Items, fails : SUBSET Items, late : BOOLEAN, stamped : BOOLEAN]
ASSUME NoneAssumption ==
  /\ None \notin Run /\ None \notin [head : Binaries, base : Binaries]
  /\ None \notin [cmd : {"measure", "gate"}, items : SUBSET Items]

Failed(run) == run.late \/ run.fails # {}

(* The runs a pass over binary `b' may give; without the gating counters a   *)
(* complexity claim is fitted on walltime and may come out either way.       *)
Pass(b, s, counted) ==
  LET ids == InScope(s) \cap Listing[b]
      judged == ids \cap Claims[b]
  IN {[bin |-> b, ids |-> ids, counted |-> counted, claims |-> judged, fails |-> fails,
       late |-> late, stamped |-> FALSE] :
        fails \in IF counted THEN {judged \cap Breaks[b]} ELSE SUBSET judged, late \in BOOLEAN}

(* Slip: stamped whatever its claims say. *)
StampedAnyway(run) == [run EXCEPT !.stamped = TRUE]

Stamped(run) == [run EXCEPT !.stamped = ~Failed(run)]

(* readable_as_head. *)
Readable(doc) == doc.stamped

Usable(doc) == doc # None /\ Readable(doc)

(* What settle leaves of a run: perfcnt readings may never agree.            *)
Settled(run) == {run} \cup (IF Gating = "perfcnt" THEN {None} ELSE {})

Load(k) == IF k \in DOMAIN runs THEN runs[k] ELSE None

(* The narrowing of a wider run to the shard's own.                          *)
Narrowed(doc, s) ==
  [doc EXCEPT !.ids = @ \cap s.shard, !.claims = @ \cap s.shard, !.fails = @ \cap s.shard]

(* reference_source: the run under the gate's own key, or for a shard the    *)
(* one of every shard.                                                       *)
Reference(id, s) ==
  IF Load(Key(id, s)) # None THEN Load(Key(id, s)) ELSE Load([Key(id, s) EXCEPT !.shard = Items])

(* counts_cover: callgrind counts for each of `ids'.                         *)
CountsCover(doc, ids) ==
  Gating = "callgrind" /\ ids # {} /\ doc.counted /\ ids \subseteq doc.ids

(* load_covering: the first readable run with the counts, under the own key, *)
(* without the shard, without the filter, without either.                    *)
Covering(b, s, ids) ==
  LET wider == <<Key(b, s), [Key(b, s) EXCEPT !.shard = Items],
                 [Key(b, s) EXCEPT !.filter = Items],
                 [id |-> b, shard |-> Items, filter |-> Items]>>
      good == {n \in 1..4 : Usable(Load(wider[n])) /\ CountsCover(Load(wider[n]), ids)}
  IN IF good = {} THEN None
     ELSE Load(wider[CHOOSE n \in good : \A m \in good : n <= m])

Expected(b, s) == InScope(s) \cap Listing[b]

UncountedComplexity(run, doc) ==
  ~(run.claims \subseteq IF doc = None THEN {} ELSE doc.claims)

(* Slip: the verdicts of the timing pass. *)
TimedFails(run, doc) == run.fails

(* counted_verdicts, for a pass whose every complexity claim has one.        *)
CountedFails(run, doc) ==
  {c \in run.claims : IF c \in doc.claims THEN c \in doc.fails ELSE c \in run.fails}

(* merge_stored: the timing pass with the stored run's counts and verdicts   *)
(* of its complexity claims, or None when they do not fit.                   *)
MergeStored(doc, timing, ids) ==
  IF ids = {} \/ timing.ids # ids \/ ~CountsCover(doc, ids) \/ UncountedComplexity(timing, doc)
  THEN None
  ELSE [timing EXCEPT !.counted = TRUE, !.fails = CountedFails(timing, doc)]

-----------------------------------------------------------------------------
(* What HEAD's run is stored under: each digest, and HEAD's commit when the  *)
(* time comes.  A run whose claim failed is not kept as HEAD's.              *)
HeadPuts(run, digests) ==
  IF run = None \/ Failed(run) THEN <<>>
  ELSE [n \in 1..Len(digests) + 1 |->
          [id |-> IF n <= Len(digests) THEN digests[n] ELSE HEAD, doc |-> Stamped(run)]]

Digests(d) == IF d = None THEN <<>> ELSE <<d>>

(* The merge-base's run is kept under the commit it was asked for and, when  *)
(* the binaries were read, under its own; a failed claim leaves it unstamped. *)
BasePuts(run, id, digests) ==
  IF run = None THEN <<>>
  ELSE [n \in 1..Len(digests) + 1 |->
          [id |-> IF n = 1 THEN id ELSE digests[n - 1], doc |-> Stamped(run)]]

Idle == [cmd |-> None]

Init ==
  /\ commits \in {<<t>> : t \in Trees} /\ at = 1 /\ ref = 1 /\ tree = commits[1]
  /\ runs = << >> /\ started = 0
  /\ pc = [p \in Procs |-> "idle"] /\ job = [p \in Procs |-> Idle]

Quiet == Moves \/ \A p \in Procs : pc[p] = "idle"

Edit(t) == /\ Quiet /\ tree' = t /\ UNCHANGED <<commits, at, ref, runs, pc, job, started>>

Commit ==
  /\ Quiet /\ at = Len(commits) /\ at < MaxCommits /\ ~Clean
  /\ commits' = Append(commits, tree) /\ at' = at + 1
  /\ UNCHANGED <<ref, tree, runs, pc, job, started>>

Checkout(c) ==
  /\ Quiet /\ Clean /\ at' = c /\ tree' = commits[c]
  /\ UNCHANGED <<commits, ref, runs, pc, job, started>>

(* The branch gated against is fetched or landed on. *)
Fetch(c) ==
  /\ Quiet /\ ref < c /\ ref' = c
  /\ UNCHANGED <<commits, at, tree, runs, pc, job, started>>

Goto(p, step, new) == pc' = [pc EXCEPT ![p] = step] /\ job' = [job EXCEPT ![p] = new]

Start(p, asked) ==
  /\ pc[p] = "idle" /\ started < MaxRuns /\ started' = started + 1
  /\ Goto(p, "probe", [cmd |-> asked.cmd, scope |-> asked.scope, reuse |-> asked.reuse,
                       record |-> asked.record, base |-> MergeBase, digest |-> None, wt |-> None, bins |-> None,
                       early |-> None, ref |-> None, head |-> None, served |-> FALSE,
                       puts |-> <<>>])
  /\ UNCHANGED <<repo, runs>>

(* probe: HEAD's binary is built and named, if its sections can be read.     *)
Probe(p, named) ==
  /\ pc[p] = "probe"
  /\ Goto(p, IF job[p].cmd = "gate" THEN "reference" ELSE "covering",
          [job[p] EXCEPT !.digest = IF named THEN Bin[tree] ELSE None])
  /\ UNCHANGED <<repo, runs, started>>

(* reusable_reference. *)
FindReference(p) ==
  LET doc == IF job[p].reuse THEN Reference(job[p].base, job[p].scope) ELSE None IN
  /\ pc[p] = "reference"
  /\ Goto(p, IF doc = None THEN "worktree" ELSE "head", [job[p] EXCEPT !.ref = doc])
  /\ UNCHANGED <<repo, runs, started>>

(* The merge-base is checked out beside the tree, and both binaries are named *)
(* when they can be built and read.                                          *)
Worktree(p, named) ==
  LET head == Bin[tree]  base == Bin[commits[MergeBase]]
      doc == IF named /\ job[p].reuse THEN Reference(base, job[p].scope) ELSE None
  IN
  /\ pc[p] = "worktree"
  /\ Goto(p, IF named /\ head = base THEN "identical" ELSE IF doc # None THEN "head" ELSE "rounds",
          [job[p] EXCEPT !.wt = MergeBase,
             !.bins = IF named THEN [head |-> head, base |-> base] ELSE None,
             !.ref = IF doc = None \/ head = base THEN None ELSE Narrowed(doc, job[p].scope)])
  /\ UNCHANGED <<repo, runs, started>>

(* head_from_cache_or, then cache_head: HEAD's run as stored, under its      *)
(* commit when the tree is clean and its binary otherwise, or measured now.  *)
HeadRun(p) ==
  LET id == IF Clean THEN at ELSE job[p].digest
      doc == IF id = None THEN None ELSE Load(Key(id, job[p].scope))
      digests == Digests(job[p].digest)
  IN
  /\ pc[p] = "head"
  /\ \/ /\ Usable(doc)
        /\ Goto(p, "put", [job[p] EXCEPT !.head = doc, !.served = TRUE,
                          !.puts = HeadPuts(doc, digests)])
     \/ /\ ~Usable(doc)
        /\ \E run \in Pass(Bin[tree], job[p].scope, TRUE) : \E kept \in Settled(run) :
             Goto(p, "put", [job[p] EXCEPT !.head = run, !.puts = HeadPuts(kept, digests)])
  /\ UNCHANGED <<repo, runs, started>>

(* The one pass over identical binaries.  It carries the gating counters     *)
(* when it is planned per item, when a counting backend was named, and when  *)
(* it records a binary no run is stored for.                                 *)
Identical(p, planned, counting) ==
  LET b == job[p].bins.head
      early == IF job[p].record /\ job[p].reuse
               THEN Covering(b, job[p].scope, Expected(b, job[p].scope)) ELSE None
      counted == planned \/ counting \/ (job[p].record /\ early = None)
  IN
  /\ pc[p] = "identical" /\ (planned => job[p].reuse)
  /\ \E run \in Pass(Bin[tree], job[p].scope, counted) :
       Goto(p, "judge", [job[p] EXCEPT !.head = run, !.early = early])
  /\ UNCHANGED <<repo, runs, started>>

(* Slip: the pass is kept whether or not it took the gating counters.        *)
KeptOfPass(pass, covering, s) == pass

(* identical_pass_cache and identical_doc: what is kept of an uncounted pass *)
(* is the run stored for the binary, when no claim failed.                   *)
KeptOfIdentical(pass, covering, s) ==
  IF covering = None THEN None
  ELSE LET doc == Narrowed(covering, s) IN
       IF CountedFails(pass, doc) # {} \/ pass.late THEN None ELSE doc

Judge(p) ==
  LET pass == job[p].head  b == job[p].bins.head  s == job[p].scope
      covering == IF pass.counted THEN None
                  ELSE IF job[p].early # None THEN job[p].early
                  ELSE IF job[p].reuse THEN Covering(b, s, Expected(b, s)) ELSE None
      merged == IF covering = None THEN None ELSE MergeStored(covering, pass, Expected(b, s))
      digests == Digests(job[p].digest)
      counts(run) == \E kept \in Settled(run) :
        Goto(p, "put", [job[p] EXCEPT !.head = run, !.ref = run, !.puts = HeadPuts(kept, digests)])
      head == IF merged = None THEN pass ELSE merged
  IN
  /\ pc[p] = "judge"
  /\ \/ pass.counted /\ counts(pass)
     \/ /\ ~pass.counted /\ UncountedComplexity(pass, covering)
        /\ \E run \in Pass(Bin[tree], s, TRUE) : counts(run)
     \/ /\ ~pass.counted /\ ~UncountedComplexity(pass, covering)
        /\ Goto(p, "put", [job[p] EXCEPT !.head = head, !.ref = head,
                          !.puts = HeadPuts(KeptOfIdentical(pass, covering, s), digests)])
  /\ UNCHANGED <<repo, runs, started>>

(* Interleaved rounds measure both sides in full.                            *)
Rounds(p) ==
  LET bins == job[p].bins  named == bins # None IN
  /\ pc[p] = "rounds"
  /\ \E head \in Pass(Bin[tree], job[p].scope, TRUE),
        base \in Pass(Bin[commits[job[p].wt]], job[p].scope, TRUE) :
       \E keptHead \in Settled(head), keptBase \in Settled(base) :
         Goto(p, "put", [job[p] EXCEPT !.head = head, !.ref = base,
           !.puts = BasePuts(keptBase, job[p].base, IF named THEN <<bins.base>> ELSE <<>>)
                      \o HeadPuts(keptHead, Digests(job[p].digest)
                                              \o IF named THEN <<bins.head>> ELSE <<>>)])
  /\ UNCHANGED <<repo, runs, started>>

(* measure: counters of a stored run under a fresh timing pass, else in full. *)
Measure(p) ==
  LET b == job[p].digest  s == job[p].scope
      doc == IF job[p].reuse /\ Gating = "callgrind" /\ b # None
             THEN Covering(b, s, Expected(b, s)) ELSE None
  IN
  /\ pc[p] = "covering"
  /\ IF doc = None THEN Goto(p, "full", job[p])
     ELSE \E timing \in Pass(Bin[tree], s, FALSE) :
            LET merged == MergeStored(doc, timing, Expected(b, s)) IN
            Goto(p, IF merged = None THEN "full" ELSE "put",
                 [job[p] EXCEPT !.head = merged])
  /\ UNCHANGED <<repo, runs, started>>

MeasureFull(p) ==
  /\ pc[p] = "full"
  /\ \E run \in Pass(Bin[tree], job[p].scope, TRUE) : \E kept \in Settled(run) :
       Goto(p, "put", [job[p] EXCEPT !.head = run, !.puts = HeadPuts(kept, Digests(job[p].digest))])
  /\ UNCHANGED <<repo, runs, started>>

(* Slip: HEAD's commit names the run of a tree with changes as well.         *)
NamesDirty(put) == IF put.id = HEAD THEN at ELSE put.id

(* put: HEAD's commit is read when it is stored under, and only from a clean *)
(* tree; a digest or the merge-base is the one read before.                  *)
NamedNow(put) == IF put.id # HEAD THEN put.id ELSE IF Clean THEN at ELSE None

(* store: one file of .soothfast/runs written, and the oldest dropped when    *)
(* there are more than KEEP.                                                 *)
Put(p, oldest) ==
  LET put == Head(job[p].puts)  id == NamedNow(put)  key == Key(id, job[p].scope)
      stored == DOMAIN runs \cup {key}
  IN
  /\ pc[p] = "put" /\ job[p].puts # <<>>
  /\ Goto(p, "put", [job[p] EXCEPT !.puts = Tail(@)])
  /\ IF id = None THEN oldest = {} /\ UNCHANGED runs
     ELSE /\ oldest \subseteq stored \ {key}
          /\ Cardinality(oldest) = IF Cardinality(stored) > KEEP THEN 1 ELSE 0
          /\ runs' = [k \in stored \ oldest |-> IF k = key THEN put.doc ELSE runs[k]]
  /\ UNCHANGED <<repo, started>>

(* A writer killed half way leaves a file that does not parse: a miss.       *)
Tear(p) ==
  LET id == NamedNow(Head(job[p].puts)) IN
  /\ pc[p] = "put" /\ job[p].puts # <<>> /\ id # None /\ Goto(p, "idle", Idle)
  /\ runs' = [k \in DOMAIN runs \ {Key(id, job[p].scope)} |-> runs[k]]
  /\ UNCHANGED <<repo, started>>

(* An invocation ends, fails or is killed.                                   *)
Exit(p) ==
  /\ pc[p] # "idle" /\ Goto(p, "idle", Idle) /\ UNCHANGED <<repo, runs, started>>

Next ==
  \/ Commit
  \/ \E t \in Trees : Edit(t)
  \/ \E c \in 1..Len(commits) : Checkout(c) \/ Fetch(c)
  \/ \E p \in Procs :
       \/ \E asked \in Starts : Start(p, asked)
       \/ \E named \in BOOLEAN : Probe(p, named) \/ Worktree(p, named)
       \/ \E planned, counting \in BOOLEAN : Identical(p, planned, counting)
       \/ FindReference(p) \/ HeadRun(p) \/ Judge(p) \/ Rounds(p)
       \/ Measure(p) \/ MeasureFull(p) \/ Tear(p) \/ Exit(p)
       \/ \E oldest \in {{}} \cup {{k} : k \in DOMAIN runs} : Put(p, oldest)

Spec == Init /\ [][Next]_vars

Jobs ==
  [cmd : {"measure", "gate"}, scope : Scopes, reuse : BOOLEAN, record : BOOLEAN,
   base : 1..MaxCommits, digest : Binaries \cup {None}, wt : 1..MaxCommits \cup {None},
   bins : [head : Binaries, base : Binaries] \cup {None},
   early : Run \cup {None}, ref : Run \cup {None}, head : Run \cup {None}, served : BOOLEAN,
   puts : Seq([id : Binaries \cup 1..MaxCommits \cup {HEAD}, doc : Run])]

TypeOK ==
  /\ commits \in Seq(Trees) /\ Len(commits) \in 1..MaxCommits
  /\ at \in 1..Len(commits) /\ ref \in 1..Len(commits) /\ tree \in Trees
  /\ DOMAIN runs \subseteq Keys /\ \A k \in DOMAIN runs : runs[k] \in Run
  /\ pc \in [Procs -> {"idle", "probe", "reference", "worktree", "head", "identical", "judge",
                       "rounds", "covering", "full", "put"}]
  /\ DOMAIN job = Procs
  /\ \A p \in Procs : IF pc[p] = "idle" THEN job[p] = Idle ELSE job[p] \in Jobs
  /\ started \in 0..MaxRuns

-----------------------------------------------------------------------------
Built(id) == IF id \in Binaries THEN id ELSE Bin[commits[id]]

(* runcache.rs: "the key pins every condition that moves the numbers, so a   *)
(* run measured any other way cannot be served from here".  Whatever was     *)
(* stored by whom, a stored run is of the binary its commit or digest names. *)
RunsNamed == \A k \in DOMAIN runs : runs[k].bin = Built(k.id)

(* gate.rs: "A pass that skipped [the counters] must never be stored, or a   *)
(* later gate reusing it compares nothing", and a run narrowed or taken from *)
(* a wider key still has every item of the key's shard and filter.           *)
RunsWhole ==
  \A k \in DOMAIN runs :
    /\ runs[k].counted
    /\ InScope(k) \cap Listing[runs[k].bin] \subseteq runs[k].ids

Decided(p) == pc[p] = "put"

(* Complexity is judged on counters: whichever of a full run, a stored run,  *)
(* or a timing pass over a stored run HEAD's verdicts came from, each claim  *)
(* of the items asked for has the verdict the counters give it.              *)
VerdictsCounted ==
  \A p \in Procs : Decided(p) =>
    LET head == job[p].head  asked == InScope(job[p].scope) \cap Claims[head.bin] IN
    asked \subseteq head.claims /\ head.fails \cap asked = Breaks[head.bin] \cap asked

(* headrun.rs: a HEAD whose claim failed is not kept, "so a rerun measures   *)
(* and fails again": no failure is ever read from the cache, neither from a  *)
(* run stored as HEAD's nor from one stored as a merge-base's.               *)
FailuresMeasured ==
  \A p \in Procs : Decided(p) /\ job[p].served => ~Failed(job[p].head)

(* The two sides of a gate are the checkout and the merge-base, and unless   *)
(* they are one binary both have the counters of every item asked for.       *)
SidesCompare ==
  \A p \in Procs : Decided(p) /\ job[p].cmd = "gate" =>
    LET head == job[p].head  base == job[p].ref  asked == InScope(job[p].scope) IN
    /\ head.bin = Bin[tree] /\ base.bin = Bin[commits[job[p].base]]
    /\ head.bin = base.bin \/
         \A run \in {head, base} : run.counted /\ asked \cap Listing[run.bin] \subseteq run.ids
-----------------------------------------------------------------------------
(* The promise, without stored runs: see RunMemo.  What an invocation was     *)
(* asked and what it answered, of the items it was asked for.                 *)
Asking == [p \in Procs |->
  IF pc[p] = "idle" THEN None ELSE [cmd |-> job[p].cmd, items |-> InScope(job[p].scope)]]

Reported(run, s) ==
  [bin |-> run.bin, items |-> InScope(s) \cap run.ids, fails |-> InScope(s) \cap run.fails,
   counted |-> run.counted]

Answers == [p \in Procs |->
  IF ~Decided(p) THEN None
  ELSE [head |-> Reported(job[p].head, job[p].scope),
        base |-> IF job[p].cmd = "gate" THEN Reported(job[p].ref, job[p].scope) ELSE None,
        late |-> job[p].head.late]]

Memo == INSTANCE RunMemo WITH asked <- Asking, answer <- Answers

(* Whatever is stored, by whom and for which key, every invocation answers    *)
(* what measuring would have answered: the sides, items, counters and         *)
(* complexity verdicts of the checkout and its merge-base, reusing or not     *)
(* (headrun.rs, merge_stored; gate.rs, measure_ref_interleaved).              *)
ImplementsMemo == Memo!Spec
=============================================================================
