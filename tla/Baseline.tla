------------------------------ MODULE Baseline ------------------------------
(***************************************************************************)
(* Named baselines: what a gate's --save-baseline writes (gate_save.rs,     *)
(* invoke.rs), the `unmeasured' entries and owners kept beside the numbers  *)
(* (unmeasured.rs), and `baseline merge', which folds the files of the legs *)
(* of one sharded gate into one baseline (baseline_merge.rs).               *)
(*                                                                          *)
(* A save writes its file up to three times, numbers, entries and shard     *)
(* stamp, and may be killed in between.  An item may be listed by several   *)
(* packages' bench binaries.  Imported and buildcost items, assertions and  *)
(* wording are left out.                                                    *)
(***************************************************************************)
EXTENDS Integers, FiniteSets

CONSTANTS
  Packages,      \* bench packages
  Items,         \* item ids
  None,          \* an absent key of a document
  N,             \* --shard I/N; 1 for a gate that is not split
  ShardOf,       \* the shard an id hashes to
  Files,         \* baseline files
  Listings,      \* per package, what its bench binary may come to list
  Filters,       \* the id sets that gates are filtered to; Items is no filter
  Reuses,        \* what a run may take another run's walltime of
  Planned,       \* the packages the build job may list in the plan file
  MeasureAll,    \* `measure --save-baseline' is run without -p too
  MayCrash,      \* a writer may be killed between its writes
  Rerun,         \* a package may be saved twice of one commit
  MaxCommits     \* bound: changes of the code

Shards  == 1..N
Sharded == N > 1
Metrics == {"counters", "walltime"}
Reasons == {"gate-failed", "identical-binaries", "reused-walltime",
            "shard-missing", "no-measurement"}

ASSUME ShardAssumption == N \in Nat \ {0} /\ ShardOf \in [Items -> Shards]
ASSUME ListingAssumption ==
  /\ Listings \in [Packages -> SUBSET SUBSET Items]
  /\ Planned \subseteq Packages /\ Filters \subseteq SUBSET Items /\ Reuses \subseteq SUBSET Items
ASSUME SwitchesAssumption ==
  /\ MeasureAll \in BOOLEAN /\ MayCrash \in BOOLEAN /\ Rerun \in BOOLEAN
  /\ MaxCommits \in Nat

VARIABLES
  code,      \* what each package's bench binary lists
  commit,    \* history: how often the code has changed
  docs,      \* the baseline files
  writer,    \* what a gate still has to write to each file
  plan,      \* the plan file: what `baseline plan' listed of each package
  reported   \* history: each package's last save to each file, of this commit

vars == <<code, commit, docs, writer, plan, reported>>

(* An item's numbers: the package that saved them, the metrics there are and *)
(* (history) the commit they were measured at.                               *)
Number == [by : Packages \cup {None}, has : SUBSET Metrics, at : 0..MaxCommits]
NoNumber == None

OwnerMaps == UNION {[P -> SUBSET Items] : P \in SUBSET Packages}

Entry == [package : Packages, reason : Reasons, items : SUBSET Items, metrics : SUBSET Metrics]

ASSUME NoneAssumption ==
  /\ None \notin Packages \cup Shards
  /\ \A ids \in SUBSET Items : ids # None
  /\ \A number \in Number : number # None
  /\ \A owners \in OwnerMaps : owners # None

(* The document a missing file is read as.  `owners' and `listed' map the    *)
(* packages they name; `owners' is None while the key is missing.            *)
Blank ==
  [shard |-> None, owners |-> None, listed |-> [p \in Packages |-> None],
   items |-> [i \in Items |-> NoNumber], entries |-> {}]

OwnersOf(doc) == IF doc.owners = None THEN [p \in {} |-> {}] ELSE doc.owners

OwnedBy(doc, p) == IF p \in DOMAIN OwnersOf(doc) THEN OwnersOf(doc)[p] ELSE {}

OwnedByOthers(doc, p) == UNION {OwnersOf(doc)[q] : q \in DOMAIN OwnersOf(doc) \ {p}}

SetOwners(doc, p, ids) ==
  [q \in {p} \cup DOMAIN OwnersOf(doc) |-> IF q = p THEN ids ELSE OwnersOf(doc)[q]]

IsRust(doc) ==
  \/ doc.shard # None \/ doc.owners # None \/ doc.entries # {}
  \/ \E i \in Items : doc.items[i] # NoNumber

Owns(s, i) == ShardOf[i] = s

OwnedHere(s, ids) == {i \in ids : Owns(s, i)}

-----------------------------------------------------------------------------
(* baseline_merge.rs: check_shard_in.                                        *)
CheckNothing(doc, s) == TRUE   \* slip: any shard is saved into any file

CheckShard(doc, s) == Sharded => doc.shard = s \/ (doc.shard = None /\ ~IsRust(doc))

PriorWithOthers(doc, p) ==   \* slip: what another package owns is not spared
  IF doc.owners = None THEN {i \in Items : doc.items[i] # NoNumber} ELSE OwnedBy(doc, p)

(* What a full save of `p' replaces besides what it measured: what the       *)
(* package owned and nobody else does; before ownership, every item.         *)
Prior(doc, p) ==
  (IF doc.owners = None THEN {i \in Items : doc.items[i] # NoNumber} ELSE OwnedBy(doc, p))
    \ OwnedByOthers(doc, p)

(* What of a run may be kept: walltime another run took is dropped, and the  *)
(* identical-binaries pass took no counters.                                 *)
Kept(i, reused, uncounted) ==
  (IF uncounted THEN {} ELSE {"counters"}) \cup (IF i \in reused THEN {} ELSE {"walltime"})

(* The entries for what may not be kept.                                     *)
Material(p, measured, reused, uncounted) ==
  {e \in {[package |-> p, reason |-> "reused-walltime", items |-> reused,
           metrics |-> {"walltime"}],
          [package |-> p, reason |-> "identical-binaries",
           items |-> IF uncounted THEN measured ELSE {}, metrics |-> {"counters"}]} :
     e.items # {}}

(* save_baseline_in: the numbers, the owners, and for a full save the        *)
(* package's entries dropped.                                                *)
Saved(doc, p, full, measured, reused, uncounted) ==
  [doc EXCEPT
     !.owners = SetOwners(doc, p, measured \cup (IF full THEN {} ELSE OwnedBy(doc, p))),
     !.items = [i \in Items |->
       IF i \in measured
       THEN [by |-> p, has |-> Kept(i, reused, uncounted), at |-> commit]
       ELSE IF full /\ i \in Prior(doc, p) THEN NoNumber ELSE doc.items[i]],
     !.entries = {e \in doc.entries : ~full \/ e.package # p}]

(* What another package owns, unless `p' saved the number it has.            *)
Theirs(doc, p) ==
  {i \in OwnedByOthers(doc, p) : doc.items[i] = NoNumber \/ doc.items[i].by # p}

(* Slip: the numbers stay beside the entry.                                  *)
MarkedBeside(doc, p, whole, ids) ==
  [doc EXCEPT
     !.owners = IF whole THEN SetOwners(doc, p, ids) ELSE @,
     !.entries = @ \cup {[package |-> p, reason |-> "gate-failed", items |-> ids,
                          metrics |-> {}]}]

(* mark_in: the numbers the package can no longer vouch for give way to an   *)
(* entry naming `ids'.                                                       *)
Marked(doc, p, whole, ids) ==
  LET gone == (ids \cup (IF whole THEN OwnedBy(doc, p) ELSE {})) \ Theirs(doc, p)
      rest == [q \in DOMAIN OwnersOf(doc) \ {p} |-> OwnersOf(doc)[q]]
  IN [doc EXCEPT
        !.owners = IF ~whole THEN @
                   ELSE IF ids # {} THEN SetOwners(doc, p, ids)
                   ELSE IF @ = None THEN None ELSE rest,
        !.items = [i \in Items |-> IF i \in gone THEN NoNumber ELSE doc.items[i]],
        !.entries = {e \in @ : ~whole \/ e.package # p}
          \cup {[package |-> p, reason |-> "gate-failed", items |-> ids, metrics |-> {}]}]

(* stamp_shard_in.                                                           *)
Stamped(doc, s, p, ids) == [doc EXCEPT !.shard = s, !.listed[p] = ids]

-----------------------------------------------------------------------------
Idle == [step |-> "idle"]

Init ==
  /\ code \in [Packages -> SUBSET Items] /\ \A p \in Packages : code[p] \in Listings[p]
  /\ commit = 0 /\ docs = [f \in Files |-> Blank] /\ writer = [f \in Files |-> Idle]
  /\ plan = [p \in Packages |-> None]
  /\ reported = [f \in Files |-> [p \in Packages |-> "no"]]

(* A package's benches change; what was saved is of older code.  The files of *)
(* a sharded gate are those of one commit: each gate starts from none.       *)
Commit(p, listing) ==
  /\ ~Sharded /\ commit < MaxCommits /\ \A f \in Files : writer[f] = Idle
  /\ code' = [code EXCEPT ![p] = listing] /\ commit' = commit + 1
  /\ reported' = [f \in Files |-> [q \in Packages |-> "no"]]
  /\ UNCHANGED <<docs, writer, plan>>

(* `baseline plan -p p', where the bench binaries are built, before any leg.  *)
Plan(p) ==
  /\ p \in Planned /\ commit = 0 /\ \A f \in Files : docs[f] = Blank
  /\ plan' = [plan EXCEPT ![p] = code[p]]
  /\ UNCHANGED <<code, commit, docs, writer, reported>>

MayReport(f, s, p) ==
  /\ writer[f] = Idle /\ CheckShard(docs[f], s)
  /\ Rerun \/ \A g \in Files : reported[g][p] = "no" \/ docs[g].shard # s

(* A full save or mark says what there is of the package; a filtered one     *)
(* leaves what an earlier one said.                                          *)
Outcome(f, p, filter, how) == IF filter = Items THEN how ELSE reported[f][p]

Reports(f, p, how) == reported' = [reported EXCEPT ![f][p] = how]

Measured(s, p, filter) == {i \in code[p] \cap filter : Sharded => Owns(s, i)}

(* save_head when the claims hold: the first write.  Walltime of `reused'    *)
(* came from the item cache or a stored run.                                 *)
Save(f, s, p, filter, reuse, uncounted) ==
  LET measured == Measured(s, p, filter)
      reused == measured \cap reuse
  IN
  /\ MayReport(f, s, p) /\ (uncounted => reuse = {})
  /\ docs' = [docs EXCEPT ![f] =
       Saved(docs[f], p, filter = Items, measured, reused, uncounted)]
  /\ writer' = [writer EXCEPT ![f] =
       [step |-> "append", shard |-> s, package |-> p,
        entries |-> Material(p, measured, reused, uncounted),
        ids |-> code[p] \cap filter, how |-> Outcome(f, p, filter, "listed")]]
  /\ Reports(f, p, "cut")
  /\ UNCHANGED <<code, commit, plan>>

(* append_in: the second write.                                              *)
Append(f) ==
  /\ writer[f].step = "append"
  /\ docs' = [docs EXCEPT ![f].entries = @ \cup writer[f].entries]
  /\ IF Sharded
     THEN writer' = [writer EXCEPT ![f].step = "stamp"] /\ UNCHANGED reported
     ELSE /\ writer' = [writer EXCEPT ![f] = Idle]
          /\ Reports(f, writer[f].package, writer[f].how)
  /\ UNCHANGED <<code, commit, plan>>

(* mark_package, for a gate whose claims failed or that errored and for      *)
(* `baseline mark': with the binary's listing when it was read.              *)
Mark(f, s, p, filter, readListing) ==
  LET listed == IF readListing THEN code[p] \cap filter ELSE {}
      ids == IF readListing
             THEN IF Sharded THEN OwnedHere(s, listed) ELSE listed
             ELSE OwnedBy(docs[f], p) \cap filter
      how == Outcome(f, p, filter, IF readListing THEN "listed" ELSE "unlisted")
  IN /\ MayReport(f, s, p)
     /\ docs' = [docs EXCEPT ![f] = Marked(docs[f], p, filter = Items, ids)]
     /\ IF Sharded
        THEN /\ writer' = [writer EXCEPT ![f] =
                  [step |-> "stamp", shard |-> s, package |-> p, entries |-> {},
                   ids |-> listed, how |-> how]]
             /\ Reports(f, p, "cut")
        ELSE Reports(f, p, how) /\ UNCHANGED writer
     /\ UNCHANGED <<code, commit, plan>>

(* The last write of a sharded gate.                                         *)
Stamp(f) ==
  /\ writer[f].step = "stamp"
  /\ docs' = [docs EXCEPT ![f] =
       Stamped(docs[f], writer[f].shard, writer[f].package, writer[f].ids)]
  /\ writer' = [writer EXCEPT ![f] = Idle]
  /\ Reports(f, writer[f].package, writer[f].how)
  /\ UNCHANGED <<code, commit, plan>>

(* The writer is killed; the file keeps what it wrote, and the leg goes on   *)
(* to its next package.                                                      *)
Crash(f) ==
  /\ MayCrash /\ writer[f] # Idle
  /\ writer' = [writer EXCEPT ![f] = Idle]
  /\ UNCHANGED <<code, commit, docs, plan, reported>>

(* `measure --save-baseline' of the whole workspace replaces every bench     *)
(* number and entry and leaves the owners, who answer for none of it.        *)
SaveAll(f) ==
  LET measured == UNION {code[p] : p \in Packages} IN
  /\ MeasureAll /\ ~Sharded /\ writer[f] = Idle
  /\ docs' = [docs EXCEPT
       ![f].items = [i \in Items |->
          IF i \in measured THEN [by |-> None, has |-> Metrics, at |-> commit] ELSE NoNumber],
       ![f].entries = {}]
  /\ reported' = [reported EXCEPT ![f] = [p \in Packages |-> "no"]]
  /\ UNCHANGED <<code, commit, writer, plan>>

Next ==
  \/ \E p \in Packages : Plan(p) \/ \E listing \in Listings[p] : Commit(p, listing)
  \/ \E f \in Files, s \in Shards, p \in Packages, filter \in Filters :
       \/ \E reuse \in Reuses, uncounted \in BOOLEAN :
            Save(f, s, p, filter, reuse, uncounted)
       \/ \E readListing \in BOOLEAN : Mark(f, s, p, filter, readListing)
  \/ \E f \in Files : Append(f) \/ Stamp(f) \/ Crash(f) \/ SaveAll(f)

Spec == Init /\ [][Next]_vars

TypeOK ==
  /\ code \in [Packages -> SUBSET Items] /\ commit \in 0..MaxCommits
  /\ DOMAIN plan = Packages /\ \A p \in Packages : plan[p] = None \/ plan[p] \subseteq Items
  /\ reported \in [Files -> [Packages -> {"no", "cut", "listed", "unlisted"}]]
  /\ DOMAIN docs = Files /\ DOMAIN writer = Files
  /\ \A f \in Files :
       /\ docs[f].shard \in Shards \cup {None}
       /\ docs[f].owners = None \/ docs[f].owners \in OwnerMaps
       /\ \A p \in Packages : docs[f].listed[p] = None \/ docs[f].listed[p] \subseteq Items
       /\ \A i \in Items : docs[f].items[i] = NoNumber \/ docs[f].items[i] \in Number
       /\ docs[f].entries \subseteq Entry

-----------------------------------------------------------------------------
(* baseline merge: the documents of `fs', under --packages of them all, with *)
(* the plan file where there is one.                                         *)

(* The file accounts for the package by its own record of it.                *)
Covers(doc, p) ==
  \/ p \in DOMAIN OwnersOf(doc)
  \/ doc.listed[p] # None /\ doc.listed[p] # {}
  \/ \E e \in doc.entries : e.package = p /\ e.items # {}

Count(fs) == Sharded /\ \E f \in fs : docs[f].shard = None

Corrupt(fs) ==
  \/ \E f, g \in fs : f # g /\
       \/ docs[f].shard = docs[g].shard
       \/ \E i \in Items : docs[f].items[i] # NoNumber /\ docs[g].items[i] # NoNumber
  \/ \E f \in fs, i \in Items :
       docs[f].items[i] # NoNumber /\ docs[f].shard # None /\ ~Owns(docs[f].shard, i)

Merges(fs) == ~Count(fs) /\ ~Corrupt(fs)

FileOf(fs, s) == {f \in fs : ~Sharded \/ docs[f].shard = s}

Known(fs, p, planned) ==
  (UNION {(IF docs[f].listed[p] = None THEN {} ELSE docs[f].listed[p])
            \cup OwnedBy(docs[f], p) : f \in fs})
    \cup (IF planned[p] = None THEN {} ELSE planned[p])

Missing(fs, p) == {s \in Shards : ~\E f \in FileOf(fs, s) : Covers(docs[f], p)}

(* Slip: a shard's file accounts for every package.                          *)
UnaccountedByFile(fs, p, planned) ==
  LET known == Known(fs, p, planned) IN
  {e \in {[package |-> p, reason |-> "shard-missing", metrics |-> {},
           items |-> OwnedHere(s, known)] : s \in {t \in Shards : FileOf(fs, t) = {}}} :
     e.items # {}}

(* The entries for the shards that saved nothing of the package.             *)
Unaccounted(fs, p, planned) ==
  LET known == Known(fs, p, planned)
      nameless(s) == \E f \in FileOf(fs, s) : \E e \in docs[f].entries :
                       e.package = p /\ e.items = {}
      reason(s) == IF nameless(s) THEN "gate-failed"
                   ELSE IF \E f \in fs : Covers(docs[f], p) THEN "shard-missing"
                   ELSE "no-measurement"
      entry(s) == [package |-> p, reason |-> reason(s), metrics |-> {},
                   items |-> OwnedHere(s, known)]
  IN IF Missing(fs, p) # {} /\ known = {}
     THEN {[package |-> p, reason |-> "no-measurement", items |-> {}, metrics |-> {}]}
     ELSE {e \in {entry(s) : s \in Missing(fs, p)} : e.items # {}}

MergedItem(fs, i) ==
  LET holding == {f \in fs : docs[f].items[i] # NoNumber} IN
  IF holding = {} THEN NoNumber ELSE docs[CHOOSE f \in holding : TRUE].items[i]

Merged(fs, planned) ==
  [items |-> [i \in Items |-> MergedItem(fs, i)],
   entries |-> (UNION {docs[f].entries : f \in fs})
                 \cup (UNION {Unaccounted(fs, p, planned) : p \in Packages})]

(* What docs check makes of a claim on a metric: its number, or the reason   *)
(* there is none; a claim that finds neither fails.                          *)
Readable(doc, i, m) ==
  \/ doc.items[i] # NoNumber /\ m \in doc.items[i].has
  \/ \E e \in doc.entries : i \in e.items /\ (e.metrics = {} \/ m \in e.metrics)

-----------------------------------------------------------------------------
Written == {f \in Files : docs[f] # Blank}
NotCut(fs) == \A f \in fs, p \in Packages : reported[f][p] # "cut"

(* unmeasured.rs: the list holds the items "whose numbers, or some of whose  *)
(* metrics, the baseline does not hold, each with a typed reason".  Whatever *)
(* saved last, whoever else lists the item, every metric of every item of a  *)
(* package that was saved or marked from its listing is a number or named.   *)
Accounted ==
  \A f \in Files, p \in Packages :
    NotCut({f}) /\ reported[f][p] = "listed" => \A i \in code[p], m \in Metrics :
      (Sharded => Owns(docs[f].shard, i)) => Readable(docs[f], i, m)

(* invoke.rs: "renamed/removed items must not haunt the baseline".  Once     *)
(* every package was saved or marked at this commit, no number is of an      *)
(* earlier one, whether the saves passed or failed and in whatever order.    *)
Fresh ==
  \A f \in Files :
    (\A p \in Packages : reported[f][p] \in {"listed", "unlisted"}) =>
      \A i \in Items : docs[f].items[i] # NoNumber => docs[f].items[i].at = commit

(* The files of one gate's legs merge, whichever of them were uploaded and   *)
(* whichever leg wrote to which file, unless a writer was killed or one leg  *)
(* left two files.                                                           *)
LegsMerge ==
  \A fs \in SUBSET Written :
    /\ \A f, g \in fs : f # g => docs[f].shard # docs[g].shard
    /\ NotCut(fs)
    => Merges(fs)

(* baseline_merge.rs: "a shard that saved nothing leaves its items           *)
(* `unmeasured'".  Whatever legs failed, never ran or were not uploaded, as  *)
(* long as the plan or one uploaded leg listed a package the merged baseline *)
(* answers for every metric of every item of it.                             *)
MergeAccounts ==
  \A fs \in SUBSET Written, planned \in {plan, [p \in Packages |-> None]} :
    Merges(fs) /\ NotCut(fs) => \A p \in Packages :
      planned[p] # None \/ (\E f \in fs : reported[f][p] = "listed")
        => \A i \in code[p], m \in Metrics : Readable(Merged(fs, planned), i, m)
=============================================================================
