--------------------------- MODULE BaselineProofs ---------------------------
(* Proofs about Baseline: its types; that the files of a sharded gate's legs  *)
(* merge, and answer for what was listed once merged; that each file does by  *)
(* itself; and that no number outlives a full save of every package.          *)
EXTENDS Baseline, TLAPS

Docs == [shard : Shards \cup {None}, owners : OwnerMaps \cup {None},
         listed : [Packages -> (SUBSET Items) \cup {None}],
         items : [Items -> Number \cup {None}], entries : SUBSET Entry]

Outcomes == {"no", "cut", "listed", "unlisted"}

Writers == [step : {"append", "stamp"}, shard : Shards, package : Packages,
            entries : SUBSET Entry, ids : SUBSET Items, how : Outcomes]

(* TypeOK, with what a writer has left to write.                              *)
TypeInv ==
  /\ code \in [Packages -> SUBSET Items] /\ commit \in 0..MaxCommits
  /\ docs \in [Files -> Docs] /\ writer \in [Files -> Writers \cup {Idle}]
  /\ plan \in [Packages -> (SUBSET Items) \cup {None}]
  /\ reported \in [Files -> [Packages -> Outcomes]]

-----------------------------------------------------------------------------
(* What a missing value is told apart from.                                   *)
LEMMA NoneApart ==
  None \notin Packages \cup Shards \cup (SUBSET Items) \cup Number \cup OwnerMaps
BY NoneAssumption

(* Marks and saves are named by their owners alone.                           *)
LEMMA OwnersTyped ==
  ASSUME NEW doc \in Docs, NEW p \in Packages, NEW ids \in SUBSET Items
  PROVE  /\ OwnersOf(doc) \in OwnerMaps /\ OwnedBy(doc, p) \in SUBSET Items
         /\ OwnedByOthers(doc, p) \in SUBSET Items
         /\ SetOwners(doc, p, ids) \in OwnerMaps
         /\ [q \in DOMAIN OwnersOf(doc) \ {p} |-> OwnersOf(doc)[q]] \in OwnerMaps
<1>1. OwnersOf(doc) \in OwnerMaps
  <2>1. [q \in {} |-> {}] \in [{} -> SUBSET Items]  OBVIOUS
  <2>2. [q \in {} |-> {}] \in OwnerMaps  BY <2>1 DEF OwnerMaps
  <2> QED BY <2>2 DEF OwnersOf, Docs
<1>2. PICK P \in SUBSET Packages : OwnersOf(doc) \in [P -> SUBSET Items]
  BY <1>1 DEF OwnerMaps
<1>3. OwnedBy(doc, p) \in SUBSET Items  BY <1>2 DEF OwnedBy
<1>4. OwnedByOthers(doc, p) \in SUBSET Items  BY <1>2 DEF OwnedByOthers
<1>5. SetOwners(doc, p, ids) \in OwnerMaps
  <2>1. SetOwners(doc, p, ids) \in [({p} \cup P) -> SUBSET Items]  BY <1>2 DEF SetOwners
  <2> QED BY <2>1 DEF OwnerMaps
<1>6. [q \in DOMAIN OwnersOf(doc) \ {p} |-> OwnersOf(doc)[q]] \in OwnerMaps
  <2>1. [q \in DOMAIN OwnersOf(doc) \ {p} |-> OwnersOf(doc)[q]] \in [(P \ {p}) -> SUBSET Items]
    BY <1>2
  <2> QED BY <2>1 DEF OwnerMaps
<1> QED BY <1>1, <1>3, <1>4, <1>5, <1>6

(* A save writes a document ...                                               *)
LEMMA SavedTyped ==
  ASSUME NEW doc \in Docs, NEW p \in Packages, NEW full,
         NEW measured \in SUBSET Items, NEW reused \in SUBSET Items,
         NEW uncounted, commit \in 0..MaxCommits
  PROVE  Saved(doc, p, full, measured, reused, uncounted) \in Docs
<1> DEFINE new == Saved(doc, p, full, measured, reused, uncounted)
           numbers == [i \in Items |->
             IF i \in measured
             THEN [by |-> p, has |-> Kept(i, reused, uncounted), at |-> commit]
             ELSE IF full /\ i \in Prior(doc, p) THEN None ELSE doc.items[i]]
           owners == SetOwners(doc, p, measured \cup (IF full THEN {} ELSE OwnedBy(doc, p)))
           left == {e \in doc.entries : ~full \/ e.package # p}
<1>1. owners \in OwnerMaps  BY OwnersTyped
<1>2. numbers \in [Items -> Number \cup {None}]
  <2>1. \A i \in Items : Kept(i, reused, uncounted) \subseteq Metrics  BY DEF Kept, Metrics
  <2> QED BY <2>1 DEF Number, Docs
<1>3. left \in SUBSET Entry  BY DEF Docs
<1>4. new = [doc EXCEPT !.owners = owners, !.items = numbers, !.entries = left]
  BY DEF Saved, NoNumber
<1>5. new = [shard |-> doc.shard, owners |-> owners, listed |-> doc.listed,
             items |-> numbers, entries |-> left]
  BY <1>4 DEF Docs
<1> QED BY <1>1, <1>2, <1>3, <1>5 DEF Docs

(* ... of the same shard and listings, whose numbers are what was measured    *)
(* and some of what there was.                                                *)
LEMMA SavedKeeps ==
  ASSUME NEW doc \in Docs, NEW p, NEW full, NEW measured, NEW reused, NEW uncounted, NEW new,
         new = Saved(doc, p, full, measured, reused, uncounted)
  PROVE  /\ new.shard = doc.shard /\ new.listed = doc.listed
         /\ \A i \in Items : new.items[i] # None => i \in measured \/ doc.items[i] # None
<1> DEFINE numbers == [i \in Items |->
             IF i \in measured
             THEN [by |-> p, has |-> Kept(i, reused, uncounted), at |-> commit]
             ELSE IF full /\ i \in Prior(doc, p) THEN None ELSE doc.items[i]]
           owners == SetOwners(doc, p, measured \cup (IF full THEN {} ELSE OwnedBy(doc, p)))
           left == {e \in doc.entries : ~full \/ e.package # p}
<1>1. new = [doc EXCEPT !.owners = owners, !.items = numbers, !.entries = left]
  BY DEF Saved, NoNumber
<1>2. new.shard = doc.shard /\ new.listed = doc.listed /\ new.items = numbers
  BY <1>1 DEF Docs
<1> QED BY <1>2

(* A mark adds no number.                                                     *)
LEMMA MarkedTyped ==
  ASSUME NEW doc \in Docs, NEW p \in Packages, NEW whole \in BOOLEAN,
         NEW ids \in SUBSET Items
  PROVE  /\ Marked(doc, p, whole, ids) \in Docs
         /\ Marked(doc, p, whole, ids).shard = doc.shard
         /\ Marked(doc, p, whole, ids).listed = doc.listed
         /\ \A i \in Items : Marked(doc, p, whole, ids).items[i] # None => doc.items[i] # None
<1> DEFINE new == Marked(doc, p, whole, ids)
           gone == (ids \cup (IF whole THEN OwnedBy(doc, p) ELSE {})) \ Theirs(doc, p)
           rest == [q \in DOMAIN OwnersOf(doc) \ {p} |-> OwnersOf(doc)[q]]
           owners == IF ~whole THEN doc.owners
                     ELSE IF ids # {} THEN SetOwners(doc, p, ids)
                     ELSE IF doc.owners = None THEN None ELSE rest
           numbers == [i \in Items |-> IF i \in gone THEN None ELSE doc.items[i]]
           entry == [package |-> p, reason |-> "gate-failed", items |-> ids, metrics |-> {}]
           entries == {e \in doc.entries : ~whole \/ e.package # p} \cup {entry}
<1>1. owners \in OwnerMaps \cup {None}  BY OwnersTyped DEF Docs
<1>2. numbers \in [Items -> Number \cup {None}]  BY DEF Docs
<1>3. entries \in SUBSET Entry  BY DEF Docs, Entry, Reasons
<1>4. new = [doc EXCEPT !.owners = owners, !.items = numbers, !.entries = entries]
  BY DEF Marked, NoNumber
<1>5. new = [shard |-> doc.shard, owners |-> owners, listed |-> doc.listed,
             items |-> numbers, entries |-> entries]
  BY <1>4 DEF Docs
<1>6. new \in Docs  BY <1>1, <1>2, <1>3, <1>5 DEF Docs
<1>7. \A i \in Items : new.items[i] # None => doc.items[i] # None  BY <1>5
<1> QED BY <1>5, <1>6, <1>7

(* One package's set changes in the owners, and no other's.                   *)
SetsOwned(new, doc, p, ids) ==
  /\ OwnedBy(new, p) = ids /\ DOMAIN OwnersOf(new) = {p} \cup DOMAIN OwnersOf(doc)
  /\ \A q \in Packages \ {p} : OwnedBy(new, q) = OwnedBy(doc, q)

LEMMA OwnersSet ==
  ASSUME NEW doc \in Docs, NEW new \in Docs, NEW p \in Packages, NEW ids \in SUBSET Items,
         new.owners = SetOwners(doc, p, ids)
  PROVE  SetsOwned(new, doc, p, ids)
<1>0. SetOwners(doc, p, ids) \in OwnerMaps  BY OwnersTyped
<1>1. OwnersOf(new) = SetOwners(doc, p, ids)
  BY <1>0, NoneApart DEF OwnersOf
<1>2. \A q \in {p} \cup DOMAIN OwnersOf(doc) :
        OwnersOf(new)[q] = IF q = p THEN ids ELSE OwnersOf(doc)[q]
  BY <1>1 DEF SetOwners
<1>3. DOMAIN OwnersOf(new) = {p} \cup DOMAIN OwnersOf(doc)
  BY <1>1 DEF SetOwners
<1> QED BY <1>2, <1>3 DEF OwnedBy, SetsOwned

LEMMA OwnersDropped ==
  ASSUME NEW doc \in Docs, NEW new \in Docs, NEW p \in Packages,
         new.owners = IF doc.owners = None THEN None
                      ELSE [q \in DOMAIN OwnersOf(doc) \ {p} |-> OwnersOf(doc)[q]]
  PROVE  /\ OwnedBy(new, p) = {} /\ DOMAIN OwnersOf(new) = DOMAIN OwnersOf(doc) \ {p}
         /\ \A q \in Packages \ {p} : OwnedBy(new, q) = OwnedBy(doc, q)
<1>1. CASE doc.owners = None
  <2>1. OwnersOf(new) = [q \in {} |-> {}] /\ OwnersOf(doc) = [q \in {} |-> {}]
    BY <1>1 DEF OwnersOf
  <2> QED BY <2>1 DEF OwnedBy
<1>2. CASE doc.owners # None
  <2> DEFINE rest == [q \in DOMAIN OwnersOf(doc) \ {p} |-> OwnersOf(doc)[q]]
  <2>1. rest \in OwnerMaps  BY OwnersTyped
  <2>2. new.owners = rest  BY <1>2
  <2>3. OwnersOf(new) = rest
    <3> HIDE DEF rest
    <3> QED BY <2>1, <2>2, NoneApart DEF OwnersOf
  <2> QED BY <2>3 DEF OwnedBy
<1> QED BY <1>1, <1>2

(* What a save makes of each part of a document ...                           *)
SavedOf(new, doc, p, full, measured, reused, uncounted) ==
  /\ new \in Docs /\ new.shard = doc.shard /\ new.listed = doc.listed
  /\ \A i \in Items : new.items[i] =
       IF i \in measured
       THEN [by |-> p, has |-> Kept(i, reused, uncounted), at |-> commit]
       ELSE IF full /\ i \in Prior(doc, p) THEN None ELSE doc.items[i]
  /\ new.entries = {e \in doc.entries : ~full \/ e.package # p}
  /\ OwnedBy(new, p) = measured \cup (IF full THEN {} ELSE OwnedBy(doc, p))
  /\ DOMAIN OwnersOf(new) = {p} \cup DOMAIN OwnersOf(doc)
  /\ \A q \in Packages \ {p} : OwnedBy(new, q) = OwnedBy(doc, q)

LEMMA SavedParts ==
  ASSUME NEW doc \in Docs, NEW p \in Packages, NEW full, NEW measured \in SUBSET Items,
         NEW reused \in SUBSET Items, NEW uncounted, TypeInv
  PROVE  SavedOf(Saved(doc, p, full, measured, reused, uncounted), doc, p, full, measured,
                 reused, uncounted)
<1> DEFINE new == Saved(doc, p, full, measured, reused, uncounted)
           ids == measured \cup (IF full THEN {} ELSE OwnedBy(doc, p))
           numbers == [i \in Items |->
             IF i \in measured
             THEN [by |-> p, has |-> Kept(i, reused, uncounted), at |-> commit]
             ELSE IF full /\ i \in Prior(doc, p) THEN None ELSE doc.items[i]]
           left == {e \in doc.entries : ~full \/ e.package # p}
<1>1. new \in Docs  BY SavedTyped DEF TypeInv
<1>2. new = [doc EXCEPT !.owners = SetOwners(doc, p, ids), !.items = numbers, !.entries = left]
  BY DEF Saved, NoNumber
<1>3. new = [shard |-> doc.shard, owners |-> SetOwners(doc, p, ids), listed |-> doc.listed,
             items |-> numbers, entries |-> left]
  BY <1>2 DEF Docs
<1>4. ids \in SUBSET Items
  <2>1. OwnedBy(doc, p) \in SUBSET Items  BY OwnersTyped
  <2> QED BY <2>1
<1>5. new.owners = SetOwners(doc, p, ids)  BY <1>3
<1>6. /\ new.shard = doc.shard /\ new.listed = doc.listed /\ new.items = numbers
      /\ new.entries = left
  BY <1>3
<1> HIDE DEF ids, new
<1>7. /\ OwnedBy(new, p) = ids /\ DOMAIN OwnersOf(new) = {p} \cup DOMAIN OwnersOf(doc)
      /\ \A q \in Packages \ {p} : OwnedBy(new, q) = OwnedBy(doc, q)
  <2>1. SetsOwned(new, doc, p, ids)  BY <1>1, <1>4, <1>5, OwnersSet
  <2> QED BY <2>1 DEF SetsOwned
<1>8. SavedOf(new, doc, p, full, measured, reused, uncounted)
  BY <1>1, <1>6, <1>7 DEF ids, SavedOf
<1> QED BY <1>8 DEF new

(* ... and a mark.                                                            *)
MarkedOf(new, doc, p, whole, ids) ==
  /\ new \in Docs /\ new.shard = doc.shard /\ new.listed = doc.listed
  /\ \A i \in Items : new.items[i] =
       IF i \in (ids \cup (IF whole THEN OwnedBy(doc, p) ELSE {})) \ Theirs(doc, p)
       THEN None ELSE doc.items[i]
  /\ new.entries = {e \in doc.entries : ~whole \/ e.package # p}
       \cup {[package |-> p, reason |-> "gate-failed", items |-> ids, metrics |-> {}]}
  /\ OwnedBy(new, p) = IF whole THEN ids ELSE OwnedBy(doc, p)
  /\ DOMAIN OwnersOf(new) = IF ~whole THEN DOMAIN OwnersOf(doc)
                            ELSE IF ids # {} THEN {p} \cup DOMAIN OwnersOf(doc)
                            ELSE DOMAIN OwnersOf(doc) \ {p}
  /\ \A q \in Packages \ {p} : OwnedBy(new, q) = OwnedBy(doc, q)

LEMMA MarkedParts ==
  ASSUME NEW doc \in Docs, NEW p \in Packages, NEW whole \in BOOLEAN, NEW ids \in SUBSET Items
  PROVE  MarkedOf(Marked(doc, p, whole, ids), doc, p, whole, ids)
<1> DEFINE new == Marked(doc, p, whole, ids)
           gone == (ids \cup (IF whole THEN OwnedBy(doc, p) ELSE {})) \ Theirs(doc, p)
           rest == [q \in DOMAIN OwnersOf(doc) \ {p} |-> OwnersOf(doc)[q]]
           owners == IF ~whole THEN doc.owners
                     ELSE IF ids # {} THEN SetOwners(doc, p, ids)
                     ELSE IF doc.owners = None THEN None ELSE rest
           numbers == [i \in Items |-> IF i \in gone THEN None ELSE doc.items[i]]
           entry == [package |-> p, reason |-> "gate-failed", items |-> ids, metrics |-> {}]
           entries == {e \in doc.entries : ~whole \/ e.package # p} \cup {entry}
<1>1. new \in Docs  BY MarkedTyped
<1>2. new = [doc EXCEPT !.owners = owners, !.items = numbers, !.entries = entries]
  BY DEF Marked, NoNumber
<1>3. new = [shard |-> doc.shard, owners |-> owners, listed |-> doc.listed,
             items |-> numbers, entries |-> entries]
  BY <1>2 DEF Docs
<1>4. new.shard = doc.shard /\ new.listed = doc.listed /\ new.entries = entries
      /\ new.items = numbers /\ new.owners = owners
  BY <1>3
<1>5. \A i \in Items : new.items[i] = IF i \in gone THEN None ELSE doc.items[i]
  BY <1>4
<1> HIDE DEF gone, numbers, new
<1>6. ASSUME ~whole PROVE MarkedOf(new, doc, p, whole, ids)
  <2>1. OwnersOf(new) = OwnersOf(doc)  BY <1>4, <1>6 DEF OwnersOf
  <2>2. \A q : OwnedBy(new, q) = OwnedBy(doc, q)  BY <2>1 DEF OwnedBy
  <2> QED BY <1>1, <1>4, <1>5, <1>6, <2>1, <2>2 DEF gone, MarkedOf
<1>7. ASSUME whole /\ ids # {} PROVE MarkedOf(new, doc, p, whole, ids)
  <2>1. new.owners = SetOwners(doc, p, ids)  BY <1>4, <1>7
  <2>2. SetsOwned(new, doc, p, ids)  BY <1>1, <2>1, OwnersSet
  <2> QED BY <1>1, <1>4, <1>5, <1>7, <2>2 DEF gone, MarkedOf, SetsOwned
<1>8. ASSUME whole /\ ids = {} PROVE MarkedOf(new, doc, p, whole, ids)
  <2>1. new.owners = IF doc.owners = None THEN None ELSE rest  BY <1>4, <1>8
  <2>2. /\ OwnedBy(new, p) = {} /\ DOMAIN OwnersOf(new) = DOMAIN OwnersOf(doc) \ {p}
        /\ \A q \in Packages \ {p} : OwnedBy(new, q) = OwnedBy(doc, q)
    BY <1>1, <2>1, OwnersDropped
  <2> QED BY <1>1, <1>4, <1>5, <1>8, <2>2 DEF gone, MarkedOf
<1>9. MarkedOf(new, doc, p, whole, ids)  BY <1>6, <1>7, <1>8
<1> QED BY <1>9 DEF new

LEMMA EmptiedTyped ==
  ASSUME NEW doc \in Docs, NEW numbers \in [Items -> Number \cup {None}], NEW new,
         new = [doc EXCEPT !.items = numbers, !.entries = {}]
  PROVE  new \in Docs /\ new.shard = doc.shard /\ new.listed = doc.listed
<1>1. new = [shard |-> doc.shard, owners |-> doc.owners, listed |-> doc.listed,
             items |-> numbers, entries |-> {}]
  BY DEF Docs
<1> QED BY <1>1 DEF Docs

LEMMA TypeInit == Init => TypeInv
<1> SUFFICES ASSUME Init PROVE TypeInv  OBVIOUS
<1>1. Blank \in Docs  BY DEF Blank, Docs, NoNumber
<1>2. code \in [Packages -> SUBSET Items] /\ commit \in 0..MaxCommits
  BY SwitchesAssumption DEF Init
<1> QED BY <1>1, <1>2 DEF Init, TypeInv, Outcomes

LEMMA TypeStep == TypeInv /\ [Next]_vars => TypeInv'
<1> SUFFICES ASSUME TypeInv, [Next]_vars PROVE TypeInv'  OBVIOUS
<1> USE DEF TypeInv
<1>0. \A f \in Files : docs[f] \in Docs /\ writer[f] \in Writers \cup {Idle}  OBVIOUS
<1>1. ASSUME NEW p \in Packages, Plan(p) PROVE TypeInv'
  <2>1. plan' \in [Packages -> (SUBSET Items) \cup {None}]  BY <1>1 DEF Plan
  <2> QED BY <1>1, <2>1 DEF Plan
<1>2. ASSUME NEW p \in Packages, NEW listing \in Listings[p], Commit(p, listing) PROVE TypeInv'
  <2>1. listing \in SUBSET Items  BY ListingAssumption
  <2>2. code' \in [Packages -> SUBSET Items]  BY <1>2, <2>1 DEF Commit
  <2>3. commit' \in 0..MaxCommits  BY <1>2, SwitchesAssumption DEF Commit
  <2>4. reported' \in [Files -> [Packages -> Outcomes]]  BY <1>2 DEF Commit, Outcomes
  <2> QED BY <1>2, <2>2, <2>3, <2>4 DEF Commit
<1>3. ASSUME NEW f \in Files, NEW s \in Shards, NEW p \in Packages, NEW filter \in Filters,
             NEW reuse \in Reuses, NEW uncounted \in BOOLEAN,
             Save(f, s, p, filter, reuse, uncounted)
      PROVE TypeInv'
  <2> DEFINE measured == Measured(s, p, filter)
             reused == measured \cap reuse
             new == Saved(docs[f], p, filter = Items, measured, reused, uncounted)
             left == [step |-> "append", shard |-> s, package |-> p,
                      entries |-> Material(p, measured, reused, uncounted),
                      ids |-> code[p] \cap filter, how |-> Outcome(f, p, filter, "listed")]
  <2>1. measured \in SUBSET Items /\ reused \in SUBSET Items /\ (filter = Items) \in BOOLEAN
    BY DEF Measured
  <2>2. new \in Docs  BY <1>0, <2>1, SavedTyped
  <2>3. Material(p, measured, reused, uncounted) \in SUBSET Entry
    BY <2>1 DEF Material, Entry, Reasons, Metrics
  <2>4. Outcome(f, p, filter, "listed") \in Outcomes  BY DEF Outcome, Outcomes
  <2>5. left \in Writers  BY <2>3, <2>4 DEF Writers
  <2>6. docs' \in [Files -> Docs] /\ writer' \in [Files -> Writers \cup {Idle}]
    BY <1>3, <2>2, <2>5 DEF Save
  <2>7. reported' \in [Files -> [Packages -> Outcomes]]  BY <1>3 DEF Save, Reports, Outcomes
  <2> QED BY <1>3, <2>6, <2>7 DEF Save
<1>4. ASSUME NEW f \in Files, NEW s \in Shards, NEW p \in Packages, NEW filter \in Filters,
             NEW readListing \in BOOLEAN, Mark(f, s, p, filter, readListing)
      PROVE TypeInv'
  <2> DEFINE listed == IF readListing THEN code[p] \cap filter ELSE {}
             ids == IF readListing
                    THEN IF Sharded THEN OwnedHere(s, listed) ELSE listed
                    ELSE OwnedBy(docs[f], p) \cap filter
             how == Outcome(f, p, filter, IF readListing THEN "listed" ELSE "unlisted")
             new == Marked(docs[f], p, filter = Items, ids)
             left == [step |-> "stamp", shard |-> s, package |-> p, entries |-> {},
                      ids |-> listed, how |-> how]
  <2>1. OwnedBy(docs[f], p) \in SUBSET Items  BY <1>0, OwnersTyped
  <2>2. listed \in SUBSET Items /\ ids \in SUBSET Items /\ (filter = Items) \in BOOLEAN
    BY <2>1 DEF OwnedHere
  <2>3. new \in Docs  BY <1>0, <2>2, MarkedTyped
  <2>4. how \in Outcomes  BY DEF Outcome, Outcomes
  <2>5. left \in Writers  BY <2>2, <2>4 DEF Writers
  <2>6. docs' \in [Files -> Docs]  BY <1>4, <2>3 DEF Mark
  <2>7. writer' \in [Files -> Writers \cup {Idle}]  BY <1>4, <2>5 DEF Mark
  <2>8. \E o \in Outcomes : reported' = [reported EXCEPT ![f][p] = o]
    <3>1. CASE Sharded
      <4>1. "cut" \in Outcomes  BY DEF Outcomes
      <4> QED BY <1>4, <3>1, <4>1 DEF Mark, Reports
    <3>2. CASE ~Sharded  BY <1>4, <2>4, <3>2 DEF Mark, Reports
    <3> QED BY <3>1, <3>2
  <2>9. reported' \in [Files -> [Packages -> Outcomes]]  BY <2>8
  <2> QED BY <1>4, <2>6, <2>7, <2>9 DEF Mark
<1>5. ASSUME NEW f \in Files, Append(f) PROVE TypeInv'
  <2>1. writer[f] \in Writers  BY <1>0, <1>5 DEF Append, Idle
  <2>2. [docs[f] EXCEPT !.entries = @ \cup writer[f].entries] \in Docs
    BY <1>0, <2>1 DEF Docs, Writers
  <2>3. docs' \in [Files -> Docs]  BY <1>5, <2>2 DEF Append
  <2>4. [writer[f] EXCEPT !.step = "stamp"] \in Writers  BY <2>1 DEF Writers
  <2>5. writer' \in [Files -> Writers \cup {Idle}]  BY <1>5, <2>4 DEF Append
  <2>6. reported' \in [Files -> [Packages -> Outcomes]]
    <3>1. CASE Sharded  BY <1>5, <3>1 DEF Append
    <3>2. CASE ~Sharded
      <4>1. reported' = [reported EXCEPT ![f][writer[f].package] = writer[f].how]
        BY <1>5, <3>2 DEF Append, Reports
      <4>2. writer[f].package \in Packages /\ writer[f].how \in Outcomes  BY <2>1 DEF Writers
      <4> QED BY <4>1, <4>2
    <3> QED BY <3>1, <3>2
  <2> QED BY <1>5, <2>3, <2>5, <2>6 DEF Append
<1>6. ASSUME NEW f \in Files, Stamp(f) PROVE TypeInv'
  <2>1. writer[f] \in Writers  BY <1>0, <1>6 DEF Stamp, Idle
  <2>2. Stamped(docs[f], writer[f].shard, writer[f].package, writer[f].ids) \in Docs
    BY <1>0, <2>1 DEF Stamped, Docs, Writers
  <2>3. docs' \in [Files -> Docs] /\ writer' \in [Files -> Writers \cup {Idle}]
    BY <1>6, <2>2 DEF Stamp
  <2>4. reported' \in [Files -> [Packages -> Outcomes]]
    BY <1>6, <2>1 DEF Stamp, Reports, Writers
  <2> QED BY <1>6, <2>3, <2>4 DEF Stamp
<1>7. ASSUME NEW f \in Files, Crash(f) PROVE TypeInv'
  BY <1>7 DEF Crash
<1>8. ASSUME NEW f \in Files, SaveAll(f) PROVE TypeInv'
  <2> DEFINE measured == UNION {code[p] : p \in Packages}
             numbers == [i \in Items |->
               IF i \in measured THEN [by |-> None, has |-> Metrics, at |-> commit]
               ELSE NoNumber]
  <2>1. numbers \in [Items -> Number \cup {None}]  BY DEF Number, NoNumber
  <2>2. docs' = [docs EXCEPT ![f].items = numbers, ![f].entries = {}]  BY <1>8 DEF SaveAll
  <2>3. [docs[f] EXCEPT !.items = numbers, !.entries = {}] \in Docs
    BY <1>0, <2>1, EmptiedTyped
  <2>4. docs' \in [Files -> Docs]  BY <2>2, <2>3
  <2>5. reported' \in [Files -> [Packages -> Outcomes]]  BY <1>8 DEF SaveAll, Outcomes
  <2> QED BY <1>8, <2>4, <2>5 DEF SaveAll
<1>9. CASE UNCHANGED vars  BY <1>9 DEF vars
<1> QED BY <1>1, <1>2, <1>3, <1>4, <1>5, <1>6, <1>7, <1>8, <1>9 DEF Next

LEMMA TypeInvTypes == TypeInv => TypeOK
<1> SUFFICES ASSUME TypeInv PROVE TypeOK  OBVIOUS
<1>1. ASSUME NEW f \in Files
      PROVE  /\ docs[f].shard \in Shards \cup {None}
             /\ docs[f].owners = None \/ docs[f].owners \in OwnerMaps
             /\ \A p \in Packages : docs[f].listed[p] = None \/ docs[f].listed[p] \subseteq Items
             /\ \A i \in Items : docs[f].items[i] = NoNumber \/ docs[f].items[i] \in Number
             /\ docs[f].entries \subseteq Entry
  BY DEF TypeInv, Docs, NoNumber
<1> QED BY <1>1 DEF TypeInv, TypeOK, Outcomes

(* Every document, entry and history stays what it is read as.                *)
THEOREM TypeCorrect == Spec => []TypeOK
<1>1. Spec => []TypeInv  BY TypeInit, TypeStep, PTL DEF Spec
<1> QED BY <1>1, TypeInvTypes, PTL

-----------------------------------------------------------------------------
(* A stamped file is of a sharded gate and holds nothing its shard does not   *)
(* own.                                                                       *)
StampedHolds ==
  \A f \in Files : docs[f].shard # None =>
    Sharded /\ \A i \in Items : docs[f].items[i] # None => ShardOf[i] = docs[f].shard

(* One without a stamp has no listings, and of a sharded gate it is missing   *)
(* or its writer has not finished.                                            *)
UnstampedCut ==
  \A f \in Files : docs[f].shard = None =>
    /\ \A p \in Packages : docs[f].listed[p] = None
    /\ Sharded /\ docs[f] # Blank => \E p \in Packages : reported[f][p] = "cut"

(* A writer's file holds nothing its shard does not own, and takes its stamp. *)
WriterHolds ==
  \A f \in Files : writer[f] # Idle =>
    IF Sharded
    THEN /\ reported[f][writer[f].package] = "cut"
         /\ docs[f].shard \in {None, writer[f].shard}
         /\ \A i \in Items : docs[f].items[i] # None => ShardOf[i] = writer[f].shard
    ELSE writer[f].step = "append"

LegInv == TypeInv /\ StampedHolds /\ UnstampedCut /\ WriterHolds

LEMMA LegInit == Init => LegInv
<1> SUFFICES ASSUME Init PROVE LegInv  OBVIOUS
<1>1. TypeInv  BY TypeInit
<1>2. \A f \in Files : docs[f] = Blank /\ writer[f] = Idle  BY DEF Init
<1>3. Blank.shard = None /\ \A p \in Packages : Blank.listed[p] = None  BY DEF Blank
<1> QED BY <1>1, <1>2, <1>3 DEF LegInv, StampedHolds, UnstampedCut, WriterHolds

(* An unstamped file a shard may be saved into is missing.                    *)
LEMMA UnstampedBlank ==
  ASSUME LegInv, NEW f \in Files, docs[f].shard = None, ~IsRust(docs[f])
  PROVE  docs[f] = Blank /\ \A i \in Items : docs[f].items[i] = None
<1>1. docs[f] \in Docs  BY DEF LegInv, TypeInv
<1>2. docs[f].owners = None /\ docs[f].entries = {} /\ \A i \in Items : docs[f].items[i] = None
  BY DEF IsRust, NoNumber
<1>3. \A p \in Packages : docs[f].listed[p] = None  BY DEF LegInv, UnstampedCut
<1>4. docs[f].listed = [p \in Packages |-> None] /\ docs[f].items = [i \in Items |-> None]
  BY <1>1, <1>2, <1>3 DEF Docs
<1>5. docs[f] = [shard |-> docs[f].shard, owners |-> docs[f].owners, listed |-> docs[f].listed,
                 items |-> docs[f].items, entries |-> docs[f].entries]
  BY <1>1 DEF Docs
<1> QED BY <1>2, <1>4, <1>5 DEF Blank, NoNumber

(* What a shard may be saved into holds nothing it does not own.              *)
LEMMA CheckedHolds ==
  ASSUME LegInv, Sharded, NEW f \in Files, NEW s \in Shards, CheckShard(docs[f], s)
  PROVE  /\ docs[f].shard \in {None, s}
         /\ \A i \in Items : docs[f].items[i] # None => ShardOf[i] = s
<1>1. CASE docs[f].shard = s
  BY <1>1, NoneApart DEF LegInv, StampedHolds
<1>2. CASE docs[f].shard = None /\ ~IsRust(docs[f])  BY <1>2, UnstampedBlank
<1> QED BY <1>1, <1>2 DEF CheckShard

LEMMA LegStep == LegInv /\ [Next]_vars => LegInv'
<1> SUFFICES ASSUME LegInv, [Next]_vars PROVE LegInv'  OBVIOUS
<1>t. TypeInv /\ TypeInv'  BY TypeStep DEF LegInv
<1>n. \A s \in Shards : s # None  BY NoneApart
<1>d. \A f \in Files :
        /\ docs[f] \in Docs /\ docs'[f] \in Docs /\ Blank.shard = None
        /\ writer[f] \in Writers \cup {Idle} /\ docs[f].shard \in Shards \cup {None}
  BY <1>t DEF TypeInv, Docs, Blank
<1>s. \A w \in Writers : w # Idle /\ w.shard \in Shards /\ w.package \in Packages
  BY DEF Writers, Idle
<1> DEFINE P(g) == /\ docs[g].shard # None =>
                        Sharded /\ \A i \in Items : docs[g].items[i] # None => ShardOf[i] = docs[g].shard
                   /\ docs[g].shard = None =>
                        /\ \A p \in Packages : docs[g].listed[p] = None
                        /\ Sharded /\ docs[g] # Blank => \E p \in Packages : reported[g][p] = "cut"
                   /\ writer[g] # Idle =>
                        IF Sharded
                        THEN /\ reported[g][writer[g].package] = "cut"
                             /\ docs[g].shard \in {None, writer[g].shard}
                             /\ \A i \in Items : docs[g].items[i] # None
                                                   => ShardOf[i] = writer[g].shard
                        ELSE writer[g].step = "append"
<1>p. \A g \in Files : P(g)  BY DEF LegInv, StampedHolds, UnstampedCut, WriterHolds
<1>q. (\A g \in Files : P(g)') => LegInv'
  BY <1>t DEF LegInv, StampedHolds, UnstampedCut, WriterHolds
<1>u. ASSUME NEW f \in Files,
             \A g \in Files \ {f} : docs'[g] = docs[g] /\ writer'[g] = writer[g]
                                     /\ reported'[g] = reported[g],
             P(f)'
      PROVE  LegInv'
  <2>1. \A g \in Files \ {f} : P(g)'  BY <1>u, <1>p
  <2> QED BY <1>u, <1>q, <2>1
<1>1. ASSUME NEW p \in Packages, Plan(p) PROVE LegInv'
  <2> QED BY <1>1, <1>p, <1>q DEF Plan
<1>2. ASSUME NEW p \in Packages, NEW listing \in Listings[p], Commit(p, listing) PROVE LegInv'
  <2>1. ~Sharded /\ docs' = docs /\ writer' = writer  BY <1>2 DEF Commit
  <2> QED BY <2>1, <1>p, <1>q DEF Sharded
<1>3. ASSUME NEW f \in Files, NEW s \in Shards, NEW p \in Packages, NEW filter \in Filters,
             NEW reuse \in Reuses, NEW uncounted \in BOOLEAN,
             Save(f, s, p, filter, reuse, uncounted)
      PROVE LegInv'
  <2> DEFINE measured == Measured(s, p, filter)
             reused == measured \cap reuse
             new == Saved(docs[f], p, filter = Items, measured, reused, uncounted)
  <2>1. measured \in SUBSET Items /\ reused \in SUBSET Items /\ (filter = Items) \in BOOLEAN
    BY <1>t DEF TypeInv, Measured
  <2>2. /\ new.shard = docs[f].shard /\ new.listed = docs[f].listed
        /\ \A i \in Items : new.items[i] # None => i \in measured \/ docs[f].items[i] # None
    <3>1. docs[f] \in Docs  BY <1>t DEF TypeInv
    <3> HIDE DEF measured, reused
    <3> QED BY <3>1, SavedKeeps
  <2>3. /\ docs' = [docs EXCEPT ![f] = new]
        /\ CheckShard(docs[f], s)
        /\ reported' = [reported EXCEPT ![f][p] = "cut"]
        /\ writer' = [writer EXCEPT ![f] =
             [step |-> "append", shard |-> s, package |-> p,
              entries |-> Material(p, measured, reused, uncounted),
              ids |-> code[p] \cap filter, how |-> Outcome(f, p, filter, "listed")]]
    BY <1>3 DEF Save, MayReport, Reports
  <2>4. docs'[f] = new /\ reported'[f][p] = "cut" /\ writer'[f].step = "append"
        /\ writer'[f].shard = s /\ writer'[f].package = p
    BY <2>3, <1>t DEF TypeInv
  <2>5. Sharded => /\ docs[f].shard \in {None, s}
                   /\ \A i \in Items : new.items[i] # None => ShardOf[i] = s
    BY <2>2, <2>3, CheckedHolds DEF Owns, Measured
  <2> HIDE DEF new, measured, reused
  <2>6. P(f)'  BY <2>2, <2>4, <2>5, <1>p
  <2>7. \A g \in Files \ {f} : docs'[g] = docs[g] /\ writer'[g] = writer[g]
                               /\ reported'[g] = reported[g]
    BY <2>3, <1>t DEF TypeInv
  <2> QED BY <1>u, <2>6, <2>7
<1>4. ASSUME NEW f \in Files, NEW s \in Shards, NEW p \in Packages, NEW filter \in Filters,
             NEW readListing \in BOOLEAN, Mark(f, s, p, filter, readListing)
      PROVE LegInv'
  <2> DEFINE listed == IF readListing THEN code[p] \cap filter ELSE {}
             ids == IF readListing
                    THEN IF Sharded THEN OwnedHere(s, listed) ELSE listed
                    ELSE OwnedBy(docs[f], p) \cap filter
             how == Outcome(f, p, filter, IF readListing THEN "listed" ELSE "unlisted")
             new == Marked(docs[f], p, filter = Items, ids)
  <2>1. ids \in SUBSET Items /\ (filter = Items) \in BOOLEAN
    <3>1. OwnedBy(docs[f], p) \in SUBSET Items  BY <1>d, OwnersTyped
    <3> QED BY <3>1, <1>t DEF OwnedHere, TypeInv
  <2>2. /\ new.shard = docs[f].shard /\ new.listed = docs[f].listed
        /\ \A i \in Items : new.items[i] # None => docs[f].items[i] # None
    <3>1. docs[f] \in Docs  BY <1>t DEF TypeInv
    <3> HIDE DEF ids
    <3> QED BY <3>1, <2>1, MarkedTyped
  <2>3. /\ docs' = [docs EXCEPT ![f] = new] /\ CheckShard(docs[f], s) /\ writer[f] = Idle
    BY <1>4 DEF Mark, MayReport
  <2>4. docs'[f] = new  BY <2>3, <1>t DEF TypeInv
  <2>5. Sharded => /\ docs[f].shard \in {None, s}
                   /\ \A i \in Items : new.items[i] # None => ShardOf[i] = s
    BY <2>2, <2>3, CheckedHolds
  <2>6. CASE Sharded
    <3>1. /\ writer' = [writer EXCEPT ![f] =
               [step |-> "stamp", shard |-> s, package |-> p, entries |-> {},
                ids |-> listed, how |-> how]]
          /\ reported' = [reported EXCEPT ![f][p] = "cut"]
      BY <1>4, <2>6 DEF Mark, Reports
    <3>2. reported'[f][p] = "cut" /\ writer'[f].shard = s /\ writer'[f].package = p
      BY <3>1, <1>t DEF TypeInv
    <3> HIDE DEF new, ids, how, listed
    <3>3. P(f)'  BY <2>2, <2>4, <2>5, <2>6, <3>2, <1>p
    <3>4. \A g \in Files \ {f} : docs'[g] = docs[g] /\ writer'[g] = writer[g]
                                 /\ reported'[g] = reported[g]
      BY <2>3, <3>1, <1>t DEF TypeInv
    <3> QED BY <1>u, <3>3, <3>4
  <2>7. CASE ~Sharded
    <3>1. writer' = writer /\ reported' = [reported EXCEPT ![f][p] = how]
      BY <1>4, <2>7 DEF Mark, Reports
    <3> HIDE DEF new, ids, how, listed
    <3>2. P(f)'  BY <2>2, <2>3, <2>4, <2>7, <3>1, <1>p
    <3>3. \A g \in Files \ {f} : docs'[g] = docs[g] /\ writer'[g] = writer[g]
                                 /\ reported'[g] = reported[g]
      BY <2>3, <3>1, <1>t DEF TypeInv
    <3> QED BY <1>u, <3>2, <3>3
  <2> QED BY <2>6, <2>7
<1>5. ASSUME NEW f \in Files, Append(f) PROVE LegInv'
  <2>1. writer[f] \in Writers  BY <1>d, <1>5 DEF Append, Idle
  <2> DEFINE new == [docs[f] EXCEPT !.entries = @ \cup writer[f].entries]
  <2>2. docs' = [docs EXCEPT ![f] = new]  BY <1>5 DEF Append
  <2>3. new.shard = docs[f].shard /\ new.listed = docs[f].listed /\ new.items = docs[f].items
    BY <1>d DEF Docs
  <2>4. docs'[f] = new  BY <2>2, <1>t DEF TypeInv
  <2>5. \A g \in Files \ {f} : docs'[g] = docs[g]  BY <2>2, <1>t DEF TypeInv
  <2> HIDE DEF new
  <2>6. CASE Sharded
    <3>1. reported' = reported /\ writer' = [writer EXCEPT ![f].step = "stamp"]
      BY <1>5, <2>6 DEF Append
    <3>2. writer'[f].shard = writer[f].shard /\ writer'[f].package = writer[f].package
      BY <3>1, <2>1, <1>t DEF TypeInv, Writers
    <3>3. writer[f] # Idle /\ writer[f].package \in Packages  BY <2>1, <1>s
    <3>4. P(f)'  BY <2>3, <2>4, <2>6, <3>1, <3>2, <3>3, <1>p
    <3>5. \A g \in Files \ {f} : writer'[g] = writer[g] /\ reported'[g] = reported[g]
      BY <3>1, <1>t DEF TypeInv
    <3> QED BY <1>u, <2>5, <3>4, <3>5
  <2>7. CASE ~Sharded
    <3>1. /\ writer' = [writer EXCEPT ![f] = Idle]
          /\ reported' = [reported EXCEPT ![f][writer[f].package] = writer[f].how]
      BY <1>5, <2>7 DEF Append, Reports
    <3>2. writer'[f] = Idle  BY <3>1, <1>t DEF TypeInv
    <3>3. P(f)'  BY <2>3, <2>4, <2>7, <3>2, <1>p
    <3>4. \A g \in Files \ {f} : writer'[g] = writer[g] /\ reported'[g] = reported[g]
      BY <3>1, <1>t DEF TypeInv
    <3> QED BY <1>u, <2>5, <3>3, <3>4
  <2> QED BY <2>6, <2>7
<1>6. ASSUME NEW f \in Files, Stamp(f) PROVE LegInv'
  <2>1. writer[f] \in Writers  BY <1>d, <1>6 DEF Stamp, Idle
  <2>2. writer[f] # Idle /\ writer[f].shard \in Shards /\ writer[f].package \in Packages
    BY <2>1, <1>s
  <2>3. Sharded  BY <2>2, <1>6, <1>p DEF Stamp
  <2> DEFINE new == Stamped(docs[f], writer[f].shard, writer[f].package, writer[f].ids)
  <2>4. docs' = [docs EXCEPT ![f] = new] /\ writer' = [writer EXCEPT ![f] = Idle]
        /\ reported' = [reported EXCEPT ![f][writer[f].package] = writer[f].how]
    BY <1>6 DEF Stamp, Reports
  <2>5. new.shard = writer[f].shard /\ new.items = docs[f].items
    BY <1>d DEF Stamped, Docs
  <2>6. docs'[f] = new /\ writer'[f] = Idle  BY <2>4, <1>t DEF TypeInv
  <2>7. \A g \in Files \ {f} : docs'[g] = docs[g] /\ writer'[g] = writer[g]
                               /\ reported'[g] = reported[g]
    BY <2>4, <1>t DEF TypeInv
  <2> HIDE DEF new
  <2>8. P(f)'  BY <2>2, <2>3, <2>5, <2>6, <1>p, <1>n
  <2> QED BY <1>u, <2>7, <2>8
<1>7. ASSUME NEW f \in Files, Crash(f) PROVE LegInv'
  <2>1. docs' = docs /\ reported' = reported /\ writer' = [writer EXCEPT ![f] = Idle]
    BY <1>7 DEF Crash
  <2>2. writer'[f] = Idle /\ \A g \in Files \ {f} : writer'[g] = writer[g]
    BY <2>1, <1>t DEF TypeInv
  <2>3. P(f)'  BY <2>1, <2>2, <1>p
  <2> QED BY <1>u, <2>1, <2>2, <2>3
<1>8. ASSUME NEW f \in Files, SaveAll(f) PROVE LegInv'
  <2> DEFINE measured == UNION {code[p] : p \in Packages}
             numbers == [i \in Items |->
               IF i \in measured THEN [by |-> None, has |-> Metrics, at |-> commit]
               ELSE NoNumber]
             new == [docs[f] EXCEPT !.items = numbers, !.entries = {}]
  <2>1. ~Sharded /\ writer' = writer /\ docs' = [docs EXCEPT ![f] = new]
        /\ reported' = [reported EXCEPT ![f] = [p \in Packages |-> "no"]]
    BY <1>8 DEF SaveAll
  <2>2. numbers \in [Items -> Number \cup {None}]  BY <1>t DEF Number, NoNumber, TypeInv
  <2> HIDE DEF numbers
  <2>3. new.shard = docs[f].shard /\ new.listed = docs[f].listed  BY <1>d, <2>2, EmptiedTyped
  <2>4. docs'[f] = new  BY <2>1, <1>t DEF TypeInv
  <2>5. \A g \in Files \ {f} : docs'[g] = docs[g] /\ writer'[g] = writer[g]
                               /\ reported'[g] = reported[g]
    BY <2>1, <1>t DEF TypeInv
  <2> HIDE DEF new
  <2>6. P(f)'  BY <2>1, <2>3, <2>4, <1>p
  <2> QED BY <1>u, <2>5, <2>6
<1>9. CASE UNCHANGED vars  BY <1>9, <1>p, <1>q DEF vars
<1> QED BY <1>1, <1>2, <1>3, <1>4, <1>5, <1>6, <1>7, <1>8, <1>9 DEF Next

(* Two whole files of one sharded gate are stamped for the shards whose items *)
(* they hold, so none holds what it does not own and no item is in two.       *)
LEMMA LegInvMerges == LegInv => LegsMerge
<1> SUFFICES ASSUME LegInv, NEW fs \in SUBSET Written,
                    \A f, g \in fs : f # g => docs[f].shard # docs[g].shard,
                    NotCut(fs)
             PROVE  Merges(fs)
  BY DEF LegsMerge
<1>1. fs \subseteq Files /\ \A f \in fs : docs[f] # Blank  BY DEF Written
<1>2. ASSUME Sharded, NEW f \in fs PROVE docs[f].shard # None
  BY <1>1, <1>2 DEF LegInv, UnstampedCut, NotCut
<1>3. ASSUME NEW f \in fs, NEW i \in Items, docs[f].shard # None, docs[f].items[i] # None
      PROVE  ShardOf[i] = docs[f].shard
  BY <1>1, <1>3 DEF LegInv, StampedHolds
<1>4. ASSUME ~Sharded, NEW f \in fs PROVE docs[f].shard = None
  BY <1>1, <1>4 DEF LegInv, StampedHolds
<1>5. ~Count(fs)  BY <1>2 DEF Count
<1>6. ~Corrupt(fs)  BY <1>2, <1>3, <1>4 DEF Corrupt, Owns, NoNumber
<1> QED BY <1>5, <1>6 DEF Merges

(* Whichever legs of one gate wrote, passed, failed or were killed, and to    *)
(* whichever file, the files of those that finished merge.                    *)
THEOREM WholeLegsMerge == Spec => []LegsMerge
<1>1. Spec => []LegInv  BY LegInit, LegStep, PTL DEF Spec
<1> QED BY <1>1, LegInvMerges, PTL

-----------------------------------------------------------------------------
(* What a file comes to once its writer is done, beside what packages list:   *)
(* who owns what, the numbers and entries, what each package's last save      *)
(* says, and whose shard it is.                                               *)
ViewOf(lists, doc, w, said) ==
  [list |-> lists,
   own  |-> [p \in Packages |-> OwnedBy(doc, p)],
   num  |-> doc.items,
   es   |-> doc.entries \cup (IF w.step = "append" THEN w.entries ELSE {}),
   says |-> [p \in Packages |-> IF w # Idle /\ w.package = p THEN w.how ELSE said[p]],
   leg  |-> IF doc.shard = None /\ w # Idle THEN w.shard ELSE doc.shard]

View(f) == ViewOf(code, docs[f], writer[f], reported[f])

Views == [list : [Packages -> SUBSET Items], own : [Packages -> SUBSET Items],
          num : [Items -> Number \cup {None}], es : SUBSET Entry, says : [Packages -> Outcomes], leg : Shards \cup {None}]

(* `r' accounts for `i': by an entry for all of it, or by its own number and  *)
(* entries for what that lacks.                                               *)
Named(es, r, i) == \E e \in es : e.package = r /\ i \in e.items /\ e.metrics = {}

Counted(es, num, r, i) ==
  /\ num[i] # None /\ num[i].by = r
  /\ \A m \in Metrics \ num[i].has :
       \E e \in es : e.package = r /\ i \in e.items /\ m \in e.metrics

Vouches(v, r, i) == Named(v.es, r, i) \/ Counted(v.es, v.num, r, i)

Ours(v, i) == Sharded => ShardOf[i] = v.leg

Holds(v, p, i) == i \in v.list[p] /\ i \in v.own[p]

(* Packages own nothing of another shard ...                                  *)
Placed(v) == v.leg # None => \A p \in Packages : \A i \in v.own[p] : Ours(v, i)

(* ... and, once listed, all they list of this one.                           *)
Owned(v) ==
  \A p \in Packages : v.says[p] = "listed" =>
    \A i \in v.list[p] : Ours(v, i) => i \in v.own[p]

(* For what a package lists and owns one that does too accounts, unless its   *)
(* own last save was cut.  It need not be the same: another package's save    *)
(* may replace the number and its mark may drop it.                           *)
Answers(v, r, i) == Holds(v, r, i) /\ (v.says[r] = "cut" \/ Vouches(v, r, i))

Answered(v) ==
  \A p \in Packages : \A i \in Items :
    v.says[p] \in {"listed", "unlisted"} /\ Holds(v, p, i)
      => \E r \in Packages : Answers(v, r, i)

Accounts(v) == Placed(v) /\ Owned(v) /\ Answered(v)

(* A package whose save is under way has not been reported, and its writer    *)
(* has no other's entries.                                                    *)
CutInv ==
  \A f \in Files : writer[f] # Idle =>
    /\ reported[f][writer[f].package] = "cut"
    /\ \A e \in writer[f].entries : e.package = writer[f].package

(* A shard's report comes with its stamp.                                     *)
StampInv ==
  Sharded => \A f \in Files, p \in Packages :
    reported[f][p] \in {"listed", "unlisted"} => docs[f].shard # None

AccountInv == LegInv /\ CutInv /\ StampInv /\ \A f \in Files : Accounts(View(f))

LEMMA ViewTyped ==
  ASSUME NEW lists \in [Packages -> SUBSET Items], NEW doc \in Docs,
         NEW w \in Writers \cup {Idle}, NEW said \in [Packages -> Outcomes]
  PROVE  ViewOf(lists, doc, w, said) \in Views
<1>1. [p \in Packages |-> OwnedBy(doc, p)] \in [Packages -> SUBSET Items]
  BY OwnersTyped
<1>2. /\ doc.items \in [Items -> Number \cup {None}] /\ doc.entries \in SUBSET Entry
      /\ doc.shard \in Shards \cup {None}
  BY DEF Docs
<1>3. w.step = "append" => w.entries \in SUBSET Entry
  BY DEF Writers, Idle
<1>4. w # Idle => w.how \in Outcomes /\ w.shard \in Shards
  BY DEF Writers
<1>5. [p \in Packages |-> IF w # Idle /\ w.package = p THEN w.how ELSE said[p]]
        \in [Packages -> Outcomes]
  BY <1>4
<1>6. (IF doc.shard = None /\ w # Idle THEN w.shard ELSE doc.shard) \in Shards \cup {None}
  BY <1>2, <1>4
<1> QED BY <1>1, <1>2, <1>3, <1>5, <1>6 DEF ViewOf, Views

LEMMA ViewsTyped ==
  ASSUME TypeInv, TypeInv', NEW f \in Files
  PROVE  View(f) \in Views /\ View(f)' \in Views
<1>1. View(f) \in Views
  <2>1. /\ code \in [Packages -> SUBSET Items] /\ docs[f] \in Docs
        /\ writer[f] \in Writers \cup {Idle} /\ reported[f] \in [Packages -> Outcomes]
    BY DEF TypeInv
  <2> QED BY <2>1, ViewTyped DEF View
<1>2. View(f)' \in Views
  <2>1. /\ code' \in [Packages -> SUBSET Items] /\ docs'[f] \in Docs
        /\ writer'[f] \in Writers \cup {Idle} /\ reported'[f] \in [Packages -> Outcomes]
    BY DEF TypeInv
  <2> QED BY <2>1, ViewTyped DEF View
<1> QED BY <1>1, <1>2

-----------------------------------------------------------------------------
(* A gate saves into its shard's file, or into one with nothing in it.        *)
Saves(v, w) ==
  Sharded => /\ w.leg # None /\ v.leg \in {None, w.leg}
             /\ v.leg = None => \A q \in Packages : v.own[q] = {} /\ v.says[q] \in {"no", "cut"}

LEMMA SavedPlaces ==
  ASSUME NEW v, NEW w, w.list = v.list, Saves(v, w), Accounts(v)
  PROVE  /\ \A q \in Packages : \A i \in v.own[q] : Ours(v, i) /\ Ours(w, i)
         /\ \A q \in Packages, i \in Items :
              v.says[q] = "listed" /\ i \in v.list[q] /\ Ours(w, i) => i \in v.own[q]
<1>1. Sharded /\ v.leg # None => v.leg = w.leg  BY DEF Saves
<1>2. ASSUME NEW q \in Packages, NEW i \in v.own[q] PROVE Ours(v, i) /\ Ours(w, i)
  <2>1. Sharded => v.leg # None  BY DEF Saves
  <2>2. Ours(v, i)  BY <2>1 DEF Accounts, Placed, Ours
  <2> QED BY <2>1, <2>2, <1>1 DEF Ours
<1>3. ASSUME NEW q \in Packages, NEW i \in Items, v.says[q] = "listed", i \in v.list[q], Ours(w, i)
      PROVE  i \in v.own[q]
  <2>1. Sharded => v.leg # None  BY <1>3 DEF Saves
  <2>2. Ours(v, i)  BY <2>1, <1>1, <1>3 DEF Ours
  <2> QED BY <1>3, <2>2 DEF Accounts, Owned
<1> QED BY <1>2, <1>3

(* `p' owns what it lists from here: all of it takes its numbers, or is       *)
(* named, and what is dropped is numbered and named by no other.              *)
Lists(v, w, p) ==
  /\ w.list = v.list
  /\ \A i \in Items : i \in w.own[p] <=> i \in v.list[p] /\ Ours(w, i)
  /\ \A q \in Packages \ {p} : w.own[q] = v.own[q] /\ w.says[q] = v.says[q]
  /\ \A i \in w.own[p] : Vouches(w, p, i)
  /\ \A r \in Packages \ {p} : \A i \in Items :
       i \in v.own[r] /\ i \notin w.own[p] /\ Vouches(v, r, i) => Vouches(w, r, i)

LEMMA WholeAccounts ==
  ASSUME NEW v \in Views, NEW w \in Views, NEW p \in Packages, Accounts(v), Saves(v, w),
         Lists(v, w, p)
  PROVE  Accounts(w)
<1> USE DEF Lists
<1>0. \A q \in Packages : v.own[q] \subseteq Items /\ w.own[q] \subseteq Items  BY DEF Views
<1>1. Placed(w)
  <2> SUFFICES ASSUME NEW q \in Packages, NEW i \in w.own[q] PROVE Ours(w, i)
    BY DEF Placed
  <2>1. CASE q = p  BY <2>1, <1>0
  <2>2. CASE q # p  BY <2>2, SavedPlaces
  <2> QED BY <2>1, <2>2
<1>2. Owned(w)
  <2> SUFFICES ASSUME NEW q \in Packages, w.says[q] = "listed", NEW i \in w.list[q], Ours(w, i)
               PROVE  i \in w.own[q]
    BY DEF Owned
  <2>0. i \in Items  BY DEF Views
  <2>1. CASE q = p  BY <2>0, <2>1
  <2>2. CASE q # p  BY <2>0, <2>2, SavedPlaces
  <2> QED BY <2>1, <2>2
<1>3. Answered(w)
  <2> SUFFICES ASSUME NEW q \in Packages, NEW i \in Items,
                      w.says[q] \in {"listed", "unlisted"}, Holds(w, q, i)
               PROVE  \E r \in Packages : Answers(w, r, i)
    BY DEF Answered
  <2>1. CASE i \in w.own[p]
    <3>1. Answers(w, p, i)  BY <2>1 DEF Answers, Holds
    <3> QED BY <3>1
  <2>2. CASE i \notin w.own[p]
    <3>1. q # p /\ v.says[q] = w.says[q] /\ Holds(v, q, i)  BY <2>2 DEF Holds
    <3>2. PICK r \in Packages : Answers(v, r, i)  BY <3>1 DEF Accounts, Answered
    <3>3. r # p
      <4> SUFFICES ASSUME r = p PROVE FALSE  OBVIOUS
      <4>1. i \in v.list[p] /\ i \in v.own[p]  BY <3>2 DEF Answers, Holds
      <4>2. Ours(w, i)  BY <4>1, SavedPlaces
      <4> QED BY <4>1, <4>2, <2>2
    <3>4. Answers(w, r, i)  BY <3>2, <3>3, <2>2 DEF Answers, Holds
    <3> QED BY <3>4
  <2> QED BY <2>1, <2>2
<1> QED BY <1>1, <1>2, <1>3 DEF Accounts

(* `p' adds to what it owns, or answers for all of it without its listing,    *)
(* and for everything that was answered for somebody still does.              *)
Adds(v, w, p) ==
  /\ w.list = v.list /\ v.own[p] \subseteq w.own[p]
  /\ \A i \in w.own[p] \ v.own[p] : Ours(w, i) /\ Vouches(w, p, i)
  /\ \A q \in Packages \ {p} : w.own[q] = v.own[q] /\ w.says[q] = v.says[q]
  /\ \/ w.says[p] = v.says[p]
     \/ w.says[p] = "unlisted" /\ \A i \in w.own[p] : Vouches(w, p, i)
  /\ \A r \in Packages : \A i \in Items :
       Answers(v, r, i) => \E q \in Packages : Answers(w, q, i)

LEMMA PartAccounts ==
  ASSUME NEW v \in Views, NEW w \in Views, NEW p \in Packages, Accounts(v), Saves(v, w),
         Adds(v, w, p)
  PROVE  Accounts(w)
<1> USE DEF Adds
<1>0. \A q \in Packages : v.own[q] \subseteq Items /\ w.own[q] \subseteq Items  BY DEF Views
<1>1. Placed(w)
  <2> SUFFICES ASSUME NEW q \in Packages, NEW i \in w.own[q] PROVE Ours(w, i)
    BY DEF Placed
  <2>1. CASE i \in v.own[q]  BY <2>1, SavedPlaces
  <2>2. CASE i \notin v.own[q]  BY <2>2
  <2> QED BY <2>1, <2>2
<1>2. Owned(w)
  <2> SUFFICES ASSUME NEW q \in Packages, w.says[q] = "listed", NEW i \in w.list[q], Ours(w, i)
               PROVE  i \in w.own[q]
    BY DEF Owned
  <2>1. v.says[q] = "listed" /\ i \in Items  BY DEF Views
  <2>2. i \in v.own[q]  BY <2>1, SavedPlaces
  <2> QED BY <2>2
<1>3. Answered(w)
  <2> SUFFICES ASSUME NEW q \in Packages, NEW i \in Items,
                      w.says[q] \in {"listed", "unlisted"}, Holds(w, q, i)
               PROVE  \E r \in Packages : Answers(w, r, i)
    BY DEF Answered
  <2>1. CASE q = p /\ Vouches(w, p, i)
    <3>1. Answers(w, p, i)  BY <2>1 DEF Answers
    <3> QED BY <3>1
  <2>2. CASE ~(q = p /\ Vouches(w, p, i))
    <3>1. v.says[q] = w.says[q] /\ i \in v.own[q]  BY <2>2 DEF Holds
    <3>2. Holds(v, q, i)  BY <3>1 DEF Holds
    <3>3. PICK r \in Packages : Answers(v, r, i)  BY <3>1, <3>2 DEF Accounts, Answered
    <3> QED BY <3>3
  <2> QED BY <2>1, <2>2
<1> QED BY <1>1, <1>2, <1>3 DEF Accounts

(* A killed writer takes its package's last entries with it, and its report.  *)
LEMMA CutAccounts ==
  ASSUME NEW v \in Views, NEW w \in Views, NEW p \in Packages, Accounts(v),
         w.list = v.list, w.own = v.own, w.num = v.num, w.es \subseteq v.es,
         \A e \in v.es : e \in w.es \/ e.package = p,
         w.says[p] = "cut", \A q \in Packages \ {p} : w.says[q] = v.says[q],
         Sharded => w.leg \in {None, v.leg},
         Sharded /\ w.leg = None => \A q \in Packages : w.says[q] # "listed"
  PROVE  Accounts(w)
<1>0. Sharded /\ w.leg # None => w.leg = v.leg  OBVIOUS
<1>1. Placed(w)
  BY <1>0 DEF Accounts, Placed, Ours
<1>2. Owned(w)
  <2> SUFFICES ASSUME NEW q \in Packages, w.says[q] = "listed", NEW i \in w.list[q], Ours(w, i)
               PROVE  i \in w.own[q]
    BY DEF Owned
  <2>1. v.says[q] = "listed" /\ Ours(v, i)  BY <1>0 DEF Ours
  <2> QED BY <2>1 DEF Accounts, Owned
<1>3. Answered(w)
  <2> SUFFICES ASSUME NEW q \in Packages, NEW i \in Items,
                      w.says[q] \in {"listed", "unlisted"}, Holds(w, q, i)
               PROVE  \E r \in Packages : Answers(w, r, i)
    BY DEF Answered
  <2>1. v.says[q] = w.says[q] /\ Holds(v, q, i)  BY DEF Holds
  <2>2. PICK r \in Packages : Answers(v, r, i)  BY <2>1 DEF Accounts, Answered
  <2>3. Holds(w, r, i)  BY <2>2 DEF Answers, Holds
  <2>4. CASE r = p  BY <2>3, <2>4 DEF Answers
  <2>5. CASE r # p
    <3>1. Vouches(v, r, i) => Vouches(w, r, i)
      <4>1. Named(v.es, r, i) => Named(w.es, r, i)  BY <2>5 DEF Named
      <4>2. Counted(v.es, v.num, r, i) => Counted(w.es, w.num, r, i)  BY <2>5 DEF Counted
      <4> QED BY <4>1, <4>2 DEF Vouches
    <3>2. Answers(w, r, i)  BY <2>2, <2>3, <2>5, <3>1 DEF Answers
    <3> QED BY <3>2
  <2> QED BY <2>4, <2>5
<1> QED BY <1>1, <1>2, <1>3 DEF Accounts

-----------------------------------------------------------------------------
(* What a save leaves out of an item's numbers it names.                      *)
LEMMA MaterialNames ==
  ASSUME NEW p \in Packages, NEW measured \in SUBSET Items, NEW reused \in SUBSET measured,
         NEW uncounted \in BOOLEAN
  PROVE  /\ \A i \in measured : \A m \in Metrics \ Kept(i, reused, uncounted) :
              \E e \in Material(p, measured, reused, uncounted) :
                e.package = p /\ i \in e.items /\ m \in e.metrics
         /\ \A e \in Material(p, measured, reused, uncounted) :
              e \in Entry /\ e.package = p /\ e.items \subseteq measured
<1> DEFINE E1 == [package |-> p, reason |-> "reused-walltime", items |-> reused,
                  metrics |-> {"walltime"}]
           E2 == [package |-> p, reason |-> "identical-binaries",
                  items |-> IF uncounted THEN measured ELSE {}, metrics |-> {"counters"}]
<1>1. \A e : e \in Material(p, measured, reused, uncounted) <=> e \in {E1, E2} /\ e.items # {}
  BY DEF Material
<1>2. ASSUME NEW i \in measured, NEW m \in Metrics \ Kept(i, reused, uncounted)
      PROVE  \E e \in Material(p, measured, reused, uncounted) :
               e.package = p /\ i \in e.items /\ m \in e.metrics
  <2>1. \/ m = "walltime" /\ i \in reused
        \/ m = "counters" /\ uncounted
    BY DEF Metrics, Kept
  <2>2. CASE m = "walltime" /\ i \in reused
    <3>1. E1 \in Material(p, measured, reused, uncounted)  BY <1>1, <2>2
    <3> QED BY <3>1, <2>2
  <2>3. CASE m = "counters" /\ uncounted
    <3>1. E2 \in Material(p, measured, reused, uncounted)  BY <1>1, <2>3
    <3> QED BY <3>1, <2>3
  <2> QED BY <2>1, <2>2, <2>3
<1>3. E1 \in Entry /\ E2 \in Entry  BY DEF Entry, Reasons, Metrics
<1>4. ASSUME NEW e \in Material(p, measured, reused, uncounted)
      PROVE  e \in Entry /\ e.package = p /\ e.items \subseteq measured
  <2>1. e = E1 \/ e = E2  BY <1>1
  <2>2. CASE e = E1  BY <2>2, <1>3
  <2>3. CASE e = E2  BY <2>3, <1>3
  <2> QED BY <2>1, <2>2, <2>3
<1> QED BY <1>2, <1>4

(* A shard is saved into its own file or into one with nothing in it.         *)
LEMMA CheckedSaves ==
  ASSUME AccountInv, NEW f \in Files, NEW s \in Shards, CheckShard(docs[f], s), writer[f] = Idle,
         NEW w, Sharded => w.leg = IF docs[f].shard = None THEN s ELSE docs[f].shard
  PROVE  Saves(View(f), w) /\ (Sharded => w.leg = s)
<1>0. s # None  BY NoneApart
<1>1. View(f).leg = docs[f].shard /\ \A q \in Packages :
        View(f).says[q] = reported[f][q] /\ View(f).own[q] = OwnedBy(docs[f], q)
  BY DEF View, ViewOf
<1>2. Sharded => w.leg = s
  <2>1. Sharded /\ docs[f].shard # None => docs[f].shard = s  BY DEF CheckShard
  <2> QED BY <2>1
<1>3. ASSUME Sharded, docs[f].shard = None, NEW q \in Packages
      PROVE  OwnedBy(docs[f], q) = {} /\ reported[f][q] \in {"no", "cut"}
  <2>1. ~IsRust(docs[f])  BY <1>0, <1>3 DEF CheckShard
  <2>2. docs[f].owners = None  BY <2>1 DEF IsRust
  <2>3. OwnedBy(docs[f], q) = {}  BY <2>2 DEF OwnedBy, OwnersOf
  <2>4. reported[f][q] \in Outcomes  BY DEF AccountInv, LegInv, TypeInv
  <2>5. reported[f][q] \in {"no", "cut"}  BY <2>4, <1>3 DEF AccountInv, StampInv, Outcomes
  <2> QED BY <2>3, <2>5
<1> QED BY <1>0, <1>1, <1>2, <1>3 DEF Saves

(* What a save makes of its file, and of nothing else.                        *)
SavesFile(f, s, p, filter, reuse, uncounted) ==
  LET measured == Measured(s, p, filter)
      material == Material(p, measured, measured \cap reuse, uncounted)
  IN
  /\ SavedOf(docs'[f], docs[f], p, filter = Items, measured, measured \cap reuse, uncounted)
  /\ measured \in SUBSET Items /\ code' = code
  /\ writer[f] = Idle /\ CheckShard(docs[f], s) /\ writer'[f] # Idle
  /\ writer'[f].entries = material /\ writer'[f].package = p
  /\ reported'[f][p] = "cut" /\ \A q \in Packages \ {p} : reported'[f][q] = reported[f][q]
  /\ \A g \in Files \ {f} : docs'[g] = docs[g] /\ writer'[g] = writer[g]
                            /\ reported'[g] = reported[g]
  /\ View(f)'.list = View(f).list /\ View(f)'.es = docs'[f].entries \cup material
  /\ View(f)'.says[p] = Outcome(f, p, filter, "listed")
  /\ \A q \in Packages \ {p} : View(f)'.says[q] = View(f).says[q]
  /\ View(f)'.leg = IF docs'[f].shard = None THEN s ELSE docs'[f].shard

LEMMA SaveView ==
  ASSUME TypeInv, TypeInv', NEW f \in Files, NEW s \in Shards, NEW p \in Packages,
         NEW filter \in Filters, NEW reuse \in Reuses, NEW uncounted \in BOOLEAN,
         Save(f, s, p, filter, reuse, uncounted)
  PROVE  SavesFile(f, s, p, filter, reuse, uncounted)
<1> DEFINE measured == Measured(s, p, filter)
           reused == measured \cap reuse
<1>1. measured \in SUBSET Items /\ reused \in SUBSET measured  BY DEF TypeInv, Measured
<1>2. /\ docs' = [docs EXCEPT ![f] =
            Saved(docs[f], p, filter = Items, measured, reused, uncounted)]
      /\ writer' = [writer EXCEPT ![f] =
           [step |-> "append", shard |-> s, package |-> p,
            entries |-> Material(p, measured, reused, uncounted),
            ids |-> code[p] \cap filter, how |-> Outcome(f, p, filter, "listed")]]
      /\ reported' = [reported EXCEPT ![f][p] = "cut"]
      /\ writer[f] = Idle /\ CheckShard(docs[f], s) /\ code' = code
  BY DEF Save, MayReport, Reports
<1>3. /\ docs \in [Files -> Docs] /\ writer \in [Files -> Writers \cup {Idle}]
      /\ reported \in [Files -> [Packages -> Outcomes]]
  BY DEF TypeInv
<1>4. writer'[f] = [step |-> "append", shard |-> s, package |-> p,
            entries |-> Material(p, measured, reused, uncounted),
            ids |-> code[p] \cap filter, how |-> Outcome(f, p, filter, "listed")]
  BY <1>2, <1>3
<1>5. /\ writer'[f].step = "append" /\ writer'[f].shard = s /\ writer'[f].package = p
      /\ writer'[f].entries = Material(p, measured, reused, uncounted)
      /\ writer'[f].how = Outcome(f, p, filter, "listed") /\ writer'[f] # Idle
  BY <1>4 DEF Idle
<1>6. SavedOf(docs'[f], docs[f], p, filter = Items, measured, reused, uncounted)
  <2>1. docs'[f] = Saved(docs[f], p, filter = Items, measured, reused, uncounted)
    BY <1>2, <1>3
  <2>2. reused \in SUBSET Items /\ docs[f] \in Docs  BY <1>1, <1>3
  <2> HIDE DEF measured, reused
  <2>3. SavedOf(Saved(docs[f], p, filter = Items, measured, reused, uncounted),
                docs[f], p, filter = Items, measured, reused, uncounted)
    BY <1>1, <2>2, SavedParts
  <2> QED BY <2>1, <2>3
<1>7. reported'[f][p] = "cut" /\ \A q \in Packages \ {p} : reported'[f][q] = reported[f][q]
  BY <1>2, <1>3
<1>8. \A g \in Files \ {f} : docs'[g] = docs[g] /\ writer'[g] = writer[g]
                             /\ reported'[g] = reported[g]
  BY <1>2, <1>3
<1>9. /\ View(f)'.list = View(f).list
      /\ View(f)'.es = docs'[f].entries \cup Material(p, measured, reused, uncounted)
      /\ View(f)'.says[p] = Outcome(f, p, filter, "listed")
      /\ \A q \in Packages \ {p} : View(f)'.says[q] = View(f).says[q]
      /\ View(f)'.leg = IF docs'[f].shard = None THEN s ELSE docs'[f].shard
  <2>1. View(f)'.list = View(f).list  BY <1>2 DEF View, ViewOf
  <2>2. View(f)'.es = docs'[f].entries \cup Material(p, measured, reused, uncounted)
    BY <1>5 DEF View, ViewOf
  <2>3. View(f)'.says[p] = Outcome(f, p, filter, "listed")  BY <1>5 DEF View, ViewOf
  <2>4. \A q \in Packages \ {p} : View(f)'.says[q] = View(f).says[q]
    BY <1>2, <1>5, <1>7 DEF View, ViewOf
  <2>5. View(f)'.leg = IF docs'[f].shard = None THEN s ELSE docs'[f].shard
    BY <1>5 DEF View, ViewOf
  <2> QED BY <2>1, <2>2, <2>3, <2>4, <2>5
<1> QED BY <1>1, <1>2, <1>5, <1>6, <1>7, <1>8, <1>9 DEF SavesFile

LEMMA SaveAccounts ==
  ASSUME AccountInv, TypeInv', NEW f \in Files, NEW s \in Shards, NEW p \in Packages,
         NEW filter \in Filters, NEW reuse \in Reuses, NEW uncounted \in BOOLEAN,
         Save(f, s, p, filter, reuse, uncounted)
  PROVE  Accounts(View(f)')
<1> DEFINE v == View(f)
           w == View(f)'
           measured == Measured(s, p, filter)
           reused == measured \cap reuse
           full == filter = Items
           material == Material(p, measured, reused, uncounted)
<1>0. SavesFile(f, s, p, filter, reuse, uncounted)
  <2>1. TypeInv  BY DEF AccountInv, LegInv
  <2> QED BY <2>1, SaveView
<1>1. /\ measured \in SUBSET Items /\ reused \in SUBSET measured
      /\ writer[f] = Idle /\ CheckShard(docs[f], s)
      /\ w.list = v.list /\ w.es = docs'[f].entries \cup material
      /\ w.says[p] = Outcome(f, p, filter, "listed")
      /\ \A q \in Packages \ {p} : w.says[q] = v.says[q]
      /\ w.leg = IF docs'[f].shard = None THEN s ELSE docs'[f].shard
  BY <1>0 DEF SavesFile
<1>2. TypeInv /\ docs[f] \in Docs /\ v \in Views /\ w \in Views /\ Accounts(v)
  <2>1. v \in Views /\ w \in Views  BY ViewsTyped DEF AccountInv, LegInv
  <2> QED BY <2>1 DEF AccountInv, LegInv, TypeInv
<1>3. /\ docs'[f] \in Docs /\ docs'[f].shard = docs[f].shard
      /\ \A i \in Items : docs'[f].items[i] =
           IF i \in measured THEN [by |-> p, has |-> Kept(i, reused, uncounted), at |-> commit]
           ELSE IF full /\ i \in Prior(docs[f], p) THEN None ELSE docs[f].items[i]
      /\ docs'[f].entries = {e \in docs[f].entries : ~full \/ e.package # p}
      /\ OwnedBy(docs'[f], p) = measured \cup (IF full THEN {} ELSE OwnedBy(docs[f], p))
      /\ \A q \in Packages \ {p} : OwnedBy(docs'[f], q) = OwnedBy(docs[f], q)
  BY <1>0 DEF SavesFile, SavedOf
<1>4. /\ \A q \in Packages : v.own[q] = OwnedBy(docs[f], q) /\ w.own[q] = OwnedBy(docs'[f], q)
      /\ v.num = docs[f].items /\ w.num = docs'[f].items
      /\ v.es = docs[f].entries /\ v.leg = docs[f].shard /\ v.list = code
      /\ \A q \in Packages : v.says[q] = reported[f][q]
  BY <1>1 DEF View, ViewOf, Idle
<1>5. Saves(v, w) /\ (Sharded => w.leg = s)
  <2>1. Sharded => w.leg = IF docs[f].shard = None THEN s ELSE docs[f].shard
    BY <1>1, <1>3
  <2> HIDE DEF w
  <2> QED BY <2>1, <1>1, CheckedSaves
<1>6. \A i \in measured : Ours(w, i) /\ i \in code[p]
  BY <1>5 DEF Ours, Owns, Measured
<1>7. ASSUME full, NEW i \in Items PROVE i \in measured <=> i \in code[p] /\ Ours(w, i)
  BY <1>5, <1>7 DEF Ours, Owns, Measured
<1>8. /\ \A i \in measured : \A m \in Metrics \ Kept(i, reused, uncounted) :
           \E e \in material : e.package = p /\ i \in e.items /\ m \in e.metrics
      /\ \A e \in material : e.package = p
  <2> HIDE DEF measured, reused
  <2> QED BY <1>1, MaterialNames
<1> HIDE DEF v, w, measured, reused, material
<1>9. \A i \in measured : Vouches(w, p, i)
  <2> SUFFICES ASSUME NEW i \in measured PROVE Counted(w.es, w.num, p, i)
    BY DEF Vouches
  <2>1. i \in Items /\ w.num[i] = [by |-> p, has |-> Kept(i, reused, uncounted), at |-> commit]
    BY <1>1, <1>3, <1>4
  <2>2. w.num[i] # None
    <3>1. w.num[i] \in Number
      <4>1. Kept(i, reused, uncounted) \subseteq Metrics  BY DEF Kept, Metrics
      <4>2. commit \in 0..MaxCommits  BY <1>2 DEF TypeInv
      <4> QED BY <2>1, <4>1, <4>2 DEF Number
    <3> QED BY <3>1, NoneApart
  <2>3. w.num[i].by = p /\ w.num[i].has = Kept(i, reused, uncounted)  BY <2>1
  <2>4. \A m \in Metrics \ w.num[i].has :
          \E e \in w.es : e.package = p /\ i \in e.items /\ m \in e.metrics
    BY <2>3, <1>1, <1>8
  <2> QED BY <2>2, <2>3, <2>4 DEF Counted
<1>10. ASSUME NEW r \in Packages, NEW i \in Items, i \in v.own[r], i \notin measured,
              r # p \/ ~full, Vouches(v, r, i)
       PROVE  Vouches(w, r, i)
  <2>1. \A e \in v.es : e.package = r => e \in w.es
    BY <1>1, <1>3, <1>4, <1>10
  <2>2. w.num[i] = v.num[i]
    <3>1. ~(full /\ i \in Prior(docs[f], p))
      <4> SUFFICES ASSUME full, i \in Prior(docs[f], p) PROVE FALSE  OBVIOUS
      <4>1. r # p /\ i \in OwnedBy(docs[f], r)  BY <1>4, <1>10
      <4>2. i \in OwnedByOthers(docs[f], p)  BY <4>1 DEF OwnedBy, OwnedByOthers
      <4> QED BY <4>2 DEF Prior
    <3> QED BY <3>1, <1>3, <1>4, <1>10
  <2>3. Named(v.es, r, i) => Named(w.es, r, i)  BY <2>1 DEF Named
  <2>4. Counted(v.es, v.num, r, i) => Counted(w.es, w.num, r, i)  BY <2>1, <2>2 DEF Counted
  <2> QED BY <1>10, <2>3, <2>4 DEF Vouches
<1>11. CASE full
  <2>1. w.own[p] = measured  BY <1>3, <1>4, <1>11
  <2>2. \A q \in Packages \ {p} : w.own[q] = v.own[q] /\ w.says[q] = v.says[q]
    BY <1>1, <1>3, <1>4
  <2>3. \A i \in Items : i \in w.own[p] <=> i \in v.list[p] /\ Ours(w, i)
    BY <2>1, <1>4, <1>7, <1>11
  <2>4. \A i \in w.own[p] : Vouches(w, p, i)  BY <2>1, <1>9
  <2>5. \A r \in Packages \ {p} : \A i \in Items :
          i \in v.own[r] /\ i \notin w.own[p] /\ Vouches(v, r, i) => Vouches(w, r, i)
    BY <2>1, <1>10
  <2>6. Lists(v, w, p)  BY <2>2, <2>3, <2>4, <2>5, <1>1 DEF Lists
  <2>7. Accounts(w)  BY <2>6, <1>2, <1>5, WholeAccounts
  <2> QED BY <2>7 DEF w
<1>12. CASE ~full
  <2>1. w.own[p] = measured \cup v.own[p]  BY <1>3, <1>4, <1>12
  <2>2. \A q \in Packages \ {p} : w.own[q] = v.own[q] /\ w.says[q] = v.says[q]
    BY <1>1, <1>3, <1>4
  <2>3. w.says[p] = v.says[p]  BY <1>1, <1>4, <1>12 DEF Outcome
  <2>4. \A i \in w.own[p] \ v.own[p] : Ours(w, i) /\ Vouches(w, p, i)
    BY <2>1, <1>6, <1>9
  <2>5. ASSUME NEW r \in Packages, NEW i \in Items, Answers(v, r, i)
        PROVE  \E q \in Packages : Answers(w, q, i)
    <3>1. CASE i \in measured
      <4>1. Holds(w, p, i)  BY <3>1, <2>1, <1>1, <1>4, <1>6 DEF Holds
      <4>2. Answers(w, p, i)  BY <3>1, <4>1, <1>9 DEF Answers
      <4> QED BY <4>2
    <3>2. CASE i \notin measured
      <4>1. Holds(w, r, i) /\ w.says[r] = v.says[r] /\ i \in v.own[r]
        BY <2>1, <2>2, <2>3, <2>5, <1>1 DEF Answers, Holds
      <4>2. Answers(w, r, i)  BY <4>1, <2>5, <3>2, <1>10, <1>12 DEF Answers
      <4> QED BY <4>2
    <3> QED BY <3>1, <3>2
  <2>6. Adds(v, w, p)  BY <2>1, <2>2, <2>3, <2>4, <2>5, <1>1 DEF Adds
  <2>7. Accounts(w)  BY <2>6, <1>2, <1>5, PartAccounts
  <2> QED BY <2>7 DEF w
<1> QED BY <1>11, <1>12

(* A mark names what it can: the listing it read, or what its package owned.  *)
MarkedIds(f, s, p, filter, readListing) ==
  LET listed == IF readListing THEN code[p] \cap filter ELSE {} IN
  IF readListing THEN IF Sharded THEN OwnedHere(s, listed) ELSE listed
  ELSE OwnedBy(docs[f], p) \cap filter

(* What a mark makes of its file, and of nothing else.                        *)
MarksFile(f, s, p, filter, readListing) ==
  LET ids == MarkedIds(f, s, p, filter, readListing)
      how == Outcome(f, p, filter, IF readListing THEN "listed" ELSE "unlisted")
  IN
  /\ MarkedOf(docs'[f], docs[f], p, filter = Items, ids)
  /\ ids \in SUBSET Items /\ code' = code
  /\ writer[f] = Idle /\ CheckShard(docs[f], s)
  /\ IF Sharded
     THEN /\ reported'[f][p] = "cut" /\ writer'[f] # Idle
          /\ writer'[f].entries = {} /\ writer'[f].package = p
     ELSE reported'[f][p] = how /\ writer'[f] = Idle
  /\ \A q \in Packages \ {p} : reported'[f][q] = reported[f][q]
  /\ \A g \in Files \ {f} : docs'[g] = docs[g] /\ writer'[g] = writer[g]
                            /\ reported'[g] = reported[g]
  /\ View(f)'.list = View(f).list /\ View(f)'.es = docs'[f].entries
  /\ View(f)'.says[p] = how
  /\ \A q \in Packages \ {p} : View(f)'.says[q] = View(f).says[q]
  /\ Sharded => View(f)'.leg = IF docs'[f].shard = None THEN s ELSE docs'[f].shard

LEMMA MarkView ==
  ASSUME TypeInv, TypeInv', NEW f \in Files, NEW s \in Shards, NEW p \in Packages,
         NEW filter \in Filters, NEW readListing \in BOOLEAN, Mark(f, s, p, filter, readListing)
  PROVE  MarksFile(f, s, p, filter, readListing)
<1> DEFINE listed == IF readListing THEN code[p] \cap filter ELSE {}
           ids == MarkedIds(f, s, p, filter, readListing)
           how == Outcome(f, p, filter, IF readListing THEN "listed" ELSE "unlisted")
<1>1. /\ docs' = [docs EXCEPT ![f] = Marked(docs[f], p, filter = Items, ids)]
      /\ IF Sharded
         THEN /\ writer' = [writer EXCEPT ![f] =
                   [step |-> "stamp", shard |-> s, package |-> p, entries |-> {},
                    ids |-> listed, how |-> how]]
              /\ reported' = [reported EXCEPT ![f][p] = "cut"]
         ELSE reported' = [reported EXCEPT ![f][p] = how] /\ writer' = writer
      /\ writer[f] = Idle /\ CheckShard(docs[f], s) /\ code' = code
  BY DEF Mark, MayReport, Reports, MarkedIds
<1>2. /\ docs \in [Files -> Docs] /\ writer \in [Files -> Writers \cup {Idle}]
      /\ reported \in [Files -> [Packages -> Outcomes]]
      /\ code \in [Packages -> SUBSET Items]
  BY DEF TypeInv
<1>3. docs[f] \in Docs /\ ids \in SUBSET Items
  <2>1. OwnedBy(docs[f], p) \in SUBSET Items  BY <1>2, OwnersTyped
  <2> QED BY <2>1, <1>2 DEF MarkedIds, OwnedHere
<1> HIDE DEF ids, how, listed
<1>4. MarkedOf(docs'[f], docs[f], p, filter = Items, ids)
  <2>1. docs'[f] = Marked(docs[f], p, filter = Items, ids)  BY <1>1, <1>2
  <2>2. MarkedOf(Marked(docs[f], p, filter = Items, ids), docs[f], p, filter = Items, ids)
    <3>1. (filter = Items) \in BOOLEAN  OBVIOUS
    <3> QED BY <1>3, <3>1, MarkedParts
  <2> QED BY <2>1, <2>2
<1>5. ASSUME Sharded
      PROVE  /\ writer'[f] = [step |-> "stamp", shard |-> s, package |-> p, entries |-> {},
                              ids |-> listed, how |-> how]
             /\ reported'[f][p] = "cut"
  BY <1>1, <1>2, <1>5
<1>6. ASSUME Sharded
      PROVE  /\ writer'[f].step = "stamp" /\ writer'[f].shard = s /\ writer'[f].package = p
             /\ writer'[f].entries = {} /\ writer'[f].how = how /\ writer'[f] # Idle
  BY <1>5, <1>6 DEF Idle
<1>7. ASSUME ~Sharded PROVE writer'[f] = Idle /\ reported'[f][p] = how
  BY <1>1, <1>2, <1>7
<1>8. /\ \A q \in Packages \ {p} : reported'[f][q] = reported[f][q]
      /\ \A g \in Files \ {f} : docs'[g] = docs[g] /\ writer'[g] = writer[g]
                                /\ reported'[g] = reported[g]
  BY <1>1, <1>2
<1>9. View(f)'.list = View(f).list  BY <1>1 DEF View, ViewOf
<1>10. View(f)'.es = docs'[f].entries  BY <1>6, <1>7 DEF View, ViewOf, Idle
<1>11. View(f)'.says[p] = how  BY <1>6, <1>7 DEF View, ViewOf
<1>12. \A q \in Packages \ {p} : View(f)'.says[q] = View(f).says[q]
  BY <1>1, <1>6, <1>7, <1>8 DEF View, ViewOf
<1>13. Sharded => View(f)'.leg = IF docs'[f].shard = None THEN s ELSE docs'[f].shard
  BY <1>6 DEF View, ViewOf
<1> QED
  BY <1>1, <1>3, <1>4, <1>5, <1>6, <1>7, <1>8, <1>9, <1>10, <1>11, <1>12, <1>13
  DEF MarksFile, ids, how

LEMMA MarkAccounts ==
  ASSUME AccountInv, TypeInv', NEW f \in Files, NEW s \in Shards, NEW p \in Packages,
         NEW filter \in Filters, NEW readListing \in BOOLEAN, Mark(f, s, p, filter, readListing)
  PROVE  Accounts(View(f)')
<1> DEFINE v == View(f)
           w == View(f)'
           whole == filter = Items
           ids == MarkedIds(f, s, p, filter, readListing)
           entry == [package |-> p, reason |-> "gate-failed", items |-> ids, metrics |-> {}]
<1>0. MarksFile(f, s, p, filter, readListing)
  <2>1. TypeInv  BY DEF AccountInv, LegInv
  <2> QED BY <2>1, MarkView
<1>1. /\ ids \in SUBSET Items /\ writer[f] = Idle /\ CheckShard(docs[f], s)
      /\ w.list = v.list /\ w.es = docs'[f].entries
      /\ w.says[p] = Outcome(f, p, filter, IF readListing THEN "listed" ELSE "unlisted")
      /\ \A q \in Packages \ {p} : w.says[q] = v.says[q]
      /\ Sharded => w.leg = IF docs'[f].shard = None THEN s ELSE docs'[f].shard
  BY <1>0 DEF MarksFile
<1>2. TypeInv /\ docs[f] \in Docs /\ v \in Views /\ w \in Views /\ Accounts(v)
  <2>1. v \in Views /\ w \in Views  BY ViewsTyped DEF AccountInv, LegInv
  <2> QED BY <2>1 DEF AccountInv, LegInv, TypeInv
<1>3. /\ docs'[f] \in Docs /\ docs'[f].shard = docs[f].shard
      /\ \A i \in Items : docs'[f].items[i] =
           IF i \in (ids \cup (IF whole THEN OwnedBy(docs[f], p) ELSE {})) \ Theirs(docs[f], p)
           THEN None ELSE docs[f].items[i]
      /\ docs'[f].entries = {e \in docs[f].entries : ~whole \/ e.package # p} \cup {entry}
      /\ OwnedBy(docs'[f], p) = IF whole THEN ids ELSE OwnedBy(docs[f], p)
      /\ \A q \in Packages \ {p} : OwnedBy(docs'[f], q) = OwnedBy(docs[f], q)
  BY <1>0 DEF MarksFile, MarkedOf
<1>4. /\ \A q \in Packages : v.own[q] = OwnedBy(docs[f], q) /\ w.own[q] = OwnedBy(docs'[f], q)
      /\ v.num = docs[f].items /\ w.num = docs'[f].items
      /\ v.es = docs[f].entries /\ v.leg = docs[f].shard /\ v.list = code
      /\ \A q \in Packages : v.says[q] = reported[f][q]
  BY <1>1 DEF View, ViewOf, Idle
<1>5. Saves(v, w) /\ (Sharded => w.leg = s)
  <2>1. Sharded => w.leg = IF docs[f].shard = None THEN s ELSE docs[f].shard
    BY <1>1, <1>3
  <2> HIDE DEF w
  <2> QED BY <2>1, <1>1, CheckedSaves
<1>6. \A i \in ids : readListing => i \in code[p] /\ Ours(w, i)
  BY <1>5 DEF MarkedIds, OwnedHere, Owns, Ours
<1>7. ASSUME whole, readListing, NEW i \in Items PROVE i \in ids <=> i \in code[p] /\ Ours(w, i)
  BY <1>5, <1>7 DEF MarkedIds, OwnedHere, Owns, Ours
<1>8. whole /\ ~readListing => ids = v.own[p]
  <2>1. OwnedBy(docs[f], p) \in SUBSET Items  BY <1>2, OwnersTyped
  <2> QED BY <2>1, <1>4 DEF MarkedIds
<1>9. entry \in w.es /\ entry.package = p /\ entry.items = ids /\ entry.metrics = {}
  BY <1>1, <1>3
<1> HIDE DEF v, w, ids, entry
<1>10. \A i \in ids : Vouches(w, p, i)
  BY <1>9 DEF Vouches, Named
<1>11. ASSUME NEW r \in Packages, NEW i \in Items, i \in v.own[r], i \notin ids \/ r # p,
              r # p \/ ~whole, Vouches(v, r, i)
       PROVE  Vouches(w, r, i)
  <2>1. \A e \in v.es : e.package = r => e \in w.es
    BY <1>1, <1>3, <1>4, <1>11
  <2>2. Named(v.es, r, i) => Named(w.es, r, i)  BY <2>1 DEF Named
  <2>3. ASSUME Counted(v.es, v.num, r, i) PROVE Counted(w.es, w.num, r, i)
    <3>1. v.num[i] # None /\ v.num[i].by = r  BY <2>3 DEF Counted
    <3>2. w.num[i] = v.num[i]
      <4>1. CASE r = p  BY <4>1, <1>3, <1>4, <1>11
      <4>2. CASE r # p
        <5>1. i \in OwnedByOthers(docs[f], p)
          BY <4>2, <1>4, <1>11 DEF OwnedBy, OwnedByOthers
        <5>2. i \in Theirs(docs[f], p)  BY <5>1, <4>2, <3>1, <1>4 DEF Theirs
        <5> QED BY <5>2, <1>3, <1>4
      <4> QED BY <4>1, <4>2
    <3> QED BY <2>1, <2>3, <3>1, <3>2 DEF Counted
  <2> QED BY <1>11, <2>2, <2>3 DEF Vouches
<1>12. \A q \in Packages \ {p} : w.own[q] = v.own[q] /\ w.says[q] = v.says[q]
  BY <1>1, <1>3, <1>4
<1>13. CASE whole /\ readListing
  <2>1. w.own[p] = ids  BY <1>3, <1>4, <1>13
  <2>2. \A i \in Items : i \in w.own[p] <=> i \in v.list[p] /\ Ours(w, i)
    BY <2>1, <1>4, <1>7, <1>13
  <2>3. \A i \in w.own[p] : Vouches(w, p, i)  BY <2>1, <1>10
  <2>4. \A r \in Packages \ {p} : \A i \in Items :
          i \in v.own[r] /\ i \notin w.own[p] /\ Vouches(v, r, i) => Vouches(w, r, i)
    BY <2>1, <1>11
  <2>5. Lists(v, w, p)  BY <2>2, <2>3, <2>4, <1>1, <1>12 DEF Lists
  <2>6. Accounts(w)  BY <2>5, <1>2, <1>5, WholeAccounts
  <2> QED BY <2>6 DEF w
<1>14. CASE ~(whole /\ readListing)
  <2>1. w.own[p] = v.own[p]  BY <1>3, <1>4, <1>8, <1>14
  <2>2. \/ w.says[p] = v.says[p]
        \/ w.says[p] = "unlisted" /\ \A i \in w.own[p] : Vouches(w, p, i)
    <3>1. CASE ~whole  BY <3>1, <1>1, <1>4 DEF Outcome
    <3>2. CASE whole /\ ~readListing
      BY <3>2, <2>1, <1>1, <1>8, <1>10 DEF Outcome
    <3> QED BY <3>1, <3>2, <1>14
  <2>3. ASSUME NEW r \in Packages, NEW i \in Items, Answers(v, r, i)
        PROVE  \E q \in Packages : Answers(w, q, i)
    <3>1. Holds(w, r, i) /\ i \in v.own[r]
      BY <2>1, <2>3, <1>1, <1>12 DEF Answers, Holds
    <3>2. CASE r = p /\ i \in ids
      <4>1. Answers(w, p, i)  BY <3>1, <3>2, <1>10 DEF Answers
      <4> QED BY <4>1
    <3>3. CASE r = p /\ i \notin ids
      <4>1. ~whole  BY <3>1, <3>3, <1>8, <1>14
      <4>2. w.says[p] = v.says[p]  BY <4>1, <1>1, <1>4 DEF Outcome
      <4>3. Answers(w, p, i)  BY <3>1, <3>3, <4>1, <4>2, <2>3, <1>11 DEF Answers
      <4> QED BY <4>3
    <3>4. CASE r # p
      <4>1. Answers(w, r, i)  BY <3>1, <3>4, <2>3, <1>11, <1>12 DEF Answers
      <4> QED BY <4>1
    <3> QED BY <3>2, <3>3, <3>4
  <2>4. Adds(v, w, p)  BY <2>1, <2>2, <2>3, <1>1, <1>12 DEF Adds
  <2>5. Accounts(w)  BY <2>4, <1>2, <1>5, PartAccounts
  <2> QED BY <2>5 DEF w
<1> QED BY <1>13, <1>14

LEMMA AccountInit == Init => AccountInv
<1> SUFFICES ASSUME Init PROVE AccountInv  OBVIOUS
<1>1. LegInv  BY LegInit
<1>2. \A f \in Files : docs[f] = Blank /\ writer[f] = Idle
                        /\ \A p \in Packages : reported[f][p] = "no"
  BY DEF Init
<1>3. ASSUME NEW f \in Files, NEW p \in Packages
      PROVE  View(f).own[p] = {} /\ View(f).says[p] = "no"
  <2>1. OwnedBy(Blank, p) = {}  BY DEF OwnedBy, OwnersOf, Blank
  <2> QED BY <2>1, <1>2 DEF View, ViewOf
<1>4. \A f \in Files : Accounts(View(f))
  BY <1>3 DEF Accounts, Placed, Owned, Answered
<1> QED BY <1>1, <1>2, <1>4 DEF AccountInv, CutInv, StampInv

LEMMA AccountStep == AccountInv /\ [Next]_vars => AccountInv'
<1> SUFFICES ASSUME AccountInv, [Next]_vars PROVE AccountInv'  OBVIOUS
<1>t. LegInv /\ LegInv' /\ TypeInv /\ TypeInv'
  BY LegStep DEF AccountInv, LegInv
<1> DEFINE P(g) ==
      /\ writer[g] # Idle =>
           /\ reported[g][writer[g].package] = "cut"
           /\ \A e \in writer[g].entries : e.package = writer[g].package
      /\ Sharded => \A p \in Packages :
           reported[g][p] \in {"listed", "unlisted"} => docs[g].shard # None
      /\ Accounts(View(g))
<1>d. /\ docs \in [Files -> Docs] /\ writer \in [Files -> Writers \cup {Idle}]
      /\ reported \in [Files -> [Packages -> Outcomes]]
  BY <1>t DEF TypeInv
<1>w. \A w \in Writers : w # Idle /\ w.package \in Packages /\ w.shard \in Shards
                         /\ w.how \in Outcomes
  BY DEF Writers, Idle
<1>n. \A s \in Shards : s # None  BY NoneApart
<1>p. \A g \in Files : P(g)  BY DEF AccountInv, CutInv, StampInv
<1>q. (\A g \in Files : P(g)') => AccountInv'
  BY <1>t DEF AccountInv, CutInv, StampInv
<1>u. ASSUME NEW f \in Files, code' = code,
             \A g \in Files \ {f} : docs'[g] = docs[g] /\ writer'[g] = writer[g]
                                     /\ reported'[g] = reported[g],
             P(f)'
      PROVE  AccountInv'
  <2>1. ASSUME NEW g \in Files \ {f} PROVE P(g)'
    <3>1. View(g)' = View(g)  BY <1>u DEF View
    <3>2. Accounts(View(g)')  BY <3>1, <1>p
    <3> QED BY <3>2, <1>u, <1>p
  <2> QED BY <1>u, <1>q, <2>1
<1>1. ASSUME NEW p \in Packages, Plan(p) PROVE AccountInv'
  <2>1. docs' = docs /\ writer' = writer /\ reported' = reported /\ code' = code
    BY <1>1 DEF Plan
  <2>2. ASSUME NEW g \in Files PROVE P(g)'
    <3>1. View(g)' = View(g)  BY <2>1 DEF View
    <3>2. Accounts(View(g)')  BY <3>1, <1>p
    <3> QED BY <3>2, <2>1, <1>p
  <2> QED BY <2>2, <1>q
<1>s. ASSUME NEW f \in Files, ~Sharded, \A p \in Packages : View(f)'.says[p] = "no"
      PROVE  Accounts(View(f)')
  BY <1>s DEF Accounts, Placed, Owned, Answered, Ours
<1>2. ASSUME NEW p \in Packages, NEW listing \in Listings[p], Commit(p, listing)
      PROVE AccountInv'
  <2>1. /\ ~Sharded /\ \A g \in Files : writer'[g] = Idle
        /\ reported' = [g \in Files |-> [q \in Packages |-> "no"]]
    BY <1>2 DEF Commit
  <2>2. ASSUME NEW g \in Files PROVE P(g)'
    <3>1. \A q \in Packages : View(g)'.says[q] = "no"  BY <2>1 DEF View, ViewOf
    <3>2. Accounts(View(g)')  BY <2>1, <3>1, <1>s
    <3> QED BY <3>2, <2>1
  <2> QED BY <2>2, <1>q
<1>3. ASSUME NEW f \in Files, NEW s \in Shards, NEW p \in Packages, NEW filter \in Filters,
             NEW reuse \in Reuses, NEW uncounted \in BOOLEAN,
             Save(f, s, p, filter, reuse, uncounted)
      PROVE AccountInv'
  <2> DEFINE measured == Measured(s, p, filter)
             reused == measured \cap reuse
  <2>1. SavesFile(f, s, p, filter, reuse, uncounted)  BY <1>3, <1>t, SaveView
  <2>2. Accounts(View(f)')  BY <1>3, <1>t, SaveAccounts
  <2>3. /\ docs'[f].shard = docs[f].shard /\ code' = code
        /\ writer'[f].package = p /\ reported'[f][p] = "cut"
        /\ writer'[f].entries = Material(p, measured, reused, uncounted)
        /\ measured \in SUBSET Items
        /\ \A q \in Packages \ {p} : reported'[f][q] = reported[f][q]
        /\ \A g \in Files \ {f} : docs'[g] = docs[g] /\ writer'[g] = writer[g]
                                  /\ reported'[g] = reported[g]
    BY <2>1 DEF SavesFile, SavedOf
  <2>4. \A e \in Material(p, measured, reused, uncounted) : e.package = p
    <3> HIDE DEF measured, reused
    <3> QED BY DEF Material
  <2>5. P(f)'  BY <2>2, <2>3, <2>4, <1>p
  <2> QED BY <2>3, <2>5, <1>u
<1>4. ASSUME NEW f \in Files, NEW s \in Shards, NEW p \in Packages, NEW filter \in Filters,
             NEW readListing \in BOOLEAN, Mark(f, s, p, filter, readListing)
      PROVE AccountInv'
  <2>1. MarksFile(f, s, p, filter, readListing)  BY <1>4, <1>t, MarkView
  <2>2. Accounts(View(f)')  BY <1>4, <1>t, MarkAccounts
  <2>3. /\ docs'[f].shard = docs[f].shard /\ code' = code
        /\ IF Sharded
           THEN writer'[f].entries = {} /\ writer'[f].package = p /\ reported'[f][p] = "cut"
           ELSE writer'[f] = Idle
        /\ \A q \in Packages \ {p} : reported'[f][q] = reported[f][q]
        /\ \A g \in Files \ {f} : docs'[g] = docs[g] /\ writer'[g] = writer[g]
                                  /\ reported'[g] = reported[g]
    BY <2>1 DEF MarksFile, MarkedOf
  <2>4. P(f)'  BY <2>2, <2>3, <1>p
  <2> QED BY <2>3, <2>4, <1>u
<1>5. ASSUME NEW f \in Files, Append(f) PROVE AccountInv'
  <2>1. writer[f] \in Writers  BY <1>d, <1>5 DEF Append, Idle
  <2> DEFINE new == [docs[f] EXCEPT !.entries = @ \cup writer[f].entries]
  <2>2. docs' = [docs EXCEPT ![f] = new] /\ code' = code /\ writer[f].step = "append"
    BY <1>5 DEF Append
  <2>3. /\ new.shard = docs[f].shard /\ new.owners = docs[f].owners
        /\ new.items = docs[f].items /\ new.entries = docs[f].entries \cup writer[f].entries
    BY <1>d DEF Docs
  <2>4. docs'[f] = new /\ \A g \in Files \ {f} : docs'[g] = docs[g]  BY <2>2, <1>d
  <2>5. /\ docs'[f].shard = docs[f].shard /\ docs'[f].owners = docs[f].owners
        /\ docs'[f].items = docs[f].items
        /\ docs'[f].entries = docs[f].entries \cup writer[f].entries
    BY <2>3, <2>4
  <2>6. \A q \in Packages : OwnedBy(docs'[f], q) = OwnedBy(docs[f], q)
    BY <2>5 DEF OwnedBy, OwnersOf
  <2> HIDE DEF new
  <2>7. CASE Sharded
    <3>1. reported' = reported /\ writer' = [writer EXCEPT ![f].step = "stamp"]
      BY <1>5, <2>7 DEF Append
    <3>2. /\ writer'[f] = [writer[f] EXCEPT !.step = "stamp"]
          /\ \A g \in Files \ {f} : writer'[g] = writer[g] /\ reported'[g] = reported[g]
      BY <3>1, <1>d
    <3>3. /\ writer'[f].step = "stamp" /\ writer'[f].shard = writer[f].shard
          /\ writer'[f].package = writer[f].package /\ writer'[f].entries = writer[f].entries
          /\ writer'[f].how = writer[f].how
      BY <2>1, <3>2 DEF Writers
    <3>4. writer[f] # Idle /\ writer'[f] # Idle  BY <2>2, <3>3 DEF Idle
    <3>5. View(f)' = View(f)
      BY <2>2, <2>5, <2>6, <3>1, <3>3, <3>4 DEF View, ViewOf
    <3>6. Accounts(View(f)')  BY <3>5, <1>p
    <3>7. P(f)'  BY <2>5, <3>1, <3>3, <3>4, <3>6, <1>p
    <3> QED BY <2>2, <2>4, <3>2, <3>7, <1>u
  <2>8. CASE ~Sharded
    <3>1. /\ writer' = [writer EXCEPT ![f] = Idle]
          /\ reported' = [reported EXCEPT ![f][writer[f].package] = writer[f].how]
      BY <1>5, <2>8 DEF Append, Reports
    <3>2. /\ writer'[f] = Idle /\ writer[f] # Idle
          /\ \A g \in Files \ {f} : writer'[g] = writer[g] /\ reported'[g] = reported[g]
      BY <3>1, <1>d, <2>2 DEF Idle
    <3>3. reported'[f] = [q \in Packages |-> IF q = writer[f].package THEN writer[f].how
                                             ELSE reported[f][q]]
      BY <3>1, <1>d, <2>1, <1>w
    <3>4. /\ View(f)'.list = View(f).list /\ View(f)'.own = View(f).own
          /\ View(f)'.num = View(f).num /\ View(f)'.es = View(f).es
          /\ View(f)'.says = View(f).says
      <4>1. View(f)'.list = View(f).list /\ View(f)'.own = View(f).own
            /\ View(f)'.num = View(f).num
        BY <2>2, <2>5, <2>6 DEF View, ViewOf
      <4>2. View(f)'.es = View(f).es  BY <2>2, <2>5, <3>2 DEF View, ViewOf, Idle
      <4>3. View(f)'.says = View(f).says  BY <3>2, <3>3 DEF View, ViewOf
      <4> QED BY <4>1, <4>2, <4>3
    <3>5. Accounts(View(f)')
      BY <2>8, <3>4, <1>p DEF Accounts, Placed, Owned, Answered, Answers, Holds, Vouches, Ours
    <3>6. P(f)'  BY <2>8, <3>2, <3>5
    <3> QED BY <2>2, <2>4, <3>2, <3>6, <1>u
  <2> QED BY <2>7, <2>8
<1>6. ASSUME NEW f \in Files, Stamp(f) PROVE AccountInv'
  <2>1. writer[f] \in Writers  BY <1>d, <1>6 DEF Stamp, Idle
  <2>2. Sharded /\ docs[f].shard \in {None, writer[f].shard}
    <3>1. writer[f] # Idle /\ writer[f].step # "append"  BY <1>6 DEF Stamp, Idle
    <3> QED BY <3>1, <1>t DEF LegInv, WriterHolds
  <2> DEFINE new == Stamped(docs[f], writer[f].shard, writer[f].package, writer[f].ids)
  <2>3. /\ docs' = [docs EXCEPT ![f] = new] /\ writer' = [writer EXCEPT ![f] = Idle]
        /\ reported' = [reported EXCEPT ![f][writer[f].package] = writer[f].how]
        /\ code' = code /\ writer[f].step = "stamp"
    BY <1>6 DEF Stamp, Reports
  <2>4. /\ new.shard = writer[f].shard /\ new.owners = docs[f].owners
        /\ new.items = docs[f].items /\ new.entries = docs[f].entries
    BY <1>d DEF Docs, Stamped
  <2>5. /\ docs'[f] = new /\ writer'[f] = Idle
        /\ \A g \in Files \ {f} : docs'[g] = docs[g] /\ writer'[g] = writer[g]
                                  /\ reported'[g] = reported[g]
    BY <2>3, <1>d
  <2>6. /\ docs'[f].shard = writer[f].shard /\ docs'[f].items = docs[f].items
        /\ docs'[f].entries = docs[f].entries
        /\ \A q \in Packages : OwnedBy(docs'[f], q) = OwnedBy(docs[f], q)
    BY <2>4, <2>5 DEF OwnedBy, OwnersOf
  <2> HIDE DEF new
  <2>7. reported'[f] = [q \in Packages |-> IF q = writer[f].package THEN writer[f].how
                                           ELSE reported[f][q]]
    BY <2>3, <1>d, <2>1, <1>w
  <2>8. writer[f] # Idle /\ writer[f].shard # None  BY <2>1, <1>w, <1>n
  <2>9. View(f)' = View(f)
    <3> DEFINE es(w) == IF w.step = "append" THEN w.entries ELSE {}
               own(d) == [p \in Packages |-> OwnedBy(d, p)]
               said == [p \in Packages |-> reported'[f][p]]
               says == [p \in Packages |-> IF writer[f].package = p THEN writer[f].how
                                            ELSE reported[f][p]]
               leg == IF docs[f].shard = None THEN writer[f].shard ELSE docs[f].shard
    <3>1. own(docs'[f]) = own(docs[f]) /\ said = says  BY <2>6, <2>7
    <3>2. es(Idle) = es(writer[f])  BY <2>3 DEF Idle
    <3>3. docs'[f].shard = leg /\ docs'[f].shard # None  BY <2>2, <2>6, <2>8
    <3>4. View(f)' = ViewOf(code, docs'[f], Idle, reported'[f])  BY <2>3, <2>5 DEF View
    <3>5. View(f)' = [list |-> code, own |-> own(docs'[f]), num |-> docs'[f].items,
                      es |-> docs'[f].entries \cup es(Idle), says |-> said,
                      leg |-> docs'[f].shard]
      BY <3>3, <3>4 DEF ViewOf
    <3>6. View(f) = [list |-> code, own |-> own(docs[f]), num |-> docs[f].items,
                     es |-> docs[f].entries \cup es(writer[f]), says |-> says, leg |-> leg]
      BY <2>8 DEF View, ViewOf
    <3>7. docs'[f].items = docs[f].items /\ docs'[f].entries = docs[f].entries  BY <2>6
    <3> HIDE DEF es, own, said, says, leg
    <3> QED BY <3>1, <3>2, <3>3, <3>5, <3>6, <3>7
  <2>10. Accounts(View(f)')  BY <2>9, <1>p
  <2>11. P(f)'  BY <2>5, <2>6, <2>8, <2>10
  <2> QED BY <2>3, <2>5, <2>11, <1>u
<1>7. ASSUME NEW f \in Files, Crash(f) PROVE AccountInv'
  <2>1. /\ docs' = docs /\ reported' = reported /\ code' = code /\ writer[f] # Idle
        /\ writer' = [writer EXCEPT ![f] = Idle]
    BY <1>7 DEF Crash
  <2>2. writer'[f] = Idle /\ \A g \in Files \ {f} : writer'[g] = writer[g]  BY <2>1, <1>d
  <2>3. writer[f] \in Writers  BY <2>1, <1>d
  <2> DEFINE k == writer[f].package
  <2>4. k \in Packages /\ reported[f][k] = "cut" /\ \A e \in writer[f].entries : e.package = k
    BY <2>1, <2>3, <1>p, <1>w
  <2>5. /\ View(f)'.list = View(f).list /\ View(f)'.own = View(f).own
        /\ View(f)'.num = View(f).num
        /\ View(f)'.es \subseteq View(f).es
        /\ \A e \in View(f).es : e \in View(f)'.es \/ e.package = k
        /\ View(f)'.leg = docs[f].shard
        /\ docs[f].shard # None => View(f)'.leg = View(f).leg
        /\ \A q \in Packages : View(f)'.says[q] = reported[f][q]
        /\ \A q \in Packages \ {k} : View(f)'.says[q] = View(f).says[q]
    BY <2>1, <2>2, <2>4 DEF View, ViewOf, Idle
  <2>6. Accounts(View(f)')
    <3>1. Accounts(View(f)) /\ View(f) \in Views /\ View(f)' \in Views  BY <1>p, <1>t, ViewsTyped
    <3>2. Sharded /\ docs[f].shard = None => \A q \in Packages : reported[f][q] # "listed"
      BY <1>p
    <3> DEFINE v == View(f)
               w == View(f)'
    <3>3. /\ w.list = v.list /\ w.own = v.own /\ w.num = v.num /\ w.es \subseteq v.es
          /\ \A e \in v.es : e \in w.es \/ e.package = k
          /\ w.says[k] = "cut" /\ \A q \in Packages \ {k} : w.says[q] = v.says[q]
          /\ Sharded => w.leg \in {None, v.leg}
          /\ Sharded /\ w.leg = None => \A q \in Packages : w.says[q] # "listed"
      BY <2>4, <2>5, <3>2
    <3>4. v \in Views /\ w \in Views /\ Accounts(v)  BY <3>1
    <3> HIDE DEF v, w, k
    <3>5. Accounts(w)  BY <2>4, <3>3, <3>4, CutAccounts
    <3> QED BY <3>5 DEF w
  <2>7. P(f)'  BY <2>1, <2>2, <2>6, <1>p
  <2> QED BY <2>1, <2>2, <2>7, <1>u
<1>8. ASSUME NEW f \in Files, SaveAll(f) PROVE AccountInv'
  <2>1. /\ ~Sharded /\ writer[f] = Idle /\ writer' = writer /\ code' = code
        /\ reported' = [reported EXCEPT ![f] = [p \in Packages |-> "no"]]
    BY <1>8 DEF SaveAll
  <2>2. \A g \in Files \ {f} : docs'[g] = docs[g]  BY <1>8, <1>d DEF SaveAll
  <2>3. /\ writer'[f] = Idle
        /\ \A g \in Files \ {f} : writer'[g] = writer[g] /\ reported'[g] = reported[g]
    BY <2>1, <1>d
  <2>4. \A q \in Packages : View(f)'.says[q] = "no"  BY <2>1, <1>d DEF View, ViewOf
  <2>5. Accounts(View(f)')  BY <2>1, <2>4, <1>s
  <2>6. P(f)'  BY <2>1, <2>3, <2>5
  <2> QED BY <2>1, <2>2, <2>3, <2>6, <1>u
<1>9. CASE UNCHANGED vars
  <2>1. ASSUME NEW g \in Files PROVE P(g)'
    <3>1. View(g)' = View(g)  BY <1>9 DEF View, vars
    <3>2. Accounts(View(g)')  BY <3>1, <1>p
    <3> QED BY <3>2, <1>9, <1>p DEF vars
  <2> QED BY <2>1, <1>q
<1> QED BY <1>1, <1>2, <1>3, <1>4, <1>5, <1>6, <1>7, <1>8, <1>9 DEF Next

LEMMA InvAccounts == AccountInv => Accounted
<1> SUFFICES ASSUME AccountInv, NEW f \in Files, NEW p \in Packages,
                    NotCut({f}), reported[f][p] = "listed",
                    NEW i \in code[p], NEW m \in Metrics,
                    Sharded => Owns(docs[f].shard, i)
             PROVE  Readable(docs[f], i, m)
  BY DEF Accounted
<1>1. writer[f] = Idle
  <2> SUFFICES ASSUME writer[f] # Idle PROVE FALSE  OBVIOUS
  <2>1. writer[f].package \in Packages  BY DEF AccountInv, LegInv, TypeInv, Writers
  <2> QED BY <2>1 DEF AccountInv, CutInv, NotCut
<1>2. /\ View(f).list = code /\ View(f).num = docs[f].items /\ View(f).es = docs[f].entries
      /\ View(f).leg = docs[f].shard /\ \A q \in Packages : View(f).says[q] = reported[f][q]
  BY <1>1 DEF View, ViewOf, Idle
<1>3. i \in Items  BY DEF AccountInv, LegInv, TypeInv
<1>4. Ours(View(f), i)  BY <1>2 DEF Ours, Owns
<1>5. Holds(View(f), p, i)
  BY <1>2, <1>4 DEF AccountInv, Accounts, Owned, Holds
<1>6. PICK r \in Packages : Answers(View(f), r, i)
  BY <1>2, <1>3, <1>5 DEF AccountInv, Accounts, Answered
<1>7. View(f).says[r] # "cut"  BY <1>2 DEF NotCut
<1>8. Vouches(View(f), r, i)  BY <1>6, <1>7 DEF Answers
<1> QED BY <1>2, <1>8 DEF Vouches, Named, Counted, Readable, NoNumber

(* Whatever gates save and mark, filtered or not, reusing, killed, and whoever *)
(* else lists the item: every metric of what a finished save lists can be read *)
(* or is named with the reason why not.                                       *)
THEOREM ListedIsAccounted == Spec => []Accounted
<1>1. Spec => []AccountInv  BY AccountInit, AccountStep, PTL DEF Spec
<1> QED BY <1>1, InvAccounts, PTL

-----------------------------------------------------------------------------
(* An item that two packages may list stays in every listing of either.       *)
KeepsShared ==
  \A p, q \in Packages : p # q =>
    \A i \in (UNION Listings[p]) \cap (UNION Listings[q]) : \A listing \in Listings[p] : i \in listing

(* A package owns what some listing of it held.                               *)
ListingInv ==
  \A p \in Packages : /\ code[p] \in Listings[p]
                      /\ \A f \in Files : OwnedBy(docs[f], p) \subseteq UNION Listings[p]

(* Every number is its package's, and of this commit unless the package has   *)
(* not been saved or marked in full since.                                    *)
Dated(doc, says, now) ==
  \A i \in Items : doc.items[i] # None =>
    /\ Sharded => doc.items[i].at = now
    /\ ~Sharded =>
         /\ doc.items[i].by \in Packages /\ i \in OwnedBy(doc, doc.items[i].by)
         /\ doc.items[i].at = now \/ says[doc.items[i].by] \notin {"listed", "unlisted"}

FreshInv ==
  /\ AccountInv /\ ListingInv /\ (Sharded => commit = 0)
  /\ \A f \in Files : Dated(docs[f], View(f).says, commit)

LEMMA SaveDates ==
  ASSUME FreshInv, TypeInv', KeepsShared, commit' = commit,
         NEW f \in Files, NEW s \in Shards, NEW p \in Packages, NEW filter \in Filters,
         NEW reuse \in Reuses, NEW uncounted \in BOOLEAN,
         SavesFile(f, s, p, filter, reuse, uncounted)
  PROVE  /\ Dated(docs'[f], View(f)'.says, commit)
         /\ \A q \in Packages : OwnedBy(docs'[f], q) \subseteq UNION Listings[q]
<1> DEFINE measured == Measured(s, p, filter)
           full == filter = Items
           v == View(f).says
           w == View(f)'.says
<1>0. TypeInv  BY DEF FreshInv, AccountInv, LegInv
<1>1. /\ measured \in SUBSET Items /\ writer[f] = Idle
      /\ SavedOf(docs'[f], docs[f], p, full, measured, measured \cap reuse, uncounted)
      /\ w[p] = Outcome(f, p, filter, "listed") /\ \A q \in Packages \ {p} : w[q] = v[q]
  BY DEF SavesFile
<1>2. /\ \A i \in measured : docs'[f].items[i].by = p /\ docs'[f].items[i].at = commit
      /\ \A i \in Items \ measured : ~(full /\ i \in Prior(docs[f], p)) =>
           docs'[f].items[i] = docs[f].items[i]
      /\ \A i \in Items \ measured : full /\ i \in Prior(docs[f], p) =>
           docs'[f].items[i] = None
      /\ OwnedBy(docs'[f], p) = measured \cup (IF full THEN {} ELSE OwnedBy(docs[f], p))
      /\ \A q \in Packages \ {p} : OwnedBy(docs'[f], q) = OwnedBy(docs[f], q)
  <2>1. /\ OwnedBy(docs'[f], p) = measured \cup (IF full THEN {} ELSE OwnedBy(docs[f], p))
        /\ \A q \in Packages \ {p} : OwnedBy(docs'[f], q) = OwnedBy(docs[f], q)
    BY <1>1 DEF SavedOf
  <2>2. ASSUME NEW i \in Items
        PROVE  docs'[f].items[i] =
                 IF i \in measured
                 THEN [by |-> p, has |-> Kept(i, measured \cap reuse, uncounted), at |-> commit]
                 ELSE IF full /\ i \in Prior(docs[f], p) THEN None ELSE docs[f].items[i]
    BY <1>1 DEF SavedOf
  <2> HIDE DEF measured, full
  <2>3. \A i \in measured : docs'[f].items[i].by = p /\ docs'[f].items[i].at = commit
    <3> TAKE i \in measured
    <3>1. docs'[f].items[i] =
            [by |-> p, has |-> Kept(i, measured \cap reuse, uncounted), at |-> commit]
      BY <1>1, <2>2
    <3> QED BY <3>1
  <2>4. ASSUME NEW i \in Items \ measured
        PROVE  docs'[f].items[i] =
                 IF full /\ i \in Prior(docs[f], p) THEN None ELSE docs[f].items[i]
    BY <2>2, <2>4
  <2> QED BY <2>1, <2>3, <2>4
<1>3. measured \subseteq code[p]  BY DEF Measured
<1>4. code[p] \in Listings[p] /\ \A q \in Packages : OwnedBy(docs[f], q) \subseteq UNION Listings[q]
  BY DEF FreshInv, ListingInv
<1>5. Dated(docs[f], v, commit)  BY DEF FreshInv
<1>6. ~full => w[p] = v[p]
  BY <1>1 DEF Outcome, View, ViewOf
<1>7. \A i \in code[p] \cap filter : ~Sharded => i \in measured  BY DEF Measured
<1>8. docs[f] \in Docs  BY <1>0 DEF TypeInv
<1> HIDE DEF measured, v, w
<1>9. Dated(docs'[f], w, commit)
  <2> SUFFICES ASSUME NEW i \in Items, docs'[f].items[i] # None
               PROVE  /\ Sharded => docs'[f].items[i].at = commit
                      /\ ~Sharded =>
                           /\ docs'[f].items[i].by \in Packages
                           /\ i \in OwnedBy(docs'[f], docs'[f].items[i].by)
                           /\ \/ docs'[f].items[i].at = commit
                              \/ w[docs'[f].items[i].by] \notin {"listed", "unlisted"}
    BY DEF Dated
  <2>1. CASE i \in measured  BY <1>2, <2>1
  <2>2. CASE i \notin measured
    <3>1. docs'[f].items[i] = docs[f].items[i] /\ ~(full /\ i \in Prior(docs[f], p))
      BY <1>2, <2>2
    <3> DEFINE n == docs[f].items[i]
    <3>2. /\ n # None /\ (Sharded => n.at = commit)
          /\ ~Sharded => /\ n.by \in Packages /\ i \in OwnedBy(docs[f], n.by)
                         /\ n.at = commit \/ v[n.by] \notin {"listed", "unlisted"}
      BY <1>5, <3>1 DEF Dated
    <3> HIDE DEF n
    <3>3. CASE Sharded  BY <3>1, <3>2, <3>3 DEF n
    <3>4. CASE ~Sharded /\ n.by # p  BY <1>1, <1>2, <3>1, <3>2, <3>4 DEF n
    <3>5. CASE ~Sharded /\ n.by = p /\ ~full  BY <1>2, <1>6, <3>1, <3>2, <3>5 DEF n
    <3>6. CASE ~Sharded /\ n.by = p /\ full
      <4>1. i \in OwnedBy(docs[f], p)  BY <3>2, <3>6
      <4>2. docs[f].owners # None  BY <4>1 DEF OwnedBy, OwnersOf
      <4>3. i \in OwnedByOthers(docs[f], p)  BY <3>1, <3>6, <4>1, <4>2 DEF Prior
      <4>4. PICK q \in Packages \ {p} : i \in OwnedBy(docs[f], q)
        <5>1. OwnersOf(docs[f]) \in OwnerMaps  BY <1>8, OwnersTyped
        <5>2. DOMAIN OwnersOf(docs[f]) \subseteq Packages  BY <5>1 DEF OwnerMaps
        <5> QED BY <4>3, <5>2 DEF OwnedByOthers, OwnedBy
      <4>5. i \in code[p]  BY <1>4, <4>1, <4>4 DEF KeepsShared
      <4> QED BY <1>7, <2>2, <3>6, <4>5
    <3> QED BY <3>3, <3>4, <3>5, <3>6
  <2> QED BY <2>1, <2>2
<1>10. \A q \in Packages : OwnedBy(docs'[f], q) \subseteq UNION Listings[q]
  BY <1>2, <1>3, <1>4
<1> QED BY <1>9, <1>10 DEF w

LEMMA MarkDates ==
  ASSUME FreshInv, TypeInv', commit' = commit,
         NEW f \in Files, NEW s \in Shards, NEW p \in Packages, NEW filter \in Filters,
         NEW readListing \in BOOLEAN, MarksFile(f, s, p, filter, readListing)
  PROVE  /\ Dated(docs'[f], View(f)'.says, commit)
         /\ \A q \in Packages : OwnedBy(docs'[f], q) \subseteq UNION Listings[q]
<1> DEFINE ids == MarkedIds(f, s, p, filter, readListing)
           whole == filter = Items
           v == View(f).says
           w == View(f)'.says
<1>0. TypeInv  BY DEF FreshInv, AccountInv, LegInv
<1>1. /\ writer[f] = Idle /\ MarkedOf(docs'[f], docs[f], p, whole, ids)
      /\ w[p] = Outcome(f, p, filter, IF readListing THEN "listed" ELSE "unlisted")
      /\ \A q \in Packages \ {p} : w[q] = v[q]
  BY DEF MarksFile
<1>2. /\ \A i \in Items : docs'[f].items[i] # None =>
           /\ docs'[f].items[i] = docs[f].items[i]
           /\ i \notin (ids \cup (IF whole THEN OwnedBy(docs[f], p) ELSE {})) \ Theirs(docs[f], p)
      /\ OwnedBy(docs'[f], p) = IF whole THEN ids ELSE OwnedBy(docs[f], p)
      /\ \A q \in Packages \ {p} : OwnedBy(docs'[f], q) = OwnedBy(docs[f], q)
  BY <1>1 DEF MarkedOf
<1>3. ids \subseteq code[p] \cup OwnedBy(docs[f], p)  BY DEF MarkedIds, OwnedHere
<1>4. code[p] \in Listings[p] /\ \A q \in Packages : OwnedBy(docs[f], q) \subseteq UNION Listings[q]
  BY DEF FreshInv, ListingInv
<1>5. Dated(docs[f], v, commit)  BY DEF FreshInv
<1>6. ~whole => w[p] = v[p]
  BY <1>1 DEF Outcome, View, ViewOf
<1> HIDE DEF ids, v, w
<1>9. Dated(docs'[f], w, commit)
  <2> SUFFICES ASSUME NEW i \in Items, docs'[f].items[i] # None
               PROVE  /\ Sharded => docs'[f].items[i].at = commit
                      /\ ~Sharded =>
                           /\ docs'[f].items[i].by \in Packages
                           /\ i \in OwnedBy(docs'[f], docs'[f].items[i].by)
                           /\ \/ docs'[f].items[i].at = commit
                              \/ w[docs'[f].items[i].by] \notin {"listed", "unlisted"}
    BY DEF Dated
  <2> DEFINE n == docs[f].items[i]
  <2>1. /\ docs'[f].items[i] = n
        /\ i \notin (ids \cup (IF whole THEN OwnedBy(docs[f], p) ELSE {})) \ Theirs(docs[f], p)
    BY <1>2
  <2>2. /\ n # None /\ (Sharded => n.at = commit)
        /\ ~Sharded => /\ n.by \in Packages /\ i \in OwnedBy(docs[f], n.by)
                       /\ n.at = commit \/ v[n.by] \notin {"listed", "unlisted"}
    BY <1>5, <2>1 DEF Dated
  <2>3. whole /\ n.by = p => i \notin OwnedBy(docs[f], p)
    BY <2>1, <2>2 DEF Theirs, NoNumber
  <2> HIDE DEF n
  <2>4. CASE Sharded  BY <2>1, <2>2, <2>4
  <2>5. CASE ~Sharded /\ n.by # p  BY <1>1, <1>2, <2>1, <2>2, <2>5
  <2>6. CASE ~Sharded /\ n.by = p  BY <1>2, <1>6, <2>1, <2>2, <2>3, <2>6
  <2> QED BY <2>4, <2>5, <2>6
<1>10. \A q \in Packages : OwnedBy(docs'[f], q) \subseteq UNION Listings[q]
  BY <1>2, <1>3, <1>4
<1> QED BY <1>9, <1>10 DEF w

LEMMA FreshInit == Init => FreshInv
<1> SUFFICES ASSUME Init PROVE FreshInv  OBVIOUS
<1>1. AccountInv  BY AccountInit
<1>2. /\ commit = 0 /\ \A f \in Files : docs[f] = Blank
      /\ \A p \in Packages : code[p] \in Listings[p]
  BY DEF Init
<1>3. /\ \A i \in Items : Blank.items[i] = None
      /\ \A p \in Packages : OwnedBy(Blank, p) = {}
  BY DEF Blank, NoNumber, OwnedBy, OwnersOf
<1> QED BY <1>1, <1>2, <1>3 DEF FreshInv, ListingInv, Dated

LEMMA FreshStep == ~MeasureAll /\ KeepsShared /\ FreshInv /\ [Next]_vars => FreshInv'
<1> SUFFICES ASSUME ~MeasureAll, KeepsShared, FreshInv, [Next]_vars PROVE FreshInv'
  OBVIOUS
<1>a. AccountInv /\ AccountInv'  BY AccountStep DEF FreshInv
<1>t. TypeInv /\ TypeInv' /\ CutInv  BY <1>a DEF AccountInv, LegInv
<1>d. /\ docs \in [Files -> Docs] /\ writer \in [Files -> Writers \cup {Idle}]
      /\ reported \in [Files -> [Packages -> Outcomes]]
  BY <1>t DEF TypeInv
<1>w. \A w \in Writers : w # Idle /\ w.package \in Packages  BY DEF Writers, Idle
<1>i. /\ ListingInv /\ (Sharded => commit = 0)
      /\ \A g \in Files : Dated(docs[g], View(g).says, commit)
  BY DEF FreshInv
<1>u. ASSUME NEW f \in Files, code' = code, commit' = commit,
             \A g \in Files \ {f} : docs'[g] = docs[g] /\ writer'[g] = writer[g]
                                     /\ reported'[g] = reported[g],
             Dated(docs'[f], View(f)'.says, commit),
             \A q \in Packages : OwnedBy(docs'[f], q) \subseteq UNION Listings[q]
      PROVE  FreshInv'
  <2>1. \A g \in Files \ {f} : View(g)' = View(g)  BY <1>u DEF View
  <2>2. \A g \in Files : Dated(docs'[g], View(g)'.says, commit')  BY <1>u, <1>i, <2>1
  <2>3. ListingInv'  BY <1>u, <1>i DEF ListingInv
  <2> QED BY <1>a, <1>i, <1>u, <2>2, <2>3 DEF FreshInv
<1> DEFINE Keeps(g) ==
      /\ code' = code /\ commit' = commit
      /\ \A h \in Files \ {g} : docs'[h] = docs[h] /\ writer'[h] = writer[h]
                                /\ reported'[h] = reported[h]
      /\ docs'[g].items = docs[g].items /\ docs'[g].owners = docs[g].owners
      /\ \A q \in Packages : View(g)'.says[q] \in {"listed", "unlisted"} =>
                               View(g)'.says[q] = View(g).says[q]
<1>k. ASSUME NEW f \in Files, Keeps(f) PROVE FreshInv'
  <2>1. \A q : OwnedBy(docs'[f], q) = OwnedBy(docs[f], q)  BY <1>k DEF OwnedBy, OwnersOf
  <2>2. Dated(docs[f], View(f).says, commit)  BY <1>i
  <2>3. Dated(docs'[f], View(f)'.says, commit)  BY <1>k, <2>1, <2>2 DEF Dated
  <2>4. \A q \in Packages : OwnedBy(docs'[f], q) \subseteq UNION Listings[q]
    BY <2>1, <1>i DEF ListingInv
  <2> QED BY <2>3, <2>4, <1>k, <1>u
<1> HIDE DEF Keeps
<1>1. ASSUME NEW p \in Packages, Plan(p) PROVE FreshInv'
  <2>1. docs' = docs /\ writer' = writer /\ reported' = reported /\ code' = code
        /\ commit' = commit
    BY <1>1 DEF Plan
  <2>2. \A g \in Files : View(g)' = View(g)  BY <2>1 DEF View
  <2> QED BY <1>a, <1>i, <2>1, <2>2 DEF FreshInv, ListingInv
<1>2. ASSUME NEW p \in Packages, NEW listing \in Listings[p], Commit(p, listing)
      PROVE FreshInv'
  <2>1. /\ ~Sharded /\ \A g \in Files : writer'[g] = Idle
        /\ reported' = [g \in Files |-> [q \in Packages |-> "no"]]
        /\ code' = [code EXCEPT ![p] = listing] /\ docs' = docs
    BY <1>2 DEF Commit
  <2>2. \A g \in Files : \A q \in Packages : View(g)'.says[q] = "no"
    BY <2>1 DEF View, ViewOf
  <2>3. \A g \in Files : Dated(docs'[g], View(g)'.says, commit')
    BY <1>i, <2>1, <2>2 DEF Dated
  <2>4. \A q \in Packages : code'[q] \in Listings[q]
    BY <1>i, <1>t, <2>1 DEF ListingInv, TypeInv
  <2>5. ListingInv'  BY <1>i, <2>1, <2>4 DEF ListingInv
  <2> QED BY <1>a, <2>1, <2>3, <2>5 DEF FreshInv
<1>3. ASSUME NEW f \in Files, NEW s \in Shards, NEW p \in Packages, NEW filter \in Filters,
             NEW reuse \in Reuses, NEW uncounted \in BOOLEAN,
             Save(f, s, p, filter, reuse, uncounted)
      PROVE FreshInv'
  <2>1. SavesFile(f, s, p, filter, reuse, uncounted)  BY <1>3, <1>t, SaveView
  <2>2. commit' = commit  BY <1>3 DEF Save
  <2>3. /\ Dated(docs'[f], View(f)'.says, commit)
        /\ \A q \in Packages : OwnedBy(docs'[f], q) \subseteq UNION Listings[q]
    BY <2>1, <2>2, <1>t, SaveDates
  <2>4. /\ code' = code
        /\ \A g \in Files \ {f} : docs'[g] = docs[g] /\ writer'[g] = writer[g]
                                  /\ reported'[g] = reported[g]
    BY <2>1 DEF SavesFile
  <2> QED BY <2>2, <2>3, <2>4, <1>u
<1>4. ASSUME NEW f \in Files, NEW s \in Shards, NEW p \in Packages, NEW filter \in Filters,
             NEW readListing \in BOOLEAN, Mark(f, s, p, filter, readListing)
      PROVE FreshInv'
  <2>1. MarksFile(f, s, p, filter, readListing)  BY <1>4, <1>t, MarkView
  <2>2. commit' = commit  BY <1>4 DEF Mark
  <2>3. /\ Dated(docs'[f], View(f)'.says, commit)
        /\ \A q \in Packages : OwnedBy(docs'[f], q) \subseteq UNION Listings[q]
    BY <2>1, <2>2, <1>t, MarkDates
  <2>4. /\ code' = code
        /\ \A g \in Files \ {f} : docs'[g] = docs[g] /\ writer'[g] = writer[g]
                                  /\ reported'[g] = reported[g]
    BY <2>1 DEF MarksFile
  <2> QED BY <2>2, <2>3, <2>4, <1>u
<1>5. ASSUME NEW f \in Files, Append(f) PROVE FreshInv'
  <2>1. writer[f] \in Writers /\ writer[f].step = "append"
    BY <1>d, <1>5 DEF Append, Idle
  <2>2. docs' = [docs EXCEPT ![f].entries = @ \cup writer[f].entries]
        /\ code' = code /\ commit' = commit
    BY <1>5 DEF Append
  <2>3. docs'[f].items = docs[f].items /\ docs'[f].owners = docs[f].owners
        /\ \A g \in Files \ {f} : docs'[g] = docs[g]
    BY <2>2, <1>d DEF Docs
  <2>4. CASE Sharded
    <3>1. reported' = reported /\ writer' = [writer EXCEPT ![f].step = "stamp"]
      BY <1>5, <2>4 DEF Append
    <3>2. /\ writer'[f].package = writer[f].package /\ writer'[f].how = writer[f].how
          /\ writer'[f].step = "stamp"
          /\ \A g \in Files \ {f} : writer'[g] = writer[g] /\ reported'[g] = reported[g]
      BY <3>1, <2>1, <1>d DEF Writers
    <3>3. writer[f] # Idle /\ writer'[f] # Idle  BY <2>1, <3>2 DEF Idle
    <3>4. \A q \in Packages : View(f)'.says[q] = View(f).says[q]
      BY <3>1, <3>2, <3>3 DEF View, ViewOf
    <3>9. Keeps(f)  BY <2>2, <2>3, <3>2, <3>4 DEF Keeps
    <3> QED BY <3>9, <1>k
  <2>5. CASE ~Sharded
    <3>1. /\ writer' = [writer EXCEPT ![f] = Idle]
          /\ reported' = [reported EXCEPT ![f][writer[f].package] = writer[f].how]
      BY <1>5, <2>5 DEF Append, Reports
    <3>2. /\ writer'[f] = Idle /\ writer[f] # Idle
          /\ \A g \in Files \ {f} : writer'[g] = writer[g] /\ reported'[g] = reported[g]
          /\ \A q \in Packages : reported'[f][q] =
               IF q = writer[f].package THEN writer[f].how ELSE reported[f][q]
      BY <3>1, <1>d, <2>1, <1>w
    <3>3. \A q \in Packages : View(f)'.says[q] = View(f).says[q]
      BY <3>2 DEF View, ViewOf
    <3>9. Keeps(f)  BY <2>2, <2>3, <3>2, <3>3 DEF Keeps
    <3> QED BY <3>9, <1>k
  <2> QED BY <2>4, <2>5
<1>6. ASSUME NEW f \in Files, Stamp(f) PROVE FreshInv'
  <2>1. writer[f] \in Writers  BY <1>d, <1>6 DEF Stamp, Idle
  <2>2. /\ docs' = [docs EXCEPT ![f] =
             Stamped(docs[f], writer[f].shard, writer[f].package, writer[f].ids)]
        /\ writer' = [writer EXCEPT ![f] = Idle]
        /\ reported' = [reported EXCEPT ![f][writer[f].package] = writer[f].how]
        /\ code' = code /\ commit' = commit
    BY <1>6 DEF Stamp, Reports
  <2>3. docs'[f].items = docs[f].items /\ docs'[f].owners = docs[f].owners
        /\ \A g \in Files \ {f} : docs'[g] = docs[g]
    BY <2>2, <1>d DEF Docs, Stamped
  <2>4. /\ writer'[f] = Idle /\ writer[f] # Idle
        /\ \A g \in Files \ {f} : writer'[g] = writer[g] /\ reported'[g] = reported[g]
        /\ \A q \in Packages : reported'[f][q] =
             IF q = writer[f].package THEN writer[f].how ELSE reported[f][q]
    BY <2>2, <1>d, <2>1, <1>w
  <2>5. \A q \in Packages : View(f)'.says[q] = View(f).says[q]  BY <2>4 DEF View, ViewOf
  <2>9. Keeps(f)  BY <2>2, <2>3, <2>4, <2>5 DEF Keeps
  <2> QED BY <2>9, <1>k
<1>7. ASSUME NEW f \in Files, Crash(f) PROVE FreshInv'
  <2>1. /\ docs' = docs /\ reported' = reported /\ code' = code /\ commit' = commit
        /\ writer[f] # Idle /\ writer' = [writer EXCEPT ![f] = Idle]
    BY <1>7 DEF Crash
  <2>2. /\ writer'[f] = Idle /\ \A g \in Files \ {f} : writer'[g] = writer[g]
        /\ reported[f][writer[f].package] = "cut"
    BY <2>1, <1>d, <1>t DEF CutInv
  <2>3. \A q \in Packages : View(f)'.says[q] = reported[f][q]
    BY <2>1, <2>2 DEF View, ViewOf
  <2>4. \A q \in Packages : View(f)'.says[q] \in {"listed", "unlisted"} =>
                              View(f)'.says[q] = View(f).says[q]
    BY <2>2, <2>3 DEF View, ViewOf
  <2>9. Keeps(f)  BY <2>1, <2>2, <2>4 DEF Keeps
  <2> QED BY <2>9, <1>k
<1>8. ASSUME NEW f \in Files, SaveAll(f) PROVE FALSE  BY <1>8 DEF SaveAll
<1>9. CASE UNCHANGED vars
  <2>1. docs' = docs /\ writer' = writer /\ reported' = reported /\ code' = code
        /\ commit' = commit
    BY <1>9 DEF vars
  <2>2. \A g \in Files : View(g)' = View(g)  BY <2>1 DEF View
  <2> QED BY <1>a, <1>i, <2>1, <2>2 DEF FreshInv, ListingInv
<1> QED BY <1>1, <1>2, <1>3, <1>4, <1>5, <1>6, <1>7, <1>8, <1>9 DEF Next

LEMMA InvFresh == FreshInv => Fresh
<1> SUFFICES ASSUME FreshInv, NEW f \in Files,
                    \A p \in Packages : reported[f][p] \in {"listed", "unlisted"},
                    NEW i \in Items, docs[f].items[i] # None
             PROVE  docs[f].items[i].at = commit
  BY DEF Fresh, NoNumber
<1>1. writer[f] = Idle
  <2> SUFFICES ASSUME writer[f] # Idle PROVE FALSE  OBVIOUS
  <2>1. writer[f].package \in Packages
    BY DEF FreshInv, AccountInv, LegInv, TypeInv, Writers
  <2> QED BY <2>1 DEF FreshInv, AccountInv, CutInv
<1>2. \A q \in Packages : View(f).says[q] = reported[f][q]  BY <1>1 DEF View, ViewOf
<1>3. Dated(docs[f], View(f).says, commit)  BY DEF FreshInv
<1> QED BY <1>2, <1>3 DEF Dated

(* While no save of the whole workspace is mixed in and no package stops      *)
(* listing what another still lists: once every package has been saved or     *)
(* marked in full, passing or not, no number of an earlier commit is left.    *)
THEOREM NothingHaunts ==
  ASSUME ~MeasureAll, KeepsShared
  PROVE  Spec => []Fresh
<1>1. FreshInv /\ [Next]_vars => FreshInv'  BY FreshStep
<1>2. Spec => []FreshInv  BY FreshInit, <1>1, PTL DEF Spec
<1> QED BY <1>2, InvFresh, PTL

-----------------------------------------------------------------------------
(* Legs of a sharded gate that measure all a package lists.                   *)
WholeLegs == Sharded /\ \A filter \in Filters : filter = Items

(* A package with owners in a file owns there all of this shard it lists ...  *)
OwnsShard(f) ==
  \A p \in DOMAIN OwnersOf(docs[f]) :
    reported[f][p] # "no" /\ \A i \in code[p] : Ours(View(f), i) => i \in OwnedBy(docs[f], p)

(* ... the stamp says what the binary listed ...                              *)
StampsListing(f) ==
  \A p \in Packages :
    /\ docs[f].listed[p] \notin {None, {}} => reported[f][p] \in {"listed", "cut"}
    /\ reported[f][p] = "listed" => docs[f].listed[p] = code[p]

(* ... or will say it ...                                                     *)
WillStamp(f) ==
  writer[f] # Idle =>
    /\ writer[f].how \in {"listed", "unlisted"}
    /\ writer[f].ids = IF writer[f].how = "listed" THEN code[writer[f].package] ELSE {}

(* ... and only a package with owners has entries that name an item.          *)
NamedOwn(f) == \A e \in View(f).es : e.items # {} => e.package \in DOMAIN OwnersOf(docs[f])

LegsInv ==
  /\ AccountInv
  /\ \A p \in Packages : plan[p] \in {None, code[p]}
  /\ \A f \in Files : OwnsShard(f) /\ StampsListing(f) /\ WillStamp(f) /\ NamedOwn(f)

(* A file with owners that a shard may still be saved to is that shard's.     *)
LEMMA OwnersStamped ==
  ASSUME Sharded, NEW doc \in Docs, NEW s \in Shards, CheckShard(doc, s),
         NEW p \in DOMAIN OwnersOf(doc)
  PROVE  doc.shard = s /\ p \in Packages
<1>1. doc.owners # None  BY DEF OwnersOf
<1>2. IsRust(doc)  BY <1>1 DEF IsRust
<1>3. OwnersOf(doc) \in OwnerMaps  BY <1>1 DEF OwnersOf, Docs
<1> QED BY <1>2, <1>3 DEF CheckShard, OwnerMaps

LEMMA SaveLegs ==
  ASSUME WholeLegs, LegsInv, TypeInv', NEW f \in Files, NEW s \in Shards, NEW p \in Packages,
         NEW filter \in Filters, NEW reuse \in Reuses, NEW uncounted \in BOOLEAN,
         SavesFile(f, s, p, filter, reuse, uncounted),
         docs'[f].listed = docs[f].listed,
         writer'[f].how = "listed" /\ writer'[f].ids = code[p]
  PROVE  OwnsShard(f)' /\ StampsListing(f)' /\ WillStamp(f)' /\ NamedOwn(f)'
<1> DEFINE measured == Measured(s, p, filter)
           material == Material(p, measured, measured \cap reuse, uncounted)
           doc == docs[f]
           new == docs'[f]
<1>0. TypeInv /\ doc \in Docs /\ Sharded /\ filter = Items
  BY DEF LegsInv, AccountInv, LegInv, TypeInv, WholeLegs
<1>1. /\ SavedOf(new, doc, p, TRUE, measured, measured \cap reuse, uncounted)
      /\ code' = code /\ writer[f] = Idle /\ CheckShard(doc, s)
      /\ writer'[f].package = p
      /\ reported'[f][p] = "cut" /\ \A q \in Packages \ {p} : reported'[f][q] = reported[f][q]
      /\ View(f)'.es = new.entries \cup material
      /\ View(f)'.leg = IF new.shard = None THEN s ELSE new.shard
  BY <1>0 DEF SavesFile
<1>2. /\ new.shard = doc.shard /\ new.entries \subseteq doc.entries
      /\ OwnedBy(new, p) = measured
      /\ DOMAIN OwnersOf(new) = {p} \cup DOMAIN OwnersOf(doc)
      /\ \A q \in Packages \ {p} : OwnedBy(new, q) = OwnedBy(doc, q)
  BY <1>1 DEF SavedOf
<1>3. /\ View(f).es = doc.entries /\ View(f).leg = doc.shard
  BY <1>1 DEF View, ViewOf, Idle
<1>4. \A q \in DOMAIN OwnersOf(doc) : doc.shard = s /\ q \in Packages
  BY <1>0, <1>1, OwnersStamped
<1>5. doc.shard \in {None, s}
  BY <1>0, <1>1 DEF CheckShard
<1>6. View(f)'.leg = s  BY <1>1, <1>2, <1>5
<1>7. OwnsShard(f) /\ StampsListing(f) /\ NamedOwn(f)  BY DEF LegsInv
<1>8. OwnsShard(f)'
  <2> SUFFICES ASSUME NEW q \in DOMAIN OwnersOf(new)
               PROVE  /\ reported'[f][q] # "no"
                      /\ \A i \in code[q] : ShardOf[i] = s => i \in OwnedBy(new, q)
    BY <1>0, <1>1, <1>6 DEF OwnsShard, Ours
  <2>1. CASE q = p
    <3>1. code[p] \subseteq Items  BY <1>0 DEF TypeInv
    <3>2. \A i \in code[p] : ShardOf[i] = s => i \in measured
      BY <3>1, <1>0 DEF Measured, Owns
    <3> QED BY <2>1, <3>2, <1>1, <1>2
  <2>2. CASE q # p
    <3>1. q \in DOMAIN OwnersOf(doc) /\ q \in Packages /\ doc.shard = s  BY <2>2, <1>2, <1>4
    <3> QED BY <2>2, <3>1, <1>1, <1>2, <1>3, <1>7 DEF OwnsShard, Ours
  <2> QED BY <2>1, <2>2
<1>9. StampsListing(f)'
  BY <1>1, <1>7 DEF StampsListing
<1>10. WillStamp(f)'  BY <1>1 DEF WillStamp
<1>11. NamedOwn(f)'
  <2>1. \A e \in material : e.package = p  BY DEF Material
  <2> HIDE DEF material
  <2> QED BY <2>1, <1>1, <1>2, <1>3, <1>7 DEF NamedOwn
<1> QED BY <1>8, <1>9, <1>10, <1>11

LEMMA MarkLegs ==
  ASSUME WholeLegs, LegsInv, TypeInv', NEW f \in Files, NEW s \in Shards, NEW p \in Packages,
         NEW filter \in Filters, NEW readListing \in BOOLEAN,
         MarksFile(f, s, p, filter, readListing),
         docs'[f].listed = docs[f].listed,
         writer'[f].how = (IF readListing THEN "listed" ELSE "unlisted"),
         writer'[f].ids = (IF readListing THEN code[p] ELSE {})
  PROVE  OwnsShard(f)' /\ StampsListing(f)' /\ WillStamp(f)' /\ NamedOwn(f)'
<1> DEFINE ids == MarkedIds(f, s, p, filter, readListing)
           doc == docs[f]
           new == docs'[f]
<1>0. TypeInv /\ doc \in Docs /\ Sharded /\ filter = Items /\ code[p] \subseteq Items
  BY DEF LegsInv, AccountInv, LegInv, TypeInv, WholeLegs
<1>1. /\ MarkedOf(new, doc, p, TRUE, ids)
      /\ code' = code /\ writer[f] = Idle /\ CheckShard(doc, s)
      /\ writer'[f].package = p
      /\ reported'[f][p] = "cut" /\ \A q \in Packages \ {p} : reported'[f][q] = reported[f][q]
      /\ View(f)'.es = new.entries
      /\ View(f)'.leg = IF new.shard = None THEN s ELSE new.shard
  BY <1>0 DEF MarksFile
<1>2. /\ new.shard = doc.shard
      /\ \A e \in new.entries : \/ e \in doc.entries /\ e.package # p
                                \/ e.package = p /\ e.items = ids
      /\ OwnedBy(new, p) = ids
      /\ DOMAIN OwnersOf(new) = IF ids # {} THEN {p} \cup DOMAIN OwnersOf(doc)
                                ELSE DOMAIN OwnersOf(doc) \ {p}
      /\ \A q \in Packages \ {p} : OwnedBy(new, q) = OwnedBy(doc, q)
  BY <1>1 DEF MarkedOf
<1>3. /\ View(f).es = doc.entries /\ View(f).leg = doc.shard
  BY <1>1 DEF View, ViewOf, Idle
<1>4. \A q \in DOMAIN OwnersOf(doc) : doc.shard = s /\ q \in Packages
  BY <1>0, <1>1, OwnersStamped
<1>5. doc.shard \in {None, s}
  BY <1>0, <1>1 DEF CheckShard
<1>6. View(f)'.leg = s  BY <1>1, <1>2, <1>5
<1>7. OwnsShard(f) /\ StampsListing(f) /\ NamedOwn(f)  BY DEF LegsInv
<1>h. /\ readListing => \A i \in code[p] : ShardOf[i] = s => i \in ids
      /\ ~readListing => ids = OwnedBy(doc, p)
  <2>1. OwnedBy(doc, p) \subseteq Items  BY <1>0, OwnersTyped
  <2> QED BY <2>1, <1>0 DEF MarkedIds, OwnedHere, Owns
<1> HIDE DEF ids
<1>8. OwnsShard(f)'
  <2> SUFFICES ASSUME NEW q \in DOMAIN OwnersOf(new)
               PROVE  /\ reported'[f][q] # "no"
                      /\ \A i \in code[q] : ShardOf[i] = s => i \in OwnedBy(new, q)
    BY <1>0, <1>1, <1>6 DEF OwnsShard, Ours
  <2>1. CASE q = p /\ readListing  BY <2>1, <1>1, <1>2, <1>h
  <2>2. CASE q = p /\ ~readListing
    <3>1. OwnedBy(doc, p) # {}  BY <2>2, <1>2, <1>h
    <3>2. p \in DOMAIN OwnersOf(doc)  BY <3>1 DEF OwnedBy
    <3> QED BY <2>2, <3>2, <1>1, <1>2, <1>3, <1>4, <1>7, <1>h DEF OwnsShard, Ours
  <2>3. CASE q # p
    <3>1. q \in DOMAIN OwnersOf(doc) /\ q \in Packages /\ doc.shard = s  BY <2>3, <1>2, <1>4
    <3> QED BY <2>3, <3>1, <1>1, <1>2, <1>3, <1>7 DEF OwnsShard, Ours
  <2> QED BY <2>1, <2>2, <2>3
<1>9. StampsListing(f)'
  BY <1>1, <1>7 DEF StampsListing
<1>10. WillStamp(f)'  BY <1>1 DEF WillStamp
<1>11. NamedOwn(f)'
  BY <1>1, <1>2, <1>3, <1>7 DEF NamedOwn
<1> QED BY <1>8, <1>9, <1>10, <1>11

LEMMA LegsInit == Init => LegsInv
<1> SUFFICES ASSUME Init PROVE LegsInv  OBVIOUS
<1>1. AccountInv  BY AccountInit
<1>2. /\ \A p \in Packages : plan[p] = None
      /\ \A f \in Files : /\ docs[f] = Blank /\ writer[f] = Idle
                          /\ \A p \in Packages : reported[f][p] = "no"
  BY DEF Init
<1>3. /\ DOMAIN OwnersOf(Blank) = {} /\ Blank.entries = {}
      /\ \A p \in Packages : Blank.listed[p] = None
  BY DEF Blank, OwnersOf
<1>4. \A f \in Files : View(f).es = {}  BY <1>2, <1>3 DEF View, ViewOf, Idle
<1> QED BY <1>1, <1>2, <1>3, <1>4 DEF LegsInv, OwnsShard, StampsListing, WillStamp, NamedOwn

LEMMA LegsStep == WholeLegs /\ LegsInv /\ [Next]_vars => LegsInv'
<1> SUFFICES ASSUME WholeLegs, LegsInv, [Next]_vars PROVE LegsInv'  OBVIOUS
<1>a. AccountInv /\ AccountInv'  BY AccountStep DEF LegsInv
<1>t. TypeInv /\ TypeInv' /\ CutInv /\ Sharded  BY <1>a DEF AccountInv, LegInv, WholeLegs
<1>d. /\ docs \in [Files -> Docs] /\ writer \in [Files -> Writers \cup {Idle}]
      /\ reported \in [Files -> [Packages -> Outcomes]]
      /\ code \in [Packages -> SUBSET Items] /\ plan \in [Packages -> (SUBSET Items) \cup {None}]
  BY <1>t DEF TypeInv
<1>w. \A w \in Writers : w # Idle /\ w.package \in Packages  BY DEF Writers, Idle
<1> DEFINE P(g) == OwnsShard(g) /\ StampsListing(g) /\ WillStamp(g) /\ NamedOwn(g)
<1>i. \A p \in Packages : plan[p] \in {None, code[p]}  BY DEF LegsInv
<1>p. ASSUME NEW g \in Files PROVE P(g)  BY DEF LegsInv
<1>s. ASSUME NEW g \in Files, code' = code, docs'[g] = docs[g], writer'[g] = writer[g],
             reported'[g] = reported[g]
      PROVE  P(g)'
  <2>1. View(g)' = View(g)  BY <1>s DEF View
  <2>2. OwnsShard(g)'  BY <2>1, <1>s, <1>p DEF OwnsShard, Ours
  <2>3. StampsListing(g)'  BY <1>s, <1>p DEF StampsListing
  <2>4. WillStamp(g)'  BY <1>s, <1>p DEF WillStamp
  <2>5. NamedOwn(g)'  BY <2>1, <1>s, <1>p DEF NamedOwn
  <2> QED BY <2>2, <2>3, <2>4, <2>5
<1> DEFINE Elsewhere(f) ==
      /\ code' = code /\ plan' = plan
      /\ \A g \in Files \ {f} : docs'[g] = docs[g] /\ writer'[g] = writer[g]
                                /\ reported'[g] = reported[g]
<1>u. ASSUME NEW f \in Files, Elsewhere(f), P(f)' PROVE LegsInv'
  <2>1. ASSUME NEW g \in Files PROVE P(g)'
    <3>1. CASE g = f  BY <3>1, <1>u
    <3>2. CASE g # f  BY <3>2, <1>u, <1>s
    <3> QED BY <3>1, <3>2
  <2> QED BY <2>1, <1>u, <1>a, <1>i DEF LegsInv
<1> HIDE DEF Elsewhere
<1>1. ASSUME NEW p \in Packages, Plan(p) PROVE LegsInv'
  <2>1. /\ docs' = docs /\ writer' = writer /\ reported' = reported /\ code' = code
        /\ plan' = [plan EXCEPT ![p] = code[p]]
    BY <1>1 DEF Plan
  <2>2. \A g \in Files : P(g)'  BY <2>1, <1>s
  <2>3. \A q \in Packages : plan'[q] \in {None, code'[q]}  BY <2>1, <1>d, <1>i
  <2> QED BY <2>2, <2>3, <1>a DEF LegsInv
<1>2. ASSUME NEW p \in Packages, NEW listing \in Listings[p], Commit(p, listing) PROVE FALSE
  BY <1>2, <1>t DEF Commit
<1>3. ASSUME NEW f \in Files, NEW s \in Shards, NEW p \in Packages, NEW filter \in Filters,
             NEW reuse \in Reuses, NEW uncounted \in BOOLEAN,
             Save(f, s, p, filter, reuse, uncounted)
      PROVE LegsInv'
  <2> DEFINE m == Measured(s, p, filter)
  <2>1. SavesFile(f, s, p, filter, reuse, uncounted)  BY <1>3, <1>t, SaveView
  <2>2. docs'[f].listed = docs[f].listed  BY <2>1 DEF SavesFile, SavedOf
  <2>3. /\ filter = Items /\ code[p] \cap filter = code[p]
        /\ Outcome(f, p, filter, "listed") = "listed"
    BY <1>d DEF WholeLegs, Outcome
  <2>4. writer'[f].how = "listed" /\ writer'[f].ids = code[p]
    <3>1. writer' = [writer EXCEPT ![f] =
            [step |-> "append", shard |-> s, package |-> p,
             entries |-> Material(p, m, m \cap reuse, uncounted),
             ids |-> code[p] \cap filter, how |-> Outcome(f, p, filter, "listed")]]
      BY <1>3 DEF Save
    <3> HIDE DEF m
    <3>2. writer'[f] =
            [step |-> "append", shard |-> s, package |-> p,
             entries |-> Material(p, m, m \cap reuse, uncounted),
             ids |-> code[p] \cap filter, how |-> Outcome(f, p, filter, "listed")]
      BY <3>1, <1>d
    <3> QED BY <3>2, <2>3
  <2>5. P(f)'  BY <2>1, <2>2, <2>4, <1>t, SaveLegs
  <2>6. Elsewhere(f)
    <3>1. plan' = plan  BY <1>3 DEF Save
    <3> QED BY <2>1, <3>1 DEF SavesFile, Elsewhere
  <2> QED BY <2>5, <2>6, <1>u
<1>4. ASSUME NEW f \in Files, NEW s \in Shards, NEW p \in Packages, NEW filter \in Filters,
             NEW readListing \in BOOLEAN, Mark(f, s, p, filter, readListing)
      PROVE LegsInv'
  <2>1. MarksFile(f, s, p, filter, readListing)  BY <1>4, <1>t, MarkView
  <2>2. docs'[f].listed = docs[f].listed  BY <2>1 DEF MarksFile, MarkedOf
  <2> DEFINE how == IF readListing THEN "listed" ELSE "unlisted"
             ids == IF readListing THEN code[p] \cap filter ELSE {}
  <2>3. /\ filter = Items /\ code[p] \cap filter = code[p]
        /\ Outcome(f, p, filter, how) = how
    BY <1>d DEF WholeLegs, Outcome
  <2>4. writer'[f].how = how /\ writer'[f].ids = (IF readListing THEN code[p] ELSE {})
    <3>1. writer' = [writer EXCEPT ![f] =
            [step |-> "stamp", shard |-> s, package |-> p, entries |-> {},
             ids |-> ids, how |-> Outcome(f, p, filter, how)]]
      BY <1>4, <1>t DEF Mark
    <3> HIDE DEF how, ids
    <3>2. writer'[f].how = how /\ writer'[f].ids = ids  BY <3>1, <1>d, <2>3
    <3> QED BY <3>2, <2>3 DEF ids
  <2>5. P(f)'  BY <2>1, <2>2, <2>4, <1>t, MarkLegs
  <2>6. Elsewhere(f)
    <3>1. plan' = plan  BY <1>4 DEF Mark
    <3> QED BY <2>1, <3>1 DEF MarksFile, Elsewhere
  <2> QED BY <2>5, <2>6, <1>u
<1>5. ASSUME NEW f \in Files, Append(f) PROVE LegsInv'
  <2>1. writer[f] \in Writers /\ writer[f].step = "append"
    BY <1>d, <1>5 DEF Append, Idle
  <2>2. /\ docs' = [docs EXCEPT ![f].entries = @ \cup writer[f].entries]
        /\ code' = code /\ plan' = plan /\ reported' = reported
        /\ writer' = [writer EXCEPT ![f].step = "stamp"]
    BY <1>5, <1>t DEF Append
  <2>3. /\ docs'[f].owners = docs[f].owners /\ docs'[f].listed = docs[f].listed
        /\ docs'[f].shard = docs[f].shard
        /\ docs'[f].entries = docs[f].entries \cup writer[f].entries
        /\ \A g \in Files \ {f} : docs'[g] = docs[g]
    BY <2>2, <1>d DEF Docs
  <2>4. /\ writer'[f].package = writer[f].package /\ writer'[f].how = writer[f].how
        /\ writer'[f].ids = writer[f].ids /\ writer'[f].shard = writer[f].shard
        /\ writer'[f].step = "stamp" /\ \A g \in Files \ {f} : writer'[g] = writer[g]
    BY <2>2, <2>1, <1>d DEF Writers
  <2>5. writer[f] # Idle /\ writer'[f] # Idle  BY <2>1, <2>4 DEF Idle
  <2>6. View(f)'.leg = View(f).leg /\ View(f)'.es = View(f).es
    BY <2>1, <2>3, <2>4, <2>5 DEF View, ViewOf
  <2>7. /\ OwnersOf(docs'[f]) = OwnersOf(docs[f])
        /\ \A q : OwnedBy(docs'[f], q) = OwnedBy(docs[f], q)
    BY <2>3 DEF OwnersOf, OwnedBy
  <2>8. OwnsShard(f)'  BY <2>2, <2>6, <2>7, <1>p DEF OwnsShard, Ours
  <2>9. StampsListing(f)'  BY <2>2, <2>3, <1>p DEF StampsListing
  <2>10. WillStamp(f)'  BY <2>2, <2>4, <2>5, <1>p DEF WillStamp
  <2>11. NamedOwn(f)'  BY <2>6, <2>7, <1>p DEF NamedOwn
  <2>12. Elsewhere(f)  BY <2>2, <2>3, <2>4 DEF Elsewhere
  <2> QED BY <2>8, <2>9, <2>10, <2>11, <2>12, <1>u
<1>6. ASSUME NEW f \in Files, Stamp(f) PROVE LegsInv'
  <2>1. writer[f] \in Writers /\ writer[f].step = "stamp"
    BY <1>d, <1>6 DEF Stamp, Idle
  <2> DEFINE k == writer[f].package
  <2>2. /\ docs' = [docs EXCEPT ![f] = Stamped(docs[f], writer[f].shard, k, writer[f].ids)]
        /\ writer' = [writer EXCEPT ![f] = Idle]
        /\ reported' = [reported EXCEPT ![f][k] = writer[f].how]
        /\ code' = code /\ plan' = plan
    BY <1>6 DEF Stamp, Reports
  <2>3. /\ docs'[f].owners = docs[f].owners /\ docs'[f].shard = writer[f].shard
        /\ docs'[f].entries = docs[f].entries
        /\ docs'[f].listed = [docs[f].listed EXCEPT ![k] = writer[f].ids]
        /\ \A g \in Files \ {f} : docs'[g] = docs[g]
    BY <2>2, <1>d DEF Docs, Stamped
  <2>4. /\ writer'[f] = Idle /\ writer[f] # Idle /\ k \in Packages
        /\ \A g \in Files \ {f} : writer'[g] = writer[g] /\ reported'[g] = reported[g]
        /\ \A q \in Packages : reported'[f][q] =
             IF q = k THEN writer[f].how ELSE reported[f][q]
    BY <2>2, <1>d, <2>1, <1>w
  <2>5. /\ docs[f].listed \in [Packages -> (SUBSET Items) \cup {None}]
        /\ DOMAIN OwnersOf(docs[f]) \subseteq Packages
    BY <1>d DEF Docs, OwnersOf, OwnerMaps
  <2>6. \A q \in Packages : docs'[f].listed[q] =
          IF q = k THEN writer[f].ids ELSE docs[f].listed[q]
    BY <2>3, <2>5
  <2>7. /\ OwnersOf(docs'[f]) = OwnersOf(docs[f])
        /\ \A q : OwnedBy(docs'[f], q) = OwnedBy(docs[f], q)
    BY <2>3 DEF OwnersOf, OwnedBy
  <2>8. docs[f].shard \in {None, writer[f].shard} /\ writer[f].shard # None
    <3>1. docs[f].shard \in {None, writer[f].shard}
      BY <1>a, <1>t, <2>4 DEF AccountInv, LegInv, WriterHolds
    <3> QED BY <2>1, <3>1, NoneApart DEF Writers
  <2>9. View(f)'.leg = View(f).leg /\ View(f)'.es = View(f).es
    <3>1. View(f)'.leg = writer[f].shard /\ View(f).leg = writer[f].shard
      BY <2>3, <2>4, <2>8 DEF View, ViewOf
    <3>2. View(f)'.es = docs[f].entries /\ View(f).es = docs[f].entries
      BY <2>1, <2>3, <2>4 DEF View, ViewOf, Idle
    <3> QED BY <3>1, <3>2
  <2>10. /\ writer[f].how \in {"listed", "unlisted"}
         /\ writer[f].ids = IF writer[f].how = "listed" THEN code[k] ELSE {}
    BY <2>4, <1>p DEF WillStamp
  <2> HIDE DEF k
  <2>11. OwnsShard(f)'  BY <2>2, <2>4, <2>5, <2>7, <2>9, <2>10, <1>p DEF OwnsShard, Ours
  <2>12. StampsListing(f)'  BY <2>2, <2>4, <2>6, <2>10, <1>p DEF StampsListing
  <2>13. WillStamp(f)'  BY <2>4 DEF WillStamp
  <2>14. NamedOwn(f)'  BY <2>7, <2>9, <1>p DEF NamedOwn
  <2>15. Elsewhere(f)  BY <2>2, <2>3, <2>4 DEF Elsewhere
  <2> QED BY <2>11, <2>12, <2>13, <2>14, <2>15, <1>u
<1>7. ASSUME NEW f \in Files, Crash(f) PROVE LegsInv'
  <2>1. /\ docs' = docs /\ reported' = reported /\ code' = code /\ plan' = plan
        /\ writer[f] # Idle /\ writer' = [writer EXCEPT ![f] = Idle]
    BY <1>7 DEF Crash
  <2>2. writer'[f] = Idle /\ \A g \in Files \ {f} : writer'[g] = writer[g]  BY <2>1, <1>d
  <2>3. View(f)'.es \subseteq View(f).es /\ View(f)'.leg \in {None, View(f).leg}
    BY <2>1, <2>2 DEF View, ViewOf, Idle
  <2>4. OwnsShard(f)'
    <3>1. \A q \in Packages : \A i \in code[q] : ShardOf[i] # None
      BY <1>d, NoneApart, ShardAssumption
    <3>2. DOMAIN OwnersOf(docs[f]) \subseteq Packages
      BY <1>d DEF Docs, OwnersOf, OwnerMaps
    <3>3. \A q \in Packages : \A i \in code[q] : Ours(View(f)', i) => Ours(View(f), i)
      BY <2>3, <3>1, <1>t DEF Ours
    <3> QED BY <2>1, <3>2, <3>3, <1>p DEF OwnsShard
  <2>5. StampsListing(f)'  BY <2>1, <1>p DEF StampsListing
  <2>6. WillStamp(f)'  BY <2>2 DEF WillStamp
  <2>7. NamedOwn(f)'  BY <2>1, <2>3, <1>p DEF NamedOwn
  <2>8. Elsewhere(f)  BY <2>1, <2>2 DEF Elsewhere
  <2> QED BY <2>4, <2>5, <2>6, <2>7, <2>8, <1>u
<1>8. ASSUME NEW f \in Files, SaveAll(f) PROVE FALSE  BY <1>8, <1>t DEF SaveAll
<1>9. CASE UNCHANGED vars
  <2>1. docs' = docs /\ writer' = writer /\ reported' = reported /\ code' = code /\ plan' = plan
    BY <1>9 DEF vars
  <2>2. \A g \in Files : P(g)'  BY <2>1, <1>s
  <2> QED BY <1>a, <1>i, <2>1, <2>2 DEF LegsInv
<1> QED BY <1>1, <1>2, <1>3, <1>4, <1>5, <1>6, <1>7, <1>8, <1>9 DEF Next

(* What an entry names, or the file that alone has its number, the merged     *)
(* baseline answers for.                                                      *)
LEMMA EntryRead ==
  ASSUME NEW fs, NEW planned, NEW i, NEW m, NEW e \in Merged(fs, planned).entries,
         i \in e.items, e.metrics = {} \/ m \in e.metrics
  PROVE  Readable(Merged(fs, planned), i, m)
BY DEF Readable

LEMMA NumberRead ==
  ASSUME NEW fs, Merges(fs), NEW planned, NEW i \in Items, NEW m, NEW f \in fs,
         docs[f].items[i] # None, m \in docs[f].items[i].has
  PROVE  Readable(Merged(fs, planned), i, m)
<1> DEFINE holding == {g \in fs : docs[g].items[i] # None}
<1>1. \A g \in holding : g = f  BY DEF Merges, Corrupt, NoNumber
<1>2. f \in holding  OBVIOUS
<1>3. (CHOOSE g \in holding : TRUE) = f  BY <1>1, <1>2
<1>4. MergedItem(fs, i) = docs[f].items[i]
  <2>1. MergedItem(fs, i) =
          IF holding = {} THEN None ELSE docs[CHOOSE g \in holding : TRUE].items[i]
    BY DEF MergedItem, NoNumber
  <2> HIDE DEF holding
  <2> QED BY <2>1, <1>2, <1>3
<1>5. Merged(fs, planned).items[i] = docs[f].items[i]  BY <1>4 DEF Merged
<1> QED BY <1>5 DEF Readable, NoNumber

(* A shard that saved nothing of the package has an entry with all of it that *)
(* somebody knows of.                                                         *)
LEMMA MissingRead ==
  ASSUME NEW fs, NEW planned, NEW p \in Packages, NEW s \in Missing(fs, p),
         NEW i \in Known(fs, p, planned), ShardOf[i] = s, NEW m
  PROVE  Readable(Merged(fs, planned), i, m)
<1> DEFINE known == Known(fs, p, planned)
           nameless(t) == \E f \in FileOf(fs, t) : \E e \in docs[f].entries :
                            e.package = p /\ e.items = {}
           reason(t) == IF nameless(t) THEN "gate-failed"
                        ELSE IF \E f \in fs : Covers(docs[f], p) THEN "shard-missing"
                        ELSE "no-measurement"
           entry(t) == [package |-> p, reason |-> reason(t), metrics |-> {},
                        items |-> OwnedHere(t, known)]
<1>1. known # {}  OBVIOUS
<1>2. Unaccounted(fs, p, planned) = {e \in {entry(t) : t \in Missing(fs, p)} : e.items # {}}
  BY <1>1 DEF Unaccounted
<1>3. i \in entry(s).items  BY DEF OwnedHere, Owns
<1>4. entry(s) \in Unaccounted(fs, p, planned)  BY <1>2, <1>3
<1>5. entry(s) \in Merged(fs, planned).entries  BY <1>4 DEF Merged
<1>6. entry(s).metrics = {}  OBVIOUS
<1> QED BY <1>3, <1>5, <1>6, EntryRead

LEMMA InvMergeAccounts == WholeLegs /\ LegsInv => MergeAccounts
<1> SUFFICES ASSUME WholeLegs, LegsInv, NEW fs \in SUBSET Written,
                    NEW planned \in {plan, [p \in Packages |-> None]},
                    Merges(fs), NotCut(fs), NEW p \in Packages,
                    planned[p] # None \/ \E f \in fs : reported[f][p] = "listed",
                    NEW i \in code[p], NEW m \in Metrics
             PROVE  Readable(Merged(fs, planned), i, m)
  BY DEF MergeAccounts
<1>1. Sharded /\ AccountInv /\ TypeInv /\ i \in Items /\ fs \subseteq Files
  BY DEF WholeLegs, LegsInv, AccountInv, LegInv, TypeInv, Written
<1>2. ASSUME NEW f \in fs
      PROVE  /\ View(f).list = code /\ View(f).num = docs[f].items
             /\ View(f).es = docs[f].entries /\ View(f).leg = docs[f].shard
             /\ \A q \in Packages : /\ View(f).says[q] = reported[f][q]
                                    /\ View(f).own[q] = OwnedBy(docs[f], q)
  <2>1. writer[f] = Idle
    <3> SUFFICES ASSUME writer[f] # Idle PROVE FALSE  OBVIOUS
    <3>1. writer[f].package \in Packages  BY <1>1 DEF TypeInv, Writers
    <3> QED BY <1>1, <3>1 DEF AccountInv, CutInv, NotCut
  <2> QED BY <2>1 DEF View, ViewOf, Idle
<1>3. i \in Known(fs, p, planned)
  <2>1. CASE planned[p] # None
    <3>1. planned[p] = code[p]  BY <2>1 DEF LegsInv
    <3> QED BY <2>1, <3>1 DEF Known
  <2>2. ASSUME NEW f \in fs, reported[f][p] = "listed" PROVE i \in Known(fs, p, planned)
    <3>1. docs[f].listed[p] = code[p]  BY <1>1, <2>2 DEF LegsInv, StampsListing
    <3>2. code[p] # None  BY <1>1, NoneApart DEF TypeInv
    <3> QED BY <3>1, <3>2 DEF Known
  <2> QED BY <2>1, <2>2
<1>4. ShardOf[i] \in Shards  BY <1>1, ShardAssumption
<1>5. CASE ShardOf[i] \in Missing(fs, p)  BY <1>3, <1>5, MissingRead
<1>6. CASE ShardOf[i] \notin Missing(fs, p)
  <2>1. PICK f \in fs : docs[f].shard = ShardOf[i] /\ Covers(docs[f], p)
    BY <1>1, <1>4, <1>6 DEF Missing, FileOf
  <2>2. f \in Files /\ Ours(View(f), i) /\ Accounts(View(f))
    BY <1>1, <1>2, <2>1 DEF Ours, AccountInv
  <2>3. p \in DOMAIN OwnersOf(docs[f]) \/ reported[f][p] = "listed"
    <3>1. reported[f][p] # "cut"  BY DEF NotCut
    <3>2. OwnsShard(f) /\ StampsListing(f) /\ NamedOwn(f)  BY <2>2 DEF LegsInv
    <3> QED BY <1>2, <2>1, <3>1, <3>2 DEF Covers, StampsListing, NamedOwn
  <2>4. i \in OwnedBy(docs[f], p) /\ reported[f][p] \in {"listed", "unlisted"}
    <3>1. CASE reported[f][p] = "listed"  BY <1>2, <2>2, <3>1 DEF Accounts, Owned
    <3>2. CASE p \in DOMAIN OwnersOf(docs[f])
      <4>1. reported[f][p] # "no" /\ i \in OwnedBy(docs[f], p)
        BY <2>2, <3>2 DEF LegsInv, OwnsShard
      <4>2. reported[f][p] \in Outcomes /\ reported[f][p] # "cut"
        BY <1>1, <2>2 DEF TypeInv, NotCut
      <4> QED BY <4>1, <4>2 DEF Outcomes
    <3> QED BY <2>3, <3>1, <3>2
  <2>5. PICK r \in Packages : Answers(View(f), r, i)
    BY <1>1, <1>2, <2>2, <2>4 DEF Accounts, Answered, Holds
  <2>6. View(f).says[r] # "cut"  BY <1>2 DEF NotCut
  <2>7. Named(docs[f].entries, r, i) \/ Counted(docs[f].entries, docs[f].items, r, i)
    BY <1>2, <2>5, <2>6 DEF Answers, Vouches
  <2>8. docs[f].entries \subseteq Merged(fs, planned).entries  BY DEF Merged
  <2>9. CASE Named(docs[f].entries, r, i)  BY <2>8, <2>9, EntryRead DEF Named
  <2>10. CASE Counted(docs[f].entries, docs[f].items, r, i)
    <3>1. docs[f].items[i] # None  BY <2>10 DEF Counted
    <3>2. CASE m \in docs[f].items[i].has  BY <1>1, <3>1, <3>2, NumberRead
    <3>3. CASE m \notin docs[f].items[i].has
      <4>1. PICK e \in docs[f].entries : i \in e.items /\ m \in e.metrics
        BY <2>10, <3>3 DEF Counted
      <4> QED BY <2>8, <4>1, EntryRead
    <3> QED BY <3>2, <3>3
  <2> QED BY <2>7, <2>9, <2>10
<1> QED BY <1>5, <1>6

(* For any packages, items and number of shards, whichever legs of a sharded  *)
(* gate were uploaded, failed, were killed or never ran: where the plan or one *)
(* of them listed a package, the merged baseline answers for every metric of  *)
(* every item of it.                                                          *)
THEOREM MergedIsAccounted ==
  ASSUME WholeLegs
  PROVE  Spec => []MergeAccounts
<1>1. LegsInv /\ [Next]_vars => LegsInv'  BY LegsStep
<1>2. LegsInv => MergeAccounts  BY InvMergeAccounts
<1>3. Spec => []LegsInv  BY LegsInit, <1>1, PTL DEF Spec
<1> QED BY <1>2, <1>3, PTL
=============================================================================
