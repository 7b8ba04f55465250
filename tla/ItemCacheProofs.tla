-------------------------- MODULE ItemCacheProofs ---------------------------
(***************************************************************************)
(* What an item cache answers is what measuring would have given, for any   *)
(* binaries, items, claims, invocations and interleaving; and the files     *)
(* implement ItemMemo.  Why code the same as what was executed executes the *)
(* same is Lemma SameCode.                                                  *)
(***************************************************************************)
EXTENDS ItemCache, FiniteSetTheorems, WellFoundedInduction, TLAPS

(* An entry holds what measuring its item gave in some binary, and passed.  *)
EntryIs(e) == [code |-> e.code, finger |-> e.finger, ok |-> e.ok, at |-> e.at]
GoodEntry(i, e) ==
  /\ e = EntryIs(e)
  /\ IsEntry(e)
  /\ e.ok = TRUE
  /\ \E b \in Binaries : e.code = Executed[b][i] /\ e.finger = Finger[b][i] /\ e.ok = Outcome(b, i).ok

(* Entries in an order, no two of a code.                                   *)
Ordered(S) ==
  /\ IsFiniteSet(S)
  /\ \A e \in S : e.at \in Nat
  /\ \A d, e \in S : d.at = e.at \/ d.code = e.code => d = e

GoodFile(i, f) ==
  \/ f \in {Absent, Empty, Torn}
  \/ /\ Ordered(f)
     /\ \A e \in f : GoodEntry(i, e) /\ e.at \in 1..PerItem

RunIs(bins) == [s \in DOMAIN bins |-> [i \in Listing[bins[s]] |-> Outcome(bins[s], i)]]

IsJob(j) ==
  j = [pc |-> j.pc, bins |-> j.bins, run |-> j.run, todo |-> j.todo, task |-> j.task, held |-> j.held]

GoodStore(bins, t) ==
  \E s \in DOMAIN bins :
    t.item \in Listing[bins[s]] /\ t.entry = Outcome(bins[s], t.item) /\ Outcome(bins[s], t.item).ok

(* A task of invocation j, with the archive's files.                        *)
GoodTask(bins, t, files) ==
  /\ t = Task(t.side, t.item, t.entry)
  /\ t.side \in {1, 2}
  /\ t.item = None => t.entry = None
  /\ t.item # None =>
       /\ t.item \in Items
       /\ t.entry = None => Readable(files[t.item])
       /\ t.entry # None => bins \in Measured /\ GoodStore(bins, t)

GoodRun(bins, run) ==
  \/ bins = <<>> /\ run = <<>>
  \/ bins \in Measured /\ run = RunIs(bins)

GoodJob(j, files) ==
  /\ IsJob(j)
  /\ j.pc \in {"idle", "next", "truncate", "write"}
  /\ j.pc = "idle" => j = Idle
  /\ GoodRun(j.bins, j.run)
  /\ \A t \in j.todo : GoodTask(j.bins, t, files)
  /\ j.pc \in {"truncate", "write"} =>
       GoodTask(j.bins, j.task, files) /\ j.task.item # None /\ GoodFile(j.task.item, j.held)
  /\ j.pc \notin {"truncate", "write"} => j.task = None /\ j.held = {}

FilesGood ==
  /\ file = [i \in Items |-> file[i]]
  /\ \A i \in Items : GoodFile(i, file[i]) /\ GoodFile(i, archive.file[i])
  /\ written \in [Items -> Nat] /\ archive.written \in [Items -> Nat]
  /\ \A i \in Items : written[i] = 0 => file[i] = Absent
  /\ \A i \in Items : archive.written[i] = 0 => archive.file[i] = Absent
  /\ archive = [file |-> [i \in Items |-> archive.file[i]], written |-> archive.written]

MemoInv ==
  /\ FilesGood
  /\ job = [p \in Procs |-> job[p]]
  /\ \A p \in Procs : GoodJob(job[p], archive.file)
  /\ jobs \in 0..MaxJobs

-----------------------------------------------------------------------------
(* A set of naturals has a least.                                           *)
LEMMA SmallestNat ==
  ASSUME NEW S \in SUBSET Nat, S # {}
  PROVE  \E n \in S : \A m \in S : n <= m
<1> DEFINE R == {ss \in Nat \X Nat : ss[1] < ss[2]}
<1>1. IsWellFoundedOn(R, Nat)
  BY NatLessThanWellFounded DEF OpToRel
<1>2. PICK n \in S : \A m \in S : <<m, n>> \notin R
  BY <1>1, WFMin
<1>3. ASSUME NEW m \in S
      PROVE  n <= m
  <2>1. n \in Nat /\ m \in Nat /\ <<m, n>> \in Nat \X Nat
    OBVIOUS
  <2>2. ~(m < n)
    BY <1>2, <2>1
  <2>3. QED
    BY <2>1, <2>2
<1>4. QED
  BY <1>3

(* What is reachable is closed and has the root, and is within every set    *)
(* that is and has.                                                         *)
LEMMA ReachLeast ==
  ASSUME NEW b \in Binaries, NEW i \in Items
  PROVE  /\ Reach(b, i) \in SUBSET Functions
         /\ Root[i] \in Reach(b, i)
         /\ Closed(b, Reach(b, i))
         /\ \A S \in SUBSET Functions : Root[i] \in S /\ Closed(b, S) => Reach(b, i) \subseteq S
<1>1. Reach(b, i) \in SUBSET Functions
  BY DEF Reach
<1>2. Root[i] \in Reach(b, i)
  BY BinariesAssumption DEF Reach
<1>3. \A S \in SUBSET Functions : Root[i] \in S /\ Closed(b, S) => Reach(b, i) \subseteq S
  BY DEF Reach
<1>4. ASSUME NEW f \in Reach(b, i), NEW g \in Calls[Code[b][f]]
      PROVE  g \in Reach(b, i)
  <2>1. f \in Functions /\ Code[b][f] \in Contents
    BY <1>1, BinariesAssumption
  <2>2. g \in Functions
    BY <2>1, BinariesAssumption
  <2>3. ASSUME NEW S \in SUBSET Functions, Root[i] \in S, Closed(b, S)
        PROVE  g \in S
    <3>1. f \in S
      BY <1>3, <2>3
    <3>2. QED
      BY <3>1, <2>3 DEF Closed
  <2>4. QED
    BY <2>2, <2>3 DEF Reach
<1>5. QED
  BY <1>1, <1>2, <1>3, <1>4 DEF Closed

LEMMA ExecutedIs ==
  ASSUME NEW b \in Binaries, NEW i \in Items
  PROVE  /\ Executed[b][i] = [f \in Reach(b, i) |-> Code[b][f]]
         /\ DOMAIN Executed[b][i] = Reach(b, i)
         /\ Executed[b][i] \in Codes
<1>1. Executed[b][i] = [f \in Reach(b, i) |-> Code[b][f]]
  BY DEF Executed
<1>2. Executed[b][i] \in [Reach(b, i) -> Contents]
  BY <1>1, ReachLeast, BinariesAssumption
<1>3. QED
  BY <1>1, <1>2, ReachLeast DEF Codes

(* Code that hashes alike in another binary is what the item executes       *)
(* there: nothing it runs is left out of the key, and what it runs calls    *)
(* nothing else.                                                            *)
LEMMA SameCode ==
  ASSUME NEW b \in Binaries, NEW c \in Binaries, NEW i \in Items,
         CodeKey(c, Executed[b][i]) = Executed[b][i]
  PROVE  Executed[c][i] = Executed[b][i]
<1>1. DOMAIN Executed[b][i] = Reach(b, i) /\ Executed[b][i] # None
  BY ExecutedIs, NoneAssumption
<1>2. \A f \in Reach(b, i) : Code[c][f] = Code[b][f]
  <2>1. Executed[b][i] = [f \in Reach(b, i) |-> Code[c][f]]
    BY <1>1 DEF CodeKey
  <2>2. Executed[b][i] = [f \in Reach(b, i) |-> Code[b][f]]
    BY ExecutedIs
  <2>3. QED
    BY <2>1, <2>2
<1>3. Closed(c, Reach(b, i))
  BY <1>2, ReachLeast DEF Closed
<1>4. Reach(c, i) \subseteq Reach(b, i)
  <2>1. Reach(b, i) \in SUBSET Functions /\ Root[i] \in Reach(b, i)
    BY ReachLeast
  <2>2. QED
    BY <1>3, <2>1, ReachLeast
<1>5. Closed(b, Reach(c, i))
  <2>1. \A f \in Reach(c, i) : Calls[Code[b][f]] = Calls[Code[c][f]]
    BY <1>2, <1>4
  <2>2. Closed(c, Reach(c, i))
    BY ReachLeast
  <2>3. QED
    BY <2>1, <2>2 DEF Closed
<1>6. Reach(b, i) \subseteq Reach(c, i)
  BY <1>5, ReachLeast
<1>7. Reach(b, i) = Reach(c, i)
  BY <1>4, <1>6
<1>8. [f \in Reach(c, i) |-> Code[c][f]] = [f \in Reach(b, i) |-> Code[b][f]]
  BY <1>2, <1>7
<1>9. Executed[c][i] = [f \in Reach(c, i) |-> Code[c][f]]
  BY ExecutedIs
<1>10. Executed[b][i] = [f \in Reach(b, i) |-> Code[b][f]]
  BY ExecutedIs
<1>11. QED
  BY <1>8, <1>9, <1>10, Zenon

LEMMA OutcomeIs ==
  ASSUME NEW b \in Binaries, NEW i \in Items
  PROVE  /\ Outcome(b, i) \in Outcomes
         /\ Outcome(b, i) # None
         /\ Outcome(b, i).code = Executed[b][i]
         /\ Outcome(b, i).finger = Finger[b][i]
         /\ Outcome(b, i).ok = Holds(Executed[b][i], Finger[b][i])
         /\ DOMAIN Outcome(b, i) = {"code", "finger", "ok"}
<1>1. Executed[b][i] \in Codes
  BY ExecutedIs
<1>2. Finger[b][i] \in Fingers
  BY BinariesAssumption
<1>3. Holds(Executed[b][i], Finger[b][i]) \in BOOLEAN
  BY DEF Holds
<1>4. QED
  BY <1>1, <1>2, <1>3, NoneAssumption DEF Outcome, Outcomes

(* An entry found for an item of a binary is what measuring it there gives. *)
LEMMA LookupTrue ==
  ASSUME NEW i \in Items, NEW c \in Binaries, NEW f, GoodFile(i, f),
         Lookup(Read(f), c, i) # None
  PROVE  Lookup(Read(f), c, i) = Outcome(c, i) /\ Outcome(c, i).ok
<1> DEFINE fit == {e \in Read(f) : Fits(e, c, i)}
           e0 == CHOOSE e \in fit : \A o \in fit : e.at <= o.at
<1>1. fit # {} /\ Lookup(Read(f), c, i) = Spliced(e0)
  BY DEF Lookup
<1>2. \A e \in fit : GoodEntry(i, e) /\ Fits(e, c, i)
  BY DEF Read, Readable, GoodFile
<1>3. e0 \in fit
  <2>1. \E e \in fit : \A o \in fit : e.at <= o.at
    <3>1. \A e \in fit : e.at \in Nat
      BY <1>2 DEF GoodEntry, IsEntry
    <3> DEFINE ats == {e.at : e \in fit}
    <3>2. ats \in SUBSET Nat /\ ats # {}
      BY <3>1, <1>1
    <3>3. \E n \in ats : \A m \in ats : n <= m
      BY <3>2, SmallestNat
    <3>4. QED
      BY <3>3
  <2>2. QED
    BY <2>1
<1>4. PICK b \in Binaries : e0.code = Executed[b][i] /\ e0.finger = Finger[b][i] /\ e0.ok = Outcome(b, i).ok
  BY <1>2, <1>3 DEF GoodEntry
<1>5. e0.finger = Finger[c][i] /\ CodeKey(c, e0.code) = e0.code /\ e0.ok = TRUE
  BY <1>2, <1>3 DEF Fits, GoodEntry
<1>6. Executed[c][i] = Executed[b][i]
  BY <1>4, <1>5, SameCode
<1>7. Spliced(e0) = Outcome(c, i)
  BY <1>4, <1>5, <1>6, OutcomeIs DEF Spliced, Outcome
<1>8. QED
  BY <1>1, <1>5, <1>7, <1>4, <1>6, OutcomeIs

-----------------------------------------------------------------------------
(* Places *)

LEMMA PlaceIs ==
  ASSUME NEW S, Ordered(S), NEW e \in S
  PROVE  Place(S, e) \in Nat /\ Place(S, e) >= 1
<1>1. IsFiniteSet({o \in S : o.at < e.at})
  BY FS_Subset DEF Ordered
<1>2. Cardinality({o \in S : o.at < e.at}) \in Nat
  BY <1>1, FS_CardinalityType
<1>3. QED
  BY <1>2 DEF Place

(* An entry further back has a greater place.                               *)
LEMMA PlaceGrows ==
  ASSUME NEW S, Ordered(S), NEW d \in S, NEW e \in S, d.at < e.at
  PROVE  Place(S, d) < Place(S, e)
<1> DEFINE D == {o \in S : o.at < d.at}
           E == {o \in S : o.at < e.at}
<1>1. IsFiniteSet(D) /\ IsFiniteSet(E)
  BY FS_Subset DEF Ordered
<1>2. d.at \in Nat /\ e.at \in Nat /\ \A o \in S : o.at \in Nat
  BY DEF Ordered
<1>3. d \notin D /\ D \cup {d} \subseteq E
  BY <1>2
<1>4. IsFiniteSet(D \cup {d}) /\ Cardinality(D \cup {d}) = Cardinality(D) + 1
  BY <1>1, <1>3, FS_AddElement
<1>5. Cardinality(D \cup {d}) <= Cardinality(E)
  BY <1>1, <1>3, FS_Subset
<1>6. Cardinality(D) \in Nat /\ Cardinality(E) \in Nat
  BY <1>1, FS_CardinalityType
<1>7. QED
  BY <1>4, <1>5, <1>6 DEF Place

LEMMA PlacesDiffer ==
  ASSUME NEW S, Ordered(S), NEW d \in S, NEW e \in S, Place(S, d) = Place(S, e)
  PROVE  d = e
<1>1. d.at \in Nat /\ e.at \in Nat
  BY DEF Ordered
<1>2. Place(S, d) \in Nat /\ Place(S, e) \in Nat
  BY PlaceIs
<1>3. ~(d.at < e.at) /\ ~(e.at < d.at)
  BY <1>2, PlaceGrows
<1>4. QED
  BY <1>1, <1>3 DEF Ordered

(* What a file made of ordered entries looks like: each is one of them but  *)
(* for its place.                                                           *)
LEMMA FirstOfIs ==
  ASSUME NEW S, Ordered(S), \A e \in S : e = EntryIs(e), NEW x \in FirstOf(S)
  PROVE  \E e \in S : /\ x = [code |-> e.code, finger |-> e.finger, ok |-> e.ok, at |-> Place(S, e)]
                      /\ Place(S, e) \in 1..PerItem
<1>1. PICK e \in S : Place(S, e) <= PerItem /\ x = [e EXCEPT !.at = Place(S, e)]
  BY DEF FirstOf
<1>2. e = [code |-> e.code, finger |-> e.finger, ok |-> e.ok, at |-> e.at]
  BY DEF EntryIs
<1>3. x = [code |-> e.code, finger |-> e.finger, ok |-> e.ok, at |-> Place(S, e)]
  BY <1>1, <1>2
<1>4. Place(S, e) \in 1..PerItem
  BY <1>1, PlaceIs, BoundsAssumption
<1>5. QED
  BY <1>3, <1>4

(* Entries with places of their own up to PerItem are at most PerItem.      *)
LEMMA NumberedFinite ==
  ASSUME NEW S, \A x \in S : x.at \in 1..PerItem, \A x, y \in S : x.at = y.at => x = y
  PROVE  IsFiniteSet(S) /\ Cardinality(S) <= PerItem
<1> DEFINE f == [x \in S |-> x.at]
<1>1. f \in Injection(S, 1..PerItem)
  BY DEF Injection, IsInjective
<1>2. IsFiniteSet(1..PerItem) /\ Cardinality(1..PerItem) = PerItem
  BY FS_Interval, BoundsAssumption
<1>3. QED
  BY <1>1, <1>2, FS_Injection

LEMMA FirstOfGood ==
  ASSUME NEW i \in Items, NEW S, Ordered(S), \A e \in S : GoodEntry(i, e)
  PROVE  GoodFile(i, FirstOf(S))
<1>0. \A e \in S : e = EntryIs(e)
  BY DEF GoodEntry
<1>2. ASSUME NEW x \in FirstOf(S)
      PROVE  GoodEntry(i, x) /\ x.at \in 1..PerItem
  <2>1. PICK e \in S : /\ x = [code |-> e.code, finger |-> e.finger, ok |-> e.ok, at |-> Place(S, e)]
                       /\ Place(S, e) \in 1..PerItem
    BY <1>0, FirstOfIs
  <2>2. x.code = e.code /\ x.finger = e.finger /\ x.ok = e.ok /\ x.at = Place(S, e)
    BY <2>1
  <2>3. x = EntryIs(x)
    BY <2>1, <2>2 DEF EntryIs
  <2>4. GoodEntry(i, e) /\ x.at \in Nat
    BY <2>1, <2>2, BoundsAssumption
  <2>5. QED
    BY <2>1, <2>2, <2>3, <2>4 DEF GoodEntry, IsEntry
<1>3. ASSUME NEW x \in FirstOf(S), NEW y \in FirstOf(S), x.at = y.at \/ x.code = y.code
      PROVE  x = y
  <2>1. PICK d \in S : x = [code |-> d.code, finger |-> d.finger, ok |-> d.ok, at |-> Place(S, d)]
    BY <1>0, FirstOfIs
  <2>2. PICK e \in S : y = [code |-> e.code, finger |-> e.finger, ok |-> e.ok, at |-> Place(S, e)]
    BY <1>0, FirstOfIs
  <2>3. Place(S, d) = Place(S, e) \/ d.code = e.code
    BY <1>3, <2>1, <2>2
  <2>4. d = e
    BY <2>3, PlacesDiffer DEF Ordered
  <2>5. QED
    BY <2>1, <2>2, <2>4
<1>1. IsFiniteSet(FirstOf(S))
  BY <1>2, <1>3, NumberedFinite
<1>4. Ordered(FirstOf(S))
  BY <1>1, <1>2, <1>3, BoundsAssumption DEF Ordered
<1>5. QED
  BY <1>2, <1>4 DEF GoodFile

-----------------------------------------------------------------------------
(* What a writer holds *)

(* Every fact of a file cut from entries is a fact of one of them.          *)
FactsOf(i, S) == {FactOf(i, e) : e \in S}

LEMMA FirstOfFacts ==
  ASSUME NEW i \in Items, NEW S, Ordered(S), \A e \in S : e = EntryIs(e)
  PROVE  FactsOf(i, FirstOf(S)) \subseteq FactsOf(i, S)
<1>1. ASSUME NEW x \in FirstOf(S)
      PROVE  \E e \in S : FactOf(i, x) = FactOf(i, e)
  <2>1. PICK e \in S : x = [code |-> e.code, finger |-> e.finger, ok |-> e.ok, at |-> Place(S, e)]
    BY FirstOfIs
  <2>2. FactOf(i, x) = FactOf(i, e)
    BY <2>1 DEF FactOf
  <2>3. QED
    BY <2>2
<1>2. QED
  BY <1>1 DEF FactsOf

(* What can be read of a good file.                                         *)
LEMMA ReadGood ==
  ASSUME NEW i \in Items, NEW f, GoodFile(i, f)
  PROVE  /\ Ordered(Read(f))
         /\ \A e \in Read(f) : GoodEntry(i, e) /\ e.at \in 1..PerItem
         /\ Readable(f) => Read(f) = f
<1>1. CASE f \in {Absent, Empty, Torn}
  BY <1>1, FS_EmptySet DEF Read, Readable, Ordered
<1>2. CASE f \notin {Absent, Empty, Torn}
  BY <1>2 DEF Read, Readable, GoodFile
<1>3. QED
  BY <1>1, <1>2

(* What is put is what measuring gave.                                      *)
Kept(i, e) == \E b \in Binaries : e = Outcome(b, i) /\ Outcome(b, i).ok

LEMMA PutGood ==
  ASSUME NEW i \in Items, NEW f, GoodFile(i, f), NEW e, Kept(i, e)
  PROVE  /\ GoodFile(i, Put(e, Read(f)))
         /\ FactsOf(i, Put(e, Read(f))) \subseteq FactsOf(i, Read(f)) \cup {FactOf(i, e)}
<1> DEFINE new == [code |-> e.code, finger |-> e.finger, ok |-> e.ok, at |-> 0]
           old == {o \in Read(f) : o.code # e.code}
           all == old \cup {new}
<1>1. /\ Ordered(Read(f))
      /\ \A o \in Read(f) : GoodEntry(i, o) /\ o.at \in 1..PerItem
  BY ReadGood
<1>2. PICK b \in Binaries : e = Outcome(b, i) /\ Outcome(b, i).ok
  BY DEF Kept
<1>3. /\ e.code = Executed[b][i] /\ e.finger = Finger[b][i] /\ e.ok = Outcome(b, i).ok
      /\ e.ok = TRUE
      /\ e.code \in Codes /\ e.finger \in Fingers
  <2>1. e.code = Executed[b][i] /\ e.finger = Finger[b][i] /\ e.ok = Outcome(b, i).ok
    BY <1>2, OutcomeIs
  <2>2. Outcome(b, i).ok \in BOOLEAN
    BY OutcomeIs DEF Holds
  <2>3. e.ok = TRUE
    BY <1>2, <2>1, <2>2
  <2>4. Executed[b][i] \in Codes /\ Finger[b][i] \in Fingers
    BY ExecutedIs, BinariesAssumption
  <2>5. QED
    BY <2>1, <2>3, <2>4
<1>4. IsEntry(new)
  <2>1. DOMAIN e.code \subseteq Functions /\ \A g \in DOMAIN e.code : e.code[g] \in Contents
    BY <1>3 DEF Codes
  <2>2. QED
    BY <1>3, <2>1 DEF IsEntry
<1>5. new = EntryIs(new)
  BY DEF EntryIs
<1>6. GoodEntry(i, new)
  <2>1. new.ok = TRUE
    BY <1>3
  <2>2. new.code = Executed[b][i] /\ new.finger = Finger[b][i] /\ new.ok = Outcome(b, i).ok
    BY <1>3
  <2>3. QED
    BY <1>4, <1>5, <2>1, <2>2 DEF GoodEntry
<1>7. Ordered(all)
  <2>1. IsFiniteSet(all)
    <3>1. IsFiniteSet(old)
      BY <1>1, FS_Subset DEF Ordered
    <3>2. QED
      BY <3>1, FS_AddElement
  <2>2. \A d \in all : d.at \in Nat
    BY <1>1 DEF Ordered
  <2>3. ASSUME NEW c \in all, NEW d \in all, c.at = d.at \/ c.code = d.code
        PROVE  c = d
    <3>1. \A o \in old : o.at # 0 /\ o.code # new.code
      BY <1>1, BoundsAssumption
    <3>2. new.at = 0
      OBVIOUS
    <3>3. QED
      BY <1>1, <2>3, <3>1, <3>2 DEF Ordered
  <2>4. QED
    BY <2>1, <2>2, <2>3 DEF Ordered
<1>8. \A d \in all : GoodEntry(i, d)
  BY <1>1, <1>6
<1>9. FirstOf(all) = Put(e, Read(f))
  BY DEF Put
<1>10. GoodFile(i, FirstOf(all))
  BY <1>7, <1>8, FirstOfGood
<1>11. FactsOf(i, FirstOf(all)) \subseteq FactsOf(i, all)
  BY <1>7, <1>8, FirstOfFacts DEF GoodEntry
<1>12. FactsOf(i, all) \subseteq FactsOf(i, Read(f)) \cup {FactOf(i, e)}
  <2>1. FactOf(i, new) = FactOf(i, e)
    BY DEF FactOf
  <2>2. QED
    BY <2>1 DEF FactsOf
<1>13. QED
  BY <1>9, <1>10, <1>11, <1>12

LEMMA UnionGood ==
  ASSUME NEW i \in Items, NEW f, NEW g, GoodFile(i, f), GoodFile(i, g), Readable(f), Readable(g)
  PROVE  /\ GoodFile(i, Union(f, g))
         /\ FactsOf(i, Union(f, g)) \subseteq FactsOf(i, f) \cup FactsOf(i, g)
<1> DEFINE T == {e \in g : \A u \in f : u.code # e.code}
           moved == {[o EXCEPT !.at = @ + PerItem] : o \in T}
           all == f \cup moved
<1>1. /\ Ordered(f) /\ \A o \in f : GoodEntry(i, o) /\ o.at \in 1..PerItem
      /\ Ordered(g) /\ \A o \in g : GoodEntry(i, o) /\ o.at \in 1..PerItem
  BY DEF GoodFile, Readable
<1>2. ASSUME NEW x \in moved
      PROVE  \E o \in T : /\ x = [code |-> o.code, finger |-> o.finger, ok |-> o.ok, at |-> o.at + PerItem]
                          /\ o.at \in 1..PerItem
  <2>1. PICK o \in T : x = [o EXCEPT !.at = o.at + PerItem]
    OBVIOUS
  <2>2. o = [code |-> o.code, finger |-> o.finger, ok |-> o.ok, at |-> o.at]
    BY <1>1 DEF GoodEntry, EntryIs
  <2>3. x = [code |-> o.code, finger |-> o.finger, ok |-> o.ok, at |-> o.at + PerItem]
    BY <2>1, <2>2
  <2>4. QED
    BY <1>1, <2>3
<1> HIDE DEF moved
<1>3. ASSUME NEW x \in moved
      PROVE  GoodEntry(i, x) /\ x.at \in Nat /\ x.at > PerItem
  <2>1. PICK o \in T : /\ x = [code |-> o.code, finger |-> o.finger, ok |-> o.ok, at |-> o.at + PerItem]
                       /\ o.at \in 1..PerItem
    BY <1>2
  <2>2. x.code = o.code /\ x.finger = o.finger /\ x.ok = o.ok /\ x.at = o.at + PerItem
    BY <2>1
  <2>3. x.at \in Nat /\ x.at > PerItem
    BY <2>1, <2>2, BoundsAssumption
  <2>4. x = EntryIs(x)
    BY <2>1, <2>2 DEF EntryIs
  <2>5. GoodEntry(i, o)
    BY <1>1
  <2>6. QED
    BY <2>2, <2>3, <2>4, <2>5 DEF GoodEntry, IsEntry
<1>4. ASSUME NEW x \in moved, NEW y \in moved, x.at = y.at \/ x.code = y.code
      PROVE  x = y
  <2>1. PICK o \in T : /\ x = [code |-> o.code, finger |-> o.finger, ok |-> o.ok, at |-> o.at + PerItem]
                       /\ o.at \in 1..PerItem
    BY <1>2
  <2>2. PICK q \in T : /\ y = [code |-> q.code, finger |-> q.finger, ok |-> q.ok, at |-> q.at + PerItem]
                       /\ q.at \in 1..PerItem
    BY <1>2
  <2>3. x.code = o.code /\ y.code = q.code /\ x.at = o.at + PerItem /\ y.at = q.at + PerItem
    BY <2>1, <2>2
  <2>4. o.at = q.at \/ o.code = q.code
    BY <1>4, <2>1, <2>2, <2>3, BoundsAssumption
  <2>5. o = q
    BY <1>1, <2>4 DEF Ordered
  <2>6. QED
    BY <2>1, <2>2, <2>5
<1>5. ASSUME NEW x \in f, NEW y \in moved
      PROVE  x.at # y.at /\ x.code # y.code
  <2>1. PICK o \in T : y = [code |-> o.code, finger |-> o.finger, ok |-> o.ok, at |-> o.at + PerItem]
    BY <1>2
  <2>2. y.code = o.code
    BY <2>1
  <2>3. x.at \in Nat /\ x.at <= PerItem /\ y.at \in Nat /\ y.at > PerItem
    BY <1>1, <1>3, BoundsAssumption
  <2>4. QED
    BY <2>2, <2>3, BoundsAssumption
<1>6. Ordered(all)
  <2>1. IsFiniteSet(all)
    <3>1. IsFiniteSet(T)
      BY <1>1, FS_Subset DEF Ordered
    <3> DEFINE h == [o \in T |-> [o EXCEPT !.at = @ + PerItem]]
    <3>2. h \in Surjection(T, moved)
      BY DEF Surjection, moved
    <3>3. IsFiniteSet(moved)
      BY <3>1, <3>2, FS_Surjection
    <3>4. QED
      BY <1>1, <3>3, FS_Union DEF Ordered
  <2>2. \A d \in all : d.at \in Nat
    BY <1>1, <1>3 DEF Ordered
  <2>3. ASSUME NEW x \in all, NEW y \in all, x.at = y.at \/ x.code = y.code
        PROVE  x = y
    <3>1. x \in f /\ y \in f => x = y
      BY <1>1, <2>3 DEF Ordered
    <3>2. QED
      BY <1>4, <1>5, <2>3, <3>1
  <2>4. QED
    BY <2>1, <2>2, <2>3 DEF Ordered
<1>7. \A d \in all : GoodEntry(i, d)
  BY <1>1, <1>3
<1>8. FirstOf(all) = Union(f, g)
  BY DEF Union, moved
<1>9. GoodFile(i, FirstOf(all))
  BY <1>6, <1>7, FirstOfGood
<1>10. FactsOf(i, FirstOf(all)) \subseteq FactsOf(i, all)
  BY <1>6, <1>7, FirstOfFacts DEF GoodEntry
<1>11. FactsOf(i, all) \subseteq FactsOf(i, f) \cup FactsOf(i, g)
  <2>1. ASSUME NEW x \in moved
        PROVE  \E o \in g : FactOf(i, x) = FactOf(i, o)
    <3>1. PICK o \in T : x = [code |-> o.code, finger |-> o.finger, ok |-> o.ok, at |-> o.at + PerItem]
      BY <1>2
    <3>2. FactOf(i, x) = FactOf(i, o)
      BY <3>1 DEF FactOf
    <3>3. QED
      BY <3>2
  <2>2. QED
    BY <2>1 DEF FactsOf
<1>12. QED
  BY <1>8, <1>9, <1>10, <1>11

-----------------------------------------------------------------------------
(* What an invocation measures and has still to do *)

LEMMA MeasuredIs ==
  ASSUME NEW bins \in Measured
  PROVE  /\ DOMAIN bins \subseteq {1, 2}
         /\ \A s \in DOMAIN bins : bins[s] \in Binaries /\ Listing[bins[s]] \subseteq Items
<1>1. PICK a \in Starts : bins = a.bins
  BY DEF Measured
<1>2. \/ \E b \in Binaries : bins = <<b>>
      \/ \E h, b \in Binaries : bins = <<h, b>>
  BY <1>1, StartsAssumption
<1>3. DOMAIN bins \subseteq {1, 2} /\ \A s \in DOMAIN bins : bins[s] \in Binaries
  BY <1>2
<1>4. QED
  BY <1>3, BinariesAssumption

(* The side's run is what measuring all of it gives.                        *)
LEMMA RunTrue ==
  ASSUME NEW bins \in Measured, NEW recording \in BOOLEAN, FilesGood, NEW s \in DOMAIN bins
  PROVE  RunOf(bins, Hits(bins, recording), s) = [i \in Listing[bins[s]] |-> Outcome(bins[s], i)]
<1> DEFINE hit == Hits(bins, recording)[s]
<1>1. bins[s] \in Binaries /\ Listing[bins[s]] \subseteq Items
  BY MeasuredIs
<1>2. ASSUME NEW i \in Items, hit[i] # None
      PROVE  i \in Listing[bins[s]] /\ hit[i] = Outcome(bins[s], i)
  <2>1. ~recording /\ Reusable(bins, i) /\ hit[i] = Lookup(Read(file[i]), bins[s], i)
    BY <1>2 DEF Hits
  <2>2. GoodFile(i, file[i])
    BY DEF FilesGood
  <2>3. hit[i] = Outcome(bins[s], i)
    BY <1>1, <1>2, <2>1, <2>2, LookupTrue
  <2>4. QED
    BY <2>1, <2>3 DEF Reusable
<1>3. Pending(bins, Hits(bins, recording), s) \cup {j \in Items : hit[j] # None} = Listing[bins[s]]
  BY <1>1, <1>2 DEF Pending
<1>4. QED
  BY <1>1, <1>2, <1>3 DEF RunOf

(* The tasks of a measurement, and of a merge.                              *)
LEMMA StoresGood ==
  ASSUME NEW bins \in Measured, NEW hits, NEW files, NEW t \in Stores(bins, hits)
  PROVE  GoodTask(bins, t, files)
<1>1. PICK s \in DOMAIN bins : t \in StoresOf(bins, hits, s)
  BY DEF Stores
<1>2. s \in {1, 2} /\ bins[s] \in Binaries /\ Listing[bins[s]] \subseteq Items
  BY MeasuredIs
<1>3. CASE t = Task(s, None, None)
  BY <1>2, <1>3 DEF GoodTask, Task
<1>4. CASE t # Task(s, None, None)
  <2>1. PICK i \in {j \in Pending(bins, hits, s) : Keeps(bins[s], j)} : t = Task(s, i, Outcome(bins[s], i))
    BY <1>1, <1>4 DEF StoresOf
  <2>2. i \in Listing[bins[s]] /\ i \in Items /\ Keeps(bins[s], i)
    BY <1>2, <2>1 DEF Pending
  <2>3. t.side = s /\ t.item = i /\ t.entry = Outcome(bins[s], i) /\ t = Task(t.side, t.item, t.entry)
    BY <2>1 DEF Task
  <2>4. Outcome(bins[s], i) # None /\ i # None
    BY <1>2, <2>2, OutcomeIs, NoneAssumption
  <2>5. GoodStore(bins, t)
    BY <2>2, <2>3 DEF GoodStore, Keeps
  <2>6. QED
    BY <1>2, <2>2, <2>3, <2>4, <2>5 DEF GoodTask
<1>5. QED
  BY <1>3, <1>4

LEMMA MergesGood ==
  ASSUME NEW bins, NEW t \in Merges \cup {Task(1, None, None)}
  PROVE  GoodTask(bins, t, archive.file)
<1>1. CASE t = Task(1, None, None)
  BY <1>1 DEF GoodTask, Task
<1>2. CASE t \in Merges
  <2>1. PICK i \in Items : Readable(archive.file[i]) /\ t = Task(1, i, None)
    BY <1>2 DEF Merges
  <2>2. t.side = 1 /\ t.item = i /\ t.entry = None /\ t = Task(t.side, t.item, t.entry)
    BY <2>1 DEF Task
  <2>3. QED
    BY <2>1, <2>2, NoneAssumption DEF GoodTask
<1>3. QED
  BY <1>1, <1>2

(* The next task is one of them.                                            *)
LEMMA NextTaskIn ==
  ASSUME NEW todo, todo # {}, NEW bins, NEW files, \A t \in todo : GoodTask(bins, t, files)
  PROVE  NextTask(todo) \in todo
<1> DEFINE P(t) == \A u \in todo : t.side <= u.side /\ (t.side = u.side /\ t.item = None => u = t)
<1>1. \A t \in todo : t.side \in {1, 2} /\ t = Task(t.side, t.item, t.entry)
                      /\ (t.item = None => t.entry = None)
  BY DEF GoodTask
<1>2. PICK m \in todo : \A u \in todo : m.side <= u.side
  BY <1>1
<1>3. CASE \E t \in todo : t.side = m.side /\ t.item # None
  <2>1. PICK t \in todo : t.side = m.side /\ t.item # None
    BY <1>3
  <2>2. P(t)
    BY <1>2, <2>1
  <2>3. QED
    BY <2>2 DEF NextTask
<1>4. CASE \A t \in todo : t.side = m.side => t.item = None
  <2>1. \A u \in todo : m.side = u.side => u = m
    BY <1>1, <1>4
  <2>2. P(m)
    BY <1>2, <2>1
  <2>3. QED
    BY <2>2 DEF NextTask
<1>5. QED
  BY <1>3, <1>4

-----------------------------------------------------------------------------
(* The steps keep MemoInv *)

(* One invocation's step leaves the others' state good.                     *)
LEMMA JobStep ==
  ASSUME MemoInv, NEW p \in Procs, NEW n, Become(p, n), GoodJob(n, archive.file),
         UNCHANGED archive
  PROVE  /\ job' = [q \in Procs |-> job'[q]]
         /\ job'[p] = n
         /\ \A q \in Procs : q # p => job'[q] = job[q]
         /\ \A q \in Procs : GoodJob(job'[q], archive'.file)
<1>1. job = [q \in Procs |-> job[q]] /\ \A q \in Procs : GoodJob(job[q], archive.file)
  BY DEF MemoInv
<1>2. job' = [job EXCEPT ![p] = n]
  BY DEF Become
<1>3. /\ job' = [q \in Procs |-> job'[q]]
      /\ job'[p] = n
      /\ \A q \in Procs : q # p => job'[q] = job[q]
  BY <1>1, <1>2
<1>4. QED
  BY <1>1, <1>3

LEMMA IdleGood ==
  ASSUME NEW files
  PROVE  GoodJob(Idle, files)
BY DEF Idle, Between, GoodJob, IsJob, GoodRun

LEMMA MeasureStep ==
  ASSUME MemoInv, NEW p \in Procs, NEW s \in Starts, Measure(p, s.bins, s.recording)
  PROVE  /\ MemoInv'
         /\ job'[p].bins = s.bins /\ job'[p].run = RunIs(s.bins) /\ job'[p].pc = "next"
         /\ s.bins \in Measured
<1> DEFINE bins == s.bins
           hits == Hits(bins, s.recording)
           run == [x \in DOMAIN bins |-> RunOf(bins, hits, x)]
           todo == Stores(bins, hits)
           n == Between("next", bins, run, todo)
<1>1. bins \in Measured /\ s.recording \in BOOLEAN /\ FilesGood
  BY StartsAssumption DEF Measured, MemoInv
<1>2. \A x \in DOMAIN bins : RunOf(bins, hits, x) = [i \in Listing[bins[x]] |-> Outcome(bins[x], i)]
  BY <1>1, RunTrue
<1>3. run = RunIs(bins)
  BY <1>2 DEF RunIs
<1>4. \A t \in todo : GoodTask(bins, t, archive.file)
  BY <1>1, StoresGood
<1>5. Become(p, n)
  BY DEF Measure
<1> HIDE DEF bins, hits, run, todo
<1>6a. n = [pc |-> "next", bins |-> bins, run |-> run, todo |-> todo, task |-> None, held |-> {}]
  BY DEF Between
<1> HIDE DEF n
<1>6. /\ n.pc = "next" /\ n.bins = bins /\ n.run = run /\ n.todo = todo
      /\ n.task = None /\ n.held = {} /\ IsJob(n)
  BY <1>6a DEF IsJob
<1>7. GoodJob(n, archive.file)
  <2>1. GoodRun(n.bins, n.run)
    BY <1>1, <1>3, <1>6 DEF GoodRun
  <2>2. QED
    BY <1>4, <1>6, <2>1 DEF GoodJob
<1>8. UNCHANGED <<file, written, archive, jobs>>
  BY DEF Measure
<1>9. /\ job' = [q \in Procs |-> job'[q]] /\ job'[p] = n
      /\ \A q \in Procs : GoodJob(job'[q], archive'.file)
  BY <1>5, <1>7, <1>8, JobStep
<1>10. FilesGood'
  BY <1>1, <1>8 DEF FilesGood
<1>11. MemoInv'
  BY <1>8, <1>9, <1>10 DEF MemoInv
<1>12. QED
  BY <1>1, <1>3, <1>6, <1>9, <1>11 DEF bins

LEMMA MergeStep ==
  ASSUME MemoInv, NEW p \in Procs, Merge(p)
  PROVE  MemoInv' /\ job'[p].bins = <<>> /\ job'[p].run = <<>> /\ job'[p].pc = "next"
<1> DEFINE todo == Merges \cup {Task(1, None, None)}
           n == Between("next", <<>>, <<>>, todo)
<1>1. \A t \in todo : GoodTask(<<>>, t, archive.file)
  BY MergesGood
<1>2. Become(p, n)
  BY DEF Merge
<1> HIDE DEF todo
<1>3a. n = [pc |-> "next", bins |-> <<>>, run |-> <<>>, todo |-> todo, task |-> None, held |-> {}]
  BY DEF Between
<1> HIDE DEF n
<1>3. /\ n.pc = "next" /\ n.bins = <<>> /\ n.run = <<>> /\ n.todo = todo
      /\ n.task = None /\ n.held = {} /\ IsJob(n)
  BY <1>3a DEF IsJob
<1>4. GoodJob(n, archive.file)
  BY <1>1, <1>3 DEF GoodJob, GoodRun
<1>5. UNCHANGED <<file, written, archive, jobs>>
  BY DEF Merge
<1>6. /\ job' = [q \in Procs |-> job'[q]] /\ job'[p] = n
      /\ \A q \in Procs : GoodJob(job'[q], archive'.file)
  BY <1>2, <1>4, <1>5, JobStep
<1>7. FilesGood'
  BY <1>5 DEF FilesGood, MemoInv
<1>8. QED
  BY <1>3, <1>5, <1>6, <1>7 DEF MemoInv

(* What a store puts is what measuring gave.                                *)
LEMMA StoreKept ==
  ASSUME NEW bins, NEW files, NEW t, GoodTask(bins, t, files), t.item # None, t.entry # None
  PROVE  /\ t.item \in Items /\ bins \in Measured /\ Kept(t.item, t.entry)
         /\ \E s \in DOMAIN bins : t.item \in Listing[bins[s]] /\ t.entry = Outcome(bins[s], t.item)
<1>1. t.item \in Items /\ bins \in Measured /\ GoodStore(bins, t)
  BY DEF GoodTask
<1>2. PICK s \in DOMAIN bins :
        t.item \in Listing[bins[s]] /\ t.entry = Outcome(bins[s], t.item) /\ Outcome(bins[s], t.item).ok
  BY <1>1 DEF GoodStore
<1>3. bins[s] \in Binaries
  BY <1>1, MeasuredIs
<1>4. QED
  BY <1>1, <1>2, <1>3 DEF Kept

(* What ReadItem takes into its hands for a task.                           *)
HeldFor(t) ==
  IF t.entry # None THEN Put(t.entry, Read(file[t.item]))
  ELSE IF Readable(file[t.item]) THEN Union(archive.file[t.item], file[t.item])
  ELSE archive.file[t.item]

LEMMA HeldGood ==
  ASSUME MemoInv, NEW p \in Procs, NEW t, t.item # None, GoodTask(job[p].bins, t, archive.file)
  PROVE  /\ t.item \in Items
         /\ GoodFile(t.item, HeldFor(t))
         /\ FactsOf(t.item, HeldFor(t)) \subseteq
              FactsOf(t.item, Read(file[t.item])) \cup FactsOf(t.item, Read(archive.file[t.item]))
              \cup (IF t.entry # None THEN {FactOf(t.item, t.entry)} ELSE {})
<1> DEFINE i == t.item
<1>1. i \in Items
  BY DEF GoodTask
<1>2. GoodFile(i, file[i]) /\ GoodFile(i, archive.file[i])
  BY <1>1 DEF MemoInv, FilesGood
<1> HIDE DEF i
<1>3. CASE t.entry # None
  <2>1. Kept(i, t.entry)
    BY <1>3, StoreKept DEF i
  <2>2. HeldFor(t) = Put(t.entry, Read(file[i]))
    BY <1>3 DEF HeldFor, i
  <2>3. /\ GoodFile(i, HeldFor(t))
        /\ FactsOf(i, HeldFor(t)) \subseteq FactsOf(i, Read(file[i])) \cup {FactOf(i, t.entry)}
    BY <1>1, <1>2, <2>1, <2>2, PutGood
  <2>4. QED
    BY <1>1, <1>3, <2>3 DEF i
<1>4. CASE t.entry = None /\ Readable(file[i])
  <2>1. Readable(archive.file[i])
    BY <1>4 DEF GoodTask, i
  <2>2. HeldFor(t) = Union(archive.file[i], file[i])
    BY <1>4 DEF HeldFor, i
  <2>3. /\ GoodFile(i, HeldFor(t))
        /\ FactsOf(i, HeldFor(t)) \subseteq FactsOf(i, archive.file[i]) \cup FactsOf(i, file[i])
    BY <1>1, <1>2, <1>4, <2>1, <2>2, UnionGood
  <2>4. Read(file[i]) = file[i] /\ Read(archive.file[i]) = archive.file[i]
    BY <1>1, <1>2, <1>4, <2>1, ReadGood
  <2>5. QED
    BY <1>1, <2>3, <2>4 DEF i
<1>5. CASE t.entry = None /\ ~Readable(file[i])
  <2>1. Readable(archive.file[i])
    BY <1>5 DEF GoodTask, i
  <2>2. HeldFor(t) = archive.file[i]
    BY <1>5 DEF HeldFor, i
  <2>3. Read(archive.file[i]) = archive.file[i]
    BY <1>1, <1>2, <2>1, ReadGood
  <2>4. QED
    BY <1>1, <1>2, <2>2, <2>3 DEF i
<1>6. QED
  BY <1>3, <1>4, <1>5

(* A new state of an invocation.                                            *)
LEMMA AtIs ==
  ASSUME NEW j, NEW pc, NEW todo, NEW task, NEW held, NEW n, n = At(j, pc, todo, task, held)
  PROVE  /\ IsJob(n) /\ n.pc = pc /\ n.task = task /\ n.todo = todo /\ n.held = held
         /\ n.bins = j.bins /\ n.run = j.run
BY DEF At, IsJob

LEMMA ReadItemStep ==
  ASSUME MemoInv, NEW p \in Procs, ReadItem(p)
  PROVE  /\ MemoInv'
         /\ job[p].pc = "next" /\ job'[p].pc = "truncate"
         /\ job'[p].bins = job[p].bins /\ job'[p].run = job[p].run
         /\ \A q \in Procs : q # p => job'[q] = job[q]
         /\ GoodTask(job[p].bins, job'[p].task, archive.file)
         /\ job'[p].task.item # None
         /\ job'[p].held = HeldFor(job'[p].task)
<1> DEFINE t == NextTask(job[p].todo)
           todo == job[p].todo \ {t}
           n == At(job[p], "truncate", todo, t, HeldFor(t))
<1>1. GoodJob(job[p], archive.file)
  BY DEF MemoInv
<1>2. \A u \in job[p].todo : GoodTask(job[p].bins, u, archive.file)
  BY <1>1 DEF GoodJob
<1>3. job[p].todo # {} /\ job[p].pc = "next" /\ t.item # None
  BY DEF ReadItem
<1>4. t \in job[p].todo
  BY <1>2, <1>3, NextTaskIn
<1>5. GoodTask(job[p].bins, t, archive.file)
  BY <1>2, <1>4
<1>6. Become(p, n)
  BY DEF ReadItem, HeldFor
<1> HIDE DEF t
<1>7. GoodFile(t.item, HeldFor(t))
  BY <1>3, <1>5, HeldGood
<1>8. \A u \in todo : GoodTask(job[p].bins, u, archive.file)
  BY <1>2
<1> HIDE DEF todo
<1>9. /\ IsJob(n) /\ n.pc = "truncate" /\ n.task = t /\ n.todo = todo /\ n.held = HeldFor(t)
      /\ n.bins = job[p].bins /\ n.run = job[p].run
  BY AtIs
<1> HIDE DEF n
<1>10. GoodJob(n, archive.file)
  BY <1>1, <1>3, <1>5, <1>7, <1>8, <1>9 DEF GoodJob
<1>11. UNCHANGED <<file, written, archive, jobs>>
  BY DEF ReadItem
<1>12. /\ job' = [q \in Procs |-> job'[q]] /\ job'[p] = n
       /\ \A q \in Procs : q # p => job'[q] = job[q]
       /\ \A q \in Procs : GoodJob(job'[q], archive'.file)
  BY <1>6, <1>10, <1>11, JobStep
<1>13. FilesGood'
  BY <1>11 DEF FilesGood, MemoInv
<1>14. MemoInv'
  BY <1>11, <1>12, <1>13 DEF MemoInv
<1>15. QED
  BY <1>3, <1>5, <1>9, <1>12, <1>14

LEMMA WrittenLastIs ==
  ASSUME FilesGood, NEW i \in Items
  PROVE  /\ WrittenLast(i) \in [Items -> Nat]
         /\ \A j \in Items : WrittenLast(i)[j] = 0 <=> j # i /\ written[j] = 0
BY DEF WrittenLast, FilesGood

LEMMA TruncateStep ==
  ASSUME MemoInv, NEW p \in Procs, Truncate(p)
  PROVE  /\ MemoInv'
         /\ job[p].pc = "truncate" /\ job'[p].pc = "write"
         /\ job'[p].bins = job[p].bins /\ job'[p].run = job[p].run
         /\ job'[p].task = job[p].task /\ job'[p].held = job[p].held
         /\ \A q \in Procs : q # p => job'[q] = job[q]
         /\ \A i \in Items : file'[i] \in {file[i], Empty}
<1> DEFINE i == job[p].task.item
           n == At(job[p], "write", job[p].todo, job[p].task, job[p].held)
<1>1. GoodJob(job[p], archive.file) /\ job[p].pc = "truncate"
  BY DEF MemoInv, Truncate
<1>2. i \in Items
  BY <1>1 DEF GoodJob, GoodTask
<1>3. Become(p, n)
  BY DEF Truncate
<1>4. /\ IsJob(n) /\ n.pc = "write" /\ n.task = job[p].task /\ n.todo = job[p].todo
      /\ n.held = job[p].held /\ n.bins = job[p].bins /\ n.run = job[p].run
  BY AtIs
<1> HIDE DEF n
<1>5. GoodJob(n, archive.file)
  BY <1>1, <1>4 DEF GoodJob
<1>6. UNCHANGED <<archive, jobs>> /\ file' = [file EXCEPT ![i] = Empty] /\ written' = WrittenLast(i)
  BY DEF Truncate
<1>7. /\ job' = [q \in Procs |-> job'[q]] /\ job'[p] = n
      /\ \A q \in Procs : q # p => job'[q] = job[q]
      /\ \A q \in Procs : GoodJob(job'[q], archive'.file)
  BY <1>3, <1>5, <1>6, JobStep
<1> HIDE DEF i
<1>8. file' = [j \in Items |-> IF j = i THEN Empty ELSE file[j]]
  BY <1>2, <1>6 DEF MemoInv, FilesGood
<1>9. FilesGood'
  <2>1. FilesGood
    BY DEF MemoInv
  <2>2. \A j \in Items : GoodFile(j, file'[j])
    BY <1>8, <2>1 DEF FilesGood, GoodFile
  <2>3. written' \in [Items -> Nat] /\ \A j \in Items : written'[j] = 0 => file'[j] = Absent
    BY <1>2, <1>6, <1>8, <2>1, WrittenLastIs DEF FilesGood
  <2>4. file' = [j \in Items |-> file'[j]]
    BY <1>8
  <2>5. QED
    BY <1>6, <2>1, <2>2, <2>3, <2>4 DEF FilesGood
<1>10. MemoInv'
  BY <1>6, <1>7, <1>9 DEF MemoInv
<1>11. QED
  BY <1>1, <1>4, <1>7, <1>8, <1>10

LEMMA WriteStep ==
  ASSUME MemoInv, NEW p \in Procs, Write(p)
  PROVE  /\ MemoInv'
         /\ job[p].pc = "write" /\ job'[p].pc = "next"
         /\ job'[p].bins = job[p].bins /\ job'[p].run = job[p].run
         /\ \A q \in Procs : q # p => job'[q] = job[q]
         /\ job[p].task.item \in Items
         /\ \A i \in Items : file'[i] \in {file[i], Torn} \/ (i = job[p].task.item /\ file'[i] = job[p].held)
<1> DEFINE i == job[p].task.item
           n == At(job[p], "next", job[p].todo, None, {})
<1>1. GoodJob(job[p], archive.file) /\ job[p].pc = "write"
  BY DEF MemoInv, Write
<1>2. i \in Items /\ GoodFile(i, job[p].held)
  BY <1>1 DEF GoodJob, GoodTask
<1>3. Become(p, n)
  BY DEF Write
<1>4. /\ IsJob(n) /\ n.pc = "next" /\ n.task = None /\ n.todo = job[p].todo
      /\ n.held = {} /\ n.bins = job[p].bins /\ n.run = job[p].run
  BY AtIs
<1> HIDE DEF n
<1>5. GoodJob(n, archive.file)
  BY <1>1, <1>4 DEF GoodJob
<1>6. UNCHANGED <<archive, jobs>>
  BY DEF Write
<1>7. /\ job' = [q \in Procs |-> job'[q]] /\ job'[p] = n
      /\ \A q \in Procs : q # p => job'[q] = job[q]
      /\ \A q \in Procs : GoodJob(job'[q], archive'.file)
  BY <1>3, <1>5, <1>6, JobStep
<1>8. \/ UNCHANGED <<file, written>>
      \/ /\ file[i] # Absent /\ written' = WrittenLast(i)
         /\ \E f \in {job[p].held, file[i], Torn} : file' = [file EXCEPT ![i] = f]
  BY DEF Write
<1> HIDE DEF i
<1>9. FilesGood
  BY DEF MemoInv
<1>10. CASE UNCHANGED <<file, written>>
  <2>1. FilesGood'
    BY <1>6, <1>9, <1>10 DEF FilesGood
  <2>2. MemoInv'
    BY <1>6, <1>7, <2>1 DEF MemoInv
  <2>3. QED
    BY <1>1, <1>2, <1>4, <1>7, <1>10, <2>2 DEF i
<1>11. CASE /\ file[i] # Absent /\ written' = WrittenLast(i)
            /\ \E f \in {job[p].held, file[i], Torn} : file' = [file EXCEPT ![i] = f]
  <2>1. PICK f \in {job[p].held, file[i], Torn} : file' = [file EXCEPT ![i] = f]
    BY <1>11
  <2>2. file' = [j \in Items |-> IF j = i THEN f ELSE file[j]]
    BY <1>2, <1>9, <2>1 DEF FilesGood
  <2>3. GoodFile(i, f)
    BY <1>2, <1>9, <2>1 DEF FilesGood, GoodFile
  <2>5. FilesGood'
    <3>1. \A j \in Items : GoodFile(j, file'[j])
      BY <1>9, <2>2, <2>3 DEF FilesGood
    <3>2. written' \in [Items -> Nat] /\ \A j \in Items : written'[j] = 0 => file'[j] = Absent
      BY <1>2, <1>9, <1>11, <2>2, WrittenLastIs DEF FilesGood
    <3>3. file' = [j \in Items |-> file'[j]]
      BY <2>2
    <3>4. QED
      BY <1>6, <1>9, <3>1, <3>2, <3>3 DEF FilesGood
  <2>6. MemoInv'
    BY <1>6, <1>7, <2>5 DEF MemoInv
  <2>7. \A j \in Items : file'[j] \in {file[j], Torn} \/ (j = i /\ file'[j] = job[p].held)
    BY <2>1, <2>2
  <2>8. QED
    BY <1>1, <1>2, <1>4, <1>7, <2>6, <2>7 DEF i
<1>12. QED
  BY <1>8, <1>10, <1>11

LEMMA PruneStep ==
  ASSUME MemoInv, NEW p \in Procs, Prune(p)
  PROVE  /\ MemoInv'
         /\ job[p].pc = "next" /\ job'[p].pc = "next"
         /\ job'[p].bins = job[p].bins /\ job'[p].run = job[p].run
         /\ \A q \in Procs : q # p => job'[q] = job[q]
         /\ \A i \in Items : file'[i] \in {file[i], Absent}
<1> DEFINE todo == job[p].todo \ {NextTask(job[p].todo)}
           n == At(job[p], "next", todo, None, {})
<1>1. GoodJob(job[p], archive.file) /\ job[p].pc = "next"
  BY DEF MemoInv, Prune
<1>2. Become(p, n)
  BY DEF Prune
<1>3. todo \subseteq job[p].todo
  OBVIOUS
<1> HIDE DEF todo
<1>4. /\ IsJob(n) /\ n.pc = "next" /\ n.task = None /\ n.todo = todo
      /\ n.held = {} /\ n.bins = job[p].bins /\ n.run = job[p].run
  BY AtIs
<1> HIDE DEF n
<1>5. GoodJob(n, archive.file)
  BY <1>1, <1>3, <1>4 DEF GoodJob
<1>6. /\ UNCHANGED <<archive, jobs>>
      /\ file' = [i \in Items |-> IF written[i] > KEEP THEN Absent ELSE file[i]]
      /\ written' = [i \in Items |-> IF written[i] > KEEP THEN 0 ELSE written[i]]
  BY DEF Prune
<1>7. /\ job' = [q \in Procs |-> job'[q]] /\ job'[p] = n
      /\ \A q \in Procs : q # p => job'[q] = job[q]
      /\ \A q \in Procs : GoodJob(job'[q], archive'.file)
  BY <1>2, <1>5, <1>6, JobStep
<1>8. FilesGood'
  <2>1. FilesGood
    BY DEF MemoInv
  <2>2. \A j \in Items : GoodFile(j, file'[j])
    BY <1>6, <2>1 DEF FilesGood, GoodFile
  <2>3. written' \in [Items -> Nat] /\ \A j \in Items : written'[j] = 0 => file'[j] = Absent
    BY <1>6, <2>1, BoundsAssumption DEF FilesGood
  <2>4. file' = [j \in Items |-> file'[j]]
    BY <1>6
  <2>5. QED
    BY <1>6, <2>1, <2>2, <2>3, <2>4 DEF FilesGood
<1>9. MemoInv'
  BY <1>6, <1>7, <1>8 DEF MemoInv
<1>10. QED
  BY <1>1, <1>4, <1>6, <1>7, <1>9

LEMMA ExitStep ==
  ASSUME MemoInv, NEW p \in Procs, Exit(p)
  PROVE  /\ MemoInv'
         /\ job'[p] = Idle
         /\ \A q \in Procs : q # p => job'[q] = job[q]
<1>1. Become(p, Idle) /\ UNCHANGED <<file, written, archive, jobs>>
  BY DEF Exit
<1>2. /\ job' = [q \in Procs |-> job'[q]] /\ job'[p] = Idle
      /\ \A q \in Procs : q # p => job'[q] = job[q]
      /\ \A q \in Procs : GoodJob(job'[q], archive'.file)
  BY <1>1, IdleGood, JobStep
<1>3. FilesGood'
  BY <1>1 DEF FilesGood, MemoInv
<1>4. QED
  BY <1>1, <1>2, <1>3 DEF MemoInv

LEMMA NextJobStep ==
  ASSUME MemoInv, NextJob
  PROVE  /\ MemoInv'
         /\ job' = job /\ \A p \in Procs : job[p] = Idle
         /\ archive' \in {archive, [file |-> file, written |-> written]}
         /\ file' \in {archive'.file, NoFile.file}
<1>1. \A p \in Procs : GoodJob(job[p], archive.file) /\ job[p].pc = "idle"
  BY DEF MemoInv, NextJob
<1>2. \A p \in Procs : job[p] = Idle
  BY <1>1 DEF GoodJob
<1>3. /\ archive' \in {archive, [file |-> file, written |-> written]}
      /\ \E start \in {archive', NoFile} : file' = start.file /\ written' = start.written
      /\ jobs < MaxJobs /\ jobs' = jobs + 1 /\ job' = job
  BY DEF NextJob
<1>4. FilesGood /\ jobs \in 0..MaxJobs /\ job = [p \in Procs |-> job[p]]
  BY DEF MemoInv
<1>5. /\ archive'.file = [i \in Items |-> archive'.file[i]]
      /\ archive' = [file |-> [i \in Items |-> archive'.file[i]], written |-> archive'.written]
      /\ archive'.written \in [Items -> Nat]
      /\ \A i \in Items : GoodFile(i, archive'.file[i])
      /\ \A i \in Items : archive'.written[i] = 0 => archive'.file[i] = Absent
  <2>1. CASE archive' = archive
    BY <1>4, <2>1 DEF FilesGood
  <2>2. CASE archive' = [file |-> file, written |-> written]
    BY <1>4, <2>2 DEF FilesGood
  <2>3. QED
    BY <1>3, <2>1, <2>2
<1>6. /\ file' = [i \in Items |-> file'[i]]
      /\ written' \in [Items -> Nat]
      /\ \A i \in Items : GoodFile(i, file'[i])
      /\ \A i \in Items : written'[i] = 0 => file'[i] = Absent
  <2>1. CASE file' = archive'.file /\ written' = archive'.written
    BY <1>5, <2>1
  <2>2. CASE file' = NoFile.file /\ written' = NoFile.written
    BY <2>2 DEF NoFile, GoodFile
  <2>3. QED
    BY <1>3, <2>1, <2>2
<1>7. FilesGood'
  BY <1>5, <1>6 DEF FilesGood
<1>8. \A p \in Procs : GoodJob(job'[p], archive'.file)
  BY <1>2, <1>3, IdleGood
<1>9. jobs' \in 0..MaxJobs
  BY <1>3, <1>4, BoundsAssumption
<1>10. MemoInv'
  BY <1>3, <1>4, <1>7, <1>8, <1>9 DEF MemoInv
<1>11. QED
  BY <1>2, <1>3, <1>10

-----------------------------------------------------------------------------
(* Theorems *)

LEMMA InitGood ==
  Init => MemoInv
<1> SUFFICES ASSUME Init
             PROVE  MemoInv
  OBVIOUS
<1>1. \A p \in Procs : GoodJob(job[p], archive.file)
  BY IdleGood DEF Init
<1>2. FilesGood
  BY DEF Init, NoFile, FilesGood, GoodFile
<1>3. QED
  BY <1>1, <1>2, BoundsAssumption DEF Init, MemoInv

LEMMA NextGood ==
  MemoInv /\ [Next]_vars => MemoInv'
<1> SUFFICES ASSUME MemoInv, [Next]_vars
             PROVE  MemoInv'
  OBVIOUS
<1>1. CASE UNCHANGED vars
  BY <1>1 DEF vars, MemoInv, FilesGood
<1>2. CASE \E p \in Procs : \E s \in Starts : Measure(p, s.bins, s.recording)
  BY <1>2, MeasureStep
<1>3. CASE \E p \in Procs : Merge(p)
  BY <1>3, MergeStep
<1>4. CASE \E p \in Procs : ReadItem(p)
  BY <1>4, ReadItemStep
<1>5. CASE \E p \in Procs : Truncate(p)
  BY <1>5, TruncateStep
<1>6. CASE \E p \in Procs : Write(p)
  BY <1>6, WriteStep
<1>7. CASE \E p \in Procs : Prune(p)
  BY <1>7, PruneStep
<1>8. CASE \E p \in Procs : Exit(p)
  BY <1>8, ExitStep
<1>9. CASE NextJob
  BY <1>9, NextJobStep
<1>10. QED
  BY <1>1, <1>2, <1>3, <1>4, <1>5, <1>6, <1>7, <1>8, <1>9 DEF Next

LEMMA MemoInvariant ==
  Spec => []MemoInv
BY InitGood, NextGood, PTL DEF Spec

(* For any binaries, calls, claims, hashes and bounds: a run has for every  *)
(* item its binary lists what measuring it would give, whatever other       *)
(* invocations, merges, prunes and crashes did to the files it was spliced  *)
(* from (itemreuse.rs: measure_side, splice).                               *)
THEOREM RunsMeasured ==
  Spec => []RunsAreMeasured
<1>1. MemoInv => RunsAreMeasured
  <2> SUFFICES ASSUME MemoInv, NEW p \in Procs, NEW s \in DOMAIN job[p].bins
               PROVE  job[p].run[s] = [i \in Listing[job[p].bins[s]] |-> Outcome(job[p].bins[s], i)]
    BY DEF RunsAreMeasured
  <2>1. GoodRun(job[p].bins, job[p].run)
    BY DEF MemoInv, GoodJob
  <2>2. job[p].run = RunIs(job[p].bins)
    BY <2>1 DEF GoodRun
  <2>3. QED
    BY <2>2 DEF RunIs
<1>2. QED
  BY <1>1, MemoInvariant, PTL

(* No file ever answers with a failed claim (itemreuse.rs: record).          *)
THEOREM FailuresMeasured ==
  Spec => []FailuresAreMeasured
<1>1. MemoInv => FailuresAreMeasured
  <2> SUFFICES ASSUME MemoInv, NEW i \in Items, NEW e \in Read(file[i]) \cup Read(archive.file[i])
               PROVE  e.ok
    BY DEF FailuresAreMeasured
  <2>1. GoodFile(i, file[i]) /\ GoodFile(i, archive.file[i])
    BY DEF MemoInv, FilesGood
  <2>2. GoodEntry(i, e)
    BY <2>1, ReadGood
  <2>3. QED
    BY <2>2 DEF GoodEntry
<1>2. QED
  BY <1>1, MemoInvariant, PTL

(* A file keeps one entry a code and never more than PerItem, however       *)
(* stores and merges interleave (itemcache.rs: store, union).               *)
THEOREM OneEntry ==
  Spec => []OneEntryACode
<1>1. MemoInv => OneEntryACode
  <2> SUFFICES ASSUME MemoInv, NEW i \in Items, Readable(file[i])
               PROVE  /\ \A d, e \in file[i] : d.code = e.code => d = e
                      /\ Cardinality(file[i]) <= PerItem
    BY DEF OneEntryACode
  <2>1. Ordered(file[i]) /\ \A e \in file[i] : e.at \in 1..PerItem
    BY DEF MemoInv, FilesGood, GoodFile, Readable
  <2>2. QED
    BY <2>1, NumberedFinite DEF Ordered
<1>2. QED
  BY <1>1, MemoInvariant, PTL

LEMMA TaskTyped ==
  ASSUME NEW bins, NEW t, NEW files, GoodTask(bins, t, files)
  PROVE  IsTask(t)
<1>1. t.side \in {1, 2} /\ t.item \in Items \cup {None}
  BY DEF GoodTask
<1>2. CASE t.entry = None
  BY <1>1, <1>2 DEF IsTask
<1>3. CASE t.entry # None
  <2>1. t.item # None
    BY <1>3 DEF GoodTask
  <2>2. t.item \in Items /\ Kept(t.item, t.entry)
    BY <1>3, <2>1, StoreKept
  <2>3. PICK b \in Binaries : t.entry = Outcome(b, t.item) /\ Outcome(b, t.item).ok
    BY <2>2 DEF Kept
  <2> DEFINE e == [code |-> t.entry.code, finger |-> t.entry.finger, ok |-> t.entry.ok, at |-> 0]
  <2>4. t.entry.code \in Codes /\ t.entry.finger \in Fingers /\ t.entry.ok \in BOOLEAN
    <3>1. Outcome(b, t.item).code \in Codes
      BY <2>2, OutcomeIs, ExecutedIs
    <3>2. Outcome(b, t.item).finger \in Fingers
      BY <2>2, OutcomeIs, BinariesAssumption
    <3>3. Outcome(b, t.item).ok \in BOOLEAN
      BY <2>2, OutcomeIs DEF Holds
    <3>4. QED
      BY <2>3, <3>1, <3>2, <3>3
  <2>5. DOMAIN t.entry.code \subseteq Functions /\ \A f \in DOMAIN t.entry.code : t.entry.code[f] \in Contents
    BY <2>4 DEF Codes
  <2>6. IsEntry(e)
    BY <2>4, <2>5 DEF IsEntry
  <2>7. QED
    BY <1>1, <2>6 DEF IsTask
<1>4. QED
  BY <1>2, <1>3

(* Files and tasks have their types (itemcache.rs: Items::read, store).      *)
THEOREM TypeCorrect ==
  Spec => []TypeOK
<1>1. MemoInv => TypeOK
  <2> SUFFICES ASSUME MemoInv
               PROVE  TypeOK
    OBVIOUS
  <2>1. \A i \in Items : IsFile(file[i]) /\ IsFile(archive.file[i])
    BY DEF MemoInv, FilesGood, GoodFile, GoodEntry, IsFile
  <2>2. ASSUME NEW p \in Procs
        PROVE  /\ job[p].pc \in {"idle", "next", "truncate", "write"}
               /\ job[p].bins \in Measured \cup {<<>>}
               /\ \A t \in job[p].todo : IsTask(t)
               /\ IF job[p].pc \in {"truncate", "write"}
                  THEN IsTask(job[p].task) /\ job[p].task.item # None /\ IsFile(job[p].held)
                  ELSE job[p].task = None /\ job[p].held = {}
    <3>1. GoodJob(job[p], archive.file)
      BY DEF MemoInv
    <3>2. job[p].pc \in {"idle", "next", "truncate", "write"} /\ job[p].bins \in Measured \cup {<<>>}
      BY <3>1 DEF GoodJob, GoodRun
    <3>3. \A t \in job[p].todo : IsTask(t)
      BY <3>1, TaskTyped DEF GoodJob
    <3>4. ASSUME job[p].pc \in {"truncate", "write"}
          PROVE  IsTask(job[p].task) /\ job[p].task.item # None /\ IsFile(job[p].held)
      <4>1. GoodTask(job[p].bins, job[p].task, archive.file) /\ job[p].task.item # None
            /\ GoodFile(job[p].task.item, job[p].held)
        BY <3>1, <3>4 DEF GoodJob
      <4>2. IsFile(job[p].held)
        BY <4>1 DEF GoodFile, GoodEntry, IsFile
      <4>3. QED
        BY <4>1, <4>2, TaskTyped
    <3>5. job[p].pc \notin {"truncate", "write"} => job[p].task = None /\ job[p].held = {}
      BY <3>1 DEF GoodJob
    <3>6. QED
      BY <3>2, <3>3, <3>4, <3>5
  <2>3. QED
    BY <2>1, <2>2 DEF MemoInv, FilesGood, TypeOK
<1>2. QED
  BY <1>1, MemoInvariant, PTL

-----------------------------------------------------------------------------
(* The files implement ItemMemo *)

Everywhere(i) == Read(file[i]) \cup Read(archive.file[i]) \cup UNION {HeldBy(p, i) : p \in Procs}

LEMMA KnownFact ==
  ASSUME NEW i \in Items, NEW e \in Everywhere(i)
  PROVE  FactOf(i, e) \in Known
BY DEF Everywhere, Known

LEMMA KnownNext ==
  ASSUME NEW X, \A i \in Items : \A e \in Everywhere(i)' : FactOf(i, e) \in X
  PROVE  Known' \subseteq X
BY DEF Everywhere, Known

(* One invocation's step that takes nothing new into its hands and leaves   *)
(* files as they were, unreadable, or as it held them.                      *)
LEMMA NothingNew ==
  ASSUME NEW p \in Procs, UNCHANGED archive,
         \A q \in Procs : q # p => job'[q] = job[q],
         \A i \in Items : HeldBy(p, i)' \subseteq HeldBy(p, i),
         \A i \in Items : Read(file'[i]) \subseteq Read(file[i]) \cup HeldBy(p, i)
  PROVE  Known' \subseteq Known
<1>1. ASSUME NEW i \in Items, NEW e \in Everywhere(i)'
      PROVE  e \in Everywhere(i)
  <2>1. \A q \in Procs : HeldBy(q, i)' \subseteq HeldBy(q, i)
    BY DEF HeldBy
  <2>2. Read(file'[i]) \subseteq Read(file[i]) \cup HeldBy(p, i)
    OBVIOUS
  <2>3. e \in Read(file'[i]) \/ e \in Read(archive'.file[i]) \/ \E q \in Procs : e \in HeldBy(q, i)'
    BY DEF Everywhere
  <2>4. QED
    BY <2>1, <2>2, <2>3 DEF Everywhere
<1>2. QED
  BY <1>1, KnownFact, KnownNext

LEMMA ResultsNext ==
  ASSUME NEW p \in Procs, \A q \in Procs : q # p => job'[q] = job[q]
  PROVE  Results' = [Results EXCEPT ![p] = [bins |-> job'[p].bins, run |-> job'[p].run]]
BY DEF Results

LEMMA ResultsSame ==
  ASSUME NEW p \in Procs, \A q \in Procs : q # p => job'[q] = job[q],
         job'[p].bins = job[p].bins, job'[p].run = job[p].run
  PROVE  Results' = Results
BY DEF Results

LEMMA UnreadableIsEmpty ==
  Read(Absent) = {} /\ Read(Empty) = {} /\ Read(Torn) = {}
BY DEF Read, Readable

LEMMA MeasureImplements ==
  ASSUME MemoInv, NEW p \in Procs, NEW s \in Starts, Measure(p, s.bins, s.recording)
  PROVE  Memo!Measure(p, s.bins)
<1>1. /\ job'[p].bins = s.bins /\ job'[p].run = RunIs(s.bins) /\ job'[p].pc = "next"
      /\ \A q \in Procs : q # p => job'[q] = job[q]
      /\ job[p].pc = "idle" /\ UNCHANGED <<file, archive>>
  <2>1. \A q \in Procs : q # p => job'[q] = job[q]
    BY DEF Measure, Become, MemoInv
  <2>2. QED
    BY <2>1, MeasureStep DEF Measure
<1>2. Results' = [Results EXCEPT ![p] = [bins |-> s.bins, run |-> RunIs(s.bins)]]
  BY <1>1, ResultsNext
<1>3. Known' = Known
  <2>1. \A q \in Procs, i \in Items : HeldBy(q, i)' = HeldBy(q, i)
    BY <1>1 DEF HeldBy
  <2>2. QED
    BY <1>1, <2>1 DEF Known
<1>4. QED
  BY <1>2, <1>3 DEF Memo!Measure, RunIs

LEMMA ReadItemImplements ==
  ASSUME MemoInv, NEW p \in Procs, ReadItem(p)
  PROVE  Memo!Remember(p)
<1> DEFINE t == job'[p].task
           bins == job[p].bins
<1>1. /\ job[p].pc = "next" /\ job'[p].pc = "truncate"
      /\ job'[p].bins = job[p].bins /\ job'[p].run = job[p].run
      /\ \A q \in Procs : q # p => job'[q] = job[q]
      /\ GoodTask(bins, t, archive.file)
      /\ t.item # None /\ job'[p].held = HeldFor(t)
      /\ UNCHANGED <<file, archive>>
  BY ReadItemStep DEF ReadItem
<1>2. /\ t.item \in Items
      /\ FactsOf(t.item, HeldFor(t)) \subseteq
           FactsOf(t.item, Read(file[t.item])) \cup FactsOf(t.item, Read(archive.file[t.item]))
           \cup (IF t.entry # None THEN {FactOf(t.item, t.entry)} ELSE {})
  BY <1>1, HeldGood
<1>3. t.entry # None => FactOf(t.item, t.entry) \in Memo!Facts(bins)
  <2> SUFFICES ASSUME t.entry # None
               PROVE  FactOf(t.item, t.entry) \in Memo!Facts(bins)
    OBVIOUS
  <2>1. PICK s \in DOMAIN bins : t.item \in Listing[bins[s]] /\ t.entry = Outcome(bins[s], t.item)
    BY <1>1, StoreKept
  <2>2. FactOf(t.item, t.entry) = MemoFact(bins[s], t.item)
    BY <2>1 DEF MemoFact
  <2>3. QED
    BY <2>1, <2>2 DEF Memo!Facts
<1>4. Known' \subseteq Known \cup Memo!Facts(bins)
  <2>1. ASSUME NEW i \in Items, NEW e \in Everywhere(i)'
        PROVE  FactOf(i, e) \in Known \cup Memo!Facts(bins)
    <3>1. CASE e \in Everywhere(i)
      BY <3>1, KnownFact
    <3>2. CASE e \notin Everywhere(i)
      <4>1. \A q \in Procs : q # p => HeldBy(q, i)' = HeldBy(q, i)
        BY <1>1 DEF HeldBy
      <4>2. e \in HeldBy(p, i)'
        BY <1>1, <3>2, <4>1 DEF Everywhere
      <4>3. t.item = i /\ e \in HeldFor(t)
        BY <1>1, <4>2 DEF HeldBy
      <4>4. FactOf(i, e) \in FactsOf(i, HeldFor(t))
        BY <4>3 DEF FactsOf
      <4>5. CASE FactOf(i, e) \in FactsOf(i, Read(file[i])) \cup FactsOf(i, Read(archive.file[i]))
        BY <4>5, KnownFact DEF FactsOf, Everywhere
      <4>6. CASE FactOf(i, e) \notin FactsOf(i, Read(file[i])) \cup FactsOf(i, Read(archive.file[i]))
        BY <1>2, <1>3, <4>3, <4>4, <4>6
      <4>7. QED
        BY <4>5, <4>6
    <3>3. QED
      BY <3>1, <3>2
  <2>2. QED
    BY <2>1, KnownNext
<1>5. Results' = Results /\ Results[p].bins = bins
  BY <1>1, ResultsSame DEF Results
<1>6. QED
  BY <1>4, <1>5 DEF Memo!Remember

LEMMA NextImplements ==
  ASSUME MemoInv, [Next]_vars
  PROVE  [Memo!Next]_(Memo!vars)
<1>1. CASE UNCHANGED vars
  BY <1>1 DEF vars, Known, HeldBy, Results, Memo!vars
<1>2. ASSUME NEW p \in Procs, NEW s \in Starts, Measure(p, s.bins, s.recording)
      PROVE  Memo!Next
  BY <1>2, MeasureImplements DEF Memo!Next, Measured
<1>3. ASSUME NEW p \in Procs, Merge(p)
      PROVE  Memo!Next
  <2>1. /\ job[p].pc = "idle" /\ job'[p].pc = "next" /\ job'[p].bins = <<>> /\ job'[p].run = <<>>
        /\ UNCHANGED <<file, archive>> /\ \A q \in Procs : q # p => job'[q] = job[q]
    BY <1>3, MergeStep DEF Merge, Become, MemoInv
  <2>2. job[p].bins = <<>> /\ job[p].run = <<>>
    BY <2>1 DEF MemoInv, GoodJob, Idle, Between
  <2>3. Results' = Results
    BY <2>1, <2>2, ResultsSame
  <2>4. Known' \subseteq Known
    BY <2>1, NothingNew DEF HeldBy
  <2>5. QED
    BY <2>3, <2>4 DEF Memo!Next, Memo!Forget
<1>4. ASSUME NEW p \in Procs, ReadItem(p)
      PROVE  Memo!Next
  BY <1>4, ReadItemImplements DEF Memo!Next
<1>5. ASSUME NEW p \in Procs, Truncate(p)
      PROVE  Memo!Next
  <2>1. /\ job[p].pc = "truncate" /\ job'[p].pc = "write"
        /\ job'[p].bins = job[p].bins /\ job'[p].run = job[p].run
        /\ job'[p].task = job[p].task /\ job'[p].held = job[p].held
        /\ UNCHANGED archive /\ \A q \in Procs : q # p => job'[q] = job[q]
        /\ \A i \in Items : file'[i] \in {file[i], Empty}
    BY <1>5, TruncateStep DEF Truncate
  <2>2. Known' \subseteq Known
    BY <2>1, NothingNew, UnreadableIsEmpty DEF HeldBy
  <2>3. QED
    BY <2>1, <2>2, ResultsSame DEF Memo!Next, Memo!Forget
<1>6. ASSUME NEW p \in Procs, Write(p)
      PROVE  Memo!Next
  <2>1. /\ job[p].pc = "write" /\ job'[p].pc = "next"
        /\ job'[p].bins = job[p].bins /\ job'[p].run = job[p].run
        /\ UNCHANGED archive /\ \A q \in Procs : q # p => job'[q] = job[q]
        /\ \A i \in Items : file'[i] \in {file[i], Torn} \/ (i = job[p].task.item /\ file'[i] = job[p].held)
    BY <1>6, WriteStep DEF Write
  <2>2. \A i \in Items : HeldBy(p, i)' = {}
    BY <2>1 DEF HeldBy
  <2>3. \A i \in Items : Read(file'[i]) \subseteq Read(file[i]) \cup HeldBy(p, i)
    BY <2>1, UnreadableIsEmpty DEF HeldBy, Read
  <2>4. Known' \subseteq Known
    BY <2>1, <2>2, <2>3, NothingNew
  <2>5. QED
    BY <2>1, <2>4, ResultsSame DEF Memo!Next, Memo!Forget
<1>7. ASSUME NEW p \in Procs, Prune(p)
      PROVE  Memo!Next
  <2>1. /\ job[p].pc = "next" /\ job'[p].pc = "next"
        /\ job'[p].bins = job[p].bins /\ job'[p].run = job[p].run
        /\ UNCHANGED archive /\ \A q \in Procs : q # p => job'[q] = job[q]
        /\ \A i \in Items : file'[i] \in {file[i], Absent}
    BY <1>7, PruneStep DEF Prune
  <2>2. Known' \subseteq Known
    BY <2>1, NothingNew, UnreadableIsEmpty DEF HeldBy
  <2>3. QED
    BY <2>1, <2>2, ResultsSame DEF Memo!Next, Memo!Forget
<1>8. ASSUME NEW p \in Procs, Exit(p)
      PROVE  Memo!Next
  <2>1. job'[p] = Idle /\ UNCHANGED <<file, archive>> /\ \A q \in Procs : q # p => job'[q] = job[q]
    BY <1>8, ExitStep DEF Exit
  <2>2. job'[p].pc = "idle" /\ job'[p].bins = <<>> /\ job'[p].run = <<>>
    BY <2>1 DEF Idle, Between
  <2>3. Known' \subseteq Known
    BY <2>1, <2>2, NothingNew DEF HeldBy
  <2>4. Results' = [Results EXCEPT ![p] = Memo!Nothing]
    BY <2>1, <2>2, ResultsNext DEF Memo!Nothing
  <2>5. QED
    BY <2>3, <2>4 DEF Memo!Next, Memo!Leave
<1>9. CASE NextJob
  <2>1. /\ job' = job /\ \A p \in Procs : job[p] = Idle
        /\ archive' \in {archive, [file |-> file, written |-> written]}
        /\ file' \in {archive'.file, NoFile.file}
    BY <1>9, NextJobStep
  <2>2. \A p \in Procs, i \in Items : HeldBy(p, i)' = {}
    BY <2>1 DEF HeldBy, Idle, Between
  <2>3. \A i \in Items : archive'.file[i] \in {archive.file[i], file[i]}
    BY <2>1
  <2>4. \A i \in Items : file'[i] \in {archive.file[i], file[i], Absent}
    BY <2>1, <2>3 DEF NoFile
  <2>5. ASSUME NEW i \in Items, NEW e \in Everywhere(i)'
        PROVE  e \in Everywhere(i)
    <3>1. e \in Read(file'[i]) \/ e \in Read(archive'.file[i])
      BY <2>2 DEF Everywhere
    <3>2. QED
      BY <2>3, <2>4, <3>1, UnreadableIsEmpty DEF Everywhere
  <2>6. Known' \subseteq Known
    BY <2>5, KnownFact, KnownNext
  <2>7. Results' = Results
    BY <2>1 DEF Results
  <2>8. QED
    BY <2>6, <2>7 DEF Memo!Next, Memo!Forget
<1>10. QED
  BY <1>1, <1>2, <1>3, <1>4, <1>5, <1>6, <1>7, <1>8, <1>9 DEF Next

(* Item files, with their truncations, lost updates, prunes, merges and     *)
(* restored copies, implement the memo without files: what is measured is   *)
(* what measuring gives, and only measured facts are stored                 *)
(* (itemcache.rs: read, store, merge; itemreuse.rs: measure_side, record).   *)
THEOREM FilesImplementMemo ==
  Spec => ImplementsMemo
<1>1. Init => Memo!Init
  <2> SUFFICES ASSUME Init
               PROVE  Memo!Init
    OBVIOUS
  <2>1. Known = {}
    BY UnreadableIsEmpty DEF Init, NoFile, Known, HeldBy, Idle, Between
  <2>2. Results = [p \in Procs |-> Memo!Nothing]
    BY DEF Init, Results, Idle, Between, Memo!Nothing
  <2>3. QED
    BY <2>1, <2>2 DEF Memo!Init
<1>2. QED
  BY <1>1, MemoInvariant, NextImplements, PTL DEF Spec, ImplementsMemo, Memo!Spec
=============================================================================
