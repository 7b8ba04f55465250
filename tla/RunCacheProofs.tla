--------------------------- MODULE RunCacheProofs ---------------------------
(***************************************************************************)
(* Proofs about RunCache: types, that stored runs are whole and that no      *)
(* failure is served, for every choice of the constants; and, when the       *)
(* checkout and the reference stay put while an invocation runs, that stored *)
(* runs are of what names them, that verdicts are the counters', that a      *)
(* gate's sides compare, and that invocations over stored runs answer as     *)
(* RunMemo's do, which stores none.                                          *)
(***************************************************************************)
EXTENDS RunCache, TLAPS

-----------------------------------------------------------------------------
(* What the operators on runs return. *)

(* A pass measures its binary over its scope; with counters, its complexity  *)
(* verdicts are theirs.                                                      *)
IsPass(run, b, s, counted) ==
  /\ run \in Run /\ run.bin = b /\ run.counted = counted
  /\ run.ids = InScope(s) \cap Listing[b] /\ run.claims = InScope(s) \cap Claims[b]
  /\ run.fails \subseteq run.claims /\ (counted => run.fails = run.claims \cap Breaks[b])

LEMMA PassIs ==
  ASSUME NEW b \in Binaries, NEW s \in Scopes, NEW counted \in BOOLEAN,
         NEW run \in Pass(b, s, counted)
  PROVE  IsPass(run, b, s, counted)
<1> DEFINE ids == InScope(s) \cap Listing[b]
           judged == ids \cap Claims[b]
<1>1. PICK fails \in IF counted THEN {judged \cap Breaks[b]} ELSE SUBSET judged, late \in BOOLEAN :
        run = [bin |-> b, ids |-> ids, counted |-> counted, claims |-> judged, fails |-> fails,
               late |-> late, stamped |-> FALSE]
  BY DEF Pass
<1>2. ids \subseteq Items /\ judged = InScope(s) \cap Claims[b]
  BY BinaryAssumption DEF InScope
<1>3. fails \subseteq judged /\ (counted => fails = judged \cap Breaks[b])
  BY <1>1
<1>4. run \in Run
  BY <1>1, <1>2, <1>3 DEF Run
<1> QED BY <1>1, <1>2, <1>3, <1>4 DEF IsPass

(* Stamping and narrowing keep a run a run. *)
LEMMA StampedIs ==
  ASSUME NEW run \in Run
  PROVE  /\ Stamped(run) \in Run
         /\ Stamped(run) = [bin |-> run.bin, ids |-> run.ids, counted |-> run.counted,
              claims |-> run.claims, fails |-> run.fails, late |-> run.late, stamped |-> ~Failed(run)]
<1> DEFINE failed == ~Failed(run)
<1>1. failed \in BOOLEAN
  BY DEF Failed, Run
<1>2. Stamped(run) = [run EXCEPT !.stamped = failed]
  BY DEF Stamped
<1> HIDE DEF failed
<1>3. Stamped(run) = [bin |-> run.bin, ids |-> run.ids, counted |-> run.counted,
        claims |-> run.claims, fails |-> run.fails, late |-> run.late, stamped |-> failed]
  BY <1>2 DEF Run
<1> QED BY <1>1, <1>3 DEF Run, failed

LEMMA NarrowedIs ==
  ASSUME NEW doc \in Run, NEW s \in Scopes
  PROVE  /\ Narrowed(doc, s) \in Run
         /\ Narrowed(doc, s) = [bin |-> doc.bin, ids |-> doc.ids \cap s.shard, counted |-> doc.counted,
              claims |-> doc.claims \cap s.shard, fails |-> doc.fails \cap s.shard,
              late |-> doc.late, stamped |-> doc.stamped]
<1> DEFINE ids == doc.ids \cap s.shard  claims == doc.claims \cap s.shard
           fails == doc.fails \cap s.shard
<1>1. ids \in SUBSET Items /\ claims \in SUBSET Items /\ fails \in SUBSET Items
  BY DEF Run
<1>2. Narrowed(doc, s) = [doc EXCEPT !.ids = ids, !.claims = claims, !.fails = fails]
  BY DEF Narrowed
<1> HIDE DEF ids, claims, fails
<1>3. Narrowed(doc, s) = [bin |-> doc.bin, ids |-> ids, counted |-> doc.counted, claims |-> claims,
        fails |-> fails, late |-> doc.late, stamped |-> doc.stamped]
  BY <1>2 DEF Run
<1> QED BY <1>1, <1>3 DEF Run, ids, claims, fails

(* What is loaded is a stored run. *)
StoredRuns == DOMAIN runs \subseteq Keys /\ \A k \in DOMAIN runs : runs[k] \in Run

(* `k' stores the runs of `id' for a scope as wide as `s'. *)
Wider(k, id, s) == k.id = id /\ s.shard \subseteq k.shard /\ s.filter \subseteq k.filter

LEMMA WiderKeys ==
  ASSUME NEW id, NEW s \in Scopes
  PROVE  /\ Wider(Key(id, s), id, s)
         /\ Wider([Key(id, s) EXCEPT !.shard = Items], id, s)
         /\ Wider([Key(id, s) EXCEPT !.filter = Items], id, s)
         /\ Wider([id |-> id, shard |-> Items, filter |-> Items], id, s)
<1>1. s.shard \subseteq Items /\ s.filter \subseteq Items
  BY ScopeAssumption DEF Scopes
<1> DEFINE own == [id |-> id, shard |-> s.shard, filter |-> s.filter]
<1>2. Key(id, s) = own /\ Wider(own, id, s)
  BY <1>1 DEF Key, Wider
<1>3. Wider([own EXCEPT !.shard = Items], id, s)
  BY <1>1 DEF Wider
<1>4. Wider([own EXCEPT !.filter = Items], id, s)
  BY <1>1 DEF Wider
<1>5. Wider([id |-> id, shard |-> Items, filter |-> Items], id, s)
  BY <1>1 DEF Wider
<1> HIDE DEF own
<1> QED BY <1>2, <1>3, <1>4, <1>5

LEMMA ReferenceIs ==
  ASSUME NEW id, NEW s \in Scopes, Reference(id, s) # None
  PROVE  \E k \in DOMAIN runs : Wider(k, id, s) /\ Reference(id, s) = runs[k]
<1> DEFINE own == Key(id, s)  whole == [Key(id, s) EXCEPT !.shard = Items]
<1>2. Wider(own, id, s) /\ Wider(whole, id, s)
  BY WiderKeys
<1> HIDE DEF own, whole
<1>1. Reference(id, s) = IF Load(own) # None THEN Load(own) ELSE Load(whole)
  BY DEF Reference, own, whole
<1> QED BY <1>1, <1>2 DEF Load

LEMMA CoveringIs ==
  ASSUME NEW b, NEW s \in Scopes, NEW ids, Covering(b, s, ids) # None
  PROVE  /\ \E k \in DOMAIN runs : Wider(k, b, s) /\ Covering(b, s, ids) = runs[k]
         /\ CountsCover(Covering(b, s, ids), ids)
<1> DEFINE wider == <<Key(b, s), [Key(b, s) EXCEPT !.shard = Items],
                      [Key(b, s) EXCEPT !.filter = Items],
                      [id |-> b, shard |-> Items, filter |-> Items]>>
           good == {n \in 1..4 : Usable(Load(wider[n])) /\ CountsCover(Load(wider[n]), ids)}
           first == CHOOSE n \in good : \A m \in good : n <= m
<1>2. \A n \in 1..4 : Wider(wider[n], b, s)
  <2>1. Wider(wider[1], b, s)  BY WiderKeys
  <2>2. Wider(wider[2], b, s)  BY WiderKeys
  <2>3. Wider(wider[3], b, s)  BY WiderKeys
  <2>4. Wider(wider[4], b, s)  BY WiderKeys
  <2> HIDE DEF wider
  <2> QED BY <2>1, <2>2, <2>3, <2>4
<1>3. Covering(b, s, ids) = IF good = {} THEN None ELSE Load(wider[first])
  BY DEF Covering
<1> HIDE DEF wider
<1>4. good \subseteq 1..4 /\ good # {}
  BY <1>3
<1> HIDE DEF good
<1>5. \E n \in good : \A m \in good : n <= m
  <2>1. CASE 1 \in good  BY <1>4, <2>1
  <2>2. CASE 1 \notin good /\ 2 \in good  BY <1>4, <2>2
  <2>3. CASE 1 \notin good /\ 2 \notin good /\ 3 \in good
    <3>1. \A m \in good : 3 <= m  BY <1>4, <2>3
    <3> QED BY <2>3, <3>1
  <2>4. CASE 1 \notin good /\ 2 \notin good /\ 3 \notin good
    <3>0. \A n \in 1..4 : n = 1 \/ n = 2 \/ n = 3 \/ n = 4  OBVIOUS
    <3>1. good = {4}  BY <1>4, <2>4, <3>0
    <3>2. 4 \in good /\ \A m \in good : 4 <= m  BY <3>1
    <3> QED BY <3>2
  <2> QED BY <2>1, <2>2, <2>3, <2>4
<1>6. first \in good
  BY <1>5
<1> HIDE DEF first
<1>7. first \in 1..4 /\ Load(wider[first]) # None /\ CountsCover(Load(wider[first]), ids)
  BY <1>6 DEF good, Usable
<1>8. Covering(b, s, ids) = Load(wider[first])
  BY <1>3, <1>4
<1>9. wider[first] \in DOMAIN runs /\ Load(wider[first]) = runs[wider[first]]
  BY <1>7 DEF Load
<1> QED BY <1>2, <1>7, <1>8, <1>9

LEMMA CountedFailsIs ==
  ASSUME NEW run \in Run, NEW doc \in Run
  PROVE  CountedFails(run, doc) \in SUBSET Items /\ CountedFails(run, doc) \subseteq run.claims
BY DEF CountedFails, Run

(* A merged run is the timing pass with the verdicts of the stored counters. *)
LEMMA MergedIs ==
  ASSUME NEW doc \in Run, NEW timing \in Run, NEW ids, MergeStored(doc, timing, ids) # None
  PROVE  /\ MergeStored(doc, timing, ids) \in Run
         /\ MergeStored(doc, timing, ids) =
              [bin |-> timing.bin, ids |-> timing.ids, counted |-> TRUE, claims |-> timing.claims,
               fails |-> CountedFails(timing, doc), late |-> timing.late, stamped |-> timing.stamped]
         /\ timing.ids = ids /\ CountsCover(doc, ids) /\ timing.claims \subseteq doc.claims
<1> DEFINE fails == CountedFails(timing, doc)
<1>1. /\ MergeStored(doc, timing, ids) = [timing EXCEPT !.counted = TRUE, !.fails = fails]
      /\ timing.ids = ids /\ CountsCover(doc, ids) /\ ~UncountedComplexity(timing, doc)
  BY DEF MergeStored
<1>2. fails \in SUBSET Items
  BY CountedFailsIs
<1> HIDE DEF fails
<1>3. MergeStored(doc, timing, ids) =
        [bin |-> timing.bin, ids |-> timing.ids, counted |-> TRUE, claims |-> timing.claims,
         fails |-> fails, late |-> timing.late, stamped |-> timing.stamped]
  BY <1>1 DEF Run
<1>4. timing.claims \subseteq doc.claims
  BY <1>1, NoneAssumption DEF UncountedComplexity
<1> QED BY <1>1, <1>2, <1>3, <1>4 DEF Run, fails

-----------------------------------------------------------------------------
(* What is put into the cache. *)
PutOf == [id : Binaries \cup 1..MaxCommits \cup {HEAD}, doc : Run]

LEMMA HeadPutsIs ==
  ASSUME NEW run \in Run \cup {None}, NEW digests \in Seq(Binaries)
  PROVE  /\ HeadPuts(run, digests) \in Seq(PutOf)
         /\ \A n \in 1..Len(HeadPuts(run, digests)) :
              /\ run \in Run /\ ~Failed(run) /\ HeadPuts(run, digests)[n].doc = Stamped(run)
              /\ \/ HeadPuts(run, digests)[n].id = HEAD
                 \/ \E i \in 1..Len(digests) : HeadPuts(run, digests)[n].id = digests[i]
<1>1. CASE run = None \/ Failed(run)
  <2>1. HeadPuts(run, digests) = <<>>  BY <1>1 DEF HeadPuts
  <2> QED BY <2>1
<1>2. CASE run # None /\ ~Failed(run)
  <2> DEFINE doc == Stamped(run)  id(n) == IF n <= Len(digests) THEN digests[n] ELSE HEAD
             puts == [n \in 1..Len(digests) + 1 |-> [id |-> id(n), doc |-> doc]]
  <2>1. HeadPuts(run, digests) = puts  BY <1>2 DEF HeadPuts
  <2>2. doc \in Run  BY <1>2, StampedIs
  <2> HIDE DEF doc
  <2>3. \A n \in 1..Len(digests) + 1 : [id |-> id(n), doc |-> doc] \in PutOf
    BY <2>2 DEF PutOf
  <2>4. puts \in Seq(PutOf) /\ Len(puts) = Len(digests) + 1
    BY <2>3
  <2> QED BY <1>2, <2>1, <2>4 DEF doc
<1> QED BY <1>1, <1>2

LEMMA BasePutsIs ==
  ASSUME NEW run \in Run \cup {None}, NEW id \in 1..MaxCommits, NEW digests \in Seq(Binaries)
  PROVE  /\ BasePuts(run, id, digests) \in Seq(PutOf)
         /\ \A n \in 1..Len(BasePuts(run, id, digests)) :
              /\ run \in Run /\ BasePuts(run, id, digests)[n].doc = Stamped(run)
              /\ \/ BasePuts(run, id, digests)[n].id = id
                 \/ \E i \in 1..Len(digests) : BasePuts(run, id, digests)[n].id = digests[i]
<1>1. CASE run = None
  <2>1. BasePuts(run, id, digests) = <<>>  BY <1>1 DEF BasePuts
  <2> QED BY <2>1
<1>2. CASE run # None
  <2> DEFINE doc == Stamped(run)  name(n) == IF n = 1 THEN id ELSE digests[n - 1]
             puts == [n \in 1..Len(digests) + 1 |-> [id |-> name(n), doc |-> doc]]
  <2>1. BasePuts(run, id, digests) = puts  BY <1>2 DEF BasePuts
  <2>2. doc \in Run  BY <1>2, StampedIs
  <2> HIDE DEF doc
  <2>3. \A n \in 1..Len(digests) + 1 : [id |-> name(n), doc |-> doc] \in PutOf
    BY <2>2 DEF PutOf
  <2>4. puts \in Seq(PutOf) /\ Len(puts) = Len(digests) + 1
    BY <2>3
  <2>5. \A n \in 1..Len(puts) : puts[n].doc = doc /\
          (puts[n].id = id \/ \E i \in 1..Len(digests) : puts[n].id = digests[i])
    <3> SUFFICES ASSUME NEW n \in 1..Len(puts)
                 PROVE  puts[n].doc = doc /\
                        (puts[n].id = id \/ \E i \in 1..Len(digests) : puts[n].id = digests[i])
      OBVIOUS
    <3>1. n \in 1..Len(digests) + 1 /\ puts[n].id = name(n) /\ puts[n].doc = doc  BY <2>4
    <3>2. n = 1 \/ n - 1 \in 1..Len(digests)  BY <3>1
    <3> QED BY <3>1, <3>2
  <2> QED BY <1>2, <2>1, <2>4, <2>5 DEF doc
<1> QED BY <1>1, <1>2

LEMMA DigestsIs ==
  ASSUME NEW d \in Binaries \cup {None}
  PROVE  /\ Digests(d) \in Seq(Binaries)
         /\ \A i \in 1..Len(Digests(d)) : Digests(d)[i] = d /\ d \in Binaries
BY DEF Digests

-----------------------------------------------------------------------------
(* Types.  Which of an invocation's fields are set at which of its steps.     *)
Pair == [head : Binaries, base : Binaries]

TypedJob(step, j) ==
  /\ j \in Jobs
  /\ j.base \in 1..Len(commits) /\ j.wt \in 1..Len(commits) \cup {None}
  /\ step \in {"identical", "judge"} => j.bins \in Pair
  /\ step = "judge" => j.head \in Run
  /\ step = "rounds" => j.wt # None

TypeInv ==
  /\ TypeOK
  /\ \A p \in Procs : pc[p] # "idle" => TypedJob(pc[p], job[p])

-----------------------------------------------------------------------------
(* What runs are worth.                                                       *)

(* A run has the counters of its scope, and the verdicts they give.           *)
Counted(run, s) ==
  /\ run.counted /\ InScope(s) \cap Listing[run.bin] \subseteq run.ids
  /\ InScope(s) \cap Claims[run.bin] \subseteq run.claims
  /\ run.fails = run.claims \cap Breaks[run.bin]

(* So does a stored one, and one that reads as HEAD's had no failure.         *)
Worth(run, s) == Counted(run, s) /\ (run.stamped => ~Failed(run))

StoredInv ==
  \A k \in DOMAIN runs :
    /\ k.id \in Binaries \cup 1..Len(commits) /\ runs[k].bin = Built(k.id)
    /\ Worth(runs[k], k)

PutInv(put, s) ==
  /\ put.id = HEAD => put.doc.bin = Bin[tree]
  /\ put.id # HEAD => put.id \in Binaries \cup 1..Len(commits) /\ put.doc.bin = Built(put.id)
  /\ Worth(put.doc, s)

(* Verdicts of HEAD's run, and the other side of a gate.                      *)
Judged(run, s) ==
  LET asked == InScope(s) \cap Claims[run.bin] IN
  asked \subseteq run.claims /\ run.fails \cap asked = Breaks[run.bin] \cap asked

HeadInv(run, s) == run.bin = Bin[tree] /\ Judged(run, s)

RefInv(run, j) == run \in Run /\ run.bin = Bin[commits[j.base]] /\ Counted(run, j.scope)

(* While an invocation is under way the checkout and the reference stay put,  *)
(* so what it read of them still holds.                                       *)
JobInv(step, j) ==
  /\ j.base = MergeBase /\ j.wt \in {None, MergeBase}
  /\ j.digest \in {None, Bin[tree]}
  /\ j.bins \in {None, [head |-> Bin[tree], base |-> Bin[commits[MergeBase]]]}
  /\ j.early # None => j.early.bin = Bin[tree] /\ Counted(j.early, j.scope)
                        /\ CountsCover(j.early, Expected(Bin[tree], j.scope))
  /\ step \in {"identical", "judge"} => Bin[tree] = Bin[commits[MergeBase]]
  /\ step \in {"covering", "full"} => j.cmd = "measure"
  /\ step = "head" => RefInv(j.ref, j)
  /\ step = "judge" => j.head \in Pass(Bin[tree], j.scope, j.head.counted)
  /\ step # "put" => ~j.served /\ j.puts = <<>>
  /\ step = "put" =>
       /\ \A n \in 1..Len(j.puts) : PutInv(j.puts[n], j.scope)
       /\ HeadInv(j.head, j.scope) /\ (j.served => ~Failed(j.head))
       /\ j.cmd = "gate" =>
            /\ j.ref.bin = Bin[commits[j.base]]
            /\ j.head.bin # j.ref.bin => RefInv(j.ref, j) /\ Counted(j.head, j.scope)

CacheInv == StoredInv /\ \A p \in Procs : pc[p] # "idle" => JobInv(pc[p], job[p])

-----------------------------------------------------------------------------
(* What a step makes of an invocation.                                        *)
Becomes(n, j, digest, wt, bins, early, ref_, head, served, puts) ==
  /\ n.cmd = j.cmd /\ n.scope = j.scope /\ n.reuse = j.reuse /\ n.record = j.record /\ n.base = j.base
  /\ n.digest = digest /\ n.wt = wt /\ n.bins = bins /\ n.early = early /\ n.ref = ref_
  /\ n.head = head /\ n.served = served /\ n.puts = puts

LEMMA SetDigest ==
  ASSUME NEW j \in Jobs, NEW digest \in Binaries \cup {None}, NEW n,
         n = [j EXCEPT !.digest = digest]
  PROVE  n \in Jobs /\ Becomes(n, j, digest, j.wt, j.bins, j.early, j.ref, j.head, j.served, j.puts)
<1>1. n \in Jobs  BY DEF Jobs, PutOf, Pair
<1>2. Becomes(n, j, digest, j.wt, j.bins, j.early, j.ref, j.head, j.served, j.puts)  BY DEF Jobs, Becomes
<1> QED BY <1>1, <1>2

LEMMA SetRef ==
  ASSUME NEW j \in Jobs, NEW ref_ \in Run \cup {None}, NEW n,
         n = [j EXCEPT !.ref = ref_]
  PROVE  n \in Jobs /\ Becomes(n, j, j.digest, j.wt, j.bins, j.early, ref_, j.head, j.served, j.puts)
<1>1. n \in Jobs  BY DEF Jobs, PutOf, Pair
<1>2. Becomes(n, j, j.digest, j.wt, j.bins, j.early, ref_, j.head, j.served, j.puts)  BY DEF Jobs, Becomes
<1> QED BY <1>1, <1>2

LEMMA SetWorktree ==
  ASSUME NEW j \in Jobs, NEW wt \in 1..MaxCommits \cup {None}, NEW bins \in Pair \cup {None}, NEW ref_ \in Run \cup {None}, NEW n,
         n = [j EXCEPT !.wt = wt, !.bins = bins, !.ref = ref_]
  PROVE  n \in Jobs /\ Becomes(n, j, j.digest, wt, bins, j.early, ref_, j.head, j.served, j.puts)
<1>1. n \in Jobs  BY DEF Jobs, PutOf, Pair
<1>2. Becomes(n, j, j.digest, wt, bins, j.early, ref_, j.head, j.served, j.puts)  BY DEF Jobs, Becomes
<1> QED BY <1>1, <1>2

LEMMA SetServed ==
  ASSUME NEW j \in Jobs, NEW head \in Run \cup {None}, NEW served \in BOOLEAN, NEW puts \in Seq(PutOf), NEW n,
         n = [j EXCEPT !.head = head, !.served = served, !.puts = puts]
  PROVE  n \in Jobs /\ Becomes(n, j, j.digest, j.wt, j.bins, j.early, j.ref, head, served, puts)
<1>1. n \in Jobs  BY DEF Jobs, PutOf, Pair
<1>2. Becomes(n, j, j.digest, j.wt, j.bins, j.early, j.ref, head, served, puts)  BY DEF Jobs, Becomes
<1> QED BY <1>1, <1>2

LEMMA SetPuts ==
  ASSUME NEW j \in Jobs, NEW head \in Run \cup {None}, NEW puts \in Seq(PutOf), NEW n,
         n = [j EXCEPT !.head = head, !.puts = puts]
  PROVE  n \in Jobs /\ Becomes(n, j, j.digest, j.wt, j.bins, j.early, j.ref, head, j.served, puts)
<1>1. n \in Jobs  BY DEF Jobs, PutOf, Pair
<1>2. Becomes(n, j, j.digest, j.wt, j.bins, j.early, j.ref, head, j.served, puts)  BY DEF Jobs, Becomes
<1> QED BY <1>1, <1>2

LEMMA SetEarly ==
  ASSUME NEW j \in Jobs, NEW head \in Run \cup {None}, NEW early \in Run \cup {None}, NEW n,
         n = [j EXCEPT !.head = head, !.early = early]
  PROVE  n \in Jobs /\ Becomes(n, j, j.digest, j.wt, j.bins, early, j.ref, head, j.served, j.puts)
<1>1. n \in Jobs  BY DEF Jobs, PutOf, Pair
<1>2. Becomes(n, j, j.digest, j.wt, j.bins, early, j.ref, head, j.served, j.puts)  BY DEF Jobs, Becomes
<1> QED BY <1>1, <1>2

LEMMA SetSides ==
  ASSUME NEW j \in Jobs, NEW head \in Run \cup {None}, NEW ref_ \in Run \cup {None}, NEW puts \in Seq(PutOf), NEW n,
         n = [j EXCEPT !.head = head, !.ref = ref_, !.puts = puts]
  PROVE  n \in Jobs /\ Becomes(n, j, j.digest, j.wt, j.bins, j.early, ref_, head, j.served, puts)
<1>1. n \in Jobs  BY DEF Jobs, PutOf, Pair
<1>2. Becomes(n, j, j.digest, j.wt, j.bins, j.early, ref_, head, j.served, puts)  BY DEF Jobs, Becomes
<1> QED BY <1>1, <1>2

LEMMA SetHead ==
  ASSUME NEW j \in Jobs, NEW head \in Run \cup {None}, NEW n,
         n = [j EXCEPT !.head = head]
  PROVE  n \in Jobs /\ Becomes(n, j, j.digest, j.wt, j.bins, j.early, j.ref, head, j.served, j.puts)
<1>1. n \in Jobs  BY DEF Jobs, PutOf, Pair
<1>2. Becomes(n, j, j.digest, j.wt, j.bins, j.early, j.ref, head, j.served, j.puts)  BY DEF Jobs, Becomes
<1> QED BY <1>1, <1>2

LEMMA DropPut ==
  ASSUME NEW j \in Jobs, NEW puts \in Seq(PutOf), NEW n,
         n = [j EXCEPT !.puts = puts]
  PROVE  n \in Jobs /\ Becomes(n, j, j.digest, j.wt, j.bins, j.early, j.ref, j.head, j.served, puts)
<1>1. n \in Jobs  BY DEF Jobs, PutOf, Pair
<1>2. Becomes(n, j, j.digest, j.wt, j.bins, j.early, j.ref, j.head, j.served, puts)  BY DEF Jobs, Becomes
<1> QED BY <1>1, <1>2

LEMMA JobFields ==
  ASSUME NEW j \in Jobs
  PROVE  /\ j.scope \in Scopes /\ j.reuse \in BOOLEAN /\ j.record \in BOOLEAN
         /\ j.base \in 1..MaxCommits /\ j.digest \in Binaries \cup {None}
         /\ j.wt \in 1..MaxCommits \cup {None} /\ j.bins \in Pair \cup {None}
         /\ j.early \in Run \cup {None} /\ j.ref \in Run \cup {None}
         /\ j.head \in Run \cup {None} /\ j.served \in BOOLEAN /\ j.puts \in Seq(PutOf)
BY DEF Jobs, Pair, PutOf

(* Types are kept by a step of one invocation that leaves the repository.     *)
LEMMA TypedStep ==
  ASSUME TypeInv, NEW p \in Procs, NEW step, NEW new, Goto(p, step, new), UNCHANGED repo,
         step \in {"probe", "reference", "worktree", "head", "identical", "judge", "rounds",
                   "covering", "full", "put"},
         TypedJob(step, new), StoredRuns', started' \in 0..MaxRuns
  PROVE  TypeInv'
<1>1. commits' = commits /\ at' = at /\ ref' = ref /\ tree' = tree
  BY DEF repo
<1>2. pc' = [pc EXCEPT ![p] = step] /\ job' = [job EXCEPT ![p] = new]
  BY DEF Goto
<1>3. \A q \in Procs : pc'[q] = (IF q = p THEN step ELSE pc[q]) /\ job'[q] = (IF q = p THEN new ELSE job[q])
  BY <1>2 DEF TypeInv, TypeOK
<1>4. \A q \in Procs : IF pc'[q] = "idle" THEN job'[q] = Idle ELSE job'[q] \in Jobs
  BY <1>3 DEF TypeInv, TypeOK, TypedJob
<1>5. TypeOK'
  BY <1>1, <1>2, <1>4 DEF TypeInv, TypeOK, StoredRuns
<1>6. \A q \in Procs : pc'[q] # "idle" => TypedJob(pc'[q], job'[q])
  BY <1>3 DEF TypeInv
<1>7. \A q \in Procs : pc'[q] # "idle" => TypedJob(pc[q], job[q])' 
  BY <1>1, <1>6 DEF TypedJob
<1> QED BY <1>5, <1>7 DEF TypeInv

(* What holds of an invocation at a step, ready for use.                      *)
LEMMA AtStep ==
  ASSUME TypeInv, NEW p \in Procs, pc[p] # "idle"
  PROVE  /\ TypedJob(pc[p], job[p]) /\ job[p] \in Jobs /\ StoredRuns /\ started \in 0..MaxRuns
         /\ tree \in Trees /\ Bin[tree] \in Binaries /\ MergeBase \in 1..Len(commits)
         /\ Len(commits) \in 1..MaxCommits /\ at \in 1..Len(commits)
         /\ \A c \in 1..Len(commits) : commits[c] \in Trees /\ Bin[commits[c]] \in Binaries
<1>1. commits \in Seq(Trees) /\ \A c \in 1..Len(commits) : commits[c] \in Trees
  BY DEF TypeInv, TypeOK
<1> QED BY <1>1, BinaryAssumption DEF TypeInv, TypeOK, TypedJob, StoredRuns, MergeBase

(* ... and what may be loaded there.                                          *)
LEMMA LoadedIs ==
  ASSUME StoredRuns, NEW id, NEW s \in Scopes, NEW ids
  PROVE  /\ Load(Key(id, s)) \in Run \cup {None} /\ Reference(id, s) \in Run \cup {None}
         /\ Covering(id, s, ids) \in Run \cup {None}
BY ReferenceIs, CoveringIs DEF Load, StoredRuns

LEMMA SettledIs ==
  ASSUME NEW run \in Run, NEW kept \in Settled(run)
  PROVE  kept \in {run, None}
BY DEF Settled

LEMMA TypedStart ==
  ASSUME TypeInv, NEW p \in Procs, NEW asked \in Starts, Start(p, asked)
  PROVE  TypeInv'
<1> DEFINE new == [cmd |-> asked.cmd, scope |-> asked.scope, reuse |-> asked.reuse,
                   record |-> asked.record, base |-> MergeBase, digest |-> None, wt |-> None,
                   bins |-> None, early |-> None, ref |-> None, head |-> None, served |-> FALSE,
                   puts |-> <<>>]
<1>1. MergeBase \in 1..Len(commits) /\ Len(commits) \in 1..MaxCommits
  BY DEF TypeInv, TypeOK, MergeBase
<1>2. asked.cmd \in {"measure", "gate"} /\ asked.scope \in Scopes /\ asked.reuse \in BOOLEAN
      /\ asked.record \in BOOLEAN
  BY StartsAssumption DEF Invocations
<1>3. <<>> \in Seq(PutOf) /\ MergeBase \in 1..MaxCommits
  BY <1>1, BoundAssumption
<1>4. new \in Jobs
  BY <1>2, <1>3 DEF Jobs, PutOf
<1>5. TypedJob("probe", new)
  BY <1>1, <1>4 DEF TypedJob
<1>6. Goto(p, "probe", new) /\ started' \in 0..MaxRuns /\ UNCHANGED <<repo, runs>>
  BY BoundAssumption DEF Start, TypeInv, TypeOK
<1>7. StoredRuns'
  BY <1>6 DEF StoredRuns, TypeInv, TypeOK, Keys
<1> HIDE DEF new
<1> QED BY <1>5, <1>6, <1>7, TypedStep

(* A step that leaves the repository, the runs and the count alone.           *)
LEMMA TypedInner ==
  ASSUME TypeInv, NEW p \in Procs, NEW step, NEW new, Goto(p, step, new),
         UNCHANGED <<repo, runs, started>>,
         step \in {"reference", "worktree", "head", "identical", "judge", "rounds",
                   "covering", "full", "put"},
         TypedJob(step, new)
  PROVE  TypeInv'
<1>1. StoredRuns' /\ started' \in 0..MaxRuns
  BY DEF StoredRuns, TypeInv, TypeOK, Keys
<1> QED BY <1>1, TypedStep

LEMMA TypedProbe ==
  ASSUME TypeInv, NEW p \in Procs, NEW named \in BOOLEAN, Probe(p, named)
  PROVE  TypeInv'
<1> DEFINE j == job[p]  digest == IF named THEN Bin[tree] ELSE None
           new == [j EXCEPT !.digest = digest]
           step == IF j.cmd = "gate" THEN "reference" ELSE "covering"
<1>1. pc[p] = "probe" /\ Goto(p, step, new) /\ UNCHANGED <<repo, runs, started>>
  BY DEF Probe
<1>2. TypedJob("probe", j) /\ j \in Jobs /\ digest \in Binaries \cup {None}
  BY <1>1, AtStep
<1> HIDE DEF j, digest
<1>3. new = [j EXCEPT !.digest = digest]
  OBVIOUS
<1> HIDE DEF new
<1>4. new \in Jobs /\ Becomes(new, j, digest, j.wt, j.bins, j.early, j.ref, j.head, j.served, j.puts)
  BY <1>2, <1>3, SetDigest
<1>5. TypedJob(step, new)
  BY <1>2, <1>4 DEF TypedJob, Becomes
<1> QED BY <1>1, <1>5, TypedInner

LEMMA TypedFindReference ==
  ASSUME TypeInv, NEW p \in Procs, FindReference(p)
  PROVE  TypeInv'
<1> DEFINE j == job[p]  doc == IF j.reuse THEN Reference(j.base, j.scope) ELSE None
           new == [j EXCEPT !.ref = doc]  step == IF doc = None THEN "worktree" ELSE "head"
<1>1. pc[p] = "reference" /\ Goto(p, step, new) /\ UNCHANGED <<repo, runs, started>>
  BY DEF FindReference
<1>2. TypedJob("reference", j) /\ j \in Jobs /\ StoredRuns
  BY <1>1, AtStep
<1> HIDE DEF j
<1>3. doc \in Run \cup {None}
  BY <1>2, LoadedIs, JobFields
<1> HIDE DEF doc
<1>4. new = [j EXCEPT !.ref = doc]
  OBVIOUS
<1> HIDE DEF new
<1>5. new \in Jobs /\ Becomes(new, j, j.digest, j.wt, j.bins, j.early, doc, j.head, j.served, j.puts)
  BY <1>2, <1>3, <1>4, SetRef
<1>6. TypedJob(step, new)
  BY <1>2, <1>5 DEF TypedJob, Becomes
<1> QED BY <1>1, <1>6, TypedInner

LEMMA TypedWorktree ==
  ASSUME TypeInv, NEW p \in Procs, NEW named \in BOOLEAN, Worktree(p, named)
  PROVE  TypeInv'
<1> DEFINE j == job[p]  head == Bin[tree]  base == Bin[commits[MergeBase]]
           doc == IF named /\ j.reuse THEN Reference(base, j.scope) ELSE None
           step == IF named /\ head = base THEN "identical" ELSE IF doc # None THEN "head" ELSE "rounds"
           bins == IF named THEN [head |-> head, base |-> base] ELSE None
           found == IF doc = None \/ head = base THEN None ELSE Narrowed(doc, j.scope)
           new == [j EXCEPT !.wt = MergeBase, !.bins = bins, !.ref = found]
<1>1. pc[p] = "worktree" /\ Goto(p, step, new) /\ UNCHANGED <<repo, runs, started>>
  BY DEF Worktree
<1>2. TypedJob("worktree", j) /\ j \in Jobs /\ StoredRuns /\ head \in Binaries /\ base \in Binaries
      /\ MergeBase \in 1..Len(commits) /\ Len(commits) \in 1..MaxCommits
  BY <1>1, AtStep
<1> HIDE DEF j, head, base
<1>3. doc \in Run \cup {None} /\ j.scope \in Scopes
  BY <1>2, LoadedIs, JobFields
<1> HIDE DEF doc
<1>4. found \in Run \cup {None}
  BY <1>3, NarrowedIs
<1>5. bins \in Pair \cup {None} /\ (step = "identical" => bins \in Pair)
  BY <1>2 DEF Pair
<1> HIDE DEF found, bins
<1>6. MergeBase \in 1..MaxCommits \cup {None} /\ MergeBase # None
  BY <1>2, NameAssumption, BoundAssumption
<1>7. new = [j EXCEPT !.wt = MergeBase, !.bins = bins, !.ref = found]
  OBVIOUS
<1> HIDE DEF new
<1>8. new \in Jobs /\ Becomes(new, j, j.digest, MergeBase, bins, j.early, found, j.head, j.served, j.puts)
  BY <1>2, <1>4, <1>5, <1>6, <1>7, SetWorktree
<1>9. TypedJob(step, new)
  BY <1>2, <1>5, <1>6, <1>8 DEF TypedJob, Becomes
<1> QED BY <1>1, <1>9, TypedInner

LEMMA TypedHeadRun ==
  ASSUME TypeInv, NEW p \in Procs, HeadRun(p)
  PROVE  TypeInv'
<1> DEFINE j == job[p]  id == IF Clean THEN at ELSE j.digest
           doc == IF id = None THEN None ELSE Load(Key(id, j.scope))
           digests == Digests(j.digest)
<1>1. pc[p] = "head" /\ UNCHANGED <<repo, runs, started>>
  BY DEF HeadRun
<1>2. TypedJob("head", j) /\ j \in Jobs /\ StoredRuns /\ Bin[tree] \in Binaries
  BY <1>1, AtStep
<1>3. /\ j.scope \in Scopes /\ j.digest \in Binaries \cup {None}
      /\ digests \in Seq(Binaries)
  BY <1>2, JobFields, DigestsIs
<1>4. CASE Usable(doc) /\ Goto(p, "put", [j EXCEPT !.head = doc, !.served = TRUE,
                                          !.puts = HeadPuts(doc, digests)])
  <2> DEFINE puts == HeadPuts(doc, digests)
  <2>1. doc \in Run \cup {None}  BY <1>2, <1>3, LoadedIs
  <2> HIDE DEF digests, doc, j
  <2>2. puts \in Seq(PutOf)  BY <1>3, <2>1, HeadPutsIs
  <2> DEFINE new == [j EXCEPT !.head = doc, !.served = TRUE, !.puts = puts]
  <2>3. Goto(p, "put", new)  BY <1>4
  <2> HIDE DEF puts
  <2>4. new \in Jobs /\ Becomes(new, j, j.digest, j.wt, j.bins, j.early, j.ref, doc, TRUE, puts)
    BY <1>2, <2>1, <2>2, SetServed
  <2> HIDE DEF new
  <2>5. TypedJob("put", new)  BY <1>2, <2>4 DEF TypedJob, Becomes
  <2> QED BY <1>1, <2>3, <2>5, TypedInner
<1>5. ASSUME NEW run \in Pass(Bin[tree], j.scope, TRUE), NEW kept \in Settled(run),
             Goto(p, "put", [j EXCEPT !.head = run, !.puts = HeadPuts(kept, digests)])
      PROVE  TypeInv'
  <2> DEFINE puts == HeadPuts(kept, digests)
  <2>0. run \in Run  BY <1>2, <1>3, <1>5, PassIs DEF IsPass
  <2>1. run \in Run /\ kept \in Run \cup {None}  BY <2>0, <1>5, SettledIs
  <2> HIDE DEF digests, j
  <2>2. puts \in Seq(PutOf)  BY <1>3, <2>1, HeadPutsIs
  <2> DEFINE new == [j EXCEPT !.head = run, !.puts = puts]
  <2>3. Goto(p, "put", new)  BY <1>5
  <2> HIDE DEF puts
  <2>4. new \in Jobs /\ Becomes(new, j, j.digest, j.wt, j.bins, j.early, j.ref, run, j.served, puts)
    BY <1>2, <2>1, <2>2, SetPuts
  <2> HIDE DEF new
  <2>5. TypedJob("put", new)  BY <1>2, <2>4 DEF TypedJob, Becomes
  <2> QED BY <1>1, <2>3, <2>5, TypedInner
<1> QED BY <1>4, <1>5 DEF HeadRun

LEMMA TypedIdentical ==
  ASSUME TypeInv, NEW p \in Procs, NEW planned \in BOOLEAN, NEW counting \in BOOLEAN,
         Identical(p, planned, counting)
  PROVE  TypeInv'
<1> DEFINE j == job[p]  b == j.bins.head
           early == IF j.record /\ j.reuse THEN Covering(b, j.scope, Expected(b, j.scope)) ELSE None
           counted == planned \/ counting \/ (j.record /\ early = None)
<1>1. pc[p] = "identical" /\ UNCHANGED <<repo, runs, started>>
  BY DEF Identical
<1>2. TypedJob("identical", j) /\ j \in Jobs /\ StoredRuns /\ Bin[tree] \in Binaries
  BY <1>1, AtStep
<1>3. j.scope \in Scopes /\ j.record \in BOOLEAN
  BY <1>2, JobFields
<1>4. early \in Run \cup {None}
  BY <1>2, <1>3, LoadedIs
<1>5. PICK run \in Pass(Bin[tree], j.scope, counted) :
        Goto(p, "judge", [j EXCEPT !.head = run, !.early = early])
  BY DEF Identical
<1> DEFINE new == [j EXCEPT !.head = run, !.early = early]
<1>6. counted \in BOOLEAN
  BY <1>3
<1> HIDE DEF counted, early, j
<1>7. run \in Run
  BY <1>2, <1>3, <1>5, <1>6, PassIs DEF IsPass
<1>8. new \in Jobs /\ Becomes(new, j, j.digest, j.wt, j.bins, early, j.ref, run, j.served, j.puts)
  BY <1>2, <1>4, <1>7, SetEarly
<1>9. Goto(p, "judge", new)
  BY <1>5
<1> HIDE DEF new
<1>10. TypedJob("judge", new)
  BY <1>2, <1>7, <1>8 DEF TypedJob, Becomes
<1> QED BY <1>1, <1>9, <1>10, TypedInner

(* The end of a pass: what is kept of it, and both sides are one run.         *)
LEMMA TypedSides ==
  ASSUME TypeInv, NEW p \in Procs, pc[p] = "judge", UNCHANGED <<repo, runs, started>>,
         NEW run \in Run, NEW kept \in Run \cup {None},
         Goto(p, "put", [job[p] EXCEPT !.head = run, !.ref = run,
                         !.puts = HeadPuts(kept, Digests(job[p].digest))])
  PROVE  TypeInv'
<1> DEFINE j == job[p]  puts == HeadPuts(kept, Digests(j.digest))
           new == [j EXCEPT !.head = run, !.ref = run, !.puts = puts]
<1>1. TypedJob("judge", j) /\ j \in Jobs
  BY AtStep
<1>2. Digests(j.digest) \in Seq(Binaries)
  BY <1>1, JobFields, DigestsIs
<1>3. puts \in Seq(PutOf)
  BY <1>2, HeadPutsIs
<1>4. Goto(p, "put", new)
  OBVIOUS
<1> HIDE DEF j, puts
<1>5. new \in Jobs /\ Becomes(new, j, j.digest, j.wt, j.bins, j.early, run, run, j.served, puts)
  BY <1>1, <1>3, SetSides
<1> HIDE DEF new
<1>6. TypedJob("put", new)
  BY <1>1, <1>5 DEF TypedJob, Becomes
<1> QED BY <1>4, <1>6, TypedInner

LEMMA KeptIs ==
  ASSUME NEW pass \in Run, NEW covering \in Run \cup {None}, NEW s \in Scopes
  PROVE  /\ KeptOfIdentical(pass, covering, s) \in Run \cup {None}
         /\ KeptOfIdentical(pass, covering, s) # None =>
              covering \in Run /\ KeptOfIdentical(pass, covering, s) = Narrowed(covering, s)
BY NarrowedIs DEF KeptOfIdentical

LEMMA TypedJudge ==
  ASSUME TypeInv, NEW p \in Procs, Judge(p)
  PROVE  TypeInv'
<1> DEFINE j == job[p]  pass == j.head  b == j.bins.head  s == j.scope
           covering == IF pass.counted THEN None
                       ELSE IF j.early # None THEN j.early
                       ELSE IF j.reuse THEN Covering(b, s, Expected(b, s)) ELSE None
           merged == IF covering = None THEN None ELSE MergeStored(covering, pass, Expected(b, s))
           digests == Digests(j.digest)
           head == IF merged = None THEN pass ELSE merged
           kept == KeptOfIdentical(pass, covering, s)
<1>1. pc[p] = "judge" /\ UNCHANGED <<repo, runs, started>>
  BY DEF Judge
<1>2. TypedJob("judge", j) /\ j \in Jobs /\ StoredRuns /\ Bin[tree] \in Binaries
  BY <1>1, AtStep
<1>3. s \in Scopes /\ j.early \in Run \cup {None} /\ pass \in Run
  BY <1>2, JobFields DEF TypedJob
<1>4. Covering(b, s, Expected(b, s)) \in Run \cup {None}
  BY <1>2, <1>3, LoadedIs
<1>5. covering \in Run \cup {None}
  BY <1>3, <1>4
<1>6. /\ \/ pass.counted /\ \E new \in Settled(pass) :
                Goto(p, "put", [j EXCEPT !.head = pass, !.ref = pass, !.puts = HeadPuts(new, digests)])
         \/ \E run \in Pass(Bin[tree], s, TRUE) : \E new \in Settled(run) :
                Goto(p, "put", [j EXCEPT !.head = run, !.ref = run, !.puts = HeadPuts(new, digests)])
         \/ Goto(p, "put", [j EXCEPT !.head = head, !.ref = head, !.puts = HeadPuts(kept, digests)])
  BY DEF Judge
<1>7. CASE \E new \in Settled(pass) :
                Goto(p, "put", [j EXCEPT !.head = pass, !.ref = pass, !.puts = HeadPuts(new, digests)])
  <2>1. PICK new \in Settled(pass) :
          Goto(p, "put", [j EXCEPT !.head = pass, !.ref = pass, !.puts = HeadPuts(new, digests)])
    BY <1>7
  <2>2. new \in Run \cup {None}  BY <1>3, SettledIs
  <2> QED BY <1>1, <1>3, <2>1, <2>2, TypedSides
<1>8. CASE \E run \in Pass(Bin[tree], s, TRUE) : \E new \in Settled(run) :
                Goto(p, "put", [j EXCEPT !.head = run, !.ref = run, !.puts = HeadPuts(new, digests)])
  <2>1. PICK run \in Pass(Bin[tree], s, TRUE) : \E new \in Settled(run) :
          Goto(p, "put", [j EXCEPT !.head = run, !.ref = run, !.puts = HeadPuts(new, digests)])
    BY <1>8
  <2>2. PICK new \in Settled(run) :
          Goto(p, "put", [j EXCEPT !.head = run, !.ref = run, !.puts = HeadPuts(new, digests)])
    BY <2>1
  <2>3. run \in Run  BY <1>2, <1>3, PassIs DEF IsPass
  <2>4. new \in Run \cup {None}  BY <2>3, SettledIs
  <2> QED BY <1>1, <2>2, <2>3, <2>4, TypedSides
<1>9. CASE Goto(p, "put", [j EXCEPT !.head = head, !.ref = head, !.puts = HeadPuts(kept, digests)])
  <2>1. merged \in Run \cup {None}
    <3> HIDE DEF covering, pass
    <3>1. CASE merged = None  BY <3>1
    <3>2. CASE merged # None
      <4>1. covering \in Run /\ MergeStored(covering, pass, Expected(b, s)) # None  BY <1>5, <3>2
      <4> QED BY <1>3, <3>2, <4>1, MergedIs
    <3> QED BY <3>1, <3>2
  <2>2. head \in Run  BY <1>3, <2>1
  <2> HIDE DEF covering, pass
  <2>3. kept \in Run \cup {None}  BY <1>3, <1>5, KeptIs
  <2> HIDE DEF kept, head
  <2> QED BY <1>1, <1>9, <2>2, <2>3, TypedSides
<1> QED BY <1>6, <1>7, <1>8, <1>9

LEMMA ConcatPuts ==
  ASSUME NEW a \in Seq(PutOf), NEW b \in Seq(PutOf)
  PROVE  /\ a \o b \in Seq(PutOf) /\ Len(a \o b) = Len(a) + Len(b)
         /\ \A n \in 1..Len(a \o b) :
              \/ n \in 1..Len(a) /\ (a \o b)[n] = a[n]
              \/ n - Len(a) \in 1..Len(b) /\ (a \o b)[n] = b[n - Len(a)]
OBVIOUS

LEMMA TypedRounds ==
  ASSUME TypeInv, NEW p \in Procs, Rounds(p)
  PROVE  TypeInv'
<1> DEFINE j == job[p]  bins == j.bins  named == bins # None
           baseDigests == IF named THEN <<bins.base>> ELSE <<>>
           headDigests == Digests(j.digest) \o IF named THEN <<bins.head>> ELSE <<>>
<1>1. pc[p] = "rounds" /\ UNCHANGED <<repo, runs, started>>
  BY DEF Rounds
<1>2. TypedJob("rounds", j) /\ j \in Jobs /\ Bin[tree] \in Binaries
      /\ \A c \in 1..Len(commits) : Bin[commits[c]] \in Binaries
  BY <1>1, AtStep
<1>3. /\ j.scope \in Scopes /\ j.bins \in Pair \cup {None} /\ j.digest \in Binaries \cup {None}
      /\ j.base \in 1..MaxCommits
  BY <1>2, JobFields
<1>4. Bin[commits[j.wt]] \in Binaries
  BY <1>2 DEF TypedJob
<1>5. PICK head \in Pass(Bin[tree], j.scope, TRUE), base \in Pass(Bin[commits[j.wt]], j.scope, TRUE) :
        \E keptHead \in Settled(head), keptBase \in Settled(base) :
          Goto(p, "put", [j EXCEPT !.head = head, !.ref = base,
            !.puts = BasePuts(keptBase, j.base, baseDigests) \o HeadPuts(keptHead, headDigests)])
  BY DEF Rounds
<1>6. PICK keptHead \in Settled(head), keptBase \in Settled(base) :
        Goto(p, "put", [j EXCEPT !.head = head, !.ref = base,
          !.puts = BasePuts(keptBase, j.base, baseDigests) \o HeadPuts(keptHead, headDigests)])
  BY <1>5
<1>7. baseDigests \in Seq(Binaries) /\ headDigests \in Seq(Binaries)
  <2>1. named => bins.base \in Binaries /\ bins.head \in Binaries  BY <1>3 DEF Pair
  <2>2. Digests(j.digest) \in Seq(Binaries)  BY <1>3, DigestsIs
  <2> QED BY <2>1, <2>2
<1>8. head \in Run /\ base \in Run
  BY <1>2, <1>3, <1>4, PassIs DEF IsPass
<1>9. keptHead \in Run \cup {None} /\ keptBase \in Run \cup {None}
  BY <1>8, SettledIs
<1> DEFINE first == BasePuts(keptBase, j.base, baseDigests)
           second == HeadPuts(keptHead, headDigests)
           puts == first \o second
           new == [j EXCEPT !.head = head, !.ref = base, !.puts = puts]
<1>10. Goto(p, "put", new)
  BY <1>6
<1> HIDE DEF j, baseDigests, headDigests
<1>11. puts \in Seq(PutOf)
  <2>1. first \in Seq(PutOf)  BY <1>3, <1>7, <1>9, BasePutsIs
  <2>2. second \in Seq(PutOf)  BY <1>7, <1>9, HeadPutsIs
  <2> HIDE DEF first, second
  <2> QED BY <2>1, <2>2, ConcatPuts
<1> HIDE DEF puts
<1>12. new \in Jobs /\ Becomes(new, j, j.digest, j.wt, j.bins, j.early, base, head, j.served, puts)
  BY <1>2, <1>8, <1>11, SetSides
<1> HIDE DEF new
<1>13. TypedJob("put", new)
  BY <1>2, <1>12 DEF TypedJob, Becomes
<1> QED BY <1>1, <1>10, <1>13, TypedInner

LEMMA TypedMeasure ==
  ASSUME TypeInv, NEW p \in Procs, Measure(p)
  PROVE  TypeInv'
<1> DEFINE j == job[p]  b == j.digest  s == j.scope
           doc == IF j.reuse /\ Gating = "callgrind" /\ b # None
                  THEN Covering(b, s, Expected(b, s)) ELSE None
<1>1. pc[p] = "covering" /\ UNCHANGED <<repo, runs, started>>
  BY DEF Measure
<1>2. TypedJob("covering", j) /\ j \in Jobs /\ StoredRuns /\ Bin[tree] \in Binaries
  BY <1>1, AtStep
<1>3. s \in Scopes
  BY <1>2, JobFields
<1>4. doc \in Run \cup {None}
  BY <1>2, <1>3, LoadedIs
<1>5. CASE Goto(p, "full", j)
  <2>1. TypedJob("full", j)  BY <1>2 DEF TypedJob
  <2> QED BY <1>1, <1>5, <2>1, TypedInner
<1>6. ASSUME NEW timing \in Pass(Bin[tree], s, FALSE), doc # None,
             LET merged == MergeStored(doc, timing, Expected(b, s)) IN
             Goto(p, IF merged = None THEN "full" ELSE "put", [j EXCEPT !.head = merged])
      PROVE  TypeInv'
  <2> DEFINE merged == MergeStored(doc, timing, Expected(b, s))
             step == IF merged = None THEN "full" ELSE "put"
             new == [j EXCEPT !.head = merged]
  <2>1. Goto(p, step, new)  BY <1>6
  <2>2. timing \in Run  BY <1>2, <1>3, <1>6, PassIs DEF IsPass
  <2>3. doc \in Run  BY <1>4, <1>6
  <2> HIDE DEF doc, j
  <2>4. merged \in Run \cup {None}  BY <2>2, <2>3, MergedIs
  <2> HIDE DEF merged
  <2>5. new \in Jobs /\ Becomes(new, j, j.digest, j.wt, j.bins, j.early, j.ref, merged, j.served, j.puts)
    BY <1>2, <2>4, SetHead
  <2> HIDE DEF new
  <2>6. TypedJob(step, new)  BY <1>2, <2>5 DEF TypedJob, Becomes
  <2> QED BY <1>1, <2>1, <2>6, TypedInner
<1> QED BY <1>5, <1>6 DEF Measure

LEMMA TypedMeasureFull ==
  ASSUME TypeInv, NEW p \in Procs, MeasureFull(p)
  PROVE  TypeInv'
<1> DEFINE j == job[p]
<1>1. pc[p] = "full" /\ UNCHANGED <<repo, runs, started>>
  BY DEF MeasureFull
<1>2. TypedJob("full", j) /\ j \in Jobs /\ Bin[tree] \in Binaries
  BY <1>1, AtStep
<1>3. j.scope \in Scopes /\ Digests(j.digest) \in Seq(Binaries)
  BY <1>2, JobFields, DigestsIs
<1>4. PICK run \in Pass(Bin[tree], j.scope, TRUE) : \E kept \in Settled(run) :
        Goto(p, "put", [j EXCEPT !.head = run, !.puts = HeadPuts(kept, Digests(j.digest))])
  BY DEF MeasureFull
<1>5. PICK kept \in Settled(run) :
        Goto(p, "put", [j EXCEPT !.head = run, !.puts = HeadPuts(kept, Digests(j.digest))])
  BY <1>4
<1>6. run \in Run
  BY <1>2, <1>3, PassIs DEF IsPass
<1>7. kept \in Run \cup {None}
  BY <1>6, SettledIs
<1> DEFINE puts == HeadPuts(kept, Digests(j.digest))
           new == [j EXCEPT !.head = run, !.puts = puts]
<1>8. puts \in Seq(PutOf)
  BY <1>3, <1>7, HeadPutsIs
<1>9. Goto(p, "put", new)
  BY <1>5
<1> HIDE DEF j, puts
<1>10. new \in Jobs /\ Becomes(new, j, j.digest, j.wt, j.bins, j.early, j.ref, run, j.served, puts)
  BY <1>2, <1>6, <1>8, SetPuts
<1> HIDE DEF new
<1>11. TypedJob("put", new)
  BY <1>2, <1>10 DEF TypedJob, Becomes
<1> QED BY <1>1, <1>9, <1>11, TypedInner

(* The name a run is put under.                                               *)
LEMMA NamedIs ==
  ASSUME NEW put \in PutOf, at \in 1..Len(commits), Len(commits) \in 1..MaxCommits
  PROVE  /\ NamedNow(put) \in Binaries \cup 1..MaxCommits \cup {None}
         /\ NamedNow(put) # None =>
              \/ put.id # HEAD /\ NamedNow(put) = put.id
              \/ put.id = HEAD /\ Clean /\ NamedNow(put) = at
BY NameAssumption, BoundAssumption DEF NamedNow, PutOf

LEMMA TypedPut ==
  ASSUME TypeInv, NEW p \in Procs, NEW oldest, Put(p, oldest)
  PROVE  TypeInv'
<1> DEFINE j == job[p]  put == Head(j.puts)  id == NamedNow(put)  key == Key(id, j.scope)
           stored == DOMAIN runs \cup {key}  puts == Tail(j.puts)
           new == [j EXCEPT !.puts = puts]
<1>1. pc[p] = "put" /\ j.puts # <<>> /\ UNCHANGED <<repo, started>> /\ Goto(p, "put", new)
  BY DEF Put
<1>2. TypedJob("put", j) /\ j \in Jobs /\ StoredRuns /\ started \in 0..MaxRuns
      /\ at \in 1..Len(commits) /\ Len(commits) \in 1..MaxCommits
  BY <1>1, AtStep
<1>3. j.puts \in Seq(PutOf) /\ j.scope \in Scopes
  BY <1>2, JobFields
<1>4. put \in PutOf /\ puts \in Seq(PutOf)
  BY <1>1, <1>3
<1>5. StoredRuns'
  <2>1. CASE id = None  BY <1>2, <2>1 DEF Put, StoredRuns, Keys
  <2>2. CASE id # None
    <3>1. runs' = [k \in stored \ oldest |-> IF k = key THEN put.doc ELSE runs[k]]
      BY <2>2 DEF Put
    <3>2. id \in Binaries \cup 1..MaxCommits  BY <1>2, <1>4, <2>2, NamedIs
    <3> HIDE DEF put, id
    <3>3. key \in Keys  BY <1>3, <3>2 DEF Key, Keys, Scopes
    <3>4. put.doc \in Run  BY <1>4 DEF PutOf
    <3> HIDE DEF key
    <3> QED BY <1>2, <3>1, <3>3, <3>4 DEF StoredRuns, Keys
  <2> QED BY <2>1, <2>2
<1> HIDE DEF j, puts
<1>6. new \in Jobs /\ Becomes(new, j, j.digest, j.wt, j.bins, j.early, j.ref, j.head, j.served, puts)
  BY <1>2, <1>4, DropPut
<1> HIDE DEF new
<1>7. TypedJob("put", new)
  BY <1>2, <1>6 DEF TypedJob, Becomes
<1> QED BY <1>1, <1>2, <1>5, <1>7, TypedStep

(* An invocation that ends leaves nothing of itself.                          *)
LEMMA TypedIdle ==
  ASSUME TypeInv, NEW p \in Procs, Goto(p, "idle", Idle), UNCHANGED repo, UNCHANGED started, StoredRuns'
  PROVE  TypeInv'
<1>1. commits' = commits /\ at' = at /\ ref' = ref /\ tree' = tree
  BY DEF repo
<1>2. pc' = [pc EXCEPT ![p] = "idle"] /\ job' = [job EXCEPT ![p] = Idle]
  BY DEF Goto
<1>3. \A q \in Procs : pc'[q] = (IF q = p THEN "idle" ELSE pc[q]) /\ job'[q] = (IF q = p THEN Idle ELSE job[q])
  BY <1>2 DEF TypeInv, TypeOK
<1>4. TypeOK'
  <2>1. \A q \in Procs : IF pc'[q] = "idle" THEN job'[q] = Idle ELSE job'[q] \in Jobs
    BY <1>3 DEF TypeInv, TypeOK
  <2> QED BY <1>1, <1>2, <2>1 DEF TypeInv, TypeOK, StoredRuns
<1>5. \A q \in Procs : pc'[q] # "idle" => TypedJob(pc'[q], job'[q])
  BY <1>3 DEF TypeInv
<1>6. \A q \in Procs : pc'[q] # "idle" => TypedJob(pc[q], job[q])'
  BY <1>1, <1>5 DEF TypedJob
<1> QED BY <1>4, <1>6 DEF TypeInv

LEMMA TypedTear ==
  ASSUME TypeInv, NEW p \in Procs, Tear(p)
  PROVE  TypeInv'
<1>1. StoredRuns
  BY DEF TypeInv, TypeOK, StoredRuns
<1>2. StoredRuns'
  BY <1>1 DEF Tear, StoredRuns, Keys
<1> QED BY <1>2, TypedIdle DEF Tear

LEMMA TypedExit ==
  ASSUME TypeInv, NEW p \in Procs, Exit(p)
  PROVE  TypeInv'
<1>1. StoredRuns'
  BY DEF TypeInv, TypeOK, StoredRuns, Exit, Keys
<1> QED BY <1>1, TypedIdle DEF Exit

(* The repository only grows commits.                                         *)
LEMMA TypedRepo ==
  ASSUME TypeInv, UNCHANGED <<runs, pc, job, started>>, commits' \in Seq(Trees),
         Len(commits') \in 1..MaxCommits, Len(commits) <= Len(commits'),
         at' \in 1..Len(commits'), ref' \in 1..Len(commits'), tree' \in Trees
  PROVE  TypeInv'
<1>1. TypeOK'
  BY DEF TypeInv, TypeOK, Keys, Jobs
<1>2. Len(commits) \in Nat /\ Len(commits') \in Nat
  BY BoundAssumption DEF TypeInv, TypeOK
<1>3. 1..Len(commits) \subseteq 1..Len(commits')
  BY <1>2
<1>4. \A p \in Procs : pc'[p] # "idle" =>
        /\ job'[p] \in Jobs /\ job'[p].base \in 1..Len(commits')
        /\ job'[p].wt \in 1..Len(commits') \cup {None}
  BY <1>3 DEF TypeInv, TypedJob
<1>5. \A p \in Procs : pc[p] # "idle" => TypedJob(pc[p], job[p])'
  BY <1>4 DEF TypeInv, TypedJob
<1> QED BY <1>1, <1>5 DEF TypeInv

LEMMA TypedNext ==
  ASSUME TypeInv, [Next]_vars
  PROVE  TypeInv'
<1>1. commits \in Seq(Trees) /\ Len(commits) \in 1..MaxCommits /\ at \in 1..Len(commits)
      /\ ref \in 1..Len(commits) /\ tree \in Trees
  BY DEF TypeInv, TypeOK
<1>2. CASE Commit
  <2>1. /\ commits' \in Seq(Trees) /\ Len(commits') = Len(commits) + 1
        /\ at' = at + 1 /\ at = Len(commits) /\ at < MaxCommits
    BY <1>1, <1>2 DEF Commit
  <2> QED BY <1>1, <1>2, <2>1, TypedRepo, BoundAssumption DEF Commit
<1>3. ASSUME NEW t \in Trees, Edit(t)  PROVE TypeInv'
  BY <1>1, <1>3, TypedRepo DEF Edit
<1>4. ASSUME NEW c \in 1..Len(commits), Checkout(c)  PROVE TypeInv'
  BY <1>1, <1>4, TypedRepo DEF Checkout
<1>5. ASSUME NEW c \in 1..Len(commits), Fetch(c)  PROVE TypeInv'
  BY <1>1, <1>5, TypedRepo DEF Fetch
<1>6. CASE UNCHANGED vars
  BY <1>1, <1>6, TypedRepo DEF vars, repo
<1> QED BY <1>2, <1>3, <1>4, <1>5, <1>6, TypedStart, TypedProbe, TypedFindReference, TypedWorktree,
           TypedHeadRun, TypedIdentical, TypedJudge, TypedRounds, TypedMeasure, TypedMeasureFull,
           TypedPut, TypedTear, TypedExit DEF Next

LEMMA TypedInit == Init => TypeInv
<1> SUFFICES ASSUME Init PROVE TypeInv
  OBVIOUS
<1>1. commits \in Seq(Trees) /\ Len(commits) = 1
  <2>1. PICK t \in Trees : commits = <<t>>  BY DEF Init
  <2> QED BY <2>1
<1>2. commits[1] \in Trees /\ 1 \in 1..MaxCommits /\ 0 \in 0..MaxRuns
  BY BoundAssumption DEF Init
<1>3. TypeOK
  BY <1>1, <1>2 DEF Init, TypeOK, Keys
<1> QED BY <1>3 DEF Init, TypeInv

(* The run cache, the repository and what an invocation holds at each step    *)
(* keep their types, whether or not the checkout moves under it.              *)
THEOREM TypeCorrect == Spec => []TypeOK
<1>1. Init => TypeInv
  BY TypedInit
<1>2. TypeInv /\ [Next]_vars => TypeInv'
  BY TypedNext
<1>3. TypeInv => TypeOK
  BY DEF TypeInv
<1> QED BY <1>1, <1>2, <1>3, PTL DEF Spec

-----------------------------------------------------------------------------
(* What is kept of runs.                                                      *)
LEMMA CountedWider ==
  ASSUME NEW run, NEW k, NEW id, NEW s, Counted(run, k), Wider(k, id, s)
  PROVE  Counted(run, s)
BY DEF Counted, Wider, InScope

LEMMA PassCounted ==
  ASSUME NEW b \in Binaries, NEW s \in Scopes, NEW run \in Pass(b, s, TRUE)
  PROVE  run \in Run /\ run.bin = b /\ Counted(run, s)
<1>1. IsPass(run, b, s, TRUE)
  BY PassIs
<1> QED BY <1>1 DEF IsPass, Counted

LEMMA StampedWorth ==
  ASSUME NEW run \in Run, NEW s, Counted(run, s)
  PROVE  Stamped(run).bin = run.bin /\ Worth(Stamped(run), s)
<1> DEFINE new == Stamped(run)
<1>1. /\ new.bin = run.bin /\ new.ids = run.ids /\ new.counted = run.counted
      /\ new.claims = run.claims /\ new.fails = run.fails /\ new.late = run.late
      /\ new.stamped = ~Failed(run)
  BY StampedIs
<1> HIDE DEF new
<1>2. Failed(new) = Failed(run)
  BY <1>1 DEF Failed
<1>3. Worth(new, s)
  BY <1>1, <1>2 DEF Worth, Counted
<1> QED BY <1>1, <1>3 DEF new

LEMMA NarrowedCounted ==
  ASSUME NEW doc \in Run, NEW s \in Scopes, Counted(doc, s)
  PROVE  Narrowed(doc, s) \in Run /\ Narrowed(doc, s).bin = doc.bin /\ Counted(Narrowed(doc, s), s)
<1> DEFINE new == Narrowed(doc, s)
<1>1. /\ new \in Run /\ new.bin = doc.bin /\ new.counted = doc.counted
      /\ new.ids = doc.ids \cap s.shard /\ new.claims = doc.claims \cap s.shard
      /\ new.fails = doc.fails \cap s.shard
  BY NarrowedIs
<1> HIDE DEF new
<1>2. Counted(new, s)
  BY <1>1 DEF Counted, InScope
<1> QED BY <1>1, <1>2 DEF new

(* A run found under a name is a run of that name's code, with the counters.  *)
LEMMA FoundCounted ==
  ASSUME StoredInv, NEW id, NEW s, NEW k \in DOMAIN runs, Wider(k, id, s)
  PROVE  runs[k].bin = Built(id) /\ Counted(runs[k], s)
<1>1. runs[k].bin = Built(k.id) /\ Counted(runs[k], k)
  BY DEF StoredInv, Worth
<1> QED BY <1>1, CountedWider DEF Wider

LEMMA BuiltIs ==
  /\ \A b \in Binaries : Built(b) = b
  /\ \A c \in Nat : Built(c) = Bin[commits[c]]
BY NameAssumption DEF Built

LEMMA CoveringCounted ==
  ASSUME StoredInv, StoredRuns, NEW b \in Binaries, NEW s \in Scopes, NEW ids, Covering(b, s, ids) # None
  PROVE  LET doc == Covering(b, s, ids) IN
         doc \in Run /\ doc.bin = b /\ Counted(doc, s) /\ CountsCover(doc, ids)
<1>1. PICK k \in DOMAIN runs : Wider(k, b, s) /\ Covering(b, s, ids) = runs[k]
  BY CoveringIs
<1>2. runs[k].bin = b /\ Counted(runs[k], s) /\ runs[k] \in Run
  BY <1>1, FoundCounted, BuiltIs DEF StoredRuns
<1>3. CountsCover(Covering(b, s, ids), ids)
  BY CoveringIs
<1> QED BY <1>1, <1>2, <1>3

(* Stored counters of the same binary give a timing pass its verdicts.        *)
LEMMA MergedVerdicts ==
  ASSUME NEW b \in Binaries, NEW s \in Scopes, NEW doc \in Run, doc.bin = b, Counted(doc, s),
         NEW counted \in BOOLEAN, NEW timing \in Pass(b, s, counted), NEW ids,
         MergeStored(doc, timing, ids) # None
  PROVE  MergeStored(doc, timing, ids).bin = b /\ Judged(MergeStored(doc, timing, ids), s)
<1> DEFINE run == MergeStored(doc, timing, ids)
<1>0. IsPass(timing, b, s, counted)
  BY PassIs
<1>1. timing \in Run /\ timing.bin = b /\ timing.claims = InScope(s) \cap Claims[b]
  BY <1>0 DEF IsPass
<1>2. /\ run.bin = b /\ run.claims = timing.claims /\ run.fails = CountedFails(timing, doc)
      /\ timing.claims \subseteq doc.claims
  BY <1>1, MergedIs
<1> HIDE DEF run
<1>3. CountedFails(timing, doc) = timing.claims \cap Breaks[b]
  BY <1>2 DEF CountedFails, Counted
<1>4. run.claims = InScope(s) \cap Claims[b] /\ run.fails = run.claims \cap Breaks[b]
  BY <1>1, <1>2, <1>3
<1>5. InScope(s) \cap Claims[b] \subseteq run.claims /\ run.fails \cap (InScope(s) \cap Claims[b]) = Breaks[b] \cap (InScope(s) \cap Claims[b])
  BY <1>4
<1>6. Judged(run, s)
  BY <1>2, <1>5 DEF Judged
<1> QED BY <1>2, <1>6 DEF run

LEMMA MergedSome ==
  ASSUME NEW doc \in Run, NEW timing \in Run, NEW ids, timing.ids = ids, CountsCover(doc, ids),
         timing.claims \subseteq doc.claims
  PROVE  MergeStored(doc, timing, ids) # None
<1> DEFINE fails == CountedFails(timing, doc)
<1>1. ids # {} /\ ~UncountedComplexity(timing, doc)
  BY NoneAssumption DEF CountsCover, UncountedComplexity
<1>2. MergeStored(doc, timing, ids) = [timing EXCEPT !.counted = TRUE, !.fails = fails]
  BY <1>1 DEF MergeStored
<1>3. fails \in SUBSET Items
  BY CountedFailsIs
<1> HIDE DEF fails
<1>4. [timing EXCEPT !.counted = TRUE, !.fails = fails] \in Run
  BY <1>3 DEF Run
<1> QED BY <1>2, <1>4, NoneAssumption

(* HEAD's run is put under HEAD, its digest, and nothing else.                *)
LEMMA HeadPutsInv ==
  ASSUME NEW run \in Run \cup {None}, NEW digests \in Seq(Binaries), NEW s,
         run # None => run.bin = Bin[tree] /\ Counted(run, s),
         \A i \in 1..Len(digests) : digests[i] = Bin[tree]
  PROVE  \A n \in 1..Len(HeadPuts(run, digests)) : PutInv(HeadPuts(run, digests)[n], s)
<1> DEFINE puts == HeadPuts(run, digests)
<1> SUFFICES ASSUME NEW n \in 1..Len(puts)  PROVE PutInv(puts[n], s)
  OBVIOUS
<1>1. /\ run \in Run /\ puts[n].doc = Stamped(run)
      /\ puts[n].id = HEAD \/ \E i \in 1..Len(digests) : puts[n].id = digests[i]
  BY HeadPutsIs
<1>2. run # None
  BY <1>1, NoneAssumption
<1>3. puts[n].doc.bin = Bin[tree] /\ Worth(puts[n].doc, s)
  BY <1>1, <1>2, StampedWorth
<1>4. puts[n].id # HEAD => puts[n].id \in Binaries /\ puts[n].id = Bin[tree]
  BY <1>1
<1> HIDE DEF puts
<1> QED BY <1>3, <1>4, BuiltIs DEF PutInv

LEMMA BasePutsInv ==
  ASSUME NEW run \in Run \cup {None}, NEW id \in 1..MaxCommits, id \in 1..Len(commits),
         NEW digests \in Seq(Binaries), NEW s,
         run # None => run.bin = Bin[commits[id]] /\ Counted(run, s),
         \A i \in 1..Len(digests) : digests[i] = Bin[commits[id]]
  PROVE  \A n \in 1..Len(BasePuts(run, id, digests)) : PutInv(BasePuts(run, id, digests)[n], s)
<1> DEFINE puts == BasePuts(run, id, digests)
<1> SUFFICES ASSUME NEW n \in 1..Len(puts)  PROVE PutInv(puts[n], s)
  OBVIOUS
<1>1. /\ run \in Run /\ puts[n].doc = Stamped(run)
      /\ puts[n].id = id \/ \E i \in 1..Len(digests) : puts[n].id = digests[i]
  BY BasePutsIs
<1>2. run # None
  BY <1>1, NoneAssumption
<1>3. puts[n].doc.bin = Bin[commits[id]] /\ Worth(puts[n].doc, s)
  BY <1>1, <1>2, StampedWorth
<1>4. id \in Nat /\ id # HEAD
  BY BoundAssumption, NameAssumption
<1>5. puts[n].id # HEAD /\ puts[n].id \in Binaries \cup 1..Len(commits) /\ Built(puts[n].id) = Bin[commits[id]]
  <2>1. CASE puts[n].id = id  BY <1>4, <2>1, BuiltIs
  <2>2. CASE \E i \in 1..Len(digests) : puts[n].id = digests[i]
    <3>1. puts[n].id \in Binaries /\ puts[n].id = Bin[commits[id]]  BY <2>2
    <3> QED BY <3>1, BuiltIs, NameAssumption
  <2> QED BY <1>1, <2>1, <2>2
<1> HIDE DEF puts
<1> QED BY <1>3, <1>5 DEF PutInv

-----------------------------------------------------------------------------
(* Steps of an invocation keep the invariant.                                 *)
LEMMA CacheStep ==
  ASSUME TypeInv, CacheInv, NEW p \in Procs, NEW step, NEW new, Goto(p, step, new), UNCHANGED repo,
         step # "idle" => JobInv(step, new), StoredInv'
  PROVE  CacheInv'
<1>1. commits' = commits /\ at' = at /\ ref' = ref /\ tree' = tree
  BY DEF repo
<1>2. \A q \in Procs : pc'[q] = (IF q = p THEN step ELSE pc[q]) /\ job'[q] = (IF q = p THEN new ELSE job[q])
  BY DEF Goto, TypeInv, TypeOK
<1>3. \A q \in Procs : pc'[q] # "idle" => JobInv(pc'[q], job'[q])
  BY <1>2 DEF CacheInv
<1>4. MergeBase' = MergeBase
  BY <1>1 DEF MergeBase
<1>5. ASSUME NEW put, NEW s  PROVE PutInv(put, s)' <=> PutInv(put, s)
  BY <1>1 DEF PutInv, Built
<1> QED BY <1>1, <1>3, <1>4 DEF CacheInv, JobInv, PutInv, Built, HeadInv, RefInv

LEMMA CacheInner ==
  ASSUME TypeInv, CacheInv, NEW p \in Procs, NEW step, NEW new, Goto(p, step, new),
         UNCHANGED <<repo, runs, started>>, step # "idle" => JobInv(step, new)
  PROVE  CacheInv'
<1>1. StoredInv'
  BY DEF CacheInv, StoredInv, Built, repo
<1> QED BY <1>1, CacheStep

LEMMA AtJob ==
  ASSUME TypeInv, CacheInv, NEW p \in Procs, pc[p] # "idle"
  PROVE  /\ JobInv(pc[p], job[p]) /\ StoredInv
         /\ TypedJob(pc[p], job[p]) /\ job[p] \in Jobs /\ StoredRuns
         /\ Bin[tree] \in Binaries /\ job[p].scope \in Scopes
         /\ MergeBase \in 1..Len(commits) /\ MergeBase \in Nat /\ Bin[commits[MergeBase]] \in Binaries
<1>1. MergeBase \in 1..Len(commits) /\ Len(commits) \in 1..MaxCommits
  BY AtStep
<1> QED BY <1>1, AtStep, JobFields DEF CacheInv

LEMMA CacheStart ==
  ASSUME TypeInv, CacheInv, NEW p \in Procs, NEW asked \in Starts, Start(p, asked)
  PROVE  CacheInv'
<1> DEFINE new == [cmd |-> asked.cmd, scope |-> asked.scope, reuse |-> asked.reuse,
                   record |-> asked.record, base |-> MergeBase, digest |-> None, wt |-> None,
                   bins |-> None, early |-> None, ref |-> None, head |-> None, served |-> FALSE,
                   puts |-> <<>>]
<1>1. JobInv("probe", new)
  BY DEF JobInv
<1>2. Goto(p, "probe", new) /\ UNCHANGED <<repo, runs>>
  BY DEF Start
<1>3. StoredInv'
  BY <1>2 DEF CacheInv, StoredInv, Built, repo
<1> HIDE DEF new
<1> QED BY <1>1, <1>2, <1>3, CacheStep

LEMMA CacheProbe ==
  ASSUME TypeInv, CacheInv, NEW p \in Procs, NEW named \in BOOLEAN, Probe(p, named)
  PROVE  CacheInv'
<1> DEFINE j == job[p]  digest == IF named THEN Bin[tree] ELSE None
           new == [j EXCEPT !.digest = digest]
           step == IF j.cmd = "gate" THEN "reference" ELSE "covering"
<1>1. pc[p] = "probe" /\ Goto(p, step, new) /\ UNCHANGED <<repo, runs, started>>
  BY DEF Probe
<1>2. JobInv("probe", j) /\ j \in Jobs /\ digest \in Binaries \cup {None}
  BY <1>1, AtJob
<1>3. step = "covering" => j.cmd = "measure"
  BY <1>2 DEF Jobs
<1>4. digest \in {None, Bin[tree]}
  OBVIOUS
<1> HIDE DEF j, digest
<1>5. Becomes(new, j, digest, j.wt, j.bins, j.early, j.ref, j.head, j.served, j.puts)
  BY <1>2, SetDigest
<1> HIDE DEF new
<1>6. step \in {"reference", "covering"}
  OBVIOUS
<1> HIDE DEF step
<1>7. JobInv(step, new)
  BY <1>2, <1>3, <1>4, <1>5, <1>6 DEF JobInv, Becomes
<1> QED BY <1>1, <1>7, CacheInner

(* A reference looked up by the merge-base is the merge-base's.               *)
LEMMA ReferenceRef ==
  ASSUME StoredInv, StoredRuns, NEW j \in Jobs, NEW id, Reference(id, j.scope) # None,
         Built(id) = Bin[commits[j.base]]
  PROVE  RefInv(Reference(id, j.scope), j)
<1>1. j.scope \in Scopes
  BY JobFields
<1>2. PICK k \in DOMAIN runs : Wider(k, id, j.scope) /\ Reference(id, j.scope) = runs[k]
  BY <1>1, ReferenceIs
<1>3. runs[k] \in Run /\ runs[k].bin = Built(id) /\ Counted(runs[k], j.scope)
  BY <1>2, FoundCounted DEF StoredRuns
<1> QED BY <1>2, <1>3 DEF RefInv

LEMMA CacheFindReference ==
  ASSUME TypeInv, CacheInv, NEW p \in Procs, FindReference(p)
  PROVE  CacheInv'
<1> DEFINE j == job[p]  doc == IF j.reuse THEN Reference(j.base, j.scope) ELSE None
           new == [j EXCEPT !.ref = doc]  step == IF doc = None THEN "worktree" ELSE "head"
<1>1. pc[p] = "reference" /\ Goto(p, step, new) /\ UNCHANGED <<repo, runs, started>>
  BY DEF FindReference
<1>2. JobInv("reference", j) /\ j \in Jobs /\ StoredInv /\ StoredRuns /\ j.scope \in Scopes
      /\ MergeBase \in Nat
  BY <1>1, AtJob
<1>3. j.base = MergeBase /\ Built(j.base) = Bin[commits[j.base]]
  BY <1>2, BuiltIs DEF JobInv
<1>4. doc # None => RefInv(doc, j)
  BY <1>2, <1>3, ReferenceRef
<1>5. doc \in Run \cup {None}
  BY <1>2, LoadedIs
<1> HIDE DEF j, doc
<1>6. Becomes(new, j, j.digest, j.wt, j.bins, j.early, doc, j.head, j.served, j.puts)
  BY <1>2, <1>5, SetRef
<1>7. step \in {"worktree", "head"} /\ (step = "head" => doc # None)
  OBVIOUS
<1> HIDE DEF new, step
<1>8. step = "head" => RefInv(new.ref, new)
  BY <1>4, <1>6, <1>7 DEF RefInv, Becomes
<1>9. JobInv(step, new)
  BY <1>2, <1>6, <1>7, <1>8 DEF JobInv, Becomes
<1> QED BY <1>1, <1>9, CacheInner

LEMMA CacheWorktree ==
  ASSUME TypeInv, CacheInv, NEW p \in Procs, NEW named \in BOOLEAN, Worktree(p, named)
  PROVE  CacheInv'
<1> DEFINE j == job[p]  head == Bin[tree]  base == Bin[commits[MergeBase]]
           doc == IF named /\ j.reuse THEN Reference(base, j.scope) ELSE None
           step == IF named /\ head = base THEN "identical" ELSE IF doc # None THEN "head" ELSE "rounds"
           bins == IF named THEN [head |-> head, base |-> base] ELSE None
           found == IF doc = None \/ head = base THEN None ELSE Narrowed(doc, j.scope)
           new == [j EXCEPT !.wt = MergeBase, !.bins = bins, !.ref = found]
<1>1. pc[p] = "worktree" /\ Goto(p, step, new) /\ UNCHANGED <<repo, runs, started>>
  BY DEF Worktree
<1>2. JobInv("worktree", j) /\ TypedJob("worktree", j) /\ j \in Jobs /\ StoredInv /\ StoredRuns
      /\ j.scope \in Scopes /\ head \in Binaries /\ base \in Binaries
      /\ MergeBase \in 1..Len(commits) /\ MergeBase \in Nat
  BY <1>1, AtJob
<1>3. j.base = MergeBase
  BY <1>2 DEF JobInv
<1>4. doc \in Run \cup {None}
  BY <1>2, LoadedIs
<1>5. doc # None => RefInv(doc, j)
  BY <1>2, <1>3, ReferenceRef, BuiltIs
<1>6. bins \in Pair \cup {None} /\ bins \in {None, [head |-> head, base |-> base]}
  BY <1>2 DEF Pair
<1>7. step \in {"identical", "head", "rounds"} /\ (step = "identical" => head = base)
      /\ (step = "head" => doc # None /\ found = Narrowed(doc, j.scope))
  <2>1. CASE named /\ head = base  BY <2>1
  <2>2. CASE ~(named /\ head = base) /\ doc # None
    <3>1. named  BY <2>2
    <3> QED BY <2>2, <3>1
  <2>3. CASE ~(named /\ head = base) /\ doc = None  BY <2>3
  <2> QED BY <2>1, <2>2, <2>3
<1> HIDE DEF step, bins
<1>8. found \in Run \cup {None} /\ (step = "head" => RefInv(found, j))
  <2> HIDE DEF doc
  <2>1. doc # None => Narrowed(doc, j.scope) \in Run /\ RefInv(Narrowed(doc, j.scope), j)
    BY <1>2, <1>4, <1>5, NarrowedCounted DEF RefInv
  <2> QED BY <1>4, <1>7, <2>1
<1> HIDE DEF found
<1>9. MergeBase \in 1..MaxCommits \cup {None}
  BY <1>2, <1>3 DEF Jobs
<1> HIDE DEF j
<1>10. Becomes(new, j, j.digest, MergeBase, bins, j.early, found, j.head, j.served, j.puts)
  BY <1>2, <1>6, <1>8, <1>9, SetWorktree
<1> HIDE DEF new
<1>11. step = "head" => RefInv(new.ref, new)
  BY <1>8, <1>10 DEF RefInv, Becomes
<1>12. JobInv(step, new)
  BY <1>2, <1>6, <1>7, <1>10, <1>11 DEF JobInv, Becomes
<1> QED BY <1>1, <1>12, CacheInner

(* HEAD's run and what is put of it, once decided.                            *)
LEMMA HeadCounted ==
  ASSUME NEW run \in Run, NEW s, run.bin = Bin[tree], Counted(run, s)
  PROVE  HeadInv(run, s)
BY DEF HeadInv, Judged, Counted

LEMMA HeadDigests ==
  ASSUME NEW d \in {None, Bin[tree]}, Bin[tree] \in Binaries
  PROVE  /\ Digests(d) \in Seq(Binaries)
         /\ \A i \in 1..Len(Digests(d)) : Digests(d)[i] = Bin[tree]
BY DigestsIs, NameAssumption

LEMMA DecidedHead ==
  ASSUME NEW j \in Jobs, NEW step, JobInv(step, j), step # "put",
         NEW run \in Run, NEW puts, NEW served, NEW new,
         Becomes(new, j, j.digest, j.wt, j.bins, j.early, j.ref, run, served, puts),
         HeadInv(run, j.scope), served => ~Failed(run),
         \A n \in 1..Len(puts) : PutInv(puts[n], j.scope),
         j.cmd = "gate" => step = "head" /\ Counted(run, j.scope)
  PROVE  JobInv("put", new)
<1>1. new.cmd = "gate" => /\ new.ref.bin = Bin[commits[new.base]]
                          /\ RefInv(new.ref, new) /\ Counted(new.head, new.scope)
  BY DEF JobInv, RefInv, Becomes
<1> QED BY <1>1 DEF JobInv, Becomes

LEMMA CacheHeadRun ==
  ASSUME TypeInv, CacheInv, NEW p \in Procs, HeadRun(p)
  PROVE  CacheInv'
<1> DEFINE j == job[p]  id == IF Clean THEN at ELSE j.digest
           doc == IF id = None THEN None ELSE Load(Key(id, j.scope))
           digests == Digests(j.digest)
<1>1. pc[p] = "head" /\ UNCHANGED <<repo, runs, started>>
  BY DEF HeadRun
<1>2. JobInv("head", j) /\ j \in Jobs /\ StoredInv /\ StoredRuns /\ Bin[tree] \in Binaries
      /\ j.scope \in Scopes
  BY <1>1, AtJob
<1>3. digests \in Seq(Binaries) /\ \A i \in 1..Len(digests) : digests[i] = Bin[tree]
  BY <1>2, HeadDigests DEF JobInv
<1>4. CASE Usable(doc) /\ Goto(p, "put", [j EXCEPT !.head = doc, !.served = TRUE,
                                          !.puts = HeadPuts(doc, digests)])
  <2> DEFINE puts == HeadPuts(doc, digests)
             new == [j EXCEPT !.head = doc, !.served = TRUE, !.puts = puts]
             key == Key(id, j.scope)
  <2>1. doc # None /\ doc.stamped /\ id # None  BY <1>4 DEF Usable, Readable
  <2>2. key \in DOMAIN runs /\ doc = runs[key] /\ key.id = id /\ InScope(key) = InScope(j.scope)
    BY <2>1 DEF Load, Key, InScope
  <2>3. Built(id) = Bin[tree]
    <3>1. at \in Nat  BY DEF TypeInv, TypeOK
    <3>2. CASE Clean  BY <3>1, <3>2, BuiltIs DEF Clean
    <3>3. CASE ~Clean  BY <1>2, <2>1, <3>3, BuiltIs DEF JobInv
    <3> QED BY <3>2, <3>3
  <2>4. doc \in Run /\ doc.bin = Bin[tree] /\ Worth(doc, key)
    BY <1>2, <2>2, <2>3 DEF StoredInv, StoredRuns
  <2>5. Counted(doc, j.scope) /\ ~Failed(doc)  BY <2>1, <2>2, <2>4 DEF Worth, Counted
  <2> HIDE DEF j, doc, digests, id
  <2>6. puts \in Seq(PutOf) /\ \A n \in 1..Len(puts) : PutInv(puts[n], j.scope)
    BY <1>3, <2>4, <2>5, HeadPutsIs, HeadPutsInv
  <2>7. Goto(p, "put", new)  BY <1>4
  <2> HIDE DEF puts
  <2>8. Becomes(new, j, j.digest, j.wt, j.bins, j.early, j.ref, doc, TRUE, puts)
    BY <1>2, <2>4, <2>6, SetServed
  <2> HIDE DEF new
  <2>9. HeadInv(doc, j.scope)  BY <2>4, <2>5, HeadCounted
  <2>10. JobInv("put", new)  BY <1>2, <2>4, <2>5, <2>6, <2>8, <2>9, DecidedHead
  <2> QED BY <1>1, <2>7, <2>10, CacheInner
<1>5. ASSUME NEW run \in Pass(Bin[tree], j.scope, TRUE), NEW kept \in Settled(run),
             Goto(p, "put", [j EXCEPT !.head = run, !.puts = HeadPuts(kept, digests)])
      PROVE  CacheInv'
  <2> DEFINE puts == HeadPuts(kept, digests)
             new == [j EXCEPT !.head = run, !.puts = puts]
  <2>1. run \in Run /\ run.bin = Bin[tree] /\ Counted(run, j.scope)  BY <1>2, <1>5, PassCounted
  <2>2. kept \in {run, None}  BY <1>5, <2>1, SettledIs
  <2>3. kept \in Run \cup {None} /\ (kept # None => kept.bin = Bin[tree] /\ Counted(kept, j.scope))
    BY <2>1, <2>2
  <2> HIDE DEF j, digests
  <2>4. puts \in Seq(PutOf) /\ \A n \in 1..Len(puts) : PutInv(puts[n], j.scope)
    BY <1>3, <2>3, HeadPutsIs, HeadPutsInv
  <2>5. Goto(p, "put", new)  BY <1>5
  <2> HIDE DEF puts
  <2>6. Becomes(new, j, j.digest, j.wt, j.bins, j.early, j.ref, run, j.served, puts)
    BY <1>2, <2>1, <2>4, SetPuts
  <2> HIDE DEF new
  <2>7. HeadInv(run, j.scope) /\ ~j.served  BY <1>2, <2>1, HeadCounted DEF JobInv
  <2>8. JobInv("put", new)  BY <1>2, <2>1, <2>4, <2>6, <2>7, DecidedHead
  <2> QED BY <1>1, <2>5, <2>8, CacheInner
<1> QED BY <1>4, <1>5 DEF HeadRun

LEMMA CacheMeasureFull ==
  ASSUME TypeInv, CacheInv, NEW p \in Procs, MeasureFull(p)
  PROVE  CacheInv'
<1> DEFINE j == job[p]  digests == Digests(j.digest)
<1>1. pc[p] = "full" /\ UNCHANGED <<repo, runs, started>>
  BY DEF MeasureFull
<1>2. JobInv("full", j) /\ j \in Jobs /\ Bin[tree] \in Binaries /\ j.scope \in Scopes
  BY <1>1, AtJob
<1>3. digests \in Seq(Binaries) /\ \A i \in 1..Len(digests) : digests[i] = Bin[tree]
  BY <1>2, HeadDigests DEF JobInv
<1>4. PICK run \in Pass(Bin[tree], j.scope, TRUE) : \E kept \in Settled(run) :
        Goto(p, "put", [j EXCEPT !.head = run, !.puts = HeadPuts(kept, digests)])
  BY DEF MeasureFull
<1>5. PICK kept \in Settled(run) :
        Goto(p, "put", [j EXCEPT !.head = run, !.puts = HeadPuts(kept, digests)])
  BY <1>4
<1> DEFINE puts == HeadPuts(kept, digests)
           new == [j EXCEPT !.head = run, !.puts = puts]
<1>6. run \in Run /\ run.bin = Bin[tree] /\ Counted(run, j.scope)
  BY <1>2, PassCounted
<1>7. kept \in {run, None}
  BY <1>6, SettledIs
<1>8. kept \in Run \cup {None} /\ (kept # None => kept.bin = Bin[tree] /\ Counted(kept, j.scope))
  BY <1>6, <1>7
<1> HIDE DEF j, digests
<1>9. puts \in Seq(PutOf) /\ \A n \in 1..Len(puts) : PutInv(puts[n], j.scope)
  BY <1>3, <1>8, HeadPutsIs, HeadPutsInv
<1>10. Goto(p, "put", new)
  BY <1>5
<1> HIDE DEF puts
<1>11. Becomes(new, j, j.digest, j.wt, j.bins, j.early, j.ref, run, j.served, puts)
  BY <1>2, <1>6, <1>9, SetPuts
<1> HIDE DEF new
<1>12. HeadInv(run, j.scope) /\ ~j.served /\ j.cmd # "gate"
  BY <1>2, <1>6, HeadCounted DEF JobInv
<1>13. JobInv("put", new)
  BY <1>2, <1>6, <1>9, <1>11, <1>12, DecidedHead
<1> QED BY <1>1, <1>10, <1>13, CacheInner

LEMMA CacheMeasure ==
  ASSUME TypeInv, CacheInv, NEW p \in Procs, Measure(p)
  PROVE  CacheInv'
<1> DEFINE j == job[p]  b == j.digest  s == j.scope
           doc == IF j.reuse /\ Gating = "callgrind" /\ b # None
                  THEN Covering(b, s, Expected(b, s)) ELSE None
<1>1. pc[p] = "covering" /\ UNCHANGED <<repo, runs, started>>
  BY DEF Measure
<1>2. JobInv("covering", j) /\ j \in Jobs /\ StoredInv /\ StoredRuns /\ Bin[tree] \in Binaries
      /\ j.scope \in Scopes
  BY <1>1, AtJob
<1>3. CASE Goto(p, "full", j)
  <2>1. JobInv("full", j)  BY <1>2 DEF JobInv
  <2> QED BY <1>1, <1>3, <2>1, CacheInner
<1>4. ASSUME NEW timing \in Pass(Bin[tree], s, FALSE), doc # None,
             LET merged == MergeStored(doc, timing, Expected(b, s)) IN
             Goto(p, IF merged = None THEN "full" ELSE "put", [j EXCEPT !.head = merged])
      PROVE  CacheInv'
  <2> DEFINE merged == MergeStored(doc, timing, Expected(b, s))
             step == IF merged = None THEN "full" ELSE "put"
             new == [j EXCEPT !.head = merged]
  <2>1. Goto(p, step, new)  BY <1>4
  <2>2. b = Bin[tree] /\ doc = Covering(b, s, Expected(b, s))  BY <1>2, <1>4 DEF JobInv
  <2>3. doc \in Run /\ doc.bin = Bin[tree] /\ Counted(doc, s)
    BY <1>2, <1>4, <2>2, CoveringCounted
  <2>4. IsPass(timing, Bin[tree], s, FALSE)  BY <1>2, <1>4, PassIs
  <2>5. timing \in Run  BY <2>4 DEF IsPass
  <2> HIDE DEF doc, b
  <2>6. merged # None => merged.bin = Bin[tree] /\ Judged(merged, s)
    BY <1>2, <1>4, <2>3, MergedVerdicts
  <2>7. merged \in Run \cup {None}  BY <2>3, <2>5, MergedIs
  <2> HIDE DEF merged
  <2>8. merged # None => HeadInv(merged, s)  BY <2>6 DEF HeadInv
  <2> HIDE DEF j
  <2>9. Becomes(new, j, j.digest, j.wt, j.bins, j.early, j.ref, merged, j.served, j.puts)
    BY <1>2, <2>7, SetHead
  <2> HIDE DEF new
  <2>10. CASE merged = None
    <3>1. JobInv("full", new)  BY <1>2, <2>9 DEF JobInv, Becomes
    <3> QED BY <1>1, <2>1, <2>10, <3>1, CacheInner
  <2>11. CASE merged # None
    <3>1. ~j.served /\ j.puts = <<>> /\ j.cmd = "measure"  BY <1>2 DEF JobInv
    <3>2. \A n \in 1..Len(j.puts) : PutInv(j.puts[n], j.scope)  BY <3>1
    <3>3. merged \in Run  BY <2>7, <2>11
    <3>4. JobInv("put", new)  BY <1>2, <2>8, <2>9, <2>11, <3>1, <3>2, <3>3, DecidedHead
    <3> QED BY <1>1, <2>1, <2>11, <3>4, CacheInner
  <2> QED BY <2>10, <2>11
<1> QED BY <1>3, <1>4 DEF Measure

LEMMA CacheIdentical ==
  ASSUME TypeInv, CacheInv, NEW p \in Procs, NEW planned \in BOOLEAN, NEW counting \in BOOLEAN,
         Identical(p, planned, counting)
  PROVE  CacheInv'
<1> DEFINE j == job[p]  b == j.bins.head
           early == IF j.record /\ j.reuse THEN Covering(b, j.scope, Expected(b, j.scope)) ELSE None
           counted == planned \/ counting \/ (j.record /\ early = None)
<1>1. pc[p] = "identical" /\ UNCHANGED <<repo, runs, started>>
  BY DEF Identical
<1>2. JobInv("identical", j) /\ TypedJob("identical", j) /\ j \in Jobs /\ StoredInv /\ StoredRuns
      /\ Bin[tree] \in Binaries /\ j.scope \in Scopes
  BY <1>1, AtJob
<1>3. j.record \in BOOLEAN
  BY <1>2, JobFields
<1>4. b = Bin[tree]
  <2>1. j.bins # None
    BY <1>2, NoneAssumption DEF TypedJob, Pair
  <2> QED BY <1>2, <2>1 DEF JobInv
<1>5. early \in Run \cup {None}
  BY <1>2, LoadedIs
<1>6. early # None => early.bin = Bin[tree] /\ Counted(early, j.scope)
                      /\ CountsCover(early, Expected(Bin[tree], j.scope))
  BY <1>2, <1>4, CoveringCounted
<1>7. PICK run \in Pass(Bin[tree], j.scope, counted) :
        Goto(p, "judge", [j EXCEPT !.head = run, !.early = early])
  BY DEF Identical
<1> DEFINE new == [j EXCEPT !.head = run, !.early = early]
<1>8. counted \in BOOLEAN
  BY <1>3
<1> HIDE DEF counted, early, j
<1>9. IsPass(run, Bin[tree], j.scope, counted)
  BY <1>2, <1>7, <1>8, PassIs
<1>10. run \in Run /\ run \in Pass(Bin[tree], j.scope, run.counted)
  BY <1>7, <1>9 DEF IsPass
<1>11. Goto(p, "judge", new)
  BY <1>7
<1>12. Becomes(new, j, j.digest, j.wt, j.bins, early, j.ref, run, j.served, j.puts)
  BY <1>2, <1>5, <1>10, SetEarly
<1> HIDE DEF new
<1>13. JobInv("judge", new)
  BY <1>2, <1>6, <1>10, <1>12 DEF JobInv, Becomes
<1> QED BY <1>1, <1>11, <1>13, CacheInner

(* A pass over identical binaries ends: both sides are the one run.           *)
LEMMA CacheSides ==
  ASSUME TypeInv, CacheInv, NEW p \in Procs, pc[p] = "judge", UNCHANGED <<repo, runs, started>>,
         NEW run \in Run, HeadInv(run, job[p].scope), NEW kept \in Run \cup {None},
         kept # None => kept.bin = Bin[tree] /\ Counted(kept, job[p].scope),
         Goto(p, "put", [job[p] EXCEPT !.head = run, !.ref = run,
                         !.puts = HeadPuts(kept, Digests(job[p].digest))])
  PROVE  CacheInv'
<1> DEFINE j == job[p]  digests == Digests(j.digest)  puts == HeadPuts(kept, digests)
           new == [j EXCEPT !.head = run, !.ref = run, !.puts = puts]
<1>1. JobInv("judge", j) /\ j \in Jobs /\ Bin[tree] \in Binaries
  BY AtJob
<1>2. digests \in Seq(Binaries) /\ \A i \in 1..Len(digests) : digests[i] = Bin[tree]
  BY <1>1, HeadDigests DEF JobInv
<1>3. Goto(p, "put", new)
  OBVIOUS
<1> HIDE DEF digests
<1>4. puts \in Seq(PutOf) /\ \A n \in 1..Len(puts) : PutInv(puts[n], j.scope)
  BY <1>2, HeadPutsIs, HeadPutsInv
<1>5. HeadInv(run, j.scope)
  OBVIOUS
<1> HIDE DEF j, puts
<1>6. Becomes(new, j, j.digest, j.wt, j.bins, j.early, run, run, j.served, puts)
  BY <1>1, <1>4, SetSides
<1> HIDE DEF new
<1>7. new.ref.bin = Bin[commits[new.base]] /\ new.head.bin = new.ref.bin /\ ~new.served
  BY <1>1, <1>5, <1>6 DEF JobInv, HeadInv, Becomes
<1>8. JobInv("put", new)
  BY <1>1, <1>4, <1>5, <1>6, <1>7 DEF JobInv, Becomes
<1> QED BY <1>3, <1>8, CacheInner

LEMMA CacheJudge ==
  ASSUME TypeInv, CacheInv, NEW p \in Procs, Judge(p)
  PROVE  CacheInv'
<1> DEFINE j == job[p]  pass == j.head  b == j.bins.head  s == j.scope
           covering == IF pass.counted THEN None
                       ELSE IF j.early # None THEN j.early
                       ELSE IF j.reuse THEN Covering(b, s, Expected(b, s)) ELSE None
           merged == IF covering = None THEN None ELSE MergeStored(covering, pass, Expected(b, s))
           digests == Digests(j.digest)
           head == IF merged = None THEN pass ELSE merged
           kept == KeptOfIdentical(pass, covering, s)
<1>1. pc[p] = "judge" /\ UNCHANGED <<repo, runs, started>>
  BY DEF Judge
<1>2. JobInv("judge", j) /\ TypedJob("judge", j) /\ j \in Jobs /\ StoredInv /\ StoredRuns
      /\ Bin[tree] \in Binaries /\ s \in Scopes
  BY <1>1, AtJob
<1>3. b = Bin[tree] /\ pass \in Run /\ pass.counted \in BOOLEAN
  <2>1. j.bins \in Pair /\ pass \in Run  BY <1>2 DEF TypedJob
  <2>2. pass.counted \in BOOLEAN  BY <2>1 DEF Run
  <2>3. b = Bin[tree]
    BY <1>2, <2>1, NoneAssumption DEF JobInv, Pair
  <2> QED BY <2>1, <2>2, <2>3
<1>4. IsPass(pass, Bin[tree], s, pass.counted)
  BY <1>2, <1>3, PassIs DEF JobInv
<1>5. j.early \in Run \cup {None}
  BY <1>2, JobFields
<1>6. covering # None =>
        covering \in Run /\ covering.bin = Bin[tree] /\ Counted(covering, s)
        /\ CountsCover(covering, Expected(Bin[tree], s))
  <2>1. Covering(b, s, Expected(b, s)) # None =>
          LET doc == Covering(b, s, Expected(b, s)) IN
          doc \in Run /\ doc.bin = b /\ Counted(doc, s) /\ CountsCover(doc, Expected(b, s))
    BY <1>2, <1>3, CoveringCounted
  <2>2. CASE covering = j.early  BY <1>2, <1>5, <2>2 DEF JobInv
  <2>3. CASE covering = Covering(b, s, Expected(b, s))  BY <1>3, <2>1, <2>3
  <2>4. CASE covering = None  BY <2>4
  <2> QED BY <2>2, <2>3, <2>4
<1>7. /\ \/ pass.counted /\ \E new \in Settled(pass) :
                Goto(p, "put", [j EXCEPT !.head = pass, !.ref = pass, !.puts = HeadPuts(new, digests)])
         \/ \E run \in Pass(Bin[tree], s, TRUE) : \E new \in Settled(run) :
                Goto(p, "put", [j EXCEPT !.head = run, !.ref = run, !.puts = HeadPuts(new, digests)])
         \/ /\ ~pass.counted /\ ~UncountedComplexity(pass, covering)
            /\ Goto(p, "put", [j EXCEPT !.head = head, !.ref = head, !.puts = HeadPuts(kept, digests)])
  BY DEF Judge
<1>8. ASSUME NEW run \in Run, run.bin = Bin[tree], Counted(run, s), NEW new \in Settled(run),
             Goto(p, "put", [j EXCEPT !.head = run, !.ref = run, !.puts = HeadPuts(new, digests)])
      PROVE  CacheInv'
  <2>1. new \in {run, None}  BY <1>8, SettledIs
  <2>2. new \in Run \cup {None} /\ (new # None => new.bin = Bin[tree] /\ Counted(new, s))
    BY <1>8, <2>1
  <2>3. HeadInv(run, s)  BY <1>8, HeadCounted
  <2> QED BY <1>1, <1>8, <2>2, <2>3, CacheSides
<1>9. CASE pass.counted /\ \E new \in Settled(pass) :
                Goto(p, "put", [j EXCEPT !.head = pass, !.ref = pass, !.puts = HeadPuts(new, digests)])
  <2>1. pass.bin = Bin[tree] /\ Counted(pass, s)  BY <1>4, <1>9 DEF IsPass, Counted
  <2> QED BY <1>3, <1>8, <1>9, <2>1
<1>10. CASE \E run \in Pass(Bin[tree], s, TRUE) : \E new \in Settled(run) :
                Goto(p, "put", [j EXCEPT !.head = run, !.ref = run, !.puts = HeadPuts(new, digests)])
  <2>1. PICK run \in Pass(Bin[tree], s, TRUE) : \E new \in Settled(run) :
          Goto(p, "put", [j EXCEPT !.head = run, !.ref = run, !.puts = HeadPuts(new, digests)])
    BY <1>10
  <2>2. run \in Run /\ run.bin = Bin[tree] /\ Counted(run, s)  BY <1>2, PassCounted
  <2> QED BY <1>8, <2>1, <2>2
<1>11. CASE /\ ~pass.counted /\ ~UncountedComplexity(pass, covering)
            /\ Goto(p, "put", [j EXCEPT !.head = head, !.ref = head, !.puts = HeadPuts(kept, digests)])
  <2>1. kept \in Run \cup {None} /\ (kept # None => kept.bin = Bin[tree] /\ Counted(kept, s))
    <3> HIDE DEF covering, pass
    <3>1. covering \in Run \cup {None}  BY <1>6
    <3>2. kept \in Run \cup {None} /\ (kept # None => covering \in Run /\ kept = Narrowed(covering, s))
      BY <1>2, <1>3, <3>1, KeptIs
    <3> HIDE DEF kept
    <3>3. CASE kept = None  BY <3>3
    <3>4. CASE kept # None
      <4>1. covering # None /\ covering \in Run  BY <3>2, <3>4, NoneAssumption
      <4>2. covering.bin = Bin[tree] /\ Counted(covering, s)  BY <1>6, <4>1
      <4>3. Narrowed(covering, s) \in Run /\ Narrowed(covering, s).bin = Bin[tree]
            /\ Counted(Narrowed(covering, s), s)
        BY <1>2, <4>1, <4>2, NarrowedCounted
      <4> QED BY <3>2, <3>4, <4>3
    <3> QED BY <3>3, <3>4
  <2>2. head \in Run /\ HeadInv(head, s)
    <3> HIDE DEF covering, pass
    <3>1. CASE covering = None
      <4>1. merged = None  BY <3>1
      <4>2. pass.claims = {}  BY <1>11, <3>1 DEF UncountedComplexity
      <4>3. HeadInv(pass, s)  BY <1>4, <4>2 DEF IsPass, HeadInv, Judged
      <4> QED BY <1>3, <4>1, <4>3
    <3>2. CASE covering # None
      <4> DEFINE full == MergeStored(covering, pass, Expected(b, s))
      <4>1. pass.claims \subseteq covering.claims  BY <1>11, <3>2 DEF UncountedComplexity
      <4>2. pass.ids = Expected(b, s)  BY <1>3, <1>4 DEF IsPass, Expected
      <4>3. CountsCover(covering, Expected(b, s)) /\ covering \in Run  BY <1>3, <1>6, <3>2
      <4>4. full # None  BY <1>3, <4>1, <4>2, <4>3, MergedSome
      <4>5. full \in Run  BY <1>3, <4>3, <4>4, MergedIs
      <4>6. pass \in Pass(Bin[tree], s, pass.counted)  BY <1>2 DEF JobInv, pass
      <4>7. full.bin = Bin[tree] /\ Judged(full, s)
        BY <1>2, <1>3, <1>6, <3>2, <4>3, <4>4, <4>6, MergedVerdicts
      <4>8. head = full  BY <3>2, <4>4
      <4> HIDE DEF full, head
      <4> QED BY <4>5, <4>7, <4>8 DEF HeadInv
    <3> QED BY <3>1, <3>2
  <2> HIDE DEF kept, head
  <2> QED BY <1>1, <1>11, <2>1, <2>2, CacheSides
<1> QED BY <1>7, <1>9, <1>10, <1>11

LEMMA CacheRounds ==
  ASSUME TypeInv, CacheInv, NEW p \in Procs, Rounds(p)
  PROVE  CacheInv'
<1> DEFINE j == job[p]  bins == j.bins  named == bins # None
           baseDigests == IF named THEN <<bins.base>> ELSE <<>>
           headDigests == Digests(j.digest) \o IF named THEN <<bins.head>> ELSE <<>>
           b == Bin[tree]  c == Bin[commits[MergeBase]]
<1>1. pc[p] = "rounds" /\ UNCHANGED <<repo, runs, started>>
  BY DEF Rounds
<1>2. JobInv("rounds", j) /\ TypedJob("rounds", j) /\ j \in Jobs /\ b \in Binaries /\ c \in Binaries
      /\ j.scope \in Scopes /\ MergeBase \in 1..Len(commits)
  BY <1>1, AtJob
<1>3. j.wt = MergeBase /\ j.base = MergeBase /\ j.base \in 1..MaxCommits
  BY <1>2, JobFields DEF JobInv, TypedJob
<1>4. PICK head \in Pass(b, j.scope, TRUE), base \in Pass(c, j.scope, TRUE) :
        \E keptHead \in Settled(head), keptBase \in Settled(base) :
          Goto(p, "put", [j EXCEPT !.head = head, !.ref = base,
            !.puts = BasePuts(keptBase, j.base, baseDigests) \o HeadPuts(keptHead, headDigests)])
  BY <1>3 DEF Rounds
<1>5. PICK keptHead \in Settled(head), keptBase \in Settled(base) :
        Goto(p, "put", [j EXCEPT !.head = head, !.ref = base,
          !.puts = BasePuts(keptBase, j.base, baseDigests) \o HeadPuts(keptHead, headDigests)])
  BY <1>4
<1>6. named => bins.base = c /\ bins.head = b
  BY <1>2 DEF JobInv
<1>7. baseDigests \in Seq(Binaries) /\ \A i \in 1..Len(baseDigests) : baseDigests[i] = c
  BY <1>2, <1>6
<1>8. headDigests \in Seq(Binaries) /\ \A i \in 1..Len(headDigests) : headDigests[i] = b
  <2>1. /\ Digests(j.digest) \in Seq(Binaries)
        /\ \A i \in 1..Len(Digests(j.digest)) : Digests(j.digest)[i] = b
    BY <1>2, HeadDigests DEF JobInv
  <2>2. CASE named  BY <1>2, <1>6, <2>1, <2>2
  <2>3. CASE ~named  BY <2>1, <2>3
  <2> QED BY <2>2, <2>3
<1>9. head \in Run /\ head.bin = b /\ Counted(head, j.scope)
  BY <1>2, PassCounted
<1>10. base \in Run /\ base.bin = c /\ Counted(base, j.scope)
  BY <1>2, PassCounted
<1>11. keptHead \in {head, None} /\ keptBase \in {base, None}
  BY <1>9, <1>10, SettledIs
<1>12. keptHead \in Run \cup {None} /\ (keptHead # None => keptHead.bin = b /\ Counted(keptHead, j.scope))
  BY <1>9, <1>11
<1>13. keptBase \in Run \cup {None} /\ (keptBase # None => keptBase.bin = c /\ Counted(keptBase, j.scope))
  BY <1>10, <1>11
<1> DEFINE first == BasePuts(keptBase, j.base, baseDigests)
           second == HeadPuts(keptHead, headDigests)
           puts == first \o second
           new == [j EXCEPT !.head = head, !.ref = base, !.puts = puts]
<1>14. Goto(p, "put", new)
  BY <1>5
<1> HIDE DEF j, baseDigests, headDigests
<1>15. first \in Seq(PutOf) /\ \A n \in 1..Len(first) : PutInv(first[n], j.scope)
  <2>1. j.base \in 1..MaxCommits /\ j.base \in 1..Len(commits) /\ c = Bin[commits[j.base]]
    BY <1>2, <1>3
  <2> HIDE DEF c
  <2>2. first \in Seq(PutOf)
    BY <1>7, <1>13, <2>1, BasePutsIs
  <2>3. \A n \in 1..Len(first) : PutInv(first[n], j.scope)
    BY <1>7, <1>13, <2>1, BasePutsInv
  <2> QED BY <2>2, <2>3
<1>16. second \in Seq(PutOf) /\ \A n \in 1..Len(second) : PutInv(second[n], j.scope)
  BY <1>8, <1>12, HeadPutsIs, HeadPutsInv
<1> HIDE DEF first, second
<1>17. puts \in Seq(PutOf) /\ \A n \in 1..Len(puts) : PutInv(puts[n], j.scope)
  BY <1>15, <1>16, ConcatPuts
<1> HIDE DEF puts
<1>18. Becomes(new, j, j.digest, j.wt, j.bins, j.early, base, head, j.served, puts)
  BY <1>2, <1>9, <1>10, <1>17, SetSides
<1> HIDE DEF new
<1>19. HeadInv(head, j.scope) /\ ~j.served
  BY <1>2, <1>9, HeadCounted DEF JobInv
<1>20. RefInv(new.ref, new) /\ Counted(new.head, new.scope)
  BY <1>3, <1>9, <1>10, <1>18 DEF RefInv, Becomes
<1>21. JobInv("put", new)
  BY <1>2, <1>17, <1>18, <1>19, <1>20 DEF JobInv, RefInv, Becomes
<1> QED BY <1>1, <1>14, <1>21, CacheInner

LEMMA CachePut ==
  ASSUME TypeInv, CacheInv, NEW p \in Procs, NEW oldest, Put(p, oldest)
  PROVE  CacheInv'
<1> DEFINE j == job[p]  put == Head(j.puts)  id == NamedNow(put)  key == Key(id, j.scope)
           stored == DOMAIN runs \cup {key}  puts == Tail(j.puts)
           new == [j EXCEPT !.puts = puts]
<1>1. pc[p] = "put" /\ j.puts # <<>> /\ UNCHANGED <<repo, started>> /\ Goto(p, "put", new)
  BY DEF Put
<1>2. JobInv("put", j) /\ j \in Jobs /\ StoredInv /\ StoredRuns
  BY <1>1, AtJob
<1>3. at \in 1..Len(commits) /\ Len(commits) \in 1..MaxCommits /\ at \in Nat
  BY <1>1, AtStep DEF TypeInv, TypeOK
<1>4. j.puts \in Seq(PutOf)
  BY <1>2, JobFields
<1>5. \A n \in 1..Len(j.puts) : PutInv(j.puts[n], j.scope)
  BY <1>2 DEF JobInv
<1>6. put \in PutOf /\ put = j.puts[1] /\ 1 \in 1..Len(j.puts)
  BY <1>1, <1>4
<1>7. PutInv(put, j.scope)
  BY <1>5, <1>6
<1>8. puts \in Seq(PutOf) /\ \A n \in 1..Len(puts) : n + 1 \in 1..Len(j.puts) /\ puts[n] = j.puts[n + 1]
  BY <1>1, <1>4
<1>9. \A n \in 1..Len(puts) : PutInv(puts[n], j.scope)
  BY <1>5, <1>8
<1>10. StoredInv'
  <2>1. CASE id = None
    <3>1. runs' = runs  BY <2>1 DEF Put
    <3> QED BY <1>1, <1>2, <3>1 DEF StoredInv, Built, repo
  <2>2. CASE id # None
    <3>1. runs' = [k \in stored \ oldest |-> IF k = key THEN put.doc ELSE runs[k]]
      BY <2>2 DEF Put
    <3>2. \/ put.id # HEAD /\ id = put.id
          \/ put.id = HEAD /\ Clean /\ id = at
      BY <1>3, <1>6, <2>2, NamedIs
    <3>3. id \in Binaries \cup 1..Len(commits) /\ put.doc.bin = Built(id)
      BY <1>3, <1>7, <3>2, BuiltIs DEF PutInv, Clean
    <3>4. Worth(put.doc, key) /\ key.id = id
      BY <1>7 DEF PutInv, Worth, Counted, Key, InScope
    <3> HIDE DEF put, id, key
    <3>5. \A k \in DOMAIN runs' :
            /\ k.id \in Binaries \cup 1..Len(commits) /\ runs'[k].bin = Built(k.id)
            /\ Worth(runs'[k], k)
      <4> SUFFICES ASSUME NEW k \in DOMAIN runs'
                   PROVE  /\ k.id \in Binaries \cup 1..Len(commits) /\ runs'[k].bin = Built(k.id)
                          /\ Worth(runs'[k], k)
        OBVIOUS
      <4>1. CASE k = key
        <5>1. runs'[k] = put.doc  BY <3>1, <4>1
        <5> QED BY <3>3, <3>4, <4>1, <5>1
      <4>2. CASE k # key
        <5>1. k \in DOMAIN runs /\ runs'[k] = runs[k]  BY <3>1, <4>2
        <5> QED BY <1>2, <5>1 DEF StoredInv
      <4> QED BY <4>1, <4>2
    <3>6. commits' = commits  BY <1>1 DEF repo
    <3> QED BY <3>5, <3>6 DEF StoredInv, Built
  <2> QED BY <2>1, <2>2
<1> HIDE DEF j, puts
<1>11. Becomes(new, j, j.digest, j.wt, j.bins, j.early, j.ref, j.head, j.served, puts)
  BY <1>2, <1>8, DropPut
<1> HIDE DEF new
<1>12. JobInv("put", new)
  BY <1>2, <1>9, <1>11 DEF JobInv, RefInv, Becomes
<1> QED BY <1>1, <1>10, <1>12, CacheStep

LEMMA CacheEnd ==
  ASSUME TypeInv, CacheInv, NEW p \in Procs, Tear(p) \/ Exit(p)
  PROVE  CacheInv'
<1>1. Goto(p, "idle", Idle) /\ UNCHANGED repo
  BY DEF Tear, Exit
<1>2. commits' = commits
  BY <1>1 DEF repo
<1>3. DOMAIN runs' \subseteq DOMAIN runs /\ \A k \in DOMAIN runs' : runs'[k] = runs[k]
  BY DEF Tear, Exit
<1>4. StoredInv'
  BY <1>2, <1>3 DEF CacheInv, StoredInv, Built
<1> QED BY <1>1, <1>4, CacheStep

(* While no invocation is under way the repository may change: commits stay   *)
(* what they were.                                                           *)
LEMMA CacheRepo ==
  ASSUME TypeInv, CacheInv, \A p \in Procs : pc[p] = "idle", UNCHANGED <<runs, pc, job>>,
         Len(commits) <= Len(commits'), Len(commits') \in Nat,
         \A c \in 1..Len(commits) : commits'[c] = commits[c]
  PROVE  CacheInv'
<1>1. Len(commits) \in Nat
  BY BoundAssumption DEF TypeInv, TypeOK
<1>2. 1..Len(commits) \subseteq 1..Len(commits')
  BY <1>1
<1>3. \A id \in Binaries \cup 1..Len(commits) : Built(id)' = Built(id)
  BY DEF Built
<1>4. StoredInv'
  <2> SUFFICES ASSUME NEW k \in DOMAIN runs
               PROVE  /\ k.id \in Binaries \cup 1..Len(commits') /\ runs[k].bin = Built(k.id)'
                      /\ Worth(runs[k], k)
    BY DEF StoredInv, Built
  <2>1. k.id \in Binaries \cup 1..Len(commits) /\ runs[k].bin = Built(k.id) /\ Worth(runs[k], k)
    BY DEF CacheInv, StoredInv
  <2> QED BY <1>2, <1>3, <2>1 DEF Built
<1> QED BY <1>4 DEF CacheInv

LEMMA CacheNext ==
  ASSUME Moves = FALSE, TypeInv, CacheInv, [Next]_vars
  PROVE  CacheInv'
<1>1. commits \in Seq(Trees) /\ Len(commits) \in Nat
  BY BoundAssumption DEF TypeInv, TypeOK
<1>2. Quiet => \A p \in Procs : pc[p] = "idle"
  BY DEF Quiet
<1>3. CASE Commit
  <2>1. commits' = Append(commits, tree) /\ tree \in Trees  BY <1>3 DEF Commit, TypeInv, TypeOK
  <2>2. Len(commits') = Len(commits) + 1 /\ \A c \in 1..Len(commits) : commits'[c] = commits[c]
    BY <1>1, <2>1
  <2> QED BY <1>1, <1>2, <1>3, <2>2, CacheRepo DEF Commit
<1>4. ASSUME NEW t \in Trees, Edit(t)  PROVE CacheInv'
  BY <1>1, <1>2, <1>4, CacheRepo DEF Edit
<1>5. ASSUME NEW c \in 1..Len(commits), Checkout(c)  PROVE CacheInv'
  BY <1>1, <1>2, <1>5, CacheRepo DEF Checkout
<1>6. ASSUME NEW c \in 1..Len(commits), Fetch(c)  PROVE CacheInv'
  BY <1>1, <1>2, <1>6, CacheRepo DEF Fetch
<1>7. CASE UNCHANGED vars
  <2>1. commits' = commits /\ at' = at /\ ref' = ref /\ tree' = tree /\ runs' = runs /\ pc' = pc /\ job' = job
    BY <1>7 DEF vars, repo
  <2>2. MergeBase' = MergeBase  BY <2>1 DEF MergeBase
  <2> QED BY <2>1, <2>2 DEF CacheInv, StoredInv, JobInv, PutInv, Built, HeadInv, RefInv
<1> QED BY <1>3, <1>4, <1>5, <1>6, <1>7, CacheStart, CacheProbe, CacheFindReference, CacheWorktree,
           CacheHeadRun, CacheIdentical, CacheJudge, CacheRounds, CacheMeasure, CacheMeasureFull,
           CachePut, CacheEnd DEF Next

LEMMA CacheInit == Init => CacheInv
<1> SUFFICES ASSUME Init  PROVE CacheInv
  OBVIOUS
<1>1. DOMAIN runs = {} /\ \A p \in Procs : pc[p] = "idle"
  BY DEF Init
<1> QED BY <1>1 DEF CacheInv, StoredInv

LEMMA CacheAlways == ASSUME Moves = FALSE  PROVE Spec => [](TypeInv /\ CacheInv)
<1>1. TypeInv /\ CacheInv /\ [Next]_vars => TypeInv' /\ CacheInv'
  BY TypedNext, CacheNext
<1> QED BY <1>1, TypedInit, CacheInit, PTL DEF Spec

-----------------------------------------------------------------------------
(* What is kept, and what an invocation holds, even if the checkout moves     *)
(* under it: runs with the counters of their key, and nothing of others.      *)

(* A run holds items and claims of its own binary only.                       *)
Own(run) ==
  run.ids \subseteq Listing[run.bin] /\ run.claims \subseteq Claims[run.bin] /\ run.fails \subseteq run.claims

Sound(run, s) == run \in Run /\ Counted(run, s) /\ Own(run)

(* A run that answers for a scope, with or without counters.                  *)
Final(run, s) == run \in Run /\ InScope(s) \cap Listing[run.bin] \subseteq run.ids /\ Own(run)

PutSound(put, s) == Worth(put.doc, s) /\ Own(put.doc)

HeldInv(step, j) ==
  /\ j.early # None => Sound(j.early, j.scope)
  /\ step = "head" => Sound(j.ref, j.scope)
  /\ step = "judge" => \E b \in Binaries : j.head \in Pass(b, j.scope, j.head.counted)
  /\ step \notin {"probe", "put"} => (j.cmd = "measure" <=> step \in {"covering", "full"})
  /\ step # "put" => ~j.served /\ j.puts = <<>>
  /\ step = "put" =>
       /\ \A n \in 1..Len(j.puts) : PutSound(j.puts[n], j.scope)
       /\ Final(j.head, j.scope) /\ (j.served => ~Failed(j.head))
       /\ j.cmd = "measure" => j.head.counted
       /\ j.cmd = "gate" => j.ref = j.head \/ (j.head.counted /\ Sound(j.ref, j.scope))

KeptInv ==
  /\ \A k \in DOMAIN runs : Worth(runs[k], k) /\ Own(runs[k])
  /\ \A p \in Procs : pc[p] # "idle" => HeldInv(pc[p], job[p])

(* A step of an invocation between its start and its answer.                  *)
Inner(p) ==
  /\ UNCHANGED repo /\ pc[p] \notin {"idle", "put"} /\ pc'[p] # "idle"
  /\ job'[p].cmd = job[p].cmd /\ job'[p].scope = job[p].scope
  /\ \A q \in Procs : q # p => pc'[q] = pc[q] /\ job'[q] = job[q]

LEMMA PassSound ==
  ASSUME NEW b \in Binaries, NEW s \in Scopes, NEW counted \in BOOLEAN, NEW run \in Pass(b, s, counted)
  PROVE  run \in Run /\ Final(run, s) /\ (counted => Sound(run, s) /\ run.counted)
<1>1. IsPass(run, b, s, counted)
  BY PassIs
<1>2. InScope(s) \cap Listing[b] \subseteq run.ids /\ Own(run)
  BY <1>1 DEF IsPass, Own
<1>3. counted => Counted(run, s)
  BY <1>1 DEF IsPass, Counted
<1> QED BY <1>1, <1>2, <1>3 DEF IsPass, Final, Sound

LEMMA SoundFinal ==
  ASSUME NEW run, NEW s, Sound(run, s)
  PROVE  run \in Run /\ Final(run, s) /\ run.counted
BY DEF Sound, Final, Counted

LEMMA StampedSound ==
  ASSUME NEW run, NEW s, Sound(run, s)
  PROVE  Worth(Stamped(run), s) /\ Own(Stamped(run))
<1> DEFINE new == Stamped(run)
<1>1. run \in Run /\ Counted(run, s) /\ Own(run)
  BY DEF Sound
<1>2. Worth(new, s)
  BY <1>1, StampedWorth
<1>3. new.bin = run.bin /\ new.ids = run.ids /\ new.claims = run.claims /\ new.fails = run.fails
  BY <1>1, StampedIs
<1> HIDE DEF new
<1>4. Own(new)
  BY <1>1, <1>3 DEF Own
<1> QED BY <1>2, <1>4 DEF new

LEMMA NarrowedSound ==
  ASSUME NEW doc, NEW s \in Scopes, Sound(doc, s)
  PROVE  Sound(Narrowed(doc, s), s)
<1> DEFINE new == Narrowed(doc, s)
<1>1. doc \in Run /\ Counted(doc, s) /\ Own(doc)
  BY DEF Sound
<1>2. new \in Run /\ Counted(new, s)
  BY <1>1, NarrowedCounted
<1>3. /\ new.bin = doc.bin /\ new.ids = doc.ids \cap s.shard
      /\ new.claims = doc.claims \cap s.shard /\ new.fails = doc.fails \cap s.shard
  BY <1>1, NarrowedIs
<1> HIDE DEF new
<1>4. Own(new)
  BY <1>1, <1>3 DEF Own
<1>5. Sound(new, s)
  BY <1>2, <1>4 DEF Sound
<1> QED BY <1>5 DEF new

(* What is found under a wider name is sound for the scope asked.             *)
LEMMA FoundSound ==
  ASSUME KeptInv, StoredRuns, NEW id, NEW s \in Scopes, NEW ids
  PROVE  /\ Reference(id, s) # None => Sound(Reference(id, s), s)
         /\ Covering(id, s, ids) # None =>
              Sound(Covering(id, s, ids), s) /\ CountsCover(Covering(id, s, ids), ids)
<1>1. ASSUME NEW k \in DOMAIN runs, Wider(k, id, s)
      PROVE  Sound(runs[k], s)
  <2>1. runs[k] \in Run /\ Counted(runs[k], k) /\ Own(runs[k])
    BY DEF KeptInv, Worth, StoredRuns
  <2> QED BY <1>1, <2>1, CountedWider DEF Sound
<1>2. ASSUME Reference(id, s) # None  PROVE Sound(Reference(id, s), s)
  <2>1. PICK k \in DOMAIN runs : Wider(k, id, s) /\ Reference(id, s) = runs[k]
    BY <1>2, ReferenceIs
  <2> QED BY <1>1, <2>1
<1>3. ASSUME Covering(id, s, ids) # None
      PROVE  Sound(Covering(id, s, ids), s) /\ CountsCover(Covering(id, s, ids), ids)
  <2>1. PICK k \in DOMAIN runs : Wider(k, id, s) /\ Covering(id, s, ids) = runs[k]
    BY <1>3, CoveringIs
  <2>2. CountsCover(Covering(id, s, ids), ids)
    BY <1>3, CoveringIs
  <2> QED BY <1>1, <2>1, <2>2
<1> QED BY <1>2, <1>3

(* Merged with stored counters, a pass still answers for its scope.           *)
LEMMA MergedFinal ==
  ASSUME NEW doc \in Run, NEW timing \in Run, NEW s, Final(timing, s), NEW ids,
         MergeStored(doc, timing, ids) # None
  PROVE  LET run == MergeStored(doc, timing, ids) IN
         run \in Run /\ run.counted /\ Final(run, s)
<1> DEFINE run == MergeStored(doc, timing, ids)
<1>1. /\ run \in Run /\ run.counted = TRUE /\ run.bin = timing.bin /\ run.ids = timing.ids
      /\ run.claims = timing.claims /\ run.fails = CountedFails(timing, doc)
  BY MergedIs
<1>2. CountedFails(timing, doc) \subseteq timing.claims
  BY CountedFailsIs
<1> HIDE DEF run
<1>3. Final(run, s)
  BY <1>1, <1>2 DEF Final, Own
<1>4. run.counted
  BY <1>1
<1> QED BY <1>1, <1>3, <1>4 DEF run

LEMMA HeadPutsSound ==
  ASSUME NEW run \in Run \cup {None}, NEW digests \in Seq(Binaries), NEW s, run # None => Sound(run, s)
  PROVE  \A n \in 1..Len(HeadPuts(run, digests)) : PutSound(HeadPuts(run, digests)[n], s)
<1> DEFINE puts == HeadPuts(run, digests)
<1> SUFFICES ASSUME NEW n \in 1..Len(puts)  PROVE PutSound(puts[n], s)
  OBVIOUS
<1>1. run \in Run /\ puts[n].doc = Stamped(run)
  BY HeadPutsIs
<1>2. Sound(run, s)
  BY <1>1, NoneAssumption
<1>3. Worth(puts[n].doc, s) /\ Own(puts[n].doc)
  BY <1>1, <1>2, StampedSound
<1> HIDE DEF puts
<1> QED BY <1>3 DEF PutSound

LEMMA BasePutsSound ==
  ASSUME NEW run \in Run \cup {None}, NEW id \in 1..MaxCommits, NEW digests \in Seq(Binaries), NEW s,
         run # None => Sound(run, s)
  PROVE  \A n \in 1..Len(BasePuts(run, id, digests)) : PutSound(BasePuts(run, id, digests)[n], s)
<1> DEFINE puts == BasePuts(run, id, digests)
<1> SUFFICES ASSUME NEW n \in 1..Len(puts)  PROVE PutSound(puts[n], s)
  OBVIOUS
<1>1. run \in Run /\ puts[n].doc = Stamped(run)
  BY BasePutsIs
<1>2. Sound(run, s)
  BY <1>1, NoneAssumption
<1>3. Worth(puts[n].doc, s) /\ Own(puts[n].doc)
  BY <1>1, <1>2, StampedSound
<1> HIDE DEF puts
<1> QED BY <1>3 DEF PutSound

LEMMA KeptInner ==
  ASSUME TypeInv, KeptInv, NEW p \in Procs, NEW step, NEW new, Goto(p, step, new),
         UNCHANGED <<repo, runs, started>>, pc[p] \notin {"idle", "put"}, step # "idle",
         new.cmd = job[p].cmd, new.scope = job[p].scope, HeldInv(step, new)
  PROVE  KeptInv' /\ Inner(p)
<1>1. \A q \in Procs : pc'[q] = (IF q = p THEN step ELSE pc[q]) /\ job'[q] = (IF q = p THEN new ELSE job[q])
  BY DEF Goto, TypeInv, TypeOK
<1>2. \A q \in Procs : pc'[q] # "idle" => HeldInv(pc'[q], job'[q])
  BY <1>1 DEF KeptInv
<1>3. KeptInv'
  BY <1>2 DEF KeptInv
<1>4. Inner(p)
  BY <1>1 DEF Inner
<1> QED BY <1>3, <1>4

LEMMA AtHeld ==
  ASSUME TypeInv, KeptInv, NEW p \in Procs, pc[p] # "idle"
  PROVE  /\ HeldInv(pc[p], job[p]) /\ TypedJob(pc[p], job[p]) /\ job[p] \in Jobs /\ StoredRuns
         /\ Bin[tree] \in Binaries /\ job[p].scope \in Scopes /\ job[p].cmd \in {"measure", "gate"}
<1>1. job[p] \in Jobs
  BY AtStep
<1>2. job[p].cmd \in {"measure", "gate"}
  BY <1>1 DEF Jobs
<1> QED BY <1>1, <1>2, AtStep, JobFields DEF KeptInv

LEMMA KeptProbe ==
  ASSUME TypeInv, KeptInv, NEW p \in Procs, NEW named \in BOOLEAN, Probe(p, named)
  PROVE  KeptInv' /\ Inner(p)
<1> DEFINE j == job[p]  digest == IF named THEN Bin[tree] ELSE None
           new == [j EXCEPT !.digest = digest]
           step == IF j.cmd = "gate" THEN "reference" ELSE "covering"
<1>1. pc[p] = "probe" /\ Goto(p, step, new) /\ UNCHANGED <<repo, runs, started>>
  BY DEF Probe
<1>2. HeldInv("probe", j) /\ j \in Jobs /\ digest \in Binaries \cup {None} /\ j.cmd \in {"measure", "gate"}
  BY <1>1, AtHeld
<1>3. step \in {"reference", "covering"} /\ (j.cmd = "measure" <=> step = "covering")
  BY <1>2
<1>4. j = job[p]
  OBVIOUS
<1> HIDE DEF j, digest, step
<1>5. Becomes(new, j, digest, j.wt, j.bins, j.early, j.ref, j.head, j.served, j.puts)
  BY <1>2, SetDigest
<1> HIDE DEF new
<1>6. HeldInv(step, new) /\ new.cmd = j.cmd /\ new.scope = j.scope
  BY <1>2, <1>3, <1>5 DEF HeldInv, Becomes
<1> QED BY <1>1, <1>3, <1>4, <1>6, KeptInner

LEMMA KeptFindReference ==
  ASSUME TypeInv, KeptInv, NEW p \in Procs, FindReference(p)
  PROVE  KeptInv' /\ Inner(p)
<1> DEFINE j == job[p]  doc == IF j.reuse THEN Reference(j.base, j.scope) ELSE None
           new == [j EXCEPT !.ref = doc]  step == IF doc = None THEN "worktree" ELSE "head"
<1>1. pc[p] = "reference" /\ Goto(p, step, new) /\ UNCHANGED <<repo, runs, started>>
  BY DEF FindReference
<1>2. HeldInv("reference", j) /\ j \in Jobs /\ StoredRuns /\ j.scope \in Scopes
  BY <1>1, AtHeld
<1>3. doc # None => Sound(doc, j.scope)
  BY <1>2, FoundSound
<1>4. doc \in Run \cup {None}
  BY <1>2, LoadedIs
<1>5. step \in {"worktree", "head"} /\ (step = "head" => doc # None) /\ j = job[p]
  OBVIOUS
<1> HIDE DEF j, doc, step
<1>6. Becomes(new, j, j.digest, j.wt, j.bins, j.early, doc, j.head, j.served, j.puts)
  BY <1>2, <1>4, SetRef
<1> HIDE DEF new
<1>7. HeldInv(step, new) /\ new.cmd = j.cmd /\ new.scope = j.scope
  BY <1>2, <1>3, <1>5, <1>6 DEF HeldInv, Becomes
<1> QED BY <1>1, <1>5, <1>7, KeptInner

LEMMA KeptWorktree ==
  ASSUME TypeInv, KeptInv, NEW p \in Procs, NEW named \in BOOLEAN, Worktree(p, named)
  PROVE  KeptInv' /\ Inner(p)
<1> DEFINE j == job[p]  head == Bin[tree]  base == Bin[commits[MergeBase]]
           doc == IF named /\ j.reuse THEN Reference(base, j.scope) ELSE None
           step == IF named /\ head = base THEN "identical" ELSE IF doc # None THEN "head" ELSE "rounds"
           bins == IF named THEN [head |-> head, base |-> base] ELSE None
           found == IF doc = None \/ head = base THEN None ELSE Narrowed(doc, j.scope)
           new == [j EXCEPT !.wt = MergeBase, !.bins = bins, !.ref = found]
<1>1. pc[p] = "worktree" /\ Goto(p, step, new) /\ UNCHANGED <<repo, runs, started>>
  BY DEF Worktree
<1>2. HeldInv("worktree", j) /\ j \in Jobs /\ StoredRuns /\ j.scope \in Scopes
  BY <1>1, AtHeld
<1>3. /\ MergeBase \in 1..MaxCommits \cup {None} /\ head \in Binaries /\ base \in Binaries
  <2>1. MergeBase \in 1..Len(commits) /\ Len(commits) \in 1..MaxCommits
    BY <1>1, AtStep
  <2>2. MergeBase \in 1..MaxCommits
    BY <2>1, BoundAssumption
  <2> QED BY <1>1, <2>1, <2>2, AtStep
<1>4. doc # None => Sound(doc, j.scope)
  BY <1>2, FoundSound
<1>5. doc \in Run \cup {None}
  BY <1>2, LoadedIs
<1>6. bins \in Pair \cup {None}
  BY <1>3 DEF Pair
<1>7. step \in {"identical", "head", "rounds"}
      /\ (step = "head" => doc # None /\ found = Narrowed(doc, j.scope))
  <2>1. CASE named /\ head = base  BY <2>1
  <2>2. CASE ~(named /\ head = base) /\ doc # None
    <3>1. named  BY <2>2
    <3> QED BY <2>2, <3>1
  <2>3. CASE ~(named /\ head = base) /\ doc = None  BY <2>3
  <2> QED BY <2>1, <2>2, <2>3
<1>8. found \in Run \cup {None} /\ (step = "head" => Sound(found, j.scope))
  <2> HIDE DEF doc, step
  <2>1. doc # None => Sound(Narrowed(doc, j.scope), j.scope)
    BY <1>2, <1>4, NarrowedSound
  <2> QED BY <1>7, <2>1 DEF Sound
<1>9. j = job[p]
  OBVIOUS
<1> HIDE DEF step, bins, found, j
<1>10. Becomes(new, j, j.digest, MergeBase, bins, j.early, found, j.head, j.served, j.puts)
  BY <1>2, <1>3, <1>6, <1>8, SetWorktree
<1> HIDE DEF new
<1>11. HeldInv(step, new) /\ new.cmd = j.cmd /\ new.scope = j.scope
  BY <1>2, <1>7, <1>8, <1>10 DEF HeldInv, Becomes
<1> QED BY <1>1, <1>7, <1>9, <1>11, KeptInner

(* What an invocation holds once it has its answer.                           *)
Answered(j, ref_, run, served, puts) ==
  /\ Final(run, j.scope) /\ (served => ~Failed(run))
  /\ \A n \in 1..Len(puts) : PutSound(puts[n], j.scope)
  /\ j.cmd = "measure" => run.counted
  /\ j.cmd = "gate" => ref_ = run \/ (run.counted /\ Sound(ref_, j.scope))

LEMMA HeldDecided ==
  ASSUME NEW j, NEW step, HeldInv(step, j), step # "put",
         NEW run, NEW ref_, NEW puts, NEW served, NEW new,
         Becomes(new, j, j.digest, j.wt, j.bins, j.early, ref_, run, served, puts),
         Answered(j, ref_, run, served, puts)
  PROVE  HeldInv("put", new) /\ new.cmd = j.cmd /\ new.scope = j.scope
BY DEF HeldInv, Becomes, Answered

LEMMA KeptHeadRun ==
  ASSUME TypeInv, KeptInv, NEW p \in Procs, HeadRun(p)
  PROVE  KeptInv' /\ Inner(p)
<1> DEFINE j == job[p]  id == IF Clean THEN at ELSE j.digest
           doc == IF id = None THEN None ELSE Load(Key(id, j.scope))
           digests == Digests(j.digest)
<1>1. pc[p] = "head" /\ UNCHANGED <<repo, runs, started>>
  BY DEF HeadRun
<1>2. HeldInv("head", j) /\ j \in Jobs /\ StoredRuns /\ Bin[tree] \in Binaries /\ j.scope \in Scopes
  BY <1>1, AtHeld
<1>3. digests \in Seq(Binaries)
  BY <1>2, JobFields, DigestsIs
<1>4. Sound(j.ref, j.scope) /\ j.cmd # "measure" /\ ~j.served
  BY <1>2 DEF HeldInv
<1>5. j = job[p]
  OBVIOUS
<1>6. CASE Usable(doc) /\ Goto(p, "put", [j EXCEPT !.head = doc, !.served = TRUE,
                                          !.puts = HeadPuts(doc, digests)])
  <2> DEFINE puts == HeadPuts(doc, digests)
             new == [j EXCEPT !.head = doc, !.served = TRUE, !.puts = puts]
             key == Key(id, j.scope)
  <2>1. doc # None /\ doc.stamped /\ id # None  BY <1>6 DEF Usable, Readable
  <2>2. key \in DOMAIN runs /\ doc = runs[key] /\ InScope(key) = InScope(j.scope)
    BY <2>1 DEF Load, Key, InScope
  <2>3. doc \in Run /\ Worth(doc, key) /\ Own(doc)
    BY <1>2, <2>2 DEF KeptInv, StoredRuns
  <2>4. Sound(doc, j.scope) /\ ~Failed(doc)
    BY <2>1, <2>2, <2>3 DEF Worth, Counted, Sound
  <2> HIDE DEF j, doc, digests, id
  <2>5. puts \in Seq(PutOf) /\ \A n \in 1..Len(puts) : PutSound(puts[n], j.scope)
    BY <1>3, <2>3, <2>4, HeadPutsIs, HeadPutsSound
  <2>6. Goto(p, "put", new)  BY <1>6
  <2> HIDE DEF puts
  <2>7. Becomes(new, j, j.digest, j.wt, j.bins, j.early, j.ref, doc, TRUE, puts)
    BY <1>2, <2>3, <2>5, SetServed
  <2> HIDE DEF new
  <2>8. Final(doc, j.scope) /\ doc.counted  BY <2>4, SoundFinal
  <2>9. Answered(j, j.ref, doc, TRUE, puts)
    BY <1>2, <1>4, <2>4, <2>5, <2>7, <2>8 DEF Answered
  <2>10. HeldInv("put", new) /\ new.cmd = j.cmd /\ new.scope = j.scope
    BY <1>2, <2>7, <2>9 DEF HeldInv, Becomes, Answered
  <2> QED BY <1>1, <1>5, <2>6, <2>10, KeptInner
<1>7. ASSUME NEW run \in Pass(Bin[tree], j.scope, TRUE), NEW kept \in Settled(run),
             Goto(p, "put", [j EXCEPT !.head = run, !.puts = HeadPuts(kept, digests)])
      PROVE  KeptInv' /\ Inner(p)
  <2> DEFINE puts == HeadPuts(kept, digests)
             new == [j EXCEPT !.head = run, !.puts = puts]
  <2>1. run \in Run /\ Final(run, j.scope) /\ Sound(run, j.scope) /\ run.counted
    BY <1>2, <1>7, PassSound
  <2>2. kept \in {run, None}  BY <1>7, <2>1, SettledIs
  <2>3. kept \in Run \cup {None} /\ (kept # None => Sound(kept, j.scope))
    BY <2>1, <2>2
  <2> HIDE DEF j, digests
  <2>4. puts \in Seq(PutOf) /\ \A n \in 1..Len(puts) : PutSound(puts[n], j.scope)
    BY <1>3, <2>3, HeadPutsIs, HeadPutsSound
  <2>5. Goto(p, "put", new)  BY <1>7
  <2> HIDE DEF puts
  <2>6. Becomes(new, j, j.digest, j.wt, j.bins, j.early, j.ref, run, j.served, puts)
    BY <1>2, <2>1, <2>4, SetPuts
  <2> HIDE DEF new
  <2>7. Answered(j, j.ref, run, j.served, puts)
    BY <1>2, <1>4, <2>1, <2>4, <2>6 DEF Answered
  <2>8. HeldInv("put", new) /\ new.cmd = j.cmd /\ new.scope = j.scope
    BY <1>2, <2>6, <2>7, HeldDecided
  <2> QED BY <1>1, <1>5, <2>5, <2>8, KeptInner
<1> QED BY <1>6, <1>7 DEF HeadRun

LEMMA KeptMeasureFull ==
  ASSUME TypeInv, KeptInv, NEW p \in Procs, MeasureFull(p)
  PROVE  KeptInv' /\ Inner(p)
<1> DEFINE j == job[p]  digests == Digests(j.digest)
<1>1. pc[p] = "full" /\ UNCHANGED <<repo, runs, started>>
  BY DEF MeasureFull
<1>2. HeldInv("full", j) /\ j \in Jobs /\ Bin[tree] \in Binaries /\ j.scope \in Scopes
  BY <1>1, AtHeld
<1>3. digests \in Seq(Binaries)
  BY <1>2, JobFields, DigestsIs
<1>4. PICK run \in Pass(Bin[tree], j.scope, TRUE) : \E kept \in Settled(run) :
        Goto(p, "put", [j EXCEPT !.head = run, !.puts = HeadPuts(kept, digests)])
  BY DEF MeasureFull
<1>5. PICK kept \in Settled(run) :
        Goto(p, "put", [j EXCEPT !.head = run, !.puts = HeadPuts(kept, digests)])
  BY <1>4
<1> DEFINE puts == HeadPuts(kept, digests)
           new == [j EXCEPT !.head = run, !.puts = puts]
<1>6. run \in Run /\ Final(run, j.scope) /\ Sound(run, j.scope) /\ run.counted
  BY <1>2, PassSound
<1>7. kept \in Run \cup {None} /\ (kept # None => Sound(kept, j.scope))
  BY <1>6, SettledIs
<1>8. Goto(p, "put", new) /\ j = job[p]
  BY <1>5
<1> HIDE DEF j, digests
<1>9. puts \in Seq(PutOf) /\ \A n \in 1..Len(puts) : PutSound(puts[n], j.scope)
  BY <1>3, <1>7, HeadPutsIs, HeadPutsSound
<1> HIDE DEF puts
<1>10. Becomes(new, j, j.digest, j.wt, j.bins, j.early, j.ref, run, j.served, puts)
  BY <1>2, <1>6, <1>9, SetPuts
<1> HIDE DEF new
<1>11. ~j.served /\ j.cmd # "gate"
  BY <1>2 DEF HeldInv
<1>12. Answered(j, j.ref, run, j.served, puts)
  BY <1>2, <1>6, <1>9, <1>10, <1>11 DEF Answered
<1>13. HeldInv("put", new) /\ new.cmd = j.cmd /\ new.scope = j.scope
  BY <1>2, <1>10, <1>12, HeldDecided
<1> QED BY <1>1, <1>8, <1>13, KeptInner

LEMMA KeptMeasure ==
  ASSUME TypeInv, KeptInv, NEW p \in Procs, Measure(p)
  PROVE  KeptInv' /\ Inner(p)
<1> DEFINE j == job[p]  b == j.digest  s == j.scope
           doc == IF j.reuse /\ Gating = "callgrind" /\ b # None
                  THEN Covering(b, s, Expected(b, s)) ELSE None
<1>1. pc[p] = "covering" /\ UNCHANGED <<repo, runs, started>>
  BY DEF Measure
<1>2. HeldInv("covering", j) /\ j \in Jobs /\ StoredRuns /\ Bin[tree] \in Binaries /\ s \in Scopes
  BY <1>1, AtHeld
<1>3. CASE Goto(p, "full", j)
  <2>1. HeldInv("full", j)  BY <1>2 DEF HeldInv
  <2> QED BY <1>1, <1>3, <2>1, KeptInner
<1>4. ASSUME NEW timing \in Pass(Bin[tree], s, FALSE), doc # None,
             LET merged == MergeStored(doc, timing, Expected(b, s)) IN
             Goto(p, IF merged = None THEN "full" ELSE "put", [j EXCEPT !.head = merged])
      PROVE  KeptInv' /\ Inner(p)
  <2> DEFINE merged == MergeStored(doc, timing, Expected(b, s))
             step == IF merged = None THEN "full" ELSE "put"
             new == [j EXCEPT !.head = merged]
  <2>1. Goto(p, step, new) /\ j = job[p] /\ s = j.scope  BY <1>4
  <2>2. doc = Covering(b, s, Expected(b, s))  BY <1>4
  <2>3. doc \in Run  BY <1>2, <1>4, <2>2, FoundSound DEF Sound
  <2>4. timing \in Run /\ Final(timing, s)  BY <1>2, <1>4, PassSound
  <2> HIDE DEF doc, b
  <2>5. merged # None => merged \in Run /\ merged.counted /\ Final(merged, s)
    BY <2>3, <2>4, MergedFinal
  <2>6. merged \in Run \cup {None}  BY <2>5
  <2> HIDE DEF merged, j, s
  <2>7. Becomes(new, j, j.digest, j.wt, j.bins, j.early, j.ref, merged, j.served, j.puts)
    BY <1>2, <2>6, SetHead
  <2> HIDE DEF new
  <2>8. CASE merged = None
    <3>1. HeldInv("full", new) /\ new.cmd = j.cmd /\ new.scope = j.scope
      BY <1>2, <2>7 DEF HeldInv, Becomes
    <3> QED BY <1>1, <2>1, <2>8, <3>1, KeptInner
  <2>9. CASE merged # None
    <3>1. ~j.served /\ j.puts = <<>> /\ j.cmd = "measure"  BY <1>2 DEF HeldInv
    <3>2. \A n \in 1..Len(j.puts) : PutSound(j.puts[n], j.scope)  BY <3>1
    <3>3. Answered(j, j.ref, merged, j.served, j.puts)
      BY <1>2, <2>1, <2>5, <2>7, <2>9, <3>1, <3>2 DEF Answered
    <3>4. HeldInv("put", new) /\ new.cmd = j.cmd /\ new.scope = j.scope
      BY <1>2, <2>7, <3>3, HeldDecided
    <3> QED BY <1>1, <2>1, <2>9, <3>4, KeptInner
  <2> QED BY <2>8, <2>9
<1> QED BY <1>3, <1>4 DEF Measure

LEMMA KeptIdentical ==
  ASSUME TypeInv, KeptInv, NEW p \in Procs, NEW planned \in BOOLEAN, NEW counting \in BOOLEAN,
         Identical(p, planned, counting)
  PROVE  KeptInv' /\ Inner(p)
<1> DEFINE j == job[p]  b == j.bins.head
           early == IF j.record /\ j.reuse THEN Covering(b, j.scope, Expected(b, j.scope)) ELSE None
           counted == planned \/ counting \/ (j.record /\ early = None)
<1>1. pc[p] = "identical" /\ UNCHANGED <<repo, runs, started>>
  BY DEF Identical
<1>2. HeldInv("identical", j) /\ j \in Jobs /\ StoredRuns /\ Bin[tree] \in Binaries /\ j.scope \in Scopes
  BY <1>1, AtHeld
<1>3. j.record \in BOOLEAN
  BY <1>2, JobFields
<1>4. early \in Run \cup {None}
  BY <1>2, LoadedIs
<1>5. early # None => Sound(early, j.scope)
  BY <1>2, FoundSound
<1>6. PICK run \in Pass(Bin[tree], j.scope, counted) :
        Goto(p, "judge", [j EXCEPT !.head = run, !.early = early])
  BY DEF Identical
<1> DEFINE new == [j EXCEPT !.head = run, !.early = early]
<1>7. counted \in BOOLEAN /\ j = job[p]
  BY <1>3
<1> HIDE DEF counted, early, j
<1>8. IsPass(run, Bin[tree], j.scope, counted)
  BY <1>2, <1>6, <1>7, PassIs
<1>9. run \in Run /\ run \in Pass(Bin[tree], j.scope, run.counted)
  BY <1>6, <1>8 DEF IsPass
<1>10. Goto(p, "judge", new)
  BY <1>6
<1>11. Becomes(new, j, j.digest, j.wt, j.bins, early, j.ref, run, j.served, j.puts)
  BY <1>2, <1>4, <1>9, SetEarly
<1> HIDE DEF new
<1>12. HeldInv("judge", new) /\ new.cmd = j.cmd /\ new.scope = j.scope
  BY <1>2, <1>5, <1>9, <1>11 DEF HeldInv, Becomes
<1> QED BY <1>1, <1>7, <1>10, <1>12, KeptInner

LEMMA KeptSides ==
  ASSUME TypeInv, KeptInv, NEW p \in Procs, pc[p] = "judge", UNCHANGED <<repo, runs, started>>,
         NEW run \in Run, Final(run, job[p].scope), NEW kept \in Run \cup {None},
         kept # None => Sound(kept, job[p].scope),
         Goto(p, "put", [job[p] EXCEPT !.head = run, !.ref = run,
                         !.puts = HeadPuts(kept, Digests(job[p].digest))])
  PROVE  KeptInv' /\ Inner(p)
<1> DEFINE j == job[p]  digests == Digests(j.digest)  puts == HeadPuts(kept, digests)
           new == [j EXCEPT !.head = run, !.ref = run, !.puts = puts]
<1>1. HeldInv("judge", j) /\ j \in Jobs
  BY AtHeld
<1>2. digests \in Seq(Binaries)
  BY <1>1, JobFields, DigestsIs
<1>3. Goto(p, "put", new) /\ j = job[p]
  OBVIOUS
<1> HIDE DEF digests
<1>4. puts \in Seq(PutOf) /\ \A n \in 1..Len(puts) : PutSound(puts[n], j.scope)
  BY <1>2, HeadPutsIs, HeadPutsSound
<1>5. Final(run, j.scope)
  OBVIOUS
<1> HIDE DEF j, puts
<1>6. Becomes(new, j, j.digest, j.wt, j.bins, j.early, run, run, j.served, puts)
  BY <1>1, <1>4, SetSides
<1> HIDE DEF new
<1>7. ~j.served /\ j.cmd # "measure"
  BY <1>1 DEF HeldInv
<1>8. Answered(j, run, run, j.served, puts)
  BY <1>1, <1>4, <1>5, <1>6, <1>7 DEF Answered
<1>9. HeldInv("put", new) /\ new.cmd = j.cmd /\ new.scope = j.scope
  BY <1>1, <1>6, <1>8, HeldDecided
<1> QED BY <1>3, <1>9, KeptInner

LEMMA KeptJudge ==
  ASSUME TypeInv, KeptInv, NEW p \in Procs, Judge(p)
  PROVE  KeptInv' /\ Inner(p)
<1> DEFINE j == job[p]  pass == j.head  b == j.bins.head  s == j.scope
           covering == IF pass.counted THEN None
                       ELSE IF j.early # None THEN j.early
                       ELSE IF j.reuse THEN Covering(b, s, Expected(b, s)) ELSE None
           merged == IF covering = None THEN None ELSE MergeStored(covering, pass, Expected(b, s))
           digests == Digests(j.digest)
           head == IF merged = None THEN pass ELSE merged
           kept == KeptOfIdentical(pass, covering, s)
<1>1. pc[p] = "judge" /\ UNCHANGED <<repo, runs, started>>
  BY DEF Judge
<1>2. HeldInv("judge", j) /\ TypedJob("judge", j) /\ j \in Jobs /\ StoredRuns
      /\ Bin[tree] \in Binaries /\ s \in Scopes
  BY <1>1, AtHeld
<1>3. pass \in Run /\ pass.counted \in BOOLEAN
  BY <1>2 DEF TypedJob, Run
<1>4. Final(pass, s) /\ (pass.counted => Sound(pass, s))
  <2>1. PICK owner \in Binaries : pass \in Pass(owner, s, pass.counted)
    BY <1>2 DEF HeldInv
  <2> QED BY <1>2, <1>3, <2>1, PassSound
<1>5. covering # None => Sound(covering, s)
  <2>1. Covering(b, s, Expected(b, s)) # None => Sound(Covering(b, s, Expected(b, s)), s)
    BY <1>2, FoundSound
  <2>2. j.early # None => Sound(j.early, s)
    BY <1>2 DEF HeldInv
  <2>3. covering \in {None, j.early, Covering(b, s, Expected(b, s))}
    OBVIOUS
  <2> HIDE DEF covering
  <2> QED BY <2>1, <2>2, <2>3
<1>6. /\ \/ pass.counted /\ \E new \in Settled(pass) :
                Goto(p, "put", [j EXCEPT !.head = pass, !.ref = pass, !.puts = HeadPuts(new, digests)])
         \/ \E run \in Pass(Bin[tree], s, TRUE) : \E new \in Settled(run) :
                Goto(p, "put", [j EXCEPT !.head = run, !.ref = run, !.puts = HeadPuts(new, digests)])
         \/ Goto(p, "put", [j EXCEPT !.head = head, !.ref = head, !.puts = HeadPuts(kept, digests)])
  BY DEF Judge
<1>7. ASSUME NEW run, Sound(run, s), NEW new \in Settled(run),
             Goto(p, "put", [j EXCEPT !.head = run, !.ref = run, !.puts = HeadPuts(new, digests)])
      PROVE  KeptInv' /\ Inner(p)
  <2>1. run \in Run /\ Final(run, s)  BY <1>7, SoundFinal
  <2>2. new \in Run \cup {None} /\ (new # None => Sound(new, s))
    BY <1>7, <2>1, SettledIs
  <2> QED BY <1>1, <1>7, <2>1, <2>2, KeptSides
<1>8. CASE pass.counted /\ \E new \in Settled(pass) :
                Goto(p, "put", [j EXCEPT !.head = pass, !.ref = pass, !.puts = HeadPuts(new, digests)])
  BY <1>4, <1>7, <1>8
<1>9. CASE \E run \in Pass(Bin[tree], s, TRUE) : \E new \in Settled(run) :
                Goto(p, "put", [j EXCEPT !.head = run, !.ref = run, !.puts = HeadPuts(new, digests)])
  <2>1. PICK run \in Pass(Bin[tree], s, TRUE) : \E new \in Settled(run) :
          Goto(p, "put", [j EXCEPT !.head = run, !.ref = run, !.puts = HeadPuts(new, digests)])
    BY <1>9
  <2>2. Sound(run, s)  BY <1>2, PassSound
  <2> QED BY <1>7, <2>1, <2>2
<1>10. CASE Goto(p, "put", [j EXCEPT !.head = head, !.ref = head, !.puts = HeadPuts(kept, digests)])
  <2>1. covering \in Run \cup {None}
    <3> HIDE DEF covering
    <3> QED BY <1>5 DEF Sound
  <2>2. kept \in Run \cup {None} /\ (kept # None => Sound(kept, s))
    <3> HIDE DEF covering, pass
    <3>1. kept \in Run \cup {None} /\ (kept # None => covering \in Run /\ kept = Narrowed(covering, s))
      BY <1>2, <1>3, <2>1, KeptIs
    <3> HIDE DEF kept
    <3>2. ASSUME kept # None  PROVE Sound(kept, s)
      <4>1. Sound(covering, s)  BY <1>5, <3>1, <3>2, NoneAssumption
      <4> QED BY <1>2, <3>1, <3>2, <4>1, NarrowedSound
    <3> QED BY <3>1, <3>2
  <2>3. head \in Run /\ Final(head, s)
    <3> HIDE DEF covering, pass
    <3>1. merged # None => merged \in Run /\ Final(merged, s)
      <4>1. merged # None => covering \in Run /\ merged = MergeStored(covering, pass, Expected(b, s))
        BY <2>1
      <4> HIDE DEF merged
      <4> QED BY <1>3, <1>4, <4>1, MergedFinal
    <3> HIDE DEF merged
    <3> QED BY <1>3, <1>4, <3>1
  <2> HIDE DEF kept, head
  <2> QED BY <1>1, <1>10, <2>2, <2>3, KeptSides
<1> QED BY <1>6, <1>8, <1>9, <1>10

LEMMA KeptRounds ==
  ASSUME TypeInv, KeptInv, NEW p \in Procs, Rounds(p)
  PROVE  KeptInv' /\ Inner(p)
<1> DEFINE j == job[p]  bins == j.bins  named == bins # None
           baseDigests == IF named THEN <<bins.base>> ELSE <<>>
           headDigests == Digests(j.digest) \o IF named THEN <<bins.head>> ELSE <<>>
<1>1. pc[p] = "rounds" /\ UNCHANGED <<repo, runs, started>>
  BY DEF Rounds
<1>2. HeldInv("rounds", j) /\ TypedJob("rounds", j) /\ j \in Jobs /\ Bin[tree] \in Binaries
      /\ j.scope \in Scopes
  BY <1>1, AtHeld
<1>3. j.bins \in Pair \cup {None} /\ j.digest \in Binaries \cup {None} /\ j.base \in 1..MaxCommits
  BY <1>2, JobFields
<1>4. Bin[commits[j.wt]] \in Binaries
  BY <1>1, <1>2, AtStep DEF TypedJob
<1>5. PICK head \in Pass(Bin[tree], j.scope, TRUE), base \in Pass(Bin[commits[j.wt]], j.scope, TRUE) :
        \E keptHead \in Settled(head), keptBase \in Settled(base) :
          Goto(p, "put", [j EXCEPT !.head = head, !.ref = base,
            !.puts = BasePuts(keptBase, j.base, baseDigests) \o HeadPuts(keptHead, headDigests)])
  BY DEF Rounds
<1>6. PICK keptHead \in Settled(head), keptBase \in Settled(base) :
        Goto(p, "put", [j EXCEPT !.head = head, !.ref = base,
          !.puts = BasePuts(keptBase, j.base, baseDigests) \o HeadPuts(keptHead, headDigests)])
  BY <1>5
<1>7. baseDigests \in Seq(Binaries) /\ headDigests \in Seq(Binaries)
  <2>1. named => bins.base \in Binaries /\ bins.head \in Binaries  BY <1>3 DEF Pair
  <2>2. Digests(j.digest) \in Seq(Binaries)  BY <1>3, DigestsIs
  <2> QED BY <2>1, <2>2
<1>8. /\ head \in Run /\ Final(head, j.scope) /\ Sound(head, j.scope) /\ head.counted
      /\ base \in Run /\ Sound(base, j.scope)
  BY <1>2, <1>4, PassSound
<1>9. /\ keptHead \in Run \cup {None} /\ (keptHead # None => Sound(keptHead, j.scope))
      /\ keptBase \in Run \cup {None} /\ (keptBase # None => Sound(keptBase, j.scope))
  BY <1>8, SettledIs
<1> DEFINE first == BasePuts(keptBase, j.base, baseDigests)
           second == HeadPuts(keptHead, headDigests)
           puts == first \o second
           new == [j EXCEPT !.head = head, !.ref = base, !.puts = puts]
<1>10. Goto(p, "put", new) /\ j = job[p]
  BY <1>6
<1> HIDE DEF j, baseDigests, headDigests
<1>11. first \in Seq(PutOf) /\ \A n \in 1..Len(first) : PutSound(first[n], j.scope)
  BY <1>3, <1>7, <1>9, BasePutsIs, BasePutsSound
<1>12. second \in Seq(PutOf) /\ \A n \in 1..Len(second) : PutSound(second[n], j.scope)
  BY <1>7, <1>9, HeadPutsIs, HeadPutsSound
<1> HIDE DEF first, second
<1>13. puts \in Seq(PutOf) /\ \A n \in 1..Len(puts) : PutSound(puts[n], j.scope)
  BY <1>11, <1>12, ConcatPuts
<1> HIDE DEF puts
<1>14. Becomes(new, j, j.digest, j.wt, j.bins, j.early, base, head, j.served, puts)
  BY <1>2, <1>8, <1>13, SetSides
<1> HIDE DEF new
<1>15. ~j.served
  BY <1>2 DEF HeldInv
<1>16. Answered(j, base, head, j.served, puts)
  BY <1>2, <1>8, <1>13, <1>14, <1>15 DEF Answered
<1>17. HeldInv("put", new) /\ new.cmd = j.cmd /\ new.scope = j.scope
  BY <1>2, <1>14, <1>16, HeldDecided
<1> QED BY <1>1, <1>10, <1>17, KeptInner

(* Starting, storing and ending touch one invocation and perhaps one file.    *)
LEMMA KeptOuter ==
  ASSUME TypeInv, KeptInv, NEW p \in Procs, NEW step, NEW new, Goto(p, step, new),
         step # "idle" => HeldInv(step, new),
         \A k \in DOMAIN runs' : Worth(runs'[k], k) /\ Own(runs'[k])
  PROVE  KeptInv'
<1>1. \A q \in Procs : pc'[q] = (IF q = p THEN step ELSE pc[q]) /\ job'[q] = (IF q = p THEN new ELSE job[q])
  BY DEF Goto, TypeInv, TypeOK
<1>2. \A q \in Procs : pc'[q] # "idle" => HeldInv(pc'[q], job'[q])
  BY <1>1 DEF KeptInv
<1> QED BY <1>2 DEF KeptInv

LEMMA KeptStart ==
  ASSUME TypeInv, KeptInv, NEW p \in Procs, NEW asked \in Starts, Start(p, asked)
  PROVE  KeptInv'
<1> DEFINE new == [cmd |-> asked.cmd, scope |-> asked.scope, reuse |-> asked.reuse,
                   record |-> asked.record, base |-> MergeBase, digest |-> None, wt |-> None,
                   bins |-> None, early |-> None, ref |-> None, head |-> None, served |-> FALSE,
                   puts |-> <<>>]
<1>1. HeldInv("probe", new)
  BY DEF HeldInv
<1>2. Goto(p, "probe", new) /\ UNCHANGED runs
  BY DEF Start
<1>3. \A k \in DOMAIN runs' : Worth(runs'[k], k) /\ Own(runs'[k])
  BY <1>2 DEF KeptInv
<1> HIDE DEF new
<1> QED BY <1>1, <1>2, <1>3, KeptOuter

LEMMA KeptPut ==
  ASSUME TypeInv, KeptInv, NEW p \in Procs, NEW oldest, Put(p, oldest)
  PROVE  KeptInv'
<1> DEFINE j == job[p]  put == Head(j.puts)  id == NamedNow(put)  key == Key(id, j.scope)
           stored == DOMAIN runs \cup {key}  puts == Tail(j.puts)
           new == [j EXCEPT !.puts = puts]
<1>1. pc[p] = "put" /\ j.puts # <<>> /\ Goto(p, "put", new)
  BY DEF Put
<1>2. HeldInv("put", j) /\ j \in Jobs
  BY <1>1, AtHeld
<1>3. j.puts \in Seq(PutOf)
  BY <1>2, JobFields
<1>4. \A n \in 1..Len(j.puts) : PutSound(j.puts[n], j.scope)
  BY <1>2 DEF HeldInv
<1>5. put = j.puts[1] /\ 1 \in 1..Len(j.puts)
  BY <1>1, <1>3
<1>6. PutSound(put, j.scope)
  BY <1>4, <1>5
<1>7. puts \in Seq(PutOf) /\ \A n \in 1..Len(puts) : n + 1 \in 1..Len(j.puts) /\ puts[n] = j.puts[n + 1]
  BY <1>1, <1>3
<1>8. \A n \in 1..Len(puts) : PutSound(puts[n], j.scope)
  BY <1>4, <1>7
<1>9. \A k \in DOMAIN runs' : Worth(runs'[k], k) /\ Own(runs'[k])
  <2>1. CASE id = None
    <3>1. runs' = runs  BY <2>1 DEF Put
    <3> QED BY <3>1 DEF KeptInv
  <2>2. CASE id # None
    <3>1. runs' = [k \in stored \ oldest |-> IF k = key THEN put.doc ELSE runs[k]]
      BY <2>2 DEF Put
    <3>2. Worth(put.doc, key) /\ Own(put.doc)
      BY <1>6 DEF PutSound, Worth, Counted, Key, InScope
    <3> HIDE DEF put, key
    <3> SUFFICES ASSUME NEW k \in DOMAIN runs'  PROVE Worth(runs'[k], k) /\ Own(runs'[k])
      OBVIOUS
    <3>3. CASE k = key
      <4>1. runs'[k] = put.doc  BY <3>1, <3>3
      <4> QED BY <3>2, <3>3, <4>1
    <3>4. CASE k # key
      <4>1. k \in DOMAIN runs /\ runs'[k] = runs[k]  BY <3>1, <3>4
      <4> QED BY <4>1 DEF KeptInv
    <3> QED BY <3>3, <3>4
  <2> QED BY <2>1, <2>2
<1> HIDE DEF j, puts
<1>10. Becomes(new, j, j.digest, j.wt, j.bins, j.early, j.ref, j.head, j.served, puts)
  BY <1>2, <1>7, DropPut
<1> HIDE DEF new
<1>11. HeldInv("put", new)
  BY <1>2, <1>8, <1>10 DEF HeldInv, Becomes
<1> QED BY <1>1, <1>9, <1>11, KeptOuter

LEMMA KeptEnd ==
  ASSUME TypeInv, KeptInv, NEW p \in Procs, Tear(p) \/ Exit(p)
  PROVE  KeptInv'
<1>1. Goto(p, "idle", Idle)
  BY DEF Tear, Exit
<1>2. DOMAIN runs' \subseteq DOMAIN runs /\ \A k \in DOMAIN runs' : runs'[k] = runs[k]
  BY DEF Tear, Exit
<1>3. \A k \in DOMAIN runs' : Worth(runs'[k], k) /\ Own(runs'[k])
  BY <1>2 DEF KeptInv
<1> QED BY <1>1, <1>3, KeptOuter

LEMMA KeptNext ==
  ASSUME TypeInv, KeptInv, [Next]_vars
  PROVE  KeptInv'
<1>1. ASSUME UNCHANGED <<runs, pc, job>>  PROVE KeptInv'
  BY <1>1 DEF KeptInv
<1>2. Commit \/ (\E t \in Trees : Edit(t)) \/ (\E c \in 1..Len(commits) : Checkout(c) \/ Fetch(c))
      \/ UNCHANGED vars => UNCHANGED <<runs, pc, job>>
  BY DEF Commit, Edit, Checkout, Fetch, vars
<1> QED BY <1>1, <1>2, KeptStart, KeptProbe, KeptFindReference, KeptWorktree, KeptHeadRun,
           KeptIdentical, KeptJudge, KeptRounds, KeptMeasure, KeptMeasureFull, KeptPut, KeptEnd DEF Next

LEMMA KeptAlways == Spec => [](TypeInv /\ KeptInv)
<1>1. Init => KeptInv
  <2> SUFFICES ASSUME Init  PROVE KeptInv
    OBVIOUS
  <2>1. DOMAIN runs = {} /\ \A p \in Procs : pc[p] = "idle"
    BY DEF Init
  <2> QED BY <2>1 DEF KeptInv
<1>2. TypeInv /\ KeptInv /\ [Next]_vars => TypeInv' /\ KeptInv'
  BY TypedNext, KeptNext
<1> QED BY <1>1, <1>2, TypedInit, PTL DEF Spec

(* While nothing moves under the invocations, every stored run is a run of    *)
(* the binary, or of the commit's, that its key names (runcache.rs, key_with).*)
THEOREM NamedAlways == ASSUME Moves = FALSE  PROVE Spec => []RunsNamed
<1>1. TypeInv /\ CacheInv => RunsNamed
  BY DEF CacheInv, StoredInv, RunsNamed
<1> QED BY <1>1, CacheAlways, PTL

(* Every stored run has the counters of every item its key asks for, however  *)
(* it came to be stored, and even if the checkout moves while it is measured  *)
(* (headrun.rs, store_head; gate.rs, identical_doc).                          *)
THEOREM WholeAlways == Spec => []RunsWhole
<1>1. TypeInv /\ KeptInv => RunsWhole
  BY DEF KeptInv, RunsWhole, Worth, Counted
<1> QED BY <1>1, KeptAlways, PTL

LEMMA DecidedJob ==
  ASSUME CacheInv, NEW p \in Procs, Decided(p)
  PROVE  JobInv("put", job[p])
BY DEF CacheInv, Decided

(* The complexity verdicts an invocation ends with are those of the counters, *)
(* whether they come from a full run, a stored one, or a timing pass over one *)
(* (headrun.rs, merge_stored and counted_verdicts; gate.rs, identical_doc).   *)
THEOREM VerdictsAlways == ASSUME Moves = FALSE  PROVE Spec => []VerdictsCounted
<1>1. TypeInv /\ CacheInv => VerdictsCounted
  <2> SUFFICES ASSUME TypeInv, CacheInv, NEW p \in Procs, Decided(p)
               PROVE  LET head == job[p].head  asked == InScope(job[p].scope) \cap Claims[head.bin] IN
                      asked \subseteq head.claims /\ head.fails \cap asked = Breaks[head.bin] \cap asked
    BY DEF VerdictsCounted
  <2>1. Judged(job[p].head, job[p].scope)
    BY DecidedJob DEF JobInv, HeadInv
  <2> QED BY <2>1 DEF Judged
<1> QED BY <1>1, CacheAlways, PTL

(* A run read from the cache as HEAD's never carries a failed claim, even if  *)
(* the checkout moves under the invocation (headrun.rs, stamp and             *)
(* readable_as_head).                                                         *)
THEOREM FailuresAlways == Spec => []FailuresMeasured
<1>1. TypeInv /\ KeptInv => FailuresMeasured
  BY DEF KeptInv, HeldInv, FailuresMeasured, Decided
<1> QED BY <1>1, KeptAlways, PTL

(* A gate compares the checkout with the merge-base, and unless they build    *)
(* one binary both sides have the counters of every item asked for            *)
(* (gate.rs, measure_ref_interleaved; runcache.rs, reference_source).         *)
THEOREM SidesAlways == ASSUME Moves = FALSE  PROVE Spec => []SidesCompare
<1>1. TypeInv /\ CacheInv => SidesCompare
  <2> SUFFICES ASSUME TypeInv, CacheInv, NEW p \in Procs, Decided(p), job[p].cmd = "gate"
               PROVE  LET head == job[p].head  base == job[p].ref  asked == InScope(job[p].scope) IN
                      /\ head.bin = Bin[tree] /\ base.bin = Bin[commits[job[p].base]]
                      /\ head.bin = base.bin \/
                           \A run \in {head, base} : run.counted /\ asked \cap Listing[run.bin] \subseteq run.ids
    BY DEF SidesCompare
  <2> DEFINE j == job[p]
  <2>1. j.head.bin = Bin[tree] /\ j.ref.bin = Bin[commits[j.base]]
    BY DecidedJob DEF JobInv, HeadInv
  <2>2. j.head.bin # j.ref.bin => Counted(j.ref, j.scope) /\ Counted(j.head, j.scope)
    BY DecidedJob DEF JobInv, RefInv
  <2> QED BY <2>1, <2>2 DEF Counted
<1> QED BY <1>1, CacheAlways, PTL

-----------------------------------------------------------------------------
(* The promise kept: invocations over stored runs answer as RunMemo does.     *)
Wanted(j) == [cmd |-> j.cmd, items |-> InScope(j.scope)]

Told(j) ==
  [head |-> Reported(j.head, j.scope),
   base |-> IF j.cmd = "gate" THEN Reported(j.ref, j.scope) ELSE None,
   late |-> j.head.late]

(* An answer is what the two binaries give, with the counters unless they are *)
(* one.                                                                       *)
Honest(j, head, base) ==
  /\ j.head.late \in BOOLEAN /\ j.head.counted \in BOOLEAN
  /\ j.head.counted \/ (j.cmd = "gate" /\ head = base)
  /\ Told(j) =
       [head |-> Memo!Side(head, InScope(j.scope), j.head.counted),
        base |-> IF j.cmd = "gate" THEN Memo!Side(base, InScope(j.scope), j.head.counted) ELSE None,
        late |-> j.head.late]

ToldInv == \A p \in Procs : pc[p] = "put" => Honest(job[p], Bin[tree], Bin[commits[MergeBase]])

LEMMA MemoView ==
  /\ Asking = [p \in Procs |-> IF pc[p] = "idle" THEN None ELSE Wanted(job[p])]
  /\ Answers = [p \in Procs |-> IF pc[p] = "put" THEN Told(job[p]) ELSE None]
BY DEF Asking, Answers, Wanted, Told, Decided

LEMMA WantedIs ==
  ASSUME NEW cmd \in {"measure", "gate"}, NEW s \in Scopes, NEW j, j.cmd = cmd, j.scope = s
  PROVE  Wanted(j) \in Memo!Requests /\ Wanted(j) # None
<1>1. InScope(s) \subseteq Items
  BY ScopeAssumption DEF InScope, Scopes
<1>2. Wanted(j) \in Memo!Requests
  BY <1>1 DEF Wanted, Memo!Requests
<1> QED BY <1>2, NoneAssumption DEF Memo!Requests

(* A run that answers for a scope with the counters' verdicts reports what    *)
(* its binary gives.                                                         *)
LEMMA ReportedIs ==
  ASSUME NEW run, NEW s, Final(run, s), Judged(run, s)
  PROVE  Reported(run, s) = Memo!Side(run.bin, InScope(s), run.counted)
<1>1. run.bin \in Binaries
  BY DEF Final, Run
<1>2. Breaks[run.bin] \subseteq Claims[run.bin]
  BY <1>1, BinaryAssumption
<1>3. InScope(s) \cap run.ids = InScope(s) \cap Listing[run.bin]
  BY DEF Final, Own
<1>4. InScope(s) \cap run.fails = InScope(s) \cap Breaks[run.bin]
  BY <1>2 DEF Final, Own, Judged
<1> QED BY <1>3, <1>4 DEF Reported, Memo!Side

LEMMA HonestReplies ==
  ASSUME NEW j, Honest(j, Memo!HeadBinary, Memo!BaseBinary)
  PROVE  Told(j) \in Memo!Replies(Wanted(j))
<1> DEFINE request == Wanted(j)
           counts == IF request.cmd = "gate" /\ Memo!HeadBinary = Memo!BaseBinary THEN BOOLEAN ELSE {TRUE}
           reply(l, n) ==
             [head |-> Memo!Side(Memo!HeadBinary, request.items, n),
              base |-> IF request.cmd = "gate" THEN Memo!Side(Memo!BaseBinary, request.items, n) ELSE None,
              late |-> l]
<1>1. request.cmd = j.cmd /\ request.items = InScope(j.scope)
  BY DEF Wanted
<1>2. Memo!Replies(request) = {reply(l, n) : l \in BOOLEAN, n \in counts}
  BY DEF Memo!Replies
<1>3. j.head.counted \in counts /\ j.head.late \in BOOLEAN
  BY <1>1 DEF Honest
<1>4. Told(j) = reply(j.head.late, j.head.counted)
  BY <1>1 DEF Honest
<1> HIDE DEF counts, reply
<1> QED BY <1>2, <1>3, <1>4

LEMMA AnswersTold == TypeInv /\ CacheInv /\ KeptInv => ToldInv
<1> SUFFICES ASSUME TypeInv, CacheInv, KeptInv, NEW p \in Procs, pc[p] = "put"
             PROVE  Honest(job[p], Bin[tree], Bin[commits[MergeBase]])
  BY DEF ToldInv
<1> DEFINE j == job[p]  s == j.scope  head == j.head  base == j.ref
           b == Bin[tree]  c == Bin[commits[MergeBase]]
<1>1. HeldInv("put", j) /\ JobInv("put", j) /\ j.cmd \in {"measure", "gate"}
  BY AtHeld, AtJob
<1>2. head.bin = b /\ Judged(head, s) /\ Final(head, s)
  BY <1>1 DEF HeldInv, JobInv, HeadInv
<1>3. head.late \in BOOLEAN /\ head.counted \in BOOLEAN
  BY <1>2 DEF Final, Run
<1>4. Reported(head, s) = Memo!Side(b, InScope(s), head.counted)
  BY <1>2, ReportedIs
<1>5. j.cmd = "gate" => base.bin = c
  BY <1>1 DEF JobInv
<1>6. CASE j.cmd = "measure"
  <2>1. head.counted  BY <1>1, <1>6 DEF HeldInv
  <2>2. j.cmd # "gate"  BY <1>6
  <2> HIDE DEF head
  <2> QED BY <1>3, <1>4, <2>1, <2>2 DEF Told, Honest, head
<1>7. CASE j.cmd = "gate" /\ base = head
  <2>1. b = c  BY <1>2, <1>5, <1>7
  <2> QED BY <1>3, <1>4, <1>7, <2>1 DEF Told, Honest
<1>8. CASE j.cmd = "gate" /\ head.counted /\ Sound(base, s)
  <2>1. base.counted /\ Final(base, s) /\ Judged(base, s)
    BY <1>8, SoundFinal DEF Sound, Counted, Judged
  <2>2. base.counted = head.counted  BY <1>3, <1>8, <2>1 DEF Final, Run
  <2>3. Reported(base, s) = Memo!Side(c, InScope(s), head.counted)
    BY <1>5, <1>8, <2>1, <2>2, ReportedIs
  <2> QED BY <1>3, <1>4, <1>8, <2>3 DEF Told, Honest
<1> QED BY <1>1, <1>6, <1>7, <1>8 DEF HeldInv

-----------------------------------------------------------------------------
(* Starting an invocation asks.                                              *)
LEMMA MemoStart ==
  ASSUME TypeInv, NEW p \in Procs, NEW asked \in Starts, Start(p, asked)
  PROVE  Memo!Ask(p)
<1> DEFINE j == job'[p]
<1>1. pc[p] = "idle" /\ UNCHANGED repo /\ pc'[p] = "probe" /\ j.cmd = asked.cmd /\ j.scope = asked.scope
      /\ \A q \in Procs : q # p => pc'[q] = pc[q] /\ job'[q] = job[q]
  BY DEF Start, Goto, TypeInv, TypeOK
<1>2. asked.cmd \in {"measure", "gate"} /\ asked.scope \in Scopes
  BY StartsAssumption DEF Invocations
<1>3. Wanted(j) \in Memo!Requests
  BY <1>1, <1>2, WantedIs
<1>4. Asking[p] = None /\ Asking' = [Asking EXCEPT ![p] = Wanted(j)]
  BY <1>1, MemoView DEF Asking, Wanted
<1>5. Answers' = Answers
  BY <1>1 DEF Answers, Decided
<1> QED BY <1>1, <1>3, <1>4, <1>5 DEF Memo!Ask, repo

(* Its last step before the answer is in gives it; the others show nothing.   *)
LEMMA MemoInner ==
  ASSUME TypeInv, NEW p \in Procs, Inner(p), ToldInv'
  PROVE  Memo!Answer(p) \/ UNCHANGED Memo!vars
<1>1. /\ commits' = commits /\ at' = at /\ ref' = ref /\ tree' = tree
      /\ pc[p] \notin {"idle", "put"} /\ pc'[p] # "idle"
      /\ job'[p].cmd = job[p].cmd /\ job'[p].scope = job[p].scope
      /\ \A q \in Procs : q # p => pc'[q] = pc[q] /\ job'[q] = job[q]
  BY DEF Inner, repo
<1>2. Asking' = Asking
  BY <1>1 DEF Asking
<1>3. CASE pc'[p] # "put"
  <2>1. Answers' = Answers
    BY <1>1, <1>3 DEF Answers, Decided
  <2> QED BY <1>1, <1>2, <2>1 DEF Memo!vars
<1>4. CASE pc'[p] = "put"
  <2>1. job[p].cmd \in {"measure", "gate"} /\ job[p].scope \in Scopes
    BY <1>1, AtStep, JobFields DEF Jobs
  <2>2. Asking[p] = Wanted(job[p]) /\ Asking[p] # None /\ Answers[p] = None
    BY <1>1, <2>1, WantedIs DEF Asking, Answers, Decided, Wanted
  <2>3. Wanted(job'[p]) = Asking[p]
    BY <1>1, <2>2 DEF Wanted
  <2>4. Told(job'[p]) \in Memo!Replies(Asking[p])
    <3>1. Memo!HeadBinary = Bin[tree] /\ Memo!BaseBinary = Bin[commits[MergeBase]]
      BY DEF Memo!HeadBinary, Memo!BaseBinary, MergeBase
    <3>2. Honest(job'[p], Bin[tree], Bin[commits[MergeBase]])
      BY <1>1, <1>4 DEF ToldInv, MergeBase
    <3> QED BY <2>3, <3>1, <3>2, HonestReplies
  <2>5. Answers'[p] = Told(job'[p]) /\ Answers' = [Answers EXCEPT ![p] = Answers'[p]]
    BY <1>1, <1>4 DEF Answers, Decided, Told
  <2> QED BY <1>1, <1>2, <2>2, <2>4, <2>5 DEF Memo!Answer
<1> QED BY <1>3, <1>4

(* Storing what was measured shows nothing.                                   *)
LEMMA MemoPut ==
  ASSUME TypeInv, NEW p \in Procs, NEW oldest, Put(p, oldest)
  PROVE  UNCHANGED Memo!vars
<1> DEFINE puts == Tail(job[p].puts)  new == [job[p] EXCEPT !.puts = puts]
<1>1. pc[p] = "put" /\ job[p].puts # <<>> /\ Goto(p, "put", new) /\ UNCHANGED repo
  BY DEF Put
<1>2. job[p] \in Jobs /\ puts \in Seq(PutOf)
  <2>1. job[p] \in Jobs  BY <1>1, AtStep
  <2>2. job[p].puts \in Seq(PutOf)  BY <2>1, JobFields
  <2> QED BY <1>1, <2>1, <2>2
<1> HIDE DEF puts
<1>3. new.cmd = job[p].cmd /\ new.scope = job[p].scope /\ new.head = job[p].head /\ new.ref = job[p].ref
  BY <1>2, DropPut DEF Becomes
<1> HIDE DEF new
<1>4. \A q \in Procs : pc'[q] = pc[q] /\ job'[q] = (IF q = p THEN new ELSE job[q])
  BY <1>1 DEF Goto, TypeInv, TypeOK
<1>5. Asking' = Asking /\ Answers' = Answers
  BY <1>3, <1>4 DEF Asking, Answers, Decided
<1> QED BY <1>1, <1>5 DEF Memo!vars, repo

(* Ending, or dying while storing, leaves.                                    *)
LEMMA MemoEnd ==
  ASSUME TypeInv, NEW p \in Procs, Tear(p) \/ Exit(p)
  PROVE  Memo!Leave(p)
<1>1. pc[p] # "idle" /\ UNCHANGED repo /\ pc'[p] = "idle"
      /\ \A q \in Procs : q # p => pc'[q] = pc[q] /\ job'[q] = job[q]
  BY DEF Tear, Exit, Goto, TypeInv, TypeOK
<1>2. job[p].cmd \in {"measure", "gate"} /\ job[p].scope \in Scopes
  BY <1>1, AtStep, JobFields DEF Jobs
<1>3. Asking[p] # None
  BY <1>1, <1>2, WantedIs DEF Asking, Wanted
<1>4. Asking' = [Asking EXCEPT ![p] = None] /\ Answers' = [Answers EXCEPT ![p] = None]
  BY <1>1 DEF Asking, Answers, Decided
<1> QED BY <1>1, <1>3, <1>4 DEF Memo!Leave, repo

(* While nothing is under way, the repository moves.                          *)
LEMMA MemoRepo ==
  ASSUME Moves = FALSE, TypeInv,
         Commit \/ (\E t \in Trees : Edit(t)) \/ (\E c \in 1..Len(commits) : Checkout(c) \/ Fetch(c))
  PROVE  Memo!Move
<1>1. commits \in Seq(Trees) /\ Len(commits) \in Nat /\ at \in 1..Len(commits) /\ ref \in 1..Len(commits)
      /\ tree \in Trees
  BY BoundAssumption DEF TypeInv, TypeOK
<1>2. UNCHANGED <<pc, job>> /\ \A p \in Procs : pc[p] = "idle"
  BY DEF Commit, Edit, Checkout, Fetch, Quiet
<1>3. Asking' = Asking /\ Answers' = Answers /\ \A p \in Procs : Asking[p] = None
  BY <1>2 DEF Asking, Answers, Decided
<1>4. /\ commits' \in {commits, Append(commits, tree)}
      /\ at' \in 1..Len(commits') /\ ref' \in 1..Len(commits') /\ tree' \in Trees
  <2>1. CASE Commit  BY <1>1, <2>1 DEF Commit
  <2>2. ASSUME NEW t \in Trees, Edit(t)
        PROVE  /\ commits' \in {commits, Append(commits, tree)}
               /\ at' \in 1..Len(commits') /\ ref' \in 1..Len(commits') /\ tree' \in Trees
    BY <1>1, <2>2 DEF Edit
  <2>3. ASSUME NEW c \in 1..Len(commits), Checkout(c) \/ Fetch(c)
        PROVE  /\ commits' \in {commits, Append(commits, tree)}
               /\ at' \in 1..Len(commits') /\ ref' \in 1..Len(commits') /\ tree' \in Trees
    BY <1>1, <2>3 DEF Checkout, Fetch
  <2> QED BY <2>1, <2>2, <2>3
<1> QED BY <1>3, <1>4 DEF Memo!Move

LEMMA MemoNext ==
  ASSUME Moves = FALSE, TypeInv, KeptInv, ToldInv', [Next]_vars
  PROVE  [Memo!Next]_(Memo!vars)
<1>1. CASE UNCHANGED vars
  BY <1>1 DEF vars, repo, Asking, Answers, Decided, Memo!vars
<1>2. CASE Commit \/ (\E t \in Trees : Edit(t)) \/ (\E c \in 1..Len(commits) : Checkout(c) \/ Fetch(c))
  BY <1>2, MemoRepo DEF Memo!Next
<1>3. ASSUME NEW p \in Procs, NEW asked \in Starts, Start(p, asked)  PROVE Memo!Next
  BY <1>3, MemoStart DEF Memo!Next
<1>4. ASSUME NEW p \in Procs,
             \/ \E named \in BOOLEAN : Probe(p, named) \/ Worktree(p, named)
             \/ \E planned, counting \in BOOLEAN : Identical(p, planned, counting)
             \/ FindReference(p) \/ HeadRun(p) \/ Judge(p) \/ Rounds(p) \/ Measure(p) \/ MeasureFull(p)
      PROVE  [Memo!Next]_(Memo!vars)
  <2>1. Inner(p)
    BY <1>4, KeptProbe, KeptFindReference, KeptWorktree, KeptHeadRun, KeptIdentical, KeptJudge,
       KeptRounds, KeptMeasure, KeptMeasureFull
  <2> QED BY <2>1, MemoInner DEF Memo!Next
<1>5. ASSUME NEW p \in Procs, NEW oldest, Put(p, oldest)  PROVE UNCHANGED Memo!vars
  BY <1>5, MemoPut
<1>6. ASSUME NEW p \in Procs, Tear(p) \/ Exit(p)  PROVE Memo!Next
  BY <1>6, MemoEnd DEF Memo!Next
<1> QED BY <1>1, <1>2, <1>3, <1>4, <1>5, <1>6 DEF Next

(* While nothing moves under the invocations, any number of them over stored  *)
(* runs answer what measuring answers: the same sides, items, counters and    *)
(* complexity verdicts (runcache.rs, reference_source and load_covering;      *)
(* headrun.rs, merge_stored; gate.rs, measure_ref_interleaved).               *)
THEOREM RunsImplementMemo == ASSUME Moves = FALSE  PROVE Spec => ImplementsMemo
<1>1. Init => Memo!Init
  <2> SUFFICES ASSUME Init  PROVE Memo!Init
    OBVIOUS
  <2>1. Asking = [p \in Procs |-> None] /\ Answers = [p \in Procs |-> None]
    BY DEF Init, Asking, Answers, Decided
  <2> QED BY <2>1 DEF Init, Memo!Init
<1>2. TypeInv /\ KeptInv /\ ToldInv' /\ [Next]_vars => [Memo!Next]_(Memo!vars)
  BY MemoNext
<1> QED BY <1>1, <1>2, CacheAlways, KeptAlways, AnswersTold, PTL DEF Spec, ImplementsMemo, Memo!Spec
=============================================================================
