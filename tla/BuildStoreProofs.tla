-------------------------- MODULE BuildStoreProofs --------------------------
(* What holds of BuildStore for every number of invocations, parts and      *)
(* contents: types always; entries, hits and digests as long as no edit     *)
(* lands while an entry is being written and dep-info names what the key    *)
(* hashes.                                                                  *)
EXTENDS BuildStore, TLAPS

(* What an invocation has in hand at each stage.                            *)
InHand ==
  \A p \in Procs :
    /\ pc[p] # "idle" => key[p] # None
    /\ pc[p] \in {"copy", "manifest", "group", "link", "newest"} => name[p] # None
    /\ pc[p] \notin {"idle", "planned", "build"} => path[p] # None
    /\ pc[p] = "attach" => digest[p] # None

(* Only the holder of cargo's lock has read anything.                       *)
LockedReads ==
  \A p \in Procs, x \in Parts : seen[p][x] # None => pc[p] = "build" /\ cargo = p

(* `x' is the same in the tree, in cargo's executable and in whatever a     *)
(* build under way has read of it.                                          *)
Settled(x) ==
  /\ exe # None /\ exe[x] = tree[x]
  /\ \A q \in Procs : seen[q][x] # None => seen[q][x] = tree[x]

(* What has not been modified since a build started is as the build read    *)
(* it, and once the build is over it is settled until the check.            *)
ReadsFresh ==
  \A p \in Procs, x \in Parts :
    x \notin touched[p] =>
      /\ pc[p] = "build" /\ seen[p][x] # None => seen[p][x] = tree[x]
      /\ pc[p] = "keep" => Settled(x)

(* From the check to the copy the inputs are settled, the tree has the      *)
(* plan's key, and the entry is named for both.                             *)
WindowSettled ==
  \A p \in Procs :
    pc[p] \in Writing =>
      /\ \A x \in InInputs : Settled(x)
      /\ key[p] = Restrict(tree, InKey)
      /\ pc[p] = "copy" => name[p] = EntryFor(key[p], tree)

Basic == TypeOK /\ InHand /\ LockedReads
Fresh == ReadsFresh /\ WindowSettled

-----------------------------------------------------------------------------
(* A part of a tree is a function on those parts.                           *)
LEMMA RestrictType ==
  ASSUME NEW t \in Trees, NEW S \in SUBSET Parts
  PROVE  /\ Restrict(t, S) \in [S -> Contents]
         /\ \A x \in S : Restrict(t, S)[x] = t[x]
  BY DEF Restrict, Trees

(* The key of a tree is a key ...                                           *)
LEMMA KeyType ==
  ASSUME NEW t \in Trees
  PROVE  Restrict(t, InKey) \in Keys
  BY RestrictType, PartsAssumption DEF Keys

(* ... and an entry's name a name.                                          *)
LEMMA EntryForType ==
  ASSUME NEW k \in Keys, NEW t \in Trees
  PROVE  EntryFor(k, t) \in Names
  BY RestrictType, PartsAssumption DEF EntryFor, Names

(* The first state is typed, with nothing in hand and nothing read.         *)
LEMMA BasicInit == Init => Basic
  <1> SUFFICES ASSUME Init PROVE Basic
    OBVIOUS
  <1>1. TypeOK
    BY DEF Init, TypeOK, Unread, Stages
  <1>2. InHand /\ LockedReads
    BY DEF Init, InHand, LockedReads, Unread
  <1> QED BY <1>1, <1>2 DEF Basic

(* Types, what is in hand and who has read are kept by every step.          *)
LEMMA BasicNext == Basic /\ [Next]_vars => Basic'
  <1> SUFFICES ASSUME Basic, [Next]_vars PROVE Basic'
    OBVIOUS
  <1> USE PartsAssumption, NoneAssumption
  <1> USE DEF Basic, InHand, LockedReads, TypeOK, store, Goto, Stages, Unread
  <1>1. ASSUME NEW x \in Parts, NEW c \in Contents, Edit(x, c) PROVE Basic'
    BY <1>1 DEF Edit, Trees
  <1>2. ASSUME NEW p \in Procs, Plan(p) PROVE Basic'
    BY <1>2, KeyType DEF Plan
  <1>3. ASSUME NEW p \in Procs, LoadHit(p) PROVE Basic'
    BY <1>3, EntryForType DEF LoadHit, Present
  <1>4. ASSUME NEW p \in Procs, LoadMiss(p) PROVE Basic'
    BY <1>4 DEF LoadMiss
  <1>5. ASSUME NEW p \in Procs, NEW x \in Parts, CargoRead(p, x) PROVE Basic'
    BY <1>5 DEF CargoRead, Trees
  <1>6. ASSUME NEW p \in Procs, CargoDone(p) PROVE Basic'
    BY <1>6 DEF CargoDone, Trees
  <1>7. ASSUME NEW p \in Procs, Store(p) PROVE Basic'
    <2>1. CASE KeepCheck(p)
      BY <2>1 DEF KeepCheck
    <2>2. CASE KeepName(p)
      BY <2>2, EntryForType DEF KeepName
    <2>3. CASE KeepCopy(p)
      BY <2>3 DEF KeepCopy
    <2>4. CASE KeepManifest(p)
      BY <2>4 DEF KeepManifest
    <2>5. CASE KeepGroup(p)
      BY <2>5, BoundAssumption DEF KeepGroup
    <2>6. CASE KeepLink(p)
      BY <2>6 DEF KeepLink
    <2>7. CASE KeepNewest(p)
      BY <2>7 DEF KeepNewest
    <2>8. CASE Prune(p)
      BY <2>8 DEF Prune
    <2> QED BY <1>7, <2>1, <2>2, <2>3, <2>4, <2>5, <2>6, <2>7, <2>8 DEF Store
  <1>8. ASSUME NEW p \in Procs, BinaryDigest(p) PROVE Basic'
    <2>1. CASE DigestFound(p)
      BY <2>1 DEF DigestFound, LinkedTo, Attached, BytesAt
    <2>2. CASE DigestMissed(p)
      BY <2>2 DEF DigestMissed
    <2>3. CASE DigestRead(p)
      BY <2>3 DEF DigestRead, BytesAt
    <2>4. CASE DigestAttach(p)
      BY <2>4, SizeAssumption DEF DigestAttach, LinkedTo, Range
    <2> QED BY <1>8, <2>1, <2>2, <2>3, <2>4 DEF BinaryDigest
  <1>9. ASSUME NEW p \in Procs, Exit(p) PROVE Basic'
    BY <1>9 DEF Exit
  <1>10. CASE UNCHANGED vars
    BY <1>10 DEF vars, procs
  <1> QED BY <1>1, <1>2, <1>3, <1>4, <1>5, <1>6, <1>7, <1>8, <1>9, <1>10 DEF Next

(* The variables of BuildStore keep their types, with any number of         *)
(* invocations, edits and entries.                                          *)
THEOREM TypeCorrect == Spec => []TypeOK
  <1>1. Basic => TypeOK
    BY DEF Basic
  <1> QED BY BasicInit, BasicNext, <1>1, PTL DEF Spec

-----------------------------------------------------------------------------
(* Nothing has been read or kept in the first state.                        *)
LEMMA FreshInit == Init => Fresh /\ EntrySound
  BY DEF Init, Fresh, ReadsFresh, WindowSettled, EntrySound, Writing, Unread

(* While no edit lands in the window, what a build has read, what cargo's   *)
(* executable holds and what an entry is about to be named for agree.       *)
LEMMA FreshNext ==
  ASSUME EditsInWindow = FALSE, Basic, Fresh, [Next]_vars
  PROVE  Fresh'
  <1> USE PartsAssumption, NoneAssumption
  <1> USE DEF Basic, InHand, LockedReads, TypeOK, store, Goto, Stages, Unread,
              Fresh, ReadsFresh, WindowSettled, Settled, Writing
  <1>1. ASSUME NEW x \in Parts, NEW c \in Contents, Edit(x, c) PROVE Fresh'
    <2>1. \A p \in Procs : pc[p] \notin Writing
      BY <1>1 DEF Edit
    <2>2. \A y \in Parts : y # x => tree'[y] = tree[y]
      BY <1>1 DEF Edit, Trees
    <2>3. ReadsFresh'
      BY <1>1, <2>2 DEF Edit
    <2> QED BY <1>1, <2>1, <2>3 DEF Edit
  <1>2. ASSUME NEW p \in Procs, Plan(p) PROVE Fresh'
    BY <1>2 DEF Plan
  <1>3. ASSUME NEW p \in Procs, LoadHit(p) PROVE Fresh'
    BY <1>3 DEF LoadHit
  <1>4. ASSUME NEW p \in Procs, LoadMiss(p) PROVE Fresh'
    BY <1>4 DEF LoadMiss
  <1>5. ASSUME NEW p \in Procs, NEW x \in Parts, CargoRead(p, x) PROVE Fresh'
    <2>1. \A q \in Procs, y \in Parts :
            seen'[q][y] = IF q = p /\ y = x THEN tree[x] ELSE seen[q][y]
      BY <1>5 DEF CargoRead
    <2> QED BY <1>5, <2>1 DEF CargoRead
  <1>6. ASSUME NEW p \in Procs, CargoDone(p) PROVE Fresh'
    <2>1. \A q \in Procs, y \in Parts : seen'[q][y] = None
      BY <1>6 DEF CargoDone
    <2>2. exe' = seen[p] /\ exe' # None
      BY <1>6 DEF CargoDone, Trees
    <2> QED BY <1>6, <2>1, <2>2 DEF CargoDone
  <1>7. ASSUME NEW p \in Procs, Store(p) PROVE Fresh'
    <2>1. CASE KeepCheck(p)
      BY <2>1 DEF KeepCheck, MayKeep
    <2>2. CASE KeepName(p)
      BY <2>2 DEF KeepName
    <2>3. CASE KeepCopy(p)
      BY <2>3 DEF KeepCopy
    <2>4. CASE KeepManifest(p)
      BY <2>4 DEF KeepManifest
    <2>5. CASE KeepGroup(p)
      BY <2>5 DEF KeepGroup
    <2>6. CASE KeepLink(p)
      BY <2>6 DEF KeepLink
    <2>7. CASE KeepNewest(p)
      BY <2>7 DEF KeepNewest
    <2>8. CASE Prune(p)
      BY <2>8 DEF Prune
    <2> QED BY <1>7, <2>1, <2>2, <2>3, <2>4, <2>5, <2>6, <2>7, <2>8 DEF Store
  <1>8. ASSUME NEW p \in Procs, BinaryDigest(p) PROVE Fresh'
    <2>1. /\ \A q \in Procs : pc'[q] \in {"build", "keep"} \cup Writing => pc'[q] = pc[q]
          /\ UNCHANGED <<tree, exe, cargo, key, name, seen, touched>>
      BY <1>8 DEF BinaryDigest, DigestFound, DigestMissed, DigestRead, DigestAttach
    <2> QED BY <2>1
  <1>9. ASSUME NEW p \in Procs, Exit(p) PROVE Fresh'
    BY <1>9 DEF Exit
  <1>10. CASE UNCHANGED vars
    BY <1>10 DEF vars, procs
  <1> QED BY <1>1, <1>2, <1>3, <1>4, <1>5, <1>6, <1>7, <1>8, <1>9, <1>10 DEF Next

(* An entry is written from an executable that agrees with its name.        *)
LEMMA SoundNext ==
  ASSUME EditsInWindow = FALSE, InKey \subseteq InInputs,
         Basic, Fresh, EntrySound, [Next]_vars
  PROVE  EntrySound'
  <1> USE PartsAssumption
  <1> USE DEF EntrySound, BuiltFrom, store
  <1>1. ASSUME NEW p \in Procs, KeepCopy(p) PROVE EntrySound'
    <2>1. key[p] = Restrict(tree, InKey) /\ name[p] = EntryFor(key[p], tree)
      BY <1>1 DEF KeepCopy, Fresh, WindowSettled, Writing
    <2>2. /\ exe \in Trees \cup {None} /\ tree \in Trees
          /\ \A x \in InInputs : exe[x] = tree[x]
      BY <1>1 DEF KeepCopy, Fresh, WindowSettled, Settled, Writing, Basic, TypeOK
    <2>3. exe # None => BuiltFrom(exe, name[p])
      BY <2>1, <2>2, RestrictType DEF EntryFor, Restrict
    <2>4. entries' = [entries EXCEPT ![name[p]] = exe]
      BY <1>1 DEF KeepCopy
    <2>5. entries \in [Names -> Trees \cup {None}]
      BY DEF Basic, TypeOK
    <2> QED BY <2>3, <2>4, <2>5
  <1>2. ASSUME NEW p \in Procs, KeepNewest(p) PROVE EntrySound'
    BY <1>2 DEF KeepNewest
  <1>3. ASSUME NEW p \in Procs, Prune(p) PROVE EntrySound'
    BY <1>3 DEF Prune
  <1>4. CASE UNCHANGED entries
    BY <1>4
  <1> QED
    BY <1>1, <1>2, <1>3, <1>4
    DEF Next, vars, Store, Edit, Plan, LoadHit, LoadMiss, CargoRead, CargoDone,
        KeepCheck, KeepName, KeepManifest, KeepGroup, KeepLink, BinaryDigest,
        DigestFound, DigestMissed, DigestRead, DigestAttach, Exit

(* "An entry must be the bytes cargo would write or be a miss", whatever is  *)
(* edited around the window and wherever an invocation is killed.            *)
THEOREM EntriesSound ==
  ASSUME EditsInWindow = FALSE, InKey \subseteq InInputs
  PROVE  Spec => []EntrySound
  <1> DEFINE I == Basic /\ Fresh /\ EntrySound
  <1>1. Init => I
    BY BasicInit, FreshInit
  <1>2. I /\ [Next]_vars => I'
    BY BasicNext, FreshNext, SoundNext
  <1>3. I => EntrySound
    OBVIOUS
  <1> QED BY <1>1, <1>2, <1>3, PTL DEF Spec

-----------------------------------------------------------------------------
(* When dep-info names all a build reads, an entry's name is its bytes.      *)
LEMMA NameIsTheBytes ==
  ASSUME InInputs = Parts, Basic, EntrySound, NEW n \in Names, entries[n] # None
  PROVE  entries[n] \in Trees /\ entries[n] = n.inputs
  <1>1. entries[n] \in Trees /\ Restrict(entries[n], Parts) = n.inputs
    BY DEF Basic, TypeOK, EntrySound, BuiltFrom
  <1> QED BY <1>1 DEF Restrict, Trees

(* A hit looks up the entry named for the tree as it is.                     *)
LEMMA ServedNext ==
  ASSUME InInputs = Parts, Basic, EntrySound, ServedIsTheTree, [Next]_vars
  PROVE  ServedIsTheTree'
  <1>1. ASSUME NEW p \in Procs, LoadHit(p) PROVE ServedIsTheTree'
    <2> DEFINE n == EntryFor(key[p], tree)
    <2>1. n \in Names /\ entries[n] # None /\ tree \in Trees
      BY <1>1, EntryForType DEF LoadHit, Present, Basic, TypeOK, InHand
    <2>2. n.inputs = tree
      BY <2>1 DEF EntryFor, Restrict, Trees
    <2>3. entries[n] = tree
      BY <2>1, <2>2, NameIsTheBytes
    <2>4. served' = [served EXCEPT ![p] = [bytes |-> entries[n], tree |-> tree]]
      BY <1>1 DEF LoadHit
    <2> QED BY <2>3, <2>4 DEF ServedIsTheTree, Basic, TypeOK
  <1>2. ASSUME NEW p \in Procs, Exit(p) PROVE ServedIsTheTree'
    BY <1>2 DEF Exit, ServedIsTheTree, Basic, TypeOK
  <1>3. CASE UNCHANGED served
    BY <1>3 DEF ServedIsTheTree
  <1> QED
    BY <1>1, <1>2, <1>3
    DEF Next, vars, procs, Store, Edit, Plan, LoadMiss, CargoRead, CargoDone,
        KeepCheck, KeepName, KeepCopy, KeepManifest, KeepGroup, KeepLink,
        KeepNewest, Prune, BinaryDigest, DigestFound, DigestMissed, DigestRead,
        DigestAttach

(* What a lookup serves is what cargo would build from the same tree.        *)
THEOREM HitsAreTheTree ==
  ASSUME EditsInWindow = FALSE, InInputs = Parts
  PROVE  Spec => []ServedIsTheTree
  <1> DEFINE I == Basic /\ Fresh /\ EntrySound /\ ServedIsTheTree
  <1>1. Init => I
    BY BasicInit, FreshInit DEF Init, ServedIsTheTree
  <1>2. I /\ [Next]_vars => I'
    BY BasicNext, FreshNext, SoundNext, ServedNext, PartsAssumption
  <1>3. I => ServedIsTheTree
    OBVIOUS
  <1> QED BY <1>1, <1>2, <1>3, PTL DEF Spec

-----------------------------------------------------------------------------
(* A digest kept beside an entry is that of the bytes the entry is named     *)
(* for, even once the entry is gone.                                         *)
SidecarSound == \A n \in Names : sidecar[n] # None => sidecar[n].of = n.inputs

(* What has been worked out and not yet kept: the digest of cargo's          *)
(* executable, as it still is, or of the bytes an entry is named for.        *)
InHandSound ==
  \A p \in Procs : pc[p] = "attach" =>
    IF path[p] = Target THEN digest[p] = exe ELSE digest[p] = path[p].inputs

Distinct == \A s, t \in Trees : SizeOf[s] = SizeOf[t] => s = t

DigestInv == SidecarSound /\ InHandSound /\ DigestNamesTheBinary

(* Bytes named by a name are the inputs; by a link, those of an entry of     *)
(* the size, so the bytes, of cargo's executable.                            *)
LEMMA LinkedBytes ==
  ASSUME InInputs = Parts, Distinct, Basic, EntrySound,
         NEW f \in Names \cup {Target}, LinkedTo(f) # None
  PROVE  /\ LinkedTo(f) \in Names
         /\ entries[LinkedTo(f)] # None =>
              BytesAt(f) = LinkedTo(f).inputs /\ BytesAt(f) = entries[LinkedTo(f)]
  <1> DEFINE n == LinkedTo(f)
  <1>1. n \in Names
    BY NoneAssumption DEF LinkedTo, Basic, TypeOK
  <1>2. entries[n] # None => BytesAt(f) = entries[n]
    BY <1>1, TargetAssumption DEF LinkedTo, BytesAt, Distinct, Basic, TypeOK
  <1> QED BY <1>1, <1>2, NameIsTheBytes

(* What is in hand is kept beside an entry of those very bytes, as long as   *)
(* nobody replaces cargo's executable meanwhile.                             *)
LEMMA DigestStep ==
  ASSUME InInputs = Parts, Distinct, Basic, EntrySound, DigestInv,
         NEW p \in Procs, BinaryDigest(p)
  PROVE  DigestInv'
  <1> USE DEF Basic, TypeOK, DigestInv
  <1> DEFINE n == LinkedTo(path[p])
             bytes == BytesAt(path[p])
  <1>1. path[p] \in Names \cup {Target}
    BY DEF BinaryDigest, DigestFound, DigestMissed, DigestRead, DigestAttach, InHand
  <1>2. n # None /\ entries[n] # None => n \in Names /\ bytes = n.inputs /\ bytes = entries[n]
    BY <1>1, LinkedBytes
  <1>3. CASE DigestFound(p)
    <2>1. n # None /\ entries[n] # None /\ sidecar[n] # None
      BY <1>3 DEF DigestFound, Attached
    <2>2. sidecar[n].of = bytes
      BY <1>2, <2>1 DEF SidecarSound
    <2>3. digest' = [digest EXCEPT ![p] = bytes] /\ named' = [named EXCEPT ![p] = bytes]
      BY <1>3, <2>2 DEF DigestFound
    <2>4. SidecarSound' /\ InHandSound'
      BY <1>3 DEF DigestFound, Goto, store, SidecarSound, InHandSound
    <2> QED BY <2>3, <2>4 DEF DigestNamesTheBinary
  <1>4. CASE DigestMissed(p)
    BY <1>4 DEF DigestMissed, Goto, store, SidecarSound, InHandSound, DigestNamesTheBinary
  <1>5. CASE DigestRead(p)
    <2>1. digest' = [digest EXCEPT ![p] = bytes] /\ named' = [named EXCEPT ![p] = bytes]
      BY <1>5 DEF DigestRead
    <2>2. path[p] # Target /\ bytes # None => bytes = path[p].inputs
      BY <1>1, <1>2, NoneAssumption DEF LinkedTo, BytesAt
    <2>3. InHandSound'
      BY <1>5, <2>1, <2>2 DEF DigestRead, Goto, store, InHandSound, BytesAt
    <2> QED BY <1>5, <2>1, <2>3 DEF DigestRead, store, SidecarSound, DigestNamesTheBinary
  <1>6. CASE DigestAttach(p)
    <2>1. IF path[p] = Target THEN digest[p] = exe ELSE digest[p] = path[p].inputs
      BY <1>6 DEF DigestAttach, InHandSound
    <2>2. n # None /\ entries[n] # None => digest[p] = n.inputs
      BY <1>1, <1>2, <2>1 DEF LinkedTo, BytesAt
    <2>3. SidecarSound'
      BY <1>6, <1>2, <2>2 DEF DigestAttach, SidecarSound
    <2> QED BY <1>6, <2>3 DEF DigestAttach, Goto, InHandSound, DigestNamesTheBinary
  <1> QED BY <1>3, <1>4, <1>5, <1>6 DEF BinaryDigest

(* The other steps leave what is kept and what is in hand as it is.          *)
LEMMA DigestNext ==
  ASSUME RebuildsInDigest = FALSE, InInputs = Parts, Distinct,
         Basic, EntrySound, DigestInv, [Next]_vars
  PROVE  DigestInv'
  <1> USE DEF Basic, TypeOK, DigestInv
  <1>1. ASSUME NEW p \in Procs, BinaryDigest(p) PROVE DigestInv'
    BY <1>1, DigestStep
  <1>2. ASSUME NEW p \in Procs, CargoDone(p) PROVE DigestInv'
    <2>1. \A q \in Procs : ~Digesting(q)
      BY <1>2 DEF CargoDone
    <2>2. InHandSound'
      BY <1>2, <2>1 DEF CargoDone, Digesting, Goto, InHandSound
    <2> QED BY <1>2, <2>2 DEF CargoDone, store, SidecarSound, DigestNamesTheBinary
  <1>3. ASSUME NEW p \in Procs, Exit(p) PROVE DigestInv'
    BY <1>3 DEF Exit, Goto, store, SidecarSound, InHandSound, DigestNamesTheBinary
  <1>4. ASSUME NEW p \in Procs, KeepNewest(p) \/ Prune(p) PROVE DigestInv'
    BY <1>4 DEF KeepNewest, Prune, Goto, SidecarSound, InHandSound, DigestNamesTheBinary
  <1>5. ASSUME NEW p \in Procs, LoadHit(p) PROVE DigestInv'
    BY <1>5 DEF LoadHit, Goto, store, SidecarSound, InHandSound, DigestNamesTheBinary
  <1>6. CASE /\ UNCHANGED <<sidecar, digest, named, exe, path>>
             /\ \A p \in Procs : pc'[p] = "attach" => pc[p] = "attach"
    BY <1>6 DEF SidecarSound, InHandSound, DigestNamesTheBinary
  <1>7. ASSUME NEW p \in Procs, Store(p)
        PROVE  \A q \in Procs : pc'[q] = "attach" => pc[q] = "attach"
    BY <1>7 DEF Store, Goto, KeepCheck, KeepName, KeepCopy, KeepManifest, KeepGroup,
                KeepLink, KeepNewest, Prune
  <1>8. ASSUME NEW p \in Procs, Store(p) PROVE DigestInv'
    BY <1>4, <1>6, <1>7, <1>8
    DEF Store, store, KeepCheck, KeepName, KeepCopy, KeepManifest, KeepGroup, KeepLink
  <1>9. ASSUME NEW p \in Procs, Plan(p) \/ LoadMiss(p) \/ \E x \in Parts : CargoRead(p, x)
        PROVE  DigestInv'
    BY <1>6, <1>9 DEF Plan, LoadMiss, CargoRead, Goto, store
  <1>10. ASSUME NEW x \in Parts, NEW c \in Contents, Edit(x, c) PROVE DigestInv'
    BY <1>6, <1>10 DEF Edit, store
  <1>11. CASE UNCHANGED vars
    BY <1>6, <1>11 DEF vars, store, procs
  <1> QED BY <1>1, <1>2, <1>3, <1>5, <1>8, <1>9, <1>10, <1>11 DEF Next

(* A binary is named by its own bytes, whoever worked the digest out, as     *)
(* long as executables of one checkout differ in size, without which the     *)
(* link beside cargo's executable may name an earlier build, and cargo's is  *)
(* not replaced between the read and the second look at its link, without    *)
(* which the digest is kept beside the entry of the next build.              *)
THEOREM DigestsNameTheBinary ==
  ASSUME EditsInWindow = FALSE, RebuildsInDigest = FALSE, InInputs = Parts, Distinct
  PROVE  Spec => []DigestNamesTheBinary
  <1> DEFINE I == Basic /\ Fresh /\ EntrySound /\ DigestInv
  <1>1. Init => I
    BY BasicInit, FreshInit
    DEF Init, DigestInv, SidecarSound, InHandSound, DigestNamesTheBinary
  <1>2. I /\ [Next]_vars => I'
    BY BasicNext, FreshNext, SoundNext, DigestNext, PartsAssumption
  <1>3. I => DigestNamesTheBinary
    BY DEF DigestInv
  <1> QED BY <1>1, <1>2, <1>3, PTL DEF Spec
=============================================================================
