----------------------------- MODULE BuildStore -----------------------------
(***************************************************************************)
(* The store of built bench executables: store.rs (two-level lookup),       *)
(* binstore.rs (entries, groups, sidecars) and benchexe.rs (a process's     *)
(* plan, the build, what is kept of it), with the digest headrun.rs names   *)
(* a binary by.                                                             *)
(*                                                                          *)
(* One checkout and one target directory, so one group of entries, shared   *)
(* by the invocations in Procs.  A tree is the content of its Parts: the    *)
(* sources, the manifests, the files and variables a build also reads.      *)
(* InKey are the parts the cheap key hashes, InInputs those cargo's         *)
(* dep-info lists, whose modification times insert() checks.  Hashes do not *)
(* collide, so a key is the content it hashes and a digest is the bytes.    *)
(* An executable's bytes are the content its build read: two trees never    *)
(* build the same bytes here, though they may build files of one size.      *)
(***************************************************************************)
EXTENDS Naturals, Functions

CONSTANTS
  Procs,          \* concurrent invocations in one checkout
  Parts,          \* what a build reads
  Contents,       \* what a part may hold
  InKey,          \* parts hashed by the cheap key
  InInputs,       \* parts named by dep-info, hashed into the entry's name
  SizeOf,         \* the size of the executable each tree builds
  EditsInWindow,  \* whether an edit may land while an entry is being written
  RebuildsInDigest, \* whether cargo's executable may be replaced while an
                  \* invocation has read it and not yet kept its digest
  MaxEdits,       \* bound: edits of the tree
  MaxStores,      \* bound: group files written, so values of `born'
  None, Target    \* no file; cargo's own executable in the target directory

Trees  == [Parts -> Contents]
Keys   == [InKey -> Contents]
Names  == [key : Keys, inputs : [InInputs -> Contents]]

ASSUME PartsAssumption == InKey \subseteq Parts /\ InInputs \subseteq Parts
ASSUME WindowAssumption == EditsInWindow \in BOOLEAN /\ RebuildsInDigest \in BOOLEAN
ASSUME SizeAssumption == SizeOf \in [Trees -> Range(SizeOf)]
ASSUME BoundAssumption == MaxEdits \in Nat /\ MaxStores \in Nat
ASSUME NoneAssumption ==
  None \notin Trees \cup Keys \cup Names \cup Contents \cup Procs \cup {Target}
ASSUME TargetAssumption == Target \notin Names

VARIABLES
  tree,       \* the checkout
  exe,        \* the executable in the target directory
  cargo,      \* the invocation holding cargo's build lock
  entries,    \* <key>-<digest>.bin
  manifest,   \* keys with a <key>.manifest
  born,       \* <key>.group: when it was made, 0 without one
  link,       \* <exe>.soothfast-entry: the entry made from the executable
  sidecar,    \* <entry>.digest: the size of the entry and a digest
  pc, key, name, path, seen, touched,
  digest,     \* what binary_digest has found or worked out
  named,      \* history: the bytes at `path' when `digest' was worked out
  served,     \* history: the last hit's bytes, and the tree it was served for
  edits

store == <<entries, manifest, born, link, sidecar>>
procs == <<pc, key, name, path, seen, touched, digest, named, served>>
vars  == <<tree, exe, cargo, store, procs, edits>>

Stages == {"idle", "planned", "build", "keep", "name", "copy", "manifest",
           "group", "link", "newest", "prune", "have", "read", "attach", "done"}
Writing == {"name", "copy"}   \* from insert()'s checks to its payload

EntryFor(k, t) == [key |-> k, inputs |-> Restrict(t, InInputs)]
Present(k, t)  == k \in manifest /\ entries[EntryFor(k, t)] # None
Unread         == [x \in Parts |-> None]

TypeOK ==
  /\ tree \in Trees /\ exe \in Trees \cup {None} /\ cargo \in Procs \cup {None}
  /\ entries \in [Names -> Trees \cup {None}]
  /\ manifest \subseteq Keys /\ born \in [Keys -> Nat]
  /\ link \in Names \cup {None}
  /\ sidecar \in [Names -> [size : Range(SizeOf), of : Trees] \cup {None}]
  /\ pc \in [Procs -> Stages]
  /\ key \in [Procs -> Keys \cup {None}] /\ name \in [Procs -> Names \cup {None}]
  /\ path \in [Procs -> Names \cup {Target, None}]
  /\ seen \in [Procs -> [Parts -> Contents \cup {None}]]
  /\ touched \in [Procs -> SUBSET Parts]
  /\ digest \in [Procs -> Trees \cup {None}] /\ named \in [Procs -> Trees \cup {None}]
  /\ served \in [Procs -> [bytes : Trees, tree : Trees] \cup {None}]
  /\ edits \in Nat

Init ==
  /\ tree \in Trees /\ exe = None /\ cargo = None
  /\ entries = [n \in Names |-> None] /\ manifest = {}
  /\ born = [k \in Keys |-> 0] /\ link = None
  /\ sidecar = [n \in Names |-> None]
  /\ pc = [p \in Procs |-> "idle"] /\ key = [p \in Procs |-> None]
  /\ name = [p \in Procs |-> None] /\ path = [p \in Procs |-> None]
  /\ seen = [p \in Procs |-> Unread] /\ touched = [p \in Procs |-> {}]
  /\ digest = [p \in Procs |-> None] /\ named = [p \in Procs |-> None]
  /\ served = [p \in Procs |-> None]
  /\ edits = 0

Goto(p, stage) == pc' = [pc EXCEPT ![p] = stage]

-----------------------------------------------------------------------------
(* Someone edits the checkout.  A build that has started sees the file's    *)
(* modification time pass its own start.                                    *)
Edit(x, c) ==
  /\ edits < MaxEdits /\ tree[x] # c
  /\ EditsInWindow \/ \A p \in Procs : pc[p] \notin Writing
  /\ tree' = [tree EXCEPT ![x] = c] /\ edits' = edits + 1
  /\ touched' = [p \in Procs |-> IF pc[p] \in {"build", "keep"}
                                 THEN touched[p] \cup {x} ELSE touched[p]]
  /\ UNCHANGED <<exe, cargo, store, pc, key, name, path, seen, digest, named, served>>

(* Plan::new: the key the tree has, computed once for the process.          *)
Plan(p) ==
  /\ pc[p] = "idle" /\ Goto(p, "planned")
  /\ key' = [key EXCEPT ![p] = Restrict(tree, InKey)]
  /\ UNCHANGED <<tree, exe, cargo, store, name, path, seen, touched, digest,
                 named, served, edits>>

(* Slip: any entry of the key will do, whatever its other inputs.           *)
LoadHitOfKey(p) ==
  /\ pc[p] = "planned" /\ Goto(p, "have")
  /\ \E n \in Names :
       /\ n.key = key[p] /\ entries[n] # None
       /\ path' = [path EXCEPT ![p] = n]
       /\ served' = [served EXCEPT ![p] = [bytes |-> entries[n], tree |-> tree]]
  /\ UNCHANGED <<tree, exe, cargo, store, key, name, seen, touched, digest,
                 named, edits>>

(* Plan::load under the plan's key and the inputs the tree has now.         *)
LoadHit(p) ==
  /\ pc[p] = "planned" /\ Present(key[p], tree) /\ Goto(p, "have")
  /\ LET n == EntryFor(key[p], tree) IN
       /\ path' = [path EXCEPT ![p] = n]
       /\ served' = [served EXCEPT ![p] = [bytes |-> entries[n], tree |-> tree]]
  /\ UNCHANGED <<tree, exe, cargo, store, key, name, seen, touched, digest,
                 named, edits>>

(* A miss: the build is timed from here.                                    *)
LoadMiss(p) ==
  /\ pc[p] = "planned" /\ ~Present(key[p], tree) /\ Goto(p, "build")
  /\ UNCHANGED <<tree, exe, cargo, store, key, name, path, seen, touched, digest,
                 named, served, edits>>

(* cargo bench --no-run reads the parts one at a time under its build lock. *)
CargoRead(p, x) ==
  /\ pc[p] = "build" /\ cargo \in {None, p} /\ seen[p][x] = None
  /\ cargo' = p /\ seen' = [seen EXCEPT ![p][x] = tree[x]]
  /\ UNCHANGED <<tree, exe, store, pc, key, name, path, touched, digest, named,
                 served, edits>>

(* It replaces the executable of the build before, which another invocation *)
(* may be at work on.                                                       *)
Digesting(q) == pc[q] = "attach" /\ path[q] = Target

CargoDone(p) ==
  /\ pc[p] = "build" /\ cargo = p /\ \A x \in Parts : seen[p][x] # None
  /\ RebuildsInDigest \/ \A q \in Procs : ~Digesting(q)
  /\ exe' = seen[p] /\ cargo' = None /\ Goto(p, "keep")
  /\ path' = [path EXCEPT ![p] = Target] /\ seen' = [seen EXCEPT ![p] = Unread]
  /\ UNCHANGED <<tree, store, key, name, touched, digest, named, served, edits>>

(* binstore::store refuses a build whose tree changed (TreeChanged), whose  *)
(* entry is there (Present) or one of whose inputs was modified since it    *)
(* started (NotWritten).  The built executable is used all the same.        *)
(* Slip: an input modified while the build ran is not looked for.           *)
MayKeepUnwatched(p) == Restrict(tree, InKey) = key[p] /\ ~Present(key[p], tree)

MayKeep(p) ==
  /\ Restrict(tree, InKey) = key[p]
  /\ ~Present(key[p], tree)
  /\ touched[p] \cap InInputs = {}

KeepCheck(p) ==
  /\ pc[p] = "keep" /\ Goto(p, IF MayKeep(p) THEN "name" ELSE "have")
  /\ touched' = [touched EXCEPT ![p] = {}]
  /\ UNCHANGED <<tree, exe, cargo, store, key, name, path, seen, digest, named,
                 served, edits>>

(* insert(): the entry is named for the inputs as they are now ...          *)
KeepName(p) ==
  /\ pc[p] = "name" /\ Goto(p, "copy")
  /\ name' = [name EXCEPT ![p] = EntryFor(key[p], tree)]
  /\ UNCHANGED <<tree, exe, cargo, store, key, path, seen, touched, digest, named,
                 served, edits>>

(* ... the executable is copied in, then the manifest is written.           *)
KeepCopy(p) ==
  /\ pc[p] = "copy" /\ Goto(p, "manifest")
  /\ entries' = [entries EXCEPT ![name[p]] = exe]
  /\ UNCHANGED <<tree, exe, cargo, manifest, born, link, sidecar, key, name, path,
                 seen, touched, digest, named, served, edits>>

KeepManifest(p) ==
  /\ pc[p] = "manifest" /\ Goto(p, "group")
  /\ manifest' = manifest \cup {key[p]}
  /\ UNCHANGED <<tree, exe, cargo, entries, born, link, sidecar, key, name, path,
                 seen, touched, digest, named, served, edits>>

(* The group file is stamped with the time now, later than every other's.   *)
KeepGroup(p) ==
  /\ pc[p] = "group" /\ Goto(p, "link")
  /\ \E t \in 1..MaxStores : /\ \A k \in Keys : born[k] < t
                             /\ \E k \in Keys : born[k] = t - 1
                             /\ born' = [born EXCEPT ![key[p]] = t]
  /\ UNCHANGED <<tree, exe, cargo, entries, manifest, link, sidecar, key, name,
                 path, seen, touched, digest, named, served, edits>>

KeepLink(p) ==
  /\ pc[p] = "link" /\ Goto(p, "newest") /\ link' = name[p]
  /\ UNCHANGED <<tree, exe, cargo, entries, manifest, born, sidecar, key, name,
                 path, seen, touched, digest, named, served, edits>>

(* keep_newest: every grouped entry but the one made last is removed, with  *)
(* its sidecars.  Age is the key's group file, so two entries of one key    *)
(* tie and the order the directory lists them in decides.                   *)
Grouped == {n \in Names : entries[n] # None /\ born[n.key] > 0}
Newest  == {n \in Grouped : \A m \in Grouped : born[m.key] <= born[n.key]}

KeepNewest(p) ==
  /\ pc[p] = "newest" /\ Goto(p, "prune")
  /\ \/ Grouped = {} /\ UNCHANGED <<entries, sidecar>>
     \/ \E n \in Newest :
          /\ entries' = [m \in Names |-> IF m \in Grouped \ {n} THEN None ELSE entries[m]]
          /\ sidecar' = [m \in Names |-> IF m \in Grouped \ {n} THEN None ELSE sidecar[m]]
  /\ UNCHANGED <<tree, exe, cargo, manifest, born, link, key, name, path, seen,
                 touched, digest, named, served, edits>>

(* store::prune: beyond the size cap the files of the least recently used   *)
(* keys go, never those of the newest payload.  Which keys those are hangs  *)
(* on sizes and times the model leaves open.                                *)
Prune(p) ==
  /\ pc[p] = "prune" /\ Goto(p, "have") /\ name' = [name EXCEPT ![p] = None]
  /\ \E drop \in SUBSET Keys :
       /\ drop = {} \/ \E n \in Names : entries[n] # None /\ n.key \notin drop
       /\ entries' = [n \in Names |-> IF n.key \in drop THEN None ELSE entries[n]]
       /\ sidecar' = [n \in Names |-> IF n.key \in drop THEN None ELSE sidecar[n]]
       /\ manifest' = manifest \ drop
       /\ born' = [k \in Keys |-> IF k \in drop THEN 0 ELSE born[k]]
  /\ UNCHANGED <<tree, exe, cargo, link, key, path, seen, touched, digest,
                 named, served, edits>>

(* binary_digest: the digest kept with the binary's entry, else one worked  *)
(* out from the bytes and then kept.  Cargo's own executable is taken for   *)
(* the entry its link names when that entry is still of the same size; the  *)
(* link is followed once to look and once more to keep.                     *)
BytesAt(f) == IF f = Target THEN exe ELSE entries[f]

(* Slip: the link is believed whatever has been built since.                *)
LinkedToUnsized(f) ==
  IF f # Target THEN f ELSE IF link # None /\ entries[link] # None THEN link ELSE None

LinkedTo(f) ==
  IF f # Target THEN f
  ELSE IF link # None /\ exe # None /\ entries[link] # None
          /\ SizeOf[entries[link]] = SizeOf[exe] THEN link ELSE None

Attached(n) ==
  /\ n # None /\ sidecar[n] # None /\ entries[n] # None
  /\ sidecar[n].size = SizeOf[entries[n]]

DigestFound(p) ==
  /\ pc[p] = "have" /\ Attached(LinkedTo(path[p])) /\ Goto(p, "done")
  /\ digest' = [digest EXCEPT ![p] = sidecar[LinkedTo(path[p])].of]
  /\ named' = [named EXCEPT ![p] = BytesAt(path[p])]
  /\ UNCHANGED <<tree, exe, cargo, store, key, name, path, seen, touched, served, edits>>

DigestMissed(p) ==
  /\ pc[p] = "have" /\ ~Attached(LinkedTo(path[p])) /\ Goto(p, "read")
  /\ UNCHANGED <<tree, exe, cargo, store, key, name, path, seen, touched, digest,
                 named, served, edits>>

(* The entry may be gone by now: then there is no digest.                   *)
DigestRead(p) ==
  /\ pc[p] = "read" /\ Goto(p, IF BytesAt(path[p]) = None THEN "done" ELSE "attach")
  /\ digest' = [digest EXCEPT ![p] = BytesAt(path[p])]
  /\ named' = [named EXCEPT ![p] = BytesAt(path[p])]
  /\ UNCHANGED <<tree, exe, cargo, store, key, name, path, seen, touched, served, edits>>

DigestAttach(p) ==
  LET n == LinkedTo(path[p]) IN
  /\ pc[p] = "attach" /\ Goto(p, "done")
  /\ sidecar' = IF n # None /\ sidecar[n] = None /\ entries[n] # None
                THEN [sidecar EXCEPT ![n] = [size |-> SizeOf[entries[n]], of |-> digest[p]]]
                ELSE sidecar
  /\ UNCHANGED <<tree, exe, cargo, entries, manifest, born, link, key, name, path,
                 seen, touched, digest, named, served, edits>>

BinaryDigest(p) == DigestFound(p) \/ DigestMissed(p) \/ DigestRead(p) \/ DigestAttach(p)

(* The invocation ends, its build fails, or it is killed, at any stage.     *)
(* Cargo's lock goes with it, and so does all it knew.                      *)
Exit(p) ==
  /\ pc[p] # "idle" /\ Goto(p, "idle")
  /\ cargo' = IF cargo = p THEN None ELSE cargo
  /\ key' = [key EXCEPT ![p] = None] /\ name' = [name EXCEPT ![p] = None]
  /\ path' = [path EXCEPT ![p] = None] /\ seen' = [seen EXCEPT ![p] = Unread]
  /\ touched' = [touched EXCEPT ![p] = {}] /\ digest' = [digest EXCEPT ![p] = None]
  /\ named' = [named EXCEPT ![p] = None] /\ served' = [served EXCEPT ![p] = None]
  /\ UNCHANGED <<tree, exe, store, edits>>

Store(p) ==
  \/ KeepCheck(p) \/ KeepName(p) \/ KeepCopy(p) \/ KeepManifest(p)
  \/ KeepGroup(p) \/ KeepLink(p) \/ KeepNewest(p) \/ Prune(p)

Next ==
  \/ \E x \in Parts, c \in Contents : Edit(x, c)
  \/ \E p \in Procs :
       \/ Plan(p) \/ LoadHit(p) \/ LoadMiss(p)
       \/ \E x \in Parts : CargoRead(p, x)
       \/ CargoDone(p) \/ Store(p) \/ BinaryDigest(p) \/ Exit(p)

Spec == Init /\ [][Next]_vars

-----------------------------------------------------------------------------
(* binstore.rs: "an entry must be the bytes cargo would write or be a       *)
(* miss".  Every entry was built from the content it is named for.          *)
BuiltFrom(bytes, n) ==
  /\ Restrict(bytes, InInputs) = n.inputs
  /\ \A x \in InKey : bytes[x] = n.key[x]

EntrySound == \A n \in Names : entries[n] # None => BuiltFrom(entries[n], n)

(* What a lookup serves is what cargo would build from the tree it was      *)
(* looked up for, however old the process's plan.                           *)
ServedIsTheTree ==
  \A p \in Procs : served[p] # None => served[p].bytes = served[p].tree

(* The digest a binary is named by, in the run cache, the item cache and    *)
(* the link maps, is that of the bytes it has when it is looked up or read, *)
(* whichever entry it was kept beside and whoever kept it there.            *)
DigestNamesTheBinary ==
  \A p \in Procs : digest[p] # None /\ named[p] # None => digest[p] = named[p]

(* "Remove every executable but the newest of its group": the entry a       *)
(* process has just made outlives its own keep_newest unless a later one    *)
(* was made.                                                                *)
NewestSurvives ==
  [][\A p \in Procs :
       pc[p] = "newest" /\ pc'[p] = "prune" /\ entries[name[p]] # None
         => \/ entries'[name[p]] # None
            \/ \E n \in Grouped : born[n.key] > born[name[p].key]]_vars

=============================================================================
