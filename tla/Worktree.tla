------------------------------ MODULE Worktree ------------------------------
(***************************************************************************)
(* The checkout a gate builds the merge-base in (invoke.rs:                 *)
(* with_merge_base_worktree and what it calls, sync_untracked_cargo_config, *)
(* sync_harness_versions), step by step, each git or cargo command and each *)
(* removal of a directory a step that a kill may cut short.                 *)
(*                                                                          *)
(* git and cargo are external: a worktree is a directory and a registration *)
(* of it; `worktree add' refuses a registered path, `worktree remove'       *)
(* a locked one or one whose .git file is gone unless forced twice; `add'   *)
(* holds a lock until it is done.  They undo their own lock files when they *)
(* are interrupted.                                                         *)
(***************************************************************************)
EXTENDS Naturals, FiniteSets

CONSTANTS
  Procs,       \* invocations of one checkout
  Shas,        \* commits that are the merge-base at some time
  Elsewhere,   \* worktrees of the user, in directories that may be unmounted
  Crates,      \* the harness crates
  Versions, HeadVersion, BaseLock,   \* HEAD's version of them; the merge-base's Cargo.lock
  Configs,     \* contents of an untracked .cargo/config.toml
  Ignored,     \* .gitignore covers .cargo/config.toml
  Passes,      \* crates pinned at most, 16 in the code
  MaxKills, MaxMoves,   \* bounds: kills; changes the user makes
  None

ASSUME ShasAssumption == Shas # {} /\ Shas \cap Elsewhere = {} /\ None \notin Shas \cup Configs
ASSUME LocksAssumption == HeadVersion \in Versions /\ BaseLock \in [Crates -> Versions]
ASSUME BoundsAssumption ==
  /\ Passes \in Nat /\ MaxKills \in Nat /\ MaxMoves \in Nat
  /\ Ignored \in BOOLEAN

VARIABLES
  tree,        \* per merge-base, the directory of its worktree
  main,        \* what the user's own checkout was sent at, None while let alone
  registered, locked,   \* what git knows of worktrees
  base, config,         \* the merge-base and HEAD's untracked config now
  gate,        \* what each invocation is at
  kills, moves

vars == <<tree, main, registered, locked, base, config, gate, kills, moves>>

Locks == [Crates -> Versions]

(* The directory: whether it exists with its .git file, the commit whose    *)
(* files it has (None: some of them), whether other files are changed or    *)
(* added, its Cargo.lock and the copied config.                             *)
Tree(linked, at, dirty, lock, conf) ==
  [there |-> TRUE, linked |-> linked, at |-> at, dirty |-> dirty, lock |-> lock, config |-> conf]
Gone == [Tree(FALSE, None, FALSE, BaseLock, None) EXCEPT !.there = FALSE]
Fresh(s) == Tree(TRUE, s, FALSE, BaseLock, None)

Idle == [pc |-> "idle", sha |-> None, todo |-> {}, victim |-> None,
         passes |-> 0, failed |-> 0]

Become(p, g) == gate' = [gate EXCEPT ![p] = g]
Step(p, from, to) == gate[p].pc = from /\ Become(p, [gate[p] EXCEPT !.pc = to])
Fail(p) == Become(p, [Idle EXCEPT !.failed = gate[p].failed + 1])

Forgotten(s) == registered' = registered \ {s} /\ locked' = locked \ {s}

(* Drop the registration of a worktree whose directory is gone.  Slip: of   *)
(* every worktree whose directory is, or cannot be seen: git worktree prune.*)
ForgetMissingByPrune(s) ==
  /\ registered' = {r \in registered : r \in locked \/ (r \in Shas /\ tree[r].there)}
  /\ locked' = locked
(* Slip: unless git holds it locked.                                        *)
ForgetMissingUnlocked(s) ==
  IF tree[s].there \/ s \in locked THEN UNCHANGED <<registered, locked>> ELSE Forgotten(s)
ForgetMissing(s) ==
  IF tree[s].there THEN UNCHANGED <<registered, locked>> ELSE Forgotten(s)

(* Work out the merge-base, and forget its worktree if it is missing.        *)
Resolve(p) ==
  /\ gate[p].pc = "idle"
  /\ Become(p, [gate[p] EXCEPT !.pc = "forget", !.sha = base])
  /\ UNCHANGED <<tree, main, registered, locked, base, config, kills, moves>>

Forget(p) ==
  /\ gate[p].pc = "forget"
  /\ ForgetMissing(gate[p].sha)
  /\ Become(p, [gate[p] EXCEPT !.pc = "discard", !.todo = {s \in Shas \ {gate[p].sha} : tree[s].there}])
  /\ UNCHANGED <<tree, main, base, config, kills, moves>>

(* Discard the checkouts of other merge-bases: ask git, remove what is left,*)
(* forget it.                                                               *)
Removable(s) == s \in registered \ locked /\ (tree[s].there => tree[s].linked)

Discard(p) ==
  /\ gate[p].pc = "discard"
  /\ \E s \in gate[p].todo :
       /\ IF Removable(s) THEN tree' = [tree EXCEPT ![s] = Gone] /\ Forgotten(s)
          ELSE UNCHANGED <<tree, registered, locked>>
       /\ Become(p, [gate[p] EXCEPT !.pc = "erase", !.victim = s, !.todo = @ \ {s}])
  /\ UNCHANGED <<main, base, config, kills, moves>>

Erase(p) ==
  /\ Step(p, "erase", "forgetOther")
  /\ tree' = [tree EXCEPT ![gate[p].victim] = Gone]
  /\ UNCHANGED <<main, registered, locked, base, config, kills, moves>>

ForgetOther(p) ==
  /\ gate[p].pc = "forgetOther"
  /\ ForgetMissing(gate[p].victim)
  /\ Become(p, [gate[p] EXCEPT !.pc = "discard", !.victim = None])
  /\ UNCHANGED <<tree, main, base, config, kills, moves>>

(* A linked worktree is reused, anything else removed and added again.      *)
(* Slips: any directory is; one that has the commit is taken as it is.       *)
ReuseAny(p) ==
  /\ gate[p].pc = "discard" /\ gate[p].todo = {}
  /\ Become(p, [gate[p] EXCEPT !.pc = IF tree[gate[p].sha].there THEN "checkout" ELSE "remove"])
  /\ UNCHANGED <<tree, main, registered, locked, base, config, kills, moves>>
ReuseAtBase(p) ==
  /\ gate[p].pc = "discard" /\ gate[p].todo = {}
  /\ LET t == tree[gate[p].sha]
     IN  Become(p, [gate[p] EXCEPT !.pc = IF t.there /\ t.linked
                                          THEN IF t.at = gate[p].sha THEN "sync" ELSE "checkout"
                                          ELSE "remove"])
  /\ UNCHANGED <<tree, main, registered, locked, base, config, kills, moves>>
Reuse(p) ==
  /\ gate[p].pc = "discard" /\ gate[p].todo = {}
  /\ LET t == tree[gate[p].sha]
     IN  Become(p, [gate[p] EXCEPT !.pc = IF t.there /\ t.linked THEN "checkout" ELSE "remove"])
  /\ UNCHANGED <<tree, main, registered, locked, base, config, kills, moves>>

(* git in a directory without a .git file works on the user's checkout.     *)
Checkout(p) ==
  /\ gate[p].pc = "checkout"
  /\ LET s == gate[p].sha
     IN  IF ~tree[s].there THEN Fail(p) /\ UNCHANGED <<tree, main>>
         ELSE /\ Become(p, [gate[p] EXCEPT !.pc = "clean"])
              /\ IF tree[s].linked
                 THEN tree' = [tree EXCEPT ![s].at = s, ![s].lock = BaseLock] /\ main' = main
                 ELSE main' = s /\ tree' = tree
  /\ UNCHANGED <<registered, locked, base, config, kills, moves>>

(* Untracked files go, ignored ones stay.                                   *)
Clean(p) ==
  /\ gate[p].pc = "clean"
  /\ LET s == gate[p].sha
     IN  IF ~tree[s].there THEN Fail(p) /\ tree' = tree
         ELSE /\ Become(p, [gate[p] EXCEPT !.pc = "verify"])
              /\ tree' = IF ~tree[s].linked THEN tree
                         ELSE [tree EXCEPT ![s].dirty = FALSE,
                                           ![s].config = IF Ignored THEN @ ELSE None]
  /\ UNCHANGED <<main, registered, locked, base, config, kills, moves>>

Remove(p) ==
  /\ Step(p, "remove", "add")
  /\ tree' = [tree EXCEPT ![gate[p].sha] = Gone]
  /\ UNCHANGED <<main, registered, locked, base, config, kills, moves>>

Add(p) ==
  /\ gate[p].pc = "add"
  /\ LET s == gate[p].sha
     IN  IF s \in registered \/ tree[s].there
         THEN Fail(p) /\ UNCHANGED <<tree, registered>>
         ELSE /\ tree' = [tree EXCEPT ![s] = Fresh(s)]
              /\ registered' = registered \cup {s}
              /\ Become(p, [gate[p] EXCEPT !.pc = "verify"])
  /\ UNCHANGED <<main, locked, base, config, kills, moves>>

Changed(t) == t.dirty \/ t.lock # BaseLock \/ (t.config # None /\ ~Ignored)
Proves(t, s) == t.there /\ IF t.linked THEN t.at = s /\ ~Changed(t) ELSE main = s
Verify(p) ==
  /\ gate[p].pc = "verify"
  /\ IF Proves(tree[gate[p].sha], gate[p].sha) THEN Become(p, [gate[p] EXCEPT !.pc = "sync"])
     ELSE Fail(p)
  /\ UNCHANGED <<tree, main, registered, locked, base, config, kills, moves>>

SyncConfig(p) ==
  /\ Step(p, "sync", "pin")
  /\ tree' = IF config = None THEN tree ELSE [tree EXCEPT ![gate[p].sha].config = config]
  /\ UNCHANGED <<main, registered, locked, base, config, kills, moves>>

-----------------------------------------------------------------------------
(* The harness crates are pinned one by one, reading the lock again each    *)
(* time; cargo may move others along, and a refused pin is retried after    *)
(* the manifests' requirements are widened.                                 *)
Mismatches(lock) == {c \in Crates : lock[c] # HeadVersion}

More(g, lock) == Mismatches(lock) # {} /\ g.passes < Passes

PinOne(p) ==
  /\ gate[p].pc = "pin"
  /\ LET s == gate[p].sha
     IN  /\ More(gate[p], tree[s].lock)
         /\ \E c \in Mismatches(tree[s].lock) : \E lock \in {l \in Locks : l[c] = HeadVersion} :
            \E relaxed \in BOOLEAN :
              tree' = [tree EXCEPT ![s].lock = lock, ![s].dirty = @ \/ relaxed]
  /\ Become(p, [gate[p] EXCEPT !.passes = IF @ < Passes THEN @ + 1 ELSE @])
  /\ UNCHANGED <<main, registered, locked, base, config, kills, moves>>

RefusedPin(p) ==
  /\ gate[p].pc = "pin"
  /\ LET s == gate[p].sha
     IN  /\ More(gate[p], tree[s].lock)
         /\ \E relaxed \in BOOLEAN : tree' = [tree EXCEPT ![s].dirty = @ \/ relaxed]
         /\ Become(p, [gate[p] EXCEPT !.pc = "measure", !.passes = 0])
  /\ UNCHANGED <<main, registered, locked, base, config, kills, moves>>

Pinned(p) ==
  /\ gate[p].pc = "pin"
  /\ ~More(gate[p], tree[gate[p].sha].lock)
  /\ Become(p, [gate[p] EXCEPT !.pc = "measure", !.passes = 0])
  /\ UNCHANGED <<tree, main, registered, locked, base, config, kills, moves>>

(* Build and measure the checkout.                                          *)
Measure(p) ==
  /\ gate[p].pc = "measure"
  /\ Become(p, Idle)
  /\ UNCHANGED <<tree, main, registered, locked, base, config, kills, moves>>

-----------------------------------------------------------------------------
(* A kill while a directory is removed leaves some of it, with or without   *)
(* its .git file, or none of it; while git removes, its registration too.   *)
(* An interrupted `add' leaves a locked registration, with or without a     *)
(* directory.                                                               *)
Remains(s) ==
  {Gone} \cup (IF tree[s].there THEN {[tree[s] EXCEPT !.linked = l, !.at = None] : l \in {FALSE, tree[s].linked}} ELSE {})

Cut(p) ==
  LET s == gate[p].sha
  IN  \/ /\ gate[p].pc = "discard" /\ \E v \in gate[p].todo : Removable(v) /\ \E t \in Remains(v) : tree' = [tree EXCEPT ![v] = t]
         /\ UNCHANGED <<registered, locked>>
      \/ /\ gate[p].pc = "erase" /\ \E t \in Remains(gate[p].victim) : tree' = [tree EXCEPT ![gate[p].victim] = t]
         /\ UNCHANGED <<registered, locked>>
      \/ /\ gate[p].pc = "remove" /\ \E t \in Remains(s) : tree' = [tree EXCEPT ![s] = t]
         /\ UNCHANGED <<registered, locked>>
      \/ /\ gate[p].pc = "add" /\ s \notin registered /\ ~tree[s].there
         /\ \E t \in {Gone, [Fresh(s) EXCEPT !.at = None]} : tree' = [tree EXCEPT ![s] = t]
         /\ registered' = registered \cup {s} /\ locked' = locked \cup {s}
      \/ /\ gate[p].pc = "checkout" /\ tree[s].linked /\ tree' = [tree EXCEPT ![s].at = None]
         /\ UNCHANGED <<registered, locked>>
      \/ UNCHANGED <<tree, registered, locked>>

Kill(p) ==
  /\ kills < MaxKills /\ gate[p].pc # "idle"
  /\ Cut(p)
  /\ Become(p, Idle)
  /\ kills' = kills + 1
  /\ UNCHANGED <<main, base, config, moves>>

(* The user between gates: the branch is rebased or the base branch         *)
(* fetched, the local config changed, a worktree's directory deleted or     *)
(* edited.                                                                  *)
User ==
  /\ moves < MaxMoves /\ moves' = moves + 1
  /\ \A p \in Procs : gate[p].pc = "idle"
  /\ \/ base' \in Shas /\ UNCHANGED <<config, tree>>
     \/ config' \in Configs \cup {None} /\ UNCHANGED <<base, tree>>
     \/ \E s \in Shas : /\ tree[s].there
                        /\ tree' \in {[tree EXCEPT ![s] = Gone], [tree EXCEPT ![s].dirty = TRUE]}
                        /\ UNCHANGED <<base, config>>
  /\ UNCHANGED <<main, registered, locked, gate, kills>>

Init ==
  /\ tree = [s \in Shas |-> Gone] /\ main = None
  /\ registered = Elsewhere /\ locked = {}
  /\ base \in Shas /\ config \in Configs \cup {None}
  /\ gate = [p \in Procs |-> Idle]
  /\ kills = 0 /\ moves = 0

GateStep(p) ==
  \/ Forget(p) \/ Discard(p) \/ Erase(p) \/ ForgetOther(p) \/ Reuse(p)
  \/ Checkout(p) \/ Clean(p) \/ Remove(p) \/ Add(p) \/ Verify(p)
  \/ SyncConfig(p) \/ PinOne(p) \/ RefusedPin(p) \/ Pinned(p) \/ Measure(p)

Next ==
  \/ \E p \in Procs : Resolve(p) \/ GateStep(p) \/ Kill(p)
  \/ User

(* An invocation goes on unless it is killed; nobody has to start one.      *)
Spec == Init /\ [][Next]_vars /\ \A p \in Procs : WF_vars(GateStep(p))

-----------------------------------------------------------------------------
(* Properties *)

(* Trees, registrations and gates are of their types; what is locked is     *)
(* registered, and no gate works on another checkout than its merge-base's  *)
(* (invoke.rs: with_merge_base_worktree).                                   *)
IsTree(t) ==
  /\ t.there \in BOOLEAN /\ t.linked \in BOOLEAN /\ t.dirty \in BOOLEAN
  /\ t.at \in Shas \cup {None} /\ t.lock \in Locks /\ t.config \in Configs \cup {None}
  /\ ~t.there => t = Gone
IsGate(g) ==
  /\ g.pc \in {"idle", "forget", "discard", "erase", "forgetOther", "checkout", "clean",
               "remove", "add", "verify", "sync", "pin", "measure"}
  /\ g.sha \in Shas \cup {None} /\ (g.pc # "idle" => g.sha \in Shas)
  /\ g.todo \subseteq Shas \ {g.sha}
  /\ g.passes \in 0..Passes /\ g.failed \in Nat
  /\ g.victim # None <=> g.pc \in {"erase", "forgetOther"}
TypeOK ==
  /\ \A s \in Shas : IsTree(tree[s])
  /\ registered \subseteq Shas \cup Elsewhere /\ locked \subseteq registered
  /\ base \in Shas /\ config \in Configs \cup {None} /\ main \in Shas \cup {None}
  /\ \A p \in Procs : IsGate(gate[p])
  /\ kills \in 0..MaxKills /\ moves \in 0..MaxMoves

(* From the moment it is verified to the end of the measurement, what is    *)
(* built is the merge-base (invoke.rs: verify_worktree), and both sides are  *)
(* built under the same untracked config: one an earlier gate copied is not  *)
(* left behind (sync_untracked_cargo_config).                                *)
Building(g) == g.pc \in {"sync", "pin", "measure"}
Configured(g) == g.pc \in {"pin", "measure"} => tree[g.sha].config = config
MeasuresBase ==
  \A p \in Procs : Building(gate[p]) =>
    LET t == tree[gate[p].sha]
    IN  t.there /\ t.linked /\ t.at = gate[p].sha /\ Configured(gate[p])

(* Whatever kills and users left behind, a gate that fails on it clears it: *)
(* the next one of its checkout gets through (invoke.rs:                    *)
(* forget_missing_worktree).                                                *)
HealsItself == \A p \in Procs : gate[p].failed <= 1

(* What is the user's is let alone: the checkout a gate is run in, and the   *)
(* registration of worktrees in directories it cannot see (invoke.rs:       *)
(* is_worktree_root, "send a later `checkout` at the main checkout instead";*)
(* forget_missing_worktree, "Never `git worktree prune'").                   *)
UsersKept == main = None /\ Elsewhere \subseteq registered

(* However cargo answers the pins, one that goes back on another included,  *)
(* a gate ends (invoke.rs: sync_harness_versions, "for _ in 0..16").         *)
GateEnds == \A p \in Procs : gate[p].pc # "idle" ~> gate[p].pc = "idle"
=============================================================================
