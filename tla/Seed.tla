-------------------------------- MODULE Seed --------------------------------
(* The build directories of a gate's two sides, and the copying of HEAD's      *)
(* dependency units into the merge-base's (seed.rs, unitgraph.rs) between the  *)
(* two builds.                                                                 *)
(*                                                                             *)
(* cargo is external: it compiles what a build needs in the order of its       *)
(* dependencies, and leaves alone a unit whose fingerprint is there and none   *)
(* of whose dependencies is younger.  It does not look at what a unit was      *)
(* compiled against; rustc does, and refuses.  A unit's name and fingerprint   *)
(* are one here, so builds of one name differ by when they were made alone.    *)
EXTENDS Naturals, FiniteSets

CONSTANTS
    Units, Needs,       \* units of both sides; per unit, the ones it is linked to
    Members,            \* units of the workspace's own packages
    Plans,              \* what a build may ask for
    MaxBuilt, MaxCleans,\* bounds: units compiled, units the user cleans
    Nobody              \* no unit

UnitsAssumption ==
    /\ IsFiniteSet(Units) /\ Needs \in [Units -> SUBSET Units] /\ Members \subseteq Units
    /\ \A u \in Units \ Members : Needs[u] \cap Members = {}
    /\ Plans \subseteq {plan \in SUBSET Units : \A u \in plan : Needs[u] \subseteq plan}
    /\ MaxBuilt \in Nat /\ MaxCleans \in Nat /\ Nobody \notin Units

VARIABLES
    head, base,   \* the two directories, per unit
    step,         \* where the gate is
    plan, done,   \* what its build is of, and what of it is fresh
    todo, copying,\* the units to copy, the one whose fingerprint is missing
    now, cleans

seedVars == <<head, base, step, plan, done, todo, copying, now, cleans>>
rest == <<now, cleans>>

(* A unit in a directory: when it was compiled, against which build of each    *)
(* dependency, whether its files are all there, and what of its fingerprint.     *)
Unit(at, against, whole, fp) == [at |-> at, against |-> against, whole |-> whole, fp |-> fp]
Absent == Unit(0, [d \in {} |-> 0], FALSE, "none")

\* A fingerprint that is there in part is listed, and vouches for nothing.
Present(dir, u) == dir[u].fp # "none"

SeedInit ==
    /\ head = [u \in Units |-> Absent] /\ base = [u \in Units |-> Absent]
    /\ step = "idle" /\ plan = {} /\ done = {} /\ todo = {} /\ copying = Nobody
    /\ now = 0 /\ cleans = 0

-----------------------------------------------------------------------------
(* A build.                                                                    *)

Fresh(dir, u) == dir[u].fp = "whole" /\ \A d \in Needs[u] : Present(dir, d) /\ dir[d].at <= dir[u].at

Compiled(dir, u) == Unit(now + 1, [d \in Needs[u] |-> dir[d].at], TRUE, "whole")

\* One unit, its dependencies are done.
Build(u) ==
    /\ step \in {"head", "base"} /\ u \in plan \ done /\ Needs[u] \subseteq done
    /\ done' = done \cup {u}
    /\ IF Fresh(IF step = "head" THEN head ELSE base, u) THEN UNCHANGED <<head, base, now>>
       ELSE /\ now < MaxBuilt /\ now' = now + 1
            /\ IF step = "head"
               THEN head' = [head EXCEPT ![u] = Compiled(head, u)] /\ UNCHANGED base
               ELSE base' = [base EXCEPT ![u] = Compiled(base, u)] /\ UNCHANGED head
    /\ UNCHANGED <<step, plan, todo, copying, cleans>>

\* HEAD's build is the gate's first.
Begin ==
    /\ step = "idle" /\ step' = "head"
    /\ plan' \in Plans /\ done' = {}
    /\ UNCHANGED <<head, base, todo, copying, rest>>

-----------------------------------------------------------------------------
(* What is copied.                                                             *)

Candidates == {u \in Units \ Members : Present(head, u) /\ ~Present(base, u)}

\* The merge-base's own builds are those whose outputs are not HEAD's.
IsCopy(u) == Present(head, u) /\ base[u].whole /\ head[u].at = base[u].at
Own == {u \in Units : Present(base, u) /\ ~IsCopy(u)}

\* What one of the merge-base's own builds was compiled against, as far as its
\* fingerprint can be read.
Torn == {u \in Units : base[u].fp = "part"}
OwnNeeds(unread) == UNION {Needs[u] : u \in Own \ unread}

\* A dependency the copy would not find, or not as it knows it.
Foreign(d) == d \in Own \/ (~Present(head, d) /\ ~Present(base, d))

\* Slip: only dependencies count.
ConflictsBelow(u, unread) == \E d \in Needs[u] : Foreign(d)
Conflicts(u, unread) == u \in OwnNeeds(unread) \/ \E d \in Needs[u] : Foreign(d)

\* A candidate with a conflict takes those that need it with it, at whatever
\* distance: the least such set.
Blocked(unread) ==
    LET conflicts == {u \in Candidates : Conflicts(u, unread)}
    IN {u \in Candidates :
          \A S \in SUBSET Candidates :
              conflicts \subseteq S /\ (\A v \in Candidates : Needs[v] \cap S # {} => v \in S)
                => u \in S}

SeedWorktree ==
    /\ step = "head" /\ done = plan
    /\ step' = "seed"
    /\ \E unread \in SUBSET Torn : todo' = Candidates \ Blocked(unread)
    /\ UNCHANGED <<head, base, plan, done, copying, rest>>

\* The files, then the fingerprint.
CopyFiles(u) ==
    /\ step = "seed" /\ copying = Nobody /\ u \in todo
    /\ copying' = u
    /\ base' = [base EXCEPT ![u] = [head[u] EXCEPT !.fp = "none"]]
    /\ UNCHANGED <<head, step, plan, done, todo, rest>>

CopyFingerprint ==
    /\ step = "seed" /\ copying # Nobody
    /\ base' = [base EXCEPT ![copying].fp = head[copying].fp]
    /\ todo' = todo \ {copying} /\ copying' = Nobody
    /\ UNCHANGED <<head, step, plan, done, rest>>

\* Cut short, the unit that is being copied has part of its files, or all of
\* them and part of its fingerprint.
Torso(u) == {base[u], [base[u] EXCEPT !.whole = FALSE], [base[u] EXCEPT !.fp = "part"]}

\* A file cannot be listed or copied: the other units are copied all the same.
CopyFails(u) ==
    /\ step = "seed" /\ copying \in {Nobody, u} /\ u \in todo
    /\ IF copying = Nobody THEN UNCHANGED base
       ELSE \E unit \in Torso(u) : base' = [base EXCEPT ![u] = unit]
    /\ todo' = todo \ {u} /\ copying' = Nobody
    /\ UNCHANGED <<head, step, plan, done, rest>>

BuildBase ==
    /\ step = "seed" /\ todo = {}
    /\ step' = "base" /\ plan' \in Plans /\ done' = {}
    /\ UNCHANGED <<head, base, todo, copying, rest>>

Finish ==
    /\ step = "base" /\ done = plan
    /\ step' = "idle" /\ plan' = {} /\ done' = {}
    /\ UNCHANGED <<head, base, todo, copying, rest>>

-----------------------------------------------------------------------------
Interrupt ==
    /\ step # "idle" /\ step' = "idle"
    /\ plan' = {} /\ done' = {} /\ todo' = {} /\ copying' = Nobody
    /\ IF copying = Nobody THEN UNCHANGED base
       ELSE \E unit \in Torso(copying) : base' = [base EXCEPT ![copying] = unit]
    /\ UNCHANGED <<head, rest>>

\* `cargo clean -p', or a cache that is restored without the unit.
Clean(u) ==
    /\ step = "idle" /\ cleans < MaxCleans /\ cleans' = cleans + 1
    /\ \/ Present(head, u) /\ head' = [head EXCEPT ![u] = Absent] /\ UNCHANGED base
       \/ Present(base, u) /\ base' = [base EXCEPT ![u] = Absent] /\ UNCHANGED head
    /\ UNCHANGED <<step, plan, done, todo, copying, now>>

SeedNext ==
    \/ Begin \/ SeedWorktree \/ CopyFingerprint \/ BuildBase \/ Finish \/ Interrupt
    \/ \E u \in Units : Build(u) \/ CopyFiles(u) \/ CopyFails(u) \/ Clean(u)

-----------------------------------------------------------------------------
\* Whatever was copied, cut short, cleaned or built before, a build of the
\* merge-base links a unit to the very builds of its dependencies it was
\* compiled against, and no unit is part of one: rustc finds every crate
\* (unitgraph.rs: "leaves the merge-base build unable to find the crate";
\* seed.rs: copy_unit).
BaseLinks ==
    step = "base" => \A u \in done :
        base[u].whole /\ \A d \in Needs[u] : base[u].against[d] = base[d].at
=============================================================================
