--------------------------- MODULE ReferenceProofs ---------------------------
(***************************************************************************)
(* What the merge-base's side of a gate promises, for any values of the     *)
(* constants the assumptions allow:                                         *)
(*   - its checkout, one gate at a time, any number of kills and of changes *)
(*     by the user: what is built is the merge-base, a failed gate clears   *)
(*     what it failed on, the user's own checkout and worktrees are let     *)
(*     alone (IInv);                                                        *)
(*   - its build directory: no unit is linked to another build of a         *)
(*     dependency than it was compiled against (DirsInv);                   *)
(*   - an item measured in it: what is returned is what an iteration of it  *)
(*     takes (ItemInv).                                                     *)
(***************************************************************************)
EXTENDS Reference, WellFoundedInduction, TLAPS

OneGate == \A p, q \in Procs : p = q

Pcs == {"idle", "forget", "discard", "erase", "forgetOther", "checkout", "clean",
        "remove", "add", "verify", "sync", "pin", "measure"}

TreeRecord ==
  [there : BOOLEAN, linked : BOOLEAN, at : Shas \cup {None}, dirty : BOOLEAN,
   lock : Locks, config : Configs \cup {None}]

GateRecord ==
  [pc : Pcs, sha : Shas \cup {None}, todo : SUBSET Shas, victim : Shas \cup {None},
   passes : 0..Passes, failed : {0, 1}]

(* What a gate has made of the directories by the step it is at.            *)
Clearing == {"discard", "erase", "forgetOther"}
Using    == {"checkout", "clean", "verify", "sync", "pin", "measure"}

Job(g) ==
  /\ g.pc # "idle" => g.sha \in Shas
  /\ g.todo \subseteq Shas \ {g.sha} /\ (g.pc \notin Clearing => g.todo = {})
  /\ IF g.pc \in {"erase", "forgetOther"} THEN g.victim \in Shas \ {g.sha} ELSE g.victim = None

(* The other merge-bases' checkouts: those there are still to be discarded. *)
Others(g) ==
  \A r \in Shas \ {g.sha} : tree[r].there =>
     \/ g.pc \in {"idle", "forget"}
     \/ g.pc \in Clearing /\ (r \in g.todo \/ (g.pc = "erase" /\ r = g.victim))

(* Its own, and the registration that would make `worktree add' refuse.     *)
Own(g) ==
  LET t == tree[g.sha] IN
  /\ g.pc \in Clearing \cup {"remove"} => t.there \/ g.sha \notin registered
  /\ g.pc = "remove" => ~(t.there /\ t.linked)
  /\ g.pc = "add" => ~t.there /\ (g.failed = 1 => g.sha \notin registered)
  /\ g.pc \in Using => t.there /\ t.linked
  /\ g.pc \in Using \ {"checkout"} => t.at = g.sha
  /\ g.pc \in {"clean", "verify"} => t.lock = BaseLock
  /\ g.pc = "verify" => ~t.dirty
  /\ g.pc \in {"verify", "sync"} => Ignored \/ t.config = None
  /\ g.pc \in {"pin", "measure"} => Ignored \/ t.config = config

(* A gate that failed left no directory behind without its .git file.       *)
Cleared(g) == g.failed = 1 => \A r \in Shas : tree[r].there => tree[r].linked

GateInv(g) == g \in GateRecord /\ Job(g) /\ Others(g) /\ Own(g) /\ Cleared(g)

GitInv ==
  /\ tree \in [Shas -> TreeRecord] /\ \A s \in Shas : ~tree[s].there => tree[s] = Gone
  /\ registered \subseteq Shas \cup Elsewhere /\ Elsewhere \subseteq registered
  /\ locked \subseteq registered
  /\ base \in Shas /\ config \in Configs \cup {None} /\ main = None
  /\ kills \in 0..MaxKills /\ moves \in 0..MaxMoves

IInv ==
  /\ GitInv
  /\ gate = [p \in Procs |-> gate[p]] /\ \A p \in Procs : GateInv(gate[p])

-----------------------------------------------------------------------------
(* Records.                                                                 *)

(* A directory that is there, none, and a new one.                          *)
LEMMA Trees ==
  /\ Gone \in TreeRecord /\ ~Gone.there /\ ~Gone.linked
  /\ \A s \in Shas : /\ Fresh(s) \in TreeRecord /\ Fresh(s).there /\ Fresh(s).linked
                     /\ Fresh(s).at = s /\ ~Fresh(s).dirty /\ Fresh(s).lock = BaseLock
                     /\ Fresh(s).config = None
<1> DEFINE t == Tree(FALSE, None, FALSE, BaseLock, None)
<1>1. t \in TreeRecord
  BY LocksAssumption DEF Tree, TreeRecord, Locks
<1>2. Gone \in TreeRecord /\ ~Gone.there /\ Gone.linked = t.linked
  <2> HIDE DEF t
  <2>1. Gone = [t EXCEPT !.there = FALSE]
    BY DEF t, Gone
  <2> QED
    BY <1>1, <2>1 DEF TreeRecord
<1>3. ~t.linked
  BY DEF Tree
<1> QED
  BY <1>2, <1>3, LocksAssumption DEF Fresh, Tree, TreeRecord, Locks

(* One gate moves on.                                                       *)
LEMMA Moves ==
  ASSUME OneGate, IInv, NEW p \in Procs, NEW h, gate' = [gate EXCEPT ![p] = h],
         GitInv', GateInv(gate[p])'
  PROVE  IInv'
<1>1. gate' = [q \in Procs |-> gate'[q]]
  BY DEF IInv
<1>2. \A q \in Procs : q = p
  BY DEF OneGate
<1> QED
  BY <1>1, <1>2 DEF IInv

(* Only one directory is touched.                                           *)
LEMMA Touches ==
  ASSUME GitInv, NEW s \in Shas, NEW t \in TreeRecord, ~t.there => t = Gone,
         tree' = [tree EXCEPT ![s] = t]
  PROVE  /\ tree' \in [Shas -> TreeRecord] /\ tree'[s] = t
         /\ \A r \in Shas \ {s} : tree'[r] = tree[r]
         /\ \A r \in Shas : ~tree'[r].there => tree'[r] = Gone
BY DEF GitInv

(* Dropping a registration of this checkout is all that is done to git's.   *)
LEMMA Forgets ==
  ASSUME GitInv, NEW s \in Shas, Forgotten(s) \/ UNCHANGED <<registered, locked>>
  PROVE  /\ registered' \subseteq Shas \cup Elsewhere /\ Elsewhere \subseteq registered'
         /\ locked' \subseteq registered'
         /\ registered' \subseteq registered
         /\ Forgotten(s) => s \notin registered'
BY ShasAssumption DEF GitInv, Forgotten

(* The steps.                                                               *)

LEMMA ResolveKeeps ==
  ASSUME OneGate, IInv, NEW p \in Procs, Resolve(p)
  PROVE  IInv'
<1> DEFINE g == gate[p]
           h == [g EXCEPT !.pc = "forget", !.sha = base]
<1>1. GateInv(g) /\ GitInv /\ g.pc = "idle" /\ gate' = [gate EXCEPT ![p] = h]
  BY DEF IInv, Resolve, Become
<1>2. /\ h \in GateRecord /\ h.pc = "forget" /\ h.sha = base /\ h.todo = g.todo
      /\ h.victim = g.victim /\ h.failed = g.failed
  BY <1>1 DEF GateInv, Job, GateRecord, Pcs, Clearing, GitInv
<1> HIDE DEF h
<1>3. gate'[p] = h
  BY <1>1 DEF IInv
<1>4. GitInv'
  BY <1>1 DEF Resolve, GitInv
<1>5. GateInv(gate[p])'
  BY <1>1, <1>2, <1>3 DEF Resolve, GateInv, Job, Others, Own, Cleared, Clearing, Using, GitInv
<1> QED
  BY <1>1, <1>4, <1>5, Moves

LEMMA ForgetKeeps ==
  ASSUME OneGate, IInv, NEW p \in Procs, Forget(p)
  PROVE  IInv'
<1> DEFINE g == gate[p]
           h == [g EXCEPT !.pc = "discard", !.todo = {s \in Shas \ {g.sha} : tree[s].there}]
<1>1. GateInv(g) /\ GitInv /\ g.pc = "forget" /\ gate' = [gate EXCEPT ![p] = h]
  BY DEF IInv, Forget, Become
<1>2. /\ h \in GateRecord /\ h.pc = "discard" /\ h.sha = g.sha
      /\ h.todo = {s \in Shas \ {g.sha} : tree[s].there}
      /\ h.victim = g.victim /\ h.failed = g.failed
  BY <1>1 DEF GateInv, Job, GateRecord, Pcs, Clearing, GitInv
<1> HIDE DEF h
<1>3. gate'[p] = h
  BY <1>1 DEF IInv
<1>4. g.sha \in Shas /\ tree' = tree /\ (tree[g.sha].there \/ g.sha \notin registered')
  BY <1>1, Forgets DEF Forget, ForgetMissing, GateInv, Job
<1>5. GitInv'
  <2>1. Forgotten(g.sha) \/ UNCHANGED <<registered, locked>>
    BY DEF Forget, ForgetMissing
  <2> QED
    BY <1>1, <1>4, <2>1, Forgets DEF Forget, GitInv
<1>6. GateInv(gate[p])'
  BY <1>1, <1>2, <1>3, <1>4 DEF GateInv, Job, Others, Own, Cleared, Clearing, Using, GitInv
<1> QED
  BY <1>1, <1>5, <1>6, Moves

LEMMA DiscardKeeps ==
  ASSUME OneGate, IInv, NEW p \in Procs, Discard(p)
  PROVE  IInv'
<1> DEFINE g == gate[p]
<1>1. GateInv(g) /\ GitInv /\ g.pc = "discard"
  BY DEF IInv, Discard
<1>2. PICK v \in g.todo :
        /\ IF Removable(v) THEN tree' = [tree EXCEPT ![v] = Gone] /\ Forgotten(v)
           ELSE UNCHANGED <<tree, registered, locked>>
        /\ Become(p, [g EXCEPT !.pc = "erase", !.victim = v, !.todo = @ \ {v}])
  BY DEF Discard
<1> DEFINE h == [g EXCEPT !.pc = "erase", !.victim = v, !.todo = @ \ {v}]
<1>3. v \in Shas \ {g.sha} /\ gate' = [gate EXCEPT ![p] = h]
  BY <1>1, <1>2 DEF GateInv, Job, Become
<1>4. /\ h \in GateRecord /\ h.pc = "erase" /\ h.sha = g.sha /\ h.todo = g.todo \ {v}
      /\ h.victim = v /\ h.failed = g.failed
  BY <1>1, <1>3 DEF GateInv, GateRecord, Pcs
<1> HIDE DEF h
<1>5. gate'[p] = h
  BY <1>3 DEF IInv
<1>6. /\ tree' \in [Shas -> TreeRecord]
      /\ \A r \in Shas \ {v} : tree'[r] = tree[r]
      /\ \A r \in Shas : ~tree'[r].there => tree'[r] = Gone
      /\ tree'[v].there => tree'[v] = tree[v]
  BY <1>1, <1>2, <1>3, Touches, Trees DEF GitInv
<1>7. Forgotten(v) \/ UNCHANGED <<registered, locked>>
  BY <1>2
<1>8. GitInv'
  BY <1>1, <1>3, <1>6, <1>7, Forgets DEF Discard, GitInv
<1>9. GateInv(gate[p])'
  <2>1. registered' \subseteq registered
    BY <1>1, <1>3, <1>7, Forgets
  <2> QED
    BY <1>1, <1>3, <1>4, <1>5, <1>6, <2>1, Trees
    DEF GateInv, Job, Others, Own, Cleared, Clearing, Using, GitInv
<1> QED
  BY <1>3, <1>8, <1>9, Moves

LEMMA EraseKeeps ==
  ASSUME OneGate, IInv, NEW p \in Procs, Erase(p)
  PROVE  IInv'
<1> DEFINE g == gate[p]
           h == [g EXCEPT !.pc = "forgetOther"]
<1>1. GateInv(g) /\ GitInv /\ g.pc = "erase" /\ gate' = [gate EXCEPT ![p] = h]
  BY DEF IInv, Erase, Become, Step
<1>2. /\ h \in GateRecord /\ h.pc = "forgetOther" /\ h.sha = g.sha /\ h.todo = g.todo
      /\ h.victim = g.victim /\ h.failed = g.failed
  BY <1>1 DEF GateInv, Job, GateRecord, Pcs, Clearing, GitInv
<1> HIDE DEF h
<1>3. gate'[p] = h
  BY <1>1 DEF IInv
<1>4. /\ g.victim \in Shas \ {g.sha} /\ tree' \in [Shas -> TreeRecord] /\ tree'[g.victim] = Gone
      /\ \A r \in Shas \ {g.victim} : tree'[r] = tree[r]
      /\ \A r \in Shas : ~tree'[r].there => tree'[r] = Gone
  BY <1>1, Touches, Trees DEF Erase, GateInv, Job
<1>5. GitInv'
  BY <1>1, <1>4 DEF Erase, GitInv
<1>6. GateInv(gate[p])'
  BY <1>1, <1>2, <1>3, <1>4, Trees
  DEF Erase, GateInv, Job, Others, Own, Cleared, Clearing, Using, GitInv
<1> QED
  BY <1>1, <1>5, <1>6, Moves

LEMMA ForgetOtherKeeps ==
  ASSUME OneGate, IInv, NEW p \in Procs, ForgetOther(p)
  PROVE  IInv'
<1> DEFINE g == gate[p]
           h == [g EXCEPT !.pc = "discard", !.victim = None]
<1>1. GateInv(g) /\ GitInv /\ g.pc = "forgetOther" /\ gate' = [gate EXCEPT ![p] = h]
  BY DEF IInv, ForgetOther, Become
<1>2. /\ h \in GateRecord /\ h.pc = "discard" /\ h.sha = g.sha /\ h.todo = g.todo
      /\ h.victim = None /\ h.failed = g.failed
  BY <1>1 DEF GateInv, Job, GateRecord, Pcs, Clearing, GitInv
<1> HIDE DEF h
<1>3. gate'[p] = h
  BY <1>1 DEF IInv
<1>4. /\ g.victim \in Shas \ {g.sha} /\ tree' = tree
      /\ Forgotten(g.victim) \/ UNCHANGED <<registered, locked>>
  BY <1>1 DEF ForgetOther, ForgetMissing, GateInv, Job
<1>5. GitInv'
  BY <1>1, <1>4, Forgets DEF ForgetOther, GitInv
<1>6. GateInv(gate[p])'
  <2>1. registered' \subseteq registered
    BY <1>1, <1>4, Forgets
  <2> QED
    BY <1>1, <1>2, <1>3, <1>4, <2>1
    DEF GateInv, Job, Others, Own, Cleared, Clearing, Using, GitInv
<1> QED
  BY <1>1, <1>5, <1>6, Moves

LEMMA ReuseKeeps ==
  ASSUME OneGate, IInv, NEW p \in Procs, Reuse(p)
  PROVE  IInv'
<1> DEFINE g == gate[p]
           h == [g EXCEPT !.pc = IF tree[g.sha].there /\ tree[g.sha].linked
                                 THEN "checkout" ELSE "remove"]
<1>1. GateInv(g) /\ GitInv /\ g.pc = "discard" /\ gate' = [gate EXCEPT ![p] = h]
  BY DEF IInv, Reuse, Become
<1>2. /\ h \in GateRecord
      /\ h.pc = (IF tree[g.sha].there /\ tree[g.sha].linked THEN "checkout" ELSE "remove")
      /\ h.sha = g.sha /\ h.todo = g.todo /\ h.victim = g.victim /\ h.failed = g.failed
  BY <1>1 DEF GateInv, Job, GateRecord, Pcs, Clearing, GitInv
<1> HIDE DEF h
<1>3. gate'[p] = h
  BY <1>1 DEF IInv
<1>4. GitInv'
  BY <1>1 DEF Reuse, GitInv
<1>5. GateInv(gate[p])'
  BY <1>1, <1>2, <1>3 DEF Reuse, GateInv, Job, Others, Own, Cleared, Clearing, Using, GitInv
<1> QED
  BY <1>1, <1>4, <1>5, Moves

LEMMA CheckoutKeeps ==
  ASSUME OneGate, IInv, NEW p \in Procs, Checkout(p)
  PROVE  IInv'
<1> DEFINE g == gate[p]
           t == tree[g.sha]
           h == [g EXCEPT !.pc = "clean"]
<1>1. /\ GateInv(g) /\ GitInv /\ g.pc = "checkout" /\ g.sha \in Shas
      /\ t \in TreeRecord /\ t.there /\ t.linked
  BY DEF IInv, Checkout, Step, GateInv, Job, Own, Using, GitInv
<1>2. gate' = [gate EXCEPT ![p] = h]
  BY <1>1 DEF Checkout, Step, Become
<1>3. /\ h \in GateRecord /\ h.pc = "clean" /\ h.sha = g.sha /\ h.todo = g.todo
      /\ h.victim = g.victim /\ h.failed = g.failed
  BY <1>1 DEF GateInv, GateRecord, Pcs
<1> HIDE DEF h
<1>4. gate'[p] = h
  BY <1>2 DEF IInv
<1> DEFINE u == [t EXCEPT !.at = g.sha, !.lock = BaseLock]
<1>5. /\ u \in TreeRecord /\ u.there /\ u.linked
      /\ u.at = g.sha /\ u.lock = BaseLock
  BY <1>1, ShasAssumption, LocksAssumption DEF TreeRecord, Locks, GitInv
<1>6. tree' = [tree EXCEPT ![g.sha] = u]
  BY <1>1 DEF Checkout, GitInv
<1> HIDE DEF u
<1>7. /\ tree' \in [Shas -> TreeRecord] /\ tree'[g.sha] = u
      /\ \A r \in Shas \ {g.sha} : tree'[r] = tree[r]
      /\ \A r \in Shas : ~tree'[r].there => tree'[r] = Gone
  BY <1>1, <1>5, <1>6, Touches
<1>8. GitInv'
  BY <1>1, <1>7 DEF Checkout, GitInv
<1>9. registered' = registered /\ config' = config
  BY DEF Checkout
<1>10. GateInv(gate[p])'
  BY <1>1, <1>3, <1>4, <1>5, <1>7, <1>9
  DEF GateInv, Job, Others, Own, Cleared, Clearing, Using, GitInv
<1> QED
  BY <1>2, <1>8, <1>10, Moves

LEMMA CleanKeeps ==
  ASSUME OneGate, IInv, NEW p \in Procs, Clean(p)
  PROVE  IInv'
<1> DEFINE g == gate[p]
           t == tree[g.sha]
           h == [g EXCEPT !.pc = "verify"]
<1>1. /\ GateInv(g) /\ GitInv /\ g.pc = "clean" /\ g.sha \in Shas
      /\ t \in TreeRecord /\ t.there /\ t.linked
  BY DEF IInv, Clean, Step, GateInv, Job, Own, Using, GitInv
<1>2. gate' = [gate EXCEPT ![p] = h]
  BY <1>1 DEF Clean, Step, Become
<1>3. /\ h \in GateRecord /\ h.pc = "verify" /\ h.sha = g.sha /\ h.todo = g.todo
      /\ h.victim = g.victim /\ h.failed = g.failed
  BY <1>1 DEF GateInv, GateRecord, Pcs
<1> HIDE DEF h
<1>4. gate'[p] = h
  BY <1>2 DEF IInv
<1> DEFINE u == [t EXCEPT !.dirty = FALSE, !.config = IF Ignored THEN @ ELSE None]
<1>5. /\ u \in TreeRecord /\ u.there /\ u.linked
      /\ u.at = t.at /\ ~u.dirty /\ u.lock = t.lock /\ (Ignored \/ u.config = None)
  BY <1>1, ShasAssumption, LocksAssumption DEF TreeRecord, Locks, GitInv
<1>6. tree' = [tree EXCEPT ![g.sha] = u]
  BY <1>1 DEF Clean, GitInv
<1> HIDE DEF u
<1>7. /\ tree' \in [Shas -> TreeRecord] /\ tree'[g.sha] = u
      /\ \A r \in Shas \ {g.sha} : tree'[r] = tree[r]
      /\ \A r \in Shas : ~tree'[r].there => tree'[r] = Gone
  BY <1>1, <1>5, <1>6, Touches
<1>8. GitInv'
  BY <1>1, <1>7 DEF Clean, GitInv
<1>9. registered' = registered /\ config' = config
  BY DEF Clean
<1>10. GateInv(gate[p])'
  BY <1>1, <1>3, <1>4, <1>5, <1>7, <1>9
  DEF GateInv, Job, Others, Own, Cleared, Clearing, Using, GitInv
<1> QED
  BY <1>2, <1>8, <1>10, Moves

LEMMA RemoveKeeps ==
  ASSUME OneGate, IInv, NEW p \in Procs, Remove(p)
  PROVE  IInv'
<1> DEFINE g == gate[p]
           h == [g EXCEPT !.pc = "add"]
<1>1. GateInv(g) /\ GitInv /\ g.pc = "remove" /\ gate' = [gate EXCEPT ![p] = h]
  BY DEF IInv, Remove, Become, Step
<1>2. /\ h \in GateRecord /\ h.pc = "add" /\ h.sha = g.sha /\ h.todo = g.todo
      /\ h.victim = g.victim /\ h.failed = g.failed
  BY <1>1 DEF GateInv, Job, GateRecord, Pcs, Clearing, GitInv
<1> HIDE DEF h
<1>3. gate'[p] = h
  BY <1>1 DEF IInv
<1>4. /\ g.sha \in Shas /\ tree' \in [Shas -> TreeRecord] /\ tree'[g.sha] = Gone
      /\ \A r \in Shas \ {g.sha} : tree'[r] = tree[r]
      /\ \A r \in Shas : ~tree'[r].there => tree'[r] = Gone
  BY <1>1, Touches, Trees DEF Remove, GateInv, Job
<1>5. GitInv'
  BY <1>1, <1>4 DEF Remove, GitInv
<1>6. GateInv(gate[p])'
  BY <1>1, <1>2, <1>3, <1>4, Trees
  DEF Remove, GateInv, Job, Others, Own, Cleared, Clearing, Using, GitInv
<1> QED
  BY <1>1, <1>5, <1>6, Moves

LEMMA AddKeeps ==
  ASSUME OneGate, IInv, NEW p \in Procs, Add(p)
  PROVE  IInv'
<1> DEFINE g == gate[p]
           s == g.sha
<1>1. GateInv(g) /\ GitInv /\ g.pc = "add" /\ s \in Shas /\ ~tree[s].there
  BY DEF IInv, Add, GateInv, Job, Own
<1>2. CASE s \in registered
  <2> DEFINE h == [Idle EXCEPT !.failed = g.failed + 1]
  <2>1. g.failed = 0
    BY <1>1, <1>2 DEF GateInv, GateRecord, Own
  <2>2. /\ h \in GateRecord /\ h.pc = "idle" /\ h.sha = None /\ h.todo = {}
        /\ h.victim = None /\ h.failed = 1
    BY <2>1, BoundsAssumption DEF Idle, GateRecord, Pcs
  <2>3. gate' = [gate EXCEPT ![p] = h] /\ UNCHANGED <<tree, registered>>
    BY <1>1, <1>2 DEF Add, Fail, Become
  <2> HIDE DEF h
  <2>4. gate'[p] = h
    BY <2>3 DEF IInv
  <2>5. GitInv'
    BY <1>1, <2>3 DEF Add, GitInv
  <2>6. GateInv(gate[p])'
    BY <1>1, <2>2, <2>3, <2>4 DEF GateInv, Job, Others, Own, Cleared, Clearing, Using, GitInv
  <2> QED
    BY <2>3, <2>5, <2>6, Moves
<1>3. CASE s \notin registered
  <2> DEFINE h == [g EXCEPT !.pc = "verify"]
  <2>1. /\ gate' = [gate EXCEPT ![p] = h] /\ tree' = [tree EXCEPT ![s] = Fresh(s)]
        /\ registered' = registered \cup {s}
    BY <1>1, <1>3 DEF Add, Become
  <2>2. /\ h \in GateRecord /\ h.pc = "verify" /\ h.sha = g.sha /\ h.todo = g.todo
        /\ h.victim = g.victim /\ h.failed = g.failed
    BY <1>1 DEF GateInv, GateRecord, Pcs
  <2> HIDE DEF h
  <2>3. gate'[p] = h
    BY <2>1 DEF IInv
  <2>4. /\ tree' \in [Shas -> TreeRecord] /\ tree'[s] = Fresh(s)
        /\ \A r \in Shas \ {s} : tree'[r] = tree[r]
        /\ \A r \in Shas : ~tree'[r].there => tree'[r] = Gone
    BY <1>1, <2>1, Touches, Trees
  <2>5. GitInv'
    BY <1>1, <2>1, <2>4 DEF Add, GitInv
  <2>6. GateInv(gate[p])'
    BY <1>1, <2>2, <2>3, <2>4, Trees
    DEF GateInv, Job, Others, Own, Cleared, Clearing, Using, GitInv
  <2> QED
    BY <2>1, <2>5, <2>6, Moves
<1> QED
  BY <1>2, <1>3

LEMMA VerifyKeeps ==
  ASSUME OneGate, IInv, NEW p \in Procs, Verify(p)
  PROVE  IInv'
<1> DEFINE g == gate[p]
           t == tree[g.sha]
           h == [g EXCEPT !.pc = "sync"]
<1>1. /\ GateInv(g) /\ GitInv /\ g.pc = "verify" /\ g.sha \in Shas
      /\ t \in TreeRecord /\ t.there /\ t.linked
  BY DEF IInv, Verify, Step, GateInv, Job, Own, Using, GitInv
<1>2. gate' = [gate EXCEPT ![p] = h]
  <2>1. Proves(t, g.sha)
    BY <1>1 DEF GateInv, Own, Using, Proves, Changed
  <2> QED
    BY <2>1 DEF Verify, Become
<1>3. /\ h \in GateRecord /\ h.pc = "sync" /\ h.sha = g.sha /\ h.todo = g.todo
      /\ h.victim = g.victim /\ h.failed = g.failed
  BY <1>1 DEF GateInv, GateRecord, Pcs
<1> HIDE DEF h
<1>4. gate'[p] = h
  BY <1>2 DEF IInv
<1>5. GitInv'
  BY <1>1 DEF Verify, GitInv
<1>6. GateInv(gate[p])'
  BY <1>1, <1>3, <1>4 DEF Verify, GateInv, Job, Others, Own, Cleared, Clearing, Using, GitInv
<1> QED
  BY <1>2, <1>5, <1>6, Moves

LEMMA SyncConfigKeeps ==
  ASSUME OneGate, IInv, NEW p \in Procs, SyncConfig(p)
  PROVE  IInv'
<1> DEFINE g == gate[p]
           t == tree[g.sha]
           h == [g EXCEPT !.pc = "pin"]
<1>1. /\ GateInv(g) /\ GitInv /\ g.pc = "sync" /\ g.sha \in Shas
      /\ t \in TreeRecord /\ t.there /\ t.linked
  BY DEF IInv, SyncConfig, Step, GateInv, Job, Own, Using, GitInv
<1>2. gate' = [gate EXCEPT ![p] = h]
  BY <1>1 DEF SyncConfig, Step, Become
<1>3. /\ h \in GateRecord /\ h.pc = "pin" /\ h.sha = g.sha /\ h.todo = g.todo
      /\ h.victim = g.victim /\ h.failed = g.failed
  BY <1>1 DEF GateInv, GateRecord, Pcs
<1> HIDE DEF h
<1>4. gate'[p] = h
  BY <1>2 DEF IInv
<1> DEFINE u == IF config = None THEN t ELSE [t EXCEPT !.config = config]
<1>5. /\ u \in TreeRecord /\ u.there /\ u.linked
      /\ u.at = t.at /\ u.config = IF config = None THEN t.config ELSE config
  BY <1>1, ShasAssumption, LocksAssumption DEF TreeRecord, Locks, GitInv
<1>6. tree' = [tree EXCEPT ![g.sha] = u]
  BY <1>1 DEF SyncConfig, GitInv
<1> HIDE DEF u
<1>7. /\ tree' \in [Shas -> TreeRecord] /\ tree'[g.sha] = u
      /\ \A r \in Shas \ {g.sha} : tree'[r] = tree[r]
      /\ \A r \in Shas : ~tree'[r].there => tree'[r] = Gone
  BY <1>1, <1>5, <1>6, Touches
<1>8. GitInv'
  BY <1>1, <1>7 DEF SyncConfig, GitInv
<1>9. registered' = registered /\ config' = config
  BY DEF SyncConfig
<1>10. GateInv(gate[p])'
  BY <1>1, <1>3, <1>4, <1>5, <1>7, <1>9
  DEF GateInv, Job, Others, Own, Cleared, Clearing, Using, GitInv
<1> QED
  BY <1>2, <1>8, <1>10, Moves

LEMMA PinOneKeeps ==
  ASSUME OneGate, IInv, NEW p \in Procs, PinOne(p)
  PROVE  IInv'
<1> DEFINE g == gate[p]
           t == tree[g.sha]
           h == [g EXCEPT !.passes = IF @ < Passes THEN @ + 1 ELSE @]
<1>1. /\ GateInv(g) /\ GitInv /\ g.pc = "pin" /\ g.sha \in Shas
      /\ t \in TreeRecord /\ t.there /\ t.linked
  BY DEF IInv, PinOne, GateInv, Job, Own, Using, GitInv
<1>2. gate' = [gate EXCEPT ![p] = h]
  BY DEF PinOne, Become, IInv
<1>3. /\ h \in GateRecord /\ h.pc = "pin" /\ h.sha = g.sha /\ h.todo = g.todo
      /\ h.victim = g.victim /\ h.failed = g.failed
  BY <1>1, BoundsAssumption DEF GateInv, GateRecord, Pcs
<1> HIDE DEF h
<1>4. gate'[p] = h
  BY <1>2 DEF IInv
<1>5. PICK lock \in Locks, relaxed \in BOOLEAN :
         tree' = [tree EXCEPT ![g.sha].lock = lock, ![g.sha].dirty = @ \/ relaxed]
  BY DEF PinOne
<1> DEFINE u == [t EXCEPT !.lock = lock, !.dirty = @ \/ relaxed]
<1>6. /\ u \in TreeRecord /\ u.there /\ u.linked
      /\ u.at = t.at /\ u.config = t.config
  BY <1>1, <1>5, ShasAssumption, LocksAssumption DEF TreeRecord, Locks, GitInv
<1>7. tree' = [tree EXCEPT ![g.sha] = u]
  BY <1>1, <1>5 DEF PinOne, GitInv
<1> HIDE DEF u
<1>8. /\ tree' \in [Shas -> TreeRecord] /\ tree'[g.sha] = u
      /\ \A r \in Shas \ {g.sha} : tree'[r] = tree[r]
      /\ \A r \in Shas : ~tree'[r].there => tree'[r] = Gone
  BY <1>1, <1>6, <1>7, Touches
<1>9. GitInv'
  BY <1>1, <1>8 DEF PinOne, GitInv
<1>10. registered' = registered /\ config' = config
  BY DEF PinOne
<1>11. GateInv(gate[p])'
  BY <1>1, <1>3, <1>4, <1>6, <1>8, <1>10
  DEF GateInv, Job, Others, Own, Cleared, Clearing, Using, GitInv
<1> QED
  BY <1>2, <1>9, <1>11, Moves

LEMMA RefusedPinKeeps ==
  ASSUME OneGate, IInv, NEW p \in Procs, RefusedPin(p)
  PROVE  IInv'
<1> DEFINE g == gate[p]
           t == tree[g.sha]
           h == [g EXCEPT !.pc = "measure", !.passes = 0]
<1>1. /\ GateInv(g) /\ GitInv /\ g.pc = "pin" /\ g.sha \in Shas
      /\ t \in TreeRecord /\ t.there /\ t.linked
  BY DEF IInv, RefusedPin, GateInv, Job, Own, Using, GitInv
<1>2. gate' = [gate EXCEPT ![p] = h]
  BY DEF RefusedPin, Become, IInv
<1>3. /\ h \in GateRecord /\ h.pc = "measure" /\ h.sha = g.sha /\ h.todo = g.todo
      /\ h.victim = g.victim /\ h.failed = g.failed
  <2>1. 0 \in 0..Passes /\ "measure" \in Pcs
    BY BoundsAssumption DEF Pcs
  <2> QED
    BY <1>1, <2>1 DEF GateInv, GateRecord
<1> HIDE DEF h
<1>4. gate'[p] = h
  BY <1>2 DEF IInv
<1>5. PICK relaxed \in BOOLEAN : tree' = [tree EXCEPT ![g.sha].dirty = @ \/ relaxed]
  BY DEF RefusedPin
<1> DEFINE u == [t EXCEPT !.dirty = @ \/ relaxed]
<1>6. /\ u \in TreeRecord /\ u.there /\ u.linked
      /\ u.at = t.at /\ u.config = t.config
  BY <1>1, <1>5, ShasAssumption, LocksAssumption DEF TreeRecord, Locks, GitInv
<1>7. tree' = [tree EXCEPT ![g.sha] = u]
  BY <1>1, <1>5 DEF RefusedPin, GitInv
<1> HIDE DEF u
<1>8. /\ tree' \in [Shas -> TreeRecord] /\ tree'[g.sha] = u
      /\ \A r \in Shas \ {g.sha} : tree'[r] = tree[r]
      /\ \A r \in Shas : ~tree'[r].there => tree'[r] = Gone
  BY <1>1, <1>6, <1>7, Touches
<1>9. GitInv'
  BY <1>1, <1>8 DEF RefusedPin, GitInv
<1>10. registered' = registered /\ config' = config
  BY DEF RefusedPin
<1>11. GateInv(gate[p])'
  BY <1>1, <1>3, <1>4, <1>6, <1>8, <1>10
  DEF GateInv, Job, Others, Own, Cleared, Clearing, Using, GitInv
<1> QED
  BY <1>2, <1>9, <1>11, Moves

LEMMA PinnedKeeps ==
  ASSUME OneGate, IInv, NEW p \in Procs, Pinned(p)
  PROVE  IInv'
<1> DEFINE g == gate[p]
           t == tree[g.sha]
           h == [g EXCEPT !.pc = "measure", !.passes = 0]
<1>1. /\ GateInv(g) /\ GitInv /\ g.pc = "pin" /\ g.sha \in Shas
      /\ t \in TreeRecord /\ t.there /\ t.linked
  BY DEF IInv, Pinned, Step, GateInv, Job, Own, Using, GitInv
<1>2. gate' = [gate EXCEPT ![p] = h]
  BY <1>1 DEF Pinned, Step, Become
<1>3. /\ h \in GateRecord /\ h.pc = "measure" /\ h.sha = g.sha /\ h.todo = g.todo
      /\ h.victim = g.victim /\ h.failed = g.failed
  <2>1. 0 \in 0..Passes /\ "measure" \in Pcs
    BY BoundsAssumption DEF Pcs
  <2> QED
    BY <1>1, <2>1 DEF GateInv, GateRecord
<1> HIDE DEF h
<1>4. gate'[p] = h
  BY <1>2 DEF IInv
<1>5. GitInv'
  BY <1>1 DEF Pinned, GitInv
<1>6. GateInv(gate[p])'
  BY <1>1, <1>3, <1>4 DEF Pinned, GateInv, Job, Others, Own, Cleared, Clearing, Using, GitInv
<1> QED
  BY <1>2, <1>5, <1>6, Moves

LEMMA IdleGate ==
  /\ Idle \in GateRecord /\ Idle.pc = "idle" /\ Idle.todo = {} /\ Idle.victim = None
  /\ Idle.failed = 0 /\ Idle.sha = None
<1>1. 0 \in 0..Passes
  BY BoundsAssumption
<1> QED
  BY <1>1 DEF Idle, GateRecord, Pcs

(* A gate that is over, or was killed, has nothing left to keep.            *)
LEMMA EndsKeeps ==
  ASSUME OneGate, IInv, NEW p \in Procs, Become(p, Idle), GitInv'
  PROVE  IInv'
<1>1. gate' = [gate EXCEPT ![p] = Idle] /\ gate'[p] = Idle
  BY DEF Become, IInv
<1>2. GateInv(gate[p])'
  BY <1>1, IdleGate DEF GateInv, Job, Others, Own, Cleared, Clearing, Using
<1> QED
  BY <1>1, <1>2, Moves

LEMMA MeasureKeeps ==
  ASSUME OneGate, IInv, NEW p \in Procs, Measure(p)
  PROVE  IInv'
<1>1. GitInv'
  BY DEF Measure, IInv, GitInv
<1> QED
  BY <1>1, EndsKeeps DEF Measure

(* Whatever a kill leaves of a directory is a directory, or none.           *)
LEMMA RemainsOf ==
  ASSUME GitInv, NEW s \in Shas, NEW t \in Remains(s)
  PROVE  t \in TreeRecord /\ (~t.there => t = Gone)
<1>1. tree[s] \in TreeRecord
  BY DEF GitInv
<1>2. CASE t = Gone
  BY <1>2, Trees
<1>3. ASSUME tree[s].there, NEW l \in {FALSE, tree[s].linked}, t = [tree[s] EXCEPT !.linked = l, !.at = None]
      PROVE  t \in TreeRecord /\ t.there
  BY <1>1, <1>3 DEF TreeRecord
<1> QED
  BY <1>2, <1>3 DEF Remains

LEMMA CutKeeps ==
  ASSUME IInv, NEW p \in Procs, gate[p].pc # "idle", Cut(p), UNCHANGED <<main, base, config, moves>>,
         kills' \in 0..MaxKills
  PROVE  GitInv'
<1> DEFINE g == gate[p]
           s == g.sha
<1>1. GitInv /\ GateInv(g) /\ s \in Shas /\ tree[s] \in TreeRecord
  BY DEF IInv, GateInv, Job, GitInv
<1>2. ASSUME NEW v \in Shas, NEW t \in TreeRecord, ~t.there => t = Gone, tree' = [tree EXCEPT ![v] = t],
             \/ UNCHANGED <<registered, locked>>
             \/ registered' = registered \cup {s} /\ locked' = locked \cup {s}
      PROVE  GitInv'
  <2>1. tree' \in [Shas -> TreeRecord] /\ \A r \in Shas : ~tree'[r].there => tree'[r] = Gone
    BY <1>1, <1>2, Touches
  <2> QED
    BY <1>1, <1>2, <2>1 DEF GitInv
<1>3. CASE g.pc = "discard" /\ (\E v \in g.todo : Removable(v) /\ \E t \in Remains(v) : tree' = [tree EXCEPT ![v] = t])
           /\ UNCHANGED <<registered, locked>>
  <2>1. PICK v \in g.todo : \E t \in Remains(v) : tree' = [tree EXCEPT ![v] = t]
    BY <1>3
  <2>2. v \in Shas
    BY <1>1 DEF GateInv, Job
  <2> QED
    BY <1>1, <1>2, <1>3, <2>1, <2>2, RemainsOf
<1>4. CASE g.pc = "erase" /\ (\E t \in Remains(g.victim) : tree' = [tree EXCEPT ![g.victim] = t])
           /\ UNCHANGED <<registered, locked>>
  <2>1. g.victim \in Shas
    BY <1>1, <1>4 DEF GateInv, Job
  <2> QED
    BY <1>1, <1>2, <1>4, <2>1, RemainsOf
<1>5. CASE (\E t \in Remains(s) : tree' = [tree EXCEPT ![s] = t]) /\ UNCHANGED <<registered, locked>>
  BY <1>1, <1>2, <1>5, RemainsOf
<1>6. CASE (\E t \in {Gone, [Fresh(s) EXCEPT !.at = None]} : tree' = [tree EXCEPT ![s] = t])
           /\ registered' = registered \cup {s} /\ locked' = locked \cup {s}
  <2> DEFINE u == [Fresh(s) EXCEPT !.at = None]
  <2>1. u \in TreeRecord /\ u.there
    BY <1>1, Trees DEF TreeRecord
  <2> HIDE DEF u
  <2>2. \E t \in {Gone, u} : tree' = [tree EXCEPT ![s] = t]
    BY <1>6 DEF u
  <2> QED
    BY <1>1, <1>2, <1>6, <2>1, <2>2, Trees
<1>7. CASE g.pc = "checkout" /\ tree' = [tree EXCEPT ![s].at = None] /\ UNCHANGED <<registered, locked>>
  <2> DEFINE u == [tree[s] EXCEPT !.at = None]
  <2>1. u \in TreeRecord /\ u.there
    BY <1>1, <1>7 DEF TreeRecord, GateInv, Own, Using
  <2>2. tree' = [tree EXCEPT ![s] = u]
    BY <1>1, <1>7 DEF GitInv
  <2> HIDE DEF u
  <2> QED
    BY <1>1, <1>2, <1>7, <2>1, <2>2
<1>8. CASE UNCHANGED <<tree, registered, locked>>
  BY <1>1, <1>8 DEF GitInv
<1> QED
  BY <1>3, <1>4, <1>5, <1>6, <1>7, <1>8 DEF Cut

LEMMA KillKeeps ==
  ASSUME OneGate, IInv, NEW p \in Procs, Kill(p)
  PROVE  IInv'
<1>1. kills' \in 0..MaxKills
  BY BoundsAssumption DEF Kill, IInv, GitInv
<1>2. GitInv'
  BY <1>1, CutKeeps DEF Kill
<1> QED
  BY <1>2, EndsKeeps DEF Kill

LEMMA UserKeeps ==
  ASSUME IInv, User
  PROVE  IInv'
<1>1. /\ GitInv /\ gate' = gate /\ \A q \in Procs : gate[q].pc = "idle" /\ GateInv(gate[q])
      /\ UNCHANGED <<main, registered, locked, kills>>
  BY DEF User, IInv
<1>2. moves' \in 0..MaxMoves
  BY <1>1, BoundsAssumption DEF User, GitInv
<1> DEFINE Fewer ==
             /\ tree' \in [Shas -> TreeRecord] /\ \A r \in Shas : ~tree'[r].there => tree'[r] = Gone
             /\ \A r \in Shas : tree'[r].there => tree[r].there /\ tree'[r].linked = tree[r].linked
<1>3. Fewer
  <2>1. CASE tree' = tree
    BY <1>1, <2>1 DEF GitInv
  <2>2. ASSUME NEW s \in Shas, tree' = [tree EXCEPT ![s] = Gone]
        PROVE  Fewer
    BY <1>1, <2>2, Touches, Trees DEF GitInv
  <2>3. ASSUME NEW s \in Shas, tree[s].there, tree' = [tree EXCEPT ![s].dirty = TRUE]
        PROVE  Fewer
    <3> DEFINE u == [tree[s] EXCEPT !.dirty = TRUE]
    <3>1. tree[s] \in TreeRecord
      BY <1>1 DEF GitInv
    <3>2. u \in TreeRecord /\ u.there /\ u.linked = tree[s].linked
      BY <2>3, <3>1 DEF TreeRecord
    <3>3. tree' = [tree EXCEPT ![s] = u]
      BY <1>1, <2>3 DEF GitInv
    <3> HIDE DEF u
    <3> QED
      BY <1>1, <2>3, <3>2, <3>3, Touches DEF GitInv
  <2> QED
    BY <2>1, <2>2, <2>3 DEF User
<1>4. GitInv'
  BY <1>1, <1>2, <1>3 DEF User, GitInv
<1>5. ASSUME NEW q \in Procs PROVE GateInv(gate[q])'
  BY <1>1, <1>3 DEF GateInv, Job, Others, Own, Cleared, Clearing, Using
<1> QED
  BY <1>1, <1>4, <1>5 DEF IInv

LEMMA Initially == Init => IInv
<1> SUFFICES ASSUME Init PROVE IInv
  OBVIOUS
<1>1. GitInv
  BY Trees, BoundsAssumption DEF Init, GitInv
<1>2. ASSUME NEW p \in Procs PROVE GateInv(gate[p])
  BY IdleGate DEF Init, GateInv, Job, Others, Own, Cleared, Clearing, Using
<1> QED
  BY <1>1, <1>2 DEF Init, IInv

LEMMA StepKeeps ==
  ASSUME OneGate, IInv, [Next]_vars
  PROVE  IInv'
<1>1. ASSUME NEW p \in Procs, Resolve(p) \/ GateStep(p) \/ Kill(p) PROVE IInv'
  BY <1>1, ResolveKeeps, ForgetKeeps, DiscardKeeps, EraseKeeps, ForgetOtherKeeps, ReuseKeeps,
     CheckoutKeeps, CleanKeeps, RemoveKeeps, AddKeeps, VerifyKeeps, SyncConfigKeeps,
     PinOneKeeps, RefusedPinKeeps, PinnedKeeps, MeasureKeeps, KillKeeps DEF GateStep
<1>2. CASE UNCHANGED vars
  BY <1>2 DEF vars, IInv, GitInv, GateInv, Job, Others, Own, Cleared
<1> QED
  BY <1>1, <1>2, UserKeeps DEF Next

LEMMA Always == ASSUME OneGate PROVE Init /\ [][Next]_vars => []IInv
BY Initially, StepKeeps, PTL

(* To the checkout, a gate that measures an item is a gate: what holds of   *)
(* every run of Worktree holds beside a measurement.                        *)
THEOREM GatesAreGates == ReferenceSpec => Init /\ [][Next]_vars
<1>1. ReferenceInit => Init
  BY DEF ReferenceInit
<1>2. [ReferenceNext]_all => [Next]_vars
  <2> SUFFICES ASSUME [ReferenceNext]_all PROVE [Next]_vars
    OBVIOUS
  <2>1. CASE UNCHANGED vars
    BY <2>1
  <2>2. CASE \E p \in Procs : Resolve(p) \/ GateStep(p) \/ Kill(p)
    BY <2>2 DEF Next
  <2>3. CASE User
    BY <2>3 DEF Next
  <2>4. UNCHANGED vars \/ (\E p \in Procs : Resolve(p) \/ GateStep(p) \/ Kill(p)) \/ User
    BY DEF ReferenceNext, Resolves, Goes, Prepares, StartsItem, TakesResult, Killed, Measures, Users, GateStep, all
  <2> QED
    BY <2>1, <2>2, <2>3, <2>4
<1> QED
  BY <1>1, <1>2, PTL DEF ReferenceSpec

(* Trees, registrations and gates are of their types.                       *)
THEOREM TypeCorrect == ASSUME OneGate PROVE ReferenceSpec => []TypeOK
<1>1. IInv => TypeOK
  <2> SUFFICES ASSUME IInv PROVE TypeOK
    OBVIOUS
  <2>1. ASSUME NEW s \in Shas PROVE IsTree(tree[s])
    BY DEF IInv, GitInv, TreeRecord, IsTree
  <2>2. ASSUME NEW p \in Procs PROVE IsGate(gate[p])
    <3>1. gate[p] \in GateRecord /\ Job(gate[p])
      BY DEF IInv, GateInv
    <3> QED
      BY <3>1, ShasAssumption DEF GateRecord, Job, IsGate, Pcs
  <2> QED
    BY <2>1, <2>2 DEF IInv, GitInv, TypeOK
<1> QED
  BY <1>1, Always, GatesAreGates, PTL

(* From its verification to the end of the measurement, the checkout is the *)
(* merge-base's, under HEAD's config, whatever earlier gates left behind.   *)
THEOREM BaseIsMeasured == ASSUME OneGate, ~Ignored PROVE ReferenceSpec => []MeasuresBase
<1>1. IInv => MeasuresBase
  <2> SUFFICES ASSUME IInv, NEW p \in Procs, Building(gate[p])
               PROVE  LET t == tree[gate[p].sha]
                      IN  t.there /\ t.linked /\ t.at = gate[p].sha /\ Configured(gate[p])
    BY DEF MeasuresBase
  <2> QED
    BY DEF IInv, GateInv, Own, Using, Building, Configured
<1> QED
  BY <1>1, Always, GatesAreGates, PTL

(* A gate that fails on what kills and the user left behind fails once.     *)
THEOREM FailsOnce == ASSUME OneGate PROVE ReferenceSpec => []HealsItself
<1>1. IInv => HealsItself
  <2> SUFFICES ASSUME IInv, NEW p \in Procs PROVE gate[p].failed <= 1
    BY DEF HealsItself
  <2>1. gate[p].failed \in {0, 1}
    BY DEF IInv, GateInv, GateRecord
  <2> QED
    BY <2>1
<1> QED
  BY <1>1, Always, GatesAreGates, PTL

(* No git command ends up in the user's checkout, and no registration of a  *)
(* worktree elsewhere is dropped.                                           *)
THEOREM UserKeepsAll == ASSUME OneGate PROVE ReferenceSpec => []UsersKept
<1>1. IInv => UsersKept
  BY DEF IInv, GitInv, UsersKept
<1> QED
  BY <1>1, Always, GatesAreGates, PTL

-----------------------------------------------------------------------------
(* The build directories.  A unit that is whole, with a fingerprint, knows    *)
(* each dependency that is no younger than it; two units compiled at the same *)
(* moment are the same one.                                                   *)
IsUnit(x, n) ==
  /\ x = Dirs!Unit(x.at, x.against, x.whole, x.fp) /\ x.at \in 0 .. n
  /\ x.fp \in {"none", "part", "whole"}
  /\ x.fp # "none" => x.whole /\ x.at # 0

Kept(dir, n) == DOMAIN dir = Units /\ \A u \in Units : IsUnit(dir[u], n)

Knows(x, y, d) == x.fp = "whole" /\ y.fp # "none" /\ y.at <= x.at => x.against[d] = y.at
Linked(dir) == \A v \in Units : \A d \in Needs[v] : Knows(dir[v], dir[d], d)

SameBuild(h, b) == \A u \in Units : h[u].fp # "none" /\ b[u].at = h[u].at => b[u].against = h[u].against

(* What is still to copy is not there, needs no build of the merge-base's own *)
(* and is needed by none whose fingerprint can be read.                       *)
CopyInv ==
  /\ copying # Nobody =>
       step = "seed" /\ copying \in todo /\ theirs[copying] = [head[copying] EXCEPT !.fp = "none"]
  /\ step = "seed" =>
       /\ todo \subseteq Units
       /\ \A u \in todo : head[u].fp # "none" /\ theirs[u].fp = "none" /\ Needs[u] \cap Dirs!Own = {}
       /\ \A v \in Dirs!Own : theirs[v].fp = "whole" => Needs[v] \cap todo = {}

DoneInv ==
  step = "base" =>
    /\ done \subseteq Units
    /\ \A u \in done : /\ theirs[u].whole /\ Needs[u] \subseteq done
                       /\ \A d \in Needs[u] : theirs[u].against[d] = theirs[d].at

KeptInv ==
  /\ now \in Nat /\ Kept(head, now) /\ Kept(theirs, now) /\ (\A u \in Units : head[u].fp # "part")
  /\ Linked(head) /\ Linked(theirs) /\ SameBuild(head, theirs)

DirsInv == KeptInv /\ CopyInv /\ DoneInv

Becomes(dir, new, u, x) == new = [dir EXCEPT ![u] = x]

LEMMA NeedsUnits == \A u \in Units : Needs[u] \subseteq Units
  BY DirsAssumption DEF Dirs!UnitsAssumption

LEMMA CompileKeeps ==
  ASSUME NEW dir, now \in Nat, Kept(dir, now), Linked(dir), NEW u \in Units, u \notin Needs[u],
         NEW new, Becomes(dir, new, u, Dirs!Compiled(dir, u))
  PROVE  /\ Kept(new, now + 1) /\ Linked(new) /\ new[u].whole /\ new[u].at = now + 1 /\ new[u].fp = "whole"
         /\ \A d \in Needs[u] : new[u].against[d] = new[d].at
         /\ \A v \in Units \ {u} : new[v] = dir[v]
<1> DEFINE x == Dirs!Compiled(dir, u)
<1>1. /\ x = Dirs!Unit(x.at, x.against, x.whole, x.fp) /\ x.at = now + 1 /\ x.whole /\ x.fp = "whole"
      /\ x.against = [d \in Needs[u] |-> dir[d].at]
  BY DEF Dirs!Compiled, Dirs!Unit
<1> HIDE DEF x
<1>2. /\ new[u] = x /\ DOMAIN new = Units
      /\ \A v \in Units \ {u} : new[v] = dir[v]
  BY DEF Becomes, x, Kept
<1>3. Kept(new, now + 1)
  <2>1. IsUnit(x, now + 1)
    BY <1>1 DEF IsUnit
  <2>2. ASSUME NEW v \in Units \ {u} PROVE IsUnit(new[v], now + 1)
    BY <1>2 DEF Kept, IsUnit
  <2> QED
    BY <1>2, <2>1, <2>2 DEF Kept
<1>4. ASSUME NEW d \in Needs[u] PROVE new[u].against[d] = new[d].at
  <2>1. d \in Units \ {u}
    BY NeedsUnits
  <2>2. x.against[d] = dir[d].at
    BY <1>1
  <2> QED
    BY <1>2, <2>1, <2>2
<1>5. ASSUME NEW v \in Units, NEW d \in Needs[v] PROVE Knows(new[v], new[d], d)
  <2>1. d \in Units
    BY NeedsUnits
  <2>2. CASE v = u
    BY <1>4, <2>2 DEF Knows
  <2>3. CASE v # u /\ d = u
    <3>1. new[v].at <= now /\ new[v].at \in Nat
      BY <1>2, <2>3 DEF Kept, IsUnit
    <3>2. new[d].at = now + 1
      BY <1>1, <1>2, <2>3
    <3>3. ~(new[d].at <= new[v].at)
      BY <3>1, <3>2
    <3> QED
      BY <3>3 DEF Knows
  <2>4. CASE v # u /\ d # u
    BY <1>2, <2>1, <2>4 DEF Linked
  <2> QED
    BY <2>2, <2>3, <2>4
<1> QED
  BY <1>1, <1>2, <1>3, <1>4, <1>5 DEF Linked

LEMMA BuildKeeps == ASSUME DirsInv, NEW u \in Units, Dirs!Build(u) PROVE DirsInv'
<1>1. /\ step \in {"head", "base"} /\ u \notin done /\ Needs[u] \subseteq done /\ done' = done \cup {u}
      /\ UNCHANGED <<step, plan, todo, copying, cleans>>
  BY DEF Dirs!Build
<1>2. u \notin Needs[u]
  BY <1>1
<1>3. CopyInv'
  BY <1>1 DEF DirsInv, CopyInv
<1>4. CASE UNCHANGED <<head, theirs, now>> /\ Dirs!Fresh(IF step = "head" THEN head ELSE theirs, u)
  <2>1. KeptInv'
    BY <1>4 DEF DirsInv, KeptInv
  <2>2. CASE step = "base"
    <3>1. theirs[u].fp = "whole" /\ \A d \in Needs[u] : theirs[d].fp # "none" /\ theirs[d].at <= theirs[u].at
      BY <1>4, <2>2 DEF Dirs!Fresh, Dirs!Present
    <3>2. theirs[u].whole /\ \A d \in Needs[u] : theirs[u].against[d] = theirs[d].at
      BY <3>1 DEF DirsInv, KeptInv, Kept, IsUnit, Linked, Knows
    <3> QED
      BY <1>1, <1>3, <1>4, <2>1, <2>2, <3>2 DEF DirsInv, DoneInv
  <2>3. CASE step = "head"
    BY <1>1, <1>3, <2>1, <2>3 DEF DirsInv, DoneInv
  <2> QED
    BY <1>1, <2>2, <2>3
<1>5. CASE step = "head" /\ now' = now + 1 /\ head' = [head EXCEPT ![u] = Dirs!Compiled(head, u)] /\ UNCHANGED theirs
  <2>0. Becomes(head, head', u, Dirs!Compiled(head, u)) /\ now \in Nat /\ Kept(head, now) /\ Linked(head)
    BY <1>5 DEF DirsInv, KeptInv, Becomes
  <2>1. /\ Kept(head', now + 1) /\ Linked(head') /\ head'[u].at = now + 1 /\ head'[u].fp = "whole"
        /\ \A v \in Units \ {u} : head'[v] = head[v]
    BY <1>2, <2>0, CompileKeeps
  <2>2. Kept(theirs, now + 1)
    BY DEF DirsInv, KeptInv, Kept, IsUnit
  <2>3. SameBuild(head', theirs)
    <3>1. theirs[u].at # head'[u].at
      BY <2>1 DEF DirsInv, KeptInv, Kept, IsUnit
    <3> QED
      BY <2>1, <3>1 DEF DirsInv, KeptInv, SameBuild
  <2>4. KeptInv'
    BY <1>5, <2>1, <2>2, <2>3 DEF DirsInv, KeptInv
  <2>5. DoneInv'
    BY <1>1, <1>5 DEF DoneInv
  <2> QED
    BY <1>3, <2>4, <2>5 DEF DirsInv
<1>6. CASE step = "base" /\ now' = now + 1 /\ theirs' = [theirs EXCEPT ![u] = Dirs!Compiled(theirs, u)] /\ UNCHANGED head
  <2>0. Becomes(theirs, theirs', u, Dirs!Compiled(theirs, u)) /\ now \in Nat /\ Kept(theirs, now) /\ Linked(theirs)
    BY <1>6 DEF DirsInv, KeptInv, Becomes
  <2>1. /\ Kept(theirs', now + 1) /\ Linked(theirs') /\ theirs'[u].at = now + 1 /\ theirs'[u].whole
        /\ \A d \in Needs[u] : theirs'[u].against[d] = theirs'[d].at
        /\ \A v \in Units \ {u} : theirs'[v] = theirs[v]
    BY <1>2, <2>0, CompileKeeps
  <2>2. Kept(head, now + 1)
    BY DEF DirsInv, KeptInv, Kept, IsUnit
  <2>3. SameBuild(head, theirs')
    <3>1. theirs'[u].at # head[u].at
      BY <2>1 DEF DirsInv, KeptInv, Kept, IsUnit
    <3> QED
      BY <2>1, <3>1 DEF DirsInv, KeptInv, SameBuild
  <2>4. KeptInv'
    BY <1>6, <2>1, <2>2, <2>3 DEF DirsInv, KeptInv
  <2>5. DoneInv'
    <3>1. ASSUME NEW v \in done
          PROVE  /\ theirs'[v].whole /\ Needs[v] \subseteq done'
                 /\ \A d \in Needs[v] : theirs'[v].against[d] = theirs'[d].at
      <4>1. /\ v \in Units /\ v # u /\ Needs[v] \subseteq done /\ u \notin Needs[v] /\ Needs[v] \subseteq Units
            /\ theirs[v].whole /\ \A d \in Needs[v] : theirs[v].against[d] = theirs[d].at
        BY <1>1, <1>6, <3>1, NeedsUnits DEF DirsInv, DoneInv
      <4> QED
        BY <1>1, <2>1, <4>1
    <3> QED
      BY <1>1, <1>6, <2>1, <3>1 DEF DoneInv, DirsInv
  <2> QED
    BY <1>3, <2>4, <2>5 DEF DirsInv
<1> QED
  BY <1>1, <1>4, <1>5, <1>6 DEF Dirs!Build

LEMMA SeedKeeps == ASSUME DirsInv, Dirs!SeedWorktree PROVE DirsInv'
<1>1. PICK unread \in SUBSET Dirs!Torn : todo' = Dirs!Candidates \ Dirs!Blocked(unread)
  BY DEF Dirs!SeedWorktree
<1>2. step = "head" /\ step' = "seed" /\ UNCHANGED <<head, theirs, plan, done, copying, now, cleans>>
  BY DEF Dirs!SeedWorktree, Dirs!rest
<1>3. copying = Nobody
  BY <1>2 DEF DirsInv, CopyInv
<1>4. ASSUME NEW u \in todo'
      PROVE  /\ u \in Units /\ head[u].fp # "none" /\ theirs[u].fp = "none" /\ ~Dirs!Conflicts(u, unread)
  <2>1. u \in Dirs!Candidates /\ u \notin Dirs!Blocked(unread)
    BY <1>1
  <2>2. ~Dirs!Conflicts(u, unread)
    BY <2>1 DEF Dirs!Blocked
  <2> QED
    BY <2>1, <2>2 DEF Dirs!Candidates, Dirs!Present
<1>5. Dirs!Own' = Dirs!Own
  BY <1>2 DEF Dirs!Own, Dirs!IsCopy, Dirs!Present
<1>6. \A u \in todo' : Needs[u] \cap Dirs!Own = {}
  BY <1>4 DEF Dirs!Conflicts, Dirs!Foreign
<1>7. ASSUME NEW v \in Dirs!Own, theirs[v].fp = "whole" PROVE Needs[v] \cap todo' = {}
  <2>1. v \notin unread
    BY <1>1, <1>7 DEF Dirs!Torn
  <2>2. Needs[v] \subseteq Dirs!OwnNeeds(unread)
    BY <2>1 DEF Dirs!OwnNeeds
  <2> QED
    BY <1>4, <2>2 DEF Dirs!Conflicts
<1>8. CopyInv'
  BY <1>2, <1>3, <1>4, <1>5, <1>6, <1>7 DEF CopyInv
<1>9. KeptInv' /\ DoneInv'
  BY <1>2 DEF DirsInv, KeptInv, DoneInv
<1> QED
  BY <1>8, <1>9 DEF DirsInv

(* A unit of the merge-base's directory is HEAD's or becomes what of it is    *)
(* copied: none of the others notices.                                        *)
Copied(u, x) ==
  /\ x = [head[u] EXCEPT !.fp = x.fp] \/ (x = [head[u] EXCEPT !.fp = x.fp, !.whole = x.whole] /\ x.fp = "none")
  /\ x.fp \in {"none", "part", "whole"}

LEMMA CopyKeeps ==
  ASSUME DirsInv, step = "seed", NEW u \in todo, NEW x, Copied(u, x), theirs' = [theirs EXCEPT ![u] = x],
         UNCHANGED <<head, now>>
  PROVE  /\ KeptInv' /\ (\A v \in Units \ {u} : theirs'[v] = theirs[v]) /\ theirs'[u] = x
         /\ Dirs!Own' \subseteq Dirs!Own /\ u \notin Dirs!Own'
<1>1. /\ u \in Units /\ head[u].fp # "none" /\ theirs[u].fp = "none" /\ Needs[u] \cap Dirs!Own = {}
      /\ \A v \in Dirs!Own : theirs[v].fp = "whole" => u \notin Needs[v]
  BY DEF DirsInv, CopyInv
<1>2. IsUnit(head[u], now) /\ head[u].whole /\ Needs[u] \subseteq Units
  BY <1>1, NeedsUnits DEF DirsInv, KeptInv, Kept, IsUnit
<1>3. /\ x.at = head[u].at /\ x.against = head[u].against /\ IsUnit(x, now)
  <2>1. CASE x = [head[u] EXCEPT !.fp = x.fp]
    <3> DEFINE fp == x.fp
    <3>1. fp \in {"none", "part", "whole"} /\ x = [head[u] EXCEPT !.fp = fp]
      BY <2>1 DEF Copied
    <3> HIDE DEF fp
    <3>2. x = Dirs!Unit(head[u].at, head[u].against, head[u].whole, fp)
      BY <1>2, <3>1 DEF IsUnit, Dirs!Unit
    <3>3. x.at = head[u].at /\ x.against = head[u].against /\ x.whole = head[u].whole /\ x.fp = fp
      BY <3>2 DEF Dirs!Unit
    <3> QED
      BY <1>1, <1>2, <3>1, <3>2, <3>3 DEF IsUnit
  <2>2. CASE x = [head[u] EXCEPT !.fp = x.fp, !.whole = x.whole] /\ x.fp = "none"
    <3> DEFINE whole == x.whole
    <3>1. x = [head[u] EXCEPT !.fp = "none", !.whole = whole]
      BY <2>2
    <3> HIDE DEF whole
    <3>2. x = Dirs!Unit(head[u].at, head[u].against, whole, "none")
      BY <1>2, <3>1 DEF IsUnit, Dirs!Unit
    <3>3. x.at = head[u].at /\ x.against = head[u].against /\ x.whole = whole /\ x.fp = "none"
      BY <3>2 DEF Dirs!Unit
    <3> QED
      BY <1>1, <1>2, <3>2, <3>3 DEF IsUnit
  <2> QED
    BY <2>1, <2>2 DEF Copied
<1>4. theirs'[u] = x /\ DOMAIN theirs' = Units /\ \A v \in Units \ {u} : theirs'[v] = theirs[v]
  BY <1>1 DEF DirsInv, KeptInv, Kept
<1>5. x.fp # "none" => x.whole
  BY <1>3 DEF IsUnit
<1>6. u \notin Dirs!Own'
  BY <1>1, <1>3, <1>4, <1>5 DEF Dirs!Own, Dirs!IsCopy, Dirs!Present
<1>7. Dirs!Own' \subseteq Dirs!Own
  BY <1>4, <1>6 DEF Dirs!Own, Dirs!IsCopy, Dirs!Present
<1>8. Kept(theirs', now)
  BY <1>3, <1>4 DEF DirsInv, KeptInv, Kept
<1>9. SameBuild(head, theirs')
  BY <1>3, <1>4 DEF DirsInv, KeptInv, SameBuild
<1>10. ASSUME NEW v \in Units, theirs[v].fp = "whole", u \in Needs[v] PROVE Knows(theirs[v], x, u)
  <2>1. v \notin Dirs!Own
    BY <1>1, <1>10
  <2>2. head[v].fp # "none" /\ head[v].at = theirs[v].at
    BY <1>10, <2>1 DEF Dirs!Own, Dirs!IsCopy, Dirs!Present
  <2>3. theirs[v].against = head[v].against /\ head[v].fp = "whole"
    BY <2>2 DEF DirsInv, KeptInv, SameBuild, Kept, IsUnit
  <2>4. Knows(head[v], head[u], u)
    BY <1>10 DEF DirsInv, KeptInv, Linked
  <2> QED
    BY <1>1, <1>3, <2>2, <2>3, <2>4 DEF Knows
<1>11. ASSUME NEW d \in Needs[u], d # u PROVE Knows(x, theirs[d], d)
  <2>1. d \in Units /\ d \notin Dirs!Own
    BY <1>1, <1>2
  <2>2. CASE theirs[d].fp = "none"
    BY <2>2 DEF Knows
  <2>3. CASE theirs[d].fp # "none"
    <3>1. head[d].fp # "none" /\ head[d].at = theirs[d].at
      BY <2>1, <2>3 DEF Dirs!Own, Dirs!IsCopy, Dirs!Present
    <3>2. Knows(head[u], head[d], d) /\ head[u].fp = "whole"
      BY <1>1, <1>2 DEF DirsInv, KeptInv, Linked, IsUnit
    <3> QED
      BY <1>3, <3>1, <3>2 DEF Knows
  <2> QED
    BY <2>2, <2>3
<1>12. u \in Needs[u] => Knows(x, x, u)
  <2>1. ASSUME u \in Needs[u] PROVE Knows(head[u], head[u], u) /\ head[u].fp = "whole"
    BY <1>1, <1>2, <2>1 DEF DirsInv, KeptInv, Linked, IsUnit
  <2> QED
    BY <1>3, <2>1 DEF Knows
<1>13. Linked(theirs')
  <2>1. ASSUME NEW v \in Units, NEW d \in Needs[v] PROVE Knows(theirs'[v], theirs'[d], d)
    <3>1. d \in Units
      BY NeedsUnits
    <3>2. CASE v # u /\ d # u
      BY <1>4, <3>1, <3>2 DEF DirsInv, KeptInv, Linked
    <3>3. CASE v # u /\ d = u
      BY <1>4, <1>10, <3>3 DEF Knows
    <3>4. CASE v = u
      BY <1>4, <1>11, <1>12, <3>1, <3>4
    <3> QED
      BY <3>2, <3>3, <3>4
  <2> QED
    BY <2>1 DEF Linked
<1> QED
  BY <1>4, <1>6, <1>7, <1>8, <1>9, <1>13 DEF DirsInv, KeptInv

(* What stays to copy is as it was.                                           *)
LEMMA ToCopy ==
  ASSUME DirsInv, step = "seed", NEW u \in todo, Dirs!Own' \subseteq Dirs!Own, u \notin Dirs!Own',
         todo' \subseteq todo, \A v \in Units \ {u} : theirs'[v] = theirs[v], UNCHANGED head,
         u \in todo' => theirs'[u].fp = "none"
  PROVE  /\ todo' \subseteq Units
         /\ \A w \in todo' : head'[w].fp # "none" /\ theirs'[w].fp = "none" /\ Needs[w] \cap Dirs!Own' = {}
         /\ \A v \in Dirs!Own' : theirs'[v].fp = "whole" => Needs[v] \cap todo' = {}
<1>1. todo \subseteq Units
  BY DEF DirsInv, CopyInv
<1>2. ASSUME NEW w \in todo'
      PROVE  head'[w].fp # "none" /\ theirs'[w].fp = "none" /\ Needs[w] \cap Dirs!Own' = {}
  BY <1>1, <1>2 DEF DirsInv, CopyInv
<1>3. ASSUME NEW v \in Dirs!Own', theirs'[v].fp = "whole" PROVE Needs[v] \cap todo' = {}
  <2>1. v \in Units /\ v # u /\ v \in Dirs!Own
    BY DEF Dirs!Own
  <2> QED
    BY <1>3, <2>1 DEF DirsInv, CopyInv
<1> QED
  BY <1>1, <1>2, <1>3

LEMMA FilesKeep == ASSUME DirsInv, NEW u \in Units, Dirs!CopyFiles(u) PROVE DirsInv'
<1> DEFINE x == [head[u] EXCEPT !.fp = "none"]
<1>1. /\ step = "seed" /\ u \in todo /\ copying' = u /\ theirs' = [theirs EXCEPT ![u] = x]
      /\ UNCHANGED <<head, step, plan, done, todo, now, cleans>>
  BY DEF Dirs!CopyFiles, Dirs!rest
<1>2. IsUnit(head[u], now)
  BY DEF DirsInv, KeptInv, Kept
<1>3. x.fp = "none" /\ Copied(u, x)
  BY <1>2 DEF IsUnit, Dirs!Unit, Copied
<1> HIDE DEF x
<1>4. /\ KeptInv' /\ (\A v \in Units \ {u} : theirs'[v] = theirs[v]) /\ theirs'[u] = x
      /\ Dirs!Own' \subseteq Dirs!Own /\ u \notin Dirs!Own'
  BY <1>1, <1>3, CopyKeeps
<1>5. /\ todo' \subseteq Units
      /\ \A w \in todo' : head'[w].fp # "none" /\ theirs'[w].fp = "none" /\ Needs[w] \cap Dirs!Own' = {}
      /\ \A v \in Dirs!Own' : theirs'[v].fp = "whole" => Needs[v] \cap todo' = {}
  BY <1>1, <1>3, <1>4, ToCopy
<1>6. theirs'[u] = [head'[u] EXCEPT !.fp = "none"]
  BY <1>1, <1>4 DEF x
<1> QED
  BY <1>1, <1>4, <1>5, <1>6 DEF DirsInv, CopyInv, DoneInv

(* The copy that ends, well or not, leaves one of these.                      *)
LEMMA TorsoCopied ==
  ASSUME DirsInv, copying # Nobody, NEW x, x \in Dirs!Torso(copying) \/ x = [theirs[copying] EXCEPT !.fp = head[copying].fp]
  PROVE  Copied(copying, x) /\ copying \in todo /\ step = "seed"
<1> DEFINE u == copying
           y == head[u]
<1>1. u \in todo /\ u \in Units /\ step = "seed" /\ theirs[u] = [y EXCEPT !.fp = "none"] /\ IsUnit(y, now)
  BY DEF DirsInv, CopyInv, KeptInv, Kept
<1> HIDE DEF u, y
<1>2. theirs[u] = Dirs!Unit(y.at, y.against, y.whole, "none")
  BY <1>1 DEF IsUnit, Dirs!Unit
<1>3. \/ x = Dirs!Unit(y.at, y.against, y.whole, "none")
      \/ x = Dirs!Unit(y.at, y.against, FALSE, "none")
      \/ x = Dirs!Unit(y.at, y.against, y.whole, "part")
      \/ x = Dirs!Unit(y.at, y.against, y.whole, y.fp)
  BY <1>2 DEF Dirs!Torso, Dirs!Unit, u, y
<1>4. Copied(u, x)
  <2>1. ASSUME NEW fp \in {"none", "part", "whole"}, x = Dirs!Unit(y.at, y.against, y.whole, fp)
        PROVE  x = [y EXCEPT !.fp = x.fp] /\ x.fp \in {"none", "part", "whole"}
    <3>1. x.fp = fp
      BY <2>1 DEF Dirs!Unit
    <3>2. x = [y EXCEPT !.fp = fp]
      BY <1>1, <2>1 DEF IsUnit, Dirs!Unit
    <3> QED
      BY <3>1, <3>2
  <2>2. ASSUME x = Dirs!Unit(y.at, y.against, FALSE, "none")
        PROVE  x = [y EXCEPT !.fp = x.fp, !.whole = x.whole] /\ x.fp = "none"
    <3>1. x.fp = "none" /\ x.whole = FALSE
      BY <2>2 DEF Dirs!Unit
    <3> DEFINE no == FALSE
    <3>2. x = Dirs!Unit(y.at, y.against, no, "none") /\ x.whole = no
      BY <2>2, <3>1
    <3> HIDE DEF no
    <3> DEFINE z == [y EXCEPT !.fp = "none", !.whole = no]
    <3>3. y = Dirs!Unit(y.at, y.against, y.whole, y.fp)
      BY <1>1 DEF IsUnit
    <3> DEFINE a == y.at  b == y.against  c == y.whole  d == y.fp
    <3>a. y = Dirs!Unit(a, b, c, d)
      BY <3>3
    <3> HIDE DEF a, b, c, d
    <3> DEFINE r == [y EXCEPT !.fp = "none"]
    <3>b. r = Dirs!Unit(a, b, c, "none")
      BY <3>a DEF Dirs!Unit
    <3>c. z = [r EXCEPT !.whole = no]
      OBVIOUS
    <3> HIDE DEF r, z
    <3>d. z = Dirs!Unit(a, b, no, "none")
      BY <3>b, <3>c DEF Dirs!Unit
    <3>4. z = Dirs!Unit(y.at, y.against, no, "none")
      BY <3>d DEF a, b
    <3> USE DEF z
    <3> QED
      BY <3>1, <3>2, <3>4
  <2>3. y.fp \in {"none", "part", "whole"}
    BY <1>1 DEF IsUnit
  <2>4. Copied(u, x) <=> /\ x = [y EXCEPT !.fp = x.fp] \/ (x = [y EXCEPT !.fp = x.fp, !.whole = x.whole] /\ x.fp = "none")
                         /\ x.fp \in {"none", "part", "whole"}
    BY DEF Copied, y
  <2> QED
    BY <1>3, <2>1, <2>2, <2>3, <2>4
<1> QED
  BY <1>1, <1>4 DEF u

LEMMA FingerprintKeeps == ASSUME DirsInv, Dirs!CopyFingerprint PROVE DirsInv'
<1> DEFINE u == copying
           x == [theirs[u] EXCEPT !.fp = head[u].fp]
<1>1. /\ step = "seed" /\ u # Nobody /\ theirs' = [theirs EXCEPT ![u] = x]
      /\ todo' = todo \ {u} /\ copying' = Nobody
      /\ UNCHANGED <<head, step, plan, done, now, cleans>>
  BY DEF Dirs!CopyFingerprint, Dirs!rest, DirsInv, KeptInv, Kept
<1>2. Copied(u, x) /\ u \in todo
  BY <1>1, TorsoCopied
<1> HIDE DEF x
<1>3. /\ KeptInv' /\ (\A v \in Units \ {u} : theirs'[v] = theirs[v])
      /\ Dirs!Own' \subseteq Dirs!Own /\ u \notin Dirs!Own'
  BY <1>1, <1>2, CopyKeeps
<1> HIDE DEF u
<1>4. /\ todo' \subseteq Units
      /\ \A w \in todo' : head'[w].fp # "none" /\ theirs'[w].fp = "none" /\ Needs[w] \cap Dirs!Own' = {}
      /\ \A v \in Dirs!Own' : theirs'[v].fp = "whole" => Needs[v] \cap todo' = {}
  BY <1>1, <1>2, <1>3, ToCopy
<1> QED
  BY <1>1, <1>3, <1>4 DEF DirsInv, CopyInv, DoneInv

LEMMA FailKeeps == ASSUME DirsInv, NEW u \in Units, Dirs!CopyFails(u) PROVE DirsInv'
<1>1. /\ step = "seed" /\ copying \in {Nobody, u} /\ u \in todo /\ todo' = todo \ {u} /\ copying' = Nobody
      /\ UNCHANGED <<head, step, plan, done, now, cleans>>
  BY DEF Dirs!CopyFails, Dirs!rest
<1>2. CASE copying = Nobody
  <2>1. theirs' = theirs
    BY <1>2 DEF Dirs!CopyFails
  <2>2. Dirs!Own' = Dirs!Own
    BY <1>1, <2>1 DEF Dirs!Own, Dirs!IsCopy, Dirs!Present
  <2> QED
    BY <1>1, <2>1, <2>2 DEF DirsInv, KeptInv, CopyInv, DoneInv
<1>3. CASE copying # Nobody
  <2>1. copying = u
    BY <1>1, <1>3
  <2>2. PICK x \in Dirs!Torso(u) : theirs' = [theirs EXCEPT ![u] = x]
    BY <1>3 DEF Dirs!CopyFails
  <2>3. Copied(u, x)
    BY <1>3, <2>1, <2>2, TorsoCopied
  <2>4. /\ KeptInv' /\ (\A v \in Units \ {u} : theirs'[v] = theirs[v])
        /\ Dirs!Own' \subseteq Dirs!Own /\ u \notin Dirs!Own'
    BY <1>1, <2>2, <2>3, CopyKeeps
  <2>5. /\ todo' \subseteq Units
        /\ \A w \in todo' : head'[w].fp # "none" /\ theirs'[w].fp = "none" /\ Needs[w] \cap Dirs!Own' = {}
        /\ \A v \in Dirs!Own' : theirs'[v].fp = "whole" => Needs[v] \cap todo' = {}
    BY <1>1, <2>4, ToCopy
  <2> QED
    BY <1>1, <2>4, <2>5 DEF DirsInv, CopyInv, DoneInv
<1> QED
  BY <1>2, <1>3

LEMMA InterruptKeeps == ASSUME DirsInv, Dirs!Interrupt PROVE DirsInv'
<1>1. /\ step' = "idle" /\ copying' = Nobody /\ UNCHANGED <<head, now, cleans>>
  BY DEF Dirs!Interrupt, Dirs!rest
<1>2. CopyInv' /\ DoneInv'
  BY <1>1 DEF CopyInv, DoneInv
<1>3. CASE copying = Nobody
  <2>1. theirs' = theirs
    BY <1>3 DEF Dirs!Interrupt
  <2> QED
    BY <1>1, <1>2, <2>1 DEF DirsInv, KeptInv
<1>4. CASE copying # Nobody
  <2> DEFINE u == copying
  <2>1. PICK x \in Dirs!Torso(u) : theirs' = [theirs EXCEPT ![u] = x]
    BY <1>4 DEF Dirs!Interrupt
  <2>2. Copied(u, x) /\ u \in todo /\ step = "seed"
    BY <1>4, TorsoCopied
  <2> HIDE DEF u
  <2> QED
    BY <1>1, <1>2, <2>1, <2>2, CopyKeeps DEF DirsInv
<1> QED
  BY <1>3, <1>4

(* A unit that is gone is nobody's.                                           *)
LEMMA AbsentKeeps ==
  ASSUME now \in Nat, NEW dir, Kept(dir, now), Linked(dir), NEW u \in Units, NEW new,
         Becomes(dir, new, u, Dirs!Absent)
  PROVE  /\ Kept(new, now) /\ Linked(new) /\ new[u].fp = "none" /\ new[u].at = 0
         /\ \A v \in Units \ {u} : new[v] = dir[v]
<1> DEFINE x == Dirs!Absent
<1>1. x.fp = "none" /\ x.at = 0 /\ IsUnit(x, now)
  BY DEF Dirs!Absent, Dirs!Unit, IsUnit
<1> HIDE DEF x
<1>2. new[u] = x /\ DOMAIN new = Units /\ \A v \in Units \ {u} : new[v] = dir[v]
  BY DEF Becomes, Kept, x
<1>3. Kept(new, now)
  BY <1>1, <1>2 DEF Kept
<1>4. ASSUME NEW v \in Units, NEW d \in Needs[v] PROVE Knows(new[v], new[d], d)
  BY <1>1, <1>2, NeedsUnits DEF Linked, Knows
<1> QED
  BY <1>1, <1>2, <1>3, <1>4 DEF Linked

LEMMA CleanUnitKeeps == ASSUME DirsInv, NEW u \in Units, Dirs!Clean(u) PROVE DirsInv'
<1>1. step = "idle" /\ UNCHANGED <<step, plan, done, todo, copying, now>>
  BY DEF Dirs!Clean
<1>2. CopyInv' /\ DoneInv'
  BY <1>1 DEF DirsInv, CopyInv, DoneInv
<1>3. CASE head' = [head EXCEPT ![u] = Dirs!Absent] /\ UNCHANGED theirs
  <2>0. Becomes(head, head', u, Dirs!Absent) /\ now \in Nat /\ Kept(head, now) /\ Linked(head)
    BY <1>3 DEF DirsInv, KeptInv, Becomes
  <2>1. /\ Kept(head', now) /\ Linked(head') /\ head'[u].fp = "none"
        /\ \A v \in Units \ {u} : head'[v] = head[v]
    BY <2>0, AbsentKeeps
  <2>2. SameBuild(head', theirs)
    BY <2>1 DEF DirsInv, KeptInv, SameBuild
  <2> QED
    BY <1>1, <1>2, <1>3, <2>1, <2>2 DEF DirsInv, KeptInv
<1>4. CASE theirs' = [theirs EXCEPT ![u] = Dirs!Absent] /\ UNCHANGED head
  <2>0. Becomes(theirs, theirs', u, Dirs!Absent) /\ now \in Nat /\ Kept(theirs, now) /\ Linked(theirs)
    BY <1>4 DEF DirsInv, KeptInv, Becomes
  <2>1. /\ Kept(theirs', now) /\ Linked(theirs') /\ theirs'[u].at = 0
        /\ \A v \in Units \ {u} : theirs'[v] = theirs[v]
    BY <2>0, AbsentKeeps
  <2>2. head[u].fp # "none" => head[u].at # 0
    BY DEF DirsInv, KeptInv, Kept, IsUnit
  <2>3. SameBuild(head, theirs')
    BY <2>1, <2>2 DEF DirsInv, KeptInv, SameBuild
  <2> QED
    BY <1>1, <1>2, <1>4, <2>1, <2>3 DEF DirsInv, KeptInv
<1> QED
  BY <1>3, <1>4 DEF Dirs!Clean

LEMMA DirsStart == Dirs!SeedInit => DirsInv
<1> SUFFICES ASSUME Dirs!SeedInit PROVE DirsInv
  OBVIOUS
<1> DEFINE x == Dirs!Absent
<1>1. x.fp = "none" /\ IsUnit(x, 0)
  BY DEF Dirs!Absent, Dirs!Unit, IsUnit
<1> HIDE DEF x
<1>2. /\ head = [u \in Units |-> x] /\ theirs = [u \in Units |-> x] /\ now = 0 /\ step = "idle" /\ copying = Nobody
  BY DEF Dirs!SeedInit, x
<1>3. KeptInv
  BY <1>1, <1>2, NeedsUnits DEF KeptInv, Kept, Linked, Knows, SameBuild
<1> QED
  BY <1>2, <1>3 DEF DirsInv, CopyInv, DoneInv

LEMMA DirsStep == ASSUME DirsInv, [Dirs!SeedNext]_directories PROVE DirsInv'
<1>1. CASE Dirs!Begin
  <2>1. /\ step = "idle" /\ step' = "head" /\ UNCHANGED <<head, theirs, todo, copying, now, cleans>>
    BY <1>1 DEF Dirs!Begin, Dirs!rest
  <2> QED
    BY <2>1 DEF DirsInv, KeptInv, CopyInv, DoneInv
<1>2. CASE Dirs!BuildBase
  <2>1. /\ step = "seed" /\ step' = "base" /\ todo = {} /\ done' = {}
        /\ UNCHANGED <<head, theirs, todo, copying, now, cleans>>
    BY <1>2 DEF Dirs!BuildBase, Dirs!rest
  <2> QED
    BY <2>1 DEF DirsInv, KeptInv, CopyInv, DoneInv
<1>3. CASE Dirs!Finish
  <2>1. /\ step = "base" /\ step' = "idle" /\ UNCHANGED <<head, theirs, todo, copying, now, cleans>>
    BY <1>3 DEF Dirs!Finish, Dirs!rest
  <2> QED
    BY <2>1 DEF DirsInv, KeptInv, CopyInv, DoneInv
<1>4. CASE UNCHANGED directories
  <2>1. Dirs!Own' = Dirs!Own
    BY <1>4 DEF Dirs!Own, Dirs!IsCopy, Dirs!Present, directories
  <2> QED
    BY <1>4, <2>1 DEF DirsInv, KeptInv, CopyInv, DoneInv, directories
<1> QED
  BY <1>1, <1>2, <1>3, <1>4, BuildKeeps, SeedKeeps, FilesKeep, FingerprintKeeps, FailKeeps, InterruptKeeps,
     CleanUnitKeeps DEF Dirs!SeedNext

(* Whatever was copied, cut short, cleaned or built before, a build of the    *)
(* merge-base links units to the very builds they were compiled against.      *)
THEOREM CopiesLink == DirectoriesSpec => []BaseLinks
<1>1. DirsInv => BaseLinks
  BY DEF DirsInv, DoneInv, BaseLinks, Dirs!BaseLinks
<1>2. DirsInv /\ [Dirs!SeedNext]_directories => DirsInv'
  BY DirsStep
<1> QED
  BY <1>1, <1>2, DirsStart, PTL DEF DirectoriesSpec

-----------------------------------------------------------------------------
(* The item measured in the checkout.                                       *)

LEMMA CostNat == \A c \in Costs : c \in Nat /\ c > 0
  BY ItemAssumption DEF Item!HandshakeAssumption

Before == {ss \in Nat \X Nat : ss[1] < ss[2]}

LEMMA BeforeWF == IsWellFoundedOn(Before, Nat)
  BY NatLessThanWellFounded DEF OpToRel, Before

(* A set of numbers with a bound has a largest.                             *)
LEMMA Largest ==
  ASSUME NEW top \in Nat, NEW T, T \subseteq 1..top, T # {}
  PROVE  \E x \in T : \A y \in T : y <= x
<1> DEFINE Away == {n \in Nat : \E x \in T : n = top - x}
<1>1. Away \subseteq Nat /\ Away # {}
  <2>1. PICK x \in T : TRUE
    OBVIOUS
  <2>2. top - x \in Nat
    BY <2>1
  <2> QED
    BY <2>1, <2>2
<1> HIDE DEF Away
<1>2. PICK n \in Away : \A m \in Away : ~(<<m, n>> \in Before)
  <2>1. \E n \in Away : \A m \in Away : ~(<<m, n>> \in Before)
    BY <1>1, BeforeWF, WFMin
  <2> QED
    BY <2>1
<1>3. PICK x \in T : n = top - x
  BY DEF Away
<1>4. ASSUME NEW y \in T PROVE y <= x
  <2>1. y \in 1..top /\ x \in 1..top
    OBVIOUS
  <2> DEFINE m == top - y
  <2>2. m \in Nat
    BY <2>1
  <2>3. m \in Away
    BY <2>2 DEF Away
  <2>4. ~(<<m, n>> \in Before)
    BY <1>2, <2>3
  <2>5. n \in Nat
    BY <1>1
  <2> HIDE DEF m
  <2>6. ~(m < n)
    BY <2>2, <2>4, <2>5 DEF Before
  <2> QED
    BY <1>3, <2>1, <2>6 DEF m
<1> QED
  BY <1>4

(* A window is of one iteration at least.                                   *)
LEMMA WindowPositive == ASSUME NEW c \in Nat PROVE Item!WindowFor(c) \in Nat /\ Item!WindowFor(c) > 0
<1> DEFINE fit == Item!AtLeastOne(WINDOW_IR \div Item!AtLeastOne(c))
           powers == {k \in 1 .. fit : \E n \in 0 .. fit : k = 2 ^ n}
           power == CHOOSE k \in powers : \A j \in powers : j <= k
<1>1. Item!AtLeastOne(c) \in Nat /\ Item!AtLeastOne(c) > 0
  BY DEF Item!AtLeastOne
<1>2. WINDOW_IR \div Item!AtLeastOne(c) \in Nat
  <2> DEFINE d == Item!AtLeastOne(c)
  <2>1. d \in Nat /\ d > 0 /\ WINDOW_IR \in Nat
    BY <1>1, ItemAssumption DEF Item!HandshakeAssumption
  <2> HIDE DEF d
  <2>2. WINDOW_IR \div d \in Nat
    BY <2>1
  <2> QED
    BY <2>2 DEF d
<1>3. fit \in Nat /\ fit >= 1
  BY <1>2 DEF Item!AtLeastOne
<1>4. Item!WindowFor(c) = IF power < K_MAX THEN power ELSE K_MAX
  BY DEF Item!WindowFor
<1> HIDE DEF fit
<1>5. 1 \in powers
  <2>1. 2 ^ 0 = 1
    OBVIOUS
  <2>2. 0 \in 0..fit /\ 1 \in 1..fit
    BY <1>3
  <2>3. \E n \in 0..fit : 1 = 2 ^ n
    BY <2>1, <2>2
  <2> QED
    BY <2>2, <2>3
<1>6. powers \subseteq 1..fit /\ powers # {}
  BY <1>5
<1> HIDE DEF powers
<1>7. \E k \in powers : \A j \in powers : j <= k
  BY <1>3, <1>6, Largest
<1>8. power \in powers
  BY <1>7
<1> HIDE DEF power
<1>9. power \in Nat /\ power > 0
  BY <1>3, <1>6, <1>8
<1> QED
  BY <1>4, <1>9, ItemAssumption DEF Item!HandshakeAssumption

LEMMA Quotient == ASSUME NEW w \in Nat, w > 0, NEW c \in Nat PROVE (w * c) \div w = c
  OBVIOUS

(* What each phase of the bench process has dumped.                         *)
DumpsInv ==
  /\ dumps \in Seq(Nat)
  /\ bench \in {"none", "setup", "warmup", "report", "await", "window", "leave", "gone"}
  /\ bench \in {"none", "setup"} => Len(dumps) = 0
  /\ bench = "warmup" => Len(dumps) = 1
  /\ bench \in {"report", "await"} => Len(dumps) = 2
  /\ bench = "window" => Len(dumps) = 3
  /\ bench = "leave" => Len(dumps) = 4
  /\ bench \in {"report", "await", "window", "leave"} \/ report => Len(dumps) >= 2 /\ dumps[2] = cost
  /\ bench = "leave" \/ Len(dumps) >= 5 => dumps[4] = answer * cost
  /\ bench \in {"window", "leave"} \/ Len(dumps) >= 5 => answer # None

(* What the command knows, and has said.                                    *)
TalkInv ==
  /\ bench = "none" => cli = "off" /\ ~report /\ answer = None
  /\ bench # "none" => cost \in Costs
  /\ cli = "choose" => report
  /\ cli \in {"off", "warm", "choose"} => chosen = None
  /\ cli \in {"warm", "choose", "send"} => answer = None
  /\ chosen # None => chosen = Item!WindowFor(cost)
  /\ answer # None => answer = Item!WindowFor(cost)
  /\ cli \in {"wait", "join", "over"} /\ chosen # None => answer = chosen
  /\ cli \in {"join", "over"} => bench = "gone"
  /\ cli # "over" => result = None

ItemInv == DumpsInv /\ TalkInv /\ MeasuredWhole

Added(n) ==
  /\ dumps' \in Seq(Nat) /\ Len(dumps') = Len(dumps) + 1
  /\ \A i \in 1 .. Len(dumps) : dumps'[i] = dumps[i]
  /\ dumps'[Len(dumps) + 1] = n

LEMMA Appended ==
  ASSUME ItemInv, NEW n \in Nat, dumps' = Append(dumps, n)
  PROVE  Added(n)
<1>1. dumps \in Seq(Nat)
  BY DEF ItemInv, DumpsInv
<1> QED
  BY <1>1 DEF Added

LEMMA ItemStarts == ReferenceInit => ItemInv
<1> SUFFICES ASSUME ReferenceInit PROVE ItemInv
  OBVIOUS
<1>1. /\ cli = "off" /\ chosen = None /\ result = None /\ bench = "none"
      /\ dumps = <<>> /\ report = FALSE /\ answer = None
  BY DEF ReferenceInit, Item!HandshakeInit
<1>2. DumpsInv
  BY <1>1 DEF DumpsInv
<1>3. TalkInv
  BY <1>1 DEF TalkInv
<1>4. MeasuredWhole
  BY <1>1 DEF MeasuredWhole, Item!MeasuredWhole
<1> QED
  BY <1>2, <1>3, <1>4 DEF ItemInv

LEMMA ClearedKeeps == ASSUME Item!Cleared PROVE ItemInv'
<1>1. /\ cli' = "off" /\ chosen' = None /\ result' = None /\ bench' = "none"
      /\ dumps' = <<>> /\ report' = FALSE /\ answer' = None
  BY DEF Item!Cleared
<1>2. DumpsInv'
  BY <1>1 DEF DumpsInv
<1>3. TalkInv'
  BY <1>1 DEF TalkInv
<1>4. MeasuredWhole'
  BY <1>1 DEF MeasuredWhole, Item!MeasuredWhole
<1> QED
  BY <1>2, <1>3, <1>4 DEF ItemInv

LEMMA RestKeeps == ASSUME ItemInv, UNCHANGED hs PROVE ItemInv'
<1>1. UNCHANGED <<cli, chosen, result, bench, cost, dumps, report, answer>>
  BY DEF hs
<1>2. DumpsInv'
  BY <1>1 DEF ItemInv, DumpsInv
<1>3. TalkInv'
  BY <1>1 DEF ItemInv, TalkInv
<1>4. MeasuredWhole'
  BY <1>1 DEF ItemInv, MeasuredWhole, Item!MeasuredWhole
<1> QED
  BY <1>2, <1>3, <1>4 DEF ItemInv

LEMMA SpawnKeeps == ASSUME ItemInv, Item!Spawn PROVE ItemInv'
<1>1. /\ cli = "off" /\ bench = "none" /\ cli' = "warm" /\ bench' = "setup" /\ cost' \in Costs
      /\ UNCHANGED <<chosen, result, dumps, report, answer>>
  BY DEF Item!Spawn
<1>2. DumpsInv'
  BY <1>1 DEF ItemInv, DumpsInv, TalkInv
<1>3. TalkInv'
  BY <1>1 DEF ItemInv, TalkInv
<1>4. result' = None
  BY <1>1 DEF ItemInv, TalkInv
<1>5. MeasuredWhole'
  BY <1>4 DEF MeasuredWhole, Item!MeasuredWhole
<1> QED
  BY <1>2, <1>3, <1>5 DEF ItemInv

LEMMA KilledKeeps == ASSUME ItemInv, Item!Killed PROVE ItemInv'
<1>1. CASE Item!Alive
  <2>1. /\ cli' = "off" /\ chosen' = None /\ result' = None
        /\ UNCHANGED <<bench, cost, dumps, report, answer>>
    BY <1>1 DEF Item!Killed
  <2>2. bench # "none"
    BY <1>1 DEF Item!Alive
  <2>3. DumpsInv'
    BY <2>1 DEF ItemInv, DumpsInv
  <2>4. TalkInv'
    BY <2>1, <2>2 DEF ItemInv, TalkInv
  <2>5. MeasuredWhole'
    BY <2>1 DEF MeasuredWhole, Item!MeasuredWhole
  <2> QED
    BY <2>3, <2>4, <2>5 DEF ItemInv
<1>2. CASE ~Item!Alive
  BY <1>2, ClearedKeeps DEF Item!Killed
<1> QED
  BY <1>1, <1>2

(* A step of the bench process that is alive.                               *)
Runs ==
  /\ bench \notin {"none", "gone"} /\ bench' # "none"
  /\ report => report'
  /\ UNCHANGED <<cli, chosen, result, cost, answer>>

LEMMA TalkGoesOn == ASSUME ItemInv, Runs PROVE TalkInv' /\ MeasuredWhole'
<1>1. cli \notin {"join", "over"} /\ result = None
  BY DEF ItemInv, TalkInv, Runs
<1>2. TalkInv'
  BY <1>1 DEF ItemInv, TalkInv, Runs
<1>3. MeasuredWhole'
  BY <1>1 DEF Runs, MeasuredWhole, Item!MeasuredWhole
<1> QED
  BY <1>2, <1>3

(* It ends without a dump.                                                  *)
LEMMA EndKeeps ==
  ASSUME ItemInv, Runs, bench' = "gone", UNCHANGED <<dumps, report>>
  PROVE  ItemInv'
<1>1. DumpsInv'
  BY DEF ItemInv, DumpsInv, Runs
<1> QED
  BY <1>1, TalkGoesOn DEF ItemInv

LEMMA SetUpKeeps == ASSUME ItemInv, Item!SetUp PROVE ItemInv'
<1>1. /\ bench = "setup" /\ UNCHANGED <<cli, chosen, result, cost, report, answer>>
      /\ bench' \in {"warmup", "gone"}
      /\ IF bench' = "warmup" THEN dumps' = Append(dumps, 0) ELSE UNCHANGED dumps
  BY DEF Item!SetUp, Item!Prints, Item!Ends, Item!Dump
<1>2. Runs
  BY <1>1 DEF Runs
<1>3. CASE bench' = "gone"
  BY <1>1, <1>2, <1>3, EndKeeps
<1>4. CASE bench' = "warmup"
  <2>0. Added(0)
    BY <1>1, <1>4, Appended
  <2>1. Len(dumps') = 1 /\ dumps' \in Seq(Nat)
    BY <1>1, <2>0 DEF Added, ItemInv, DumpsInv
  <2>2. ~report
    BY <1>1 DEF ItemInv, DumpsInv
  <2>3. DumpsInv'
    BY <1>1, <1>4, <2>1, <2>2 DEF DumpsInv
  <2> QED
    BY <1>2, <2>3, TalkGoesOn DEF ItemInv
<1> QED
  BY <1>1, <1>3, <1>4

LEMMA WarmUpKeeps == ASSUME ItemInv, Item!WarmUp PROVE ItemInv'
<1>1. /\ bench = "warmup" /\ UNCHANGED <<cli, chosen, result, cost, report, answer>>
      /\ bench' \in {"report", "gone"}
      /\ IF bench' = "report" THEN dumps' = Append(dumps, cost) ELSE UNCHANGED dumps
  BY DEF Item!WarmUp, Item!Prints, Item!Ends, Item!Dump
<1>2. Runs
  BY <1>1 DEF Runs
<1>3. CASE bench' = "gone"
  BY <1>1, <1>2, <1>3, EndKeeps
<1>4. CASE bench' = "report"
  <2>1. cost \in Nat
    BY <1>1, CostNat DEF ItemInv, TalkInv
  <2>2. Len(dumps) = 1 /\ dumps \in Seq(Nat)
    BY <1>1 DEF ItemInv, DumpsInv
  <2>0. Added(cost)
    BY <1>1, <1>4, <2>1, Appended
  <2>3. Len(dumps') = 2 /\ dumps' \in Seq(Nat) /\ dumps'[2] = cost
    BY <2>0, <2>2 DEF Added
  <2>4. DumpsInv'
    BY <1>1, <1>4, <2>3 DEF DumpsInv
  <2> QED
    BY <1>2, <2>4, TalkGoesOn DEF ItemInv
<1> QED
  BY <1>1, <1>3, <1>4

LEMMA ReportKeeps == ASSUME ItemInv, Item!Report PROVE ItemInv'
<1>1. /\ bench = "report" /\ UNCHANGED <<cli, chosen, result, cost, dumps, answer>>
      /\ \/ bench' = "await" /\ report' = TRUE
         \/ bench' = "gone" /\ UNCHANGED report
  BY DEF Item!Report, Item!Ends
<1>2. ASSUME report PROVE report'
  <2>1. CASE report' = TRUE
    BY <2>1
  <2>2. CASE report' = report
    BY <1>2, <2>2
  <2> QED
    BY <1>1, <2>1, <2>2
<1>3. Runs
  BY <1>1, <1>2 DEF Runs
<1>4. DumpsInv'
  BY <1>1 DEF ItemInv, DumpsInv
<1> QED
  BY <1>4, <1>3, TalkGoesOn DEF ItemInv

LEMMA AwaitKeeps == ASSUME ItemInv, Item!Await PROVE ItemInv'
<1>1. /\ bench = "await" /\ UNCHANGED <<cli, chosen, result, cost, report, answer>>
      /\ \/ answer # None /\ bench' = "window" /\ dumps' = Append(dumps, 0)
         \/ bench' = "gone" /\ UNCHANGED dumps
  BY DEF Item!Await, Item!Ends, Item!Dump
<1>2. Runs
  BY <1>1 DEF Runs
<1>3. CASE bench' = "gone"
  BY <1>1, <1>2, <1>3, EndKeeps
<1>4. CASE bench' = "window"
  <2>1. Len(dumps) = 2 /\ dumps \in Seq(Nat) /\ dumps[2] = cost
    BY <1>1 DEF ItemInv, DumpsInv
  <2>0. Added(0)
    BY <1>1, <1>4, Appended
  <2>2. Len(dumps') = 3 /\ dumps' \in Seq(Nat) /\ dumps'[2] = cost
    BY <2>0, <2>1 DEF Added
  <2>3. answer' # None
    BY <1>1, <1>4
  <2>4. DumpsInv'
    BY <1>1, <1>4, <2>2, <2>3 DEF DumpsInv
  <2> QED
    BY <1>2, <2>4, TalkGoesOn DEF ItemInv
<1> QED
  BY <1>1, <1>3, <1>4

(* An answer is a window, of one iteration at least.                        *)
LEMMA AnswerPositive ==
  ASSUME ItemInv, answer # None
  PROVE  answer = Item!WindowFor(cost) /\ answer \in Nat /\ answer > 0 /\ cost \in Nat /\ answer * cost \in Nat
<1>1. answer = Item!WindowFor(cost) /\ cost \in Costs
  BY DEF ItemInv, TalkInv
<1>2. cost \in Nat
  BY <1>1, CostNat
<1>3. answer \in Nat /\ answer > 0
  BY <1>1, <1>2, WindowPositive
<1>4. answer * cost \in Nat
  BY <1>2, <1>3
<1> QED
  BY <1>1, <1>2, <1>3, <1>4

LEMMA WindowKeeps == ASSUME ItemInv, Item!Window PROVE ItemInv'
<1>1. /\ bench = "window" /\ UNCHANGED <<cli, chosen, result, cost, report, answer>>
      /\ bench' \in {"leave", "gone"}
      /\ IF bench' = "leave" THEN dumps' = Append(dumps, answer * cost) ELSE UNCHANGED dumps
  BY DEF Item!Window, Item!Prints, Item!Ends, Item!Dump
<1>2. Runs
  BY <1>1 DEF Runs
<1>3. CASE bench' = "gone"
  BY <1>1, <1>2, <1>3, EndKeeps
<1>4. CASE bench' = "leave"
  <2>1. Len(dumps) = 3 /\ dumps \in Seq(Nat) /\ dumps[2] = cost /\ answer # None
    BY <1>1 DEF ItemInv, DumpsInv
  <2> DEFINE all4 == answer * cost
  <2>2. all4 \in Nat
    BY <2>1, AnswerPositive
  <2>3. dumps' = Append(dumps, all4)
    BY <1>1, <1>4
  <2> HIDE DEF all4
  <2>0. Added(all4)
    BY <2>2, <2>3, Appended
  <2>4. Len(dumps') = 4 /\ dumps' \in Seq(Nat) /\ dumps'[2] = cost /\ dumps'[4] = all4
    BY <2>0, <2>1 DEF Added
  <2>5. dumps'[4] = answer' * cost'
    BY <1>1, <2>4 DEF all4
  <2>6. DumpsInv'
    BY <1>1, <1>4, <2>1, <2>4, <2>5 DEF DumpsInv
  <2> QED
    BY <1>2, <2>6, TalkGoesOn DEF ItemInv
<1> QED
  BY <1>1, <1>3, <1>4

LEMMA LeaveKeeps == ASSUME ItemInv, Item!Leave PROVE ItemInv'
<1>1. /\ bench = "leave" /\ UNCHANGED <<cli, chosen, result, cost, report, answer>>
      /\ bench' = "gone" /\ dumps' = Append(dumps, 0)
  BY DEF Item!Leave, Item!Ends, Item!Dump
<1>2. Runs
  BY <1>1 DEF Runs
<1>3. /\ Len(dumps) = 4 /\ dumps \in Seq(Nat) /\ dumps[2] = cost
      /\ dumps[4] = answer * cost /\ answer # None
  BY <1>1 DEF ItemInv, DumpsInv
<1>4. Added(0)
  BY <1>1, Appended
<1>5. Len(dumps') = 5 /\ dumps' \in Seq(Nat) /\ dumps'[2] = cost /\ dumps'[4] = dumps[4]
  BY <1>3, <1>4 DEF Added
<1>6. dumps'[4] = answer' * cost'
  BY <1>1, <1>3, <1>5
<1>7. DumpsInv'
  BY <1>1, <1>3, <1>5, <1>6 DEF DumpsInv
<1> QED
  BY <1>2, <1>7, TalkGoesOn DEF ItemInv

(* An early end leaves four dumps at most.                                  *)
LEMMA DiesKeeps == ASSUME ItemInv, Item!Dies PROVE ItemInv'
<1>1. /\ bench \notin {"none", "gone"} /\ bench' = "gone"
      /\ UNCHANGED <<cli, chosen, result, cost, report, answer>>
      /\ \/ dumps' = dumps
         \/ /\ bench \in {"setup", "warmup", "window"}
            /\ dumps' = Append(dumps, 0) \/ (bench = "window" /\ dumps' = Append(dumps, cost))
  BY DEF Item!Dies, Item!Alive, Item!Ends, Item!Dump
<1>2. Runs
  BY <1>1 DEF Runs
<1>3. CASE dumps' = dumps
  BY <1>1, <1>2, <1>3, EndKeeps
<1>4. CASE dumps' # dumps
  <2>1. PICK n \in {0, cost} : dumps' = Append(dumps, n)
    BY <1>1, <1>4
  <2>2. n \in Nat
    BY <1>1, CostNat DEF ItemInv, TalkInv
  <2>0. Added(n)
    BY <2>1, <2>2, Appended
  <2>3. /\ dumps \in Seq(Nat) /\ Len(dumps) < 4
        /\ report \/ bench = "window" => Len(dumps) >= 2 /\ dumps[2] = cost
    <3>1. bench \in {"setup", "warmup", "window"}
      BY <1>1, <1>4
    <3>2. dumps \in Seq(Nat) /\ (report \/ bench = "window" => Len(dumps) >= 2 /\ dumps[2] = cost)
      BY DEF ItemInv, DumpsInv
    <3>3. Len(dumps) = 0 \/ Len(dumps) = 1 \/ Len(dumps) = 3
      BY <3>1 DEF ItemInv, DumpsInv
    <3>4. Len(dumps) < 4
      <4> DEFINE n4 == Len(dumps)
      <4>1. n4 = 0 \/ n4 = 1 \/ n4 = 3
        BY <3>3
      <4> HIDE DEF n4
      <4>2. n4 < 4
        BY <4>1
      <4> QED
        BY <4>2 DEF n4
    <3> QED
      BY <3>2, <3>4
  <2>4. dumps' \in Seq(Nat) /\ Len(dumps') < 5
    <3>1. Len(dumps) \in Nat /\ Len(dumps') = Len(dumps) + 1 /\ dumps' \in Seq(Nat)
      BY <2>0, <2>3 DEF Added
    <3> QED
      BY <2>3, <3>1
  <2>5. Len(dumps) >= 2 => Len(dumps') >= 2 /\ dumps'[2] = dumps[2]
    <3> SUFFICES ASSUME Len(dumps) >= 2 PROVE Len(dumps') >= 2 /\ dumps'[2] = dumps[2]
      OBVIOUS
    <3>1. 2 \in 1 .. Len(dumps) /\ Len(dumps) \in Nat
      BY <2>3
    <3> QED
      BY <2>0, <3>1 DEF Added
  <2>6. report => Len(dumps') >= 2 /\ dumps'[2] = cost
    BY <2>3, <2>5
  <2>7. DumpsInv'
    <3>1. bench' = "gone" /\ report' = report /\ cost' = cost /\ ~(Len(dumps') >= 5)
      <4>1. Len(dumps') \in Nat
        BY <2>4
      <4> QED
        BY <1>1, <2>4, <4>1
    <3>2. report' => Len(dumps') >= 2 /\ dumps'[2] = cost'
      BY <2>6, <3>1
    <3> QED
      BY <2>4, <3>1, <3>2 DEF DumpsInv
  <2> QED
    BY <1>2, <2>7, TalkGoesOn DEF ItemInv
<1> QED
  BY <1>3, <1>4

(* A step of the command that leaves what is dumped alone.                  *)
LEMMA DumpsStay ==
  ASSUME ItemInv, UNCHANGED <<dumps, report, cost>>,
         \/ bench' = bench /\ (answer' = answer \/ answer = None)
         \/ bench' = "gone" /\ answer' = answer
  PROVE  DumpsInv'
<1>1. CASE answer' = answer
  BY <1>1 DEF ItemInv, DumpsInv
<1>2. CASE bench' = bench /\ answer = None
  BY <1>2 DEF ItemInv, DumpsInv
<1> QED
  BY <1>1, <1>2

LEMMA AbandonKeeps ==
  ASSUME ItemInv, cli \in {"warm", "choose", "send"}, Item!Abandon,
         UNCHANGED <<result, cost, dumps, report, answer>>
  PROVE  ItemInv'
<1>1. cli' = "wait" /\ chosen' = None /\ (bench' = "gone" \/ bench' = bench)
  BY DEF Item!Abandon, Item!Ends
<1>2. bench # "none" /\ result = None /\ bench' # "none"
  BY <1>1 DEF ItemInv, TalkInv
<1>3. DumpsInv'
  BY <1>1, DumpsStay
<1>4. TalkInv'
  BY <1>1, <1>2 DEF ItemInv, TalkInv
<1>5. MeasuredWhole'
  BY <1>2 DEF MeasuredWhole, Item!MeasuredWhole
<1> QED
  BY <1>3, <1>4, <1>5 DEF ItemInv

(* It goes on with nothing but what it knows changed.                       *)
LEMMA GoesOn ==
  ASSUME ItemInv, cli \in {"warm", "choose", "wait"}, cli' # "over", UNCHANGED <<result, bench, cost, dumps, report, answer>>,
         TalkInv'
  PROVE  ItemInv'
<1>1. result = None
  BY DEF ItemInv, TalkInv
<1>2. DumpsInv'
  BY DumpsStay
<1>3. MeasuredWhole'
  BY <1>1 DEF MeasuredWhole, Item!MeasuredWhole
<1> QED
  BY <1>2, <1>3 DEF ItemInv

LEMMA WarmedKeeps == ASSUME ItemInv, Item!Warmed PROVE ItemInv'
<1>1. cli = "warm" /\ UNCHANGED <<result, cost, dumps, report, answer>>
  BY DEF Item!Warmed
<1>2. CASE report
  <2>1. cli' = "choose" /\ UNCHANGED <<chosen, bench>>
    BY <1>2 DEF Item!Warmed
  <2>2. report'
    BY <1>1, <1>2
  <2>3. TalkInv'
    BY <1>1, <2>1, <2>2 DEF ItemInv, TalkInv
  <2> QED
    BY <1>1, <2>1, <2>3, GoesOn
<1>3. CASE ~report
  <2>1. Item!Abandon
    BY <1>3 DEF Item!Warmed
  <2> QED
    BY <1>1, <2>1, AbandonKeeps
<1> QED
  BY <1>2, <1>3

LEMMA ChooseKeeps == ASSUME ItemInv, Item!Choose PROVE ItemInv'
<1>1. cli = "choose" /\ UNCHANGED <<result, cost, dumps, report, answer>>
  BY DEF Item!Choose
<1>2. CASE Len(dumps) >= 2
  <2>1. cli' = "send" /\ chosen' = Item!WindowFor(dumps[2]) /\ UNCHANGED <<bench>>
    BY <1>2 DEF Item!Choose
  <2>2. report
    BY <1>1 DEF ItemInv, TalkInv
  <2>3. dumps[2] = cost
    BY <2>2 DEF ItemInv, DumpsInv
  <2>4. chosen' = Item!WindowFor(cost)
    BY <2>1, <2>3
  <2>5. cost \in Nat
    BY <1>1, CostNat DEF ItemInv, TalkInv
  <2>6. chosen' # None
    BY <2>4, <2>5, WindowPositive, ItemAssumption DEF Item!HandshakeAssumption
  <2>7. TalkInv'
    BY <1>1, <2>1, <2>4, <2>6 DEF ItemInv, TalkInv
  <2> QED
    BY <1>1, <2>1, <2>7, GoesOn
<1>3. CASE ~(Len(dumps) >= 2)
  <2>1. Item!Abandon
    BY <1>3 DEF Item!Choose
  <2> QED
    BY <1>1, <2>1, AbandonKeeps
<1> QED
  BY <1>2, <1>3

LEMMA SendKeeps == ASSUME ItemInv, Item!Send PROVE ItemInv'
<1>1. cli = "send" /\ UNCHANGED <<result, cost, dumps, report>>
  BY DEF Item!Send
<1>2. CASE Item!Alive \/ left
  <2>1. cli' = "wait" /\ answer' = chosen /\ UNCHANGED <<chosen, bench>>
    BY <1>2 DEF Item!Send
  <2>2. answer = None /\ result = None
    BY <1>1 DEF ItemInv, TalkInv
  <2>3. DumpsInv'
    BY <1>1, <2>1, <2>2, DumpsStay
  <2>4. TalkInv'
    BY <1>1, <2>1 DEF ItemInv, TalkInv
  <2>5. MeasuredWhole'
    BY <1>1, <2>2 DEF MeasuredWhole, Item!MeasuredWhole
  <2> QED
    BY <2>3, <2>4, <2>5 DEF ItemInv
<1>3. CASE ~(Item!Alive \/ left)
  <2>1. Item!Abandon /\ UNCHANGED answer
    BY <1>3 DEF Item!Send
  <2> QED
    BY <1>1, <2>1, AbandonKeeps
<1> QED
  BY <1>2, <1>3

LEMMA WaitKeeps == ASSUME ItemInv, Item!Wait PROVE ItemInv'
<1>1. /\ cli = "wait" /\ cli' = "join" /\ ~Item!Alive
      /\ UNCHANGED <<chosen, result, bench, cost, dumps, report, answer>>
  BY DEF Item!Wait
<1>2. bench = "gone"
  BY <1>1 DEF ItemInv, TalkInv, Item!Alive
<1>3. TalkInv'
  BY <1>1, <1>2 DEF ItemInv, TalkInv
<1> QED
  BY <1>1, <1>3, GoesOn

(* Five dumps of a process whose window was chosen are the five phases'.    *)
LEMMA WholeWindow ==
  ASSUME ItemInv, cli = "join", NEW r, r = Item!Measured(chosen), r # None
  PROVE  r.ir = cost /\ r.window = Item!WindowFor(cost)
<1>1. chosen # None /\ Len(dumps) = 5 /\ r = [ir |-> dumps[4] \div chosen, window |-> chosen]
  BY DEF Item!Measured
<1>2. chosen = answer /\ answer # None
  BY <1>1 DEF ItemInv, TalkInv
<1>3. dumps[4] = answer * cost
  BY <1>1 DEF ItemInv, DumpsInv
<1>4. answer = Item!WindowFor(cost) /\ answer \in Nat /\ answer > 0 /\ cost \in Nat
  BY <1>2, AnswerPositive
<1>5. dumps[4] \div chosen = cost
  BY <1>2, <1>3, <1>4, Quotient
<1> QED
  BY <1>1, <1>2, <1>4, <1>5

LEMMA JoinKeeps == ASSUME ItemInv, Item!Join PROVE ItemInv'
<1>1. /\ cli = "join" /\ cli' = "over" /\ result' = Item!Measured(chosen)
      /\ UNCHANGED <<chosen, bench, cost, dumps, report, answer>>
  BY DEF Item!Join
<1>2. DumpsInv'
  BY <1>1, DumpsStay
<1>3. TalkInv'
  BY <1>1 DEF ItemInv, TalkInv
<1>4. MeasuredWhole'
  <2>1. result' # None => result'.ir = cost /\ result'.window = Item!WindowFor(cost)
    BY <1>1, WholeWindow
  <2>2. Item!WindowFor(cost)' = Item!WindowFor(cost)
    BY <1>1 DEF Item!WindowFor, Item!AtLeastOne
  <2> QED
    BY <1>1, <2>1, <2>2 DEF MeasuredWhole, Item!MeasuredWhole
<1> QED
  BY <1>2, <1>3, <1>4 DEF ItemInv

LEMMA DrainKeeps == ASSUME ItemInv, Item!Drain PROVE ItemInv'
<1>1. UNCHANGED <<cli, chosen, result, bench, cost, dumps, report, answer>>
  BY DEF Item!Drain
<1>2. DumpsInv'
  BY <1>1, DumpsStay
<1>3. TalkInv'
  BY <1>1 DEF ItemInv, TalkInv
<1>4. MeasuredWhole'
  BY <1>1 DEF ItemInv, MeasuredWhole, Item!MeasuredWhole
<1> QED
  BY <1>2, <1>3, <1>4 DEF ItemInv

LEMMA ItemKeeps == ItemInv /\ [ReferenceNext]_all => ItemInv'
<1> SUFFICES ASSUME ItemInv, [ReferenceNext]_all PROVE ItemInv'
  OBVIOUS
<1>1. CASE UNCHANGED hs
  BY <1>1, RestKeeps
<1>2. CASE Item!Spawn
  BY <1>2, SpawnKeeps
<1>3. CASE Item!Cleared
  BY <1>3, ClearedKeeps
<1>4. CASE Item!Killed
  BY <1>4, KilledKeeps
<1>5. CASE Item!HandshakeStep
  BY <1>5, SetUpKeeps, WarmUpKeeps, ReportKeeps, AwaitKeeps, WindowKeeps, LeaveKeeps,
     ClearedKeeps, DiesKeeps, WarmedKeeps, ChooseKeeps, SendKeeps, WaitKeeps, JoinKeeps, DrainKeeps
     DEF Item!HandshakeStep, Item!BenchStep, Item!CliStep, Item!Forgotten
<1>6. \/ UNCHANGED hs \/ Item!Spawn \/ Item!Cleared \/ Item!Killed \/ Item!HandshakeStep
  BY DEF ReferenceNext, Resolves, Goes, Prepares, StartsItem, TakesResult, Killed, Measures, Users, all, hs
<1> QED
  BY <1>1, <1>2, <1>3, <1>4, <1>5, <1>6

(* What a gate is told of an item is what an iteration of it takes, over    *)
(* the window that was chosen for it, whichever side ended when, of itself  *)
(* or killed (callgrind.rs: run_window, measure_window).                    *)
THEOREM ItemsAreMeasuredWhole == ReferenceSpec => []MeasuredWhole
<1>1. ItemInv => MeasuredWhole
  BY DEF ItemInv
<1> QED
  BY <1>1, ItemStarts, ItemKeeps, PTL DEF ReferenceSpec
=============================================================================
