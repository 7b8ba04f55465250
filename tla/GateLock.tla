------------------------------ MODULE GateLock ------------------------------
(***************************************************************************)
(* A branch gated against its reference with accepted overrides: gate.rs's  *)
(* run and accept_parsed, gate_lock.rs's entries, and the saves of          *)
(* gate_save.rs and invoke.rs that drop what a baseline has absorbed.       *)
(*                                                                          *)
(* HEAD measures what its code is; the bench counters are deterministic.    *)
(* A gate compares it with its reference and, where one is given, with a    *)
(* ratchet baseline.  The reference is the merge-base, which moves when the *)
(* branch lands (AgainstRef), or a baseline, which moves when it is saved.  *)
(***************************************************************************)
EXTENDS Compare

CONSTANTS
  Items,         \* bench ids
  Measures,      \* what an item may measure
  Runs,          \* contexts gates and accepts are run under
  Absent,        \* an item that is not registered
  AgainstRef,    \* --against-ref rather than --baseline
  SaveNames,     \* the files --save-baseline names: "reference", "ratchet"
  ReacceptStale, \* accept is run on an item that has a stale entry
  MaxCommits     \* bound: changes of HEAD and merges

ASSUME SwitchAssumption ==
  /\ AgainstRef \in BOOLEAN /\ ReacceptStale \in BOOLEAN /\ MaxCommits \in Nat
  /\ SaveNames \subseteq {"reference", "ratchet"}
  /\ AgainstRef => "reference" \notin SaveNames
ASSUME RunsAssumption == Runs \subseteq Contexts
ASSUME AbsentAssumption == Absent \notin Measures
ASSUME MeasuresAssumption ==
  \A item \in Measures :
    /\ item.tol \in Nat
    /\ \A m \in Metrics : Value(item, m) \in Nat \cup {None}

Entries == LET fps == {item.fp : item \in Measures} IN
  [base : fps, head : fps, metrics : [Metrics -> Nat \cup {None}]]

ASSUME NoEntryAssumption == None \notin Entries

VARIABLES
  head,       \* what HEAD measures
  reference,  \* what the merge-base measures, or the baseline
  ratchet,    \* a long-lived baseline
  lock,       \* soothfast-gate.lock
  reviewed,   \* history: the fingerprint each accepted number was accepted over
  status,     \* gate-status.json
  commits

vars == <<head, reference, ratchet, lock, reviewed, status, commits>>

Docs    == [Items -> Measures \cup {Absent}]
NoEntry == None
Blank   == [m \in Metrics |-> None]

(* The metrics of `cur' that fail against `old' under the lock file `es'.    *)
Failing(old, cur, es, ctx) ==
  {f \in Items \X Metrics :
     /\ old[f[1]] # Absent /\ cur[f[1]] # Absent
     /\ Regressed(es[f[1]], old[f[1]], cur[f[1]], f[2], ctx)}

NearMisses(old, cur, ctx) ==
  {f \in Items \X Metrics :
     /\ old[f[1]] # Absent /\ cur[f[1]] # Absent
     /\ NearMiss(old[f[1]], cur[f[1]], f[2], ctx)}

Gone(old, cur) == {i \in Items : old[i] # Absent /\ cur[i] = Absent}

(* Slip: a reference item that was not measured is passed over.              *)
CleanUnlessGone(old, cur, es, ctx) == Failing(old, cur, es, ctx) = {}

Clean(old, cur, es, ctx) ==
  /\ Failing(old, cur, es, ctx) = {}
  /\ ctx.allowGone \/ Gone(old, cur) = {}

TypeOK ==
  /\ head \in Docs /\ reference \in Docs /\ ratchet \in Docs
  /\ lock \in [Items -> Entries \cup {NoEntry}] /\ DOMAIN reviewed = Items
  /\ \A i \in Items :
       /\ lock[i] # NoEntry => \E m \in Metrics : lock[i].metrics[m] # None
       /\ \A m \in Metrics :
            reviewed[i][m] # None => lock[i] # NoEntry /\ lock[i].metrics[m] # None
  /\ status \in {"none", "passed", "failed"} /\ commits \in 0..MaxCommits

Init ==
  /\ head \in [Items -> Measures] /\ reference = head /\ ratchet = head
  /\ lock = [i \in Items |-> NoEntry] /\ reviewed = [i \in Items |-> Blank]
  /\ status = "none" /\ commits = 0

-----------------------------------------------------------------------------
(* HEAD's code changes: an item is edited, added or removed, or what it      *)
(* calls is, which moves its numbers and leaves its fingerprint.             *)
Commit(i, m) ==
  /\ commits < MaxCommits /\ head[i] # m
  /\ head' = [head EXCEPT ![i] = m] /\ commits' = commits + 1
  /\ UNCHANGED <<reference, ratchet, lock, reviewed, status>>

(* The branch lands, lock file and all: it is the next merge-base.           *)
Merge ==
  /\ AgainstRef /\ reference # head /\ commits < MaxCommits
  /\ reference' = head /\ commits' = commits + 1
  /\ UNCHANGED <<head, ratchet, lock, reviewed, status>>

Registered == \E i \in Items : head[i] # Absent

Compared(withRatchet) == {reference} \cup (IF withRatchet THEN {ratchet} ELSE {})

(* A gate is green when it measured something, its comparisons are clean or  *)
(* waived by --allow-harness-change, and HEAD's checked claims hold, which   *)
(* nothing waives.                                                           *)
Green(ctx, withRatchet, claimsOk, waived) ==
  /\ Registered /\ claimsOk
  /\ waived \/ \A old \in Compared(withRatchet) : Clean(old, head, lock, ctx)

Gate(ctx, withRatchet, claimsOk, waived) ==
  /\ status' = IF Green(ctx, withRatchet, claimsOk, waived) THEN "passed" ELSE "failed"
  /\ UNCHANGED <<head, reference, ratchet, lock, reviewed, commits>>

Recordable(ctx) == Failing(reference, head, lock, ctx) \cup NearMisses(reference, head, ctx)

(* The entry an accept of the metrics `ms' leaves for `i': of this reference *)
(* and this HEAD, with the numbers it had for other metrics.                 *)
Recorded(i, ms) ==
  [base |-> reference[i].fp, head |-> head[i].fp,
   metrics |-> [m \in Metrics |->
     IF m \in ms THEN Value(head[i], m)
     ELSE IF lock[i] = NoEntry THEN None ELSE lock[i].metrics[m]]]

Of(i, found) == {m \in Metrics : <<i, m>> \in found}

(* Slip: only what headroom adds is recorded.                                *)
AcceptNear(only, ctx) ==
  LET found == NearMisses(reference, head, ctx)
      picked == {i \in only : Of(i, Recordable(ctx)) # {}}
  IN /\ picked # {}
     /\ lock' = [i \in Items |->
          IF i \in picked THEN Recorded(i, Of(i, found)) ELSE lock[i]]
     /\ reviewed' = [i \in Items |-> [m \in Metrics |->
          IF i \in picked /\ <<i, m>> \in found THEN reference[i].fp ELSE reviewed[i][m]]]
     /\ UNCHANGED <<head, reference, ratchet, status, commits>>

(* `gate accept', of all items or of those --only names: what fails under    *)
(* the lock file as it is and what headroom adds is recorded.                *)
Accept(only, ctx) ==
  LET found == Recordable(ctx)
      picked == {i \in only : Of(i, found) # {}}
  IN /\ picked # {}
     /\ ReacceptStale \/ \A i \in picked : lock[i] = NoEntry \/ Unstale(lock[i], reference[i])
     /\ lock' = [i \in Items |->
          IF i \in picked THEN Recorded(i, Of(i, found)) ELSE lock[i]]
     /\ reviewed' = [i \in Items |-> [m \in Metrics |->
          IF i \in picked /\ <<i, m>> \in found THEN reference[i].fp ELSE reviewed[i][m]]]
     /\ UNCHANGED <<head, reference, ratchet, status, commits>>

Absorbed(entry, cur) == entry # NoEntry /\ cur # Absent /\ entry.head = cur.fp

Saves(name, doc) ==
  /\ reference' = IF name = "reference" THEN doc ELSE reference
  /\ ratchet' = IF name = "ratchet" THEN doc ELSE ratchet

(* Slip: what the baseline absorbs is dropped before it is written.          *)
GateSaveUnwritten(ctx, name) ==
  /\ Registered
  /\ status' = IF Green(ctx, FALSE, TRUE, FALSE) THEN "passed" ELSE "failed"
  /\ lock' = [i \in Items |-> IF Absorbed(lock[i], head[i]) THEN NoEntry ELSE lock[i]]
  /\ reviewed' = [i \in Items |-> IF Absorbed(lock[i], head[i]) THEN Blank ELSE reviewed[i]]
  /\ UNCHANGED <<head, reference, ratchet, commits>>

(* A gate whose claims hold saves HEAD's numbers, regressions and all, and   *)
(* drops the entries of items whose code is what was accepted.               *)
GateSave(ctx, name) ==
  /\ Registered
  /\ status' = IF Green(ctx, FALSE, TRUE, FALSE) THEN "passed" ELSE "failed"
  /\ Saves(name, head)
  /\ lock' = [i \in Items |-> IF Absorbed(lock[i], head[i]) THEN NoEntry ELSE lock[i]]
  /\ reviewed' = [i \in Items |-> IF Absorbed(lock[i], head[i]) THEN Blank ELSE reviewed[i]]
  /\ UNCHANGED <<head, commits>>

(* A gate whose claims fail, or that errored, saves no numbers: the package's *)
(* are replaced by an unmeasured entry, and nothing counts as absorbed.      *)
GateSaveMarked(name) ==
  /\ status' \in {"failed", status}
  /\ Saves(name, [i \in Items |-> Absent])
  /\ UNCHANGED <<head, lock, reviewed, commits>>

Next ==
  \/ \E i \in Items, m \in Measures \cup {Absent} : Commit(i, m)
  \/ Merge
  \/ \E ctx \in Runs, withRatchet, claimsOk, waived \in BOOLEAN :
       Gate(ctx, withRatchet, claimsOk, waived)
  \/ \E only \in (SUBSET Items) \ {{}}, ctx \in Runs : Accept(only, ctx)
  \/ \E ctx \in Runs, name \in SaveNames : GateSave(ctx, name)
  \/ \E name \in SaveNames : GateSaveMarked(name)

Spec == Init /\ [][Next]_vars

-----------------------------------------------------------------------------
(* What is accepted is settled: the same gate no longer fails on any item    *)
(* the accept was asked for, whatever entries the lock file held.            *)
AcceptSettles ==
  [][lock' # lock => \A only \in SUBSET Items, ctx \in Runs :
       Accept(only, ctx)
         => \A f \in Failing(reference, head, lock', ctx) : f[1] \notin only]_vars

(* gate_lock.rs: an override holds "as long as `base_fingerprint` still      *)
(* matches the reference side", docs/gating.md: "the review was against a    *)
(* specific old state".  A green gate nothing waived passes a metric that    *)
(* outgrew its limit only when it is softened or when a number accepted over *)
(* this reference's code covers it.                                          *)
GreenIsReviewed ==
  \A ctx \in Runs, withRatchet \in BOOLEAN :
    \A old \in Compared(withRatchet), i \in Items, m \in Metrics :
      (/\ old[i] # Absent /\ head[i] # Absent
       /\ Comparable(old[i], head[i], m) /\ Fails(old[i], head[i], m)
       /\ ~Softened(lock[i], old[i], head[i], m, ctx)
       /\ Green(ctx, withRatchet, TRUE, FALSE))
        => reviewed[i][m] = old[i].fp /\ UnderCeiling(lock[i], head[i], m)

(* A vanished item is never green: dropping the bench that regressed does    *)
(* not turn a failing gate green unless --allow-gone says so.                *)
DroppingNeverHelps ==
  \A ctx \in Runs, withRatchet \in BOOLEAN, i \in Items :
    /\ head[i] # Absent /\ ~ctx.allowGone
    /\ \E old \in Compared(withRatchet) :
         old[i] # Absent /\ ~Clean(old, head, lock, ctx)
    => ~(\A old \in Compared(withRatchet) :
           Clean(old, [head EXCEPT ![i] = Absent], lock, ctx))

(* prune_absorbed: "the override is no longer needed".  Saving a baseline    *)
(* never turns the same gate of the same code red.                           *)
SaveKeepsGreen ==
  [][lock' # lock => \A ctx \in Runs, name \in SaveNames :
       GateSave(ctx, name) /\ Green(ctx, FALSE, TRUE, FALSE)
         => Clean(reference', head', lock', ctx)]_vars
=============================================================================
