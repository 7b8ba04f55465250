------------------------------ MODULE LocksProofs ------------------------------
(* What holds of the committed files, for any items, metrics, limits, probes, *)
(* fields, pages, codes and formats: a green gate is a reviewed one when      *)
(* stale entries are not accepted over, an accept without headroom settles    *)
(* the gate it was run for, dropping a number turns no gate green, and a save *)
(* none red; probes.lock says what the accepted answers said, a page records  *)
(* a block's own output, and soothfast.lock is stamped with its format.       *)
EXTENDS Locks, SequenceTheorems, TLAPS


(* Every number in an entry was accepted over the code the entry is of.      *)
ReviewedOver ==
  \A i \in Items, m \in Metrics :
    lock[i] # NoEntry /\ lock[i].metrics[m] # None => reviewed[i][m] = lock[i].base

(* The first lock file is empty.                                             *)
LEMMA ReviewedInit == Init => ReviewedOver
  BY DEF Init, ReviewedOver, NoEntry

(* An accept leaves numbers of one reference in an entry it finds unstale,   *)
(* and a save drops entries whole.                                           *)
LEMMA ReviewedNext ==
  ASSUME ReacceptStale = FALSE, ReviewedOver, [Next]_vars
  PROVE  ReviewedOver'
  <1>1. ASSUME NEW only \in SUBSET Items, NEW ctx \in Runs, Accept(only, ctx)
        PROVE  ReviewedOver'
    <2> DEFINE found == Recordable(ctx)
               picked == {i \in only : Of(i, found) # {}}
    <2> SUFFICES ASSUME NEW i \in Items, NEW m \in Metrics,
                        lock'[i] # NoEntry, lock'[i].metrics[m] # None
                 PROVE  reviewed'[i][m] = lock'[i].base
      BY DEF ReviewedOver, NoEntry
    <2>1. lock' = [j \in Items |->
             IF j \in picked THEN Recorded(j, Of(j, found)) ELSE lock[j]]
      BY <1>1 DEF Accept
    <2>2. reviewed' = [j \in Items |-> [n \in Metrics |->
             IF j \in picked /\ <<j, n>> \in found
             THEN reference[j].fp ELSE reviewed[j][n]]]
      BY <1>1 DEF Accept
    <2>3. CASE i \notin picked
      BY <2>1, <2>2, <2>3 DEF ReviewedOver
    <2>4. CASE i \in picked
      <3>1. lock'[i].base = reference[i].fp
        BY <2>1, <2>4 DEF Recorded
      <3>2. CASE m \in Of(i, found)
        BY <2>2, <2>4, <3>1, <3>2 DEF Of
      <3>3. CASE m \notin Of(i, found)
        <4>1. lock[i] # NoEntry /\ lock[i].metrics[m] # None
          BY <2>1, <2>4, <3>3 DEF Recorded
        <4>2. lock[i].base = reference[i].fp
          BY <1>1, <2>4, <4>1 DEF Accept, Unstale, NoEntry
        <4>3. reviewed'[i][m] = reviewed[i][m]
          BY <2>2, <3>3 DEF Of
        <4> QED BY <3>1, <4>1, <4>2, <4>3 DEF ReviewedOver
      <3> QED BY <3>2, <3>3
    <2> QED BY <2>3, <2>4
  <1>2. ASSUME NEW ctx \in Runs, NEW name \in SaveNames, GateSave(ctx, name)
        PROVE  ReviewedOver'
    BY <1>2 DEF GateSave, ReviewedOver, NoEntry
  <1>3. CASE UNCHANGED <<lock, reviewed>>
    BY <1>3 DEF ReviewedOver, NoEntry
  <1> QED
    BY <1>1, <1>2, <1>3 DEF Next, vars, Commit, Merge, Gate, GateSaveMarked

(* A clean comparison passes what outgrew its limit only on a ceiling of     *)
(* this reference.                                                           *)
LEMMA CleanIsReviewed ==
  ASSUME ReviewedOver
  PROVE  GreenIsReviewed
  <1> SUFFICES ASSUME NEW ctx \in Runs, NEW withRatchet \in BOOLEAN,
                      NEW old \in Compared(withRatchet),
                      NEW i \in Items, NEW m \in Metrics,
                      Clean(old, head, lock, ctx),
                      old[i] # Absent, head[i] # Absent,
                      Comparable(old[i], head[i], m), Fails(old[i], head[i], m),
                      ~Softened(lock[i], old[i], head[i], m, ctx)
               PROVE  reviewed[i][m] = old[i].fp /\ UnderCeiling(lock[i], head[i], m)
    BY DEF GreenIsReviewed, Green
  <1>1. <<i, m>> \notin Failing(old, head, lock, ctx)
    BY DEF Clean
  <1>2. ~Regressed(lock[i], old[i], head[i], m, ctx)
    BY <1>1 DEF Failing
  <1>3. Allows(lock[i], old[i], head[i], m)
    BY <1>2 DEF Regressed
  <1> QED BY <1>3 DEF Allows, Unstale, UnderCeiling, ReviewedOver, NoEntry

(* gate_lock.rs: an override holds "as long as `base_fingerprint` still      *)
(* matches": no green gate passes a metric past its limit unreviewed.        *)
THEOREM GreenGatesAreReviewed ==
  ASSUME ReacceptStale = FALSE
  PROVE  Spec => []GreenIsReviewed
  <1>1. ReviewedOver /\ [Next]_vars => ReviewedOver'
    BY ReviewedNext
  <1>2. ReviewedOver => GreenIsReviewed
    BY CleanIsReviewed
  <1> QED BY ReviewedInit, <1>1, <1>2, PTL DEF Spec

-----------------------------------------------------------------------------
(* Documents hold measures, entries whole numbers.                           *)
Typed ==
  /\ head \in Docs /\ reference \in Docs
  /\ \A i \in Items, m \in Metrics :
       lock[i] # NoEntry => lock[i].metrics[m] \in Nat \cup {None}

(* What is measured starts and stays typed.                                  *)
LEMMA TypedInit == Init => Typed
  BY DEF Init, Typed, Docs, NoEntry

LEMMA TypedNext ==
  ASSUME Typed, [Next]_vars
  PROVE  Typed'
  <1>1. ASSUME NEW i \in Items, NEW m \in Measures \cup {Absent}, Commit(i, m)
        PROVE  Typed'
    BY <1>1 DEF Commit, Typed, Docs, NoEntry
  <1>2. ASSUME NEW only \in SUBSET Items, NEW ctx \in Runs, Accept(only, ctx)
        PROVE  Typed'
    <2> DEFINE found == Recordable(ctx)
    <2> SUFFICES ASSUME NEW i \in Items, NEW m \in Metrics, lock'[i] # NoEntry
                 PROVE  lock'[i].metrics[m] \in Nat \cup {None}
      BY <1>2 DEF Accept, Typed, NoEntry
    <2>1. \/ lock'[i] = lock[i]
          \/ lock'[i] = Recorded(i, Of(i, found))
      BY <1>2 DEF Accept
    <2>2. m \in Of(i, found) => head[i] \in Measures
      BY DEF Of, Recordable, Failing, NearMisses, Typed, Docs
    <2>3. m \in Of(i, found) => Value(head[i], m) \in Nat \cup {None}
      BY <2>2, MeasuresAssumption
    <2> QED BY <2>1, <2>3 DEF Recorded, Typed
  <1>3. ASSUME NEW ctx \in Runs, NEW name \in SaveNames, GateSave(ctx, name)
        PROVE  Typed'
    BY <1>3 DEF GateSave, Saves, Typed, NoEntry
  <1>4. ASSUME NEW name \in SaveNames, GateSaveMarked(name) PROVE Typed'
    BY <1>4 DEF GateSaveMarked, Saves, Typed, Docs, NoEntry
  <1>5. CASE Merge
    BY <1>5 DEF Merge, Typed, NoEntry
  <1>6. CASE UNCHANGED <<head, reference, lock>>
    BY <1>6 DEF Typed, NoEntry
  <1> QED BY <1>1, <1>2, <1>3, <1>4, <1>5, <1>6 DEF Next, vars, Gate

(* No number outgrows itself, and one that outgrew a number is larger.       *)
LEMMA GrewIsMore ==
  ASSUME NEW o \in Nat, NEW n \in Nat, NEW pct \in Nat
  PROVE  ~Grew(o, o, pct) /\ (Grew(o, n, pct) => n > o)
  <1>1. pct * o \in Nat
    OBVIOUS
  <1> QED BY <1>1 DEF Grew

(* A metric's limit is a number of percent.                                  *)
LEMMA LimitOfType ==
  ASSUME NEW cur \in Measures, NEW m \in Metrics
  PROVE  LimitOf(cur, m) \in Nat
  BY LimitAssumption, MeasuresAssumption DEF LimitOf

(* What an accepted counter carries, a larger one carries too.               *)
LEMMA CarriesMore ==
  ASSUME NEW a \in Nat, NEW b \in Nat, b >= a, NEW o \in Nat, NEW was \in Nat,
         NEW now \in Nat, NEW pct \in Nat,
         100 * (now - was) * o <= (100 * (a - o) + pct * o) * was
  PROVE  100 * (now - was) * o <= (100 * (b - o) + pct * o) * was
  <1> DEFINE d == b - a
  <1>1. d \in Nat /\ b = a + d
    OBVIOUS
  <1>2. d * was \in Nat
    BY <1>1
  <1>3. (100 * (b - o) + pct * o) * was
          = (100 * (a - o) + pct * o) * was + 100 * (d * was)
    BY <1>1
  <1> QED BY <1>2, <1>3

(* The step that records an entry leaves nothing failing in it.              *)
LEMMA AcceptStep ==
  ASSUME Typed, NEW only \in SUBSET Items, NEW ctx \in Runs, ctx.headroom = None,
         Accept(only, ctx), NEW f \in Failing(reference, head, lock', ctx)
  PROVE  f[1] \notin only
  <1> DEFINE found == Recordable(ctx)
             picked == {i \in only : Of(i, found) # {}}
  <1> SUFFICES ASSUME NEW i \in only, NEW m \in Metrics, f = <<i, m>>
               PROVE  FALSE
    BY DEF Failing
  <1>1. found = Failing(reference, head, lock, ctx)
    BY DEF Recordable, NearMisses, NearMiss
  <1>2. /\ reference[i] \in Measures /\ head[i] \in Measures
        /\ Regressed(lock'[i], reference[i], head[i], m, ctx)
    BY DEF Failing, Typed, Docs
  <1> DEFINE old == reference[i]  cur == head[i]  entry == lock[i]
             new == Recorded(i, Of(i, found))
  <1>3. i \in picked
    <2>1. i \notin picked => lock'[i] = lock[i]
      BY DEF Accept
    <2>2. i \notin picked => <<i, m>> \in found
      BY <1>1, <1>2, <2>1 DEF Failing
    <2> QED BY <2>2 DEF Of
  <1>4. lock'[i] = new
    BY <1>3 DEF Accept
  <1>5. new # NoEntry /\ Unstale(new, old)
    <2>1. new # NoEntry
      <3>1. \A n \in Of(i, found) : Value(cur, n) \in Nat \cup {None}
        BY <1>2, MeasuresAssumption DEF Of
      <3>2. new.metrics \in [Metrics -> Nat \cup {None}]
        BY <3>1 DEF Recorded, Typed
      <3>3. new \in Entries
        BY <1>2, <3>2 DEF Recorded, Entries
      <3> QED BY <3>3, NoEntryAssumption DEF NoEntry
    <2> QED BY <2>1 DEF Recorded, Unstale, NoEntry
  <1>6. CASE m \in Of(i, found)
    <2>1. new.metrics[m] = Value(cur, m)
      BY <1>6 DEF Recorded
    <2>2. Value(cur, m) \in Nat
      BY <1>2, MeasuresAssumption DEF Regressed, Comparable, Taken
    <2>3. UnderCeiling(new, cur, m)
      BY <1>2, <2>1, <2>2, GrewIsMore, LimitOfType, NotTakenAssumption
      DEF UnderCeiling
    <2> QED BY <1>2, <1>4, <1>5, <2>3 DEF Regressed, Allows
  <1>7. CASE m \notin Of(i, found)
    <2>1. ~Regressed(entry, old, cur, m, ctx)
      BY <1>1, <1>2, <1>7 DEF Of, Failing
    <2>2. Comparable(old, cur, m) /\ Fails(old, cur, m)
          /\ ~Softened(new, old, cur, m, ctx) /\ ~Allows(new, old, cur, m)
      BY <1>2, <1>4 DEF Regressed
    <2>3. ~Allows(entry, old, cur, m)
      <3>1. SUFFICES ASSUME Allows(entry, old, cur, m) PROVE FALSE
        OBVIOUS
      <3>2. new.metrics[m] = entry.metrics[m]
        BY <1>7, <3>1 DEF Recorded, Allows, Unstale, NoEntry
      <3> QED BY <1>5, <2>2, <3>1, <3>2 DEF Allows, UnderCeiling
    <2>4. Softened(entry, old, cur, m, ctx)
      BY <2>1, <2>2, <2>3 DEF Regressed
    <2>5. Carried(entry, old, cur) /\ ~Carried(new, old, cur) /\ m = Wall
      BY <2>2, <2>4 DEF Softened
    <2>6. PICK c \in Counters :
            LET a == entry.metrics[c]  o == Value(old, c)
                was == Value(old, Wall)  now == Value(cur, Wall) IN
            /\ a # None /\ o # None /\ o > 0
            /\ 100 * (now - was) * o <= (100 * (a - o) + Limit[Wall] * o) * was
      BY <2>5 DEF Carried
    <2> DEFINE a == entry.metrics[c]  b == new.metrics[c]  o == Value(old, c)
               was == Value(old, Wall)  now == Value(cur, Wall)
    <2>7. c \in Metrics /\ Wall \in Metrics /\ Limit[Wall] \in Nat
      BY LimitAssumption DEF Metrics
    <2>8. entry # NoEntry /\ Unstale(entry, old)
      BY <2>5 DEF Carried, Unstale, NoEntry
    <2>9. a \in Nat /\ o \in Nat /\ was \in Nat /\ now \in Nat
      BY <1>2, <2>2, <2>5, <2>6, <2>7, <2>8, MeasuresAssumption
      DEF Typed, Comparable, Taken
    <2>10. b \in Nat /\ b >= a
      <3>1. CASE c \in Of(i, found)
        <4>1. b = Value(cur, c)
          BY <2>7, <3>1 DEF Recorded
        <4>2. Regressed(entry, old, cur, c, ctx)
          BY <1>1, <3>1 DEF Of, Failing
        <4>3. Value(cur, c) \in Nat
          BY <1>2, <2>7, <4>2, MeasuresAssumption DEF Regressed, Comparable, Taken
        <4>4. Grew(a, Value(cur, c), LimitOf(cur, c))
          BY <2>6, <2>8, <4>2 DEF Regressed, Allows, UnderCeiling
        <4>5. LimitOf(cur, c) \in Nat
          BY <1>2, <2>7, LimitOfType
        <4> QED BY <2>9, <4>1, <4>3, <4>4, <4>5, GrewIsMore
      <3>2. CASE c \notin Of(i, found)
        BY <2>7, <2>8, <2>9, <3>2 DEF Recorded
      <3> QED BY <3>1, <3>2
    <2>11. 100 * (now - was) * o <= (100 * (b - o) + Limit[Wall] * o) * was
      BY <2>6, <2>7, <2>9, <2>10, CarriesMore
    <2>12. b # None /\ o # None /\ o > 0
      BY <2>6, <2>9, <2>10, NotTakenAssumption
    <2>13. Carried(new, old, cur)
      BY <1>5, <2>11, <2>12 DEF Carried
    <2> QED BY <2>5, <2>13
  <1> QED BY <1>6, <1>7

(* "so a future `gate` treats it as the new ceiling ... instead of a         *)
(* regression": an accept without headroom settles the gate it was run for,  *)
(* walltime that rode on accepted counters included.                         *)
THEOREM AcceptsSettle ==
  ASSUME \A ctx \in Runs : ctx.headroom = None
  PROVE  Spec => AcceptSettles
  <1>1. Typed /\ [Next]_vars => Typed'
    BY TypedNext
  <1>2. Typed /\ [Next]_vars =>
          [lock' # lock => \A only \in SUBSET Items, ctx \in Runs :
             Accept(only, ctx)
               => \A f \in Failing(reference, head, lock', ctx) : f[1] \notin only]_vars
    BY AcceptStep
  <1> QED BY TypedInit, <1>1, <1>2, PTL DEF Spec, AcceptSettles

-----------------------------------------------------------------------------
(* Nothing outgrows itself: a document is clean beside itself.               *)
LEMMA SelfClean ==
  ASSUME NEW doc \in Docs, NEW es, NEW ctx
  PROVE  Clean(doc, doc, es, ctx)
  <1>1. Gone(doc, doc) = {}
    BY DEF Gone
  <1>2. ASSUME NEW i \in Items, NEW m \in Metrics, doc[i] # Absent, Comparable(doc[i], doc[i], m)
        PROVE  ~Fails(doc[i], doc[i], m)
    <2> DEFINE o == Value(doc[i], m)
    <2>1. doc[i] \in Measures
      BY <1>2 DEF Docs
    <2>2. o \in Nat
      BY <1>2, <2>1, MeasuresAssumption DEF Comparable, Taken
    <2>3. LimitOf(doc[i], m) \in Nat /\ Limit[m] \in Nat
      BY <2>1, LimitOfType, LimitAssumption
    <2>4. ~Grew(o, o, LimitOf(doc[i], m))
      BY <2>2, <2>3, GrewIsMore
    <2>5. ~(o > o + (o * Limit[m]) \div 100)
      <3>1. o * Limit[m] \in Nat
        BY <2>2, <2>3
      <3> HIDE DEF o
      <3> QED BY <2>2, <3>1
    <2> QED BY <2>4, <2>5 DEF Fails
  <1>3. Failing(doc, doc, es, ctx) = {}
    BY <1>2 DEF Failing, Regressed
  <1> QED BY <1>1, <1>3 DEF Clean

(* prune_absorbed: "the override is no longer needed": saving the baseline a *)
(* gate compares with never turns the same gate of the same code red.        *)
THEOREM SavesStayGreen ==
  ASSUME SaveNames \subseteq {"reference"}
  PROVE  Spec => SaveKeepsGreen
  <1>1. Typed /\ [Next]_vars => Typed'
    BY TypedNext
  <1>2. Typed /\ [Next]_vars =>
          [lock' # lock => \A ctx \in Runs, name \in SaveNames :
             GateSave(ctx, name) /\ Green(ctx, FALSE, TRUE, FALSE)
               => Clean(reference', head', lock', ctx)]_vars
    <2> SUFFICES ASSUME Typed, NEW ctx \in Runs, NEW name \in SaveNames, GateSave(ctx, name)
                 PROVE  Clean(reference', head', lock', ctx)
      OBVIOUS
    <2>1. reference' = head /\ head' = head
      BY DEF GateSave, Saves
    <2>2. Clean(head, head, lock', ctx)
      BY SelfClean DEF Typed
    <2> QED BY <2>1, <2>2
  <1> QED BY TypedInit, <1>1, <1>2, PTL DEF Spec, SaveKeepsGreen

(* A vanished item is never green: a bench that is deleted makes no failing  *)
(* gate pass, whatever the lock file accepts, unless --allow-gone says so.   *)
THEOREM DroppingIsNeverGreen == Spec => []DroppingNeverHelps
  <1>1. Typed /\ [Next]_vars => Typed'
    BY TypedNext
  <1>2. Typed => DroppingNeverHelps
    <2> SUFFICES ASSUME Typed, NEW ctx \in Runs, NEW withRatchet \in BOOLEAN, NEW i \in Items,
                        ~ctx.allowGone, NEW old \in Compared(withRatchet), old[i] # Absent
                 PROVE  ~Clean(old, [head EXCEPT ![i] = Absent], lock, ctx)
      BY DEF DroppingNeverHelps
    <2>1. i \in Gone(old, [head EXCEPT ![i] = Absent])
      BY DEF Gone, Typed, Docs
    <2> QED BY <2>1 DEF Clean
  <1> QED BY TypedInit, <1>1, <1>2, PTL DEF Spec

-----------------------------------------------------------------------------
(* soothfast.lock.                                                          *)

(* What an accept may merge over has entries of this release's format.      *)
LEMMA MergedOver ==
  ASSUME StampTrue, NEW existing \in {Prose!NoBinds} \cup Prose!Comparable, NEW i \in Sources
  PROVE  existing[i] # None => existing[i].format = VERSION
<1>1. Prose!NoBinds[i] = None
  BY DEF Prose!NoBinds
<1>2. CASE existing = Prose!NoBinds
  BY <1>1, <1>2
<1>3. CASE existing = proseLock.binds /\ proseLock.version = VERSION
  BY <1>3 DEF StampTrue, Prose!StampTrue
<1>4. existing = Prose!NoBinds \/ (existing = proseLock.binds /\ proseLock.version = VERSION)
  BY DEF Prose!Comparable
<1> QED
  BY <1>2, <1>3, <1>4

LEMMA StampStarts == Prose!LockInit => StampTrue
<1> SUFFICES ASSUME Prose!LockInit, NEW i \in Sources
             PROVE  proseLock.binds[i] # None => proseLock.binds[i].format = proseLock.version
  BY DEF StampTrue, Prose!StampTrue
<1> QED
  BY DEF Prose!LockInit, Prose!NoBinds

LEMMA StampKeeps == StampTrue /\ [Prose!LockNext]_prose => StampTrue'
<1> SUFFICES ASSUME StampTrue, [Prose!LockNext]_prose PROVE StampTrue'
  OBVIOUS
<1>1. ASSUME NEW paths \in SUBSET Pages, Prose!Accept(paths) PROVE StampTrue'
  <2> DEFINE of == UNION {Binds[p] : p \in Prose!Scan(paths)}
  <2>1. PICK existing \in IF paths = {} THEN {Prose!NoBinds} ELSE Prose!Comparable :
          proseLock' = [version |-> VERSION,
                        binds |-> [i \in Sources |-> IF i \in of THEN Prose!Fingerprint(VERSION, i)
                                                     ELSE existing[i]]]
    BY <1>1 DEF Prose!Accept
  <2> HIDE DEF of
  <2>2. existing \in {Prose!NoBinds} \cup Prose!Comparable
    BY <2>1
  <2>3. ASSUME NEW i \in Sources, proseLock'.binds[i] # None
        PROVE  proseLock'.binds[i].format = proseLock'.version
    <3>1. proseLock'.version = VERSION
      BY <2>1
    <3>2. CASE i \in of
      BY <2>1, <3>1, <3>2 DEF Prose!Fingerprint
    <3>3. CASE i \notin of
      <4>1. proseLock'.binds[i] = existing[i]
        BY <2>1, <3>3
      <4> QED
        BY <2>2, <2>3, <3>1, <4>1, MergedOver
    <3> QED
      BY <3>2, <3>3
  <2> QED
    BY <2>3 DEF StampTrue, Prose!StampTrue
<1>2. ASSUME NEW format \in Formats, Prose!OtherRelease(format) PROVE StampTrue'
  <2> SUFFICES ASSUME NEW i \in Sources, proseLock'.binds[i] # None
               PROVE  proseLock'.binds[i].format = proseLock'.version
    BY DEF StampTrue, Prose!StampTrue
  <2> DEFINE held(j) == \E p \in Prose!Scan({}) : j \in Binds[p]
  <2>1. proseLock' = [version |-> format,
                      binds |-> [j \in Sources |-> IF held(j) THEN Prose!Fingerprint(format, j) ELSE None]]
    BY <1>2 DEF Prose!OtherRelease
  <2> HIDE DEF held
  <2> QED
    BY <2>1 DEF Prose!Fingerprint
<1>3. CASE UNCHANGED proseLock
  BY <1>3 DEF StampTrue, Prose!StampTrue
<1> QED
  BY <1>1, <1>2, <1>3 DEF Prose!LockNext, Prose!EditPages, Prose!EditCode, prose

(* Whatever releases accept whichever pages, the entries of soothfast.lock  *)
(* are of the format of its stamp (lockfile.rs: comparable).                *)
THEOREM StampsAreTrue == ProseSpec => []StampTrue
  BY StampStarts, StampKeeps, PTL DEF ProseSpec

-----------------------------------------------------------------------------
(* probes.lock.                                                             *)

Classes == {None, "always", "sometimes"}
ProbeEntries == [fields : [Fields -> Classes], uncovered : SUBSET Fields]
Histories == [Fields -> {Never, "steady", "flapped"}]

(* A class says of a field what the accepted answers say.                   *)
Says(class, was) ==
  /\ class = "always" <=> was = "steady"
  /\ class = "sometimes" <=> was = "flapped"

Matches(entry, was) ==
  /\ \A d \in Fields : Says(entry.fields[d], was[d])
  /\ \A d \in entry.uncovered : was[d] = Never

(* Of an entry that may not be there.                                       *)
Agrees(entry, was) ==
  /\ entry \in ProbeEntries \cup {None} /\ was \in Histories
  /\ entry = None => was = Probes!Unseen
  /\ entry # None => Matches(entry, was)

(* What a run has made of an entry, were it to end now.                     *)
Ongoing(run, n) ==
  /\ n \in run.todo => n \notin DOMAIN run.answers /\ run.lock[n] = probesLock[n]
  /\ n \notin DOMAIN run.answers => run.lock[n] \in {probesLock[n], None}
  /\ n \in DOMAIN run.answers =>
       IF run.mode = "gate"
       THEN probesLock[n] # None =>
              \A d \in Fields \ Pinned : seen[n][d] = "steady" => d \in run.answers[n]
       ELSE /\ run.lock[n] # None
            /\ Agrees(run.lock[n], Probes!Seen(seen[n], run.answers[n]))

Run(mode, todo, answers, failed, entries) ==
  [mode |-> mode, todo |-> todo, answers |-> answers, failed |-> failed, lock |-> entries]

IsRun(run) ==
  /\ run = Run(run.mode, run.todo, run.answers, run.failed, run.lock)
  /\ run.mode \in Probes!Modes /\ run.todo \subseteq manifest
  /\ run.lock = [n \in Names |-> run.lock[n]]

ProbeInv ==
  /\ manifest \subseteq Names
  /\ probesLock = [n \in Names |-> probesLock[n]]
  /\ \A n \in Names : Agrees(probesLock[n], seen[n])
  /\ probing # None => IsRun(probing) /\ \A n \in Names : Ongoing(probing, n)

LEMMA NoneApart ==
  /\ None # "always" /\ None # "sometimes" /\ Never # "steady" /\ Never # "flapped"
  /\ None \notin ProbeEntries /\ Schemas \subseteq (SUBSET Fields) \cup {None}
  BY ProbesAssumption DEF Probes!ProbeAssumption, ProbeEntries, Classes

(* An accepted answer moves the class and the history alike.                *)
LEMMA AcceptAgrees ==
  ASSUME NEW entry, NEW was, Agrees(entry, was), NEW observed \in Probes!Answers,
         NEW declared \in Schemas \cup {None}
  PROVE  /\ Probes!Accepted(entry, observed, declared) # None
         /\ Agrees(Probes!Accepted(entry, observed, declared), Probes!Seen(was, Probes!Populated(observed)))
<1> DEFINE old == (IF entry = None THEN Probes!NoClass ELSE entry).fields
           now == [d \in Fields |->
                     IF old[d] = None /\ observed[d] = "data" THEN "always"
                     ELSE IF old[d] = "always" /\ observed[d] # "data" THEN "sometimes" ELSE old[d]]
           left == IF declared = None THEN {} ELSE {d \in declared : now[d] = None}
           had == Probes!Populated(observed)
           then == Probes!Seen(was, had)
<1>1. Probes!Accepted(entry, observed, declared) = [fields |-> now, uncovered |-> left]
  BY DEF Probes!Accepted
<1>2. old \in [Fields -> Classes] /\ was \in Histories /\ \A d \in Fields : Says(old[d], was[d])
  <2>1. CASE entry = None
    <3>1. old = [d \in Fields |-> None] /\ was = [d \in Fields |-> Never] /\ was \in Histories
      BY <2>1 DEF Agrees, Probes!NoClass, Probes!Unseen
    <3> QED
      BY <3>1, NoneApart DEF Says, Classes
  <2>2. CASE entry # None
    <3>1. entry \in ProbeEntries /\ Matches(entry, was) /\ was \in Histories /\ old = entry.fields
      BY <2>2 DEF Agrees
    <3> QED
      BY <3>1 DEF Matches, ProbeEntries
  <2> QED
    BY <2>1, <2>2
<1> HIDE DEF old
<1>3. \A d \in Fields : d \in had <=> observed[d] = "data"
  BY DEF Probes!Populated
<1> HIDE DEF had
<1>4. ASSUME NEW d \in Fields
      PROVE  /\ now[d] \in Classes /\ then[d] \in {Never, "steady", "flapped"}
             /\ Says(now[d], then[d]) /\ (now[d] = None => then[d] = Never)
  <2>1. old[d] \in Classes /\ was[d] \in {Never, "steady", "flapped"} /\ Says(old[d], was[d])
    BY <1>2 DEF Histories
  <2>2. then[d] = IF d \in had THEN IF was[d] = Never THEN "steady" ELSE was[d]
                  ELSE IF was[d] = "steady" THEN "flapped" ELSE was[d]
    BY DEF Probes!Seen
  <2>3. now[d] = IF old[d] = None /\ observed[d] = "data" THEN "always"
                 ELSE IF old[d] = "always" /\ observed[d] # "data" THEN "sometimes" ELSE old[d]
    OBVIOUS
  <2> HIDE DEF then, now
  <2>4. d \in had <=> observed[d] = "data"
    BY <1>3
  <2> QED
    BY <2>1, <2>2, <2>3, <2>4, NoneApart DEF Says, Classes
<1>5. then \in Histories /\ now \in [Fields -> Classes]
  <2>1. then = [d \in Fields |-> then[d]]
    BY DEF Probes!Seen
  <2>2. now = [d \in Fields |-> now[d]]
    OBVIOUS
  <2> HIDE DEF then, now
  <2> QED
    BY <1>4, <2>1, <2>2 DEF Histories
<1> HIDE DEF then, now
<1>6. left \subseteq Fields /\ \A d \in left : then[d] = Never
  <2>1. declared # None => declared \subseteq Fields
    BY NoneApart
  <2> QED
    BY <1>4, <2>1
<1> HIDE DEF left
<1> DEFINE new == [fields |-> now, uncovered |-> left]
<1>7. new \in ProbeEntries /\ new.fields = now /\ new.uncovered = left
  BY <1>5, <1>6 DEF ProbeEntries
<1> HIDE DEF new
<1>8. Matches(new, then)
  BY <1>4, <1>6, <1>7 DEF Matches
<1>9. new # None
  BY <1>7, NoneApart
<1> QED
  BY <1>1, <1>5, <1>7, <1>8, <1>9 DEF Agrees, new, then, had

(* A gate takes no answer that lacks a field the accepted ones all had.     *)
LEMMA GateIsHeld ==
  ASSUME NEW entry, NEW was, Agrees(entry, was), entry # None, NEW observed \in Probes!Answers,
         NEW declared, Probes!Clean(entry, observed, declared),
         NEW d \in Fields \ Pinned, was[d] = "steady"
  PROVE  d \in Probes!Populated(observed)
<1>1. entry.fields[d] = "always"
  BY DEF Agrees, Matches, Says
<1>2. Probes!Findings(entry, observed, declared).regressed = {}
  <2>1. "regressed" \in {"regressed", "new", "uncovered"}
    OBVIOUS
  <2>2. Probes!Findings(entry, observed, declared)["regressed"] = {}
    BY <2>1 DEF Probes!Clean
  <2> QED
    BY <2>2
<1>3. Probes!Findings(entry, observed, declared).regressed
        = {g \in Fields \ Pinned : entry.fields[g] = "always" /\ observed[g] # "data"}
  BY DEF Probes!Findings
<1> QED
  BY <1>1, <1>2, <1>3 DEF Probes!Populated

-----------------------------------------------------------------------------
(* A run's steps.                                                           *)

LEMMA Asked ==
  ASSUME ProbeInv, NEW n \in Names, Probes!Asked(n), NEW failed
  PROVE  \E any : Probes!Step(n, failed) =
                    Run(probing.mode, probing.todo \ {n}, probing.answers, any, probing.lock)
<1> DEFINE r == probing
           m == r.mode  t == r.todo  a == r.answers  l == r.lock
           f1 == r.failed
           any == f1 \/ failed
           s == [r EXCEPT !.todo = t \ {n}]
<1>1. r = Run(m, t, a, f1, l)
  BY DEF ProbeInv, IsRun, Probes!Asked
<1>2. Probes!Step(n, failed) = [s EXCEPT !.failed = s.failed \/ failed]
  BY DEF Probes!Step
<1> HIDE DEF m, t, a, l, f1
<1>3. s = Run(m, t \ {n}, a, f1, l)
  BY <1>1 DEF Run
<1> HIDE DEF s
<1>4. s.failed = f1
  BY <1>3 DEF Run
<1>5. Probes!Step(n, failed) = [s EXCEPT !.failed = any]
  BY <1>2, <1>4
<1> HIDE DEF any
<1>6. Probes!Step(n, failed) = Run(m, t \ {n}, a, any, l)
  BY <1>3, <1>5 DEF Run
<1> QED
  BY <1>6 DEF m, t, a, l

(* One probe is asked: what becomes of the run says it of the probe.        *)
Turn(n, answers, entries) ==
  \E any : probing' = Run(probing.mode, probing.todo \ {n}, answers, any, entries)

(* Of the other probes it says nothing new, and of this one what holds.     *)
Right(n, answers, entries) ==
  /\ entries = [o \in Names |-> entries[o]]
  /\ DOMAIN answers \ {n} = DOMAIN probing.answers \ {n}
  /\ \A o \in Names \ {n} : entries[o] = probing.lock[o]
                            /\ (o \in DOMAIN answers => answers[o] = probing.answers[o])
  /\ Ongoing(Run(probing.mode, probing.todo \ {n}, answers, FALSE, entries), n)

LEMMA TurnKeeps ==
  ASSUME ProbeInv, NEW n \in Names, Probes!Asked(n), NEW answers, NEW entries,
         Turn(n, answers, entries), UNCHANGED <<manifest, probesLock, seen>>,
         Right(n, answers, entries)
  PROVE  ProbeInv'
<1>1. PICK any : probing' = Run(probing.mode, probing.todo \ {n}, answers, any, entries)
  BY DEF Turn
<1>2. probing # None /\ IsRun(probing) /\ n \in probing.todo
  BY DEF ProbeInv, Probes!Asked
<1>3. /\ probing'.mode = probing.mode /\ probing'.todo = probing.todo \ {n} /\ probing'.answers = answers
      /\ probing'.lock = entries /\ probing'.failed = any
  BY <1>1 DEF Run
<1>4. IsRun(probing)'
  <2>1. probing' = Run(probing'.mode, probing'.todo, probing'.answers, probing'.failed, probing'.lock)
    BY <1>1, <1>3
  <2>2. entries = [o \in Names |-> entries[o]]
    BY DEF Right
  <2> QED
    BY <1>2, <1>3, <2>1, <2>2 DEF IsRun
<1>5. ASSUME NEW o \in Names PROVE Ongoing(probing, o)'
  <2>1. CASE o = n
    <3> DEFINE r == Run(probing.mode, probing.todo \ {n}, answers, FALSE, entries)
    <3>1. r.mode = probing.mode /\ r.todo = probing.todo \ {n} /\ r.answers = answers /\ r.lock = entries
      BY DEF Run
    <3>2. Ongoing(r, n)
      BY DEF Right
    <3> HIDE DEF r
    <3> QED
      BY <1>3, <2>1, <3>1, <3>2 DEF Ongoing, Agrees, Matches, Probes!Seen, Probes!Unseen
  <2>2. CASE o # n
    <3>1. Ongoing(probing, o)
      BY <1>2 DEF ProbeInv
    <3>2. /\ o \in probing'.todo <=> o \in probing.todo
          /\ o \in DOMAIN probing'.answers <=> o \in DOMAIN probing.answers
          /\ probing'.lock[o] = probing.lock[o] /\ probing'.mode = probing.mode
          /\ o \in DOMAIN probing.answers => probing'.answers[o] = probing.answers[o]
      BY <1>3, <2>2 DEF Right
    <3> QED
      BY <3>1, <3>2 DEF Ongoing, Agrees, Matches, Probes!Seen, Probes!Unseen
  <2> QED
    BY <2>1, <2>2
<1> QED
  BY <1>4, <1>5 DEF ProbeInv, Agrees, Matches, Probes!Unseen

(* Nothing is taken from the probe.                                         *)
LEMMA PassKeeps ==
  ASSUME ProbeInv, NEW n \in Names, Probes!Asked(n), Turn(n, probing.answers, probing.lock),
         UNCHANGED <<manifest, probesLock, seen>>
  PROVE  ProbeInv'
<1> DEFINE r == Run(probing.mode, probing.todo \ {n}, probing.answers, FALSE, probing.lock)
<1>1. IsRun(probing) /\ Ongoing(probing, n) /\ n \in probing.todo
  BY DEF ProbeInv, Probes!Asked
<1>2. probing.lock = [o \in Names |-> probing.lock[o]]
  BY <1>1 DEF IsRun
<1>3. r.todo = probing.todo \ {n} /\ r.answers = probing.answers /\ r.lock = probing.lock
  BY DEF Run
<1> HIDE DEF r
<1>4. Ongoing(r, n)
  BY <1>1, <1>3 DEF Ongoing
<1>5. Right(n, probing.answers, probing.lock)
  BY <1>2, <1>4 DEF Right, r
<1> QED
  BY <1>5, TurnKeeps

(* Its answer is taken, and accepted or not.                                *)
LEMMA TakeKeeps ==
  ASSUME ProbeInv, NEW n \in Names, Probes!Asked(n), NEW answers, NEW entries, NEW observed \in Probes!Answers,
         NEW declared \in Schemas \cup {None},
         Turn(n, answers, entries), UNCHANGED <<manifest, probesLock, seen>>,
         answers = [o \in DOMAIN probing.answers \cup {n} |->
                      IF o = n THEN Probes!Populated(observed) ELSE probing.answers[o]],
         IF probing.mode = "gate"
         THEN entries = probing.lock /\ Probes!Clean(probing.lock[n], observed, declared)
         ELSE entries = [probing.lock EXCEPT ![n] = Probes!Accepted(probing.lock[n], observed, declared)]
  PROVE  ProbeInv'
<1> DEFINE r == Run(probing.mode, probing.todo \ {n}, answers, FALSE, entries)
           l == probing.lock
<1>1. /\ IsRun(probing) /\ Ongoing(probing, n) /\ n \in probing.todo
      /\ Agrees(probesLock[n], seen[n])
  BY DEF ProbeInv, Probes!Asked
<1>2. l = [o \in Names |-> l[o]] /\ l[n] = probesLock[n]
  BY <1>1 DEF IsRun, Ongoing
<1>3. r.mode = probing.mode /\ r.todo = probing.todo \ {n} /\ r.answers = answers /\ r.lock = entries
  BY DEF Run
<1> HIDE DEF r, l
<1>4. /\ DOMAIN answers \ {n} = DOMAIN probing.answers \ {n} /\ n \in DOMAIN answers
      /\ answers[n] = Probes!Populated(observed)
      /\ \A o \in Names \ {n} : o \in DOMAIN answers => answers[o] = probing.answers[o]
  OBVIOUS
<1>5. entries = [o \in Names |-> entries[o]] /\ \A o \in Names \ {n} : entries[o] = l[o]
  <2>1. CASE probing.mode = "gate"
    BY <1>2, <2>1 DEF l
  <2>2. CASE probing.mode # "gate"
    <3> DEFINE e == Probes!Accepted(probing.lock[n], observed, declared)
    <3>1. entries = [l EXCEPT ![n] = e]
      BY <2>2 DEF l
    <3> HIDE DEF e
    <3> QED
      BY <1>2, <3>1
  <2> QED
    BY <2>1, <2>2
<1>6. Ongoing(r, n)
  <2>1. CASE probing.mode = "gate"
    <3>1. Probes!Clean(probesLock[n], observed, declared)
      BY <1>2, <2>1 DEF l
    <3>2. probesLock[n] # None => \A d \in Fields \ Pinned : seen[n][d] = "steady" => d \in answers[n]
      BY <1>1, <1>4, <3>1, GateIsHeld
    <3> QED
      BY <1>3, <1>4, <2>1, <3>2 DEF Ongoing
  <2>2. CASE probing.mode # "gate"
    <3> DEFINE e == Probes!Accepted(probesLock[n], observed, declared)
    <3>1. e # None /\ Agrees(e, Probes!Seen(seen[n], answers[n]))
      BY <1>1, <1>4, AcceptAgrees
    <3>2. entries = [l EXCEPT ![n] = e]
      BY <1>2, <2>2 DEF l
    <3> HIDE DEF e
    <3>3. entries[n] = e
      BY <1>2, <3>2
    <3> QED
      BY <1>3, <1>4, <2>2, <3>1, <3>3 DEF Ongoing
  <2> QED
    BY <2>1, <2>2
<1>7. \A o \in Names \ {n} : entries[o] = probing.lock[o]
                             /\ (o \in DOMAIN answers => answers[o] = probing.answers[o])
  BY <1>4, <1>5 DEF l
<1>8. Right(n, answers, entries)
  BY <1>4, <1>5, <1>6, <1>7 DEF Right, r
<1> QED
  BY <1>8, TurnKeeps

LEMMA NoAnswerKeeps ==
  ASSUME ProbeInv, NEW n \in Names, Probes!NoAnswer(n)
  PROVE  ProbeInv'
<1>1. Probes!Asked(n) /\ UNCHANGED <<manifest, probesLock, seen>>
  BY DEF Probes!NoAnswer
<1>2. PICK failed \in BOOLEAN : probing' = Probes!Step(n, failed)
  BY DEF Probes!NoAnswer
<1>3. Turn(n, probing.answers, probing.lock)
  BY <1>1, <1>2, Asked DEF Turn
<1> QED
  BY <1>1, <1>3, PassKeeps

LEMMA AnswerKeeps ==
  ASSUME ProbeInv, NEW n \in Names, NEW observed \in Probes!Answers, NEW declared \in Schemas \cup {None},
         NEW holds \in BOOLEAN, Probes!Answer(n, observed, declared, holds)
  PROVE  ProbeInv'
<1> DEFINE accepts == probing.mode # "gate"
           taken == holds /\ (accepts \/ Probes!Clean(probing.lock[n], observed, declared))
           a == probing.answers
           l == probing.lock
           answers == IF taken THEN [o \in DOMAIN a \cup {n} |-> IF o = n THEN Probes!Populated(observed) ELSE a[o]]
                      ELSE a
           e == IF taken /\ accepts THEN Probes!Accepted(l[n], observed, declared) ELSE l[n]
           entries == [l EXCEPT ![n] = e]
           not == ~taken
           s == Probes!Step(n, not)
<1>1. Probes!Asked(n) /\ UNCHANGED <<manifest, probesLock, seen>>
  BY DEF Probes!Answer
<1>2. PICK any : s = Run(probing.mode, probing.todo \ {n}, a, any, l)
  <2> HIDE DEF not
  <2> QED
    BY <1>1, Asked
<1>3. probing' = [s EXCEPT !.answers = IF taken THEN [o \in DOMAIN s.answers \cup {n} |->
                                            IF o = n THEN Probes!Populated(observed) ELSE s.answers[o]]
                                       ELSE s.answers,
                           !.lock[n] = IF taken /\ accepts THEN Probes!Accepted(s.lock[n], observed, declared)
                                       ELSE s.lock[n]]
  BY DEF Probes!Answer
<1> HIDE DEF s, taken, accepts
<1>4. s.answers = a /\ s.lock = l
  BY <1>2 DEF Run
<1>5. probing' = [s EXCEPT !.answers = answers, !.lock[n] = e]
  BY <1>3, <1>4
<1> HIDE DEF answers, e
<1> DEFINE m == probing.mode  t == probing.todo \ {n}
<1>6. probing' = Run(m, t, answers, any, entries)
  <2> HIDE DEF a, l, m, t
  <2> DEFINE w == [s EXCEPT !.answers = answers]
  <2>1. w = Run(m, t, answers, any, l)
    BY <1>2 DEF Run, m, t
  <2>2. probing' = [w EXCEPT !.lock[n] = e]
    BY <1>5
  <2> HIDE DEF w
  <2> QED
    BY <2>1, <2>2 DEF Run
<1>7. Turn(n, answers, entries)
  BY <1>6 DEF Turn
<1>8. IsRun(probing) /\ l = [o \in Names |-> l[o]]
  BY <1>1 DEF ProbeInv, Probes!Asked, IsRun
<1>9. CASE ~taken
  <2>1. answers = a /\ e = l[n]
    BY <1>9 DEF answers, e
  <2>2. entries = l
    BY <1>8, <2>1
  <2> QED
    BY <1>1, <1>7, <2>1, <2>2, PassKeeps
<1>10. CASE taken
  <2>1. answers = [o \in DOMAIN a \cup {n} |-> IF o = n THEN Probes!Populated(observed) ELSE a[o]]
    BY <1>10 DEF answers
  <2>2. CASE accepts
    <3>1. entries = [l EXCEPT ![n] = Probes!Accepted(l[n], observed, declared)] /\ probing.mode # "gate"
      BY <1>10, <2>2 DEF e, accepts
    <3> HIDE DEF entries
    <3> QED
      BY <1>1, <1>7, <2>1, <3>1, TakeKeeps
  <2>3. CASE ~accepts
    <3>1. e = l[n] /\ probing.mode = "gate" /\ Probes!Clean(l[n], observed, declared)
      BY <1>10, <2>3 DEF e, taken, accepts
    <3>2. entries = l
      BY <1>8, <3>1
    <3> HIDE DEF entries
    <3> QED
      BY <1>1, <1>7, <2>1, <3>1, <3>2, TakeKeeps
  <2> QED
    BY <2>2, <2>3
<1> QED
  BY <1>9, <1>10

LEMMA UnseenAgrees == Agrees(None, Probes!Unseen)
  BY DEF Agrees, Histories, Probes!Unseen

LEMMA BeginKeeps ==
  ASSUME ProbeInv, NEW mode \in Probes!Modes, NEW allowGone \in BOOLEAN, NEW filter \in SUBSET Names,
         Probes!Begin(mode, allowGone, filter)
  PROVE  ProbeInv'
<1> DEFINE gone == {n \in Names \ manifest : probesLock[n] # None}
           drop == allowGone \/ mode = "accept"
           failed == gone # {} /\ ~drop
           entries == [n \in Names |-> IF drop /\ n \in gone THEN None ELSE probesLock[n]]
           todo == filter \cap manifest
           r == [mode |-> mode, todo |-> todo, answers |-> <<>>, failed |-> failed, lock |-> entries]
<1>1. probing' = r /\ UNCHANGED <<manifest, probesLock, seen>>
  BY DEF Probes!Begin
<1> HIDE DEF drop, failed
<1>2. /\ r.mode = mode /\ r.todo = todo /\ r.answers = <<>> /\ r.lock = entries
      /\ r = Run(r.mode, r.todo, r.answers, r.failed, r.lock)
  BY DEF Run
<1>3. entries = [n \in Names |-> entries[n]] /\ \A n \in Names : entries[n] \in {probesLock[n], None}
  OBVIOUS
<1>4. \A n \in Names \cap todo : entries[n] = probesLock[n]
  OBVIOUS
<1> HIDE DEF r, entries
<1>5. IsRun(r)
  BY <1>2, <1>3 DEF IsRun
<1>6. ASSUME NEW n \in Names PROVE Ongoing(r, n)
  <2>1. n \notin DOMAIN r.answers
    BY <1>2
  <2> QED
    BY <1>2, <1>3, <1>4, <2>1 DEF Ongoing
<1>7. IsRun(probing)' /\ \A n \in Names : Ongoing(probing, n)'
  BY <1>1, <1>5, <1>6 DEF IsRun, Ongoing, Agrees, Matches, Probes!Seen, Probes!Unseen
<1> QED
  BY <1>1, <1>7 DEF ProbeInv, Agrees, Matches, Probes!Unseen

LEMMA EndKeeps == ASSUME ProbeInv, Probes!End PROVE ProbeInv'
<1>1. probing' = None /\ manifest' = manifest
  BY DEF Probes!End
<1>2. CASE ~Probes!Writes(probing)
  <2>1. UNCHANGED <<probesLock, seen>>
    BY <1>2 DEF Probes!End
  <2> QED
    BY <1>1, <2>1 DEF ProbeInv, Agrees, Matches, Probes!Unseen
<1>3. CASE Probes!Writes(probing)
  <2>1. /\ probesLock' = probing.lock
        /\ seen' = [n \in Names |->
             IF probing.lock[n] = None THEN Probes!Unseen
             ELSE IF n \in DOMAIN probing.answers THEN Probes!Seen(seen[n], probing.answers[n])
             ELSE seen[n]]
    BY <1>3 DEF Probes!End
  <2>2. probing.lock = [n \in Names |-> probing.lock[n]] /\ probing.mode # "gate"
    BY <1>3 DEF Probes!End, ProbeInv, IsRun, Probes!Writes
  <2>3. ASSUME NEW n \in Names PROVE Agrees(probesLock'[n], seen'[n])
    <3>1. /\ probesLock'[n] = probing.lock[n]
          /\ seen'[n] = IF probing.lock[n] = None THEN Probes!Unseen
                        ELSE IF n \in DOMAIN probing.answers THEN Probes!Seen(seen[n], probing.answers[n])
                        ELSE seen[n]
      BY <2>1
    <3>2. Ongoing(probing, n) /\ Agrees(probesLock[n], seen[n])
      BY DEF Probes!End, ProbeInv
    <3>3. CASE probing.lock[n] = None
      BY <3>1, <3>3, UnseenAgrees
    <3>4. CASE probing.lock[n] # None /\ n \in DOMAIN probing.answers
      BY <2>2, <3>1, <3>2, <3>4 DEF Ongoing
    <3>5. CASE probing.lock[n] # None /\ n \notin DOMAIN probing.answers
      BY <3>1, <3>2, <3>5 DEF Ongoing
    <3> QED
      BY <3>3, <3>4, <3>5
  <2>4. probesLock' = [n \in Names |-> probesLock'[n]]
    BY <2>1, <2>2
  <2>5. \A n \in Names : Agrees(probesLock[n], seen[n])'
    BY <2>3 DEF Agrees, Matches, Probes!Unseen
  <2> QED
    BY <1>1, <2>4, <2>5 DEF ProbeInv
<1> QED
  BY <1>2, <1>3

LEMMA ProbeStarts == Probes!ProbeInit => ProbeInv
<1> SUFFICES ASSUME Probes!ProbeInit PROVE ProbeInv
  OBVIOUS
<1>1. /\ manifest = Names /\ probesLock = [n \in Names |-> None]
      /\ seen = [n \in Names |-> Probes!Unseen] /\ probing = None
  BY DEF Probes!ProbeInit
<1>2. \A n \in Names : Agrees(probesLock[n], seen[n])
  BY <1>1, UnseenAgrees
<1> QED
  BY <1>1, <1>2 DEF ProbeInv

LEMMA ProbeKeeps == ProbeInv /\ [Probes!ProbeNext]_probes => ProbeInv'
<1> SUFFICES ASSUME ProbeInv, [Probes!ProbeNext]_probes PROVE ProbeInv'
  OBVIOUS
<1>1. ASSUME NEW mode \in Probes!Modes, NEW allowGone \in BOOLEAN, NEW filter \in SUBSET Names,
             Probes!Begin(mode, allowGone, filter)
      PROVE  ProbeInv'
  BY <1>1, BeginKeeps
<1>2. ASSUME NEW n \in Names, Probes!NoAnswer(n) PROVE ProbeInv'
  BY <1>2, NoAnswerKeeps
<1>3. ASSUME NEW n \in Names, NEW observed \in Probes!Answers, NEW declared \in Schemas,
             NEW holds \in BOOLEAN, Probes!Answer(n, observed, declared, holds)
      PROVE  ProbeInv'
  BY <1>3, AnswerKeeps
<1>4. ASSUME NEW n \in Names, Probes!Answer(n, Probes!Nothing, None, TRUE) PROVE ProbeInv'
  <2> DEFINE yes == TRUE
  <2>1. Probes!Nothing \in Probes!Answers /\ None \in Schemas \cup {None} /\ yes \in BOOLEAN
    BY DEF Probes!Nothing, Probes!Answers
  <2>2. Probes!Answer(n, Probes!Nothing, None, yes)
    BY <1>4
  <2> HIDE DEF yes
  <2> QED
    BY <2>1, <2>2, AnswerKeeps
<1>5. CASE Probes!End
  BY <1>5, EndKeeps
<1>6. CASE Probes!Killed
  BY <1>6 DEF Probes!Killed, ProbeInv, Agrees, Matches, Probes!Unseen
<1>7. ASSUME NEW to \in SUBSET Names, Probes!EditManifest(to) PROVE ProbeInv'
  BY <1>7 DEF Probes!EditManifest, ProbeInv, Agrees, Matches, Probes!Unseen
<1>8. CASE UNCHANGED probes
  BY <1>8 DEF probes, ProbeInv, IsRun, Ongoing, Agrees, Matches, Probes!Seen, Probes!Unseen
<1> QED
  BY <1>1, <1>2, <1>3, <1>4, <1>5, <1>6, <1>7, <1>8 DEF Probes!ProbeNext

(* For any probes, fields and schemas, over runs that are filtered, accept  *)
(* in part, fail or are cut short, and edits of the manifest: a class in    *)
(* probes.lock is what the answers accepted since say, and a gate takes no  *)
(* answer that lacks a field they all had (baseline.rs).                    *)
THEOREM ClassesAreEarned == ProbeSpec => []LockEarned
<1>1. ProbeInv => LockEarned
  <2> SUFFICES ASSUME ProbeInv, NEW n \in Names, probesLock[n] # None
      PROVE  /\ \A d \in Fields : Says(probesLock[n].fields[d], seen[n][d])
             /\ \A d \in probesLock[n].uncovered : seen[n][d] = Never
             /\ probing # None /\ n \in DOMAIN probing.answers /\ probing.mode = "gate"
                  => \A d \in Fields \ Pinned : seen[n][d] = "steady" => d \in probing.answers[n]
    BY DEF LockEarned, Probes!LockEarned, Says
  <2>1. Matches(probesLock[n], seen[n])
    BY DEF ProbeInv, Agrees
  <2>2. probing # None => Ongoing(probing, n)
    BY DEF ProbeInv
  <2> QED
    BY <2>1, <2>2 DEF Matches, Ongoing
<1> QED
  BY <1>1, ProbeStarts, ProbeKeeps, PTL DEF ProbeSpec

-----------------------------------------------------------------------------
(* Recorded output.                                                         *)

Good ==
  {b \in [code : Codes, out : Codes \cup {None}, had : SUBSET Codes] :
     b.code \in b.had /\ b.out \in b.had \cup {None}}

(* The example's files of a page are of the blocks a text has.              *)
Traced(page, text) ==
  \A n \in 1 .. Len(text) :
    <<page, n>> \in DOMAIN files.blocks => files.blocks[<<page, n>>] = text[n].code

(* What a capture read, and the page it is in.                              *)
IsCapture(c) ==
  /\ c = [check |-> c.check, text |-> c.text, at |-> c.at, spliced |-> c.spliced, ran |-> c.ran]
  /\ \A page \in DOMAIN c.text : c.text[page] \in Seq(Good) /\ Traced(page, c.text[page])
  /\ c.at # None => c.spliced \in Seq(Good) /\ Traced(c.at, c.spliced) /\ c.ran \in 0 .. Len(c.spliced)

SiteInv ==
  /\ pages = [page \in Pages |-> pages[page]]
  /\ \A page \in Pages : pages[page] # None => pages[page] \in Seq(Good)
  /\ cap # None => gen = None /\ IsCapture(cap)

(* A change to a block, or to which blocks there are, leaves a page good.   *)
LEMMA NewBlock == ASSUME NEW c \in Codes PROVE Site!Block(c) \in Good
  BY DEF Site!Block, Good

LEMMA RecodedBlock ==
  ASSUME NEW b \in Good, NEW c \in Codes
  PROVE  [code |-> c, out |-> b.out, had |-> b.had \cup {c}] \in Good
<1>1. /\ b.out \in Codes \cup {None} /\ b.had \subseteq Codes /\ b.out \in b.had \cup {None}
  BY DEF Good
<1> DEFINE r == [code |-> c, out |-> b.out, had |-> b.had \cup {c}]
<1>2. r \in [code : Codes, out : Codes \cup {None}, had : SUBSET Codes]
  BY <1>1
<1>3. r.code \in r.had /\ r.out \in r.had \cup {None}
  BY <1>1
<1> QED
  BY <1>2, <1>3 DEF Good

LEMMA PrintedBlock ==
  ASSUME NEW b \in Good, NEW out \in {b.code, b.out}
  PROVE  [b EXCEPT !.out = out] \in Good /\ [b EXCEPT !.out = out].code = b.code
<1>1. /\ b = [code |-> b.code, out |-> b.out, had |-> b.had]
      /\ b.code \in Codes /\ b.out \in Codes \cup {None} /\ b.had \subseteq Codes
      /\ b.code \in b.had /\ b.out \in b.had \cup {None}
  BY DEF Good
<1> DEFINE r == [code |-> b.code, out |-> out, had |-> b.had]
<1>2. [b EXCEPT !.out = out] = r
  BY <1>1
<1>3. r \in [code : Codes, out : Codes \cup {None}, had : SUBSET Codes]
  BY <1>1
<1>4. r.code \in r.had /\ r.out \in r.had \cup {None} /\ r.code = b.code
  BY <1>1
<1> HIDE DEF r
<1> QED
  BY <1>2, <1>3, <1>4 DEF Good

LEMMA PartGood ==
  ASSUME NEW text \in Seq(Good), NEW m \in Int, NEW n \in Int, m >= 1, n <= Len(text)
  PROVE  SubSeq(text, m, n) \in Seq(Good)
<1>1. \A i \in m .. n : text[i] \in Good
  <2> SUFFICES ASSUME NEW i \in m .. n PROVE text[i] \in Good
    OBVIOUS
  <2>1. i \in 1 .. Len(text)
    OBVIOUS
  <2> QED
    BY <2>1, ElementOfSeq
<1> QED
  BY <1>1, SubSeqProperties

LEMMA WithoutGood ==
  ASSUME NEW text \in Seq(Good), NEW n \in 1 .. Len(text)
  PROVE  Site!Without(text, n) \in Seq(Good)
<1>1. SubSeq(text, 1, n - 1) \in Seq(Good) /\ SubSeq(text, n + 1, Len(text)) \in Seq(Good)
  <2>1. Len(text) \in Nat /\ n - 1 \in Int /\ n + 1 \in Int /\ n - 1 <= Len(text) /\ n + 1 >= 1
    OBVIOUS
  <2> QED
    BY <2>1, PartGood
<1> QED
  BY <1>1, ConcatProperties DEF Site!Without

LEMMA WithGood ==
  ASSUME NEW text \in Seq(Good), NEW n \in 1 .. Len(text) + 1, NEW b \in Good
  PROVE  Site!With(text, n, b) \in Seq(Good)
<1>1. SubSeq(text, 1, n - 1) \in Seq(Good) /\ SubSeq(text, n, Len(text)) \in Seq(Good)
  <2>1. Len(text) \in Nat /\ n - 1 \in Int /\ n \in Int /\ n - 1 <= Len(text) /\ n >= 1
    OBVIOUS
  <2> QED
    BY <2>1, PartGood
<1>2. <<b>> \in Seq(Good)
  OBVIOUS
<1>3. SubSeq(text, 1, n - 1) \o <<b>> \in Seq(Good)
  BY <1>1, <1>2, ConcatProperties
<1> QED
  BY <1>1, <1>3, ConcatProperties DEF Site!With

LEMMA RecodedGood ==
  ASSUME NEW text \in Seq(Good), NEW n \in 1 .. Len(text), NEW c \in Codes
  PROVE  [text EXCEPT ![n].code = c, ![n].had = @ \cup {c}] \in Seq(Good)
<1> DEFINE b == text[n]
           r == [code |-> c, out |-> b.out, had |-> b.had \cup {c}]
           bc == [b EXCEPT !.code = c]
           s == [text EXCEPT ![n] = bc]
           bh == [s[n] EXCEPT !.had = s[n].had \cup {c}]
           t == [s EXCEPT ![n] = bh]
<1>1. b \in Good /\ b = [code |-> b.code, out |-> b.out, had |-> b.had]
  BY ElementOfSeq DEF Good
<1>2. text = [i \in 1 .. Len(text) |-> text[i]] /\ \A i \in 1 .. Len(text) : text[i] \in Good
  BY ElementOfSeq
<1>3. bc = [code |-> c, out |-> b.out, had |-> b.had]
  BY <1>1
<1> HIDE DEF bc
<1>4. s[n] = bc /\ s = [i \in 1 .. Len(text) |-> s[i]] /\ \A i \in 1 .. Len(text) : i # n => s[i] = text[i]
  BY <1>2
<1> HIDE DEF s, b
<1>5. bh = r
  <2> DEFINE h == s[n].had \cup {c}
             w == s[n]
  <2>1. w = [code |-> c, out |-> b.out, had |-> b.had]
    BY <1>3, <1>4
  <2>2. w.had = b.had
    BY <2>1
  <2>3. bh = [w EXCEPT !.had = h]
    OBVIOUS
  <2>4. h = b.had \cup {c}
    BY <2>2
  <2> HIDE DEF w, h, bh
  <2>5. bh = [code |-> c, out |-> b.out, had |-> h]
    BY <2>1, <2>3
  <2> QED
    BY <2>4, <2>5
<1>6. bh \in Good
  BY <1>1, <1>5, RecodedBlock
<1> HIDE DEF bh
<1>7. t[n] = bh /\ t = [i \in 1 .. Len(text) |-> t[i]] /\ \A i \in 1 .. Len(text) : i # n => t[i] = s[i]
  BY <1>4
<1> HIDE DEF t
<1>8. \A i \in 1 .. Len(text) : t[i] \in Good
  BY <1>2, <1>4, <1>6, <1>7
<1>9. t \in Seq(Good)
  BY <1>7, <1>8
<1> QED
  BY <1>9 DEF t, bh, s, bc, b

(* Nobody captures after the step.                                          *)
LEMMA IdleKeeps == ASSUME SiteInv, cap' = None, UNCHANGED pages PROVE SiteInv'
  BY DEF SiteInv

LEMMA CaptureStays == ASSUME NEW c, IsCapture(c), cap' = c, files' = files PROVE IsCapture(cap)'
  BY DEF IsCapture, Traced

LEMMA CaptureKeeps == ASSUME SiteInv, NEW paths \in SUBSET Pages, Site!Capture(paths) PROVE SiteInv'
<1> DEFINE of == {page \in Site!Scan(paths) : pages[page] # <<>>}
           text == [page \in of |-> pages[page]]
           all == Site!Scan(paths) \cup Site!Kept(paths)
           ids == {i \in Site!Ids : i[1] \in all /\ i[2] <= Len(pages[i[1]])}
           blocks == [id \in ids |-> pages[id[1]][id[2]].code]
<1>1. /\ gen = None /\ UNCHANGED <<pages, files, gen>>
      /\ files = Site!Example(blocks)
  BY DEF Site!Capture, Site!Idle, Site!Current, Site!Generated
<1>2. PICK check, read : /\ cap' = [check |-> check, text |-> read, at |-> None, spliced |-> <<>>, ran |-> 0]
                          /\ read = text
  BY DEF Site!Capture
<1>3. files.blocks = blocks
  BY <1>1 DEF Site!Example
<1>4. \A page \in of : page \in Pages /\ pages[page] # None
  BY DEF Site!Scan, Site!Exist
<1>5. ASSUME NEW page \in of PROVE text[page] \in Seq(Good) /\ Traced(page, text[page])
  <2>1. text[page] = pages[page]
    OBVIOUS
  <2>2. pages[page] \in Seq(Good)
    BY <1>4 DEF SiteInv
  <2>3. ASSUME NEW n \in 1 .. Len(pages[page]), <<page, n>> \in DOMAIN files.blocks
        PROVE  files.blocks[<<page, n>>] = pages[page][n].code
    <3> HIDE DEF ids
    <3>1. <<page, n>> \in ids
      BY <1>3, <2>3
    <3> QED
      BY <1>3, <3>1
  <2> QED
    BY <2>1, <2>2, <2>3 DEF Traced
<1>6. \A page \in DOMAIN read : read[page] \in Seq(Good) /\ Traced(page, read[page])
  BY <1>2, <1>5
<1> HIDE DEF text, of
<1> DEFINE c == [check |-> check, text |-> read, at |-> None, spliced |-> <<>>, ran |-> 0]
<1>7. c.check = check /\ c.text = read /\ c.at = None /\ c.spliced = <<>> /\ c.ran = 0
  OBVIOUS
<1>8. c = [check |-> c.check, text |-> c.text, at |-> c.at, spliced |-> c.spliced, ran |-> c.ran]
  OBVIOUS
<1>9. cap' = c
  BY <1>2
<1> HIDE DEF c
<1>10. IsCapture(c)
  BY <1>7, <1>6, <1>8 DEF IsCapture
<1>11. IsCapture(cap)'
  BY <1>1, <1>9, <1>10, CaptureStays
<1> QED
  BY <1>1, <1>11 DEF SiteInv

LEMMA OpenKeeps == ASSUME SiteInv, NEW page \in Pages, Site!OpenPage(page) PROVE SiteInv'
<1>1. /\ cap # None /\ page \in DOMAIN cap.text /\ UNCHANGED <<pages, files, gen>>
      /\ cap' = [cap EXCEPT !.at = page, !.spliced = cap.text[page], !.ran = 0]
  BY DEF Site!OpenPage
<1>2. gen = None /\ IsCapture(cap)
  BY <1>1 DEF SiteInv
<1> DEFINE k == cap.check  t == cap.text  a == cap.at  s == cap.spliced  r == cap.ran
           new == cap.text[page]
<1>3. cap = [check |-> k, text |-> t, at |-> a, spliced |-> s, ran |-> r]
  BY <1>2 DEF IsCapture
<1>4. new \in Seq(Good) /\ Traced(page, new)
  BY <1>1, <1>2 DEF IsCapture
<1>5. \A o \in DOMAIN t : t[o] \in Seq(Good) /\ Traced(o, t[o])
  BY <1>2 DEF IsCapture
<1>6. cap' = [cap EXCEPT !.at = page, !.spliced = new, !.ran = 0]
  BY <1>1
<1> HIDE DEF k, t, a, s, r, new
<1>7. cap' = [check |-> k, text |-> t, at |-> page, spliced |-> new, ran |-> 0]
  <2> DEFINE w == [cap EXCEPT !.at = page]
             v == [w EXCEPT !.spliced = new]
  <2>1. w = [check |-> k, text |-> t, at |-> page, spliced |-> s, ran |-> r]
    BY <1>3
  <2>2. cap' = [v EXCEPT !.ran = 0]
    BY <1>6
  <2> HIDE DEF w
  <2>3. v = [check |-> k, text |-> t, at |-> page, spliced |-> new, ran |-> r]
    BY <2>1
  <2> HIDE DEF v
  <2> QED
    BY <2>2, <2>3
<1>8. /\ cap'.check = k /\ cap'.text = t /\ cap'.at = page /\ cap'.spliced = new /\ cap'.ran = 0
      /\ cap' = [check |-> cap'.check, text |-> cap'.text, at |-> cap'.at, spliced |-> cap'.spliced, ran |-> cap'.ran]
  BY <1>7
<1>9. 0 \in 0 .. Len(new)
  BY <1>4
<1>10. IsCapture(cap)'
  BY <1>1, <1>4, <1>5, <1>8, <1>9 DEF IsCapture, Traced
<1> QED
  BY <1>1, <1>2, <1>10 DEF SiteInv

LEMMA RunKeeps == ASSUME SiteInv, Site!RunBlock PROVE SiteInv'
<1> DEFINE n == cap.ran + 1
           k == cap.check  t == cap.text  a == cap.at  s == cap.spliced
<1>1. /\ cap # None /\ a # None /\ cap.ran < Len(s) /\ UNCHANGED <<pages, files, gen>>
      /\ gen = None /\ IsCapture(cap)
  BY DEF Site!RunBlock, Site!OnPage, SiteInv
<1>2. PICK out \in (IF <<a, n>> \in files.main \cap DOMAIN files.blocks
                    THEN {files.blocks[<<a, n>>]} ELSE {}) \cup {s[n].out} :
        cap' = [cap EXCEPT !.ran = n, !.spliced[n].out = out]
  BY Zenon DEF Site!RunBlock
<1>3. s \in Seq(Good) /\ Traced(a, s) /\ n \in 1 .. Len(s) /\ s[n] \in Good
  <2>1. s \in Seq(Good) /\ Traced(a, s) /\ cap.ran \in 0 .. Len(s)
    BY <1>1 DEF IsCapture
  <2>2. n \in 1 .. Len(s)
    <3>1. Len(s) \in Nat
      BY <2>1
    <3> QED
      BY <1>1, <2>1, <3>1
  <2> QED
    BY <2>1, <2>2, ElementOfSeq
<1>4. out \in {s[n].code, s[n].out}
  <2>1. <<a, n>> \in DOMAIN files.blocks => files.blocks[<<a, n>>] = s[n].code
    BY <1>3 DEF Traced
  <2> QED
    BY <1>2, <2>1
<1> DEFINE b == [s[n] EXCEPT !.out = out]
           new == [s EXCEPT ![n] = b]
<1>5. b \in Good /\ b.code = s[n].code
  BY <1>3, <1>4, PrintedBlock
<1>6. cap = [check |-> k, text |-> t, at |-> a, spliced |-> s, ran |-> cap.ran]
  BY <1>1 DEF IsCapture
<1>7. \A o \in DOMAIN t : t[o] \in Seq(Good) /\ Traced(o, t[o])
  BY <1>1 DEF IsCapture
<1>8. new \in Seq(Good) /\ Len(new) = Len(s) /\ \A i \in 1 .. Len(s) : new[i].code = s[i].code
  <2> HIDE DEF b, s
  <2>1. new \in Seq(Good) /\ Len(new) = Len(s) /\ \A i \in 1 .. Len(s) : new[i] = IF i = n THEN b ELSE s[i]
    BY <1>3, <1>5, ExceptSeq
  <2> QED
    BY <1>5, <2>1
<1>9. Traced(a, new) /\ n \in 0 .. Len(new)
  <2> HIDE DEF new
  <2> QED
    BY <1>3, <1>8 DEF Traced
<1>10. cap' = [check |-> k, text |-> t, at |-> a, spliced |-> new, ran |-> n]
  <2> DEFINE w == [cap EXCEPT !.ran = n]
  <2>1. cap' = [w EXCEPT !.spliced[n].out = out]
    BY <1>2
  <2>2. w = [check |-> k, text |-> t, at |-> a, spliced |-> s, ran |-> n]
    BY <1>6
  <2>3. w.spliced = s
    BY <2>2
  <2>4. cap' = [w EXCEPT !.spliced = [w.spliced EXCEPT ![n] = [w.spliced[n] EXCEPT !.out = out]]]
    <3> HIDE DEF w
    <3> QED
      BY <2>1
  <2> HIDE DEF w
  <2>5. cap' = [w EXCEPT !.spliced = new]
    BY <2>3, <2>4
  <2> HIDE DEF new, k, t, a, s
  <2> QED
    BY <2>2, <2>5
<1> HIDE DEF new, k, t, a, s
<1>11. /\ cap'.check = k /\ cap'.text = t /\ cap'.at = a /\ cap'.spliced = new /\ cap'.ran = n
       /\ cap' = [check |-> cap'.check, text |-> cap'.text, at |-> cap'.at, spliced |-> cap'.spliced, ran |-> cap'.ran]
  BY <1>10
<1>12. IsCapture(cap)'
  BY <1>1, <1>7, <1>8, <1>9, <1>11 DEF IsCapture, Traced
<1> QED
  BY <1>1, <1>12 DEF SiteInv

LEMMA CloseKeeps == ASSUME SiteInv, Site!ClosePage PROVE SiteInv'
<1> DEFINE k == cap.check  t == cap.text  a == cap.at  s == cap.spliced  r == cap.ran
           rest == [o \in DOMAIN t \ {a} |-> t[o]]
<1>1. /\ cap # None /\ a # None /\ UNCHANGED <<files, gen>> /\ gen = None /\ IsCapture(cap)
  BY DEF Site!ClosePage, Site!OnPage, SiteInv
<1>2. pages' = pages \/ pages' = [pages EXCEPT ![a] = s]
  BY DEF Site!ClosePage
<1>3. cap' = [cap EXCEPT !.at = None, !.spliced = <<>>, !.ran = 0, !.text = [o \in DOMAIN @ \ {a} |-> @[o]]]
  BY DEF Site!ClosePage
<1>4. s \in Seq(Good) /\ cap = [check |-> k, text |-> t, at |-> a, spliced |-> s, ran |-> r]
  BY <1>1 DEF IsCapture
<1>5. \A o \in DOMAIN rest : rest[o] \in Seq(Good) /\ Traced(o, rest[o])
  BY <1>1 DEF IsCapture
<1>6. /\ pages' = [page \in Pages |-> pages'[page]]
      /\ \A page \in Pages : pages'[page] # None => pages'[page] \in Seq(Good)
  <2>1. CASE pages' = pages
    BY <2>1 DEF SiteInv
  <2>2. CASE pages' = [pages EXCEPT ![a] = s]
    <3> HIDE DEF s, a
    <3> QED
      BY <1>4, <2>2 DEF SiteInv
  <2> QED
    BY <1>2, <2>1, <2>2
<1>7. cap' = [check |-> k, text |-> rest, at |-> None, spliced |-> <<>>, ran |-> 0]
  <2> DEFINE w == [cap EXCEPT !.at = None]
             v == [w EXCEPT !.spliced = <<>>]
             x == [v EXCEPT !.ran = 0]
  <2>1. cap' = [x EXCEPT !.text = [o \in DOMAIN x.text \ {a} |-> x.text[o]]]
    BY <1>3
  <2> HIDE DEF k, t, a, s, r
  <2>2. w = [check |-> k, text |-> t, at |-> None, spliced |-> s, ran |-> r]
    BY <1>4
  <2> HIDE DEF w
  <2>3. v = [check |-> k, text |-> t, at |-> None, spliced |-> <<>>, ran |-> r]
    BY <2>2
  <2> HIDE DEF v
  <2>4. x = [check |-> k, text |-> t, at |-> None, spliced |-> <<>>, ran |-> 0]
    BY <2>3
  <2> HIDE DEF x
  <2>5. x.text = t
    BY <2>4
  <2>6. cap' = [x EXCEPT !.text = rest]
    BY <2>1, <2>5
  <2> HIDE DEF rest
  <2> QED
    BY <2>4, <2>6
<1> HIDE DEF k, t, a, s, r, rest
<1>8. /\ cap'.check = k /\ cap'.text = rest /\ cap'.at = None /\ cap'.spliced = <<>> /\ cap'.ran = 0
      /\ cap' = [check |-> cap'.check, text |-> cap'.text, at |-> cap'.at, spliced |-> cap'.spliced, ran |-> cap'.ran]
  BY <1>7
<1>9. IsCapture(cap)'
  BY <1>1, <1>5, <1>8 DEF IsCapture, Traced
<1> QED
  BY <1>1, <1>6, <1>9 DEF SiteInv

(* One page is edited, a capture has what it read.                          *)
LEMMA EditKeeps ==
  ASSUME SiteInv, NEW page \in Pages, Site!EditBlocks(page)
  PROVE  SiteInv'
<1>1. PICK text : Site!EditPage(page, text) /\ (text = None \/ text \in Seq(Good))
  <2> DEFINE old == pages[page]
  <2>1. old # None => old \in Seq(Good)
    BY DEF SiteInv
  <2>2. CASE old = None /\ Site!EditPage(page, <<>>)
    <3>1. <<>> \in Seq(Good)
      OBVIOUS
    <3> QED
      BY <2>2, <3>1
  <2>3. CASE old # None /\ Site!EditPage(page, None)
    BY <2>3
  <2>4. CASE old # None /\ \E n \in 1 .. Len(old) : Site!EditPage(page, Site!Without(old, n))
    BY <2>1, <2>4, WithoutGood
  <2>5. CASE old # None /\ \E n \in 1 .. Len(old) + 1, c \in Codes :
                              Site!EditPage(page, Site!With(old, n, Site!Block(c)))
    BY <2>1, <2>5, WithGood, NewBlock
  <2>6. CASE old # None /\ \E n \in 1 .. Len(old), c \in Codes :
                              Site!EditPage(page, [old EXCEPT ![n].code = c, ![n].had = @ \cup {c}])
    BY <2>1, <2>6, RecodedGood
  <2> QED
    BY <2>2, <2>3, <2>4, <2>5, <2>6 DEF Site!EditBlocks
<1>2. pages' = [pages EXCEPT ![page] = text] /\ UNCHANGED <<files, gen, cap>>
  BY <1>1 DEF Site!EditPage
<1>3. /\ pages' = [o \in Pages |-> pages'[o]]
      /\ \A o \in Pages : pages'[o] # None => pages'[o] \in Seq(Good)
  BY <1>1, <1>2 DEF SiteInv
<1> QED
  BY <1>2, <1>3 DEF SiteInv, IsCapture, Traced

LEMMA SiteStarts == Site!DocsInit => SiteInv
<1> SUFFICES ASSUME Site!DocsInit PROVE SiteInv
  OBVIOUS
<1>1. pages = [page \in Pages |-> <<>>] /\ cap = None
  BY DEF Site!DocsInit
<1>2. <<>> \in Seq(Good)
  OBVIOUS
<1> QED
  BY <1>1, <1>2 DEF SiteInv

LEMMA SiteKeeps == SiteInv /\ [Site!DocsNext]_site => SiteInv'
<1> SUFFICES ASSUME SiteInv, [Site!DocsNext]_site PROVE SiteInv'
  OBVIOUS
<1>1. ASSUME NEW paths \in SUBSET Pages, Site!GenTests(paths) PROVE SiteInv'
  BY <1>1, IdleKeeps DEF Site!GenTests, Site!Idle
<1>2. ASSUME NEW paths \in SUBSET Pages, Site!Capture(paths) PROVE SiteInv'
  BY <1>2, CaptureKeeps
<1>3. ASSUME gen # None, UNCHANGED <<pages, cap>> PROVE SiteInv'
  <2>1. cap = None
    BY <1>3 DEF SiteInv
  <2> QED
    BY <1>3, <2>1, IdleKeeps
<1>4. CASE Site!WriteMain \/ (\E id \in Site!Ids : Site!WriteBlock(id) \/ Site!RemoveFile(id)) \/ Site!GenEnds
  BY <1>3, <1>4 DEF Site!WriteMain, Site!WriteBlock, Site!RemoveFile, Site!GenEnds, Site!Written
<1>5. ASSUME NEW page \in Pages, Site!OpenPage(page) PROVE SiteInv'
  BY <1>5, OpenKeeps
<1>6. CASE Site!RunBlock
  BY <1>6, RunKeeps
<1>7. CASE Site!ClosePage
  BY <1>7, CloseKeeps
<1>8. CASE Site!CaptureEnds \/ Site!Killed
  BY <1>8, IdleKeeps DEF Site!CaptureEnds, Site!Killed
<1>9. ASSUME NEW page \in Pages, Site!EditBlocks(page) PROVE SiteInv'
  BY <1>9, EditKeeps
<1>10. CASE UNCHANGED site
  BY <1>10 DEF site, SiteInv, IsCapture, Traced
<1> QED
  BY <1>1, <1>2, <1>4, <1>5, <1>6, <1>7, <1>8, <1>9, <1>10 DEF Site!DocsNext

(* For any pages, codes and scope, whatever is generated in part or for     *)
(* other pages, edited while it is captured or killed: what is recorded     *)
(* under a block was printed by a code that block has or had (docs.rs:      *)
(* current_capture, "a stale example would run another block's code").      *)
THEOREM OutputIsOwn == SiteSpec => []CapturedOwn
<1>1. SiteInv => CapturedOwn
  <2> SUFFICES ASSUME SiteInv, NEW page \in Pages, pages[page] # None, NEW n \in 1 .. Len(pages[page])
               PROVE  pages[page][n].out \in pages[page][n].had \cup {None}
    BY DEF CapturedOwn, Site!CapturedOwn, Site!Exist
  <2>1. pages[page] \in Seq(Good)
    BY DEF SiteInv
  <2>2. pages[page][n] \in Good
    BY <2>1, ElementOfSeq
  <2> QED
    BY <2>2 DEF Good
<1> QED
  BY <1>1, SiteStarts, SiteKeeps, PTL DEF SiteSpec
=============================================================================
