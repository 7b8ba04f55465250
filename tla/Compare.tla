------------------------------ MODULE Compare ------------------------------
(***************************************************************************)
(* How gate.rs decides one metric of one item: compare() and the rules it   *)
(* reads (gate_lock::allows, walltime_downgrade and its kin).               *)
(*                                                                          *)
(* A measured item is [fp, tol, val, rounds]: its code's fingerprint, its   *)
(* `tolerance' in percent, its counters and the walltime of its rounds      *)
(* (none, one, or the two of an interleaved run, whose median is the less). *)
(* The code compares percentages in floating point; here both sides are     *)
(* multiplied out, so a delta is over a limit exactly when it is.           *)
(***************************************************************************)
EXTENDS Integers, Sequences

CONSTANTS
  Counters,      \* instruction-level counters, gated relatively
  Counts,        \* counts, gated on whole numbers
  Alloc,         \* ... and those of them that count allocations
  Wall,          \* walltime's median
  Limit,         \* percent a metric may grow, walltime's after the noise floor
  Floor,         \* percent a metric must grow to count as a near miss
  FlatPct, FlatAbs,  \* how far a counter may move and still be flat
  None           \* a metric not taken, an entry or a headroom not given

Metrics == Counters \cup Counts \cup {Wall}

ASSUME MetricsAssumption ==
  Counters \cap Counts = {} /\ Wall \notin Counters \cup Counts /\ Alloc \subseteq Counts
ASSUME LimitAssumption ==
  /\ Limit \in [Metrics -> Nat] /\ Floor \in [Metrics -> Nat]
  /\ FlatPct \in Nat /\ FlatAbs \in Nat
ASSUME NotTakenAssumption == None \notin Nat

(* What a comparison is made under: a build stamp that moved, a reference   *)
(* read against another process's clock, advisory walltime, the headroom    *)
(* `gate accept' was given and --allow-gone.                                *)
Contexts == [drift : BOOLEAN, reused : BOOLEAN, advisory : BOOLEAN,
             headroom : Nat \cup {None}, allowGone : BOOLEAN]

Value(item, m) ==
  IF m # Wall THEN item.val[m]
  ELSE IF item.rounds = <<>> THEN None
  ELSE IF Len(item.rounds) = 2 /\ item.rounds[2] < item.rounds[1] THEN item.rounds[2]
  ELSE item.rounds[1]

Taken(old, cur, m) == Value(old, m) # None /\ Value(cur, m) # None

(* A relative metric is not compared with a reference of zero; a whole one  *)
(* is, and then allows nothing.                                             *)
Comparable(old, cur, m) ==
  Taken(old, cur, m) /\ (m \in Counts \/ Value(old, m) > 0)

LimitOf(cur, m) ==
  IF m \in Counts \/ cur.tol <= Limit[m] THEN Limit[m] ELSE cur.tol

Grew(o, n, pct) == 100 * (n - o) > pct * o

Fails(old, cur, m) ==
  LET o == Value(old, m)  n == Value(cur, m) IN
  IF m \in Counts THEN n > o + (o * Limit[m]) \div 100
  ELSE Grew(o, n, LimitOf(cur, m))

-----------------------------------------------------------------------------
(* An accepted entry is [base, head, metrics]: the fingerprints it was       *)
(* reviewed against and the value each accepted metric had.                  *)
Unstale(entry, old) == entry # None /\ entry.base = old.fp

UnderCeiling(entry, cur, m) ==
  entry.metrics[m] # None /\ ~Grew(entry.metrics[m], Value(cur, m), LimitOf(cur, m))

(* Slip: an entry is honoured whatever reference it was reviewed against.    *)
AllowsStale(entry, old, cur, m) == entry # None /\ UnderCeiling(entry, cur, m)

Allows(entry, old, cur, m) == Unstale(entry, old) /\ UnderCeiling(entry, cur, m)

Flat(o, n) ==
  LET diff == IF o < n THEN n - o ELSE o - n IN
  o = n \/ (o # 0 /\ (diff <= FlatAbs \/ 100 * diff <= FlatPct * o))

(* Identical code doing identical work with an identical allocation profile  *)
(* has not become slower.                                                    *)
CountersFlat(old, cur) ==
  /\ old.fp = cur.fp
  /\ \E m \in Counters : Taken(old, cur, m)
  /\ \A m \in Counters : Taken(old, cur, m) => Flat(Value(old, m), Value(cur, m))
  /\ \A m \in Alloc : Taken(old, cur, m) => Value(old, m) = Value(cur, m)

RoundsDisagree(old, cur) ==
  /\ Len(old.rounds) = 2 /\ Len(cur.rounds) = 2
  /\ \E r \in 1..2 :
       ~(old.rounds[r] > 0 /\ Grew(old.rounds[r], cur.rounds[r], Limit[Wall]))

(* Accepted counters carry walltime along: up to the growth that was         *)
(* accepted, the larger of the counters', and walltime's own limit.          *)
Carried(entry, old, cur) ==
  /\ Unstale(entry, old)
  /\ \E m \in Counters :
       LET accepted == entry.metrics[m]  o == Value(old, m)
           was == Value(old, Wall)       now == Value(cur, Wall) IN
       /\ accepted # None /\ o # None /\ o > 0
       /\ 100 * (now - was) * o <= (100 * (accepted - o) + Limit[Wall] * o) * was

Softened(entry, old, cur, m, ctx) ==
  \/ ctx.drift /\ m \notin Counts
  \/ /\ m = Wall
     /\ \/ ctx.advisory \/ ctx.reused
        \/ CountersFlat(old, cur) \/ RoundsDisagree(old, cur) \/ Carried(entry, old, cur)

(* A metric's verdict is FAIL: over its limit, not softened, not accepted.   *)
Regressed(entry, old, cur, m, ctx) ==
  /\ Comparable(old, cur, m) /\ Fails(old, cur, m)
  /\ ~Softened(entry, old, cur, m, ctx)
  /\ ~Allows(entry, old, cur, m)

(* `gate accept --headroom': passing, past the floor, within headroom of its *)
(* limit.                                                                    *)
NearMiss(old, cur, m, ctx) ==
  LET o == Value(old, m)  n == Value(cur, m) IN
  /\ ctx.headroom # None /\ Comparable(old, cur, m) /\ ~Fails(old, cur, m)
  /\ ~(m = Wall /\ ctx.advisory)
  /\ o > 0 /\ Grew(o, n, Floor[m])
  /\ LimitOf(cur, m) * o - 100 * (n - o) <= ctx.headroom * o
=============================================================================
