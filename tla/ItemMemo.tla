------------------------------ MODULE ItemMemo ------------------------------
(***************************************************************************)
(* What the item cache promises, without files: invocations measure         *)
(* binaries and get what measuring gives, whatever is remembered; what is   *)
(* remembered are facts somebody measured, and any of it may be forgotten   *)
(* (itemcache.rs: "the counts it holds are the counts that binary would     *)
(* produce", "a failed write costs a measurement").                         *)
(***************************************************************************)
EXTENDS Sequences

CONSTANTS
  Procs,
  Measured,        \* the binaries measured together: one, or two sides
  Listing,         \* the items each binary lists
  Outcome(_, _),   \* what measuring an item of a binary gives
  Fact(_, _)       \* what may be remembered of it

VARIABLES
  known,     \* the facts remembered somewhere
  results    \* per invocation: the binaries it measures and what it got

vars == <<known, results>>

Nothing == [bins |-> <<>>, run |-> <<>>]

Facts(bins) ==
  UNION {{Fact(bins[s], i) : i \in Listing[bins[s]]} : s \in DOMAIN bins}

Init ==
  /\ known = {}
  /\ results = [p \in Procs |-> Nothing]

Measure(p, bins) ==
  /\ results' = [results EXCEPT ![p] =
       [bins |-> bins, run |-> [s \in DOMAIN bins |-> [i \in Listing[bins[s]] |-> Outcome(bins[s], i)]]]]
  /\ known' = known

Remember(p) ==
  /\ known' \subseteq known \cup Facts(results[p].bins)
  /\ results' \in {results, [results EXCEPT ![p] = Nothing]}

Leave(p) ==
  /\ known' \subseteq known
  /\ results' = [results EXCEPT ![p] = Nothing]

Forget ==
  /\ known' \subseteq known
  /\ UNCHANGED results

Next ==
  \/ \E p \in Procs : (\E bins \in Measured : Measure(p, bins)) \/ Remember(p) \/ Leave(p)
  \/ Forget

Spec == Init /\ [][Next]_vars
=============================================================================
