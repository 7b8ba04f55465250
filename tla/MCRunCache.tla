----------------------------- MODULE MCRunCache -----------------------------
(* Instances of RunCache: two binaries, of which the second lists one item   *)
(* more and breaks a claim, and a tree that builds the first again.          *)
EXTENDS RunCacheProofs, TLC

CONSTANTS p1, p2, t1, t2, t3, b1, b2, item1, item2

MCBin     == [t \in Trees |-> IF t = t2 THEN b2 ELSE b1]
MCListing == b1 :> {item1} @@ b2 :> {item1, item2}
MCClaims  == b1 :> {item1} @@ b2 :> {item1, item2}
MCBreaks  == b1 :> {} @@ b2 :> {item2}

Whole == {{item1, item2}}
Split == {{item1, item2}, {item1}}

Asked(cmd, shard, filter, reuse, record) ==
  [cmd |-> cmd, scope |-> [shard |-> shard, filter |-> filter], reuse |-> reuse, record |-> record]
MCStarts ==
  {Asked("gate", Items, Items, TRUE, FALSE), Asked("gate", {item1}, Items, TRUE, TRUE),
   Asked("measure", {item1}, Items, TRUE, FALSE), Asked("measure", Items, Items, FALSE, FALSE)}

(* The processes are alike, and so are the two trees that build b1. *)
MCSymmetry == {p @@ t : p \in Permutations(Procs), t \in Permutations({t1, t3})}
=============================================================================
