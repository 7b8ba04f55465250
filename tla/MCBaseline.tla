----------------------------- MODULE MCBaseline -----------------------------
(* Instances of Baseline: the legs of one sharded gate, and a baseline that   *)
(* is saved again and again.                                                  *)
EXTENDS BaselineProofs, TLC

CONSTANTS p, q, a, b, x, f1, f2

TwoShards == a :> 1 @@ b :> 2 @@ x :> 1
OneShard  == [i \in Items |-> 1]

(* b and x are benched by both packages.                                      *)
Shared    == p :> {{a, b, x}} @@ q :> {{b, x}}

(* An item both packages may list stays in each that lists it.                *)
Steady    == p :> {{a, x}, {x}} @@ q :> {{x}}

(* p stops benching what q still does.                                        *)
Moving    == p :> {{a, x}, {a}} @@ q :> {{x}}

Unfiltered == {Items}
ByItem     == {Items, {x}}

AnyWhole   == {{}, Items}
AnyShared  == {{}, {x}}

Interchangeable == Permutations(Files)
=============================================================================
