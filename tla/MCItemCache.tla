---------------------------- MODULE MCItemCache -----------------------------
(* Four binaries of two items.  The item `one' calls fng in all of them.        *)
EXTENDS ItemCacheProofs, TLC

CONSTANTS p1, p2, one, two, r1, r2, fng, fnh, callsG, callsH, leaf, slow, b1, b2, b3, b4, f0, f1

MCCalls == callsG :> {fng} @@ callsH :> {fnh} @@ leaf :> {} @@ slow :> {}
MCRoot  == one :> r1 @@ two :> r2

Bin(cr1, cg, ch) == r1 :> cr1 @@ r2 :> leaf @@ fng :> cg @@ fnh :> ch
(* b2 and b4 have another fng, which `one' reaches, and `two' cannot be hashed *)
(* in b2; b3 runs b1's code under a claim that it breaks.                    *)
MCCode    == b1 :> Bin(callsG, leaf, slow) @@ b2 :> Bin(callsG, callsH, leaf)
          @@ b3 :> Bin(callsG, leaf, leaf) @@ b4 :> Bin(callsG, slow, leaf)
MCListing == b1 :> {one, two} @@ b2 :> {one} @@ b3 :> {one} @@ b4 :> {one}
MCHashed  == b1 :> Functions @@ b2 :> Functions @@ b3 :> Functions @@ b4 :> {r1, fng}
MCFinger  == [b \in Binaries |-> [i \in Items |-> IF b = b3 /\ i = one THEN f1 ELSE f0]]
MCBroken  == {<<leaf, f1>>}

Ask(bins, recording) == [bins |-> bins, recording |-> recording]
MCStarts == {Ask(<<b1>>, FALSE), Ask(<<b3, b2>>, FALSE), Ask(<<b4>>, TRUE)}

MCSymmetry == Permutations(Procs)
=============================================================================
