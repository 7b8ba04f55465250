------------------------------ MODULE MCVerdict ------------------------------
(* Small repositories: a package in three shards; one in two shards and a docs *)
(* check, run again after a failure; two packages in one leg beside an         *)
(* imported project; a project's tests beside the Rust ones, pushed to and run *)
(* again.                                                                      *)
EXTENDS Verdict

CONSTANTS p, q, i, t

Bare == [packages |-> {}, shards |-> 1, imports |-> {}, docs |-> FALSE, rustTests |-> FALSE,
         tests |-> {}, pushes |-> 0, attempts |-> 1, labels |-> 0]

MCLayouts ==
    {[Bare EXCEPT !.packages = {p}, !.shards = 3, !.labels = 3],
     [Bare EXCEPT !.packages = {p}, !.shards = 2, !.docs = TRUE, !.attempts = 2, !.labels = 1],
     [Bare EXCEPT !.packages = {p, q}, !.imports = {i}, !.labels = 2],
     [Bare EXCEPT !.rustTests = TRUE, !.tests = {t}, !.pushes = 1, !.attempts = 2]}
=============================================================================
