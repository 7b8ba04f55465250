----------------------------- MODULE MCReference ----------------------------
(* The merge-base's side of a gate: its checkout, for two merge-bases that    *)
(* take turns and a worktree of the user elsewhere, and its build directory,  *)
(* for a package that links three crates in a row.  The two share no state,   *)
(* so one of them moves in a behaviour.                                       *)
EXTENDS Reference, TLC

CONSTANTS p1, s1, s2, away, facade, core, old, new, pinned

MCBaseLock == [c \in Crates |-> old]

CONSTANTS a, b, c, app

MCNeeds == a :> {} @@ b :> {a} @@ c :> {b} @@ app :> {a, c}
MCPlans == {{a}, {a, b}, {a, b, c}, {a, b, c, app}}

VARIABLE part

MCInit ==
  /\ part \in {"checkout", "directories"} /\ ReferenceInit /\ Dirs!SeedInit
  /\ part = "directories" => base = s1 /\ config = None

MCNext ==
  \/ part = "checkout" /\ ReferenceNext /\ UNCHANGED <<directories, part>>
  \/ part = "directories" /\ Dirs!SeedNext /\ UNCHANGED <<all, part>>

MCSpec == MCInit /\ [][MCNext]_<<all, directories, part>> /\ ReferenceFairness
=============================================================================
