------------------------------- MODULE MCLocks -------------------------------
(* What is committed beside the code and compared with it: the gate lock of   *)
(* one item against a merge-base (GateLock's own variables) and of two items  *)
(* against a saved baseline (Saved), probes.lock (Probes), the pages with     *)
(* their recorded output (Site) and soothfast.lock (Prose).  They share no    *)
(* state, so one of them moves in a behaviour.                                *)
EXTENDS Locks, TLC

CONSTANTS i1, i2, ins, alloc, wall, f0, f1

MCLimit == [m \in Metrics |-> 50]
MCFloor == [m \in Metrics |-> 10]

Item(fp, instructions, allocs, rounds) ==
  [fp |-> fp, tol |-> 0, rounds |-> rounds,
   val |-> (ins :> instructions @@ alloc :> allocs)]

(* What the items measure: a quiet start, a regressed counter over old and   *)
(* new code, an allocation more, a near miss, a clock gone slow in one round *)
(* and in both.                                                              *)
MCMeasures ==
  {Item(f0, 2, 1, <<2, 2>>), Item(f1, 4, 1, <<4, 4>>), Item(f1, 2, 2, <<2, 2>>),
   Item(f0, 3, 1, <<2, 4>>), Item(f0, 2, 1, <<4, 4>>), Item(f1, 7, 1, <<8, 8>>),
   Item(f1, 3, 1, <<5, 5>>)}

(* A smaller choice for two items at once. *)
MCFew == {Item(f0, 2, 1, <<2, 2>>), Item(f1, 4, 1, <<4, 4>>), Item(f1, 2, 2, <<2, 2>>)}

Plain == [drift |-> FALSE, reused |-> FALSE, advisory |-> FALSE,
          headroom |-> None, allowGone |-> FALSE]
MCRuns == {Plain, [Plain EXCEPT !.headroom = 10], [Plain EXCEPT !.allowGone = TRUE],
           [Plain EXCEPT !.drift = TRUE], [Plain EXCEPT !.reused = TRUE]}
MCNoHeadroom == {ctx \in MCRuns : ctx.headroom = None}
MCTwoRuns == {Plain, [Plain EXCEPT !.headroom = 10]}

VARIABLES head2, reference2, ratchet2, lock2, reviewed2, status2, commits2

Saved == INSTANCE GateLock WITH
  Items <- {i1, i2}, Measures <- MCFew, Runs <- MCTwoRuns, AgainstRef <- FALSE,
  SaveNames <- {"reference"}, MaxCommits <- 3,
  head <- head2, reference <- reference2, ratchet <- ratchet2, lock <- lock2,
  reviewed <- reviewed2, status <- status2, commits <- commits2

CONSTANTS p, q, c, e, f, g, x, y

MCSchemas == {None, Fields}
MCBinds == p :> {c} @@ q :> {e}

VARIABLE part
saved  == <<head2, reference2, ratchet2, lock2, reviewed2, status2, commits2>>

Quiet == Item(f0, 2, 1, <<2, 2>>)

MCInit ==
  /\ Init /\ Saved!Init /\ Probes!ProbeInit /\ Site!DocsInit /\ Prose!LockInit
  /\ part \in {"merge-base", "baseline", "probes", "site", "prose"}
  /\ part # "merge-base" => head = [i \in Items |-> Quiet]
  /\ part # "baseline" => head2 = [i \in {i1, i2} |-> Quiet]
  /\ part # "prose" => code = [i \in {c, e} |-> x]

MCNext ==
  \/ part = "merge-base" /\ Next /\ UNCHANGED <<saved, probes, site, prose, part>>
  \/ part = "baseline" /\ Saved!Next /\ UNCHANGED <<vars, probes, site, prose, part>>
  \/ part = "probes" /\ Probes!ProbeNext /\ UNCHANGED <<vars, saved, site, prose, part>>
  \/ part = "site" /\ Site!DocsNext /\ UNCHANGED <<vars, saved, probes, prose, part>>
  \/ part = "prose" /\ Prose!LockNext /\ UNCHANGED <<vars, saved, probes, site, part>>

MCSpec == MCInit /\ [][MCNext]_<<vars, saved, probes, site, prose, part>>

(* Against a saved baseline: a save makes no gate of the same code red.      *)
SavesKeepGreen == Saved!SaveKeepsGreen
=============================================================================
