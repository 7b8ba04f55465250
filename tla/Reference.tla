------------------------------ MODULE Reference ------------------------------
(* A gate's merge-base side as a whole: the checkout (Worktree), and in it an  *)
(* item measured under valgrind (Handshake).  A kill reaches the gate and the  *)
(* command that measures, not the bench process.  Beside them, and sharing no  *)
(* state with them, the build directories of the two sides (Seed).  Sources:   *)
(* gate.rs (measure_ref_interleaved), invoke.rs (with_merge_base_worktree).    *)
EXTENDS Worktree, Sequences

CONSTANTS Costs, K_MAX, WINDOW_IR, Room, Leaves,
          Units, Needs, Members, Plans, MaxBuilt, MaxCleans, Nobody

VARIABLES cli, chosen, result, bench, cost, dumps, report, answer, text, fine, left,
          head, theirs, step, plan, done, todo, copying, now, cleans

Item == INSTANCE Handshake
Dirs == INSTANCE Seed WITH base <- theirs

ASSUME ItemAssumption == Item!HandshakeAssumption
ASSUME DirsAssumption == Dirs!UnitsAssumption

hs  == <<cli, chosen, result, bench, cost, dumps, report, answer, text, fine, left>>
all == <<vars, hs>>

ReferenceInit == Init /\ Item!HandshakeInit

\* A gate at work on the checkout.
Prepares(p) == GateStep(p) /\ gate[p].pc # "measure" /\ UNCHANGED hs

\* It builds and runs the measurement.
StartsItem(p) == gate[p].pc = "measure" /\ Item!Spawn /\ UNCHANGED vars

TakesResult(p) == cli = "over" /\ Measure(p) /\ Item!Cleared

\* A bench process left alive changes nothing of the checkout: the next gate
\* begins when it is gone.
Resolves(p) == bench = "none" /\ Resolve(p) /\ UNCHANGED hs
Killed(p)   == Kill(p) /\ (IF gate[p].pc = "measure" THEN Item!Killed ELSE UNCHANGED hs)
Measures    == Item!HandshakeStep /\ UNCHANGED vars
Users       == User /\ UNCHANGED hs

Goes(p) == Prepares(p) \/ StartsItem(p) \/ TakesResult(p)

ReferenceNext ==
    \/ \E p \in Procs : Resolves(p) \/ Goes(p) \/ Killed(p)
    \/ Measures \/ Users

\* Gates and processes go on unless they are killed; nobody has to start one.
ReferenceFairness ==
    /\ \A p \in Procs : WF_all(Goes(p))
    /\ WF_all((Item!BenchStep \/ Item!Forgotten) /\ UNCHANGED vars)
    /\ WF_all(Item!CliStep /\ UNCHANGED vars)
    /\ WF_all(Item!Drain /\ UNCHANGED vars)

ReferenceSpec == ReferenceInit /\ [][ReferenceNext]_all /\ ReferenceFairness

directories == <<head, theirs, step, plan, done, todo, copying, now, cleans>>

DirectoriesSpec == Dirs!SeedInit /\ [][Dirs!SeedNext]_directories

-----------------------------------------------------------------------------
\* What is returned is what an iteration of the item takes, measured over the
\* window that was chosen for it: never part of a window, another phase's
\* instructions or those of a process that failed (callgrind.rs:
\* measure_window).
MeasuredWhole == Item!MeasuredWhole

\* A gate ends however cargo answers its pins, and the processes it started end
\* when it, or one of them, is killed: what a side waits for is sent, or can be
\* seen never to come (invoke.rs: sync_harness_versions, "for _ in 0..16";
\* ctl.rs: "A side that dies closes its ends").
NobodyWaits == GateEnds /\ Item!BenchEnds

\* Whatever was copied, cut short, cleaned or built before, a build of the
\* merge-base links a unit to the very builds of its dependencies it was
\* compiled against, and no unit is part of one (unitgraph.rs: "leaves the
\* merge-base build unable to find the crate"; seed.rs: copy_unit).
BaseLinks == Dirs!BaseLinks
=============================================================================
