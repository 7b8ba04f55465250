-------------------------------- MODULE Locks --------------------------------
(* What is committed beside the code and compared with it: the gate lock (the *)
(* variables of GateLock), probes.lock (Probes), the pages with their recorded*)
(* output (Site) and soothfast.lock (Prose).  They share no state.            *)
EXTENDS GateLock

CONSTANTS
    Names, Fields, Pinned, Schemas, Never,   \* probes.lock
    Pages, Scope, Codes, MaxBlocks, MaxEdits,\* pages
    Sources, Binds, Formats, VERSION         \* soothfast.lock

VARIABLES
    manifest, probesLock, probing, seen,
    pages, files, gen, cap, edits,
    bound, code, proseLock

Probes == INSTANCE Probe WITH lock <- probesLock
Site   == INSTANCE Docs
Prose  == INSTANCE DocsLock WITH pages <- bound, lock <- proseLock, Items <- Sources

ASSUME ProbesAssumption == Probes!ProbeAssumption

probes == <<manifest, probesLock, probing, seen>>
site   == <<pages, files, gen, cap, edits>>
prose  == <<bound, code, proseLock>>

ProbeSpec == Probes!ProbeInit /\ [][Probes!ProbeNext]_probes
SiteSpec  == Site!DocsInit /\ [][Site!DocsNext]_site
ProseSpec == Prose!LockInit /\ [][Prose!LockNext]_prose

-----------------------------------------------------------------------------
\* probes.lock says of a field what the accepted answers say, and a gate takes
\* no answer that falls short of it (baseline.rs: "`always`: populated in every
\* accepted run").
LockEarned == Probes!LockEarned

\* The output recorded under a block is one of that block's own, through edits
\* and examples that were generated in part (docs.rs: current_capture).
CapturedOwn == Site!CapturedOwn

\* soothfast.lock holds entries of the format it is stamped with (lockfile.rs:
\* comparable).
StampTrue == Prose!StampTrue
=============================================================================
