------------------------------- MODULE Tests -------------------------------
(* `cargo soothfast test`: which packages a change selects, which of their    *)
(* test executables a stored pass lets it skip, how the others run, and when  *)
(* a pass is stored.  Sources: test/mod.rs, test/key.rs, test/shim.rs,        *)
(* test/select.rs, test/cargo.rs, test/runner.rs.                             *)
(*                                                                            *)
(* The repository is a version of each package's sources and of the data its  *)
(* tests read, and of the files no package owns.  It changes under the round: *)
(* an editor, and the tests themselves, write data while it runs.  A version  *)
(* is a content, and no content comes back while a round runs.                *)
EXTENDS Naturals, FiniteSets, Option

CONSTANTS Packages,
          Deps,       \* package |-> the packages it declares a dependency on
          Bins,       \* test executables
          PkgOf,      \* executable |-> its package
          Links,      \* executable |-> packages whose code it loads
          ToolLinks,  \* package |-> packages whose code its plain executables load
          Keep,       \* stored passes kept
          MaxEdits,   \* bound: changes to the repository
          EditsWhileRunning   \* whether sources too change under a round

ASSUME TestsAssumption ==
    /\ Deps \in [Packages -> SUBSET Packages]
    /\ PkgOf \in [Bins -> Packages]
    /\ Links \in [Bins -> SUBSET Packages]
    /\ ToolLinks \in [Packages -> SUBSET Packages]
    /\ Keep \in Nat \ {0} /\ MaxEdits \in Nat
    /\ EditsWhileRunning \in BOOLEAN

ASSUME NoneAssumption ==
    /\ None \notin {"pass", "fail", "flaky", "reused", "skipped", "error", "failed"}
    /\ \A b \in Bins : None \notin [bin : {b}, exe : [Links[b] -> 0 .. MaxEdits],
                                  tools : [ToolLinks[PkgOf[b]] -> 0 .. MaxEdits],
                                  files : (0 .. MaxEdits) \X (0 .. MaxEdits),
                                  ws : 0 .. MaxEdits]

VARIABLES
    src, data, ws,   \* the repository: package |-> version, and one version
    edits,           \* how often it changed
    exes, tools,     \* code of the executables cargo last linked
    passes,          \* keys with a stored pass
    stage,           \* "idle", "selected", "built", "round", "over"
    shim,            \* one run step through the shim, or a cargo per binary
    all, selected,   \* --all, and the packages selected
    memo,            \* the keyer's digests: of [ws, files, exes, tools]
    ph,              \* executable |-> how far the round is with it
    planned,         \* executable |-> its key before it ran
    cached,          \* executables a stored pass covers
    status,          \* executable |-> the exit the shim recorded
    outcome,         \* the round's verdict
    started,         \* ghost: what the executable that runs found when it started
    exited,          \* ghost: executable |-> how it last really ended
    proved           \* ghost: keys whose executable passed on exactly that

repo  == <<src, data, ws, edits>>
round == <<shim, all, selected>>
vars  == <<repo, exes, tools, passes, stage, round, memo, ph, planned, cached, status,
           outcome, started, exited, proved>>

Versions == 0 .. MaxEdits

-----------------------------------------------------------------------------
(* Selection.                                                                *)

\* Slip: a package's dependents are its direct ones.
DirectDependents(direct) ==
    direct \cup {p \in Packages : Deps[p] \cap direct # {}}

\* The packages in direct and all that depend on one of them, through any
\* number of packages: what the code's queue reaches, the least such set.
WithDependents(direct) ==
    {p \in Packages :
        \A S \in SUBSET Packages :
            direct \subseteq S /\ (\A q \in Packages : Deps[q] \cap S # {} => q \in S) => p \in S}

\* Files no package owns select every package; a package's own select it and
\* what depends on it.  The base is version 0 of everything.
Select ==
    IF ws # 0 THEN Packages
    ELSE WithDependents({p \in Packages : src[p] # 0 \/ data[p] # 0})

-----------------------------------------------------------------------------
(* Keys.                                                                     *)

Code(b)  == [p \in Links[b] |-> src[p]]
ToolCode(p) == [q \in ToolLinks[p] |-> src[q]]
Files(p) == <<src[p], data[p]>>

KeyOf(b, exe, tool, files, w) ==
    [bin |-> b, exe |-> exe, tools |-> tool, files |-> files, ws |-> w]

\* What running b now would run, and on what.
Now(b) == KeyOf(b, exes[b], tools[PkgOf[b]], Files(PkgOf[b]), ws)

\* The key b would get if everything were linked and digested now, and at base.
Fresh(b) == KeyOf(b, Code(b), ToolCode(PkgOf[b]), Files(PkgOf[b]), ws)
AtBase(b) == KeyOf(b, [p \in Links[b] |-> 0], [p \in ToolLinks[PkgOf[b]] |-> 0], <<0, 0>>, 0)

NoMemo == [ws |-> None, files |-> [p \in Packages |-> None],
           exes |-> [b \in Bins |-> None], tools |-> [p \in Packages |-> None]]

\* The keyer's digests after it keyed b: the ones it has stay.
Remember(m, b) ==
    LET p == PkgOf[b]
    IN [m EXCEPT !.files[p] = IF @ = None THEN Files(p) ELSE @,
                 !.tools[p] = IF @ = None THEN tools[p] ELSE @,
                 !.exes[b] = IF @ = None THEN exes[b] ELSE @]

\* Slip: only the package's own files are digested again.
AfreshPackage(m, b) ==
    [m EXCEPT !.files[PkgOf[b]] = Files(PkgOf[b])]

\* The workspace's and the package's files digested afresh; executables, once
\* a round.
Afresh(m, b) ==
    [m EXCEPT !.ws = ws, !.files[PkgOf[b]] = Files(PkgOf[b])]

KeyFrom(m, b) == KeyOf(b, m.exes[b], m.tools[PkgOf[b]], m.files[PkgOf[b]], m.ws)

-----------------------------------------------------------------------------
Init ==
    /\ src = [p \in Packages |-> 0] /\ data = [p \in Packages |-> 0] /\ ws = 0
    /\ edits = 0
    /\ exes = [b \in Bins |-> None] /\ tools = [p \in Packages |-> None]
    /\ passes = {} /\ proved = {}
    /\ stage = "idle" /\ shim = TRUE /\ all = FALSE /\ selected = {}
    /\ memo = NoMemo
    /\ ph = [b \in Bins |-> "out"]
    /\ planned = [b \in Bins |-> None]
    /\ cached = {}
    /\ status = [b \in Bins |-> None] /\ exited = [b \in Bins |-> None]
    /\ outcome = None /\ started = None

\* A round starts: the packages it tests, by the change or all of them.
Begin ==
    /\ stage = "idle"
    /\ all' \in BOOLEAN /\ shim' \in BOOLEAN
    /\ selected' = IF all' THEN Packages ELSE Select
    /\ stage' = "selected"
    /\ UNCHANGED <<repo, exes, tools, passes, memo, ph, planned, cached, status, outcome,
                   started, exited, proved>>

\* Nothing selected: the round is over, and skipped.
Nothing ==
    /\ stage = "selected" /\ selected = {}
    /\ outcome' = "skipped" /\ stage' = "over"
    /\ UNCHANGED <<repo, exes, tools, passes, round, memo, ph, planned, cached, status,
                   started, exited, proved>>

\* cargo links what the selected packages' tests need.
Build ==
    /\ stage = "selected" /\ selected # {}
    /\ exes' = [b \in Bins |-> IF PkgOf[b] \in selected THEN Code(b) ELSE exes[b]]
    /\ tools' = [p \in Packages |-> IF p \in selected THEN ToolCode(p) ELSE tools[p]]
    /\ ph' = [b \in Bins |-> IF PkgOf[b] \in selected THEN "todo" ELSE "out"]
    /\ stage' = "built"
    /\ UNCHANGED <<repo, passes, round, memo, planned, cached, status, outcome, started,
                   exited, proved>>

BuildFails ==
    /\ stage = "selected" /\ selected # {}
    /\ outcome' = "error" /\ stage' = "over"
    /\ UNCHANGED <<repo, exes, tools, passes, round, memo, ph, planned, cached, status,
                   started, exited, proved>>

\* The keyer digests the workspace's files once.
StartKeyer ==
    /\ stage = "built"
    /\ memo' = [NoMemo EXCEPT !.ws = ws]
    /\ stage' = "round"
    /\ UNCHANGED <<repo, exes, tools, passes, round, ph, planned, cached, status, outcome,
                   started, exited, proved>>

In(phases) == \A b \in Bins : ph[b] \in phases \cup {"out"}

\* Through the shim every executable is keyed, then every one runs, then the
\* passes are stored; without it each goes through all three by itself.
Turn(b, before) ==
    /\ stage = "round"
    /\ IF shim THEN In(before) ELSE \A c \in Bins \ {b} : ph[c] \in {"out", "todo", "done"}

Key(b) ==
    /\ ph[b] = "todo" /\ Turn(b, {"todo", "keyed"})
    /\ memo' = Remember(memo, b)
    /\ planned' = [planned EXCEPT ![b] = KeyFrom(memo', b)]
    /\ cached' = IF planned'[b] \in passes THEN cached \cup {b} ELSE cached
    /\ ph' = [ph EXCEPT ![b] = IF ~shim /\ b \in cached' THEN "done" ELSE "keyed"]
    /\ UNCHANGED <<repo, exes, tools, passes, stage, round, status, outcome, started, exited,
                   proved>>

\* --no-cache: keyed all the same, and run whatever is stored.
KeyIgnoringPasses(b) ==
    /\ ph[b] = "todo" /\ Turn(b, {"todo", "keyed"})
    /\ memo' = Remember(memo, b)
    /\ planned' = [planned EXCEPT ![b] = KeyFrom(memo', b)]
    /\ planned'[b] \in passes
    /\ ph' = [ph EXCEPT ![b] = "keyed"]
    /\ UNCHANGED <<repo, exes, tools, passes, stage, round, cached, status, outcome, started,
                   exited, proved>>

\* The run step's cargo links what changed since the build, then calls the shim
\* for one executable after another; it skips those a pass covers.
RunStep ==
    /\ stage = "round" /\ shim /\ In({"keyed"})
    /\ exes' = [b \in Bins |-> IF ph[b] = "keyed" THEN Code(b) ELSE exes[b]]
    /\ tools' = [p \in Packages |-> IF p \in selected THEN ToolCode(p) ELSE tools[p]]
    /\ ph' = [b \in Bins |->
                IF ph[b] # "keyed" THEN ph[b] ELSE IF b \in cached THEN "done" ELSE "linked"]
    /\ UNCHANGED <<repo, passes, stage, round, memo, planned, cached, status, outcome, started,
                   exited, proved>>

\* Without the shim, a cargo of its own links and runs one executable.
Link(b) ==
    /\ stage = "round" /\ ~shim /\ ph[b] = "keyed"
    /\ exes' = [exes EXCEPT ![b] = Code(b)]
    /\ tools' = [tools EXCEPT ![PkgOf[b]] = ToolCode(PkgOf[b])]
    /\ ph' = [ph EXCEPT ![b] = "linked"]
    /\ UNCHANGED <<repo, passes, stage, round, memo, planned, cached, status, outcome, started,
                   exited, proved>>

Start(b) ==
    /\ ph[b] = "linked" /\ started = None
    /\ started' = Now(b)
    /\ ph' = [ph EXCEPT ![b] = "running"]
    /\ UNCHANGED <<repo, exes, tools, passes, stage, round, memo, planned, cached, status,
                   outcome, exited, proved>>

\* Slip: an executable without a record passed.
StatusOrPass(exit, recorded) == IF recorded THEN exit ELSE "pass"

Status(exit, recorded) == IF recorded THEN exit ELSE None

\* It ends, and the shim records how, if it can.  Whether it passed on exactly
\* what it started with is known here only.
End(b) ==
    /\ ph[b] = "running"
    /\ \E exit \in {"pass", "fail"}, recorded \in IF shim THEN BOOLEAN ELSE {TRUE} :
          /\ exited' = [exited EXCEPT ![b] = exit]
          /\ status' = [status EXCEPT ![b] = Status(exit, recorded)]
          /\ proved' = IF exit = "pass" /\ started = Now(b) THEN proved \cup {started} ELSE proved
    /\ started' = None
    /\ ph' = [ph EXCEPT ![b] = "ran"]
    /\ UNCHANGED <<repo, exes, tools, passes, stage, round, memo, planned, cached, outcome>>

\* The run step's cargo is killed: what it had not run has no record.
Killed ==
    /\ stage = "round" /\ shim
    /\ \E b \in Bins : ph[b] \in {"linked", "running"}
    /\ ph' = [b \in Bins |-> IF ph[b] \in {"linked", "running"} THEN "ran" ELSE ph[b]]
    /\ started' = None
    /\ exited' = [b \in Bins |-> IF ph[b] \in {"linked", "running"} THEN "fail" ELSE exited[b]]
    /\ UNCHANGED <<repo, exes, tools, passes, stage, round, memo, planned, cached, status, outcome,
                   proved>>

\* Storing a pass prunes the oldest beyond what is kept.
Record(k) ==
    \E kept \in SUBSET passes :
        /\ passes' = kept \cup {k}
        /\ kept = passes \/ Cardinality(kept \cup {k}) = Keep
        /\ Cardinality(passes') <= Keep

\* A pass is stored only under a key that running it left the same.
Store(b) ==
    /\ ph[b] = "ran" /\ Turn(b, {"ran", "done"})
    /\ ph' = [ph EXCEPT ![b] = "done"]
    /\ IF status[b] = "pass"
       THEN /\ memo' = Afresh(memo, b)
            /\ IF KeyFrom(memo', b) = planned[b] THEN Record(planned[b]) ELSE UNCHANGED passes
       ELSE UNCHANGED <<memo, passes>>
    /\ UNCHANGED <<repo, exes, tools, stage, round, planned, cached, status, outcome, started,
                   exited, proved>>

Failed == {b \in Bins : ph[b] = "done" /\ b \notin cached /\ status[b] # "pass"}

\* A failed executable runs again: one that passes now is flaky, and no pass is
\* stored for it.
Retry(b) ==
    /\ stage = "round" /\ In({"done"}) /\ b \in Failed
    /\ status' = [status EXCEPT ![b] = "flaky"]
    /\ exited' = [exited EXCEPT ![b] = "flaky"]
    /\ UNCHANGED <<repo, exes, tools, passes, stage, round, memo, ph, planned, cached, outcome,
                   started, proved>>

Verdict ==
    LET tested == {b \in Bins : ph[b] = "done"}
        failed == {b \in tested : b \notin cached /\ status[b] \notin {"pass", "flaky"}}
        flaky == {b \in tested : status[b] = "flaky"}
    IN IF failed # {} THEN "failed"
       ELSE IF flaky # {} THEN "flaky"
       ELSE IF tested \subseteq cached THEN "reused"
       ELSE "pass"

Finish ==
    /\ stage = "round" /\ In({"done"})
    /\ outcome' = Verdict
    /\ stage' = "over"
    /\ UNCHANGED <<repo, exes, tools, passes, round, memo, ph, planned, cached, status, started,
                   exited, proved>>

Leave ==
    /\ stage = "over"
    /\ stage' = "idle" /\ shim' = TRUE /\ all' = FALSE /\ selected' = {}
    /\ memo' = NoMemo /\ ph' = [b \in Bins |-> "out"]
    /\ planned' = [b \in Bins |-> None] /\ cached' = {}
    /\ status' = [b \in Bins |-> None] /\ exited' = [b \in Bins |-> None]
    /\ outcome' = None
    /\ UNCHANGED <<repo, exes, tools, passes, started, proved>>

-----------------------------------------------------------------------------
(* The repository changes: by hand, or by a test that writes its own inputs.  *)

Edit ==
    /\ edits < MaxEdits /\ edits' = edits + 1
    /\ UNCHANGED <<exes, tools, passes, stage, round, memo, ph, planned, cached, status, outcome,
                   started, exited, proved>>

EditSource(p) ==
    /\ EditsWhileRunning \/ stage = "idle"
    /\ src' = [src EXCEPT ![p] = edits + 1]
    /\ Edit
    /\ UNCHANGED <<data, ws>>

EditData(p) ==
    /\ data' = [data EXCEPT ![p] = edits + 1]
    /\ Edit
    /\ UNCHANGED <<src, ws>>

EditWorkspace ==
    /\ ws' = edits + 1
    /\ Edit
    /\ UNCHANGED <<src, data>>

Next ==
    \/ Begin \/ Nothing \/ Build \/ BuildFails \/ StartKeyer
    \/ \E b \in Bins : Key(b) \/ KeyIgnoringPasses(b) \/ Link(b) \/ Start(b) \/ End(b)
                          \/ Store(b) \/ Retry(b)
    \/ RunStep \/ Killed \/ Finish \/ Leave
    \/ \E p \in Packages : EditSource(p) \/ EditData(p)
    \/ EditWorkspace

Spec == Init /\ [][Next]_vars

-----------------------------------------------------------------------------
Keys(b) ==
    [bin : {b}, exe : [Links[b] -> Versions], tools : [ToolLinks[PkgOf[b]] -> Versions],
     files : Versions \X Versions, ws : Versions]

\* Types: versions of the repository, keys, and never more passes than are kept.
TypeOK ==
    /\ src \in [Packages -> Versions] /\ data \in [Packages -> Versions]
    /\ ws \in Versions /\ edits \in Versions
    /\ \A b \in Bins : exes[b] = None \/ exes[b] \in [Links[b] -> Versions]
    /\ \A p \in Packages : tools[p] = None \/ tools[p] \in [ToolLinks[p] -> Versions]
    /\ \A k \in passes \cup proved : k \in Keys(k.bin)
    /\ Cardinality(passes) <= Keep
    /\ stage \in {"idle", "selected", "built", "round", "over"}
    /\ selected \subseteq Packages /\ cached \subseteq Bins
    /\ ph \in [Bins -> {"out", "todo", "keyed", "linked", "running", "ran", "done"}]
    /\ \A b \in Bins : planned[b] = None \/ planned[b] \in Keys(b)
    /\ status \in [Bins -> {None, "pass", "fail", "flaky"}]
    /\ outcome \in {None, "skipped", "error", "failed", "flaky", "reused", "pass"}

\* A stored pass is earned: the executable of its key, beside the plain
\* executables of its key, passed at the first attempt on the files of its key,
\* which did not change while it ran.
PassesAreEarned == passes \subseteq proved

\* What is not tested did not change: an executable of a package the change does
\* not select would have the key it has at the base.
UnselectedUnchanged ==
    [][stage = "idle" /\ stage' = "selected" =>
         \A b \in Bins : PkgOf[b] \notin selected' => Fresh(b) = AtBase(b)]_vars

\* A round that does not fail ran all it selected: each executable passed in it,
\* on a second attempt in a flaky one, or passed before on the key it had.
GreenIsEarned ==
    outcome \in {"pass", "flaky", "reused"} =>
        \A b \in Bins : PkgOf[b] \in selected =>
            \/ exited[b] \in {"pass", "flaky"}
            \/ exited[b] = None /\ planned[b] \in proved

=============================================================================
