------------------------------ MODULE Verdict ------------------------------
(* The continuous-integration pipeline of a pull request: the plan, the jobs *)
(* it asks for, the record each leaves, and the verdict job that folds the   *)
(* records into one comment and one exit status.  Sources: plan.rs,          *)
(* verdict.rs, test/project.rs, action/gate.sh, action/verdict.sh,           *)
(* action/labels.sh and .github/workflows/run.yml.                           *)
(*                                                                           *)
(* A leg is what one record stands for: a package in one shard of the Rust   *)
(* gate, an imported project, the docs check, the Rust tests, the tests of a *)
(* project.  Its name is a pair, the section it is shown under and the shard *)
(* ("pkg#1/3" in the code, None without one).  What the code writes into a   *)
(* section's output is the sequence of the legs whose output it shows.       *)
EXTENDS Integers, FiniteSets, Sequences, Option

CONSTANTS Layouts,     \* what a repository's soothfast.toml can ask for, and how
                       \* many pushes, attempts and label changes the instance follows it through
          Writers,     \* who may write to the repository
          Readers,     \* who may only label
          DocsName, TestName,  \* "docs" and "test-rust"
          TailBlocks,  \* outputs that fit the lines a section keeps
          Contents,    \* contents a test's inputs can have
          Base,        \* their content on the base branch
          MaxFaults    \* bound of the instance: how many things go wrong in it

ASSUME VerdictAssumption ==
    /\ TailBlocks \in Nat \ {0}
    /\ Base \in Contents
    /\ None \notin Writers \cup Readers
    /\ None \notin {"green", "red", "lost"}
    /\ MaxFaults \in Nat
    /\ \A l \in Layouts :
          DOMAIN l = {"packages", "shards", "imports", "docs", "rustTests", "tests",
                      "pushes", "attempts", "labels"}

VARIABLES
    layout,      \* the repository's projects
    inputs,      \* the content of each project's test inputs at HEAD
    kept,        \* the stored passes, <<test, content>>
    testAll,     \* the test-all label, as the plan saw it
    settled,     \* tests the plan answered itself, with the word it wrote
    job,         \* job |-> "unplanned", "waiting", "ok", "failed"
    artifacts,   \* job |-> the records it uploaded
    label,       \* the perf-accepted label: [on, by], by its last applier
    step,        \* where the verdict job is
    onPr,        \* it found the label on the pull request
    accepted,    \* it found a writer applied it
    pending,     \* records it has yet to fold
    sections,    \* section name |-> what the fold made of its records
    seen,        \* names of the records it read
    conclusion,  \* None, "green", "red", "lost" with the verdict job
    pushes, attempts, labels, faults,   \* what is left of the bounds
    found,       \* ghost: <<leg, what its command really found>> in this run
    everPassed,  \* ghost: <<test, content>> that really passed, ever
    vouched      \* ghost: the label was on, by a writer, since it was read

verdictVars == <<layout, inputs, kept, testAll, settled, job, artifacts, label, step,
          onPr, accepted, pending, sections, seen, conclusion, pushes, attempts,
          labels, faults, found, everPassed, vouched>>

planning == <<layout, inputs, kept, testAll, settled, pushes, attempts>>
folding  == <<step, onPr, accepted, pending, sections, seen, conclusion>>

-----------------------------------------------------------------------------
(* Records and sections.                                                     *)

Words == {"errored", "regressed", "pass", "nothing"}
Rank  == [errored |-> 0, regressed |-> 1, pass |-> 2, nothing |-> 3]

\* A leg's command ended with 0, 0 and the words "nothing to compare", 1, or
\* anything else: the code of an error, of a signal, of a job that died first.
Ends == {"zero", "nothing", "one", "other"}

Classify(end, kind) ==
    CASE end = "nothing" -> "nothing"
      [] end = "zero"    -> "pass"
      [] end = "one" /\ kind \in {"rust", "import"} -> "regressed"
      [] OTHER           -> "errored"

Rec(leg, kind, verdict, tail, flaky, unevaluated) ==
    [leg |-> leg, kind |-> kind, verdict |-> verdict, tail |-> tail,
     flaky |-> flaky, unevaluated |-> unevaluated]

\* `verdict record` of a command's exit status and output.
Recorded(leg, kind, end, silent, unevaluated) ==
    Rec(leg, kind, Classify(end, kind), IF silent THEN <<>> ELSE <<leg>>,
        FALSE, unevaluated)

\* The test runner's own words, read as a verdict.
TestWord(leg, word) ==
    Rec(leg, "test",
        CASE word \in {"pass", "reused", "skipped", "flaky"} -> "pass"
          [] word = "failed" -> "errored",
        IF word \in {"reused", "skipped"} THEN <<>> ELSE <<leg>>, word = "flaky", FALSE)

\* A file that is no record stands for itself, under its own path.
Unreadable(r) ==
    Rec(<<r.leg, "unreadable">>, "result", "errored",
        <<<<r.leg, "unreadable">>>>, FALSE, FALSE)

LastBlocks(s) ==
    IF Len(s) <= TailBlocks THEN s ELSE SubSeq(s, Len(s) - TailBlocks + 1, Len(s))

\* Slip: the better of two verdicts is kept.
AbsorbBetter(sec, r) ==
    [sec EXCEPT
       !.tail = IF Rank[r.verdict] < Rank[sec.verdict] /\ r.tail # <<>> THEN r.tail
                ELSE IF r.verdict = sec.verdict THEN LastBlocks(sec.tail \o r.tail)
                ELSE sec.tail,
       !.verdict = IF Rank[r.verdict] > Rank[sec.verdict] THEN r.verdict ELSE sec.verdict,
       !.flaky = sec.flaky \/ r.flaky,
       !.unevaluated = sec.unevaluated \/ r.unevaluated]

\* One more record of a section: the worse verdict wins and brings its output,
\* equals are kept together, a worse one without output leaves what is there.
Absorb(sec, r) ==
    [sec EXCEPT
       !.tail = IF Rank[r.verdict] < Rank[sec.verdict] /\ r.tail # <<>> THEN r.tail
                ELSE IF r.verdict = sec.verdict THEN LastBlocks(sec.tail \o r.tail)
                ELSE sec.tail,
       !.verdict = IF Rank[r.verdict] < Rank[sec.verdict] THEN r.verdict ELSE sec.verdict,
       !.flaky = sec.flaky \/ r.flaky,
       !.unevaluated = sec.unevaluated \/ r.unevaluated]

-----------------------------------------------------------------------------
(* What a layout asks for.                                                   *)

\* The Rust gate runs as one leg per shard, as one without a name when there
\* is no shard.
ShardLegs(l) == IF l.shards <= 1 THEN {None} ELSE 1 .. l.shards

RustLegs(l, s) == {<<p, s>> : p \in l.packages}

Jobs(l) ==
    {<<"rust", s>> : s \in IF l.packages = {} THEN {} ELSE ShardLegs(l)}
        \cup {<<"import", i>> : i \in l.imports}
        \cup (IF l.docs THEN {<<"docs", None>>} ELSE {})
        \cup (IF l.rustTests THEN {<<"test", None>>} ELSE {})
        \cup {<<"project", t>> : t \in l.tests}

LegsOf(l, j) ==
    IF j[1] = "rust" THEN RustLegs(l, j[2])
    ELSE IF j[1] = "docs" THEN {<<DocsName, None>>}
    ELSE IF j[1] = "test" THEN {<<TestName, None>>}
    ELSE {<<j[2], None>>}

\* Slip: a sharded package is expected once, not once per leg.
ExpectedOnce(l) ==
    UNION {IF j[1] = "rust" /\ j[2] # None /\ j[2] # 1 THEN {} ELSE LegsOf(l, j) : j \in Jobs(l)}

\* What the verdict job is told to expect: every package once per shard leg,
\* and every test the plan covers, the ones it settled included.
Expected(l) == UNION {LegsOf(l, j) : j \in Jobs(l)}

AllJobs  == (UNION {Jobs(l) : l \in Layouts}) \cup {<<"plan", None>>}
AllTests == UNION {l.tests : l \in Layouts}
Legs     == UNION {Expected(l) : l \in Layouts}

-----------------------------------------------------------------------------
NoSections == [n \in {} |-> None]

VerdictInit ==
    /\ layout \in Layouts
    /\ inputs \in [layout.tests -> Contents]
    /\ kept = {} /\ everPassed = {} /\ found = {}
    /\ testAll = FALSE /\ settled = [t \in {} |-> None]
    /\ job = [j \in AllJobs |-> "unplanned"]
    /\ artifacts = [j \in AllJobs |-> {}]
    /\ label = [on |-> FALSE, by |-> None]
    /\ step = "plan" /\ onPr = FALSE /\ accepted = FALSE /\ vouched = FALSE
    /\ pending = {} /\ sections = NoSections /\ seen = {}
    /\ conclusion = None
    /\ pushes = 0 /\ attempts = 1 /\ labels = 0 /\ faults = 0

\* The plan's decisions: a test the change does not reach is skipped, one a
\* stored pass covers is not run again; test-all runs everything.
Reached(t, all) == all \/ inputs[t] # Base

Reused(all, stored) ==
    {t \in layout.tests : ~all /\ Reached(t, all) /\ <<t, inputs[t]>> \in stored}

Settle(all, stored) ==
    LET reused == Reused(all, stored)
        skipped == {t \in layout.tests : ~Reached(t, all)}
    IN [t \in reused \cup skipped |-> IF t \in reused THEN "reused" ELSE "skipped"]

\* The plan job: it restores the stored passes, those an eviction left, settles
\* what needs no job, and starts the rest.
Plan ==
    /\ step = "plan"
    /\ \E all \in BOOLEAN, stored \in SUBSET kept :
          /\ testAll' = all
          /\ settled' = Settle(all, stored)
    /\ job' = [j \in AllJobs |->
                 IF j[1] = "project" /\ j[2] \in DOMAIN settled' THEN "ok"
                 ELSE IF j \in Jobs(layout) THEN "waiting"
                 ELSE IF j[1] = "plan" THEN "ok" ELSE job[j]]
    /\ artifacts' = [artifacts EXCEPT ![<<"plan", None>>] =
                       {TestWord(<<t, None>>, settled'[t]) : t \in DOMAIN settled'}]
    /\ step' = "jobs"
    /\ UNCHANGED <<faults, layout, inputs, kept, label, onPr, accepted, pending, sections,
                   seen, conclusion, pushes, attempts, labels, found, everPassed, vouched>>

\* A plan that fails leaves the verdict job no shards to read: it fails too.
PlanFails ==
    /\ step = "plan"
    /\ step' = "done" /\ conclusion' = "red"
    /\ job' = [job EXCEPT ![<<"plan", None>>] = "failed"]
    /\ UNCHANGED <<faults, layout, inputs, kept, testAll, settled, artifacts, label, onPr, accepted,
                   pending, sections, seen, pushes, attempts, labels, found, everPassed, vouched>>

-----------------------------------------------------------------------------
(* The jobs.  One that ends uploads what it recorded, if the upload works; a  *)
(* record cut short while it was written is uploaded as it is.                *)

Fault == faults < MaxFaults /\ faults' = faults + 1

Delivers(j, recs, fine) ==
    \/ /\ artifacts' = [artifacts EXCEPT ![j] = recs]
       /\ job' = [job EXCEPT ![j] = IF fine THEN "ok" ELSE "failed"]
       /\ UNCHANGED faults
    \/ \E r \in recs :
          /\ Fault
          /\ artifacts' = [artifacts EXCEPT ![j] = (recs \ {r}) \cup {Unreadable(r)}]
          /\ job' = [job EXCEPT ![j] = IF fine THEN "ok" ELSE "failed"]
    \/ /\ Fault
       /\ job' = [job EXCEPT ![j] = "failed"]
       /\ UNCHANGED artifacts

Starts(j) ==
    /\ step = "jobs"
    /\ job[j] = "waiting"

\* A leg of the Rust gate records package after package, until it is done or
\* killed.  A gate that was killed may have printed nothing.
GateRust(s) ==
    LET j == <<"rust", s>>
    IN /\ j \in Jobs(layout) /\ Starts(j)
       /\ \E done \in SUBSET layout.packages : \E end \in [done -> Ends] :
             /\ Delivers(j, {Recorded(<<p, s>>, "rust", end[p], end[p] = "other", FALSE) : p \in done},
                         done = layout.packages /\ \A p \in done : end[p] \in {"zero", "nothing"})
             /\ found' = found \cup {<<<<p, s>>, end[p]>> : p \in done}
       /\ UNCHANGED <<planning, folding, label, labels, everPassed, vouched>>

\* An imported project's gate: the exit file says error until the gate itself
\* ended, whatever the benches before it did.
GateImport(i) ==
    LET j == <<"import", i>>
    IN /\ j \in Jobs(layout) /\ Starts(j)
       /\ \E end \in Ends :
             /\ Delivers(j, {Recorded(<<i, None>>, "import", end, FALSE, FALSE)},
                         end \in {"zero", "nothing"})
             /\ found' = found \cup {<<<<i, None>>, end>>}
       /\ UNCHANGED <<planning, folding, label, labels, everPassed, vouched>>

\* The docs check waits for the gates; it may have to leave claims unevaluated.
Docs ==
    LET j == <<"docs", None>>
    IN /\ j \in Jobs(layout) /\ Starts(j)
       /\ \A g \in Jobs(layout) : g[1] \in {"rust", "import"} => job[g] # "waiting"
       /\ \E end \in Ends \ {"nothing"}, skip \in BOOLEAN :
             /\ Delivers(j, {Recorded(<<DocsName, None>>, "docs", end, FALSE, skip)}, end = "zero")
             /\ found' = found \cup {<<<<DocsName, None>>, end>>}
       /\ UNCHANGED <<planning, folding, label, labels, everPassed, vouched>>

\* The Rust tests: a run that finished wrote its own result; of one that did
\* not, the exit file is recorded.
TestRust ==
    LET j == <<"test", None>>
        leg == <<TestName, None>>
    IN /\ j \in Jobs(layout) /\ Starts(j)
       /\ \/ \E word \in {"pass", "flaky", "failed"} :
                /\ Delivers(j, {TestWord(leg, word)}, word # "failed")
                /\ found' = found \cup {<<leg, IF word = "failed" THEN "one" ELSE "zero">>}
          \/ /\ Delivers(j, {Recorded(leg, "test", "other", FALSE, FALSE)}, FALSE)
             /\ found' = found \cup {<<leg, "other">>}
       /\ UNCHANGED <<planning, folding, label, labels, everPassed, vouched>>

\* Whether a run of a project's tests stores a pass.
Stores(word) == word = "pass"

\* A project's tests, in a job of their own: a pass, but no flaky one, is
\* stored, if its upload reaches the job that saves them.
TestProject(t) ==
    LET j == <<"project", t>>
        leg == <<t, None>>
    IN /\ j \in Jobs(layout) /\ Starts(j)
       /\ \/ \E word \in {"pass", "flaky", "failed"} :
                /\ Delivers(j, {TestWord(leg, word)}, word # "failed")
                /\ found' = found \cup {<<leg, IF word = "failed" THEN "one" ELSE "zero">>}
                /\ everPassed' = IF word = "pass" THEN everPassed \cup {<<t, inputs[t]>>} ELSE everPassed
                /\ \/ Stores(word) /\ kept' = kept \cup {<<t, inputs[t]>>}
                   \/ kept' = kept
          \/ /\ job' = [job EXCEPT ![j] = "failed"]
             /\ Fault
             /\ found' = found \cup {<<leg, "other">>}
             /\ UNCHANGED <<artifacts, kept, everPassed>>
       /\ UNCHANGED <<layout, inputs, testAll, settled, pushes, attempts, folding,
                      label, labels, vouched>>

\* A job ends without a word: cancelled, or its machine lost.
Lost(j) ==
    /\ j \in Jobs(layout) /\ Starts(j)
    /\ Fault
    /\ job' = [job EXCEPT ![j] = "failed"]
    /\ UNCHANGED <<planning, folding, artifacts, label, labels, found, everPassed, vouched>>

-----------------------------------------------------------------------------
(* The verdict job: it starts whatever became of the others.                 *)

Collect ==
    /\ step = "jobs"
    /\ \A j \in Jobs(layout) : job[j] # "waiting"
    /\ pending' = UNION {artifacts[j] : j \in AllJobs}
    /\ step' = "label"
    /\ UNCHANGED <<faults, planning, job, artifacts, label, labels, onPr, accepted, sections, seen,
                   conclusion, found, everPassed, vouched>>

\* The labels on the pull request, then who last applied the one that waives.
ReadLabel ==
    /\ step = "label"
    /\ onPr' = label.on
    /\ vouched' = (label.on /\ label.by \in Writers)
    /\ step' = IF label.on THEN "labeler" ELSE "fold"
    /\ UNCHANGED <<faults, planning, job, artifacts, label, labels, accepted, pending, sections, seen,
                   conclusion, found, everPassed>>

MayWaive(who) == who \in Writers

ReadLabeler ==
    /\ step = "labeler"
    /\ accepted' = (onPr /\ MayWaive(label.by))
    /\ step' = "fold"
    /\ UNCHANGED <<faults, planning, job, artifacts, label, labels, onPr, pending, sections, seen,
                   conclusion, found, everPassed, vouched>>

\* `verdict merge` folds the records in the order of their files' names, which
\* says nothing of what they hold: here, in any order.
Fold ==
    /\ step = "fold"
    /\ \E r \in pending :
          LET n == r.leg[1]
              sec == [kind |-> r.kind, verdict |-> r.verdict, tail |-> r.tail,
                      flaky |-> r.flaky, unevaluated |-> r.unevaluated]
          IN /\ pending' = pending \ {r}
             /\ seen' = seen \cup {r.leg}
             /\ sections' = [m \in DOMAIN sections \cup {n} |->
                               IF m # n THEN sections[m]
                               ELSE IF n \in DOMAIN sections THEN Absorb(sections[n], r)
                               ELSE sec]
    /\ UNCHANGED <<faults, planning, job, artifacts, label, labels, step, onPr, accepted, conclusion,
                   found, everPassed, vouched>>

\* Regressions fail unless a writer accepted them; an error never waives.
Fails(verdicts, waived) ==
    \/ "errored" \in verdicts
    \/ "regressed" \in verdicts /\ ~waived

\* What is expected and was not seen is a section of its own, errored.
Conclude ==
    LET missing == Expected(layout) \ seen
        verdicts == {sections[n].verdict : n \in DOMAIN sections}
                      \cup (IF missing = {} THEN {} ELSE {"errored"})
    IN /\ step = "fold" /\ pending = {}
       /\ conclusion' = IF Fails(verdicts, accepted) THEN "red" ELSE "green"
       /\ step' = "done"
       /\ UNCHANGED <<faults, planning, job, artifacts, label, labels, onPr, accepted, pending, sections,
                      seen, found, everPassed, vouched>>

VerdictLost ==
    /\ step \in {"label", "labeler", "fold"}
    /\ conclusion' = "lost" /\ step' = "done"
    /\ UNCHANGED <<faults, planning, job, artifacts, label, labels, onPr, accepted, pending, sections,
                   seen, found, everPassed, vouched>>

-----------------------------------------------------------------------------
(* GitHub and the people on the pull request.                                *)

\* When the label changes matters only to the steps that read it: a change at
\* any other moment is one made just before the next of them.
LabelRead == step \in {"label", "labeler"}

Label(u) ==
    /\ LabelRead
    /\ labels < layout.labels /\ labels' = labels + 1
    /\ ~label.on
    /\ label' = [on |-> TRUE, by |-> u]
    /\ vouched' = (vouched \/ u \in Writers)
    /\ UNCHANGED <<faults, planning, folding, job, artifacts, found, everPassed>>

Unlabel ==
    /\ LabelRead
    /\ labels < layout.labels /\ labels' = labels + 1
    /\ label.on
    /\ label' = [label EXCEPT !.on = FALSE]
    /\ UNCHANGED <<faults, planning, folding, job, artifacts, found, everPassed, vouched>>

\* "Re-run failed jobs": what they uploaded before stays until they upload
\* again; the docs check follows the gates, the verdict everything.
Rerun ==
    LET again == {j \in Jobs(layout) : job[j] = "failed"}
        gates == {j \in again : j[1] \in {"rust", "import"}}
        docs == {j \in Jobs(layout) : j[1] = "docs" /\ gates # {}}
        replan == job[<<"plan", None>>] = "failed"
    IN /\ step = "done" /\ conclusion # "green" /\ attempts < layout.attempts
       /\ attempts' = attempts + 1
       /\ job' = [j \in AllJobs |->
                    IF replan THEN "unplanned" ELSE IF j \in again \cup docs THEN "waiting" ELSE job[j]]
       /\ step' = IF replan THEN "plan" ELSE "jobs"
       /\ onPr' = FALSE /\ accepted' = FALSE /\ vouched' = FALSE
       /\ pending' = {} /\ sections' = NoSections /\ seen' = {} /\ conclusion' = None
       /\ UNCHANGED <<faults, layout, inputs, kept, testAll, settled, pushes, artifacts, label, labels,
                      found, everPassed>>

\* A push is a new run, of the repository as it now is.
Push ==
    /\ step = "done" /\ pushes < layout.pushes
    /\ pushes' = pushes + 1 /\ attempts' = 1
    /\ inputs' \in [layout.tests -> Contents]
    /\ job' = [j \in AllJobs |-> "unplanned"]
    /\ artifacts' = [j \in AllJobs |-> {}]
    /\ testAll' = FALSE /\ settled' = [t \in {} |-> None]
    /\ step' = "plan" /\ onPr' = FALSE /\ accepted' = FALSE /\ vouched' = FALSE
    /\ pending' = {} /\ sections' = NoSections /\ seen' = {} /\ conclusion' = None
    /\ found' = {}
    /\ UNCHANGED <<faults, layout, kept, label, labels, everPassed>>

Done ==
    /\ step = "done"
    /\ UNCHANGED verdictVars

RunJob ==
    \/ \E s \in UNION {ShardLegs(l) : l \in Layouts} : GateRust(s)
    \/ \E i \in UNION {l.imports : l \in Layouts} : GateImport(i)
    \/ \E t \in AllTests : TestProject(t)
    \/ \E j \in AllJobs : Lost(j)
    \/ Docs
    \/ TestRust

Judge == Collect \/ ReadLabel \/ ReadLabeler \/ Fold \/ Conclude \/ VerdictLost

VerdictNext ==
    \/ Plan \/ PlanFails \/ RunJob \/ Judge \/ Rerun \/ Push \/ Done
    \/ \E u \in Writers \cup Readers : Label(u)
    \/ Unlabel

VerdictSpec == VerdictInit /\ [][VerdictNext]_verdictVars

-----------------------------------------------------------------------------
Records ==
    [leg : Legs, kind : {"rust", "import", "docs", "test"}, verdict : Words,
     tail : {<<>>} \cup {<<l>> : l \in Legs}, flaky : BOOLEAN, unevaluated : BOOLEAN]

Tails == UNION {[1 .. n -> Legs \cup {<<l, "unreadable">> : l \in Legs}] : n \in 0 .. TailBlocks}

\* Types: jobs and their records, the verdict job's state, sections whose
\* output fits the lines a section keeps.
VerdictTypeOK ==
    /\ layout \in Layouts /\ inputs \in [layout.tests -> Contents]
    /\ kept \subseteq AllTests \X Contents
    /\ everPassed \subseteq AllTests \X Contents
    /\ testAll \in BOOLEAN /\ DOMAIN settled \subseteq layout.tests
    /\ \A t \in DOMAIN settled : settled[t] \in {"reused", "skipped"}
    /\ job \in [AllJobs -> {"unplanned", "waiting", "ok", "failed"}]
    /\ \A j \in AllJobs : \A r \in artifacts[j] :
          r \in Records \/ \E q \in Legs : r.leg = <<q, "unreadable">>
    /\ label \in [on : BOOLEAN, by : Writers \cup Readers \cup {None}]
    /\ step \in {"plan", "jobs", "label", "labeler", "fold", "done"}
    /\ {onPr, accepted, vouched} \subseteq BOOLEAN
    /\ \A n \in DOMAIN sections :
          sections[n].verdict \in Words /\ sections[n].tail \in Tails
    /\ conclusion \in {None, "green", "red", "lost"}
    /\ found \subseteq Legs \X Ends

\* What a leg was really found to be, in some attempt of this run.
Found(leg, ends) == \E e \in ends : <<leg, e>> \in found

\* A green check is earned: every leg the repository asks for really passed in
\* this run; or it is a gate that regressed while a writer's label was on, at
\* some moment of the verdict job; or, unless everything was to be tested, it is
\* a test the change does not reach or one that passed before on the very same
\* inputs.  Whatever was lost, killed, cut short or run again.
ConclusionIsEarned ==
    conclusion = "green" =>
        \A j \in Jobs(layout) : \A leg \in LegsOf(layout, j) :
            \/ Found(leg, {"zero", "nothing"})
            \/ j[1] \in {"rust", "import"} /\ Found(leg, {"one"}) /\ vouched
            \/ /\ j[1] = "project" /\ ~testAll
               /\ inputs[j[2]] = Base \/ <<j[2], inputs[j[2]]>> \in everPassed

Folded(n) == {r \in (UNION {artifacts[j] : j \in AllJobs}) \ pending : r.leg[1] = n}

\* The order of the files does not matter: a section has the worst of its
\* records' verdicts, is flaky or unevaluated if one of them is, and when a
\* record of that verdict has output, the last output it shows is one of theirs.
WorstDecides ==
    step = "fold" =>
        \A n \in DOMAIN sections :
            LET deciding == {r \in Folded(n) : r.verdict = sections[n].verdict}
                tail == sections[n].tail
            IN /\ deciding # {}
               /\ \A r \in Folded(n) : Rank[sections[n].verdict] <= Rank[r.verdict]
               /\ sections[n].flaky = (\E r \in Folded(n) : r.flaky)
               /\ sections[n].unevaluated = (\E r \in Folded(n) : r.unevaluated)
               /\ (\E r \in deciding : r.tail # <<>>)
                    => tail # <<>> /\ \E r \in deciding : r.tail # <<>> /\ tail[Len(tail)] = r.tail[1]

=============================================================================
