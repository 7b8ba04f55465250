---------------------------- MODULE GreenProofs ----------------------------
(* What green is worth.  First `cargo soothfast test', for any packages,       *)
(* links, executables and changes, as long as sources do not change under a    *)
(* round: a stored pass is one, and a round that does not fail ran, or may     *)
(* skip, all it selected.  Then the check of a pull request, for any layout    *)
(* whose names do not collide across kinds, and however many jobs are lost,    *)
(* pushes and labels come: a green one is earned, and the order in which the   *)
(* records are folded changes nothing of what they say.  Last `spec gate', for *)
(* any documents: what it lets through, merge after merge, serves whoever was  *)
(* built against an earlier one.                                               *)
EXTENDS Tests, Verdict, SpecGate, FiniteSetTheorems, SequenceTheorems, TLAPS

Codes == UNION {[S -> Versions] : S \in SUBSET Packages}

Memos ==
    [ws : Versions \cup {None}, files : [Packages -> (Versions \X Versions) \cup {None}],
     exes : [Bins -> Codes \cup {None}], tools : [Packages -> Codes \cup {None}]]

Phases == {"out", "todo", "keyed", "linked", "running", "ran", "done"}
Exits  == {None, "pass", "fail", "flaky"}

\* The repository: no version is newer than the last change.
RepoInv ==
    /\ src \in [Packages -> 0 .. edits] /\ data \in [Packages -> 0 .. edits]
    /\ ws \in 0 .. edits /\ edits \in Versions

TypeInv ==
    /\ RepoInv
    /\ exes \in [Bins -> Codes \cup {None}] /\ tools \in [Packages -> Codes \cup {None}]
    /\ \A b \in Bins : exes[b] = None \/ exes[b] \in [Links[b] -> Versions]
    /\ \A p \in Packages : tools[p] = None \/ tools[p] \in [ToolLinks[p] -> Versions]
    /\ stage \in {"idle", "selected", "built", "round", "over"}
    /\ cached \subseteq Bins
    /\ memo \in Memos
    /\ ph \in [Bins -> Phases]
    /\ planned = [b \in Bins |-> planned[b]]
    /\ status \in [Bins -> Exits] /\ exited \in [Bins -> Exits]

-----------------------------------------------------------------------------
LEMMA CodeType ==
  ASSUME RepoInv
  PROVE  /\ \A b \in Bins : Code(b) \in [Links[b] -> Versions] /\ Code(b) \in Codes
         /\ \A p \in Packages : ToolCode(p) \in [ToolLinks[p] -> Versions] /\ ToolCode(p) \in Codes
         /\ \A p \in Packages : Files(p) \in Versions \X Versions
         /\ ws \in Versions
<1>1. \A p \in Packages : src[p] \in Versions /\ data[p] \in Versions
  BY TestsAssumption DEF RepoInv, Versions
<1>2. ASSUME NEW b \in Bins PROVE Code(b) \in [Links[b] -> Versions] /\ Links[b] \in SUBSET Packages
  BY <1>1, TestsAssumption DEF Code
<1>3. ASSUME NEW p \in Packages
      PROVE  ToolCode(p) \in [ToolLinks[p] -> Versions] /\ ToolLinks[p] \in SUBSET Packages
  BY <1>1, TestsAssumption DEF ToolCode
<1> QED
  BY <1>1, <1>2, <1>3, TestsAssumption DEF Codes, Files, RepoInv, Versions

LEMMA RepoStep == RepoInv /\ [Next]_vars => RepoInv'
<1> SUFFICES ASSUME RepoInv, [Next]_vars PROVE RepoInv'
  OBVIOUS
<1>1. CASE UNCHANGED repo
  BY <1>1 DEF repo, RepoInv
<1>2. ASSUME NEW p \in Packages, EditSource(p) PROVE RepoInv'
  BY <1>2, TestsAssumption DEF EditSource, Edit, RepoInv, Versions
<1>3. ASSUME NEW p \in Packages, EditData(p) PROVE RepoInv'
  BY <1>3, TestsAssumption DEF EditData, Edit, RepoInv, Versions
<1>4. CASE EditWorkspace
  BY <1>4, TestsAssumption DEF EditWorkspace, Edit, RepoInv, Versions
<1>5. ASSUME NEW b \in Bins,
             Key(b) \/ KeyIgnoringPasses(b) \/ Link(b) \/ Start(b) \/ End(b) \/ Store(b) \/ Retry(b)
      PROVE  UNCHANGED repo
  BY <1>5 DEF Key, KeyIgnoringPasses, Link, Start, End, Store, Retry
<1>6. CASE Begin \/ Nothing \/ Build \/ BuildFails \/ StartKeyer \/ RunStep \/ Killed \/ Finish \/ Leave
  BY <1>1, <1>6 DEF Begin, Nothing, Build, BuildFails, StartKeyer, RunStep, Killed, Finish, Leave
<1>7. CASE UNCHANGED vars
  BY <1>1, <1>7 DEF vars
<1> QED
  BY <1>1, <1>2, <1>3, <1>4, <1>5, <1>6, <1>7 DEF Next

\* The keyer's digests after one more executable, and after a look at the files.
LEMMA RememberType ==
  ASSUME RepoInv, NEW b \in Bins, memo \in Memos, exes[b] \in Codes \cup {None},
         tools[PkgOf[b]] \in Codes \cup {None}
  PROVE  /\ Remember(memo, b) \in Memos /\ Remember(memo, b).ws = memo.ws
         /\ Remember(memo, b).files = [memo.files EXCEPT ![PkgOf[b]] = IF @ = None THEN Files(PkgOf[b]) ELSE @]
         /\ Remember(memo, b).tools = [memo.tools EXCEPT ![PkgOf[b]] = IF @ = None THEN tools[PkgOf[b]] ELSE @]
         /\ Remember(memo, b).exes = [memo.exes EXCEPT ![b] = IF @ = None THEN exes[b] ELSE @]
<1> DEFINE p == PkgOf[b]
           f == [memo.files EXCEPT ![p] = IF @ = None THEN Files(p) ELSE @]
           t == [memo.tools EXCEPT ![p] = IF @ = None THEN tools[p] ELSE @]
           e == [memo.exes EXCEPT ![b] = IF @ = None THEN exes[b] ELSE @]
           m1 == [memo EXCEPT !.files = f]
           m2 == [m1 EXCEPT !.tools = t]
           m3 == [m2 EXCEPT !.exes = e]
<1>1. p \in Packages /\ Files(p) \in Versions \X Versions
  BY CodeType, TestsAssumption
<1>2. /\ f \in [Packages -> (Versions \X Versions) \cup {None}]
      /\ t \in [Packages -> Codes \cup {None}] /\ e \in [Bins -> Codes \cup {None}]
  BY <1>1 DEF Memos
<1>3. Remember(memo, b) = m3
  BY <1>1, <1>2 DEF Remember, Memos
<1> HIDE DEF f, t, e
<1>4. m1 \in Memos /\ m1.ws = memo.ws /\ m1.files = f /\ m1.tools = memo.tools /\ m1.exes = memo.exes
  BY <1>2 DEF Memos
<1> HIDE DEF m1
<1>5. m2 \in Memos /\ m2.ws = memo.ws /\ m2.files = f /\ m2.tools = t /\ m2.exes = memo.exes
  BY <1>2, <1>4 DEF Memos
<1> HIDE DEF m2
<1>6. m3 \in Memos /\ m3.ws = memo.ws /\ m3.files = f /\ m3.tools = t /\ m3.exes = e
  BY <1>2, <1>5 DEF Memos
<1> QED
  BY <1>3, <1>6 DEF f, t, e

LEMMA AfreshType ==
  ASSUME RepoInv, NEW b \in Bins, memo \in Memos
  PROVE  /\ Afresh(memo, b) \in Memos /\ Afresh(memo, b).ws = ws
         /\ Afresh(memo, b).files = [memo.files EXCEPT ![PkgOf[b]] = Files(PkgOf[b])]
         /\ Afresh(memo, b).exes = memo.exes /\ Afresh(memo, b).tools = memo.tools
<1> DEFINE p == PkgOf[b]
           f == [memo.files EXCEPT ![p] = Files(p)]
           m1 == [memo EXCEPT !.ws = ws]
           m2 == [m1 EXCEPT !.files = f]
<1>1. p \in Packages /\ Files(p) \in Versions \X Versions /\ ws \in Versions
  BY CodeType, TestsAssumption
<1>2. f \in [Packages -> (Versions \X Versions) \cup {None}]
  BY <1>1 DEF Memos
<1>3. Afresh(memo, b) = m2
  BY <1>1, <1>2 DEF Afresh, Memos
<1> HIDE DEF f
<1>4. m1 \in Memos /\ m1.ws = ws /\ m1.files = memo.files /\ m1.tools = memo.tools /\ m1.exes = memo.exes
  BY <1>1, <1>2 DEF Memos
<1> HIDE DEF m1
<1>5. m2 \in Memos /\ m2.ws = ws /\ m2.files = f /\ m2.tools = memo.tools /\ m2.exes = memo.exes
  BY <1>2, <1>4 DEF Memos
<1> QED
  BY <1>3, <1>5 DEF f

LEMMA NoMemoType == ASSUME NEW w \in Versions PROVE NoMemo \in Memos /\ [NoMemo EXCEPT !.ws = w] \in Memos
                                   /\ [NoMemo EXCEPT !.ws = w].ws = w
                                   /\ [NoMemo EXCEPT !.ws = w].files = [p \in Packages |-> None]
                                   /\ [NoMemo EXCEPT !.ws = w].exes = [b \in Bins |-> None]
                                   /\ [NoMemo EXCEPT !.ws = w].tools = [p \in Packages |-> None]
<1> DEFINE m == NoMemo
<1>1. /\ m \in Memos /\ m.files = [p \in Packages |-> None] /\ m.exes = [b \in Bins |-> None]
      /\ m.tools = [p \in Packages |-> None]
  BY DEF NoMemo, Memos
<1> HIDE DEF m
<1>2. /\ [m EXCEPT !.ws = w] \in Memos /\ [m EXCEPT !.ws = w].ws = w
      /\ [m EXCEPT !.ws = w].files = m.files /\ [m EXCEPT !.ws = w].exes = m.exes
      /\ [m EXCEPT !.ws = w].tools = m.tools
  BY <1>1 DEF Memos
<1> QED
  BY <1>1, <1>2 DEF m

LEMMA TypeStep == TypeInv /\ [Next]_vars => TypeInv'
<1> SUFFICES ASSUME TypeInv, [Next]_vars PROVE TypeInv'
  OBVIOUS
<1>1. RepoInv /\ RepoInv'
  BY RepoStep DEF TypeInv
<1>2. \A b \in Bins : PkgOf[b] \in Packages
  BY TestsAssumption
<1>3. CASE UNCHANGED vars
  BY <1>1, <1>3 DEF vars, round, TypeInv
<1>4. CASE Begin
  BY <1>1, <1>4 DEF Begin, TypeInv
<1>5. CASE Nothing \/ BuildFails \/ Finish
  BY <1>1, <1>5 DEF Nothing, BuildFails, Finish, round, TypeInv
<1>6. CASE Build
  <2>1. /\ exes' \in [Bins -> Codes \cup {None}] /\ tools' \in [Packages -> Codes \cup {None}]
        /\ \A b \in Bins : exes'[b] = None \/ exes'[b] \in [Links[b] -> Versions]
        /\ \A p \in Packages : tools'[p] = None \/ tools'[p] \in [ToolLinks[p] -> Versions]
    BY <1>1, <1>6, CodeType DEF Build, TypeInv
  <2> QED
    BY <1>1, <1>6, <2>1 DEF Build, round, TypeInv, Phases
<1>7. CASE StartKeyer
  BY <1>1, <1>7, CodeType, NoMemoType DEF StartKeyer, round, TypeInv
<1>8. ASSUME NEW b \in Bins, Key(b) \/ KeyIgnoringPasses(b) PROVE TypeInv'
  <2>1. Remember(memo, b) \in Memos
    BY <1>1, <1>2, RememberType DEF TypeInv
  <2> QED
    BY <1>1, <1>8, <2>1 DEF Key, KeyIgnoringPasses, round, TypeInv, Phases
<1>9. CASE RunStep
  <2>1. /\ exes' \in [Bins -> Codes \cup {None}] /\ tools' \in [Packages -> Codes \cup {None}]
        /\ \A b \in Bins : exes'[b] = None \/ exes'[b] \in [Links[b] -> Versions]
        /\ \A p \in Packages : tools'[p] = None \/ tools'[p] \in [ToolLinks[p] -> Versions]
    BY <1>1, <1>9, CodeType DEF RunStep, TypeInv
  <2> QED
    BY <1>1, <1>9, <2>1 DEF RunStep, round, TypeInv, Phases
<1>10. ASSUME NEW b \in Bins, Link(b) PROVE TypeInv'
  <2>1. /\ exes' \in [Bins -> Codes \cup {None}] /\ tools' \in [Packages -> Codes \cup {None}]
        /\ \A c \in Bins : exes'[c] = None \/ exes'[c] \in [Links[c] -> Versions]
        /\ \A p \in Packages : tools'[p] = None \/ tools'[p] \in [ToolLinks[p] -> Versions]
    BY <1>1, <1>2, <1>10, CodeType DEF Link, TypeInv
  <2> QED
    BY <1>1, <1>10, <2>1 DEF Link, round, TypeInv, Phases
<1>11. ASSUME NEW b \in Bins, Start(b) \/ End(b) \/ Retry(b) PROVE TypeInv'
  <2>1. CASE Start(b)
    BY <1>1, <2>1 DEF Start, round, TypeInv, Phases
  <2>2. CASE End(b)
    <3>1. ph' \in [Bins -> Phases] /\ exited' \in [Bins -> Exits] /\ status' \in [Bins -> Exits]
      BY <2>2 DEF End, Status, TypeInv, Phases, Exits
    <3> QED
      BY <1>1, <2>2, <3>1 DEF End, round, TypeInv
  <2>3. CASE Retry(b)
    BY <1>1, <2>3 DEF Retry, round, TypeInv, Exits
  <2> QED
    BY <1>11, <2>1, <2>2, <2>3
<1>12. ASSUME NEW b \in Bins, Store(b) PROVE TypeInv'
  <2>1. memo' \in Memos
    BY <1>1, <1>12, AfreshType DEF Store, TypeInv
  <2> QED
    BY <1>1, <1>12, <2>1 DEF Store, round, TypeInv, Phases
<1>13. CASE Killed
  <2>1. ph' \in [Bins -> Phases] /\ exited' \in [Bins -> Exits]
    BY <1>13 DEF Killed, TypeInv, Phases, Exits
  <2> QED
    BY <1>1, <1>13, <2>1 DEF Killed, round, TypeInv
<1>14. CASE Leave
  <2>1. memo' \in Memos
    BY <1>1, <1>14, NoMemoType, CodeType DEF Leave
  <2>2. stage' = "idle" /\ cached' = {} /\ UNCHANGED <<exes, tools>>
    BY <1>14 DEF Leave
  <2>3. /\ ph' = [b \in Bins |-> "out"] /\ planned' = [b \in Bins |-> None]
        /\ status' = [b \in Bins |-> None] /\ exited' = [b \in Bins |-> None]
    BY <1>14 DEF Leave
  <2>4. ph' \in [Bins -> Phases] /\ status' \in [Bins -> Exits] /\ exited' \in [Bins -> Exits]
    BY <2>3 DEF Phases, Exits
  <2> QED
    BY <1>1, <2>1, <2>2, <2>3, <2>4 DEF TypeInv
<1>15. CASE (\E p \in Packages : EditSource(p) \/ EditData(p)) \/ EditWorkspace
  BY <1>1, <1>15 DEF EditSource, EditData, EditWorkspace, Edit, round, TypeInv
<1> QED
  BY <1>3, <1>4, <1>5, <1>6, <1>7, <1>8, <1>9, <1>10, <1>11, <1>12, <1>13, <1>14, <1>15 DEF Next

-----------------------------------------------------------------------------
(* Where a round is, and what is known of each executable by then.            *)

StageInv ==
    /\ stage \in {"idle", "selected"} => \A b \in Bins : ph[b] = "out"
    /\ stage = "built" => \A b \in Bins : ph[b] \in {"out", "todo"}
    /\ stage = "over" => \A b \in Bins : ph[b] \in {"out", "done"}
    /\ stage \in {"built", "round"} => \A b \in Bins : ph[b] # "out" <=> PkgOf[b] \in selected
    /\ stage # "over" => outcome = None

StatusInv ==
    \A b \in Bins :
        /\ ph[b] \in {"out", "todo", "keyed", "linked", "running"} => status[b] = None /\ exited[b] = None
        /\ status[b] \in {"pass", "flaky"} => exited[b] = status[b]
        /\ b \in cached => /\ ph[b] = "done" \/ (ph[b] = "keyed" /\ shim)
                           /\ status[b] = None /\ exited[b] = None

LEMMA StageStep == TypeInv /\ StageInv /\ [Next]_vars => StageInv'
<1> SUFFICES ASSUME TypeInv, StageInv, [Next]_vars PROVE StageInv'
  OBVIOUS
<1>1. CASE UNCHANGED vars
  BY <1>1 DEF vars, round, StageInv
<1>2. CASE Begin \/ Nothing \/ BuildFails \/ StartKeyer \/ Leave
  BY <1>2 DEF Begin, Nothing, BuildFails, StartKeyer, Leave, round, StageInv
<1>3. CASE Build
  BY <1>3 DEF Build, round, StageInv
<1>4. CASE Finish
  BY <1>4 DEF Finish, In, round, StageInv, TypeInv
<1>5. ASSUME NEW b \in Bins, Key(b) \/ KeyIgnoringPasses(b) \/ Link(b) \/ Store(b) \/ Retry(b) PROVE StageInv'
  BY <1>5 DEF Key, KeyIgnoringPasses, Link, Store, Retry, Turn, round, StageInv, TypeInv
<1>6. ASSUME NEW b \in Bins, Start(b) \/ End(b) PROVE StageInv'
  BY <1>6 DEF Start, End, round, StageInv, TypeInv
<1>7. CASE RunStep \/ Killed
  BY <1>7 DEF RunStep, Killed, round, StageInv, TypeInv
<1>8. CASE (\E p \in Packages : EditSource(p) \/ EditData(p)) \/ EditWorkspace
  BY <1>8 DEF EditSource, EditData, EditWorkspace, Edit, round, StageInv
<1> QED
  BY <1>1, <1>2, <1>3, <1>4, <1>5, <1>6, <1>7, <1>8 DEF Next

LEMMA StatusStep == TypeInv /\ StageInv /\ StatusInv /\ [Next]_vars => StatusInv'
<1> SUFFICES ASSUME TypeInv, StageInv, StatusInv, [Next]_vars PROVE StatusInv'
  OBVIOUS
<1>1. CASE UNCHANGED vars
  BY <1>1 DEF vars, round, StatusInv
<1>2. CASE Begin \/ Nothing \/ BuildFails \/ StartKeyer \/ Finish
  BY <1>2 DEF Begin, Nothing, BuildFails, StartKeyer, Finish, round, StageInv, StatusInv
<1>3. CASE Leave \/ Build
  BY <1>3, NoneAssumption DEF Leave, Build, round, StageInv, StatusInv
<1>4. ASSUME NEW b \in Bins, Key(b) \/ KeyIgnoringPasses(b) PROVE StatusInv'
  BY <1>4 DEF Key, KeyIgnoringPasses, round, StatusInv, TypeInv
<1>5. ASSUME NEW b \in Bins, Link(b) \/ Start(b) \/ Store(b) PROVE StatusInv'
  BY <1>5 DEF Link, Start, Store, round, StatusInv, TypeInv
<1>6. ASSUME NEW b \in Bins, End(b) PROVE StatusInv'
  BY <1>6, NoneAssumption DEF End, Status, round, StatusInv, TypeInv
<1>7. ASSUME NEW b \in Bins, Retry(b) PROVE StatusInv'
  BY <1>7, NoneAssumption DEF Retry, Failed, round, StatusInv, TypeInv
<1>8. CASE RunStep
  BY <1>8 DEF RunStep, round, StatusInv, TypeInv
<1>9. CASE Killed
  BY <1>9, NoneAssumption DEF Killed, round, StatusInv, TypeInv
<1>10. CASE (\E p \in Packages : EditSource(p) \/ EditData(p)) \/ EditWorkspace
  BY <1>10 DEF EditSource, EditData, EditWorkspace, Edit, round, StatusInv
<1> QED
  BY <1>1, <1>2, <1>3, <1>4, <1>5, <1>6, <1>7, <1>8, <1>9, <1>10 DEF Next

-----------------------------------------------------------------------------
(* What is linked and digested in a round is of the sources it began with.    *)

LinkInv ==
    stage \in {"built", "round"} =>
        /\ \A b \in Bins : ph[b] # "out" => exes[b] = Code(b)
        /\ \A p \in Packages : p \in selected => tools[p] = ToolCode(p)

MemoInv ==
    stage = "round" =>
        /\ memo.ws \in 0 .. ws
        /\ \A p \in Packages : \/ memo.files[p] = None
                               \/ \E d \in 0 .. data[p] : memo.files[p] = <<src[p], d>>
        /\ \A b \in Bins : memo.exes[b] = None \/ memo.exes[b] = Code(b)
        /\ \A p \in Packages : memo.tools[p] = None \/ memo.tools[p] = ToolCode(p)

\* Without an edit of the sources, linking again gives the same code.
LEMMA SameCode ==
  ASSUME UNCHANGED src
  PROVE  /\ \A b \in Bins : Code(b)' = Code(b)
         /\ \A p \in Packages : ToolCode(p)' = ToolCode(p)
  BY DEF Code, ToolCode

LEMMA LinkStep == TypeInv /\ StageInv /\ LinkInv /\ ~EditsWhileRunning /\ [Next]_vars => LinkInv'
<1> SUFFICES ASSUME TypeInv, StageInv, LinkInv, ~EditsWhileRunning, [Next]_vars PROVE LinkInv'
  OBVIOUS
<1>1. CASE UNCHANGED vars
  BY <1>1, SameCode DEF vars, repo, round, LinkInv
<1>2. CASE Begin \/ Nothing \/ BuildFails \/ Finish \/ Leave
  BY <1>2 DEF Begin, Nothing, BuildFails, Finish, Leave, LinkInv
<1>3. CASE Build
  <2>1. UNCHANGED src /\ selected' = selected
    BY <1>3 DEF Build, repo, round
  <2> QED
    BY <1>3, <2>1, SameCode DEF Build, LinkInv
<1>4. CASE StartKeyer
  BY <1>4, SameCode DEF StartKeyer, repo, round, LinkInv
<1>5. ASSUME NEW b \in Bins, Key(b) \/ KeyIgnoringPasses(b) PROVE LinkInv'
  BY <1>5, SameCode DEF Key, KeyIgnoringPasses, repo, round, LinkInv, TypeInv
<1>6. ASSUME NEW b \in Bins, Start(b) \/ End(b) \/ Store(b) \/ Retry(b) PROVE LinkInv'
  BY <1>6, SameCode DEF Start, End, Store, Retry, repo, round, LinkInv, TypeInv
<1>7. ASSUME NEW b \in Bins, Link(b) PROVE LinkInv'
  <2>1. UNCHANGED src /\ selected' = selected
    BY <1>7 DEF Link, repo, round
  <2> QED
    BY <1>7, <2>1, SameCode DEF Link, LinkInv, TypeInv
<1>8. CASE RunStep
  <2>1. UNCHANGED src /\ selected' = selected
    BY <1>8 DEF RunStep, repo, round
  <2> QED
    BY <1>8, <2>1, SameCode DEF RunStep, LinkInv, TypeInv
<1>9. CASE Killed
  BY <1>9, SameCode DEF Killed, repo, round, LinkInv, TypeInv
<1>10. ASSUME NEW p \in Packages, EditSource(p) PROVE LinkInv'
  BY <1>10 DEF EditSource, Edit, LinkInv
<1>11. CASE (\E p \in Packages : EditData(p)) \/ EditWorkspace
  BY <1>11, SameCode DEF EditData, EditWorkspace, Edit, round, LinkInv
<1> QED
  BY <1>1, <1>2, <1>3, <1>4, <1>5, <1>6, <1>7, <1>8, <1>9, <1>10, <1>11 DEF Next

\* What keying an executable finds or adds: its key is of the code linked and of
\* files and a workspace no newer than the ones there.
At(b, d, w) == KeyOf(b, Code(b), ToolCode(PkgOf[b]), <<src[PkgOf[b]], d>>, w)

LEMMA KeyedAt ==
  ASSUME TypeInv, StageInv, LinkInv, MemoInv, NEW b \in Bins, stage = "round", ph[b] = "todo"
  PROVE  LET m == Remember(memo, b)
         IN /\ m.ws = memo.ws
            /\ \A p \in Packages : \/ m.files[p] = None
                                   \/ \E d \in 0 .. data[p] : m.files[p] = <<src[p], d>>
            /\ \A c \in Bins : m.exes[c] = None \/ m.exes[c] = Code(c)
            /\ \A p \in Packages : m.tools[p] = None \/ m.tools[p] = ToolCode(p)
            /\ \E d \in 0 .. data[PkgOf[b]], w \in 0 .. ws : KeyFrom(m, b) = At(b, d, w)
<1> DEFINE m == Remember(memo, b)
           q == PkgOf[b]
<1>1. RepoInv /\ memo \in Memos /\ q \in Packages
  BY TestsAssumption DEF TypeInv
<1>2. /\ m.ws = memo.ws
      /\ m.files = [memo.files EXCEPT ![q] = IF @ = None THEN Files(q) ELSE @]
      /\ m.tools = [memo.tools EXCEPT ![q] = IF @ = None THEN tools[q] ELSE @]
      /\ m.exes = [memo.exes EXCEPT ![b] = IF @ = None THEN exes[b] ELSE @]
  BY <1>1, RememberType DEF TypeInv
<1> HIDE DEF m
<1>3. /\ memo.files = [p \in Packages |-> memo.files[p]]
      /\ memo.tools = [p \in Packages |-> memo.tools[p]]
      /\ memo.exes = [c \in Bins |-> memo.exes[c]]
  BY <1>1 DEF Memos
<1>4. exes[b] = Code(b) /\ tools[q] = ToolCode(q)
  BY <1>1 DEF StageInv, LinkInv
<1>5. data[q] \in 0 .. data[q] /\ Files(q) = <<src[q], data[q]>>
  BY <1>1 DEF RepoInv, Versions, Files
<1>6. \A p \in Packages : \/ m.files[p] = None
                          \/ \E d \in 0 .. data[p] : m.files[p] = <<src[p], d>>
  BY <1>1, <1>2, <1>3, <1>5 DEF MemoInv
<1>7. \A c \in Bins : m.exes[c] = None \/ m.exes[c] = Code(c)
  BY <1>1, <1>2, <1>3, <1>4 DEF MemoInv
<1>8. \A p \in Packages : m.tools[p] = None \/ m.tools[p] = ToolCode(p)
  BY <1>1, <1>2, <1>3, <1>4 DEF MemoInv
<1>9. \E d \in 0 .. data[q], w \in 0 .. ws : KeyFrom(m, b) = At(b, d, w)
  <2>1. m.exes[b] = Code(b) /\ m.tools[q] = ToolCode(q)
    BY <1>1, <1>2, <1>3, <1>4 DEF MemoInv
  <2>2. PICK d \in 0 .. data[q] : m.files[q] = <<src[q], d>>
    BY <1>1, <1>2, <1>3, <1>5 DEF MemoInv
  <2>3. m.ws \in 0 .. ws
    BY <1>2 DEF MemoInv
  <2> QED
    BY <2>1, <2>2, <2>3 DEF KeyFrom, At
<1> QED
  BY <1>2, <1>6, <1>7, <1>8, <1>9 DEF m

\* Versions of the data and of the workspace's files only grow.
LEMMA Grows ==
  ASSUME TypeInv, [Next]_vars
  PROVE  /\ \A p \in Packages : data[p] \in 0 .. data'[p]
         /\ ws \in 0 .. ws'
         /\ \A p \in Packages : data[p] \in Nat /\ data'[p] \in Nat
         /\ ws \in Nat /\ ws' \in Nat
<1>1. RepoInv /\ RepoInv'
  BY RepoStep DEF TypeInv
<1>2. CASE UNCHANGED <<data, ws>>
  BY <1>1, <1>2 DEF RepoInv, Versions
<1>3. ASSUME NEW p \in Packages, EditData(p)
      PROVE  UNCHANGED ws /\ \A q \in Packages : data[q] \in 0 .. data'[q]
  BY <1>1, <1>3 DEF EditData, Edit, RepoInv, Versions
<1>4. ASSUME EditWorkspace PROVE UNCHANGED data /\ ws \in 0 .. ws'
  BY <1>1, <1>4 DEF EditWorkspace, Edit, RepoInv, Versions
<1>5. ASSUME NEW b \in Bins,
             Key(b) \/ KeyIgnoringPasses(b) \/ Link(b) \/ Start(b) \/ End(b) \/ Store(b) \/ Retry(b)
      PROVE  UNCHANGED <<data, ws>>
  BY <1>5 DEF Key, KeyIgnoringPasses, Link, Start, End, Store, Retry, repo
<1>6. ASSUME Begin \/ Nothing \/ Build \/ BuildFails \/ StartKeyer \/ RunStep \/ Killed \/ Finish \/ Leave
      PROVE  UNCHANGED <<data, ws>>
  BY <1>6 DEF Begin, Nothing, Build, BuildFails, StartKeyer, RunStep, Killed, Finish, Leave, repo
<1>7. ASSUME NEW p \in Packages, EditSource(p) PROVE UNCHANGED <<data, ws>>
  BY <1>7 DEF EditSource
<1>8. ASSUME UNCHANGED vars PROVE UNCHANGED <<data, ws>>
  BY <1>8 DEF vars, repo
<1>9. (\A p \in Packages : data[p] \in 0 .. data'[p]) /\ ws \in 0 .. ws'
  <2>1. \/ UNCHANGED <<data, ws>> \/ (\E p \in Packages : EditData(p)) \/ EditWorkspace
    BY <1>5, <1>6, <1>7, <1>8 DEF Next
  <2>2. /\ \A p \in Packages : data[p] \in 0 .. data[p]
        /\ ws \in 0 .. ws
    BY <1>1 DEF RepoInv, Versions
  <2> QED
    BY <1>2, <1>3, <1>4, <2>1, <2>2
<1> QED
  BY <1>1, <1>9 DEF RepoInv, Versions

\* A round's sources stay.
LEMMA SourcesStay ==
  ASSUME [Next]_vars, ~EditsWhileRunning, stage # "idle" PROVE UNCHANGED src
<1>1. ASSUME NEW b \in Bins,
             Key(b) \/ KeyIgnoringPasses(b) \/ Link(b) \/ Start(b) \/ End(b) \/ Store(b) \/ Retry(b)
      PROVE  UNCHANGED src
  BY <1>1 DEF Key, KeyIgnoringPasses, Link, Start, End, Store, Retry, repo
<1>2. ASSUME Begin \/ Nothing \/ Build \/ BuildFails \/ StartKeyer \/ RunStep \/ Killed \/ Finish \/ Leave
      PROVE  UNCHANGED src
  BY <1>2 DEF Begin, Nothing, Build, BuildFails, StartKeyer, RunStep, Killed, Finish, Leave, repo
<1>3. ASSUME NEW p \in Packages, EditSource(p) \/ EditData(p) PROVE UNCHANGED src
  BY <1>3 DEF EditSource, EditData
<1> QED
  BY <1>1, <1>2, <1>3 DEF Next, EditWorkspace, vars, repo

LEMMA MemoStep ==
  TypeInv /\ StageInv /\ LinkInv /\ MemoInv /\ ~EditsWhileRunning /\ [Next]_vars => MemoInv'
<1> SUFFICES ASSUME TypeInv, StageInv, LinkInv, MemoInv, ~EditsWhileRunning, [Next]_vars PROVE MemoInv'
  OBVIOUS
<1> USE Grows
<1>1. RepoInv /\ RepoInv' /\ memo \in Memos
  BY RepoStep DEF TypeInv
<1>2. ASSUME stage = "round", memo' = memo PROVE MemoInv'
  <2>1. UNCHANGED src
    BY <1>2, SourcesStay
  <2>2. memo.ws \in 0 .. ws'
    BY <1>2 DEF MemoInv
  <2>3. ASSUME NEW p \in Packages, memo.files[p] # None
        PROVE  \E d \in 0 .. data'[p] : memo.files[p] = <<src[p], d>>
    <3>1. PICK d \in 0 .. data[p] : memo.files[p] = <<src[p], d>>
      BY <1>2, <2>3 DEF MemoInv
    <3>2. d \in 0 .. data'[p]
      BY <3>1
    <3> QED
      BY <3>1, <3>2
  <2> QED
    BY <1>2, <2>1, <2>2, <2>3, SameCode DEF MemoInv
<1>3. ASSUME stage' # "round" PROVE MemoInv'
  BY <1>3 DEF MemoInv
<1>4. CASE StartKeyer
  <2>1. /\ memo'.ws = ws /\ memo'.files = [p \in Packages |-> None]
        /\ memo'.exes = [b \in Bins |-> None] /\ memo'.tools = [p \in Packages |-> None]
    BY <1>4, <1>1, CodeType, NoMemoType DEF StartKeyer
  <2> QED
    BY <1>4, <2>1 DEF StartKeyer, repo, MemoInv
<1>5. ASSUME NEW b \in Bins, Key(b) \/ KeyIgnoringPasses(b) PROVE MemoInv'
  <2>1. stage = "round" /\ ph[b] = "todo" /\ memo' = Remember(memo, b) /\ UNCHANGED <<src, data, ws>>
    BY <1>5 DEF Key, KeyIgnoringPasses, Turn, repo
  <2> QED
    BY <2>1, KeyedAt, SameCode DEF MemoInv
<1>6. ASSUME NEW b \in Bins, Store(b) PROVE MemoInv'
  <2>1. stage = "round" /\ UNCHANGED <<src, data, ws>>
    BY <1>6 DEF Store, Turn, repo
  <2>2. CASE memo' = memo
    BY <1>2, <2>1, <2>2
  <2>3. CASE memo' = Afresh(memo, b)
    <3>1. /\ memo'.ws = ws /\ memo'.exes = memo.exes /\ memo'.tools = memo.tools
          /\ memo'.files = [memo.files EXCEPT ![PkgOf[b]] = Files(PkgOf[b])]
      BY <1>1, <2>3, AfreshType
    <3>2. memo.files = [p \in Packages |-> memo.files[p]]
      BY <1>1 DEF Memos
    <3>3. ASSUME NEW p \in Packages
          PROVE  memo'.files[p] = None \/ \E d \in 0 .. data[p] : memo'.files[p] = <<src[p], d>>
      <4>1. CASE p = PkgOf[b]
        <5>1. memo'.files[p] = <<src[p], data[p]>> /\ data[p] \in 0 .. data[p]
          BY <3>1, <3>2, <4>1 DEF Files
        <5> QED
          BY <5>1
      <4>2. CASE p # PkgOf[b]
        BY <2>1, <3>1, <3>2, <4>2 DEF MemoInv
      <4> QED
        BY <4>1, <4>2
    <3>4. memo'.ws \in 0 .. ws'
      BY <2>1, <3>1
    <3> QED
      BY <2>1, <3>1, <3>3, <3>4, SameCode DEF MemoInv
  <2> QED
    BY <1>6, <2>2, <2>3 DEF Store
<1>7. CASE Begin \/ Nothing \/ Build \/ BuildFails \/ Finish \/ Leave
  BY <1>3, <1>7 DEF Begin, Nothing, Build, BuildFails, Finish, Leave
<1>8. ASSUME \/ UNCHANGED vars \/ RunStep \/ Killed \/ EditWorkspace
             \/ \E p \in Packages : EditSource(p) \/ EditData(p)
             \/ \E b \in Bins : Link(b) \/ Start(b) \/ End(b) \/ Retry(b)
      PROVE  memo' = memo /\ stage' = stage
  BY <1>8 DEF vars, RunStep, Killed, EditWorkspace, EditSource, EditData, Edit, Link, Start, End, Retry
<1> QED
  BY <1>2, <1>3, <1>4, <1>5, <1>6, <1>7, <1>8 DEF Next

-----------------------------------------------------------------------------
(* Keys: an executable runs on what its key says or on something newer, and   *)
(* at most one runs.                                                          *)

\* b's key, and that it is of the versions d and w.
KeyedWith(b, d, w) ==
    d \in 0 .. data[PkgOf[b]] /\ w \in 0 .. ws /\ planned[b] = At(b, d, w)

Older(b, d, w) == d < data[PkgOf[b]] \/ w < ws

KeyOk(b) ==
    /\ ph[b] \in {"keyed", "linked", "running", "ran"} => \E d, w \in Nat : KeyedWith(b, d, w)
    /\ ph[b] = "running" =>
          \E d, w \in Nat : /\ KeyedWith(b, d, w)
                            /\ \E e \in d .. data[PkgOf[b]], v \in w .. ws : started = At(b, e, v)
    /\ ph[b] = "ran" /\ status[b] = "pass" =>
          planned[b] \in proved \/ \E d, w \in Nat : KeyedWith(b, d, w) /\ Older(b, d, w)
    /\ b \in cached => planned[b] \in proved

KeyInv == \A b \in Bins : KeyOk(b)

EarnedInv == passes \subseteq proved

\* Different versions have different keys, and no key is None.
LEMMA KeysDiffer ==
  ASSUME TypeInv, NEW b \in Bins, NEW d \in 0 .. data[PkgOf[b]], NEW w \in 0 .. ws
  PROVE  /\ At(b, d, w) # None
         /\ \A e, v : At(b, d, w) = At(b, e, v) => d = e /\ w = v
         /\ \A c \in Bins : \A e, v : At(b, d, w) = At(c, e, v) => b = c
<1>1. RepoInv /\ PkgOf[b] \in Packages
  BY TestsAssumption DEF TypeInv
<1>2. /\ Code(b) \in [Links[b] -> Versions]
      /\ ToolCode(PkgOf[b]) \in [ToolLinks[PkgOf[b]] -> Versions]
      /\ src[PkgOf[b]] \in Versions /\ d \in Versions /\ w \in Versions
  BY <1>1, CodeType, TestsAssumption DEF RepoInv, Versions
<1>3. At(b, d, w) # None
  BY <1>2, NoneAssumption DEF At, KeyOf, Versions
<1>4. \A e, v : At(b, d, w) = At(b, e, v) => d = e /\ w = v
  BY DEF At, KeyOf
<1>5. \A c \in Bins : \A e, v : At(b, d, w) = At(c, e, v) => b = c
  BY DEF At, KeyOf
<1> QED
  BY <1>3, <1>4, <1>5

\* A key stays one of an older or the same version while the repository changes.
LEMMA KeyStays ==
  ASSUME TypeInv, [Next]_vars, UNCHANGED src, NEW b \in Bins, planned'[b] = planned[b],
         NEW d \in Nat, NEW w \in Nat, KeyedWith(b, d, w)
  PROVE  KeyedWith(b, d, w)' /\ (Older(b, d, w) => Older(b, d, w)')
<1>1. PkgOf[b] \in Packages
  BY TestsAssumption
<1>2. At(b, d, w)' = At(b, d, w)
  BY <1>1, SameCode DEF At, KeyOf
<1> QED
  BY <1>1, <1>2, Grows DEF KeyedWith, Older

\* What is linked when it starts is newer than its key, or the same.
LEMMA StartsNewer ==
  ASSUME TypeInv, StageInv, LinkInv, NEW b \in Bins, stage = "round", ph[b] # "out"
  PROVE  Now(b) = At(b, data[PkgOf[b]], ws)
<1>1. PkgOf[b] \in Packages
  BY TestsAssumption
<1> QED
  BY <1>1 DEF StageInv, LinkInv, Now, At, Files

\* Executables run in a round only.
LEMMA RoundOnly ==
  ASSUME StageInv, TypeInv, NEW b \in Bins,
         ph[b] \in {"keyed", "linked", "running", "ran"}
  PROVE  stage = "round"
  BY DEF StageInv, TypeInv

\* A step that leaves b's phase, key, verdict and start alone.
LEMMA KeyFrame ==
  ASSUME TypeInv, StageInv, KeyInv, ~EditsWhileRunning, [Next]_vars, NEW b \in Bins,
         ph'[b] = ph[b], planned'[b] = planned[b], status'[b] = status[b] \/ ph[b] # "ran",
         ph[b] = "running" => started' = started, proved \subseteq proved',
         b \in cached' => b \in cached
  PROVE  KeyOk(b)'
<1>1. ASSUME ph[b] \in {"keyed", "linked", "running", "ran"} PROVE UNCHANGED src
  BY <1>1, RoundOnly, SourcesStay
<1>2. ASSUME ph[b] \in {"keyed", "linked", "running", "ran"}
      PROVE  (\E d, w \in Nat : KeyedWith(b, d, w))'
  <2>1. PICK d, w \in Nat : KeyedWith(b, d, w)
    BY <1>2 DEF KeyInv, KeyOk
  <2> QED
    BY <1>1, <1>2, <2>1, KeyStays
<1>3. ASSUME ph[b] = "running"
      PROVE  (\E d, w \in Nat : /\ KeyedWith(b, d, w)
                                /\ \E e \in d .. data[PkgOf[b]], v \in w .. ws : started = At(b, e, v))'
  <2>1. PICK d, w \in Nat : /\ KeyedWith(b, d, w)
                            /\ \E e \in d .. data[PkgOf[b]], v \in w .. ws : started = At(b, e, v)
    BY <1>3 DEF KeyInv, KeyOk
  <2>2. PICK e \in d .. data[PkgOf[b]], v \in w .. ws : started = At(b, e, v)
    BY <2>1
  <2>3. KeyedWith(b, d, w)'
    BY <1>1, <1>3, <2>1, KeyStays
  <2>4. PkgOf[b] \in Packages /\ UNCHANGED src
    BY <1>1, <1>3, TestsAssumption
  <2>5. e \in d .. data'[PkgOf[b]] /\ v \in w .. ws'
    BY <2>4, Grows
  <2>6. At(b, e, v)' = At(b, e, v) /\ started' = started
    BY <1>3, <2>4, SameCode DEF At, KeyOf
  <2> QED
    BY <2>2, <2>3, <2>5, <2>6
<1>4. ASSUME ph[b] = "ran", status'[b] = "pass"
      PROVE  (planned[b] \in proved \/ \E d, w \in Nat : KeyedWith(b, d, w) /\ Older(b, d, w))'
  <2>1. CASE planned[b] \in proved
    BY <2>1
  <2>2. ASSUME NEW d \in Nat, NEW w \in Nat, KeyedWith(b, d, w), Older(b, d, w)
        PROVE  KeyedWith(b, d, w)' /\ Older(b, d, w)'
    BY <1>1, <1>4, <2>2, KeyStays
  <2> QED
    BY <1>4, <2>1, <2>2 DEF KeyInv, KeyOk
<1>5. b \in cached' => planned'[b] \in proved'
  BY DEF KeyInv, KeyOk
<1> QED
  BY <1>2, <1>3, <1>4, <1>5 DEF KeyOk

\* No two executables run at a time.
LEMMA OneRuns ==
  ASSUME TypeInv, KeyInv, NEW b \in Bins, NEW c \in Bins, ph[b] = "running", ph[c] = "running"
  PROVE  b = c /\ started # None
<1>1. \A a \in Bins : PkgOf[a] \in Packages /\ data[PkgOf[a]] \in Nat /\ ws \in Nat
  BY TestsAssumption DEF TypeInv, RepoInv, Versions
<1>2. ASSUME NEW a \in Bins, ph[a] = "running"
      PROVE  \E e \in 0 .. data[PkgOf[a]], v \in 0 .. ws : started = At(a, e, v)
  <2>1. PICK d, w \in Nat : /\ KeyedWith(a, d, w)
                            /\ \E e \in d .. data[PkgOf[a]], v \in w .. ws : started = At(a, e, v)
    BY <1>2 DEF KeyInv, KeyOk
  <2>2. PICK e \in d .. data[PkgOf[a]], v \in w .. ws : started = At(a, e, v)
    BY <2>1
  <2>3. e \in 0 .. data[PkgOf[a]] /\ v \in 0 .. ws
    BY <1>1, <2>1
  <2> QED
    BY <2>2, <2>3
<1>3. PICK e \in 0 .. data[PkgOf[b]], v \in 0 .. ws : started = At(b, e, v)
  BY <1>2
<1>4. PICK e1 \in 0 .. data[PkgOf[c]], v1 \in 0 .. ws : started = At(c, e1, v1)
  BY <1>2
<1>5. At(b, e, v) # None /\ \A a \in Bins : \A x, y : At(b, e, v) = At(a, x, y) => b = a
  BY <1>3, KeysDiffer
<1>6. At(b, e, v) = At(c, e1, v1)
  BY <1>3, <1>4
<1> QED
  BY <1>3, <1>5, <1>6

LEMMA KeyInvStep ==
  TypeInv /\ StageInv /\ StatusInv /\ LinkInv /\ MemoInv /\ KeyInv /\ EarnedInv
    /\ ~EditsWhileRunning /\ [Next]_vars => KeyInv' /\ EarnedInv'
<1> SUFFICES ASSUME TypeInv, StageInv, StatusInv, LinkInv, MemoInv, KeyInv, EarnedInv,
                    ~EditsWhileRunning, [Next]_vars
             PROVE  KeyInv' /\ EarnedInv'
  OBVIOUS
<1>1. /\ \A b \in Bins : PkgOf[b] \in Packages /\ data[PkgOf[b]] \in Nat /\ ws \in Nat
      /\ ph \in [Bins -> Phases] /\ status \in [Bins -> Exits] /\ exited \in [Bins -> Exits]
      /\ planned = [b \in Bins |-> planned[b]]
  BY TestsAssumption DEF TypeInv, RepoInv, Versions
<1>2. ASSUME UNCHANGED <<ph, planned, status, started, proved, cached, passes>>
      PROVE  KeyInv' /\ EarnedInv'
  BY <1>2, KeyFrame DEF KeyInv, EarnedInv
<1>3. ASSUME \/ UNCHANGED vars \/ Begin \/ Nothing \/ BuildFails \/ StartKeyer \/ Finish \/ EditWorkspace
             \/ \E p \in Packages : EditSource(p) \/ EditData(p)
      PROVE  UNCHANGED <<ph, planned, status, started, proved, cached, passes>>
  BY <1>3 DEF vars, Begin, Nothing, BuildFails, StartKeyer, Finish, EditWorkspace, EditSource,
              EditData, Edit
<1>4. CASE Build
  BY <1>4 DEF Build, KeyInv, KeyOk, EarnedInv
<1>5. CASE Leave
  BY <1>5 DEF Leave, KeyInv, KeyOk, EarnedInv
<1>6. ASSUME NEW b \in Bins, Key(b) \/ KeyIgnoringPasses(b) PROVE KeyInv' /\ EarnedInv'
  <2>1. /\ stage = "round" /\ ph[b] = "todo" /\ memo' = Remember(memo, b)
        /\ planned' = [planned EXCEPT ![b] = KeyFrom(memo', b)]
        /\ UNCHANGED <<src, data, ws, status, started, proved, passes>>
        /\ \E x \in {"done", "keyed"} : ph' = [ph EXCEPT ![b] = x]
        /\ cached' = cached \/ (cached' = cached \cup {b} /\ planned'[b] \in passes)
    BY <1>6 DEF Key, KeyIgnoringPasses, Turn, repo
  <2>2. PICK d \in 0 .. data[PkgOf[b]], w \in 0 .. ws : KeyFrom(memo', b) = At(b, d, w)
    BY <2>1, KeyedAt
  <2>3. planned'[b] = At(b, d, w) /\ At(b, d, w)' = At(b, d, w)
    BY <1>1, <2>1, <2>2, SameCode DEF At, KeyOf
  <2>4. d \in Nat /\ w \in Nat /\ KeyedWith(b, d, w)'
    BY <1>1, <2>1, <2>2, <2>3 DEF KeyedWith
  <2>5. b \notin cached
    BY <2>1 DEF StatusInv
  <2>6. KeyOk(b)'
    <3>1. ph'[b] \in {"done", "keyed"}
      BY <1>1, <2>1
    <3>2. b \in cached' => planned'[b] \in proved'
      BY <2>1, <2>5 DEF EarnedInv
    <3> QED
      BY <2>4, <3>1, <3>2 DEF KeyOk
  <2>7. ASSUME NEW c \in Bins, c # b PROVE KeyOk(c)'
    BY <1>1, <2>1, <2>7, KeyFrame
  <2> QED
    BY <2>1, <2>6, <2>7 DEF KeyInv, EarnedInv
<1>7. CASE RunStep
  <2>1. /\ UNCHANGED <<src, data, ws, planned, cached, status, started, proved, passes>>
        /\ stage = "round"
        /\ \A b \in Bins : ph'[b] = ph[b] \/ (ph[b] = "keyed" /\ ph'[b] \in {"done", "linked"})
    BY <1>7 DEF RunStep, repo
  <2>2. ASSUME NEW b \in Bins PROVE KeyOk(b)'
    <3>1. CASE ph'[b] = ph[b]
      BY <2>1, <3>1, KeyFrame
    <3>2. CASE ph[b] = "keyed" /\ ph'[b] \in {"done", "linked"}
      <4>1. PICK d, w \in Nat : KeyedWith(b, d, w)
        BY <3>2 DEF KeyInv, KeyOk
      <4>2. KeyedWith(b, d, w)'
        BY <2>1, <4>1, KeyStays
      <4>3. b \in cached' => planned'[b] \in proved'
        BY <2>1 DEF KeyInv, KeyOk
      <4> QED
        BY <3>2, <4>2, <4>3 DEF KeyOk
    <3> QED
      BY <2>1, <3>1, <3>2
  <2> QED
    BY <2>1, <2>2 DEF KeyInv, EarnedInv
<1>8. ASSUME NEW b \in Bins, Link(b) PROVE KeyInv' /\ EarnedInv'
  <2>1. /\ UNCHANGED <<src, data, ws, planned, cached, status, started, proved, passes>>
        /\ ph[b] = "keyed" /\ ph' = [ph EXCEPT ![b] = "linked"]
    BY <1>8 DEF Link, repo
  <2>2. PICK d, w \in Nat : KeyedWith(b, d, w)
    BY <2>1 DEF KeyInv, KeyOk
  <2>3. KeyedWith(b, d, w)'
    BY <2>1, <2>2, KeyStays
  <2>4. KeyOk(b)'
    BY <1>1, <2>1, <2>3 DEF KeyInv, KeyOk
  <2>5. ASSUME NEW c \in Bins, c # b PROVE KeyOk(c)'
    BY <1>1, <2>1, <2>5, KeyFrame
  <2> QED
    BY <2>1, <2>4, <2>5 DEF KeyInv, EarnedInv
<1>9. ASSUME NEW b \in Bins, Start(b) PROVE KeyInv' /\ EarnedInv'
  <2>1. /\ UNCHANGED <<src, data, ws, planned, cached, status, proved, passes>>
        /\ ph[b] = "linked" /\ ph' = [ph EXCEPT ![b] = "running"]
        /\ started = None /\ started' = Now(b)
    BY <1>9 DEF Start, repo
  <2>2. PICK d, w \in Nat : KeyedWith(b, d, w)
    BY <2>1 DEF KeyInv, KeyOk
  <2>3. KeyedWith(b, d, w)'
    BY <2>1, <2>2, KeyStays
  <2>4. started' = At(b, data[PkgOf[b]], ws)
    BY <2>1, RoundOnly, StartsNewer
  <2>5. At(b, data[PkgOf[b]], ws)' = At(b, data[PkgOf[b]], ws)
    BY <1>1, <2>1, SameCode DEF At, KeyOf
  <2>6. data[PkgOf[b]] \in d .. data[PkgOf[b]] /\ ws \in w .. ws
    BY <1>1, <2>2 DEF KeyedWith
  <2>7. KeyOk(b)'
    <3>1. (\E e \in d .. data[PkgOf[b]], v \in w .. ws : started = At(b, e, v))'
      BY <2>1, <2>4, <2>5, <2>6
    <3>2. ph'[b] = "running" /\ (b \in cached' => planned'[b] \in proved')
      BY <1>1, <2>1 DEF KeyInv, KeyOk
    <3> QED
      BY <2>3, <3>1, <3>2 DEF KeyOk
  <2>8. ASSUME NEW c \in Bins, c # b PROVE KeyOk(c)'
    <3>1. ph[c] # "running"
      BY <2>1, OneRuns
    <3> QED
      BY <1>1, <2>1, <2>8, <3>1, KeyFrame
  <2> QED
    BY <2>1, <2>7, <2>8 DEF KeyInv, EarnedInv
<1>10. ASSUME NEW b \in Bins, End(b) PROVE KeyInv' /\ EarnedInv'
  <2>1. /\ UNCHANGED <<src, data, ws, exes, tools, planned, cached, passes>>
        /\ ph[b] = "running" /\ ph' = [ph EXCEPT ![b] = "ran"]
        /\ \A c \in Bins : c # b => status'[c] = status[c]
        /\ proved \subseteq proved'
    BY <1>1, <1>10 DEF End, repo
  <2>2. status'[b] = "pass" /\ started = Now(b) => started \in proved'
    BY <1>1, <1>10, NoneAssumption DEF End, Status
  <2>3. PICK d, w \in Nat : /\ KeyedWith(b, d, w)
                            /\ \E e \in d .. data[PkgOf[b]], v \in w .. ws : started = At(b, e, v)
    BY <2>1 DEF KeyInv, KeyOk
  <2>4. PICK e \in d .. data[PkgOf[b]], v \in w .. ws : started = At(b, e, v)
    BY <2>3
  <2>5. KeyedWith(b, d, w)' /\ (Older(b, d, w) => Older(b, d, w)')
    BY <2>1, <2>3, KeyStays
  <2>6. Now(b) = At(b, data[PkgOf[b]], ws)
    BY <2>1, RoundOnly, StartsNewer
  <2>7. KeyOk(b)'
    <3>1. ph'[b] = "ran" /\ (b \in cached' => planned'[b] \in proved')
      BY <1>1, <2>1 DEF KeyInv, KeyOk
    <3>2. CASE Older(b, d, w)
      BY <2>5, <3>1, <3>2 DEF KeyOk
    <3>3. CASE ~Older(b, d, w)
      <4>1. d = data[PkgOf[b]] /\ w = ws /\ e = d /\ v = w
        BY <1>1, <2>3, <2>4, <3>3 DEF KeyedWith, Older
      <4>2. started = Now(b) /\ planned[b] = started
        BY <2>3, <2>4, <2>6, <4>1 DEF KeyedWith
      <4> QED
        BY <2>1, <2>2, <2>5, <3>1, <4>2 DEF KeyOk
    <3> QED
      BY <3>2, <3>3
  <2>8. ASSUME NEW c \in Bins, c # b PROVE KeyOk(c)'
    <3>1. ph[c] # "running"
      BY <2>1, <2>8, OneRuns
    <3> QED
      BY <1>1, <2>1, <2>8, <3>1, KeyFrame
  <2> QED
    BY <2>1, <2>7, <2>8 DEF KeyInv, EarnedInv
<1>11. CASE Killed
  <2>1. /\ UNCHANGED <<src, data, ws, planned, cached, status, proved, passes>>
        /\ \A b \in Bins : ph'[b] = IF ph[b] \in {"linked", "running"} THEN "ran" ELSE ph[b]
    BY <1>11 DEF Killed, repo
  <2>2. ASSUME NEW b \in Bins PROVE KeyOk(b)'
    <3>1. CASE ph[b] \notin {"linked", "running"}
      BY <2>1, <3>1, KeyFrame
    <3>2. CASE ph[b] \in {"linked", "running"}
      <4>1. ph'[b] = "ran" /\ status'[b] # "pass"
        BY <2>1, <3>2, NoneAssumption DEF StatusInv
      <4>2. PICK d, w \in Nat : KeyedWith(b, d, w)
        BY <3>2 DEF KeyInv, KeyOk
      <4>3. KeyedWith(b, d, w)'
        BY <2>1, <4>2, KeyStays
      <4> QED
        BY <2>1, <4>1, <4>3 DEF KeyInv, KeyOk
    <3> QED
      BY <3>1, <3>2
  <2> QED
    BY <2>1, <2>2 DEF KeyInv, EarnedInv
<1>12. ASSUME NEW b \in Bins, Store(b) PROVE KeyInv' /\ EarnedInv'
  <2>1. /\ UNCHANGED <<src, data, ws, planned, cached, status, started, proved>>
        /\ ph[b] = "ran" /\ ph' = [ph EXCEPT ![b] = "done"]
    BY <1>12 DEF Store, repo
  <2>2. passes' \subseteq passes \cup {planned[b]} /\ (~(passes' \subseteq passes) =>
             status[b] = "pass" /\ KeyFrom(Afresh(memo, b), b) = planned[b])
    BY <1>12 DEF Store, Record
  <2>3. ASSUME status[b] = "pass", KeyFrom(Afresh(memo, b), b) = planned[b]
        PROVE  planned[b] \in proved
    <3>1. CASE planned[b] \in proved
      BY <3>1
    <3>2. ASSUME NEW d \in Nat, NEW w \in Nat, KeyedWith(b, d, w), Older(b, d, w) PROVE FALSE
      <4>1. Afresh(memo, b).ws = ws /\ Afresh(memo, b).files[PkgOf[b]] = <<src[PkgOf[b]], data[PkgOf[b]]>>
        BY <1>1, AfreshType DEF TypeInv, Memos, Files
      <4>2. At(b, d, w).ws = ws /\ At(b, d, w).files = <<src[PkgOf[b]], data[PkgOf[b]]>>
        BY <2>3, <3>2, <4>1 DEF KeyedWith, KeyFrom, KeyOf
      <4>3. d = data[PkgOf[b]] /\ w = ws
        BY <4>2 DEF At, KeyOf
      <4> QED
        BY <1>1, <3>2, <4>3 DEF Older
    <3> QED
      BY <2>1, <2>3, <3>1, <3>2 DEF KeyInv, KeyOk
  <2>4. EarnedInv'
    BY <2>1, <2>2, <2>3 DEF EarnedInv
  <2>5. KeyOk(b)'
    BY <1>1, <2>1 DEF KeyInv, KeyOk
  <2>6. ASSUME NEW c \in Bins, c # b PROVE KeyOk(c)'
    BY <1>1, <2>1, <2>6, KeyFrame
  <2> QED
    BY <2>4, <2>5, <2>6 DEF KeyInv
<1>13. ASSUME NEW b \in Bins, Retry(b) PROVE KeyInv' /\ EarnedInv'
  <2>1. /\ UNCHANGED <<ph, planned, cached, started, proved, passes>>
        /\ ph[b] = "done" /\ \A c \in Bins : c # b => status'[c] = status[c]
    BY <1>1, <1>13 DEF Retry, Failed
  <2>2. ASSUME NEW c \in Bins PROVE KeyOk(c)'
    BY <2>1, KeyFrame
  <2> QED
    BY <2>1, <2>2 DEF KeyInv, EarnedInv
<1> QED
  BY <1>2, <1>3, <1>4, <1>5, <1>6, <1>7, <1>8, <1>9, <1>10, <1>11, <1>12, <1>13 DEF Next

-----------------------------------------------------------------------------
(* A round's verdict.                                                         *)

GreenInv == stage = "over" => GreenIsEarned

LEMMA GreenStep ==
  TypeInv /\ StageInv /\ StatusInv /\ KeyInv /\ EarnedInv /\ GreenInv /\ [Next]_vars => GreenInv'
<1> SUFFICES ASSUME TypeInv, StageInv, StatusInv, KeyInv, EarnedInv, GreenInv, [Next]_vars,
                    stage' = "over", outcome' \in {"pass", "flaky", "reused"},
                    NEW b \in Bins, PkgOf[b] \in selected'
             PROVE  exited'[b] \in {"pass", "flaky"} \/ (exited'[b] = None /\ planned'[b] \in proved')
  BY DEF GreenInv, GreenIsEarned
<1>1. CASE stage = "over" /\ UNCHANGED <<outcome, selected, exited, planned>> /\ proved' = proved
  BY <1>1 DEF GreenInv, GreenIsEarned
<1>2. CASE Finish
  <2>1. /\ stage = "round" /\ selected' = selected /\ outcome' = Verdict /\ In({"done"})
        /\ UNCHANGED <<exited, planned, proved>>
    BY <1>2 DEF Finish, round
  <2>2. ph[b] = "done"
    BY <2>1 DEF In, StageInv
  <2>3. b \in cached \/ status[b] \in {"pass", "flaky"}
    BY <2>1, <2>2 DEF Verdict
  <2> QED
    BY <2>1, <2>3 DEF StatusInv, KeyInv, KeyOk
<1>3. CASE Nothing \/ BuildFails
  BY <1>3 DEF Nothing, BuildFails
<1>4. CASE Begin \/ Build \/ StartKeyer \/ Leave \/ RunStep \/ Killed
  BY <1>4 DEF Begin, Build, StartKeyer, Leave, RunStep, Killed
<1>5. ASSUME NEW c \in Bins, Key(c) \/ KeyIgnoringPasses(c) \/ Link(c) \/ Store(c) \/ Retry(c) PROVE FALSE
  BY <1>5 DEF Key, KeyIgnoringPasses, Link, Store, Retry, Turn
<1>6. ASSUME NEW c \in Bins, Start(c) \/ End(c) PROVE FALSE
  BY <1>6, RoundOnly DEF Start, End
<1>7. CASE UNCHANGED vars \/ EditWorkspace \/ \E p \in Packages : EditSource(p) \/ EditData(p)
  BY <1>1, <1>7 DEF vars, round, EditWorkspace, EditSource, EditData, Edit
<1> QED
  BY <1>2, <1>3, <1>4, <1>5, <1>6, <1>7 DEF Next

-----------------------------------------------------------------------------
IInv ==
    /\ TypeInv /\ StageInv /\ StatusInv /\ LinkInv /\ MemoInv /\ KeyInv /\ EarnedInv
    /\ GreenInv

LEMMA InitInv == Init => IInv
<1> SUFFICES ASSUME Init PROVE IInv
  OBVIOUS
<1>1. 0 \in Versions
  BY TestsAssumption DEF Versions
<1>2. TypeInv
  <2>1. RepoInv
    BY <1>1, TestsAssumption DEF Init, RepoInv, Versions
  <2>2. memo \in Memos
    BY <1>1, NoMemoType DEF Init
  <2> QED
    BY <2>1, <2>2 DEF Init, TypeInv, Phases, Exits
<1>3. StageInv /\ StatusInv
  BY DEF Init, StageInv, StatusInv
<1>4. LinkInv /\ MemoInv /\ KeyInv /\ EarnedInv /\ GreenInv
  BY DEF Init, LinkInv, MemoInv, KeyInv, KeyOk, EarnedInv, GreenInv
<1> QED
  BY <1>2, <1>3, <1>4 DEF IInv

LEMMA InvStep == IInv /\ ~EditsWhileRunning /\ [Next]_vars => IInv'
BY TypeStep, StageStep, StatusStep, LinkStep, MemoStep, KeyInvStep, GreenStep DEF IInv

\* With sources that stay while a round runs, the passes stored are earned,
\* whatever data the tests and the user write meanwhile.
THEOREM StoredIsEarned == ASSUME ~EditsWhileRunning PROVE Spec => []PassesAreEarned
<1>1. IInv => PassesAreEarned
  BY DEF IInv, EarnedInv, PassesAreEarned
<1>2. IInv /\ [Next]_vars => IInv'
  BY InvStep
<1> QED
  BY <1>1, <1>2, InitInv, PTL DEF Spec

\* And a round that does not fail ran what it selected, or may skip it.
THEOREM RoundIsEarned == ASSUME ~EditsWhileRunning PROVE Spec => []GreenIsEarned
<1>1. IInv => GreenIsEarned
  BY NoneAssumption DEF IInv, GreenInv, StageInv, GreenIsEarned
<1>2. IInv /\ [Next]_vars => IInv'
  BY InvStep
<1> QED
  BY <1>1, <1>2, InitInv, PTL DEF Spec

-----------------------------------------------------------------------------
(* What is not selected.  Cargo links an executable from its own package and  *)
(* those its package depends on, through any number of packages.              *)
LinksDeclared ==
    \A b \in Bins : \A q \in Links[b] \cup ToolLinks[PkgOf[b]] : PkgOf[b] \in WithDependents({q})

LEMMA DependentsGrow ==
  ASSUME NEW direct \in SUBSET Packages, NEW q \in direct
  PROVE  q \in WithDependents(direct) /\ WithDependents({q}) \subseteq WithDependents(direct)
  BY DEF WithDependents

LEMMA UnchangedOutside ==
  ASSUME LinksDeclared, Begin, NEW b \in Bins, PkgOf[b] \notin selected'
  PROVE  Fresh(b) = AtBase(b)
<1> DEFINE direct == {p \in Packages : src[p] # 0 \/ data[p] # 0}
<1>1. PkgOf[b] \in Packages /\ Links[b] \subseteq Packages /\ ToolLinks[PkgOf[b]] \subseteq Packages
  BY TestsAssumption
<1>2. ws = 0 /\ PkgOf[b] \notin WithDependents(direct)
  BY <1>1 DEF Begin, Select
<1>3. ASSUME NEW q \in Packages, PkgOf[b] \in WithDependents({q}) PROVE q \notin direct
  BY <1>2, <1>3, DependentsGrow
<1>4. PkgOf[b] \notin direct
  BY <1>2, DependentsGrow
<1>5. Files(PkgOf[b]) = <<0, 0>>
  BY <1>1, <1>4 DEF Files
<1>6. \A q \in Links[b] \cup ToolLinks[PkgOf[b]] : src[q] = 0
  BY <1>1, <1>3 DEF LinksDeclared
<1>7. Code(b) = [p \in Links[b] |-> 0] /\ ToolCode(PkgOf[b]) = [p \in ToolLinks[PkgOf[b]] |-> 0]
  BY <1>6 DEF Code, ToolCode
<1> QED
  BY <1>2, <1>5, <1>7 DEF Fresh, AtBase

\* A package the change does not select has, at that moment, the code and the
\* files of the base, tools that its tests spawn included.
THEOREM UnselectedIsAtBase == ASSUME LinksDeclared PROVE Spec => UnselectedUnchanged
<1>1. ASSUME [Next]_vars, stage = "idle", stage' = "selected" PROVE Begin
  BY <1>1 DEF Next, Nothing, Build, BuildFails, StartKeyer, Key, KeyIgnoringPasses, Link, Start, End,
              Store, Retry, RunStep, Killed, Finish, Leave, EditSource, EditData, EditWorkspace, Edit, vars
<1>2. [Next]_vars =>
        [stage = "idle" /\ stage' = "selected" =>
           \A b \in Bins : PkgOf[b] \notin selected' => Fresh(b) = AtBase(b)]_vars
  BY <1>1, UnchangedOutside
<1> QED
  BY <1>2, PTL DEF Spec, UnselectedUnchanged

-----------------------------------------------------------------------------
(* Names do not collide across kinds: a section is of packages and imports,   *)
(* of a project's tests, or of the docs check and the Rust tests.             *)
OwnNames ==
  \A l \in Layouts :
    /\ l.tests \cap (l.packages \cup l.imports) = {}
    /\ {DocsName, TestName} \cap (l.packages \cup l.imports \cup l.tests) = {}

PlanJob == <<"plan", None>>

(* What a record says of its leg is what its command found, or, of a test the *)
(* plan settled, that it need not run.                                        *)
EarnedAs(leg, word) ==
  \/ word = "errored"
  \/ word \in {"pass", "nothing"} /\ Found(leg, {"zero", "nothing"})
  \/ word = "regressed" /\ Found(leg, {"one"}) /\ leg[1] \in layout.packages \cup layout.imports
  \/ /\ word = "pass" /\ ~testAll /\ leg[1] \in layout.tests
     /\ inputs[leg[1]] = Base \/ <<leg[1], inputs[leg[1]]>> \in everPassed

Uploaded(recs) == \A r \in recs : EarnedAs(r.leg, r.verdict)

JobsInv ==
  /\ layout \in Layouts
  /\ DOMAIN job = AllJobs /\ DOMAIN artifacts = AllJobs
  /\ kept \subseteq everPassed
  /\ \A j \in AllJobs : Uploaded(artifacts[j])
  /\ Uploaded(pending)

(* Before the plan there is nothing it could contradict.                      *)
PlanInv ==
  /\ step = "plan" \/ job[PlanJob] = "failed" =>
       (\A j \in AllJobs : artifacts[j] = {}) /\ pending = {} /\ seen = {}
  /\ job[PlanJob] = "failed" => step = "done"

IsSection(sec) ==
  sec = [kind |-> sec.kind, verdict |-> sec.verdict, tail |-> sec.tail,
         flaky |-> sec.flaky, unevaluated |-> sec.unevaluated]

(* A leg that was seen is in a section no better than what its record says.   *)
SeenInv ==
  /\ \A n \in DOMAIN sections : IsSection(sections[n]) /\ sections[n].verdict \in Words
  /\ \A leg \in seen :
       /\ leg[1] \in DOMAIN sections
       /\ \E word \in Words : EarnedAs(leg, word) /\ Rank[sections[leg[1]].verdict] <= Rank[word]

LabelInv ==
  /\ accepted => vouched /\ step \in {"fold", "done"}
  /\ step = "labeler" /\ label.by \in Writers => vouched

LegEarned(j, leg) ==
  \/ Found(leg, {"zero", "nothing"})
  \/ j[1] \in {"rust", "import"} /\ Found(leg, {"one"}) /\ vouched
  \/ /\ j[1] = "project" /\ ~testAll
     /\ inputs[j[2]] = Base \/ <<j[2], inputs[j[2]]>> \in everPassed

ConclusionInv ==
  conclusion = "green" =>
    step = "done" /\ \A j \in Jobs(layout) : \A leg \in LegsOf(layout, j) : LegEarned(j, leg)

PipelineInv == JobsInv /\ PlanInv /\ SeenInv /\ LabelInv /\ ConclusionInv

-----------------------------------------------------------------------------
LEMMA JobKinds ==
  ASSUME NEW l \in Layouts, NEW j \in Jobs(l)
  PROVE  /\ j \in AllJobs /\ j # PlanJob
         /\ \/ j[1] = "rust" /\ j[2] \in ShardLegs(l)
            \/ j[1] = "import" /\ j[2] \in l.imports
            \/ j[1] = "docs" \/ j[1] = "test"
            \/ j[1] = "project" /\ j[2] \in l.tests
<1>1. j \in AllJobs
  BY DEF AllJobs
<1>2. CASE \E s \in ShardLegs(l) : j = <<"rust", s>>
  BY <1>1, <1>2 DEF PlanJob
<1>3. CASE \E i \in l.imports : j = <<"import", i>>
  BY <1>1, <1>3 DEF PlanJob
<1>4. CASE j = <<"docs", None>> \/ j = <<"test", None>>
  BY <1>1, <1>4 DEF PlanJob
<1>5. CASE \E t \in l.tests : j = <<"project", t>>
  BY <1>1, <1>5 DEF PlanJob
<1> QED
  BY <1>2, <1>3, <1>4, <1>5 DEF Jobs

(* A leg is expected, and its name tells its job's kind.                      *)
LEMMA LegNames ==
  ASSUME OwnNames, NEW l \in Layouts, NEW j \in Jobs(l), NEW leg \in LegsOf(l, j)
  PROVE  /\ leg \in Expected(l)
         /\ leg[1] \in l.packages \cup l.imports => j[1] \in {"rust", "import"}
         /\ leg[1] \in l.tests => j[1] = "project" /\ j[2] = leg[1]
<1>1. leg \in Expected(l)
  BY DEF Expected
<1>2. CASE j[1] = "rust"
  <2>1. leg[1] \in l.packages
    BY <1>2 DEF LegsOf, RustLegs
  <2> QED
    BY <1>1, <1>2, <2>1 DEF OwnNames
<1>3. CASE j[1] = "import"
  <2>1. leg[1] \in l.imports
    BY <1>3, JobKinds DEF LegsOf
  <2> QED
    BY <1>1, <1>3, <2>1 DEF OwnNames
<1>4. CASE j[1] \in {"docs", "test"}
  <2>1. leg[1] \in {DocsName, TestName}
    BY <1>4 DEF LegsOf
  <2> QED
    BY <1>1, <2>1 DEF OwnNames
<1>5. CASE j[1] = "project"
  <2>1. leg[1] = j[2] /\ j[2] \in l.tests
    BY <1>5, JobKinds DEF LegsOf
  <2> QED
    BY <1>1, <1>5, <2>1 DEF OwnNames
<1> QED
  BY <1>2, <1>3, <1>4, <1>5, JobKinds

LEMMA Ranks ==
  /\ \A w \in Words : Rank[w] \in Nat
  /\ Rank["errored"] = 0 /\ Rank["regressed"] = 1 /\ Rank["pass"] = 2 /\ Rank["nothing"] = 3
  BY DEF Words, Rank

LEMMA EarnedWords == ASSUME NEW leg, NEW word, EarnedAs(leg, word) PROVE word \in Words
  BY DEF EarnedAs, Words

(* What commands found is not unfound while the plan stands.                  *)
LEMMA EarnedStays ==
  ASSUME UNCHANGED <<layout, inputs, testAll>>, found \subseteq found', everPassed \subseteq everPassed',
         NEW leg, NEW word, EarnedAs(leg, word)
  PROVE  EarnedAs(leg, word)'
  BY DEF EarnedAs, Found

-----------------------------------------------------------------------------
(* What the jobs record is earned.                                            *)
LEMMA RecordedEarned ==
  ASSUME NEW leg, NEW kind, NEW end \in Ends, NEW silent, NEW unevaluated, <<leg, end>> \in found',
         kind \in {"rust", "import"} => leg[1] \in layout'.packages \cup layout'.imports
  PROVE  EarnedAs(Recorded(leg, kind, end, silent, unevaluated).leg,
                  Recorded(leg, kind, end, silent, unevaluated).verdict)'
<1>1. /\ Recorded(leg, kind, end, silent, unevaluated).leg = leg
      /\ Recorded(leg, kind, end, silent, unevaluated).verdict = Classify(end, kind)
  BY DEF Recorded, Rec
<1>2. EarnedAs(leg, Classify(end, kind))'
  BY DEF EarnedAs, Classify, Found, Ends
<1> QED
  BY <1>1, <1>2

LEMMA TestWordEarned ==
  ASSUME NEW leg, NEW word \in {"pass", "flaky", "failed"},
         <<leg, IF word = "failed" THEN "one" ELSE "zero">> \in found'
  PROVE  EarnedAs(TestWord(leg, word).leg, TestWord(leg, word).verdict)'
<1>1. TestWord(leg, word).leg = leg
  BY DEF TestWord, Rec
<1>2. TestWord(leg, word).verdict = IF word = "failed" THEN "errored" ELSE "pass"
  BY DEF TestWord, Rec
<1> QED
  BY <1>1, <1>2 DEF EarnedAs, Found

LEMMA Delivered ==
  ASSUME JobsInv, NEW j \in AllJobs, NEW recs, NEW fine, Delivers(j, recs, fine),
         UNCHANGED <<layout, inputs, testAll>>, found \subseteq found', everPassed \subseteq everPassed',
         \A r \in recs : EarnedAs(r.leg, r.verdict)'
  PROVE  /\ DOMAIN job' = AllJobs /\ DOMAIN artifacts' = AllJobs
         /\ \A k \in AllJobs : Uploaded(artifacts[k])'
         /\ \A k \in AllJobs \ {j} : job'[k] = job[k]
<1>1. \A k \in AllJobs : \A r \in artifacts[k] : EarnedAs(r.leg, r.verdict)'
  BY EarnedStays DEF JobsInv, Uploaded
<1>2. /\ DOMAIN job' = AllJobs /\ DOMAIN artifacts' = AllJobs
      /\ \A k \in AllJobs \ {j} : job'[k] = job[k]
  BY DEF Delivers, Fault, JobsInv
<1>3. \/ artifacts' = artifacts
      \/ artifacts' = [artifacts EXCEPT ![j] = recs]
      \/ \E r \in recs : artifacts' = [artifacts EXCEPT ![j] = (recs \ {r}) \cup {Unreadable(r)}]
  BY DEF Delivers
<1>4. ASSUME NEW k \in AllJobs, NEW r \in artifacts'[k] PROVE EarnedAs(r.leg, r.verdict)'
  <2>1. r \in artifacts[k] \/ r \in recs \/ \E q \in recs : r = Unreadable(q)
    BY <1>3 DEF JobsInv
  <2>2. ASSUME NEW q \in recs, r = Unreadable(q) PROVE r.verdict = "errored"
    BY <2>2 DEF Unreadable, Rec
  <2>3. r.verdict = "errored" => EarnedAs(r.leg, r.verdict)'
    BY DEF EarnedAs
  <2> QED
    BY <1>1, <2>1, <2>2, <2>3
<1> QED
  BY <1>2, <1>4 DEF Uploaded

(* What a job leaves alone.                                                   *)
AtWork ==
  /\ step = "jobs" /\ job'[PlanJob] = job[PlanJob]
  /\ UNCHANGED <<folding, layout, inputs, testAll, label, vouched>>
  /\ found \subseteq found' /\ everPassed \subseteq everPassed'

LEMMA WorkKeeps ==
  ASSUME JobsInv, AtWork, kept' \subseteq everPassed',
         DOMAIN job' = AllJobs, DOMAIN artifacts' = AllJobs,
         \A k \in AllJobs : Uploaded(artifacts[k])'
  PROVE  JobsInv'
<1>1. \A r \in pending : EarnedAs(r.leg, r.verdict)'
  BY EarnedStays DEF JobsInv, AtWork, Uploaded
<1>2. Uploaded(pending)'
  BY <1>1 DEF AtWork, folding, Uploaded
<1> QED
  BY <1>2 DEF JobsInv, AtWork

LEMMA RustStep ==
  ASSUME JobsInv, NEW s, GateRust(s) PROVE AtWork /\ JobsInv'
<1> DEFINE j == <<"rust", s>>
<1>0. j \in Jobs(layout) /\ j \in AllJobs /\ j # PlanJob /\ step = "jobs"
  BY JobKinds DEF GateRust, Starts, JobsInv
<1>1. PICK done \in SUBSET layout.packages : \E end \in [done -> Ends] :
        /\ Delivers(j, {Recorded(<<p, s>>, "rust", end[p], end[p] = "other", FALSE) : p \in done},
                    done = layout.packages /\ \A p \in done : end[p] \in {"zero", "nothing"})
        /\ found' = found \cup {<<<<p, s>>, end[p]>> : p \in done}
  BY DEF GateRust
<1>2. PICK end \in [done -> Ends] :
        /\ Delivers(j, {Recorded(<<p, s>>, "rust", end[p], end[p] = "other", FALSE) : p \in done},
                    done = layout.packages /\ \A p \in done : end[p] \in {"zero", "nothing"})
        /\ found' = found \cup {<<<<p, s>>, end[p]>> : p \in done}
  BY <1>1
<1>3. UNCHANGED <<planning, folding, label, labels, everPassed, vouched>>
  BY DEF GateRust
<1> DEFINE recs == {Recorded(<<p, s>>, "rust", end[p], end[p] = "other", FALSE) : p \in done}
<1>4. ASSUME NEW r \in recs PROVE EarnedAs(r.leg, r.verdict)'
  <2>1. PICK p \in done : r = Recorded(<<p, s>>, "rust", end[p], end[p] = "other", FALSE)
    OBVIOUS
  <2>2. <<<<p, s>>, end[p]>> \in found' /\ end[p] \in Ends /\ <<p, s>>[1] \in layout'.packages
    BY <1>2, <1>3 DEF planning
  <2> QED
    BY <2>1, <2>2, RecordedEarned
<1>5. /\ UNCHANGED <<layout, inputs, testAll>> /\ found \subseteq found' /\ everPassed \subseteq everPassed'
      /\ kept' = kept
  BY <1>2, <1>3 DEF planning
<1> HIDE DEF recs, j
<1>6. /\ DOMAIN job' = AllJobs /\ DOMAIN artifacts' = AllJobs
      /\ \A k \in AllJobs : Uploaded(artifacts[k])'
      /\ \A k \in AllJobs \ {j} : job'[k] = job[k]
  BY <1>0, <1>2, <1>4, <1>5, Delivered DEF recs
<1>7. AtWork
  BY <1>0, <1>3, <1>5, <1>6 DEF AtWork, AllJobs, PlanJob
<1> QED
  BY <1>5, <1>6, <1>7, WorkKeeps DEF JobsInv

LEMMA ImportStep ==
  ASSUME JobsInv, NEW i, GateImport(i) PROVE AtWork /\ JobsInv'
<1> DEFINE j == <<"import", i>>
           leg == <<i, None>>
<1>0. j \in Jobs(layout) /\ j \in AllJobs /\ j # PlanJob /\ step = "jobs" /\ i \in layout.imports
  BY JobKinds DEF GateImport, Starts, JobsInv
<1>1. PICK end \in Ends :
        /\ Delivers(j, {Recorded(leg, "import", end, FALSE, FALSE)}, end \in {"zero", "nothing"})
        /\ found' = found \cup {<<leg, end>>}
  BY DEF GateImport
<1> DEFINE recs == {Recorded(leg, "import", end, FALSE, FALSE)}
           fine == end \in {"zero", "nothing"}
<1>2. UNCHANGED <<planning, folding, label, labels, everPassed, vouched>>
  BY DEF GateImport
<1>3. /\ UNCHANGED <<layout, inputs, testAll>> /\ found \subseteq found' /\ everPassed \subseteq everPassed'
      /\ kept' = kept
  BY <1>1, <1>2 DEF planning
<1>4. \A r \in recs : EarnedAs(r.leg, r.verdict)'
  <2>1. <<leg, end>> \in found' /\ leg[1] \in layout'.imports
    BY <1>0, <1>1, <1>3
  <2> HIDE DEF leg
  <2> QED
    BY <2>1, RecordedEarned
<1>d. Delivers(j, recs, fine)
  BY <1>1
<1> HIDE DEF leg, j, recs, fine
<1>5. /\ DOMAIN job' = AllJobs /\ DOMAIN artifacts' = AllJobs
      /\ \A k \in AllJobs : Uploaded(artifacts[k])'
      /\ \A k \in AllJobs \ {j} : job'[k] = job[k]
  BY <1>0, <1>d, <1>3, <1>4, Delivered
<1>6. AtWork
  BY <1>0, <1>2, <1>3, <1>5 DEF AtWork, AllJobs, PlanJob
<1> QED
  BY <1>3, <1>5, <1>6, WorkKeeps DEF JobsInv

LEMMA DocsStep ==
  ASSUME JobsInv, Docs PROVE AtWork /\ JobsInv'
<1> DEFINE j == <<"docs", None>>
           leg == <<DocsName, None>>
<1>0. j \in Jobs(layout) /\ j \in AllJobs /\ j # PlanJob /\ step = "jobs"
  BY JobKinds DEF Docs, Starts, JobsInv
<1>1. PICK end \in Ends \ {"nothing"}, skip \in BOOLEAN :
        /\ Delivers(j, {Recorded(leg, "docs", end, FALSE, skip)}, end = "zero")
        /\ found' = found \cup {<<leg, end>>}
  BY DEF Docs
<1> DEFINE recs == {Recorded(leg, "docs", end, FALSE, skip)}
           fine == end = "zero"
<1>2. UNCHANGED <<planning, folding, label, labels, everPassed, vouched>>
  BY DEF Docs
<1>3. /\ UNCHANGED <<layout, inputs, testAll>> /\ found \subseteq found' /\ everPassed \subseteq everPassed'
      /\ kept' = kept
  BY <1>1, <1>2 DEF planning
<1>4. \A r \in recs : EarnedAs(r.leg, r.verdict)'
  BY <1>1, RecordedEarned
<1>d. Delivers(j, recs, fine)
  BY <1>1
<1> HIDE DEF leg, j, recs, fine
<1>5. /\ DOMAIN job' = AllJobs /\ DOMAIN artifacts' = AllJobs
      /\ \A k \in AllJobs : Uploaded(artifacts[k])'
      /\ \A k \in AllJobs \ {j} : job'[k] = job[k]
  BY <1>0, <1>d, <1>3, <1>4, Delivered
<1>6. AtWork
  BY <1>0, <1>2, <1>3, <1>5 DEF AtWork, AllJobs, PlanJob
<1> QED
  BY <1>3, <1>5, <1>6, WorkKeeps DEF JobsInv

LEMMA TestRustStep ==
  ASSUME JobsInv, TestRust PROVE AtWork /\ JobsInv'
<1> DEFINE j == <<"test", None>>
           leg == <<TestName, None>>
<1>0. j \in Jobs(layout) /\ j \in AllJobs /\ j # PlanJob /\ step = "jobs"
  BY JobKinds DEF TestRust, Starts, JobsInv
<1>1. \E recs, fine :
        /\ Delivers(j, recs, fine) /\ found \subseteq found'
        /\ \A r \in recs : EarnedAs(r.leg, r.verdict)'
  <2>1. ASSUME NEW word \in {"pass", "flaky", "failed"}, Delivers(j, {TestWord(leg, word)}, word # "failed"),
               found' = found \cup {<<leg, IF word = "failed" THEN "one" ELSE "zero">>}
        PROVE  \A r \in {TestWord(leg, word)} : EarnedAs(r.leg, r.verdict)'
    BY <2>1, TestWordEarned
  <2>2. ASSUME Delivers(j, {Recorded(leg, "test", "other", FALSE, FALSE)}, FALSE),
               found' = found \cup {<<leg, "other">>}
        PROVE  \A r \in {Recorded(leg, "test", "other", FALSE, FALSE)} : EarnedAs(r.leg, r.verdict)'
    BY <2>2, RecordedEarned DEF Ends
  <2> HIDE DEF j, leg
  <2>3. CASE \E word \in {"pass", "flaky", "failed"} :
               /\ Delivers(j, {TestWord(leg, word)}, word # "failed")
               /\ found' = found \cup {<<leg, IF word = "failed" THEN "one" ELSE "zero">>}
    BY <2>1, <2>3
  <2>4. CASE /\ Delivers(j, {Recorded(leg, "test", "other", FALSE, FALSE)}, FALSE)
             /\ found' = found \cup {<<leg, "other">>}
    <3> DEFINE recs == {Recorded(leg, "test", "other", FALSE, FALSE)}
               fine == FALSE
    <3>1. Delivers(j, recs, fine) /\ found \subseteq found' /\ \A r \in recs : EarnedAs(r.leg, r.verdict)'
      BY <2>2, <2>4
    <3> HIDE DEF recs, fine
    <3> QED
      BY <3>1
  <2> QED
    BY <2>3, <2>4 DEF TestRust, j, leg
<1>2. UNCHANGED <<planning, folding, label, labels, everPassed, vouched>>
  BY DEF TestRust
<1>3. /\ UNCHANGED <<layout, inputs, testAll>> /\ found \subseteq found' /\ everPassed \subseteq everPassed'
      /\ kept' = kept
  BY <1>1, <1>2 DEF planning
<1> HIDE DEF leg, j
<1>5. /\ DOMAIN job' = AllJobs /\ DOMAIN artifacts' = AllJobs
      /\ \A k \in AllJobs : Uploaded(artifacts[k])'
      /\ \A k \in AllJobs \ {j} : job'[k] = job[k]
  BY <1>0, <1>1, <1>3, Delivered
<1>6. AtWork
  BY <1>0, <1>2, <1>3, <1>5 DEF AtWork, AllJobs, PlanJob
<1> QED
  BY <1>3, <1>5, <1>6, WorkKeeps DEF JobsInv

LEMMA TestProjectStep ==
  ASSUME JobsInv, NEW t, TestProject(t) PROVE AtWork /\ JobsInv'
<1> DEFINE j == <<"project", t>>
           leg == <<t, None>>
           pass == <<t, inputs[t]>>
<1>0. j \in Jobs(layout) /\ j \in AllJobs /\ j # PlanJob /\ step = "jobs"
  BY JobKinds DEF TestProject, Starts, JobsInv
<1>1. UNCHANGED <<layout, inputs, testAll, settled, pushes, attempts, folding, label, labels, vouched>>
  BY DEF TestProject
<1>2. CASE /\ job' = [job EXCEPT ![j] = "failed"]
           /\ found' = found \cup {<<leg, "other">>}
           /\ UNCHANGED <<artifacts, kept, everPassed>>
  <2>1. \A k \in AllJobs : Uploaded(artifacts[k])'
    BY <1>1, <1>2, EarnedStays DEF JobsInv, Uploaded
  <2>2. AtWork
    BY <1>0, <1>1, <1>2 DEF AtWork
  <2> QED
    BY <1>2, <2>1, <2>2, WorkKeeps DEF JobsInv
<1>3. CASE \E word \in {"pass", "flaky", "failed"} :
             /\ Delivers(j, {TestWord(leg, word)}, word # "failed")
             /\ found' = found \cup {<<leg, IF word = "failed" THEN "one" ELSE "zero">>}
             /\ everPassed' = IF word = "pass" THEN everPassed \cup {pass} ELSE everPassed
             /\ \/ Stores(word) /\ kept' = kept \cup {pass}
                \/ kept' = kept
  <2> HIDE DEF j, leg, pass
  <2>1. PICK word \in {"pass", "flaky", "failed"} :
             /\ Delivers(j, {TestWord(leg, word)}, word # "failed")
             /\ found' = found \cup {<<leg, IF word = "failed" THEN "one" ELSE "zero">>}
             /\ everPassed' = IF word = "pass" THEN everPassed \cup {pass} ELSE everPassed
             /\ \/ Stores(word) /\ kept' = kept \cup {pass}
                \/ kept' = kept
    BY <1>3
  <2>2. \A r \in {TestWord(leg, word)} : EarnedAs(r.leg, r.verdict)'
    BY <2>1, TestWordEarned
  <2>3. /\ UNCHANGED <<layout, inputs, testAll>> /\ found \subseteq found' /\ everPassed \subseteq everPassed'
        /\ kept' \subseteq everPassed'
    BY <1>1, <2>1 DEF Stores, JobsInv
  <2>4. /\ DOMAIN job' = AllJobs /\ DOMAIN artifacts' = AllJobs
        /\ \A k \in AllJobs : Uploaded(artifacts[k])'
        /\ \A k \in AllJobs \ {j} : job'[k] = job[k]
    BY <1>0, <2>1, <2>2, <2>3, Delivered
  <2>5. AtWork
    BY <1>0, <1>1, <2>3, <2>4 DEF AtWork, AllJobs, PlanJob
  <2> QED
    BY <2>3, <2>4, <2>5, WorkKeeps DEF JobsInv
<1> QED
  BY <1>2, <1>3 DEF TestProject

LEMMA LostStep ==
  ASSUME JobsInv, NEW j, Lost(j) PROVE AtWork /\ JobsInv'
<1>0. j \in Jobs(layout) /\ j \in AllJobs /\ j # PlanJob /\ step = "jobs"
  BY JobKinds DEF Lost, Starts, JobsInv
<1>1. /\ job' = [job EXCEPT ![j] = "failed"]
      /\ UNCHANGED <<planning, folding, artifacts, label, labels, found, everPassed, vouched>>
  BY DEF Lost
<1>2. \A k \in AllJobs : Uploaded(artifacts[k])'
  BY <1>1, EarnedStays DEF JobsInv, Uploaded, planning
<1>3. AtWork
  BY <1>0, <1>1 DEF AtWork, planning
<1> QED
  BY <1>1, <1>2, <1>3, WorkKeeps DEF JobsInv, planning

LEMMA RunJobStep == ASSUME JobsInv, RunJob PROVE AtWork /\ JobsInv'
  BY RustStep, ImportStep, DocsStep, TestRustStep, TestProjectStep, LostStep DEF RunJob

-----------------------------------------------------------------------------
(* The other steps.                                                           *)
LEMMA WorkStep == ASSUME PipelineInv, RunJob PROVE PipelineInv'
<1>1. AtWork /\ JobsInv'
  BY RunJobStep DEF PipelineInv
<1>2. PlanInv'
  BY <1>1 DEF PipelineInv, PlanInv, AtWork, folding
<1>3. ASSUME NEW leg \in seen, NEW word, EarnedAs(leg, word) PROVE EarnedAs(leg, word)'
  BY <1>1, <1>3, EarnedStays DEF AtWork
<1>4. SeenInv'
  BY <1>1, <1>3 DEF PipelineInv, SeenInv, AtWork, folding
<1>5. LabelInv' /\ ConclusionInv'
  BY <1>1 DEF PipelineInv, LabelInv, ConclusionInv, AtWork, folding
<1> QED
  BY <1>1, <1>2, <1>4, <1>5 DEF PipelineInv

(* What the plan settles itself needs no run.                                 *)
LEMMA SettledEarned ==
  ASSUME NEW every \in BOOLEAN, NEW stored, stored \subseteq everPassed,
         NEW t \in DOMAIN Settle(every, stored)
  PROVE  /\ Settle(every, stored)[t] \in {"reused", "skipped"} /\ t \in layout.tests /\ ~every
         /\ inputs[t] = Base \/ <<t, inputs[t]>> \in everPassed
<1> DEFINE reusedNow == Reused(every, stored)
           skipped == {u \in layout.tests : ~Reached(u, every)}
<1>1. t \in reusedNow \cup skipped
  BY DEF Settle
<1>2. Settle(every, stored)[t] = IF t \in reusedNow THEN "reused" ELSE "skipped"
  BY <1>1 DEF Settle
<1>3. CASE t \in reusedNow
  BY <1>2, <1>3 DEF Reused
<1>4. CASE t \in skipped
  BY <1>2, <1>4 DEF Reached
<1> QED
  BY <1>1, <1>3, <1>4

LEMMA PlanStep == ASSUME PipelineInv, Plan PROVE PipelineInv'
<1>1. PICK every \in BOOLEAN, stored \in SUBSET kept : testAll' = every /\ settled' = Settle(every, stored)
  BY DEF Plan
<1> DEFINE words == {TestWord(<<t, None>>, settled'[t]) : t \in DOMAIN settled'}
<1>2. /\ step = "plan" /\ step' = "jobs"
      /\ artifacts' = [artifacts EXCEPT ![PlanJob] = words]
      /\ UNCHANGED <<faults, layout, inputs, kept, label, onPr, accepted, pending, sections,
                     seen, conclusion, pushes, attempts, labels, found, everPassed, vouched>>
  BY DEF Plan, PlanJob
<1>3. /\ \A j \in AllJobs : artifacts[j] = {}
      /\ pending = {} /\ seen = {}
  BY <1>2 DEF PipelineInv, PlanInv
<1>4. ASSUME NEW r \in words PROVE EarnedAs(r.leg, r.verdict)'
  <2>1. PICK t \in DOMAIN settled' : r = TestWord(<<t, None>>, settled'[t])
    OBVIOUS
  <2>2. /\ settled'[t] \in {"reused", "skipped"} /\ t \in layout.tests /\ ~every
        /\ inputs[t] = Base \/ <<t, inputs[t]>> \in everPassed
    BY <1>1, <2>1, SettledEarned DEF PipelineInv, JobsInv
  <2>3. r.leg = <<t, None>> /\ r.verdict = "pass"
    BY <2>1, <2>2 DEF TestWord, Rec
  <2> QED
    BY <1>1, <1>2, <2>2, <2>3 DEF EarnedAs
<1>5. JobsInv'
  <2>1. DOMAIN job' = AllJobs /\ DOMAIN artifacts' = AllJobs
    BY <1>2 DEF Plan, PipelineInv, JobsInv
  <2>2. ASSUME NEW j \in AllJobs PROVE Uploaded(artifacts[j])'
    <3>1. artifacts'[j] = words \/ artifacts'[j] = {}
      BY <1>2, <1>3 DEF PipelineInv, JobsInv
    <3> HIDE DEF words
    <3> QED
      BY <1>4, <3>1 DEF Uploaded
  <2> QED
    BY <1>2, <1>3, <2>1, <2>2 DEF PipelineInv, JobsInv, Uploaded
<1>6. job'[PlanJob] = "ok"
  <2>1. PlanJob \in AllJobs /\ PlanJob \notin Jobs(layout)
    BY JobKinds DEF AllJobs, PlanJob, PipelineInv, JobsInv
  <2> QED
    BY <2>1 DEF Plan, PlanJob
<1>7. PlanInv' /\ SeenInv' /\ LabelInv' /\ ConclusionInv'
  BY <1>2, <1>3, <1>6 DEF PipelineInv, PlanInv, SeenInv, LabelInv, ConclusionInv
<1> QED
  BY <1>5, <1>7 DEF PipelineInv

(* Steps of the verdict job change no record and no finding.                  *)
LEMMA EarnedSame ==
  ASSUME UNCHANGED <<layout, inputs, testAll, found, everPassed>>, NEW leg, NEW word
  PROVE  EarnedAs(leg, word)' <=> EarnedAs(leg, word)
  BY DEF EarnedAs, Found

LEMMA SeenSame ==
  ASSUME SeenInv, UNCHANGED <<layout, inputs, testAll, found, everPassed, sections, seen>>
  PROVE  SeenInv'
  BY EarnedSame DEF SeenInv

LEMMA JobsSame ==
  ASSUME JobsInv, UNCHANGED <<layout, inputs, kept, testAll, found, everPassed, job, artifacts>>,
         Uploaded(pending')
  PROVE  JobsInv'
<1>1. \A j \in AllJobs : Uploaded(artifacts[j])'
  BY EarnedSame DEF JobsInv, Uploaded
<1>2. Uploaded(pending)'
  BY EarnedSame DEF Uploaded
<1> QED
  BY <1>1, <1>2 DEF JobsInv

LEMMA PlanFailsStep == ASSUME PipelineInv, PlanFails PROVE PipelineInv'
<1>1. /\ step = "plan" /\ step' = "done" /\ conclusion' = "red"
      /\ job' = [job EXCEPT ![PlanJob] = "failed"]
      /\ UNCHANGED <<faults, layout, inputs, kept, testAll, settled, artifacts, label, onPr, accepted,
                     pending, sections, seen, pushes, attempts, labels, found, everPassed, vouched>>
  BY DEF PlanFails, PlanJob
<1>2. JobsInv'
  BY <1>1, EarnedSame DEF PipelineInv, JobsInv, Uploaded
<1>3. SeenInv'
  BY <1>1, SeenSame DEF PipelineInv
<1>4. PlanInv' /\ LabelInv' /\ ConclusionInv'
  BY <1>1 DEF PipelineInv, PlanInv, LabelInv, ConclusionInv
<1> QED
  BY <1>2, <1>3, <1>4 DEF PipelineInv

LEMMA CollectStep == ASSUME PipelineInv, Collect PROVE PipelineInv'
<1>1. /\ step = "jobs" /\ step' = "label"
      /\ pending' = UNION {artifacts[j] : j \in AllJobs}
      /\ UNCHANGED <<faults, planning, job, artifacts, label, labels, onPr, accepted, sections, seen,
                     conclusion, found, everPassed, vouched>>
  BY DEF Collect
<1>2. Uploaded(pending')
  BY <1>1 DEF PipelineInv, JobsInv, Uploaded
<1>3. JobsInv'
  BY <1>1, <1>2, JobsSame DEF PipelineInv, planning
<1>4. SeenInv'
  BY <1>1, SeenSame DEF PipelineInv, planning
<1>5. PlanInv' /\ LabelInv' /\ ConclusionInv'
  BY <1>1 DEF PipelineInv, PlanInv, LabelInv, ConclusionInv
<1> QED
  BY <1>3, <1>4, <1>5 DEF PipelineInv

(* The label, and what the verdict job finds of it.                           *)
LEMMA LabelStep ==
  ASSUME PipelineInv, ReadLabel \/ ReadLabeler \/ (\E u \in Writers \cup Readers : Label(u)) \/ Unlabel
  PROVE  PipelineInv'
<1>1. /\ step \in {"label", "labeler"} /\ step' \in {"label", "labeler", "fold"}
      /\ UNCHANGED <<planning, job, artifacts, pending, sections, seen, conclusion, found, everPassed>>
  BY DEF ReadLabel, ReadLabeler, Label, Unlabel, LabelRead, folding
<1>2. Uploaded(pending')
  BY <1>1 DEF PipelineInv, JobsInv
<1>3. JobsInv'
  BY <1>1, <1>2, JobsSame DEF PipelineInv, planning
<1>4. SeenInv'
  BY <1>1, SeenSame DEF PipelineInv, planning
<1>5. PlanInv' /\ ConclusionInv'
  BY <1>1 DEF PipelineInv, PlanInv, ConclusionInv
<1>6. LabelInv'
  <2>1. CASE ReadLabel
    BY <2>1 DEF PipelineInv, LabelInv, ReadLabel
  <2>2. CASE ReadLabeler
    BY <2>2 DEF PipelineInv, LabelInv, ReadLabeler, MayWaive
  <2>3. CASE \E u \in Writers \cup Readers : Label(u)
    <3>1. PICK u \in Writers \cup Readers : Label(u)
      BY <2>3
    <3>2. label'.by = u /\ UNCHANGED <<accepted, step>>
      BY <3>1 DEF Label, folding
    <3>3. vouched' = (vouched \/ u \in Writers)
      BY <3>1 DEF Label
    <3>4. vouched \/ u \in Writers => vouched'
      BY <3>3
    <3> QED
      BY <3>2, <3>4 DEF PipelineInv, LabelInv
  <2>4. CASE Unlabel
    <3>1. label'.by = label.by
      BY <2>4 DEF Unlabel
    <3> QED
      BY <2>4, <3>1 DEF PipelineInv, LabelInv, Unlabel, LabelRead, folding
  <2> QED
    BY <2>1, <2>2, <2>3, <2>4
<1> QED
  BY <1>3, <1>4, <1>5, <1>6 DEF PipelineInv

-----------------------------------------------------------------------------
(* Folding a record: its section gets no better than it.                      *)
LEMMA AbsorbWorse ==
  ASSUME NEW sec, NEW r, sec.verdict \in Words, r.verdict \in Words, IsSection(sec)
  PROVE  /\ IsSection(Absorb(sec, r))
         /\ Absorb(sec, r).verdict \in {sec.verdict, r.verdict}
         /\ Rank[Absorb(sec, r).verdict] <= Rank[sec.verdict]
         /\ Rank[Absorb(sec, r).verdict] <= Rank[r.verdict]
<1> DEFINE tail == IF Rank[r.verdict] < Rank[sec.verdict] /\ r.tail # <<>> THEN r.tail
                   ELSE IF r.verdict = sec.verdict THEN LastBlocks(sec.tail \o r.tail)
                   ELSE sec.tail
           verdict == IF Rank[r.verdict] < Rank[sec.verdict] THEN r.verdict ELSE sec.verdict
           flaky == sec.flaky \/ r.flaky
           unevaluated == sec.unevaluated \/ r.unevaluated
<1>1. Absorb(sec, r) = [sec EXCEPT !.tail = tail, !.verdict = verdict, !.flaky = flaky,
                                   !.unevaluated = unevaluated]
  BY DEF Absorb
<1> HIDE DEF tail, flaky, unevaluated
<1>2. Absorb(sec, r) = [kind |-> sec.kind, verdict |-> verdict, tail |-> tail, flaky |-> flaky,
                        unevaluated |-> unevaluated]
  <2> HIDE DEF verdict
  <2> QED
    BY <1>1 DEF IsSection
<1> QED
  BY <1>2, Ranks DEF IsSection

SectionOf(r) == [kind |-> r.kind, verdict |-> r.verdict, tail |-> r.tail,
                 flaky |-> r.flaky, unevaluated |-> r.unevaluated]

LEMMA FoldStep ==
  ASSUME PipelineInv, Fold PROVE PipelineInv'
<1>1. PICK r \in pending :
        LET n == r.leg[1]
        IN /\ pending' = pending \ {r}
           /\ seen' = seen \cup {r.leg}
           /\ sections' = [m \in DOMAIN sections \cup {n} |->
                              IF m # n THEN sections[m]
                              ELSE IF n \in DOMAIN sections THEN Absorb(sections[n], r)
                              ELSE SectionOf(r)]
  BY DEF Fold, SectionOf
<1> DEFINE n == r.leg[1]
<1>2. /\ step = "fold" /\ step' = "fold"
      /\ UNCHANGED <<faults, planning, job, artifacts, label, labels, onPr, accepted, conclusion,
                     found, everPassed, vouched>>
  BY DEF Fold
<1>3. JobsInv'
  BY <1>1, <1>2, JobsSame DEF PipelineInv, JobsInv, Uploaded, planning
<1>4. EarnedAs(r.leg, r.verdict) /\ r.verdict \in Words
  BY EarnedWords DEF PipelineInv, JobsInv, Uploaded
<1>5. SeenInv'
  <2>1. /\ IsSection(sections'[n]) /\ sections'[n].verdict \in Words
        /\ Rank[sections'[n].verdict] <= Rank[r.verdict]
    <3>1. CASE n \in DOMAIN sections
      <4>1. sections'[n] = Absorb(sections[n], r)
        BY <1>1, <3>1
      <4> QED
        BY <1>4, <3>1, <4>1, AbsorbWorse DEF PipelineInv, SeenInv
    <3>2. CASE n \notin DOMAIN sections
      <4>1. sections'[n] = SectionOf(r)
        BY <1>1, <3>2
      <4> QED
        BY <1>4, <4>1, Ranks DEF SectionOf, IsSection
    <3> QED
      BY <3>1, <3>2
  <2>2. ASSUME NEW m \in DOMAIN sections
        PROVE  /\ m \in DOMAIN sections' /\ IsSection(sections'[m]) /\ sections'[m].verdict \in Words
               /\ Rank[sections'[m].verdict] <= Rank[sections[m].verdict]
    <3>1. CASE m = n
      <4>1. sections'[n] = Absorb(sections[n], r)
        BY <1>1, <3>1
      <4> QED
        BY <1>1, <1>4, <3>1, <4>1, AbsorbWorse DEF PipelineInv, SeenInv
    <3>2. CASE m # n
      <4>1. m \in DOMAIN sections' /\ sections'[m] = sections[m]
        BY <1>1, <3>2
      <4> QED
        BY <4>1, Ranks DEF PipelineInv, SeenInv
    <3> QED
      BY <3>1, <3>2
  <2>3. DOMAIN sections' = DOMAIN sections \cup {n}
    BY <1>1
  <2>4. ASSUME NEW leg \in seen'
        PROVE  /\ leg[1] \in DOMAIN sections'
               /\ \E word \in Words : EarnedAs(leg, word) /\ Rank[sections'[leg[1]].verdict] <= Rank[word]
    <3>1. CASE leg = r.leg
      BY <1>4, <2>1, <2>3, <3>1
    <3>2. CASE leg \in seen
      <4>1. PICK word \in Words : EarnedAs(leg, word) /\ Rank[sections[leg[1]].verdict] <= Rank[word]
        BY <3>2 DEF PipelineInv, SeenInv
      <4>2. leg[1] \in DOMAIN sections /\ sections[leg[1]].verdict \in Words
        BY <3>2 DEF PipelineInv, SeenInv
      <4>3. /\ leg[1] \in DOMAIN sections' /\ sections'[leg[1]].verdict \in Words
            /\ Rank[sections'[leg[1]].verdict] <= Rank[sections[leg[1]].verdict]
        BY <2>2, <4>2
      <4> QED
        BY <4>1, <4>2, <4>3, Ranks
    <3> QED
      BY <1>1, <3>1, <3>2
  <2>5. \A leg, word : EarnedAs(leg, word)' <=> EarnedAs(leg, word)
    BY <1>2, EarnedSame DEF planning
  <2> QED
    BY <2>1, <2>2, <2>3, <2>4, <2>5 DEF SeenInv
<1>6. PlanInv' /\ LabelInv' /\ ConclusionInv'
  BY <1>2 DEF PipelineInv, PlanInv, LabelInv, ConclusionInv
<1> QED
  BY <1>3, <1>5, <1>6 DEF PipelineInv

LEMMA ConcludeStep ==
  ASSUME OwnNames, PipelineInv, Conclude PROVE PipelineInv'
<1> DEFINE missing == Expected(layout) \ seen
           verdicts == {sections[n].verdict : n \in DOMAIN sections}
                         \cup (IF missing = {} THEN {} ELSE {"errored"})
<1>1. /\ step = "fold" /\ pending = {} /\ step' = "done"
      /\ conclusion' = IF Fails(verdicts, accepted) THEN "red" ELSE "green"
      /\ UNCHANGED <<faults, planning, job, artifacts, label, labels, onPr, accepted, pending, sections,
                     seen, found, everPassed, vouched>>
  BY DEF Conclude
<1>2. JobsInv'
  BY <1>1, JobsSame DEF PipelineInv, JobsInv, planning
<1>3. SeenInv'
  BY <1>1, SeenSame DEF PipelineInv, planning
<1>4. PlanInv' /\ LabelInv'
  BY <1>1 DEF PipelineInv, PlanInv, LabelInv
<1>5. ASSUME conclusion' = "green", NEW j \in Jobs(layout), NEW leg \in LegsOf(layout, j)
      PROVE  LegEarned(j, leg)
  <2>1. ~Fails(verdicts, accepted)
    BY <1>1, <1>5
  <2>2. "errored" \notin verdicts /\ ("regressed" \in verdicts => accepted)
    BY <2>1 DEF Fails
  <2>3. leg \in seen
    BY <1>5, <2>2, LegNames DEF PipelineInv, JobsInv
  <2>4. PICK word \in Words : EarnedAs(leg, word) /\ Rank[sections[leg[1]].verdict] <= Rank[word]
    BY <2>3 DEF PipelineInv, SeenInv
  <2>5. sections[leg[1]].verdict \in verdicts /\ sections[leg[1]].verdict \in Words
    BY <2>3 DEF PipelineInv, SeenInv
  <2> HIDE DEF verdicts
  <2>6. word # "errored" /\ (word = "regressed" => sections[leg[1]].verdict = "regressed")
    BY <2>2, <2>4, <2>5, Ranks DEF Words
  <2>7. word = "regressed" => vouched
    BY <2>2, <2>5, <2>6 DEF PipelineInv, LabelInv
  <2>8. /\ leg[1] \in layout.packages \cup layout.imports => j[1] \in {"rust", "import"}
        /\ leg[1] \in layout.tests => j[1] = "project" /\ j[2] = leg[1]
    BY <1>5, LegNames DEF PipelineInv, JobsInv
  <2> QED
    BY <2>4, <2>6, <2>7, <2>8 DEF EarnedAs, LegEarned
<1>6. ConclusionInv'
  BY <1>1, <1>5 DEF ConclusionInv, LegEarned, Found, planning
<1> QED
  BY <1>2, <1>3, <1>4, <1>6 DEF PipelineInv

LEMMA LostVerdictStep == ASSUME PipelineInv, VerdictLost PROVE PipelineInv'
<1>1. /\ step \in {"label", "labeler", "fold"} /\ step' = "done" /\ conclusion' = "lost"
      /\ UNCHANGED <<faults, planning, job, artifacts, label, labels, onPr, accepted, pending, sections,
                     seen, found, everPassed, vouched>>
  BY DEF VerdictLost
<1>2. JobsInv'
  BY <1>1, JobsSame DEF PipelineInv, JobsInv, planning
<1>3. SeenInv'
  BY <1>1, SeenSame DEF PipelineInv, planning
<1>4. PlanInv' /\ LabelInv' /\ ConclusionInv'
  BY <1>1 DEF PipelineInv, PlanInv, LabelInv, ConclusionInv
<1> QED
  BY <1>2, <1>3, <1>4 DEF PipelineInv

(* A later attempt keeps what jobs uploaded, and a push nothing.              *)
LEMMA RerunStep == ASSUME PipelineInv, Rerun PROVE PipelineInv'
<1> DEFINE again == {j \in Jobs(layout) : job[j] = "failed"}
           gates == {j \in again : j[1] \in {"rust", "import"}}
           docs == {j \in Jobs(layout) : j[1] = "docs" /\ gates # {}}
           replan == job[PlanJob] = "failed"
<1>1. /\ job' = [j \in AllJobs |->
                   IF replan THEN "unplanned" ELSE IF j \in again \cup docs THEN "waiting" ELSE job[j]]
      /\ step' = IF replan THEN "plan" ELSE "jobs"
      /\ accepted' = FALSE /\ vouched' = FALSE
      /\ pending' = {} /\ sections' = NoSections /\ seen' = {} /\ conclusion' = None
      /\ UNCHANGED <<faults, layout, inputs, kept, testAll, settled, pushes, artifacts, label, labels,
                     found, everPassed>>
  BY DEF Rerun, PlanJob
<1>2. PlanJob \in AllJobs /\ PlanJob \notin Jobs(layout)
  BY JobKinds DEF AllJobs, PlanJob, PipelineInv, JobsInv
<1>3. job'[PlanJob] = IF replan THEN "unplanned" ELSE job[PlanJob]
  BY <1>1, <1>2
<1>4. JobsInv'
  BY <1>1, EarnedSame DEF PipelineInv, JobsInv, Uploaded
<1>5. PlanInv'
  <2>1. job'[PlanJob] # "failed"
    BY <1>3
  <2>2. step' = "plan" => replan
    BY <1>1
  <2> QED
    BY <1>1, <2>1, <2>2 DEF PipelineInv, PlanInv
<1> HIDE DEF replan
<1>6. SeenInv' /\ LabelInv' /\ ConclusionInv'
  BY <1>1, VerdictAssumption DEF SeenInv, LabelInv, ConclusionInv, NoSections
<1> QED
  BY <1>4, <1>5, <1>6 DEF PipelineInv

LEMMA PushStep == ASSUME PipelineInv, Push PROVE PipelineInv'
<1>1. PlanJob \in AllJobs
  BY DEF AllJobs, PlanJob
<1>2. JobsInv'
  BY DEF PipelineInv, JobsInv, Push, Uploaded
<1>3. PlanInv'
  BY <1>1 DEF PlanInv, Push
<1>4. SeenInv' /\ LabelInv' /\ ConclusionInv'
  BY VerdictAssumption DEF SeenInv, LabelInv, ConclusionInv, NoSections, Push
<1> QED
  BY <1>2, <1>3, <1>4 DEF PipelineInv

LEMMA PipelineInit == VerdictInit => PipelineInv
<1> SUFFICES ASSUME VerdictInit PROVE PipelineInv
  OBVIOUS
<1>1. PlanJob \in AllJobs
  BY DEF AllJobs, PlanJob
<1>2. JobsInv
  BY DEF VerdictInit, JobsInv, Uploaded
<1>3. PlanInv
  BY <1>1 DEF VerdictInit, PlanInv
<1>4. SeenInv /\ LabelInv /\ ConclusionInv
  BY VerdictAssumption DEF VerdictInit, SeenInv, LabelInv, ConclusionInv, NoSections
<1> QED
  BY <1>2, <1>3, <1>4 DEF PipelineInv

LEMMA StutterStep == ASSUME PipelineInv, UNCHANGED verdictVars PROVE PipelineInv'
<1>1. JobsInv' /\ PlanInv'
  BY DEF verdictVars, PipelineInv, JobsInv, PlanInv, Uploaded, EarnedAs, Found
<1>2. SeenInv'
  BY SeenSame DEF verdictVars, PipelineInv
<1>3. LabelInv' /\ ConclusionInv'
  BY DEF verdictVars, PipelineInv, LabelInv, ConclusionInv, LegEarned, Found
<1> QED
  BY <1>1, <1>2, <1>3 DEF PipelineInv

LEMMA PipelineStep == ASSUME OwnNames, PipelineInv, [VerdictNext]_verdictVars PROVE PipelineInv'
  BY WorkStep, PlanStep, PlanFailsStep, CollectStep, LabelStep, FoldStep, ConcludeStep,
     LostVerdictStep, RerunStep, PushStep, StutterStep DEF VerdictNext, Judge, Done

(* A green check is earned, whatever jobs were lost, killed, cut short or run *)
(* again, and whoever changed the label: every leg the repository asks for    *)
(* passed, or regressed while a writer's label was on, or is a test that need *)
(* not run.                                                                   *)
THEOREM GreenCheckIsEarned == ASSUME OwnNames PROVE VerdictSpec => []ConclusionIsEarned
<1>1. VerdictInit => PipelineInv
  BY PipelineInit
<1>2. PipelineInv /\ [VerdictNext]_verdictVars => PipelineInv'
  BY PipelineStep
<1>3. PipelineInv => ConclusionIsEarned
  BY DEF PipelineInv, ConclusionInv, ConclusionIsEarned, LegEarned
<1> QED
  BY <1>1, <1>2, <1>3, PTL DEF VerdictSpec

-----------------------------------------------------------------------------
(* What the order of the files does not change.                               *)
Outputs == Legs \cup {<<l, "unreadable">> : l \in Legs}

GoodRecord(r) ==
  /\ r.verdict \in Words /\ r.flaky \in BOOLEAN /\ r.unevaluated \in BOOLEAN
  /\ r.tail = <<>> \/ \E x \in Outputs : r.tail = <<x>>

GoodSection(sec) == IsSection(sec) /\ sec.verdict \in Words /\ sec.tail \in Seq(Outputs)

(* Some of the records as decisive as the section have output.                *)
Deciding(sec, recs) == {r \in recs : r.verdict = sec.verdict}
Shown(sec, recs) ==
  (\E r \in Deciding(sec, recs) : r.tail # <<>>) =>
     sec.tail # <<>> /\ \E r \in Deciding(sec, recs) :
                          r.tail # <<>> /\ sec.tail[Len(sec.tail)] = r.tail[1]

Sums(sec, recs) ==
  /\ Deciding(sec, recs) # {}
  /\ \A r \in recs : Rank[sec.verdict] <= Rank[r.verdict]
  /\ sec.flaky = (\E r \in recs : r.flaky)
  /\ sec.unevaluated = (\E r \in recs : r.unevaluated)
  /\ Shown(sec, recs)

LEMMA LastOfBlocks ==
  ASSUME NEW S, NEW s \in Seq(S)
  PROVE  /\ LastBlocks(s) \in Seq(S)
         /\ s # <<>> => LastBlocks(s) # <<>> /\ LastBlocks(s)[Len(LastBlocks(s))] = s[Len(s)]
<1>1. CASE Len(s) <= TailBlocks
  BY <1>1 DEF LastBlocks
<1>2. CASE ~(Len(s) <= TailBlocks)
  <2> DEFINE m == Len(s) - TailBlocks + 1
             b == SubSeq(s, m, Len(s))
  <2>1. m \in Nat /\ m >= 1 /\ m <= Len(s) /\ Len(s) - m + 1 = TailBlocks /\ TailBlocks >= 1
    BY <1>2, VerdictAssumption
  <2>2. b \in Seq(S) /\ Len(b) = TailBlocks /\ b[TailBlocks] = s[Len(s)]
    <3>1. \A i \in m .. Len(s) : s[i] \in S
      BY <2>1
    <3>2. m \in Int /\ Len(s) \in Int /\ TailBlocks \in Nat
      BY VerdictAssumption
    <3> HIDE DEF m
    <3>3. /\ b \in Seq(S) /\ Len(b) = IF m <= Len(s) THEN Len(s) - m + 1 ELSE 0
          /\ \A i \in 1 .. Len(s) - m + 1 : b[i] = s[m + i - 1]
      BY <3>1, <3>2, SubSeqProperties
    <3> HIDE DEF b
    <3>4. m + TailBlocks - 1 = Len(s) /\ TailBlocks \in 1 .. Len(s) - m + 1
      BY <2>1, <3>2
    <3>5. b[TailBlocks] = s[m + TailBlocks - 1]
      BY <3>3, <3>4
    <3>6. Len(b) = TailBlocks
      BY <2>1, <3>3
    <3> QED
      BY <3>3, <3>4, <3>5, <3>6
  <2>3. LastBlocks(s) = b
    BY <1>2 DEF LastBlocks
  <2>4. TailBlocks \in Nat \ {0}
    BY VerdictAssumption
  <2> HIDE DEF b
  <2>5. b # <<>>
    BY <2>2, <2>4
  <2> QED
    BY <2>2, <2>3, <2>5
<1> QED
  BY <1>1, <1>2

LEMMA OneOutput ==
  ASSUME NEW r, GoodRecord(r)
  PROVE  /\ r.tail \in Seq(Outputs)
         /\ r.tail # <<>> => \E x \in Outputs : r.tail = <<x>> /\ r.tail[1] = x /\ Len(r.tail) = 1
<1>1. CASE r.tail = <<>>
  BY <1>1
<1>2. ASSUME NEW x \in Outputs, r.tail = <<x>>
      PROVE  r.tail \in Seq(Outputs) /\ r.tail[1] = x /\ Len(r.tail) = 1
  BY <1>2
<1> QED
  BY <1>1, <1>2 DEF GoodRecord

LEMMA FirstSum == ASSUME NEW r, GoodRecord(r) PROVE GoodSection(SectionOf(r)) /\ Sums(SectionOf(r), {r})
<1>1. Deciding(SectionOf(r), {r}) = {r}
  BY DEF Deciding, SectionOf
<1>2. r.tail \in Seq(Outputs) /\ (r.tail # <<>> => r.tail[Len(r.tail)] = r.tail[1])
  BY OneOutput
<1>3. GoodSection(SectionOf(r))
  BY <1>2 DEF GoodSection, IsSection, SectionOf, GoodRecord
<1>4. /\ SectionOf(r).verdict = r.verdict /\ SectionOf(r).tail = r.tail
      /\ SectionOf(r).flaky = r.flaky /\ SectionOf(r).unevaluated = r.unevaluated
  BY DEF SectionOf
<1>5. Shown(SectionOf(r), {r})
  BY <1>1, <1>2, <1>4 DEF Shown
<1>6. Rank[r.verdict] \in Nat
  BY Ranks DEF GoodRecord
<1>7. r.flaky = (\E q \in {r} : q.flaky) /\ r.unevaluated = (\E q \in {r} : q.unevaluated)
  BY DEF GoodRecord
<1> QED
  BY <1>1, <1>3, <1>4, <1>5, <1>6, <1>7 DEF Sums

LEMMA NextSum ==
  ASSUME NEW sec, NEW recs, NEW r, GoodSection(sec), Sums(sec, recs), GoodRecord(r),
         \A q \in recs : GoodRecord(q)
  PROVE  GoodSection(Absorb(sec, r)) /\ Sums(Absorb(sec, r), recs \cup {r})
<1> DEFINE new == Absorb(sec, r)
           joined == LastBlocks(sec.tail \o r.tail)
           every == recs \cup {r}
<1>1. /\ IsSection(new) /\ new.verdict \in Words
      /\ new.verdict = IF Rank[r.verdict] < Rank[sec.verdict] THEN r.verdict ELSE sec.verdict
      /\ new.tail = IF Rank[r.verdict] < Rank[sec.verdict] /\ r.tail # <<>> THEN r.tail
                    ELSE IF r.verdict = sec.verdict THEN joined ELSE sec.tail
      /\ new.flaky = (sec.flaky \/ r.flaky)
      /\ new.unevaluated = (sec.unevaluated \/ r.unevaluated)
  <2> DEFINE tail == IF Rank[r.verdict] < Rank[sec.verdict] /\ r.tail # <<>> THEN r.tail
                     ELSE IF r.verdict = sec.verdict THEN LastBlocks(sec.tail \o r.tail)
                     ELSE sec.tail
             verdict == IF Rank[r.verdict] < Rank[sec.verdict] THEN r.verdict ELSE sec.verdict
             flaky == sec.flaky \/ r.flaky
             unevaluated == sec.unevaluated \/ r.unevaluated
  <2>1. Absorb(sec, r) = [sec EXCEPT !.tail = tail, !.verdict = verdict, !.flaky = flaky,
                                     !.unevaluated = unevaluated]
    BY DEF Absorb
  <2>2. verdict \in Words
    BY DEF GoodSection, GoodRecord
  <2> HIDE DEF tail, flaky, unevaluated, verdict
  <2>3. Absorb(sec, r) = [kind |-> sec.kind, verdict |-> verdict, tail |-> tail, flaky |-> flaky,
                          unevaluated |-> unevaluated]
    BY <2>1 DEF GoodSection, IsSection
  <2>4. IsSection(new) /\ new.verdict = verdict /\ new.tail = tail /\ new.flaky = flaky
        /\ new.unevaluated = unevaluated
    BY <2>3 DEF IsSection
  <2> QED
    BY <2>2, <2>4 DEF tail, flaky, unevaluated, verdict
<1>2. r.tail \in Seq(Outputs) /\ sec.tail \in Seq(Outputs)
  BY OneOutput DEF GoodSection
<1> DEFINE both == sec.tail \o r.tail
<1>3. both \in Seq(Outputs) /\ joined \in Seq(Outputs)
  <2>1. both \in Seq(Outputs)
    BY <1>2, ConcatProperties
  <2> HIDE DEF both
  <2>2. LastBlocks(both) \in Seq(Outputs)
    BY <2>1, LastOfBlocks
  <2> QED
    BY <2>1, <2>2 DEF both
<1>4. Rank[r.verdict] \in Nat /\ Rank[sec.verdict] \in Nat /\ \A q \in recs : Rank[q.verdict] \in Nat
  BY Ranks DEF GoodRecord, GoodSection
<1>5. GoodSection(new)
  BY <1>1, <1>2, <1>3 DEF GoodSection
<1>6. \A q \in every : Rank[new.verdict] <= Rank[q.verdict]
  BY <1>1, <1>4 DEF Sums
<1>7. new.flaky = (\E q \in every : q.flaky) /\ new.unevaluated = (\E q \in every : q.unevaluated)
  <2>1. /\ sec.flaky = (\E q \in recs : q.flaky) /\ sec.unevaluated = (\E q \in recs : q.unevaluated)
        /\ r.flaky \in BOOLEAN /\ r.unevaluated \in BOOLEAN
    BY DEF Sums, GoodRecord
  <2> HIDE DEF new
  <2>2. (sec.flaky \/ r.flaky) <=> (\E q \in every : q.flaky)
    BY <2>1
  <2>3. (sec.unevaluated \/ r.unevaluated) <=> (\E q \in every : q.unevaluated)
    BY <2>1
  <2> QED
    BY <1>1, <2>2, <2>3
<1>8. Deciding(new, every) # {} /\ Shown(new, every)
  <2> HIDE DEF new
  <2>1. CASE Rank[r.verdict] < Rank[sec.verdict]
    <3>1. new.verdict = r.verdict
      BY <1>1, <2>1
    <3>2. Deciding(new, every) = {r}
      BY <1>4, <2>1, <3>1 DEF Deciding, Sums
    <3>3. CASE r.tail = <<>>
      BY <3>2, <3>3 DEF Shown
    <3>4. CASE r.tail # <<>>
      <4>1. new.tail = r.tail
        BY <1>1, <2>1, <3>4
      <4>2. r.tail[Len(r.tail)] = r.tail[1]
        BY <3>4, OneOutput
      <4> QED
        BY <3>2, <3>4, <4>1, <4>2 DEF Shown
    <3> QED
      BY <3>2, <3>3, <3>4
  <2>2. CASE r.verdict = sec.verdict
    <3>1. new.verdict = sec.verdict /\ new.tail = joined
      BY <1>1, <1>4, <2>2
    <3>2. Deciding(new, every) = Deciding(sec, recs) \cup {r}
      BY <2>2, <3>1 DEF Deciding
    <3>3. CASE r.tail = <<>>
      <4>1. sec.tail \o r.tail = sec.tail
        BY <1>2, <3>3
      <4>2. sec.tail # <<>> => joined # <<>> /\ joined[Len(joined)] = sec.tail[Len(sec.tail)]
        BY <1>2, <4>1, LastOfBlocks
      <4> QED
        BY <3>1, <3>2, <3>3, <4>2 DEF Shown, Sums
    <3>4. CASE r.tail # <<>>
      <4>1. PICK x \in Outputs : r.tail = <<x>>
        BY <3>4, OneOutput
      <4>2. /\ sec.tail \o r.tail # <<>>
            /\ (sec.tail \o r.tail)[Len(sec.tail \o r.tail)] = x
        BY <1>2, <4>1
      <4>3. joined # <<>> /\ joined[Len(joined)] = x
        BY <1>3, <4>2, LastOfBlocks
      <4>4. r.tail[1] = x
        BY <4>1
      <4> QED
        BY <3>1, <3>2, <3>4, <4>3, <4>4 DEF Shown
    <3> QED
      BY <3>2, <3>3, <3>4
  <2>3. CASE Rank[r.verdict] > Rank[sec.verdict]
    <3>1. new.verdict = sec.verdict /\ new.tail = sec.tail
      BY <1>1, <1>4, <2>3
    <3>2. Deciding(new, every) = Deciding(sec, recs)
      BY <1>4, <2>3, <3>1 DEF Deciding
    <3> QED
      BY <3>1, <3>2 DEF Shown, Sums
  <2>4. r.verdict = sec.verdict \/ Rank[r.verdict] # Rank[sec.verdict]
    BY Ranks DEF Words, GoodRecord, GoodSection
  <2>5. \/ Rank[r.verdict] < Rank[sec.verdict] \/ r.verdict = sec.verdict
        \/ Rank[r.verdict] > Rank[sec.verdict]
    BY <1>4, <2>4
  <2> QED
    BY <2>1, <2>2, <2>3, <2>5
<1> HIDE DEF new
<1>9. Sums(new, every)
  BY <1>6, <1>7, <1>8 DEF Sums
<1> QED
  BY <1>5, <1>9 DEF new

(* The records jobs leave, cut short ones included, and what was made of them. *)
Good(recs) == \A r \in recs : GoodRecord(r)
Whole(recs) == \A r \in recs : GoodRecord(r) /\ r.leg \in Legs

AllRecords == UNION {artifacts[j] : j \in AllJobs}

RecordsInv == layout \in Layouts /\ DOMAIN artifacts = AllJobs /\ \A j \in AllJobs : Good(artifacts[j])

OrderInv ==
  /\ RecordsInv
  /\ step \in {"plan", "jobs", "label", "labeler"} => sections = NoSections
  /\ step \in {"label", "labeler"} => pending = AllRecords
  /\ step = "fold" =>
       /\ pending \subseteq AllRecords
       /\ \A r \in AllRecords \ pending : r.leg[1] \in DOMAIN sections
       /\ \A n \in DOMAIN sections : GoodSection(sections[n]) /\ Sums(sections[n], Folded(n))

LEMMA LegsAreLegs ==
  ASSUME NEW l \in Layouts, NEW j \in Jobs(l), NEW leg \in LegsOf(l, j) PROVE leg \in Legs
  BY DEF Legs, Expected

LEMMA RecordedWhole ==
  ASSUME NEW leg \in Legs, NEW kind, NEW end \in Ends, NEW silent, NEW unevaluated \in BOOLEAN
  PROVE  GoodRecord(Recorded(leg, kind, end, silent, unevaluated))
         /\ Recorded(leg, kind, end, silent, unevaluated).leg = leg
<1> DEFINE tail == IF silent THEN <<>> ELSE <<leg>>
           r == Recorded(leg, kind, end, silent, unevaluated)
<1>1. tail = <<>> \/ \E x \in Outputs : tail = <<x>>
  BY DEF Outputs
<1>2. Classify(end, kind) \in Words
  BY DEF Classify, Words, Ends
<1> HIDE DEF tail
<1>3. r.leg = leg /\ r.verdict = Classify(end, kind) /\ r.tail = tail /\ r.flaky = FALSE
      /\ r.unevaluated = unevaluated
  BY DEF Recorded, Rec, tail
<1> QED
  BY <1>1, <1>2, <1>3 DEF GoodRecord

LEMMA TestWordWhole ==
  ASSUME NEW leg \in Legs, NEW word \in {"pass", "flaky", "failed", "reused", "skipped"}
  PROVE  GoodRecord(TestWord(leg, word)) /\ TestWord(leg, word).leg = leg
<1> DEFINE tail == IF word \in {"reused", "skipped"} THEN <<>> ELSE <<leg>>
           verdict == CASE word \in {"pass", "reused", "skipped", "flaky"} -> "pass"
                        [] word = "failed" -> "errored"
           flaky == word = "flaky"
           r == TestWord(leg, word)
<1>1. tail = <<>> \/ \E x \in Outputs : tail = <<x>>
  BY DEF Outputs
<1>2. verdict \in Words
  BY DEF Words
<1>3. flaky \in BOOLEAN
  OBVIOUS
<1>4. r = Rec(leg, "test", verdict, tail, flaky, FALSE)
  BY DEF TestWord
<1> HIDE DEF tail, verdict, flaky, r
<1>5. r.leg = leg /\ r.verdict = verdict /\ r.tail = tail /\ r.flaky = flaky /\ r.unevaluated = FALSE
  BY <1>4 DEF Rec
<1> QED
  BY <1>1, <1>2, <1>3, <1>5 DEF GoodRecord, r

LEMMA UnreadableGood == ASSUME NEW r, r.leg \in Legs PROVE GoodRecord(Unreadable(r))
<1> DEFINE path == <<r.leg, "unreadable">>
           u == Unreadable(r)
<1>1. path \in Outputs
  BY DEF Outputs
<1>2. u = Rec(path, "result", "errored", <<path>>, FALSE, FALSE)
  BY DEF Unreadable
<1> HIDE DEF path, u
<1>3. u.verdict = "errored" /\ u.tail = <<path>> /\ u.flaky = FALSE /\ u.unevaluated = FALSE
  BY <1>2 DEF Rec
<1> QED
  BY <1>1, <1>3 DEF GoodRecord, Words, u

LEMMA DeliveredGood ==
  ASSUME RecordsInv, NEW j \in AllJobs, NEW recs, NEW fine, Delivers(j, recs, fine), Whole(recs),
         layout' = layout
  PROVE  RecordsInv'
<1>1. \/ artifacts' = artifacts
      \/ artifacts' = [artifacts EXCEPT ![j] = recs]
      \/ \E r \in recs : artifacts' = [artifacts EXCEPT ![j] = (recs \ {r}) \cup {Unreadable(r)}]
  BY DEF Delivers
<1>2. ASSUME NEW k \in AllJobs, NEW r \in artifacts'[k] PROVE GoodRecord(r)
  <2>1. r \in artifacts[k] \/ r \in recs \/ \E q \in recs : r = Unreadable(q)
    BY <1>1 DEF RecordsInv
  <2> QED
    BY <2>1, UnreadableGood DEF RecordsInv, Good, Whole
<1> QED
  BY <1>1, <1>2 DEF RecordsInv, Good

(* What a job delivers are records of its legs.                               *)
LEMMA WorkRecords == ASSUME RecordsInv, RunJob PROVE RecordsInv'
<1>1. layout' = layout
  BY DEF RunJob, GateRust, GateImport, Docs, TestRust, TestProject, Lost, planning
<1>2. ASSUME NEW s, GateRust(s) PROVE RecordsInv'
  <2> DEFINE j == <<"rust", s>>
  <2>1. j \in Jobs(layout) /\ j \in AllJobs
    BY <1>2, JobKinds DEF GateRust, RecordsInv
  <2>2. PICK done \in SUBSET layout.packages : \E end \in [done -> Ends] :
          Delivers(j, {Recorded(<<p, s>>, "rust", end[p], end[p] = "other", FALSE) : p \in done},
                   done = layout.packages /\ \A p \in done : end[p] \in {"zero", "nothing"})
    BY <1>2 DEF GateRust
  <2>3. PICK end \in [done -> Ends] :
          Delivers(j, {Recorded(<<p, s>>, "rust", end[p], end[p] = "other", FALSE) : p \in done},
                   done = layout.packages /\ \A p \in done : end[p] \in {"zero", "nothing"})
    BY <2>2
  <2> DEFINE recs == {Recorded(<<p, s>>, "rust", end[p], end[p] = "other", FALSE) : p \in done}
             fine == done = layout.packages /\ \A p \in done : end[p] \in {"zero", "nothing"}
  <2>4. ASSUME NEW p \in done PROVE <<p, s>> \in Legs
    <3>1. <<p, s>> \in LegsOf(layout, j)
      BY DEF LegsOf, RustLegs
    <3> QED
      BY <2>1, <3>1, LegsAreLegs DEF RecordsInv
  <2>5. Whole(recs)
    <3> DEFINE no == FALSE
    <3>0. no \in BOOLEAN
      OBVIOUS
    <3> HIDE DEF no
    <3>1. ASSUME NEW p \in done, NEW silent
          PROVE  GoodRecord(Recorded(<<p, s>>, "rust", end[p], silent, no))
                 /\ Recorded(<<p, s>>, "rust", end[p], silent, no).leg \in Legs
      <4>1. <<p, s>> \in Legs /\ end[p] \in Ends
        BY <2>4
      <4> QED
        BY <3>0, <4>1, RecordedWhole
    <3>2. ASSUME NEW r \in recs PROVE GoodRecord(r) /\ r.leg \in Legs
      <4>1. PICK p \in done : r = Recorded(<<p, s>>, "rust", end[p], end[p] = "other", FALSE)
        OBVIOUS
      <4> DEFINE silent == end[p] = "other"
      <4>2. r = Recorded(<<p, s>>, "rust", end[p], silent, no)
        BY <4>1 DEF no
      <4> HIDE DEF silent, recs
      <4> QED
        BY <3>1, <4>2
    <3> HIDE DEF recs
    <3> QED
      BY <3>2 DEF Whole
  <2>6. Delivers(j, recs, fine)
    BY <2>3
  <2> HIDE DEF j, recs, fine
  <2> QED
    BY <1>1, <2>1, <2>5, <2>6, DeliveredGood
<1>3. ASSUME NEW i, GateImport(i) PROVE RecordsInv'
  <2> DEFINE j == <<"import", i>>
             leg == <<i, None>>
  <2>1. j \in Jobs(layout) /\ j \in AllJobs
    BY <1>3, JobKinds DEF GateImport, RecordsInv
  <2>2. leg \in LegsOf(layout, j)
    BY DEF LegsOf
  <2>3. PICK end \in Ends : Delivers(j, {Recorded(leg, "import", end, FALSE, FALSE)}, end \in {"zero", "nothing"})
    BY <1>3 DEF GateImport
  <2> DEFINE no == FALSE
             recs == {Recorded(leg, "import", end, no, no)}
             fine == end \in {"zero", "nothing"}
  <2>4. Delivers(j, recs, fine) /\ no \in BOOLEAN
    BY <2>3
  <2> HIDE DEF j, leg, no
  <2>5. leg \in Legs
    BY <2>1, <2>2, LegsAreLegs DEF RecordsInv
  <2>6. Whole(recs)
    BY <2>4, <2>5, RecordedWhole DEF Whole
  <2> HIDE DEF recs, fine
  <2> QED
    BY <1>1, <2>1, <2>4, <2>6, DeliveredGood
<1>4. ASSUME Docs PROVE RecordsInv'
  <2> DEFINE j == <<"docs", None>>
             leg == <<DocsName, None>>
  <2>1. j \in Jobs(layout) /\ j \in AllJobs
    BY <1>4, JobKinds DEF Docs, RecordsInv
  <2>2. leg \in LegsOf(layout, j)
    BY DEF LegsOf
  <2>3. PICK end \in Ends \ {"nothing"}, skip \in BOOLEAN :
          Delivers(j, {Recorded(leg, "docs", end, FALSE, skip)}, end = "zero")
    BY <1>4 DEF Docs
  <2> DEFINE no == FALSE
             recs == {Recorded(leg, "docs", end, no, skip)}
             fine == end = "zero"
  <2>4. Delivers(j, recs, fine) /\ no \in BOOLEAN
    BY <2>3
  <2> HIDE DEF j, leg, no
  <2>5. leg \in Legs
    BY <2>1, <2>2, LegsAreLegs DEF RecordsInv
  <2>6. Whole(recs)
    BY <2>4, <2>5, RecordedWhole DEF Whole
  <2> HIDE DEF recs, fine
  <2> QED
    BY <1>1, <2>1, <2>4, <2>6, DeliveredGood
<1>5. ASSUME TestRust PROVE RecordsInv'
  <2> DEFINE j == <<"test", None>>
             leg == <<TestName, None>>
  <2>1. j \in Jobs(layout) /\ j \in AllJobs
    BY <1>5, JobKinds DEF TestRust, RecordsInv
  <2>2. leg \in LegsOf(layout, j)
    BY DEF LegsOf
  <2>3. \/ \E word \in {"pass", "flaky", "failed"} : Delivers(j, {TestWord(leg, word)}, word # "failed")
        \/ Delivers(j, {Recorded(leg, "test", "other", FALSE, FALSE)}, FALSE)
    BY <1>5 DEF TestRust
  <2> HIDE DEF j, leg
  <2>4. leg \in Legs
    BY <2>1, <2>2, LegsAreLegs DEF RecordsInv
  <2>5. ASSUME NEW word \in {"pass", "flaky", "failed"} PROVE Whole({TestWord(leg, word)})
    BY <2>4, TestWordWhole DEF Whole
  <2>6. Whole({Recorded(leg, "test", "other", FALSE, FALSE)})
    <3> DEFINE no == FALSE
               end == "other"
               r == Recorded(leg, "test", end, no, no)
    <3>1. no \in BOOLEAN /\ end \in Ends
      BY DEF Ends
    <3> HIDE DEF no, end
    <3>2. GoodRecord(r) /\ r.leg = leg
      BY <2>4, <3>1, RecordedWhole
    <3> HIDE DEF r
    <3>3. Whole({r})
      BY <2>4, <3>2 DEF Whole
    <3> QED
      BY <3>3 DEF r, no, end
  <2>7. \E recs, fine : Delivers(j, recs, fine) /\ Whole(recs)
    <3>1. ASSUME NEW word \in {"pass", "flaky", "failed"}, Delivers(j, {TestWord(leg, word)}, word # "failed")
          PROVE  \E recs, fine : Delivers(j, recs, fine) /\ Whole(recs)
      <4> DEFINE rs == {TestWord(leg, word)}
                 ok == word # "failed"
      <4>1. Delivers(j, rs, ok) /\ Whole(rs)
        BY <2>5, <3>1
      <4> HIDE DEF rs, ok
      <4> QED
        BY <4>1
    <3>2. ASSUME Delivers(j, {Recorded(leg, "test", "other", FALSE, FALSE)}, FALSE)
          PROVE  \E recs, fine : Delivers(j, recs, fine) /\ Whole(recs)
      <4> DEFINE rs == {Recorded(leg, "test", "other", FALSE, FALSE)}
                 ok == FALSE
      <4>1. Delivers(j, rs, ok) /\ Whole(rs)
        BY <2>6, <3>2
      <4> HIDE DEF rs, ok
      <4> QED
        BY <4>1
    <3> QED
      BY <2>3, <3>1, <3>2
  <2> QED
    BY <1>1, <2>1, <2>7, DeliveredGood
<1>6. ASSUME NEW t, TestProject(t) PROVE RecordsInv'
  <2> DEFINE j == <<"project", t>>
             leg == <<t, None>>
  <2>1. j \in Jobs(layout) /\ j \in AllJobs
    BY <1>6, JobKinds DEF TestProject, RecordsInv
  <2>2. leg \in LegsOf(layout, j)
    BY DEF LegsOf
  <2>3. \/ \E word \in {"pass", "flaky", "failed"} : Delivers(j, {TestWord(leg, word)}, word # "failed")
        \/ artifacts' = artifacts
    BY <1>6 DEF TestProject
  <2> HIDE DEF j, leg
  <2>4. leg \in Legs
    BY <2>1, <2>2, LegsAreLegs DEF RecordsInv
  <2>5. ASSUME NEW word \in {"pass", "flaky", "failed"}, Delivers(j, {TestWord(leg, word)}, word # "failed")
        PROVE  RecordsInv'
    <3> DEFINE recs == {TestWord(leg, word)}
               fine == word # "failed"
    <3>1. Whole(recs) /\ Delivers(j, recs, fine)
      BY <2>4, <2>5, TestWordWhole DEF Whole
    <3> HIDE DEF recs, fine
    <3> QED
      BY <1>1, <2>1, <3>1, DeliveredGood
  <2>6. artifacts' = artifacts => RecordsInv'
    BY <1>1 DEF RecordsInv
  <2> QED
    BY <2>3, <2>5, <2>6
<1>7. ASSUME NEW j, Lost(j) PROVE RecordsInv'
  BY <1>1, <1>7 DEF Lost, RecordsInv
<1> QED
  BY <1>2, <1>3, <1>4, <1>5, <1>6, <1>7 DEF RunJob

LEMMA PlanRecords == ASSUME JobsInv, RecordsInv, Plan PROVE RecordsInv'
<1>1. PICK every \in BOOLEAN, stored \in SUBSET kept : settled' = Settle(every, stored)
  BY DEF Plan
<1> DEFINE words == {TestWord(<<t, None>>, settled'[t]) : t \in DOMAIN settled'}
<1>2. artifacts' = [artifacts EXCEPT ![PlanJob] = words] /\ layout' = layout
  BY DEF Plan, PlanJob
<1>3. ASSUME NEW r \in words PROVE GoodRecord(r)
  <2>1. PICK t \in DOMAIN settled' : r = TestWord(<<t, None>>, settled'[t])
    OBVIOUS
  <2>2. settled'[t] \in {"reused", "skipped"} /\ t \in layout.tests
    BY <1>1, <2>1, SettledEarned DEF JobsInv
  <2>3. <<"project", t>> \in Jobs(layout) /\ <<t, None>> \in LegsOf(layout, <<"project", t>>)
    BY <2>2 DEF Jobs, LegsOf
  <2>4. <<t, None>> \in Legs
    BY <2>3, LegsAreLegs DEF RecordsInv
  <2> QED
    BY <2>1, <2>2, <2>4, TestWordWhole
<1> HIDE DEF words
<1> QED
  BY <1>2, <1>3 DEF RecordsInv, Good

(* A folded record joins its section's, and no other's.                       *)
LEMMA FoldOrder == ASSUME OrderInv, Fold PROVE OrderInv'
<1>1. PICK r \in pending :
        LET n == r.leg[1]
        IN /\ pending' = pending \ {r}
           /\ sections' = [m \in DOMAIN sections \cup {n} |->
                              IF m # n THEN sections[m]
                              ELSE IF n \in DOMAIN sections THEN Absorb(sections[n], r)
                              ELSE SectionOf(r)]
  BY DEF Fold, SectionOf
<1> DEFINE n == r.leg[1]
<1>2. step = "fold" /\ step' = "fold" /\ layout' = layout /\ artifacts' = artifacts
  BY DEF Fold, planning
<1>3. AllRecords' = AllRecords /\ RecordsInv'
  BY <1>2 DEF AllRecords, RecordsInv, OrderInv
<1>4. r \in AllRecords /\ GoodRecord(r)
  BY <1>1, <1>2 DEF OrderInv, RecordsInv, AllRecords, Good
<1>5. Folded(n)' = Folded(n) \cup {r}
  BY <1>1, <1>2, <1>4 DEF Folded, AllRecords
<1>6. \A m : m # n => Folded(m)' = Folded(m)
  BY <1>1, <1>2 DEF Folded
<1>7. \A m : \A q \in Folded(m) : GoodRecord(q)
  BY DEF Folded, OrderInv, RecordsInv, Good
<1>8. DOMAIN sections' = DOMAIN sections \cup {n}
  BY <1>1
<1>9. ASSUME NEW m \in DOMAIN sections' PROVE GoodSection(sections'[m]) /\ Sums(sections'[m], Folded(m)')
  <2>1. CASE m # n
    <3>1. m \in DOMAIN sections /\ sections'[m] = sections[m]
      BY <1>1, <2>1
    <3> QED
      BY <1>2, <1>6, <2>1, <3>1 DEF OrderInv
  <2>2. CASE m = n /\ n \in DOMAIN sections
    <3>1. sections'[m] = Absorb(sections[n], r)
      BY <1>1, <2>2
    <3>2. GoodSection(sections[n]) /\ Sums(sections[n], Folded(n))
      BY <1>2, <2>2 DEF OrderInv
    <3> DEFINE sec == sections[n]
               recs == Folded(n)
    <3>3. GoodSection(sec) /\ Sums(sec, recs) /\ \A q \in recs : GoodRecord(q)
      BY <1>7, <3>2
    <3> HIDE DEF sec, recs
    <3>4. GoodSection(Absorb(sec, r)) /\ Sums(Absorb(sec, r), recs \cup {r})
      BY <1>4, <3>3, NextSum
    <3> QED
      BY <1>5, <2>2, <3>1, <3>4 DEF sec, recs
  <2>3. CASE m = n /\ n \notin DOMAIN sections
    <3>1. sections'[m] = SectionOf(r)
      BY <1>1, <2>3
    <3>2. Folded(n) = {}
      BY <1>2, <2>3 DEF OrderInv, Folded, AllRecords
    <3>3. Folded(m)' = {r}
      BY <1>5, <2>3, <3>2
    <3> QED
      BY <1>4, <3>1, <3>3, FirstSum
  <2> QED
    BY <2>1, <2>2, <2>3
<1>10. pending' \subseteq AllRecords /\ \A q \in AllRecords \ pending' : q.leg[1] \in DOMAIN sections'
  BY <1>1, <1>2, <1>8 DEF OrderInv
<1> QED
  BY <1>2, <1>3, <1>9, <1>10 DEF OrderInv

LEMMA OrderStart == VerdictInit => OrderInv
  BY DEF VerdictInit, OrderInv, RecordsInv, Good

LEMMA OrderSame ==
  ASSUME OrderInv, UNCHANGED <<layout, artifacts, step, pending, sections>> PROVE OrderInv'
<1>1. RecordsInv' /\ AllRecords' = AllRecords /\ \A n : Folded(n)' = Folded(n)
  BY DEF OrderInv, RecordsInv, AllRecords, Folded
<1> QED
  BY <1>1 DEF OrderInv

LEMMA OrderStep == ASSUME PipelineInv, OrderInv, [VerdictNext]_verdictVars PROVE OrderInv'
<1>1. CASE RunJob
  <2>1. RecordsInv'
    BY <1>1, WorkRecords DEF OrderInv
  <2>2. step = "jobs" /\ UNCHANGED <<step, sections>>
    BY <1>1, RunJobStep DEF PipelineInv, AtWork, folding
  <2> QED
    BY <2>1, <2>2 DEF OrderInv
<1>2. CASE Plan
  <2>1. RecordsInv'
    BY <1>2, PlanRecords DEF OrderInv, PipelineInv
  <2> QED
    BY <1>2, <2>1 DEF OrderInv, Plan
<1>3. CASE PlanFails
  BY <1>3 DEF PlanFails, OrderInv, RecordsInv
<1>4. CASE Collect
  BY <1>4 DEF Collect, OrderInv, RecordsInv, AllRecords, planning
<1>5. CASE ReadLabel \/ ReadLabeler
  <2>1. /\ step \in {"label", "labeler"} /\ step' \in {"labeler", "fold"}
        /\ UNCHANGED <<layout, artifacts, pending, sections>>
    BY <1>5 DEF ReadLabel, ReadLabeler, planning
  <2>2. RecordsInv' /\ AllRecords' = AllRecords
    BY <2>1 DEF OrderInv, RecordsInv, AllRecords
  <2> QED
    BY <2>1, <2>2 DEF OrderInv, NoSections
<1>6. CASE Conclude \/ VerdictLost
  BY <1>6 DEF Conclude, VerdictLost, OrderInv, RecordsInv, planning
<1>7. CASE Rerun
  <2>1. step' \in {"plan", "jobs"} /\ sections' = NoSections /\ UNCHANGED <<layout, artifacts>>
    BY <1>7 DEF Rerun
  <2> QED
    BY <2>1 DEF OrderInv, RecordsInv
<1>8. CASE Push
  <2>1. step' = "plan" /\ sections' = NoSections /\ layout' = layout /\ artifacts' = [j \in AllJobs |-> {}]
    BY <1>8 DEF Push
  <2> QED
    BY <2>1 DEF OrderInv, RecordsInv, Good
<1>9. CASE (\E u \in Writers \cup Readers : Label(u)) \/ Unlabel
  BY <1>9, OrderSame DEF Label, Unlabel, planning, folding
<1>10. CASE UNCHANGED verdictVars
  BY <1>10, OrderSame DEF verdictVars
<1> QED
  BY <1>1, <1>2, <1>3, <1>4, <1>5, <1>6, <1>7, <1>8, <1>9, <1>10, FoldOrder
  DEF VerdictNext, Judge, Done

(* The order in which the records are folded does not matter: whatever it is, *)
(* a section has the worst of its records' verdicts, its marks if one of them *)
(* has them, and output of a record that decided it when one has any.         *)
THEOREM OrderNeverMatters == ASSUME OwnNames PROVE VerdictSpec => []WorstDecides
<1>1. VerdictInit => PipelineInv /\ OrderInv
  BY PipelineInit, OrderStart
<1>2. PipelineInv /\ OrderInv /\ [VerdictNext]_verdictVars => (PipelineInv /\ OrderInv)'
  BY PipelineStep, OrderStep
<1>3. OrderInv => WorstDecides
  BY DEF OrderInv, WorstDecides, Sums, Shown, Deciding
<1> QED
  BY <1>1, <1>2, <1>3, PTL DEF VerdictSpec


-----------------------------------------------------------------------------
(* `spec gate': what its comparisons let through, merge after merge.          *)

Revisions(kind) == DOMAIN Documents[kind]

(* R goes on from revision to revision as long as the comparison finds no     *)
(* break, and no name of a parameter is given out again; and what it relates  *)
(* serves.                                                                    *)
Leads(kind, R) ==
  /\ \A i \in Revisions(kind) : <<i, i>> \in R
  /\ \A i, j, k \in Revisions(kind) :
       <<i, j>> \in R /\ ~Breaks(kind, j, k) /\ ~Reuses(kind, i, j, k) => <<i, k>> \in R
  /\ \A i, j \in Revisions(kind) :
       <<i, j>> \in R => Serves(kind, Documents[kind][i], Documents[kind][j])

Lasting(kind) == \E R : Leads(kind, R)
Kept(kind) == CHOOSE R : Leads(kind, R)

LEMMA KeptLeads == \A kind : Lasting(kind) => Leads(kind, Kept(kind))
BY DEF Lasting, Kept

(* Versions of a document that has them, and of one that has none.            *)
Series(V) == V = {None} \/ (V \subseteq Nat \X Nat \X Nat /\ None \notin Nat \X Nat \X Nat)

LEMMA TripleIs ==
  ASSUME NEW v \in Nat \X Nat \X Nat
  PROVE  v[1] \in Nat /\ v[2] \in Nat /\ v[3] \in Nat
OBVIOUS

LEMMA NotOlderIs ==
  ASSUME NEW a \in Nat \X Nat \X Nat, NEW b \in Nat \X Nat \X Nat,
         None \notin Nat \X Nat \X Nat
  PROVE  NotOlder(a, b) <=> \/ b[1] > a[1]
                            \/ b[1] = a[1] /\ b[2] > a[2]
                            \/ b[1] = a[1] /\ b[2] = a[2] /\ b[3] >= a[3]
<1> DEFINE From(i) == /\ \A j \in 1..(i - 1) : b[j] = a[j]
                      /\ IF i < 3 THEN b[i] > a[i] ELSE b[i] >= a[i]
<1>1. NotOlder(a, b) <=> \E i \in 1..3 : From(i)
  BY DEF NotOlder
<1>2. 1..3 = {1, 2, 3} /\ 1..(1 - 1) = {} /\ 1..(2 - 1) = {1} /\ 1..(3 - 1) = {1, 2}
  OBVIOUS
<1>3. From(1) <=> b[1] > a[1]
  BY <1>2
<1>4. From(2) <=> b[1] = a[1] /\ b[2] > a[2]
  BY <1>2
<1>5. From(3) <=> b[1] = a[1] /\ b[2] = a[2] /\ b[3] >= a[3]
  BY <1>2
<1> HIDE DEF From
<1>6. QED
  BY <1>1, <1>2, <1>3, <1>4, <1>5

(* Versions that do not go back, and end in the series they began in, never   *)
(* left it, and none of them is the bump that acknowledges a break.           *)
LEMMA WithinSeries ==
  ASSUME NEW V, Series(V), NEW a \in V, NEW b \in V, NEW c \in V,
         NotOlder(a, b), NotOlder(b, c)
  PROVE  /\ NotOlder(a, c)
         /\ SameSeries(a, c) => SameSeries(a, b) /\ ~acknowledged(b, c)
<1>1. CASE V = {None}
  BY <1>1 DEF NotOlder, SameSeries, acknowledged
<1>2. CASE V # {None}
  <2>1. a \in Nat \X Nat \X Nat /\ b \in Nat \X Nat \X Nat /\ c \in Nat \X Nat \X Nat
        /\ None \notin Nat \X Nat \X Nat
    BY <1>2 DEF Series
  <2>2. /\ a[1] \in Nat /\ a[2] \in Nat /\ a[3] \in Nat
        /\ b[1] \in Nat /\ b[2] \in Nat /\ b[3] \in Nat
        /\ c[1] \in Nat /\ c[2] \in Nat /\ c[3] \in Nat
    BY <2>1, TripleIs
  <2>3. a # None /\ b # None /\ c # None
    BY <2>1
  <2>4. NotOlder(a, c)
    BY <2>1, <2>2, NotOlderIs
  <2>5. SameSeries(a, c) => SameSeries(a, b) /\ ~bump_acknowledges(b, c)
    BY <2>1, <2>2, <2>3, NotOlderIs DEF SameSeries, bump_acknowledges
  <2>6. QED
    BY <2>4, <2>5 DEF acknowledged
<1>3. QED
  BY <1>1, <1>2

LEMMA ItselfSame == ASSUME NEW a PROVE SameSeries(a, a)
BY DEF SameSeries

LEMMA NotOlderThanItself ==
  ASSUME NEW V, Series(V), NEW a \in V PROVE NotOlder(a, a)
<1>1. CASE V = {None}
  BY <1>1 DEF NotOlder
<1>2. CASE V # {None}
  <2>1. a \in Nat \X Nat \X Nat /\ None \notin Nat \X Nat \X Nat
    BY <1>2 DEF Series
  <2>2. QED
    BY <2>1, TripleIs, NotOlderIs
<1>3. QED
  BY <1>1, <1>2

(* Who was built against nothing needs nothing.                               *)
LEMMA EmptyServed ==
  ASSUME NEW kind \in {"openapi", "asyncapi", "mcp", "graphql"}, NEW doc
  PROVE  Serves(kind, empty, doc)
<1>1. DOMAIN empty.operations = {} /\ DOMAIN empty.types = {}
  BY DEF empty
<1>2. OpenApiServes(empty, doc)
  BY <1>1 DEF OpenApiServes
<1>3. AsyncApiServes(empty, doc)
  BY <1>1 DEF AsyncApiServes
<1>4. McpServes(empty, doc)
  BY <1>1 DEF McpServes
<1>5. GraphQlServes(empty, doc)
  BY <1>1 DEF GraphQlServes, Given
<1>6. QED
  BY <1>2, <1>3, <1>4, <1>5 DEF Serves


-----------------------------------------------------------------------------

Carried(revision) ==
  revision = absent
  \/ \E doc \in Revisions(dialect), version \in versions :
       revision = [doc |-> doc, version |-> version]

(* While nobody let a break through, and the version stays in its series,     *)
(* what main publishes is kept from what the consumer was built against.      *)
KeptInv ==
  /\ dialect \in DOMAIN Documents
  /\ Carried(published) /\ Carried(consumed)
  /\ published.doc = 0 => consumed.doc = 0
  /\ consumed.doc # 0 =>
       /\ NotOlder(consumed.version, published.version)
       /\ ~coordinated /\ ~reused /\ SameSeries(consumed.version, published.version)
            => <<consumed.doc, published.doc>> \in Kept(dialect)

LEMMA CarriedIs ==
  ASSUME NEW revision, Carried(revision), revision.doc # 0
  PROVE  revision.doc \in Revisions(dialect) /\ revision.version \in versions
BY DEF Carried, absent

LEMMA AbsentIs ==
  ASSUME NEW revision, Carried(revision), dialect \in DOMAIN Documents, revision.doc = 0
  PROVE  revision = absent
BY SpecAssumption DEF Carried, absent, Revisions

LEMMA VersionsInSeries == Series(versions)
BY SpecAssumption DEF Series, versions

LEMMA KeptInit == SpecInit => KeptInv
<1> SUFFICES ASSUME SpecInit PROVE KeptInv
  OBVIOUS
<1>1. absent.doc = 0
  BY DEF absent
<1>2. QED
  BY <1>1 DEF SpecInit, KeptInv, Carried

LEMMA KeptConsume ==
  ASSUME KeptInv, Consume, Lasting(dialect)
  PROVE  KeptInv'
<1>1. /\ consumed' = published /\ published' = published /\ dialect' = dialect
      /\ versions' = versions
  BY DEF Consume, versions
<1>2. Carried(published)' /\ Carried(consumed)'
  BY <1>1 DEF KeptInv, Carried, Revisions
<1>3. ASSUME published.doc # 0
      PROVE  /\ NotOlder(published.version, published.version)
             /\ <<published.doc, published.doc>> \in Kept(dialect)
  <2>1. published.doc \in Revisions(dialect) /\ published.version \in versions
    BY <1>3, CarriedIs DEF KeptInv
  <2>2. QED
    BY <2>1, VersionsInSeries, NotOlderThanItself, KeptLeads DEF Leads
<1>4. QED
  BY <1>1, <1>2, <1>3 DEF KeptInv

LEMMA KeptGate ==
  ASSUME KeptInv, NEW doc \in Revisions(dialect), gate(doc), Lasting(dialect)
  PROVE  KeptInv'
<1> PICK version \in versions :
      /\ published' = [doc |-> doc, version |-> version]
      /\ NotOlder(published.version, version)
      /\ coordinated' =
           (coordinated \/ (Breaks(dialect, published.doc, doc)
                            /\ ~acknowledged(published.version, version)))
      /\ reused' = (reused \/ Reuses(dialect, consumed.doc, published.doc, doc))
      /\ UNCHANGED <<dialect, consumed>>
  BY DEF gate
<1>1. /\ dialect' = dialect /\ consumed' = consumed /\ versions' = versions
      /\ doc # 0 /\ published'.doc = doc /\ published'.version = version
  BY SpecAssumption DEF versions, KeptInv, Revisions
<1>2. Carried(published)' /\ Carried(consumed)'
  BY <1>1 DEF KeptInv, Carried, Revisions
<1>3. ASSUME consumed.doc # 0
      PROVE  /\ NotOlder(consumed.version, version)
             /\ ~coordinated' /\ ~reused' /\ SameSeries(consumed.version, version)
                  => <<consumed.doc, doc>> \in Kept(dialect)
  <2>1. /\ published.doc # 0
        /\ consumed.doc \in Revisions(dialect) /\ consumed.version \in versions
        /\ published.doc \in Revisions(dialect) /\ published.version \in versions
    BY <1>3, CarriedIs DEF KeptInv
  <2>2. NotOlder(consumed.version, published.version)
    BY <1>3 DEF KeptInv
  <2>3. /\ NotOlder(consumed.version, version)
        /\ SameSeries(consumed.version, version) =>
             /\ SameSeries(consumed.version, published.version)
             /\ ~acknowledged(published.version, version)
    BY <2>1, <2>2, VersionsInSeries, WithinSeries
  <2>4. ASSUME ~coordinated', ~reused', SameSeries(consumed.version, version)
        PROVE  <<consumed.doc, doc>> \in Kept(dialect)
    <3>1. ~coordinated /\ ~reused /\ SameSeries(consumed.version, published.version)
          /\ ~Breaks(dialect, published.doc, doc)
          /\ ~Reuses(dialect, consumed.doc, published.doc, doc)
      BY <2>3, <2>4
    <3>2. <<consumed.doc, published.doc>> \in Kept(dialect)
      BY <1>3, <3>1 DEF KeptInv
    <3>3. QED
      BY <2>1, <3>1, <3>2, KeptLeads DEF Leads
  <2>5. QED
    BY <2>3, <2>4
<1>4. QED
  BY <1>1, <1>2, <1>3 DEF KeptInv

LEMMA KeptStep ==
  ASSUME KeptInv, [SpecNext]_specVars, \A kind \in DOMAIN Documents : Lasting(kind)
  PROVE  KeptInv'
<1>1. Lasting(dialect)
  BY DEF KeptInv
<1>2. CASE \E doc \in DOMAIN Documents[dialect] : gate(doc)
  BY <1>1, <1>2, KeptGate DEF Revisions
<1>3. CASE Consume
  BY <1>1, <1>3, KeptConsume
<1>4. CASE UNCHANGED specVars
  BY <1>4 DEF specVars, KeptInv, Carried, versions, Revisions
<1>5. QED
  BY <1>2, <1>3, <1>4 DEF SpecNext

LEMMA KeptServes ==
  ASSUME KeptInv, \A kind \in DOMAIN Documents : Lasting(kind)
  PROVE  ConsumersServed
<1> SUFFICES ASSUME ~coordinated, ~reused, SameSeries(consumed.version, published.version)
             PROVE  Serves(dialect, Document(dialect, consumed.doc),
                                    Document(dialect, published.doc))
  BY DEF ConsumersServed
<1>1. CASE consumed.doc = 0
  BY <1>1, EmptyServed, SpecAssumption DEF KeptInv, Document
<1>2. CASE consumed.doc # 0
  <2>1. /\ consumed.doc \in Revisions(dialect)
        /\ published.doc # 0 /\ published.doc \in Revisions(dialect)
    BY <1>2, CarriedIs DEF KeptInv
  <2>2. <<consumed.doc, published.doc>> \in Kept(dialect)
    BY <1>2 DEF KeptInv
  <2>3. Serves(dialect, Documents[dialect][consumed.doc], Documents[dialect][published.doc])
    BY <2>1, <2>2, KeptLeads DEF Leads, KeptInv
  <2>4. QED
    BY <1>2, <2>1, <2>3 DEF Document
<1>3. QED
  BY <1>1, <1>2

LEMMA ServedWhereLasting ==
  ASSUME \A kind \in DOMAIN Documents : Lasting(kind)
  PROVE  SpecSpec => []ConsumersServed
<1>1. SpecInit => KeptInv
  BY KeptInit
<1>2. KeptInv /\ [SpecNext]_specVars => KeptInv'
  BY KeptStep
<1>3. KeptInv => ConsumersServed
  BY KeptServes
<1>4. QED
  BY <1>1, <1>2, <1>3, PTL DEF SpecSpec

-----------------------------------------------------------------------------
(* GraphQL.  A list whose nullabilities, of itself and of its items, change   *)
(* in opposite directions is the one change the comparison judges otherwise   *)
(* than who is concerned.                                                     *)
Crossed(t, u) == t.shape = u.shape /\ t.whole /\ ~t.item /\ ~u.whole /\ u.item
Steady(olds, news) ==
  \A k \in DOMAIN olds \cap DOMAIN news :
    ~Crossed(olds[k].type, news[k].type) /\ ~Crossed(news[k].type, olds[k].type)
SteadyDocuments(old, new) ==
  /\ \A name \in DOMAIN old.types \cap DOMAIN new.types :
       Steady(old.types[name].fields, new.types[name].fields)
  /\ Steady(old.operations, new.operations)
  /\ \A op \in DOMAIN old.operations \cap DOMAIN new.operations :
       Steady(old.operations[op].args, new.operations[op].args)

LEMMA FitsIs ==
  ASSUME NEW t, NEW u
  PROVE  Fits(t, u) <=> t.shape = u.shape /\ (u.whole => t.whole) /\ (u.item => t.item)
BY DEF Fits, Gives

LEMMA FieldGives ==
  ASSUME NEW o, NEW n, Breaking \notin compare_field("response", o, n),
         ~Crossed(n.type, o.type)
  PROVE  Fits(n.type, o.type)
<1>1. CASE o.type = n.type
  BY <1>1, FitsIs
<1>2. CASE o.type # n.type
  <2> DEFINE tightened == (n.type.whole /\ ~o.type.whole) \/ marks(n.type) > marks(o.type)
  <2>1. o.type.shape = n.type.shape /\ tightened
    BY <1>2 DEF compare_field, Breaking, Additive
  <2>2. n.type.whole \/ ~o.type.whole
    BY <2>1 DEF marks
  <2>3. n.type.item \/ ~o.type.item
    BY <2>1 DEF marks, Crossed
  <2>4. QED
    BY <2>1, <2>2, <2>3, FitsIs
<1>3. QED
  BY <1>1, <1>2

LEMMA FieldTakes ==
  ASSUME NEW o, NEW n, Breaking \notin compare_field("request", o, n),
         ~Crossed(o.type, n.type)
  PROVE  Fits(o.type, n.type)
<1>1. CASE o.type = n.type
  BY <1>1, FitsIs
<1>2. CASE o.type # n.type
  <2> DEFINE tightened == (n.type.whole /\ ~o.type.whole) \/ marks(n.type) > marks(o.type)
  <2>1. o.type.shape = n.type.shape /\ ~tightened
    BY <1>2 DEF compare_field, Breaking, Additive
  <2>2. o.type.whole \/ ~n.type.whole
    BY <2>1
  <2>3. o.type.item \/ ~n.type.item
    BY <2>1 DEF marks, Crossed
  <2>4. QED
    BY <2>1, <2>2, <2>3, FitsIs
<1>3. QED
  BY <1>1, <1>2

LEMMA FieldsGive ==
  ASSUME NEW old, NEW new, Breaking \notin compare_field_set("response", old, new),
         Steady(old, new)
  PROVE  Given(old, new)
<1> SUFFICES ASSUME NEW k \in DOMAIN old
             PROVE  k \in DOMAIN new /\ Fits(new[k].type, old[k].type)
  BY DEF Given
<1>1. k \in DOMAIN new
  BY DEF compare_field_set
<1>2. Breaking \notin compare_field("response", old[k], new[k])
  BY <1>1 DEF compare_field_set
<1>3. QED
  BY <1>1, <1>2, FieldGives DEF Steady

LEMMA FieldsTake ==
  ASSUME NEW old, NEW new, Breaking \notin compare_field_set("request", old, new),
         Steady(old, new)
  PROVE  Taken(old, new)
<1>1. ASSUME NEW k \in DOMAIN old
      PROVE  k \in DOMAIN new /\ Fits(old[k].type, new[k].type)
  <2>1. k \in DOMAIN new
    BY DEF compare_field_set
  <2>2. Breaking \notin compare_field("request", old[k], new[k])
    BY <2>1 DEF compare_field_set
  <2>3. QED
    BY <2>1, <2>2, FieldTakes DEF Steady
<1>2. ASSUME NEW k \in DOMAIN new \ DOMAIN old
      PROVE  ~new[k].type.whole
  BY DEF compare_field_set
<1>3. QED
  BY <1>1, <1>2 DEF Taken

LEMMA GivenOn ==
  ASSUME NEW a, NEW b, NEW c, Given(a, b), Given(b, c) PROVE Given(a, c)
BY FitsIs DEF Given

LEMMA TakenOn ==
  ASSUME NEW a, NEW b, NEW c, Taken(a, b), Taken(b, c) PROVE Taken(a, c)
<1>1. ASSUME NEW k \in DOMAIN a
      PROVE  k \in DOMAIN c /\ Fits(a[k].type, c[k].type)
  BY FitsIs DEF Taken
<1>2. ASSUME NEW k \in DOMAIN c \ DOMAIN a
      PROVE  ~c[k].type.whole
  BY FitsIs DEF Taken
<1>3. QED
  BY <1>1, <1>2 DEF Taken

LEMMA GivenItself == ASSUME NEW a PROVE Given(a, a)
BY FitsIs DEF Given

LEMMA TakenItself == ASSUME NEW a PROVE Taken(a, a)
BY FitsIs DEF Taken

LEMMA GraphQlServesItself == ASSUME NEW doc PROVE GraphQlServes(doc, doc)
BY GivenItself, TakenItself DEF GraphQlServes

LEMMA GraphQlServesOn ==
  ASSUME NEW a, NEW b, NEW c, GraphQlServes(a, b), GraphQlServes(b, c)
  PROVE  GraphQlServes(a, c)
<1>1. ASSUME NEW name \in DOMAIN a.types
      PROVE  /\ name \in DOMAIN c.types
             /\ c.types[name].kind = a.types[name].kind
             /\ a.types[name].kind = "enum" => a.types[name].values \subseteq c.types[name].values
             /\ a.types[name].kind = "input" => Taken(a.types[name].fields, c.types[name].fields)
             /\ a.types[name].kind = "type" => Given(a.types[name].fields, c.types[name].fields)
  BY GivenOn, TakenOn DEF GraphQlServes
<1>2. Given(a.operations, c.operations)
  BY GivenOn DEF GraphQlServes
<1>3. ASSUME NEW op \in DOMAIN a.operations
      PROVE  Taken(a.operations[op].args, c.operations[op].args)
  <2>1. op \in DOMAIN b.operations
    BY DEF GraphQlServes, Given
  <2>2. QED
    BY <2>1, TakenOn DEF GraphQlServes
<1>4. QED
  BY <1>1, <1>2, <1>3 DEF GraphQlServes

LEMMA KeysStay ==
  ASSUME NEW old, NEW new, Breaking \notin compare_keys(old, new), NEW k \in DOMAIN old
  PROVE  k \in DOMAIN new /\ <<old[k], new[k]>> \in Both(old, new)
<1>1. k \in DOMAIN new
  BY DEF compare_keys
<1>2. QED
  BY <1>1 DEF Both

LEMMA GraphQlUnbroken ==
  ASSUME NEW old, NEW new, Breaking \notin GraphQlDiff(old, new), SteadyDocuments(old, new)
  PROVE  GraphQlServes(old, new)
<1> DEFINE Root(o, n) == compare_field("response", o, n)
                         \cup compare_field_set("request", o.args, n.args)
<1>1. /\ Breaking \notin compare_keys(old.types, new.types)
      /\ Breaking \notin compare_keys(old.operations, new.operations)
      /\ \A p \in Both(old.types, new.types) : Breaking \notin compare_type(p[1], p[2])
      /\ \A p \in Both(old.operations, new.operations) : Breaking \notin Root(p[1], p[2])
  BY DEF GraphQlDiff
<1>2. ASSUME NEW name \in DOMAIN old.types
      PROVE  /\ name \in DOMAIN new.types
             /\ new.types[name].kind = old.types[name].kind
             /\ old.types[name].kind = "enum" => old.types[name].values \subseteq new.types[name].values
             /\ old.types[name].kind = "input" => Taken(old.types[name].fields, new.types[name].fields)
             /\ old.types[name].kind = "type" => Given(old.types[name].fields, new.types[name].fields)
  <2> DEFINE o == old.types[name]
             n == new.types[name]
  <2>1. name \in DOMAIN new.types /\ <<o, n>> \in Both(old.types, new.types)
    BY <1>1, KeysStay
  <2>2. Breaking \notin compare_type(o, n)
    BY <1>1, <2>1
  <2>3. Steady(o.fields, n.fields)
    BY <2>1 DEF SteadyDocuments
  <2> HIDE DEF o, n
  <2>4. n.kind = o.kind
    BY <2>2 DEF compare_type
  <2>5. o.kind = "enum" => o.values \subseteq n.values
    BY <2>2, <2>4 DEF compare_type, compare_enum
  <2>6. o.kind = "input" => Taken(o.fields, n.fields)
    BY <2>2, <2>3, <2>4, FieldsTake DEF compare_type
  <2>7. o.kind = "type" => Given(o.fields, n.fields)
    BY <2>2, <2>3, <2>4, FieldsGive DEF compare_type
  <2>8. QED
    BY <2>1, <2>4, <2>5, <2>6, <2>7 DEF o, n
<1>3. ASSUME NEW op \in DOMAIN old.operations
      PROVE  /\ op \in DOMAIN new.operations
             /\ Fits(new.operations[op].type, old.operations[op].type)
             /\ Taken(old.operations[op].args, new.operations[op].args)
  <2> DEFINE o == old.operations[op]
             n == new.operations[op]
  <2>1. op \in DOMAIN new.operations /\ <<o, n>> \in Both(old.operations, new.operations)
    BY <1>1, KeysStay
  <2>2. Breaking \notin Root(o, n)
    BY <1>1, <2>1
  <2>3. Steady(o.args, n.args) /\ ~Crossed(n.type, o.type)
    BY <2>1 DEF SteadyDocuments, Steady
  <2> HIDE DEF o, n
  <2>4. Fits(n.type, o.type)
    BY <2>2, <2>3, FieldGives
  <2>5. Taken(o.args, n.args)
    BY <2>2, <2>3, FieldsTake
  <2>6. QED
    BY <2>1, <2>4, <2>5 DEF o, n
<1>4. QED
  BY <1>2, <1>3 DEF GraphQlServes, Given

GraphQlSteady ==
  \A i, j \in Revisions("graphql") :
    SteadyDocuments(Documents["graphql"][i], Documents["graphql"][j])

LEMMA GraphQlLasting ==
  ASSUME "graphql" \in DOMAIN Documents, GraphQlSteady
  PROVE  Lasting("graphql")
<1> DEFINE D(i) == Documents["graphql"][i]
           R == {p \in Revisions("graphql") \X Revisions("graphql") :
                   GraphQlServes(D(p[1]), D(p[2]))}
<1>1. \A i, j \in Revisions("graphql") :
        /\ <<i, j>> \in R <=> GraphQlServes(D(i), D(j))
        /\ Document("graphql", i) = D(i)
  BY SpecAssumption DEF Document, Revisions
<1>2. \A i \in Revisions("graphql") : <<i, i>> \in R
  BY <1>1, GraphQlServesItself
<1>3. ASSUME NEW i \in Revisions("graphql"), NEW j \in Revisions("graphql"),
             NEW k \in Revisions("graphql"),
             <<i, j>> \in R, ~Breaks("graphql", j, k)
      PROVE  <<i, k>> \in R
  <2>1. Breaking \notin GraphQlDiff(D(j), D(k))
    BY <1>1, <1>3 DEF Breaks, diff
  <2>2. GraphQlServes(D(j), D(k))
    BY <2>1, GraphQlUnbroken DEF GraphQlSteady
  <2>3. QED
    BY <1>1, <1>3, <2>2, GraphQlServesOn
<1>4. \A i, j \in Revisions("graphql") :
        <<i, j>> \in R => Serves("graphql", Documents["graphql"][i], Documents["graphql"][j])
  BY <1>1 DEF Serves
<1> HIDE DEF R
<1>5. Leads("graphql", R)
  BY <1>2, <1>3, <1>4 DEF Leads
<1>6. QED
  BY <1>5 DEF Lasting

-----------------------------------------------------------------------------
(* The other dialects compare schemas, by a walk that is recursive.  That what *)
(* the walk lets through at one place of a document, revision after revision,  *)
(* is accepted or understood there, is the hypothesis; that nothing else about *)
(* an operation, a message or a tool gets in between, is what is shown.        *)
(*                                                                             *)
(* `said' has what is said at the place, by revision.                          *)

Follows(dir, s, t) ==
  IF dir = "request" THEN Accepts(s.defs, s.schema, t.defs, t.schema)
                     ELSE Understands(s.defs, s.schema, t.defs, t.schema)

SchemasLead(dir, said, R) ==
  /\ \A i \in DOMAIN said : <<i, i>> \in R
  /\ \A i, j, k \in DOMAIN said :
       /\ <<i, j>> \in R
       /\ Breaking \notin CompareSchemas(said[j].defs, said[k].defs, dir, said[j].schema, said[k].schema)
       => <<i, k>> \in R
  /\ \A i, j \in DOMAIN said : <<i, j>> \in R => Follows(dir, said[i], said[j])

SchemasLast(dir, said) == \E R : SchemasLead(dir, said, R)
KeptThere(dir, said) == CHOOSE R : SchemasLead(dir, said, R)

LEMMA KeptThereLeads ==
  \A dir, said : SchemasLast(dir, said) => SchemasLead(dir, said, KeptThere(dir, said))
BY DEF SchemasLast, KeptThere


(* OpenAPI: bodies are sent to us, responses by us.                           *)
OperationsOf(kind, i) == Documents[kind][i].operations
HaveOp(kind, op) == {i \in Revisions(kind) : op \in DOMAIN OperationsOf(kind, i)}

BodySaid(op) ==
  [i \in {r \in HaveOp("openapi", op) : OperationsOf("openapi", r)[op].body # None} |->
     [defs |-> Documents["openapi"][i].defs, schema |-> OperationsOf("openapi", i)[op].body]]

HaveCode(op, code) ==
  {r \in HaveOp("openapi", op) : code \in DOMAIN OperationsOf("openapi", r)[op].responses}
ResponseSaid(op, code) ==
  [i \in {r \in HaveCode(op, code) : OperationsOf("openapi", r)[op].responses[code] # None} |->
     [defs |-> Documents["openapi"][i].defs,
      schema |-> OperationsOf("openapi", i)[op].responses[code]]]

(* What is not compared does not change: whether a response has a schema, and *)
(* a parameter a type.                                                        *)
OpenApiSteady ==
  /\ \A op, code : \A i, j \in HaveCode(op, code) :
       (OperationsOf("openapi", i)[op].responses[code] = None)
         = (OperationsOf("openapi", j)[op].responses[code] = None)
  /\ \A op : \A i, j \in HaveOp("openapi", op) :
       \A k \in DOMAIN OperationsOf("openapi", i)[op].params
                  \cap DOMAIN OperationsOf("openapi", j)[op].params :
         (OperationsOf("openapi", i)[op].params[k].type = None)
           = (OperationsOf("openapi", j)[op].params[k].type = None)

OpenApiSchemasLast ==
  \A op : /\ SchemasLast("request", BodySaid(op))
          /\ \A code : SchemasLast("response", ResponseSaid(op, code))

ParamsKept(olds, news) ==
  \A k \in DOMAIN news :
    IF k \in DOMAIN olds
    THEN news[k].type = olds[k].type /\ (news[k].required => olds[k].required)
    ELSE ~news[k].required

OpKept(op, i, j) ==
  /\ op \in DOMAIN OperationsOf("openapi", j)
  /\ LET o == OperationsOf("openapi", i)[op]
         n == OperationsOf("openapi", j)[op]
     IN  /\ ParamsKept(o.params, n.params)
         /\ (o.body = None) = (n.body = None)
         /\ o.body # None => <<i, j>> \in KeptThere("request", BodySaid(op))
         /\ \A code \in DOMAIN o.responses :
              /\ code \in DOMAIN n.responses
              /\ o.responses[code] # None =>
                   <<i, j>> \in KeptThere("response", ResponseSaid(op, code))

OpenApiKept ==
  {p \in Revisions("openapi") \X Revisions("openapi") :
     \A op \in DOMAIN OperationsOf("openapi", p[1]) : OpKept(op, p[1], p[2])}

LEMMA OpenApiKeptIs ==
  ASSUME NEW i \in Revisions("openapi"), NEW j \in Revisions("openapi")
  PROVE  <<i, j>> \in OpenApiKept <=> \A op \in DOMAIN OperationsOf("openapi", i) : OpKept(op, i, j)
BY DEF OpenApiKept

LEMMA BodySaidIs ==
  ASSUME NEW op, NEW i \in HaveOp("openapi", op), OperationsOf("openapi", i)[op].body # None
  PROVE  /\ i \in DOMAIN BodySaid(op)
         /\ BodySaid(op)[i].defs = Documents["openapi"][i].defs
         /\ BodySaid(op)[i].schema = OperationsOf("openapi", i)[op].body
BY DEF BodySaid

LEMMA ResponseSaidIs ==
  ASSUME NEW op, NEW code, NEW i \in HaveCode(op, code),
         OperationsOf("openapi", i)[op].responses[code] # None
  PROVE  /\ i \in DOMAIN ResponseSaid(op, code)
         /\ ResponseSaid(op, code)[i].defs = Documents["openapi"][i].defs
         /\ ResponseSaid(op, code)[i].schema = OperationsOf("openapi", i)[op].responses[code]
BY DEF ResponseSaid

LEMMA OpenApiItself ==
  ASSUME OpenApiSchemasLast, NEW i \in Revisions("openapi")
  PROVE  <<i, i>> \in OpenApiKept
<1> SUFFICES ASSUME NEW op \in DOMAIN OperationsOf("openapi", i) PROVE OpKept(op, i, i)
  BY OpenApiKeptIs
<1> DEFINE o == OperationsOf("openapi", i)[op]
<1>1. i \in HaveOp("openapi", op)
  BY DEF HaveOp
<1>2. o.body # None => <<i, i>> \in KeptThere("request", BodySaid(op))
  BY <1>1, BodySaidIs, KeptThereLeads DEF SchemasLead, OpenApiSchemasLast
<1>3. ASSUME NEW code \in DOMAIN o.responses, o.responses[code] # None
      PROVE  <<i, i>> \in KeptThere("response", ResponseSaid(op, code))
  <2>1. i \in HaveCode(op, code)
    BY <1>1 DEF HaveCode
  <2>2. QED
    BY <1>3, <2>1, ResponseSaidIs, KeptThereLeads DEF SchemasLead, OpenApiSchemasLast
<1>4. ParamsKept(o.params, o.params)
  BY DEF ParamsKept
<1>5. QED
  BY <1>2, <1>3, <1>4 DEF OpKept

(* What the comparison of an operation lets through.                          *)
LEMMA OpenApiUnbroken ==
  ASSUME "openapi" \in DOMAIN Documents,
         NEW j \in Revisions("openapi"), NEW k \in Revisions("openapi"),
         ~Breaks("openapi", j, k), NEW op \in DOMAIN OperationsOf("openapi", j)
  PROVE  /\ op \in DOMAIN OperationsOf("openapi", k)
         /\ LET o == OperationsOf("openapi", j)[op]
                n == OperationsOf("openapi", k)[op]
                Schema(dir, s, t) ==
                  CompareSchemas(Documents["openapi"][j].defs, Documents["openapi"][k].defs, dir, s, t)
            IN  /\ Breaking \notin compare_parameters(o.params, n.params)
                /\ (o.body = None) = (n.body = None)
                /\ o.body # None => Breaking \notin Schema("request", o.body, n.body)
                /\ Breaking \notin compare_keys(o.responses, n.responses)
                /\ \A code \in DOMAIN o.responses :
                     o.responses[code] # None /\ n.responses[code] # None
                       => Breaking \notin Schema("response", o.responses[code], n.responses[code])
<1> DEFINE old == Documents["openapi"][j]
           new == Documents["openapi"][k]
           Schema(dir, s, t) == CompareSchemas(old.defs, new.defs, dir, s, t)
           Response(s, t) == IF None \in {s, t} THEN {} ELSE Schema("response", s, t)
           Operation(o, n) ==
             compare_parameters(o.params, n.params)
             \cup (IF o.body # None /\ n.body # None THEN Schema("request", o.body, n.body)
                   ELSE IF o.body # n.body THEN {Breaking} ELSE {})
             \cup compare_keys(o.responses, n.responses)
             \cup UNION {Response(r[1], r[2]) : r \in Both(o.responses, n.responses)}
           o == old.operations[op]
           n == new.operations[op]
<1>1. Breaking \notin OpenApiDiff(old, new)
  BY SpecAssumption DEF Breaks, diff, Document, Revisions
<1>2. /\ Breaking \notin compare_keys(old.operations, new.operations)
      /\ \A p \in Both(old.operations, new.operations) : Breaking \notin Operation(p[1], p[2])
  BY <1>1 DEF OpenApiDiff
<1>3. op \in DOMAIN new.operations /\ <<o, n>> \in Both(old.operations, new.operations)
  BY <1>2, KeysStay DEF OperationsOf
<1>4. Breaking \notin Operation(o, n)
  BY <1>2, <1>3
<1>5. Breaking \notin compare_parameters(o.params, n.params)
      /\ Breaking \notin compare_keys(o.responses, n.responses)
  BY <1>4
<1>6. (o.body = None) = (n.body = None)
  BY <1>4
<1>7. o.body # None => Breaking \notin Schema("request", o.body, n.body)
  BY <1>4, <1>6
<1>8. ASSUME NEW code \in DOMAIN o.responses,
             o.responses[code] # None, n.responses[code] # None
      PROVE  Breaking \notin Schema("response", o.responses[code], n.responses[code])
  <2>1. <<o.responses[code], n.responses[code]>> \in Both(o.responses, n.responses)
    BY <1>5, KeysStay
  <2>2. Breaking \notin Response(o.responses[code], n.responses[code])
    BY <1>4, <2>1
  <2>3. QED
    BY <1>8, <2>2
<1>9. QED
  BY <1>3, <1>5, <1>6, <1>7, <1>8 DEF OperationsOf

(* Parameters: what was given out, withdrawn and given out again is excepted. *)
LEMMA ParamsUnbroken ==
  ASSUME NEW olds, NEW mids, NEW news, ParamsKept(olds, mids),
         Breaking \notin compare_parameters(mids, news),
         \A k \in DOMAIN mids \cap DOMAIN news : (mids[k].type = None) = (news[k].type = None),
         (DOMAIN olds \cap DOMAIN news) \ DOMAIN mids = {}
  PROVE  ParamsKept(olds, news)
<1> DEFINE Presence(param) == IF param.required THEN Breaking ELSE Additive
           Parameter(o, n) ==
             Requiredness("request", o.required, n.required)
             \cup (IF None \notin {o.type, n.type} /\ o.type # n.type THEN {Breaking} ELSE {})
<1> SUFFICES ASSUME NEW k \in DOMAIN news
             PROVE  IF k \in DOMAIN olds
                    THEN news[k].type = olds[k].type /\ (news[k].required => olds[k].required)
                    ELSE ~news[k].required
  BY DEF ParamsKept
<1>1. CASE k \in DOMAIN mids
  <2>1. Breaking \notin Parameter(mids[k], news[k])
    BY <1>1 DEF compare_parameters
  <2>2. news[k].type = mids[k].type
    BY <1>1, <2>1
  <2>3. news[k].required => mids[k].required
    BY <2>1 DEF Requiredness, Breaking, Additive
  <2>4. QED
    BY <1>1, <2>2, <2>3 DEF ParamsKept
<1>2. CASE k \notin DOMAIN mids
  <2>1. k \notin DOMAIN olds
    BY <1>2
  <2>2. Breaking # Presence(news[k])
    BY <1>2 DEF compare_parameters
  <2>3. QED
    BY <2>1, <2>2
<1>3. QED
  BY <1>1, <1>2

LEMMA OpenApiOn ==
  ASSUME "openapi" \in DOMAIN Documents, OpenApiSteady, OpenApiSchemasLast,
         NEW i \in Revisions("openapi"), NEW j \in Revisions("openapi"),
         NEW k \in Revisions("openapi"), <<i, j>> \in OpenApiKept,
         ~Breaks("openapi", j, k), ~Reuses("openapi", i, j, k)
  PROVE  <<i, k>> \in OpenApiKept
<1> SUFFICES ASSUME NEW op \in DOMAIN OperationsOf("openapi", i) PROVE OpKept(op, i, k)
  BY OpenApiKeptIs
<1> DEFINE o == OperationsOf("openapi", i)[op]
           m == OperationsOf("openapi", j)[op]
           n == OperationsOf("openapi", k)[op]
           Schema(dir, s, t) ==
             CompareSchemas(Documents["openapi"][j].defs, Documents["openapi"][k].defs, dir, s, t)
<1>1. OpKept(op, i, j)
  BY OpenApiKeptIs
<1>2. op \in DOMAIN OperationsOf("openapi", j)
  BY <1>1 DEF OpKept
<1>3. /\ op \in DOMAIN OperationsOf("openapi", k)
      /\ Breaking \notin compare_parameters(m.params, n.params)
      /\ (m.body = None) = (n.body = None)
      /\ m.body # None => Breaking \notin Schema("request", m.body, n.body)
      /\ Breaking \notin compare_keys(m.responses, n.responses)
      /\ \A code \in DOMAIN m.responses :
           m.responses[code] # None /\ n.responses[code] # None
             => Breaking \notin Schema("response", m.responses[code], n.responses[code])
  BY <1>2, OpenApiUnbroken
<1>4. /\ i \in HaveOp("openapi", op) /\ j \in HaveOp("openapi", op) /\ k \in HaveOp("openapi", op)
  BY <1>2, <1>3 DEF HaveOp
<1>5. /\ ParamsKept(o.params, m.params)
      /\ (o.body = None) = (m.body = None)
      /\ o.body # None => <<i, j>> \in KeptThere("request", BodySaid(op))
      /\ \A code \in DOMAIN o.responses :
           /\ code \in DOMAIN m.responses
           /\ o.responses[code] # None =>
                <<i, j>> \in KeptThere("response", ResponseSaid(op, code))
  BY <1>1 DEF OpKept
<1>6. ParamsKept(o.params, n.params)
  <2>1. Params(i, op) = DOMAIN o.params /\ Params(j, op) = DOMAIN m.params
        /\ Params(k, op) = DOMAIN n.params
    BY <1>2, <1>3, SpecAssumption DEF Params, Document, OperationsOf, Revisions
  <2>2. op \in DOMAIN Document("openapi", i).operations
    BY SpecAssumption DEF Document, OperationsOf, Revisions
  <2>3. (DOMAIN o.params \cap DOMAIN n.params) \ DOMAIN m.params = {}
    BY <2>1, <2>2 DEF Reuses
  <2>4. \A p \in DOMAIN m.params \cap DOMAIN n.params :
          (m.params[p].type = None) = (n.params[p].type = None)
    BY <1>4 DEF OpenApiSteady
  <2> HIDE DEF o, m, n
  <2>5. QED
    BY <1>3, <1>5, <2>3, <2>4, ParamsUnbroken
<1>7. ASSUME o.body # None
      PROVE  <<i, k>> \in KeptThere("request", BodySaid(op))
  <2> DEFINE said == BodySaid(op)
  <2>1. m.body # None /\ n.body # None
    BY <1>3, <1>5, <1>7
  <2>2. /\ i \in DOMAIN said /\ j \in DOMAIN said /\ k \in DOMAIN said
        /\ said[j].defs = Documents["openapi"][j].defs /\ said[j].schema = m.body
        /\ said[k].defs = Documents["openapi"][k].defs /\ said[k].schema = n.body
    BY <1>4, <1>7, <2>1, BodySaidIs
  <2>3. Breaking \notin CompareSchemas(said[j].defs, said[k].defs, "request",
                                       said[j].schema, said[k].schema)
    BY <1>3, <2>1, <2>2
  <2>4. SchemasLead("request", said, KeptThere("request", said))
    BY KeptThereLeads DEF OpenApiSchemasLast
  <2>5. <<i, j>> \in KeptThere("request", said)
    BY <1>5, <1>7
  <2> HIDE DEF said
  <2>6. <<i, k>> \in KeptThere("request", said)
    BY <2>2, <2>3, <2>4, <2>5 DEF SchemasLead
  <2>7. QED
    BY <2>6 DEF said
<1>8. ASSUME NEW code \in DOMAIN o.responses
      PROVE  /\ code \in DOMAIN n.responses
             /\ o.responses[code] # None =>
                  <<i, k>> \in KeptThere("response", ResponseSaid(op, code))
  <2> DEFINE said == ResponseSaid(op, code)
  <2>1. code \in DOMAIN m.responses /\ code \in DOMAIN n.responses
    <3>1. Breaking \notin compare_keys(m.responses, n.responses)
      BY <1>3
    <3>2. code \in DOMAIN m.responses
      BY <1>5
    <3> HIDE DEF m, n
    <3>3. QED
      BY <3>1, <3>2, KeysStay
  <2>2. /\ i \in HaveCode(op, code) /\ j \in HaveCode(op, code) /\ k \in HaveCode(op, code)
    BY <1>4, <2>1 DEF HaveCode
  <2>3. ASSUME o.responses[code] # None
        PROVE  <<i, k>> \in KeptThere("response", said)
    <3>1. m.responses[code] # None /\ n.responses[code] # None
      BY <2>2, <2>3 DEF OpenApiSteady
    <3>2. /\ i \in DOMAIN said /\ j \in DOMAIN said /\ k \in DOMAIN said
          /\ said[j].defs = Documents["openapi"][j].defs /\ said[j].schema = m.responses[code]
          /\ said[k].defs = Documents["openapi"][k].defs /\ said[k].schema = n.responses[code]
      BY <2>2, <2>3, <3>1, ResponseSaidIs
    <3>3. Breaking \notin CompareSchemas(said[j].defs, said[k].defs, "response",
                                         said[j].schema, said[k].schema)
      BY <1>3, <2>1, <3>1, <3>2
    <3>4. SchemasLead("response", said, KeptThere("response", said))
      BY KeptThereLeads DEF OpenApiSchemasLast
    <3>5. <<i, j>> \in KeptThere("response", said)
      BY <1>5, <2>3
    <3> HIDE DEF said
    <3>6. QED
      BY <3>2, <3>3, <3>4, <3>5 DEF SchemasLead
  <2>4. QED
    BY <2>1, <2>3
<1>9. (o.body = None) = (n.body = None)
  BY <1>3, <1>5
<1>10. QED
  BY <1>3, <1>6, <1>7, <1>8, <1>9 DEF OpKept

LEMMA OpenApiKeptServes ==
  ASSUME OpenApiSteady, OpenApiSchemasLast,
         NEW i \in Revisions("openapi"), NEW j \in Revisions("openapi"),
         <<i, j>> \in OpenApiKept
  PROVE  OpenApiServes(Documents["openapi"][i], Documents["openapi"][j])
<1> DEFINE old == Documents["openapi"][i]
           new == Documents["openapi"][j]
<1> SUFFICES ASSUME NEW op \in DOMAIN old.operations
             PROVE  /\ op \in DOMAIN new.operations
                    /\ ParamsKept(old.operations[op].params, new.operations[op].params)
                    /\ (old.operations[op].body = None) = (new.operations[op].body = None)
                    /\ old.operations[op].body # None =>
                         Accepts(old.defs, old.operations[op].body, new.defs, new.operations[op].body)
                    /\ \A code \in DOMAIN old.operations[op].responses :
                         /\ code \in DOMAIN new.operations[op].responses
                         /\ old.operations[op].responses[code] # None =>
                              Understands(old.defs, old.operations[op].responses[code],
                                         new.defs, new.operations[op].responses[code])
  BY DEF OpenApiServes, ParamsKept
<1> DEFINE o == old.operations[op]
           n == new.operations[op]
<1>1. OpKept(op, i, j)
  BY OpenApiKeptIs DEF OperationsOf
<1>2. /\ op \in DOMAIN new.operations
      /\ ParamsKept(o.params, n.params)
      /\ (o.body = None) = (n.body = None)
      /\ o.body # None => <<i, j>> \in KeptThere("request", BodySaid(op))
      /\ \A code \in DOMAIN o.responses :
           /\ code \in DOMAIN n.responses
           /\ o.responses[code] # None =>
                <<i, j>> \in KeptThere("response", ResponseSaid(op, code))
  BY <1>1 DEF OpKept, OperationsOf
<1>3. i \in HaveOp("openapi", op) /\ j \in HaveOp("openapi", op)
  BY <1>2 DEF HaveOp, OperationsOf
<1>4. ASSUME o.body # None
      PROVE  Accepts(old.defs, o.body, new.defs, n.body)
  <2> DEFINE said == BodySaid(op)
  <2>1. /\ i \in DOMAIN said /\ said[i].defs = old.defs /\ said[i].schema = o.body
        /\ j \in DOMAIN said /\ said[j].defs = new.defs /\ said[j].schema = n.body
    BY <1>2, <1>3, <1>4, BodySaidIs DEF OperationsOf
  <2>2. Follows("request", said[i], said[j])
    BY <1>2, <1>4, <2>1, KeptThereLeads DEF SchemasLead, OpenApiSchemasLast
  <2> HIDE DEF said
  <2>3. QED
    BY <2>1, <2>2 DEF Follows
<1>5. ASSUME NEW code \in DOMAIN o.responses, o.responses[code] # None
      PROVE  Understands(old.defs, o.responses[code], new.defs, n.responses[code])
  <2> DEFINE said == ResponseSaid(op, code)
  <2>1. i \in HaveCode(op, code) /\ j \in HaveCode(op, code)
    BY <1>2, <1>3 DEF HaveCode, OperationsOf
  <2>2. n.responses[code] # None
    BY <1>5, <2>1 DEF OpenApiSteady, OperationsOf
  <2>3. /\ i \in DOMAIN said /\ said[i].defs = old.defs /\ said[i].schema = o.responses[code]
        /\ j \in DOMAIN said /\ said[j].defs = new.defs /\ said[j].schema = n.responses[code]
    BY <1>5, <2>1, <2>2, ResponseSaidIs DEF OperationsOf
  <2>4. Follows("response", said[i], said[j])
    BY <1>2, <1>5, <2>3, KeptThereLeads DEF SchemasLead, OpenApiSchemasLast
  <2> HIDE DEF said
  <2>5. QED
    BY <2>3, <2>4 DEF Follows
<1>6. QED
  BY <1>2, <1>4, <1>5

LEMMA OpenApiLasting ==
  ASSUME "openapi" \in DOMAIN Documents, OpenApiSteady, OpenApiSchemasLast
  PROVE  Lasting("openapi")
<1>1. \A i \in Revisions("openapi") : <<i, i>> \in OpenApiKept
  BY OpenApiItself
<1>2. \A i, j, k \in Revisions("openapi") :
        <<i, j>> \in OpenApiKept /\ ~Breaks("openapi", j, k) /\ ~Reuses("openapi", i, j, k)
          => <<i, k>> \in OpenApiKept
  BY OpenApiOn
<1>3. \A i, j \in Revisions("openapi") :
        <<i, j>> \in OpenApiKept
          => Serves("openapi", Documents["openapi"][i], Documents["openapi"][j])
  BY OpenApiKeptServes DEF Serves
<1>4. Leads("openapi", OpenApiKept)
  BY <1>1, <1>2, <1>3 DEF Leads
<1>5. QED
  BY <1>4 DEF Lasting

-----------------------------------------------------------------------------
(* AsyncAPI: what we send is read by others, what we receive is said by them. *)

Towards(action) == IF action = "send" THEN "response" ELSE "request"
PayloadSaid(op, action) ==
  [i \in {r \in HaveOp("asyncapi", op) :
            /\ OperationsOf("asyncapi", r)[op].action = action
            /\ OperationsOf("asyncapi", r)[op].payload # None} |->
     [defs |-> Documents["asyncapi"][i].defs, schema |-> OperationsOf("asyncapi", i)[op].payload]]

AsyncApiSchemasLast ==
  \A op, action : SchemasLast(Towards(action), PayloadSaid(op, action))

MessageKept(op, i, j) ==
  /\ op \in DOMAIN OperationsOf("asyncapi", j)
  /\ LET o == OperationsOf("asyncapi", i)[op]
         n == OperationsOf("asyncapi", j)[op]
     IN  /\ n.action = o.action /\ n.address = o.address
         /\ o.payload # None =>
              /\ n.payload # None
              /\ <<i, j>> \in KeptThere(Towards(o.action), PayloadSaid(op, o.action))

AsyncApiKept ==
  {p \in Revisions("asyncapi") \X Revisions("asyncapi") :
     \A op \in DOMAIN OperationsOf("asyncapi", p[1]) : MessageKept(op, p[1], p[2])}

LEMMA AsyncApiKeptIs ==
  ASSUME NEW i \in Revisions("asyncapi"), NEW j \in Revisions("asyncapi")
  PROVE  <<i, j>> \in AsyncApiKept
           <=> \A op \in DOMAIN OperationsOf("asyncapi", i) : MessageKept(op, i, j)
BY DEF AsyncApiKept

LEMMA PayloadSaidIs ==
  ASSUME NEW op, NEW action, NEW i \in HaveOp("asyncapi", op),
         OperationsOf("asyncapi", i)[op].action = action,
         OperationsOf("asyncapi", i)[op].payload # None
  PROVE  /\ i \in DOMAIN PayloadSaid(op, action)
         /\ PayloadSaid(op, action)[i].defs = Documents["asyncapi"][i].defs
         /\ PayloadSaid(op, action)[i].schema = OperationsOf("asyncapi", i)[op].payload
BY DEF PayloadSaid

LEMMA AsyncApiUnbroken ==
  ASSUME "asyncapi" \in DOMAIN Documents,
         NEW j \in Revisions("asyncapi"), NEW k \in Revisions("asyncapi"),
         ~Breaks("asyncapi", j, k), NEW op \in DOMAIN OperationsOf("asyncapi", j)
  PROVE  /\ op \in DOMAIN OperationsOf("asyncapi", k)
         /\ LET o == OperationsOf("asyncapi", j)[op]
                n == OperationsOf("asyncapi", k)[op]
            IN  /\ n.action = o.action /\ n.address = o.address
                /\ o.payload # None =>
                     /\ n.payload # None
                     /\ Breaking \notin
                          CompareSchemas(Documents["asyncapi"][j].defs, Documents["asyncapi"][k].defs,
                                         Towards(n.action), o.payload, n.payload)
<1> DEFINE old == Documents["asyncapi"][j]
           new == Documents["asyncapi"][k]
           Operation(o, n) ==
             IF o.action # n.action THEN {Breaking}
             ELSE {Breaking : moved \in {o.address} \ {n.address}}
                  \cup (IF n.payload = None THEN {Breaking : lost \in {o.payload} \ {None}}
                        ELSE IF o.payload = None THEN {Additive}
                        ELSE CompareSchemas(old.defs, new.defs,
                                            IF n.action = "send" THEN "response" ELSE "request",
                                            o.payload, n.payload))
           o == old.operations[op]
           n == new.operations[op]
<1>1. Breaking \notin AsyncApiDiff(old, new)
  BY SpecAssumption DEF Breaks, diff, Document, Revisions
<1>2. /\ Breaking \notin compare_keys(old.operations, new.operations)
      /\ \A p \in Both(old.operations, new.operations) : Breaking \notin Operation(p[1], p[2])
  BY <1>1 DEF AsyncApiDiff
<1>3. op \in DOMAIN new.operations /\ <<o, n>> \in Both(old.operations, new.operations)
  BY <1>2, KeysStay DEF OperationsOf
<1>4. Breaking \notin Operation(o, n)
  BY <1>2, <1>3
<1>5. n.action = o.action
  BY <1>4
<1>6. n.address = o.address
  BY <1>4, <1>5
<1>7. o.payload # None => n.payload # None
  BY <1>4, <1>5
<1>8. o.payload # None =>
        Breaking \notin CompareSchemas(old.defs, new.defs, Towards(n.action), o.payload, n.payload)
  BY <1>4, <1>5, <1>7 DEF Towards
<1>9. QED
  BY <1>3, <1>5, <1>6, <1>7, <1>8 DEF OperationsOf

LEMMA AsyncApiLasting ==
  ASSUME "asyncapi" \in DOMAIN Documents, AsyncApiSchemasLast
  PROVE  Lasting("asyncapi")
<1>1. ASSUME NEW i \in Revisions("asyncapi")
      PROVE  <<i, i>> \in AsyncApiKept
  <2> SUFFICES ASSUME NEW op \in DOMAIN OperationsOf("asyncapi", i) PROVE MessageKept(op, i, i)
    BY AsyncApiKeptIs
  <2> DEFINE o == OperationsOf("asyncapi", i)[op]
  <2>1. i \in HaveOp("asyncapi", op)
    BY DEF HaveOp
  <2>2. o.payload # None => <<i, i>> \in KeptThere(Towards(o.action), PayloadSaid(op, o.action))
    BY <2>1, PayloadSaidIs, KeptThereLeads DEF SchemasLead, AsyncApiSchemasLast
  <2>3. QED
    BY <2>2 DEF MessageKept
<1>2. ASSUME NEW i \in Revisions("asyncapi"), NEW j \in Revisions("asyncapi"),
             NEW k \in Revisions("asyncapi"),
             <<i, j>> \in AsyncApiKept, ~Breaks("asyncapi", j, k)
      PROVE  <<i, k>> \in AsyncApiKept
  <2> SUFFICES ASSUME NEW op \in DOMAIN OperationsOf("asyncapi", i) PROVE MessageKept(op, i, k)
    BY AsyncApiKeptIs
  <2> DEFINE o == OperationsOf("asyncapi", i)[op]
             m == OperationsOf("asyncapi", j)[op]
             n == OperationsOf("asyncapi", k)[op]
             dir == Towards(o.action)
             said == PayloadSaid(op, o.action)
  <2>1. MessageKept(op, i, j)
    BY <1>2, AsyncApiKeptIs
  <2>2. /\ op \in DOMAIN OperationsOf("asyncapi", j)
        /\ m.action = o.action /\ m.address = o.address
        /\ o.payload # None => m.payload # None /\ <<i, j>> \in KeptThere(dir, said)
    BY <2>1 DEF MessageKept
  <2>3. /\ op \in DOMAIN OperationsOf("asyncapi", k)
        /\ n.action = m.action /\ n.address = m.address
        /\ m.payload # None =>
             /\ n.payload # None
             /\ Breaking \notin
                  CompareSchemas(Documents["asyncapi"][j].defs, Documents["asyncapi"][k].defs,
                                 Towards(n.action), m.payload, n.payload)
    BY <1>2, <2>2, AsyncApiUnbroken
  <2>4. ASSUME o.payload # None
        PROVE  n.payload # None /\ <<i, k>> \in KeptThere(dir, said)
    <3>1. i \in HaveOp("asyncapi", op) /\ j \in HaveOp("asyncapi", op) /\ k \in HaveOp("asyncapi", op)
      BY <2>2, <2>3 DEF HaveOp
    <3>2. m.payload # None /\ n.payload # None
      BY <2>2, <2>3, <2>4
    <3>3. /\ i \in DOMAIN said /\ j \in DOMAIN said /\ k \in DOMAIN said
          /\ said[j].defs = Documents["asyncapi"][j].defs /\ said[j].schema = m.payload
          /\ said[k].defs = Documents["asyncapi"][k].defs /\ said[k].schema = n.payload
      BY <2>2, <2>3, <2>4, <3>1, <3>2, PayloadSaidIs
    <3>4. Breaking \notin CompareSchemas(said[j].defs, said[k].defs, dir, said[j].schema, said[k].schema)
      BY <2>2, <2>3, <3>2, <3>3
    <3>5. SchemasLead(dir, said, KeptThere(dir, said))
      BY KeptThereLeads DEF AsyncApiSchemasLast
    <3>6. <<i, j>> \in KeptThere(dir, said)
      BY <2>2, <2>4
    <3> HIDE DEF dir, said
    <3>7. <<i, k>> \in KeptThere(dir, said)
      BY <3>3, <3>4, <3>5, <3>6 DEF SchemasLead
    <3>8. QED
      BY <3>2, <3>7
  <2>5. QED
    BY <2>2, <2>3, <2>4 DEF MessageKept
<1>3. ASSUME NEW i \in Revisions("asyncapi"), NEW j \in Revisions("asyncapi"),
             <<i, j>> \in AsyncApiKept
      PROVE  AsyncApiServes(Documents["asyncapi"][i], Documents["asyncapi"][j])
  <2> DEFINE old == Documents["asyncapi"][i]
             new == Documents["asyncapi"][j]
  <2>1. ASSUME NEW op \in DOMAIN old.operations
        PROVE  LET o == old.operations[op]
                   n == new.operations[op]
               IN  /\ op \in DOMAIN new.operations
                   /\ n.action = o.action /\ n.address = o.address
                   /\ o.payload # None =>
                        /\ n.payload # None
                        /\ IF o.action = "send"
                           THEN Understands(old.defs, o.payload, new.defs, n.payload)
                           ELSE Accepts(old.defs, o.payload, new.defs, n.payload)
    <3> DEFINE o == old.operations[op]
               n == new.operations[op]
               dir == Towards(o.action)
               said == PayloadSaid(op, o.action)
    <3>1. MessageKept(op, i, j)
      BY <1>3, AsyncApiKeptIs DEF OperationsOf
    <3>2. /\ op \in DOMAIN new.operations
          /\ n.action = o.action /\ n.address = o.address
          /\ o.payload # None => n.payload # None /\ <<i, j>> \in KeptThere(dir, said)
      BY <3>1 DEF MessageKept, OperationsOf
    <3>3. i \in HaveOp("asyncapi", op) /\ j \in HaveOp("asyncapi", op)
      BY <3>2 DEF HaveOp, OperationsOf
    <3>4. ASSUME o.payload # None
          PROVE  IF o.action = "send"
                 THEN Understands(old.defs, o.payload, new.defs, n.payload)
                 ELSE Accepts(old.defs, o.payload, new.defs, n.payload)
      <4>1. /\ i \in DOMAIN said /\ said[i].defs = old.defs /\ said[i].schema = o.payload
            /\ j \in DOMAIN said /\ said[j].defs = new.defs /\ said[j].schema = n.payload
        BY <3>2, <3>3, <3>4, PayloadSaidIs DEF OperationsOf
      <4>2. SchemasLead(dir, said, KeptThere(dir, said))
        BY KeptThereLeads DEF AsyncApiSchemasLast
      <4>3. Follows(dir, said[i], said[j])
        BY <3>2, <3>4, <4>1, <4>2 DEF SchemasLead
      <4> HIDE DEF said
      <4>4. QED
        BY <4>1, <4>3 DEF Follows, Towards
    <3>5. QED
      BY <3>2, <3>4
  <2>2. QED
    BY <2>1 DEF AsyncApiServes
<1>4. Leads("asyncapi", AsyncApiKept)
  BY <1>1, <1>2, <1>3 DEF Leads, Serves
<1>5. QED
  BY <1>4 DEF Lasting

-----------------------------------------------------------------------------
(* MCP: a tool's input is sent to us, its output by us; each has its own      *)
(* shared schemas.                                                            *)

InputSaid(tool) == [i \in HaveOp("mcp", tool) |-> OperationsOf("mcp", i)[tool].input]
OutputSaid(tool) ==
  [i \in {r \in HaveOp("mcp", tool) : OperationsOf("mcp", r)[tool].output # None} |->
     OperationsOf("mcp", i)[tool].output]

McpSchemasLast ==
  \A tool : SchemasLast("request", InputSaid(tool)) /\ SchemasLast("response", OutputSaid(tool))

ToolKept(tool, i, j) ==
  /\ tool \in DOMAIN OperationsOf("mcp", j)
  /\ <<i, j>> \in KeptThere("request", InputSaid(tool))
  /\ OperationsOf("mcp", i)[tool].output # None =>
       /\ OperationsOf("mcp", j)[tool].output # None
       /\ <<i, j>> \in KeptThere("response", OutputSaid(tool))

McpKept ==
  {p \in Revisions("mcp") \X Revisions("mcp") :
     \A tool \in DOMAIN OperationsOf("mcp", p[1]) : ToolKept(tool, p[1], p[2])}

LEMMA McpKeptIs ==
  ASSUME NEW i \in Revisions("mcp"), NEW j \in Revisions("mcp")
  PROVE  <<i, j>> \in McpKept <=> \A tool \in DOMAIN OperationsOf("mcp", i) : ToolKept(tool, i, j)
BY DEF McpKept

LEMMA InputSaidIs ==
  ASSUME NEW tool, NEW i \in HaveOp("mcp", tool)
  PROVE  i \in DOMAIN InputSaid(tool) /\ InputSaid(tool)[i] = OperationsOf("mcp", i)[tool].input
BY DEF InputSaid

LEMMA OutputSaidIs ==
  ASSUME NEW tool, NEW i \in HaveOp("mcp", tool), OperationsOf("mcp", i)[tool].output # None
  PROVE  i \in DOMAIN OutputSaid(tool) /\ OutputSaid(tool)[i] = OperationsOf("mcp", i)[tool].output
BY DEF OutputSaid

LEMMA McpUnbroken ==
  ASSUME "mcp" \in DOMAIN Documents, NEW j \in Revisions("mcp"), NEW k \in Revisions("mcp"),
         ~Breaks("mcp", j, k), NEW tool \in DOMAIN OperationsOf("mcp", j)
  PROVE  /\ tool \in DOMAIN OperationsOf("mcp", k)
         /\ LET o == OperationsOf("mcp", j)[tool]
                n == OperationsOf("mcp", k)[tool]
            IN  /\ Breaking \notin CompareSchemas(o.input.defs, n.input.defs, "request",
                                                  o.input.schema, n.input.schema)
                /\ o.output # None =>
                     /\ n.output # None
                     /\ Breaking \notin CompareSchemas(o.output.defs, n.output.defs, "response",
                                                       o.output.schema, n.output.schema)
<1> DEFINE old == Documents["mcp"][j]
           new == Documents["mcp"][k]
           Tool(o, n) ==
             CompareSchemas(o.input.defs, n.input.defs, "request", o.input.schema, n.input.schema)
             \cup (IF n.output = None THEN {Breaking : lost \in {o.output} \ {None}}
                   ELSE IF o.output = None THEN {Additive}
                   ELSE CompareSchemas(o.output.defs, n.output.defs, "response",
                                       o.output.schema, n.output.schema))
           o == old.operations[tool]
           n == new.operations[tool]
<1>1. Breaking \notin McpDiff(old, new)
  BY SpecAssumption DEF Breaks, diff, Document, Revisions
<1>2. /\ Breaking \notin compare_keys(old.operations, new.operations)
      /\ \A p \in Both(old.operations, new.operations) : Breaking \notin Tool(p[1], p[2])
  BY <1>1 DEF McpDiff
<1>3. tool \in DOMAIN new.operations /\ <<o, n>> \in Both(old.operations, new.operations)
  BY <1>2, KeysStay DEF OperationsOf
<1>4. Breaking \notin Tool(o, n)
  BY <1>2, <1>3
<1>5. o.output # None => n.output # None
  BY <1>4
<1>6. o.output # None => Breaking \notin CompareSchemas(o.output.defs, n.output.defs, "response",
                                                        o.output.schema, n.output.schema)
  BY <1>4, <1>5
<1>7. Breaking \notin CompareSchemas(o.input.defs, n.input.defs, "request",
                                     o.input.schema, n.input.schema)
  BY <1>4
<1>8. QED
  BY <1>3, <1>5, <1>6, <1>7 DEF OperationsOf

LEMMA McpLasting ==
  ASSUME "mcp" \in DOMAIN Documents, McpSchemasLast
  PROVE  Lasting("mcp")
<1>1. ASSUME NEW i \in Revisions("mcp")
      PROVE  <<i, i>> \in McpKept
  <2> SUFFICES ASSUME NEW tool \in DOMAIN OperationsOf("mcp", i) PROVE ToolKept(tool, i, i)
    BY McpKeptIs
  <2>1. i \in HaveOp("mcp", tool)
    BY DEF HaveOp
  <2>2. <<i, i>> \in KeptThere("request", InputSaid(tool))
    BY <2>1, InputSaidIs, KeptThereLeads DEF SchemasLead, McpSchemasLast
  <2>3. OperationsOf("mcp", i)[tool].output # None =>
          <<i, i>> \in KeptThere("response", OutputSaid(tool))
    BY <2>1, OutputSaidIs, KeptThereLeads DEF SchemasLead, McpSchemasLast
  <2>4. QED
    BY <2>2, <2>3 DEF ToolKept
<1>2. ASSUME NEW i \in Revisions("mcp"), NEW j \in Revisions("mcp"), NEW k \in Revisions("mcp"),
             <<i, j>> \in McpKept, ~Breaks("mcp", j, k)
      PROVE  <<i, k>> \in McpKept
  <2> SUFFICES ASSUME NEW tool \in DOMAIN OperationsOf("mcp", i) PROVE ToolKept(tool, i, k)
    BY McpKeptIs
  <2> DEFINE o == OperationsOf("mcp", i)[tool]
             m == OperationsOf("mcp", j)[tool]
             n == OperationsOf("mcp", k)[tool]
             sent == InputSaid(tool)
             told == OutputSaid(tool)
  <2>1. ToolKept(tool, i, j)
    BY <1>2, McpKeptIs
  <2>2. /\ tool \in DOMAIN OperationsOf("mcp", j)
        /\ <<i, j>> \in KeptThere("request", sent)
        /\ o.output # None => m.output # None /\ <<i, j>> \in KeptThere("response", told)
    BY <2>1 DEF ToolKept
  <2>3. /\ tool \in DOMAIN OperationsOf("mcp", k)
        /\ Breaking \notin CompareSchemas(m.input.defs, n.input.defs, "request",
                                          m.input.schema, n.input.schema)
        /\ m.output # None =>
             /\ n.output # None
             /\ Breaking \notin CompareSchemas(m.output.defs, n.output.defs, "response",
                                               m.output.schema, n.output.schema)
    BY <1>2, <2>2, McpUnbroken
  <2>4. i \in HaveOp("mcp", tool) /\ j \in HaveOp("mcp", tool) /\ k \in HaveOp("mcp", tool)
    BY <2>2, <2>3 DEF HaveOp
  <2>5. <<i, k>> \in KeptThere("request", sent)
    <3>1. /\ i \in DOMAIN sent /\ j \in DOMAIN sent /\ k \in DOMAIN sent
          /\ sent[j] = m.input /\ sent[k] = n.input
      BY <2>4, InputSaidIs
    <3>2. SchemasLead("request", sent, KeptThere("request", sent))
      BY KeptThereLeads DEF McpSchemasLast
    <3>3. Breaking \notin CompareSchemas(sent[j].defs, sent[k].defs, "request",
                                         sent[j].schema, sent[k].schema)
      BY <2>3, <3>1
    <3>4. <<i, j>> \in KeptThere("request", sent)
      BY <2>2
    <3> HIDE DEF sent
    <3>5. QED
      BY <3>1, <3>2, <3>3, <3>4 DEF SchemasLead
  <2>6. ASSUME o.output # None
        PROVE  n.output # None /\ <<i, k>> \in KeptThere("response", told)
    <3>1. m.output # None /\ n.output # None
      BY <2>2, <2>3, <2>6
    <3>2. /\ i \in DOMAIN told /\ j \in DOMAIN told /\ k \in DOMAIN told
          /\ told[j] = m.output /\ told[k] = n.output
      BY <2>4, <2>6, <3>1, OutputSaidIs
    <3>3. SchemasLead("response", told, KeptThere("response", told))
      BY KeptThereLeads DEF McpSchemasLast
    <3>4. Breaking \notin CompareSchemas(told[j].defs, told[k].defs, "response",
                                         told[j].schema, told[k].schema)
      BY <2>3, <3>1, <3>2
    <3>5. <<i, j>> \in KeptThere("response", told)
      BY <2>2, <2>6
    <3> HIDE DEF told
    <3>6. <<i, k>> \in KeptThere("response", told)
      BY <3>2, <3>3, <3>4, <3>5 DEF SchemasLead
    <3>7. QED
      BY <3>1, <3>6
  <2>7. QED
    BY <2>3, <2>5, <2>6 DEF ToolKept
<1>3. ASSUME NEW i \in Revisions("mcp"), NEW j \in Revisions("mcp"), <<i, j>> \in McpKept
      PROVE  McpServes(Documents["mcp"][i], Documents["mcp"][j])
  <2> DEFINE old == Documents["mcp"][i]
             new == Documents["mcp"][j]
  <2>1. ASSUME NEW tool \in DOMAIN old.operations
        PROVE  LET o == old.operations[tool]
                   n == new.operations[tool]
               IN  /\ tool \in DOMAIN new.operations
                   /\ Accepts(o.input.defs, o.input.schema, n.input.defs, n.input.schema)
                   /\ o.output # None =>
                        /\ n.output # None
                        /\ Understands(o.output.defs, o.output.schema,
                                      n.output.defs, n.output.schema)
    <3> DEFINE o == old.operations[tool]
               n == new.operations[tool]
    <3>1. ToolKept(tool, i, j)
      BY <1>3, McpKeptIs DEF OperationsOf
    <3>2. /\ tool \in DOMAIN new.operations
          /\ <<i, j>> \in KeptThere("request", InputSaid(tool))
          /\ o.output # None =>
               n.output # None /\ <<i, j>> \in KeptThere("response", OutputSaid(tool))
      BY <3>1 DEF ToolKept, OperationsOf
    <3>3. i \in HaveOp("mcp", tool) /\ j \in HaveOp("mcp", tool)
      BY <3>2 DEF HaveOp, OperationsOf
    <3>4. Follows("request", o.input, n.input)
      <4>1. /\ i \in DOMAIN InputSaid(tool) /\ InputSaid(tool)[i] = o.input
            /\ j \in DOMAIN InputSaid(tool) /\ InputSaid(tool)[j] = n.input
        BY <3>3, InputSaidIs DEF OperationsOf
      <4>2. QED
        BY <3>2, <4>1, KeptThereLeads DEF SchemasLead, McpSchemasLast
    <3>5. o.output # None => Follows("response", o.output, n.output)
      <4>1. SUFFICES ASSUME o.output # None PROVE Follows("response", o.output, n.output)
        OBVIOUS
      <4>2. /\ i \in DOMAIN OutputSaid(tool) /\ OutputSaid(tool)[i] = o.output
            /\ j \in DOMAIN OutputSaid(tool) /\ OutputSaid(tool)[j] = n.output
        BY <3>2, <3>3, <4>1, OutputSaidIs DEF OperationsOf
      <4>3. QED
        BY <3>2, <4>1, <4>2, KeptThereLeads DEF SchemasLead, McpSchemasLast
    <3>6. QED
      BY <3>2, <3>4, <3>5 DEF Follows
  <2>2. QED
    BY <2>1 DEF McpServes
<1>4. Leads("mcp", McpKept)
  BY <1>1, <1>2, <1>3 DEF Leads, Serves
<1>5. QED
  BY <1>4 DEF Lasting

-----------------------------------------------------------------------------

Comparable ==
  /\ "openapi" \in DOMAIN Documents => OpenApiSteady /\ OpenApiSchemasLast
  /\ "asyncapi" \in DOMAIN Documents => AsyncApiSchemasLast
  /\ "mcp" \in DOMAIN Documents => McpSchemasLast
  /\ "graphql" \in DOMAIN Documents => GraphQlSteady

(* A consumer of any document that was published is served by the code of     *)
(* main, however many merges later, while the version stays in its series and *)
(* no break was let through: for any documents in the four dialects whose     *)
(* schemas, place by place, last (spec_gate.rs: gate).                        *)
THEOREM ConsumersServedAlways ==
  ASSUME Comparable PROVE SpecSpec => []ConsumersServed
<1>1. ASSUME NEW kind \in DOMAIN Documents PROVE Lasting(kind)
  <2>1. kind \in {"openapi", "asyncapi", "mcp", "graphql"}
    BY SpecAssumption
  <2>2. QED
    BY <2>1, OpenApiLasting, AsyncApiLasting, McpLasting, GraphQlLasting DEF Comparable
<1>2. QED
  BY <1>1, ServedWhereLasting

(* The same of GraphQL, whose types are not schemas: of any documents whose   *)
(* lists do not change both nullabilities at once, in opposite directions,    *)
(* and of nothing else (graphql/diff.rs: diff).                               *)
THEOREM GraphQlConsumersServed ==
  ASSUME DOMAIN Documents = {"graphql"}, GraphQlSteady
  PROVE  SpecSpec => []ConsumersServed
<1>1. Comparable
  BY DEF Comparable
<1>2. QED
  BY <1>1, ConsumersServedAlways
=============================================================================
