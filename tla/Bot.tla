-------------------------------- MODULE Bot --------------------------------
(***************************************************************************)
(* Pull request labels (bot/src: route, act, load, gated, byWriters,        *)
(* decide, perform): deliveries of GitHub, handled side by side, late and   *)
(* more than once, and sweeps.  Between two awaits anything may happen.     *)
(*                                                                          *)
(* GitHub is external: it merges a green pull request whose auto-merge is   *)
(* on, drops auto-merge when somebody who cannot write pushes the branch,   *)
(* takes the expected head commit of a request seriously, and refuses       *)
(* auto-merge for what it could merge at once.                              *)
(***************************************************************************)
EXTENDS Naturals, Sequences, SequencesExt, Option

CONSTANTS
  PRs, Users, Writers,
  Merge, Update, Ignore,   \* one label of each role
  Configs,         \* [bot] tables: [on, all], `labels' and `update_all'
  Handlers,        \* deliveries handled at once
  Sweeper,         \* the scheduled sweep
  MaxEvaluations,  \* 6 in the code
  MaxEvents        \* bound: what people do, and requests that fail

Labels == {Merge, Update, Ignore}
Workers == Handlers \cup {Sweeper}

(* A pull request, as GitHub has it or as a delivery has it.                *)
PullRequest ==
  [n : PRs, labels : SUBSET Labels, by : [Labels -> Users \cup {None}],
   head : Nat, has : Nat, auto : BOOLEAN, green : BOOLEAN, merged : BOOLEAN]

ASSUME BotAssumption ==
  /\ Writers \subseteq Users /\ Sweeper \notin Handlers
  /\ MaxEvaluations \in Nat \ {0} /\ MaxEvents \in Nat
  /\ None \notin Labels /\ None \notin PullRequest

VARIABLES
  pr,          \* the pull requests as GitHub has them
  recent,      \* their numbers, the most recently updated first
  tip, config, \* the default branch and its [bot] table
  checks,      \* it requires a check
  deliveries,  \* what GitHub sent, to be delivered late, twice or never
  cache,       \* the table an instance of the broker remembers
  job,
  events

vars == <<pr, recent, tip, config, checks, deliveries, cache, job, events>>
github == <<pr, recent, tip, config, checks, deliveries, events>>

NoJob == [pc |-> "idle", todo |-> <<>>, by |-> None, open |-> FALSE, fresh |-> FALSE,
         cfg |-> None, acts |-> <<>>, missed |-> FALSE]
NoOne == [label |-> None, user |-> None]

Bump(n) == recent' = <<n>> \o SelectSeq(recent, LAMBDA m : m # n)

-----------------------------------------------------------------------------
(* GitHub and people *)

(* What a pull request's delivery says; one without labels is passed over.  *)
Deliver(snap, by) ==
  deliveries' = IF snap.labels = {} THEN deliveries
                ELSE deliveries \cup {[snap |-> snap, by |-> by, changed |-> FALSE]}

Changes(n, after, by) ==
  /\ ~pr[n].merged /\ events < MaxEvents
  /\ pr' = [pr EXCEPT ![n] = after]
  /\ Deliver(after, by)
  /\ Bump(n) /\ events' = events + 1
  /\ UNCHANGED <<tip, config, checks, cache>>

(* A job that has not seen the label on since it began, sees it now.        *)
Labelled(n, l, u) ==
  /\ l \notin pr[n].labels
  /\ Changes(n, [pr[n] EXCEPT !.labels = @ \cup {l}, !.by[l] = IF l = Ignore THEN None ELSE u], [label |-> l, user |-> u])
  /\ job' = [w \in Workers |-> IF l = Merge THEN [job[w] EXCEPT !.missed = FALSE] ELSE job[w]]

Unlabelled(n, l) ==
  /\ l \in pr[n].labels
  /\ Changes(n, [pr[n] EXCEPT !.labels = @ \ {l}], NoOne)
  /\ job' = job

PushHead(n, u) ==
  /\ Changes(n, [pr[n] EXCEPT !.head = @ + 1, !.green = FALSE, !.auto = @ /\ u \in Writers], NoOne)
  /\ job' = job

PushBase(c) ==
  /\ events < MaxEvents /\ events' = events + 1
  /\ tip' = tip + 1 /\ config' = c
  /\ deliveries' = deliveries \cup {[snap |-> None, by |-> NoOne, changed |-> c # config]}
  /\ UNCHANGED <<pr, recent, checks, cache, job>>

ChecksPass(n) ==
  /\ ~pr[n].merged /\ ~pr[n].green
  /\ pr' = [pr EXCEPT ![n].green = TRUE]
  /\ UNCHANGED <<recent, tip, config, checks, deliveries, cache, job, events>>

AutoMerge(n) ==
  /\ pr[n].auto /\ pr[n].green /\ ~pr[n].merged
  /\ pr' = [pr EXCEPT ![n].merged = TRUE]
  /\ UNCHANGED <<recent, tip, config, checks, deliveries, cache, job, events>>

-----------------------------------------------------------------------------
(* The broker *)

Do(w, j) == job' = [job EXCEPT ![w] = j]

(* A delivery starts a job. *)
Begin(w) ==
  /\ w \in Handlers /\ job[w] = NoJob
  /\ \E d \in deliveries :
       /\ Do(w, [NoJob EXCEPT !.pc = "load", !.by = d.by, !.fresh = d.changed,
                             !.open = d.snap = None,
                             !.todo = IF d.snap = None THEN <<>> ELSE <<d.snap>>,
                             !.missed = d.snap # None /\ Merge \notin pr[d.snap.n].labels])
  /\ UNCHANGED <<github, cache>>

Sweep ==
  /\ job[Sweeper] = NoJob
  /\ Do(Sweeper, [NoJob EXCEPT !.pc = "load", !.by = NoOne, !.fresh = TRUE, !.open = TRUE])
  /\ UNCHANGED <<github, cache>>

Loaded(j, c) ==
  IF ~c.on THEN NoJob
  ELSE [j EXCEPT !.cfg = c, !.fresh = FALSE, !.open = FALSE, !.pc = IF j.open THEN "list" ELSE "judge"]

(* The cached table may be older than sixty seconds: then it is fetched.    *)
LoadCached(w) ==
  /\ job[w].pc = "load" /\ ~job[w].fresh /\ cache # None
  /\ Do(w, Loaded(job[w], cache))
  /\ UNCHANGED <<github, cache>>

Fetch(w) ==
  /\ job[w].pc = "load"
  /\ cache' = config
  /\ Do(w, Loaded(job[w], config))
  /\ UNCHANGED github

-----------------------------------------------------------------------------
(* What the labels of a snapshot ask for *)

WantsUpdate(s, c) == Update \in s.labels \/ c.all
WantsMerge(s, by) == by.label = Merge /\ Merge \in s.labels /\ ~s.auto

CanAct(s, c) == IF Ignore \in s.labels THEN s.auto ELSE WantsUpdate(s, c)

Capped(ns) ==
  SubSeq(ns, 1, IF Len(ns) < MaxEvaluations THEN Len(ns) ELSE MaxEvaluations)

(* Of the open pull requests there is something to do for, the most recently *)
(* updated.  Slip: the cap counts those, too, there is nothing to do for.    *)
ListedFirst(c) ==
  LET open == SelectSeq(recent, LAMBDA n : ~pr[n].merged)
  IN  SelectSeq(Capped(open), LAMBDA n : CanAct(pr[n], c))
Listed(c) == Capped(SelectSeq(recent, LAMBDA n : ~pr[n].merged /\ CanAct(pr[n], c)))

(* On to the next action, the next pull request, or the end.                *)
NextOne(j) ==
  IF Len(j.todo) <= 1 THEN NoJob ELSE [j EXCEPT !.pc = "judge", !.acts = <<>>, !.todo = Tail(@)]
Acting(j, acts) == IF acts = <<>> THEN NextOne(j) ELSE [j EXCEPT !.pc = "act", !.acts = acts]
Acted(j) == Acting(j, Tail(j.acts))

List(w) ==
  /\ job[w].pc = "list"
  /\ LET ns == Listed(job[w].cfg)
     IN  Do(w, IF ns = <<>> THEN NoJob
               ELSE [job[w] EXCEPT !.pc = "judge", !.todo = [i \in DOMAIN ns |-> pr[ns[i]]]])
  /\ UNCHANGED <<github, cache>>

(* Who applied a label: who the delivery says, else the last who did.       *)
AppliedBy(s, by, l) == IF by.label = l THEN by.user ELSE pr[s.n].by[l]
Writes(s, by, l) == AppliedBy(s, by, l) \in Writers

Behind(s) == s.has < tip

(* Slip: what is ignored is left as it is.                                  *)
DecideLettingQueued(s, by, c) ==
  IF Ignore \in s.labels THEN <<>>
  ELSE (IF Behind(s) /\ ((Update \in s.labels /\ Writes(s, by, Update)) \/ c.all)
        THEN <<"update">> ELSE <<>>)
       \o (IF WantsMerge(s, by) /\ Writes(s, by, Merge) /\ checks THEN <<"enable">> ELSE <<>>)
(* Slip: whoever applied the merge label.                                   *)
DecideForAnyone(s, by, c) ==
  IF Ignore \in s.labels THEN IF s.auto THEN <<"disable">> ELSE <<>>
  ELSE (IF Behind(s) /\ WantsUpdate(s, c) THEN <<"update">> ELSE <<>>)
       \o (IF WantsMerge(s, by) /\ checks THEN <<"enable">> ELSE <<>>)
Decide(s, by, c) ==
  IF Ignore \in s.labels THEN IF s.auto THEN <<"disable">> ELSE <<>>
  ELSE (IF Behind(s) /\ ((Update \in s.labels /\ Writes(s, by, Update)) \/ c.all)
        THEN <<"update">> ELSE <<>>)
       \o (IF WantsMerge(s, by) /\ Writes(s, by, Merge) /\ checks THEN <<"enable">> ELSE <<>>)

Judge(w) ==
  /\ job[w].pc = "judge"
  /\ Do(w, Acting(job[w], Decide(Head(job[w].todo), job[w].by, job[w].cfg)))
  /\ UNCHANGED <<github, cache>>

Seen(w) == Head(job[w].todo)
Act(w, a) == job[w].pc = "act" /\ Head(job[w].acts) = a

Disable(w) ==
  /\ Act(w, "disable")
  /\ LET n == Seen(w).n
     IN  IF pr[n].auto /\ ~pr[n].merged
         THEN pr' = [pr EXCEPT ![n].auto = FALSE] /\ Bump(n) /\ Do(w, Acted(job[w]))
         ELSE UNCHANGED <<pr, recent>> /\ Do(w, NextOne(job[w]))
  /\ UNCHANGED <<tip, config, checks, deliveries, cache, events>>

(* GitHub merges the base into the expected head; a refusal is logged.      *)
UpdateBranch(w) ==
  /\ Act(w, "update")
  /\ LET n == Seen(w).n
         after == [pr[n] EXCEPT !.head = @ + 1, !.has = tip, !.green = FALSE]
     IN  IF pr[n].head = Seen(w).head /\ ~pr[n].merged /\ Behind(pr[n])
         THEN pr' = [pr EXCEPT ![n] = after] /\ Deliver(after, NoOne) /\ Bump(n)
         ELSE UNCHANGED <<pr, recent, deliveries>>
  /\ Do(w, Acted(job[w]))
  /\ UNCHANGED <<tip, config, checks, cache, events>>

(* The live pull request must still be what was seen.  Slips: its label,    *)
(* its commit is not looked at.                                             *)
UnchangedIfUnlabelled(current, seen) ==
  ~current.auto /\ current.head = seen.head
Unchanged(current, seen) ==
  Merge \in current.labels /\ ~current.auto /\ current.head = seen.head

ReRead(w) ==
  /\ Act(w, "enable")
  /\ LET s == Seen(w)
     IN  Do(w, IF Unchanged(pr[s.n], s) THEN [job[w] EXCEPT !.pc = "enable"] ELSE Acted(job[w]))
  /\ UNCHANGED <<github, cache>>

Enable(w) ==
  /\ job[w].pc = "enable"
  /\ LET n == Seen(w).n
     IN  IF pr[n].merged \/ pr[n].head # Seen(w).head
         THEN UNCHANGED <<pr, recent>> /\ Do(w, NextOne(job[w]))
         ELSE IF pr[n].green
         THEN UNCHANGED <<pr, recent>> /\ Do(w, [job[w] EXCEPT !.pc = "merge"])
         ELSE pr' = [pr EXCEPT ![n].auto = TRUE] /\ Bump(n) /\ Do(w, Acted(job[w]))
  /\ UNCHANGED <<tip, config, checks, deliveries, cache, events>>

MergeNow(w) ==
  /\ job[w].pc = "merge"
  /\ LET n == Seen(w).n
     IN  IF ~pr[n].merged /\ pr[n].green /\ pr[n].head = Seen(w).head
         THEN pr' = [pr EXCEPT ![n].merged = TRUE] /\ Bump(n)
         ELSE UNCHANGED <<pr, recent>>
  /\ Do(w, Acted(job[w]))
  /\ UNCHANGED <<tip, config, checks, deliveries, cache, events>>

(* A request fails: the rest of the delivery is dropped, or in a list of     *)
(* pull requests, the rest of this one.                                     *)
Break(w) ==
  /\ job[w].pc # "idle"
  /\ events < MaxEvents /\ events' = events + 1
  /\ Do(w, IF job[w].pc \in {"load", "list"} THEN NoJob ELSE NextOne(job[w]))
  /\ UNCHANGED <<pr, recent, tip, config, checks, deliveries, cache>>

-----------------------------------------------------------------------------
Opened(n, labels, u) ==
  [n |-> n, labels |-> labels, by |-> [l \in Labels |-> IF l \in labels THEN u ELSE None],
   head |-> 0, has |-> 0, auto |-> FALSE, green |-> FALSE, merged |-> FALSE]

(* Some pull requests are merged, the others were opened before the base    *)
(* was pushed to, if it was.                                                *)
Init ==
  /\ \E u \in Users, open \in SUBSET PRs : \E labels \in [open -> {{}, {Update}}] :
       pr = [n \in PRs |-> IF n \in open THEN Opened(n, labels[n], u)
                           ELSE [Opened(n, {}, u) EXCEPT !.merged = TRUE]]
  /\ recent = SetToSeq(PRs)
  /\ tip \in 0..MaxEvents /\ config \in Configs /\ checks \in BOOLEAN
  /\ deliveries = {} /\ cache = None
  /\ job = [w \in Workers |-> NoJob]
  /\ events = tip

Handle(w) ==
  \/ LoadCached(w) \/ Fetch(w) \/ List(w) \/ Judge(w)
  \/ Disable(w) \/ UpdateBranch(w) \/ ReRead(w) \/ Enable(w) \/ MergeNow(w)

People ==
  \/ \E n \in PRs :
       \/ \E l \in Labels : Unlabelled(n, l) \/ \E u \in Users : Labelled(n, l, u)
       \/ \E u \in Users : PushHead(n, u)
       \/ ChecksPass(n) \/ AutoMerge(n)
  \/ \E c \in Configs : PushBase(c)

Next ==
  \/ People \/ Sweep
  \/ \E w \in Workers : Begin(w) \/ Handle(w) \/ Break(w)

(* A job goes on, and sweeps are scheduled again and again; a delivery need *)
(* not arrive.                                                              *)
SweepsGoOn == WF_vars(Sweep) /\ \A w \in Workers : WF_vars(Handle(w))
Spec == Init /\ [][Next]_vars /\ SweepsGoOn

-----------------------------------------------------------------------------
(* Properties *)

(* Jobs stand where their work is (bot/src/labels.ts: evaluate), and the    *)
(* pull requests are in their order.                                        *)
TypeOK ==
  /\ \A n \in PRs : /\ pr[n].n = n /\ pr[n].labels \subseteq Labels /\ pr[n].has \in 0..tip
                    /\ pr[n].head \in Nat
  /\ Range(recent) = PRs /\ Len(recent) = Len(SetToSeq(PRs))
  /\ config \in Configs /\ cache \in Configs \cup {None}
  /\ \A w \in Workers :
       /\ job[w].pc \in {"idle", "load", "list", "judge", "act", "enable", "merge"}
       /\ job[w].pc \in {"judge", "act", "enable", "merge"} => job[w].todo # <<>>
       /\ job[w].pc \in {"enable", "merge"} => job[w].acts # <<>> /\ Head(job[w].acts) = "enable"
       /\ Len(job[w].todo) <= MaxEvaluations

(* A writer applied the merge label while this was the head.                *)
Vouched(n, head) ==
  \E d \in deliveries : /\ d.snap # None /\ d.snap.n = n /\ d.snap.head = head
                        /\ d.by.label = Merge /\ d.by.user \in Writers
Queues(n) == (~pr[n].auto /\ pr'[n].auto) \/ (~pr[n].auto /\ ~pr[n].merged /\ pr'[n].merged)

(* What the bot queues or merges is a commit a writer labelled for it, on a *)
(* branch that requires checks, however late, often or far overtaken the    *)
(* delivery is; nothing pushed later is queued again (bot/src/labels.ts:    *)
(* gated, byWriters, unchanged).                                            *)
QueuesVouched == [][\A n \in PRs : Queues(n) => Vouched(n, pr[n].head) /\ checks]_vars

(* A delivery handled when the label is gone again, and stays gone, queues  *)
(* nothing (bot/src/labels.ts: unchanged, "overtaken by a label removal").   *)
RemovalHolds ==
  [][\A n \in PRs : Queues(n) =>
       \E w \in Workers : job[w].pc \in {"enable", "merge"} /\ Seen(w).n = n /\ ~job[w].missed]_vars

(* So many more recently updated ones can be acted on that a sweep does not *)
(* come to this one (bot/src/labels.ts: MAX_EVALUATIONS).                   *)
Place(n) == SelectInSeq(recent, LAMBDA m : m = n)
Crowded(n) ==
  Cardinality({m \in PRs : Place(m) < Place(n) /\ ~pr[m].merged /\ CanAct(pr[m], config)})
    >= MaxEvaluations

(* A queued merge somebody puts do-not-merge on does not stay queued,       *)
(* whether or not its delivery arrives, and whatever pull requests there is *)
(* nothing to do for were updated after it (bot/src/labels.ts: evaluateOpen). *)
Held(n) == Ignore \in pr[n].labels /\ pr[n].auto /\ ~pr[n].merged /\ config.on
HeldIsReleased == []<>(\A n \in PRs : Held(n) => Crowded(n))

(* A branch a writer wants up to date does not stay behind while it is among *)
(* the MaxEvaluations most recently updated that can be acted on, however    *)
(* many others were updated later (bot/src/labels.ts: evaluateOpen, isBehind). *)
LeftBehind(n) ==
  /\ Update \in pr[n].labels /\ pr[n].by[Update] \in Writers /\ Ignore \notin pr[n].labels
  /\ Behind(pr[n]) /\ ~pr[n].merged /\ config.on
LeftIsUpdated == []<>(\A n \in PRs : LeftBehind(n) => Crowded(n))

(* A job that queues a merge has not just read that it is held: do-not-merge *)
(* leaves the pull request alone (docs/ci.md, Labels).                       *)
HeldIsNotQueued ==
  [][\A w \in Workers : job[w].pc = "act" /\ job'[w].pc = "enable"
       => Ignore \notin pr[Seen(w).n].labels]_vars
=============================================================================
