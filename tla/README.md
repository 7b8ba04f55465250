# Verification of soothfast

soothfast measures Rust benchmarks inside the build, gates a change on
deterministic counters, and publishes documentation whose claims are checked
against what was measured. This directory holds TLA+ modules of the parts of it
that keep state between runs or share it between processes, the TLC runs that
check them on small instances, and theorems about them that TLAPS checks for
every instance. `PROJECT.json` maps each definition to the lines it models;
paths below are relative to `cargo-soothfast/src/` unless they start with a
crate or directory of the repository's root.

To repeat a check, in this directory: `tlc -config MCRunCache.cfg MCRunCache`,
`tlapm RunCacheProofs.tla`. `PROJECT.json` lists every run and theorem.

## 1. The system

One command, `cargo soothfast`, is run by hand, in several shells, by CI jobs in
parallel and by shards of one job. It has no daemon. All it keeps is on disk:
files under `.soothfast/` of the checkout (stores, caches, baselines, worktrees),
files committed to the repository (`soothfast-gate.lock`, `soothfast.lock`,
`probes.lock`, recorded output in pages), and the target directory it shares with
cargo. Nothing under `.soothfast/` is locked: invocations interact by reading and
writing the same files, while an editor or git moves the checkout below them.
Beside it stand a bot that acts on GitHub's deliveries, a pipeline of CI jobs
that hand each other files, and the clients it generates, which run a server.

| Component | State it keeps | Operations | Talks to | What is hard | What makes it correct | Modelled |
|---|---|---|---|---|---|---|
| Build store (`store.rs`, `binstore.rs`, `benchexe.rs`, `rustdoc_inputs.rs`) | executables named by a cheap key and the digest of the inputs, a manifest and group file per key, a link beside cargo's executable, digest sidecars | plan, load, build, store, keep_newest, prune, binary_digest | cargo, the checkout, run cache, item cache | key taken once, inputs hashed later, copies in between; edits; two writers; kills | an entry is what its name says; a hit is what cargo would build; a digest is that binary's | partly, `BuildStore` |
| Run cache (`runcache.rs`, `headrun.rs`, `gate.rs`) | measured runs by commit or binary, shard, filter, host and flags | probe, measure, reusable_reference, head_from_cache_or, measure_ref_interleaved, store, prune | build store, worktree, gate | HEAD asked again after minutes; runs reused for narrower keys; timing passes over stored counters; failed claims | a run is of what names it, covers its key, and gives the verdicts a full run would | partly, `RunCache` |
| Item cache (`itemcache.rs`, `itemreuse.rs`) | metrics per item by the code they executed | plan, measure, splice, record, store, merge, prune | run cache, code keys | unlocked read-modify-write; files of two machines; kills | what is served is what measuring would give | yes, `ItemCache` |
| Code keys (`codekey/`, `jumptable/`, `linkmap.rs`) | link maps | reach an item's functions in machine code, hash them | item cache | indirect calls, jump tables | equal key means equal executed code | as constants of `ItemCache` |
| Merge-base worktree (`invoke.rs`) | `.soothfast/worktrees/<sha>`, the pinned harness, git's registrations | create, reset, verify, discard, sync | gate, prebuild, seed | a kill in any command; a user who moves on; two gates | the tree measured is the merge-base's, and the user's own is let alone | yes, `Worktree` |
| Measuring runner (`soothfast-measure`) | none between runs; two pipes to the bench process | warm, window, measure | valgrind, gate | a side that dies, a dump of the wrong phase | the whole window is measured, nobody waits for ever | partly, `Handshake` |
| Seed (`seed.rs`, `unitgraph.rs`) | units copied from HEAD's target directory | seed_layout, blocked, copy_unit | worktree, cargo | copies cut short, units of two builds of one name | a partial or mixed copy is rebuilt, never trusted | yes, `Seed` |
| Gate comparison (`gate.rs`) | none | compare, accept | run cache or baseline, gate lock | six kinds of softening that depend on each other | red on every real regression that no one reviewed | partly, `Compare` |
| Gate lock (`gate_lock.rs`) | `soothfast-gate.lock`: per item the fingerprints and numbers reviewed | accept, allows, prune_absorbed | gate, baselines | outlives the reference it was reviewed against | an accept holds for the reference it was reviewed over and no other | yes, `GateLock` |
| Baselines (`gate_save.rs`, `unmeasured.rs`, `baseline_merge.rs`, `invoke.rs`) | one document per name: numbers, owners, unmeasured entries, shard stamp and listings; the plan file | save, mark, append, stamp, plan, merge | gate, docs claims | three writes per save; shared items; legs that fail, die or are not uploaded | every listed metric is a number of this commit or is named as missing | partly, `Baseline` |
| Verdict fold (`verdict.rs`), CI plan (`plan.rs`), action and workflows (`action/`, `.github`) | a record per job, artifacts, labels | plan, record, upload, merge, fold, waive | each other, GitHub | jobs lost between steps, records missing, torn, repeated or stale, labels that change | green is earned by every leg, in whatever order records are folded | verdict yes, the others partly, `Verdict` |
| Tests and pass cache (`test/`) | passes by input key | select, key, run, rekey, store, retry | cargo, the run step | inputs change during a test; killed steps; dependencies | a pass is of the inputs it names | partly, `Tests` |
| Bot (`bot/src`) | a config cached for 60 s, memoised answers of one delivery | deliveries, sweep, evaluateOpen, perform | GitHub | late, repeated, lost and overtaken deliveries | a merge is queued only for a commit a writer labelled | partly, `Bot` |
| Docs engine (`docs*.rs`, `soothfast-docs`) | generated tests and example, recorded output, `soothfast.lock` | gen-tests, capture, accept, check | pages, baselines (claims) | edits between and during commands; partial accepts | a block's output is its own; a lock's entries are of its format | partly, `Docs`, `DocsLock` |
| Spec probe (`spec_probe.rs`, `soothfast-spec/src/probe`) | `probes.lock` | gate, accept, accept-passing | a live server | flapping fields, partial runs | a class is what the accepted answers say | yes, `Probe` |
| SDK runtime (`soothfast-sdk/assets`) | one shared server per key, resolved base URLs | start, stop, request, retry | the bundled server | deaths, stops during starts, lost answers | one server, none left behind, no repeated effect, every call returns | TypeScript, `Embedded`, `Sdk` |
| Spec engine (`soothfast-spec`, `spec_gate.rs`) | the documents a branch generates, beside the published ones | generate, diff, spec gate | the merge-base's build, consumers | severities of neighbours that must add up over many merges, two directions, four dialects | a consumer of any document is served while the version stays in its series | the gate, `Schemas`, `Compat`, `SpecGate` |
| Cache merge (`cache.rs`) | none | copy_missing, merge | all stores | two machines' files | a union serves nothing wrong | item files, `ItemCache` |
| Build stamp and prebuild (`buildstamp.rs`, `prebuild/`) | build-environment stamp, staged store entries | lanes, stage | build store | what a job will need is not known | staged entries are the store's | no |
| Reading agreement (`agreement.rs`) | none | settle | run cache | noise | a run is stored only when readings agree | as a choice of `RunCache` |
| Registry and macros, SDK generation, site and dev server, reports and import, languages, init | none, but for the dev server's generation counter | parse, scan, render, serve | — | rebuild loop of `docs serve` | pages served are of the last change | no |

The flow of a gate ties the first half together: a bench executable is loaded
from or built into the build store and named by its digest; the run cache is
asked for a run of HEAD and of the merge-base, else both are measured, the
merge-base in its worktree with HEAD's units seeded into its build directory, item
by item under valgrind unless the item cache answers; the two runs are compared
under the gate lock; the result is saved to a baseline, from which `docs check`
reads claims; and in CI a record of it goes to the verdict job.

## 2. Modules

| Module | What it models |
|---|---|
| `BuildStore` | build store of one checkout and target directory, any number of invocations and an editor |
| `RunMemo`, `RunCache` | what measuring and gating promise, as if nothing were stored; stored runs and the invocations of `measure` and `gate --against-ref` that store and take them, which implement it |
| `ItemMemo`, `ItemCache` | what the item cache promises, and the files and invocations that implement it |
| `Worktree`, `Handshake`, `Reference` | the merge-base's checkout; one item under valgrind; a gate that does the second in the first, and the directories it builds in |
| `Seed` | the two build directories and the copying between them |
| `Compare`, `GateLock` (extends it) | one metric of one item (no state); a branch, its reference and ratchet, the lock file, gates, accepts, saves |
| `Baseline` | baseline documents, gates that save or mark them, legs of a sharded gate, `baseline merge`, claims |
| `Verdict` | a pull request's jobs from plan to conclusion |
| `Tests` | test rounds over packages that are edited, and the passes they store |
| `Bot` | the bot's deliveries and sweeps beside GitHub and people |
| `Docs`, `DocsLock`, `Probe` | pages with captured output; `soothfast.lock`; `probes.lock` |
| `Severities`, `Schemas` (extends it) | what a change means; the recursive comparison of two schemas, and what who goes by one says and understands (no state) |
| `Compat` (extends `Severities`), `SpecGate` (extends it) | what two documents differ in and whom that breaks (no state); main's document, merges that `spec gate` lets through, a consumer |
| `Embedded`, `Sdk` (extends it) | servers of a generated client; its calls |
| `Locks` (extends `GateLock`) | the committed files side by side: the gate lock, `probes.lock`, pages, `soothfast.lock` |
| `Option` | what stands for a value that is not there |
| `BuildStoreProofs`, `RunCacheProofs`, `ItemCacheProofs`, `LocksProofs`, `BaselineProofs`, `ReferenceProofs`, `GreenProofs`, `RequestProofs` | the theorems |
| `MC…` | instances for TLC |

A definition called a slip, just before the one it stands beside, is a plausible
bug: `PROJECT.json` lists under "mutants" which property notices it.

### BuildStore

A tree maps parts (sources, manifests, files a build also reads) to contents.
`InKey` are the parts `cheap_key_skipping` hashes and `InInputs` those dep-info
names. `Plan::new`'s key is `key[p]`, taken once; `LoadHit` looks up that key
with the inputs of the tree as it is then. A build reads parts one at a time
under cargo's lock. `store` and `insert` are six actions, one per file
operation, so that edits, other writers and kills (`Exit`, at any point) come
between. `keep_newest` compares ages, which are group files'
(`born[key]`); `prune` drops any keys but never all payloads, since the model
has no sizes or access times. `binary_digest` is three steps, between which cargo may
replace its executable and other invocations link, remove and prune entries:
`attached` (`DigestFound`, `DigestMissed`), the read of the bytes (`DigestRead`), and
`attach` (`DigestAttach`), which follows the link anew (`LinkedTo` is `entry_of`).
Hashes are injective; equal-sized executables are a constant, `SizeOf`. `served` and
`named` are history variables that only properties read: `named` is the bytes at
the path when the digest was found or the bytes read.

### RunMemo and RunCache

A run is its binary's digest, the items in it, whether it counted, the claims
judged with those failed, and the `head_format` stamp; the numbers themselves
are a function of the binary, so what can go wrong is which run is found and
what it lacks. Keys have a commit or a binary, a shard and a filter; everything
else `conditions` hashes is equal for all invocations of the model. Invocations
step from lookup to lookup: `Probe`, `FindReference`, `Worktree`, `HeadRun`,
`Identical`, `Judge`, `Rounds` for a gate, `Measure` and `MeasureFull` for
`measure`; then `Put` writes one stored file at a time, each with its prune, and
`Tear` is a writer killed inside one. `NamedNow` asks for HEAD's commit and a
clean tree at the time of the write, as `put` does.

`RunMemo` is the abstract specification, without any store: an invocation is asked for a
command and items, and answers with the checkout's side and, for a gate, the merge-base's:
each the binary, the items it lists of those asked for, the claims that break there and
that it was counted, which only identical binaries may go without. The refinement mapping
(`Asking`, `Answers`) shows of an invocation under way what it was asked, and of one that
has come to its stores the runs it ended with, cut down to the items asked for; whatever
is looked up, merged, narrowed or stored meanwhile is a stutter.

### ItemMemo and ItemCache

`ItemMemo` is the abstract specification: a set of true facts (item, code,
claims' fingerprint, outcome) that invocations measure, remember and forget in any
way, and runs that have for every item listed what measuring would give. `ItemCache`
has the files: a list of entries per item, read and written back without a lock
(`Truncate`, then `Write`, so a kill leaves a torn file), an archive that a CI job
saves and the next restores, and the union of two (`ReadItem`). An invocation plans
(what the files answer, what is pending), measures and splices in `Measure`, and
then stores one item at a time. Code is the contents of the functions an item
executes; a hit is recomputed in the other binary by name, as `portable` does.
The refinement mapping takes for known what a file, the archive or a writer's hands
hold; `ImplementsMemo` is the abstract specification as a property.

### Worktree, Handshake, Reference, Seed

`with_merge_base_worktree` step by step: each git or cargo command, and each removal
of a directory, is a step that a kill may cut short, with what remains
(`Remains`): a directory without its `.git` file, a registration git holds locked.
git's rules for `worktree add`, `remove` and `prune` are external. `User` rebases (the
merge-base changes), deletes directories, edits the untracked config. The harness
pins are a loop of `cargo update --precise`, which may move other crates back.

`Handshake` has the command, the bench process, both pipes, the dump files and
the two threads that drain the bench's output. A dump holds the instructions counted
since the last one; any side may die at any step, and a pipe tells it to whoever
waits on the other end, if nobody else holds it. `Reference` puts it where the gate
is at `measure`: a kill reaches the gate and its command, not the bench process.

`Seed` has per directory and unit when it was compiled and against which builds,
whether its files are whole and what of its fingerprint is there. cargo rebuilds by
age; it does not look at what a unit was compiled against, rustc does.

### Compare and GateLock

Percentages in `compare` are floating point; the model multiplies both sides
out over integers, so a limit is exceeded exactly when it is, and the rounding
of whole-number limits is kept (`\div`). `Softened` has the five downgrades with
the conditions in the code: build drift, advisory and reused walltime, flat
counters on unchanged code, disagreeing rounds, walltime carried by accepted
counters. `Accept` is the whole of `accept_parsed`: it records what fails under
the lock file as it was, and near misses under headroom, and keeps an entry's
other numbers. `GateSave` writes the baseline and drops absorbed entries in one
step, as `save_head` does; `GateSaveMarked` is its failing side. `reviewed` is
history: for each number in the lock file, over which reference it was accepted.

### Baseline

A document has the numbers (with who saved them and, as history, at which
commit), owners, unmeasured entries, the shard stamp and each package's listing.
`Save` and `Mark` are the first write of a passing and a failing gate;
`Append` and `Stamp` the second and third, `Crash` a kill in between. `SaveAll` is
`measure --save-baseline` without a package. `Merged` is the result of
`baseline merge --packages` and `Merges` its refusals; `Readable` is what a
claim finds. A package lists items, and two packages may list the same one.

### Verdict

`Plan` reads the labels and stored passes and decides the jobs, what stands in for
one, and what the verdict is told to expect. Each job runs a command, which really
finds something (`found`, history), and records it, unless it faults before; the
upload may be lost or torn; a rerun keeps the records of jobs it does not run
again. `Collect` takes the records there are, `Fold` one file at a time in any order,
`Conclude` adds what was expected and not seen, and waives gates when a writer's
label is on: it reads the label twice, with label changes in between.

### Tests

A round selects packages by the change and their dependents, builds, keys each
executable from memoised digests (`Remember`), runs those without a stored pass in a
run step that may be killed, reads the statuses the shim left, digests inputs afresh
(`Afresh`) and stores the pass when the key is still the same; failures are retried
once. `EditData` is an editor or a test that writes its own inputs, at any time.
`proved` is history: the keys of executables that really passed.

### Bot

A handler steps from await to await: the config, the list of open pull requests, the
reads of one, the request that disables, updates, re-reads, enables, merges. In
between people label, push and merge, deliveries pile up, late, repeated or never
received, and a request may fail (`Break`). `Sweep` is the scheduled run over all
installations, `Listed` the ones it comes to: `MaxEvaluations` of those with
something to do (`CanAct`), the most recently updated (`recent`) first.

### Docs, DocsLock, Probe

A page is a list of capture blocks; what a code prints stands for it. `gen-tests`
writes the example's `main.rs` and its blocks one file at a time; `capture` refuses to
run a stale example, then runs each block by its position and writes the page back.
Pages are edited between any two steps, and commands killed. `had` is history: the
codes a block has had. `DocsLock` is accept over entries of other releases.
`Probe` is a run over `probes.lock`: each answer gated or folded into the run's
copy, which is written at the end if at all; `seen` is history of what the accepted
answers held.

### Schemas, Compat and SpecGate

A schema is a record of what the comparison looks at (`$ref`, type, items, properties,
required names, listed values); a comparison is the set of severities it finds, since
wording and place only reach the log. `gate` is one run on a branch that passes and the
merge of that branch; `Consume` builds a consumer from what is published. What the
consumer and the code say to each other is modelled apart from the comparison, by
values (`Says`, `Reads`), and only the property looks at it. A package's spec files are
gated alike, each by its own version, so one is followed. Schemas nest, so their comparison
(`walk`) and what is said by them are recursive: they are in `Schemas`, and
`Compat` and `SpecGate` take them as constants (`CompareSchemas`, `Accepts`, `Understands`),
for which `MCTests` gives the definitions of `Schemas`. A theorem can then speak of `SpecGate`.

### Embedded and Sdk

Node runs one callback at a time, so what happens between two events, promise
reactions included, is a step. `Embedded` has the starts, the map of shared ones, the
processes the exit handler knows, and stops that escalate after five seconds. `Sdk`
adds clients' memoised base URL and the calls with their retries over a network
that loses requests and answers, or delivers them after the client has given up.

## 3. What the runs check

| Run | Instance | Shows | Distinct states |
|---|---|---|---|
| `build_store` | 2 invocations, 2 parts of 2 contents, 2 edits, 2 group files | entries stay sound, hits are what cargo would build, digests are their binary's | 1,519,764 |
| `locks` | gate lock: 2 items, 3 measures each, saved reference and ratchet, 3 changes, and 1 item, 7 measures, moving merge-base, 5 changes; probe: 2 names of 2 fields; pages: 2 of 2 blocks, 3 edits; formats 1–3 | green gates are reviewed, an accept settles its gate, dropping a metric's bench never helps, a save never turns its own gate red; `probes.lock` holds what accepted answers held; a block's output is its own; the lock is stamped with the format of its entries | 153,143 |
| `baseline_legs` | 2 packages sharing 2 of 3 items, 2 shards, 2 files, kills | any set of uploaded files of whole legs merges and answers for every metric | 264,352 |
| `baseline` | 2 packages sharing an item, one commit after the first, filters, kills | no number of an older commit is left once all reported | 304,354 |
| `baseline_all` | the same, with whole-workspace saves and moving items | no metric is missing without an entry | 231,270 |
| `run_cache` | 2 invocations at once out of 4 kinds, 3 trees of 2 binaries, 2 commits, KEEP 4 | runs are of what names them and cover their keys; failures are measured again; the invocations implement `RunMemo`: both sides of a gate are what measuring gives | 631,599 |
| `item_cache` | 2 invocations, 4 binaries over shared functions, one entry per item, jobs that hand on an archive, kills inside a write | a run is what measuring would give, and the files implement `ItemMemo` | 304,977 |
| `reference` | 1 gate at a time, 2 merge-bases, 2 kills, 2 changes by the user; 6 builds of 3 units, 1 clean | the merge-base is measured, whole, under HEAD's config and linked against its own units; a kill is healed; the user's things are kept; every process ends | 596,679 |
| `bot` | a handler, the sweep, a writer, a reader; 1 open pull request and 2 events, or 2 behind the base, 1 event and a round of 1 | only labelled commits are queued; holds release; a round takes those it can act on | 463,903 |
| `verdict` | 4 workflows of up to 3 jobs, 1 fault, reruns and pushes | a green conclusion is earned; the worst record decides | 2,303,611 |
| `tests` | 3 packages in a chain, 2 edits, 2 passes kept, kills; 77 documents of 4 dialects, 5 versions | passes are of what ran; a green round earned all it selected; consumers are served within a version's series | 2,044,687 |
| `sdk` | 2 clients, 3 starts, 1 stop, an exit, calls with and without retries | one server, none left, no effect twice, every call returns | 332,018 |

`locks`, `reference` and `tests` hold several components that share no state. A behaviour
of one of them moves one part, chosen at the start (`part`), the others staying
as they begin: their product would add states and no behaviour of a component.

The refinements are the two `ImplementsMemo`: `ItemCache`'s behaviours, through the mapping
of its files and of the writers' hands to a set of facts, are those of `ItemMemo`;
`RunCache`'s, through the mapping of its invocations to what they were asked and
answered, those of `RunMemo`.

Types: `TypeCorrect` proves `TypeOK` of the build store, baselines, the run
cache, the item cache and the worktree, and the invariants of the other proof
modules have what types their arguments need. The other modules' `TypeOK` hold
on the instances above and are not repeated by a run.

### Bounds, and why they are enough

Two invocations are enough for every race of the stores: each file has one
writer at a time besides the one observed, and no operation depends on a count
of others. In `build_store` two edits bring a part away and back again
(content the key has seen, with a newer modification time); two group files give
an older and a newer entry; one part in the key and one only among the inputs
separate the two levels of lookup. In `locks` all limits are 50 %, the
measures have a value below, at, near and past each limit and both fingerprints,
and three (five) changes cover regress, accept, land, regress again and revert;
one probe field is pinned and the other flaps, one page is in scope and the other
is not, formats lie on both sides of the one written. In `baseline` two packages
with one shared and one own item have every case of `Prior` and `Theirs`; more
packages only repeat "another's". In `run_cache` one binary lists an item more
than the other and breaks its claim, and a third tree builds the first binary
again, which is how the identical-binaries path is reached; four stored runs make
the prune bite (`KEEP` is 32 in the code). In `item_cache` one binary runs another's
code under a claim that it breaks, two reach a changed function, one cannot be
hashed for an item; one entry per item makes each store evict.

In `reference` one kill leaves every state a command can be cut in and a second
hits the repair of it; two merge-bases come and go; three passes (`Passes`, 16 in
the code), three windows (`K_MAX`, 10) and six instructions (`WINDOW_IR`,
2,000,000), with items costing two or seven, reach the search's growth, its
bound and an item too dear for a window of more than one. Three crates in a
row under a package that links the ends of the row have units that are copied,
rebuilt over a copy, or in conflict. In `bot` two deliveries and a sweep overtake each
other in every order over one open pull request. The only number the code counts with,
pull requests evaluated in a round, is one (six), and for it there are behaviours with two
open ones, both behind the base, with one event more: when both can be acted on the round
cuts one off, when only one can, it has its place however far down the list it is.
In `verdict` the layouts are a package in three shards, two shards
with a docs check run again, two packages with an imported project, and tests of
two languages pushed over and run again; one fault happens anywhere. A chain of three packages
in `tests` has a dependent of a dependent, and two edits bring content back; the
documents of a dialect differ in one place each and follow each other in any order, so
every kind of change meets every other.
In `sdk` three starts have one before, during and after a stop; calls without
retries are three, with them two of two attempts.

Processes, files and trees of one binary are interchangeable, nothing in a property
tells them apart, and symmetry is used for those only. Constants named `Max…`
are guards of their actions and nothing else. `Gating` is `callgrind` in the
runs: the choice that perfcnt adds (a run not stored because readings disagree)
is in the theorems, which hold for both.

### Deadlock and fairness

Every run but `baseline_legs` and `sdk` checks deadlock: an invocation can always
end and another always start, or the checkout change. The legs of one gate do
finish, and a program that called its clients does exit; then nothing is left to do.

Four properties are about what must happen, under fairness of what somebody runs:

- `NobodyWaits` (`reference`): a gate at an item, its command and its bench process
  end. `ReferenceFairness` lets each of them take its own next step and lets the
  threads that drain output run. No one has to start a gate, and no kill has to come.
- `HeldIsReleased` and `LeftIsUpdated` (`bot`): a queued merge under a hold is
  dequeued, a branch to keep current is updated, unless others crowd them out of the
  round for good. Each says that again and again no pull request is left; the
  events are bounded, so that is each of them in turn. Fair are the sweep, which GitHub
  schedules, and the steps of a handler once it has begun; deliveries may never
  arrive, and nobody has to label or push.
- `AllSettle` (`sdk`): every call and every stop ends. Node's timers and queued
  events come and a killed process ends; nothing is assumed of the server, which
  may be silent for ever.

The other properties are safety, of specifications without fairness: their
commands run to their end or are killed, and wait for nothing but cargo's build
lock, which the operating system hands on when its holder dies.

## 4. Known limits

What the modules show of the code outside the conditions the runs are under, each
to be seen again with the constants given, in a copy of the configuration or under the module's own `Spec`.

Build store, `MCBuildStore.cfg`:

- `NewestSurvives` fails with `EditsInWindow = FALSE`: `keep_newest` orders entries by
  the group file of their key, and entries of one key tie (`binstore.rs:144–147`).
- `EntrySound` fails with `EditsInWindow = TRUE`: an edit between `insert`'s check of
  modification times and its hashing of the inputs (`store.rs:313`) names the entry
  for content the executable was not built of.
- With `InInputs` not a superset of `InKey`, a part only the key hashes may change
  between plan and store without its modification time being looked at
  (`binstore.rs:90` compares the key: away and back).
- `DigestNamesTheBinary` fails with a constant `SizeOf`: `entry_of` compares sizes
  only (`binstore.rs:232`).
- `DigestNamesTheBinary` fails with `RebuildsInDigest = TRUE`, however sizes differ:
  `attach` resolves the link again (`binstore.rs:248`) after the bytes were read
  (`headrun.rs:284`). If another invocation has built the next executable and linked it
  to its entry in between (`binstore.rs:116`), the size is that of the new entry and the
  digest of the old binary is kept beside it; every later hit on that entry is then
  named by it. With `FALSE`, in the run and in the theorem, `CargoDone` waits while
  an invocation is between the read and the attach of cargo's own executable; before
  the read it does not, and links, entries and sidecars change at any time.
- The read of the bytes is one step: `loaded_section_bytes` asks objdump for the
  sections and opens the file afterwards (`headrun.rs:563`), so an executable
  replaced between the two is read under the other's section table.

Gate lock, `GateLock`'s own `Spec` with one item, `MCMeasures`, `MCRuns`,
`AgainstRef = TRUE` and five commits:

- `GreenIsReviewed` fails with `ReacceptStale = TRUE`: an accept on an item with a
  stale entry overwrites `base_fingerprint` and keeps the entry's other numbers
  (`gate.rs:908`), though `docs/gating.md:674` says the review was of a specific old
  state.
- `SaveKeepsGreen` fails with `SaveNames = {"ratchet"}`: any save drops the entries
  its numbers absorb (`invoke.rs:1199`), and a gate against the merge-base still
  needs them.
- `AcceptSettles` fails with headroom in `Runs`: a near miss is recorded as a lower
  number over a counter whose accepted number carried walltime (`gate.rs:921`).

Baselines:

- `Fresh` fails where an item moves from one package to another (`Listings <- Moving`,
  `Filters <- Unfiltered`, `Reuses <- AnyWhole`, no `MeasureAll` and no crash): a full
  save spares what another package owns without asking who saved it (`invoke.rs:1184`).
- `Fresh` fails with `MeasureAll = TRUE`: numbers saved without `-p` have no owner,
  so a later mark does not find them (`gate_save.rs:191`).

Run cache: `RunsNamed` fails with `Moves = TRUE`. The digest, HEAD and the clean tree
are each asked at a different time (`headrun.rs:528`), so a commit made while a gate
measures is stored the numbers of its predecessor.

Item cache: one scope. The binary is not replaced between the plan and the record,
what a key takes from outside the binary (foreign objects, thread locals) is treated
as one more function, and an item is read in one step.

Worktree:

- `MeasuresBase` fails with two processes (`Worktree`'s own `Spec`): there is no lock,
  and one gate removes or resets the checkout the other builds (`invoke.rs:1686`).
- `MeasuresBase` fails with `Ignored = TRUE`: where `.gitignore` covers
  `.cargo/config.toml`, the reset's `git clean` leaves an old copy of it.
- `worktree add` is refused once after the directory of a registered worktree is
  removed and the removal of its registration was cut; one gate fails, the next heals,
  which is why `HealsItself` allows one.
- git and cargo are taken to undo their own lock files when interrupted.

Handshake: with `Leaves = TRUE` a process started by a bench's setup inherits the ends
of the pipes, which `from_env` closes on exec only after the warm-up
(`soothfast-measure/src/runner.rs:318`), so a dead bench is not seen and the command
waits as long as that process lives. A bench left by a killed gate is taken to be
gone before the next gate. The two-process method is out.

Seed: HEAD's directory rebuilt by somebody else during the copy is not modelled; a
unit's name stands for its fingerprint's hash; both directory layouts are one; a
directory is listed in one step; crate hashes depend on direct dependencies only;
build scripts' units are out.

Bot:

- A pull request with a hold can be queued when its label arrives between the reads
  and the request: `HeldIsNotQueued` fails, for `unchanged` looks at the commit and
  the label asked for, not at labels to ignore (`docs/ci.md:309`). `HeldIsReleased`
  is what is left.
- A round evaluates the most recently updated of the pull requests it can act on, up
  to a cap (`labels.ts:132`, `docs/ci.md:381`). One that is up to date and labelled for
  updates still counts, so as many as the cap, updated later, keep the others from
  ever being looked at by a sweep: `LeftIsUpdated` and `HeldIsReleased` except what is
  `Crowded` out so. Without that exception `LeftIsUpdated` fails in the run's instance;
  `HeldIsReleased` does with one event more, since two make a hold.
- Drafts, update conflicts and permissions that change are out; `fetch` and
  `remember` are one step, as are the reads of writers, checks and comparison.

Verdict: labels change between the steps that read them only; a lost download is a
lost upload; counts, seconds and the comment are out, as are names that collide
across kinds, workflow runs that overlap, and the waiver a leg's own `gate.sh` reads.

Tests:

- `PassesAreEarned` fails with `EditsWhileRunning = TRUE`, where sources too change
  under a round: an executable's digest is memoised (`test/key.rs:38–40`,
  `docs/testing.md:152`).
- Inputs that change and change back during a run are not seen. `test --project`
  records under the key taken before the run (`test/project.rs:153–157`); it is out, as
  are allow-lists, doc tests, arguments, environment and compiler, which are constant.

SDK runtime:

- The end of a stopped start removes whatever is shared under its key
  (`soothfast-sdk/assets/typescript/server.ts:267`), the next start's server included, so a
  third start makes a second server. `OneShared` excepts this order of events and no
  other; without the exception it fails (`docs/sdk.md` says one shared server per
  binary and launch environment).
- A server that dies after its start stays shared, and a client keeps its base URL
  after a stop. Python's runtime, the pager, an overridden base URL and draining
  output are out; servers outlive Node if Node itself is killed.

Docs engine: a page edited during a capture is overwritten; two commands at once can run
another block's code; the lock is keyed by target, not page; a full accept overwrites
a lock of a newer format that it cannot read (`soothfast-docs/src/lockfile.rs:86–89`
prevents it with paths given). A block's line number, which its generated file also
holds, is not modelled, so the model has more behaviours there than the code.

Spec probe: two accepts at once lose one's update; a bad ready line leaves the server
running (`spec_probe.rs:598–601`); an accepted empty answer clears what was
uncovered. "Always" means since first seen.

Spec gate. Changes the comparison does not see, or judges otherwise than a consumer
would, are kept out of the documents of the run (`MCSpecs`); with them
`ConsumersServed` fails:

- a free string, or number, whose values are now listed is additive in a request
  (`soothfast-spec/src/compat.rs:212–240`);
- a response, or a received message, that gains or loses its whole schema (OpenAPI: not
  compared; AsyncAPI: additive), a parameter that gains or loses its type, and a body that
  becomes required;
- `oneOf`, `allOf`, `additionalProperties`, `prefixItems`, formats; a `$ref` to a `$ref`, of
  which only the first is followed; an inline schema against a `$ref`, compared once
  however often the pair occurs with other inline schemas;
- GraphQL lists whose two nullabilities change in opposite directions
  (`soothfast-spec/src/graphql/diff.rs:136`).

An optional parameter that is withdrawn and comes back with another type passes the gate
twice, and its senders break: `reused` excepts that order of events and no other. Versions
of main are taken not to go back, and a branch to be merged on the base it was compared
with: two branches may claim the same bump. A document of a dialect that states a version
states a semantic one in every revision. A spec file that is no longer generated is
not compared at all (`spec_gate.rs:78`, `spec_gate.rs:96`).

## 5. What is proved

The theorems hold for every value of the constants that the named assumptions
of the modules allow: any number of invocations, parts, items, packages, shards,
commits and runs. No bound of section 3 is used.

**BuildStoreProofs.** `TypeCorrect`. `EntriesSound`, `HitsAreTheTree` and
`DigestsNameTheBinary` state the three invariants under assumptions that name the
code's limits: no edit inside insert's window, dep-info covers what the key
hashes (and, for hits, everything a build reads), and, for digests, executables of one
checkout differ in size and cargo's is not replaced between the read of its bytes and the
attach. The invariant is `Basic` (types, which variables a stage has set,
one holder of cargo's lock), `Fresh` (a part read by a build and not `touched`
still has the content that was read; from insert's checks to the copy nothing
has changed) and `EntrySound`; `Fresh` is needed because `EntrySound` alone says
nothing of the executable about to be copied. Digests add `SidecarSound`, a sidecar
beside an entry is of the content the entry is named for, and `InHandSound`, what has been
worked out and not yet attached is of cargo's executable as it is, or of the
content of the entry it was read from: the second look at the link may find another
entry than the first, but one of the same size, so of those bytes.

**LocksProofs.** `GreenGatesAreReviewed`: while stale entries are not accepted
over, every number in the lock file was accepted over the entry's own base
(`ReviewedOver`), so a gate that allows a metric has a review of this reference.
`AcceptsSettle`: without headroom an accept leaves nothing failing on its items.
The argument is about `Carried`, where a new accepted number replaces an old
one: what fails grew past the number it had, so the ceiling that walltime is
carried by only rises (`CarriesMore`). `SavesStayGreen`: a gate that saves the
reference (`SaveNames` at most `"reference"`) and was green would be green
again, for the entries dropped are those the saved numbers absorb.
`DroppingIsNeverGreen`: of any state, with no invariant at all, a metric that is
no longer measured does not turn a red gate green.
`ClassesAreEarned`: `ProbeInv` says that each entry of `probes.lock` agrees with what
the accepted answers held, field by field, and that a run under way has made of
its copy what the file would say after the answers it has (`Ongoing`); a fold of
classes and a fold of histories then move alike (`AcceptAgrees`). `OutputIsOwn`:
`SiteInv` says a block's output is one its codes have printed, for pages, for a
capture's copies of them, and that the example's files a capture runs are of the
blocks it read (`Traced`), with edits and kills anywhere. `StampsAreTrue` is
inductive as it stands.

**BaselineProofs.** `TypeCorrect`, and `WholeLegsMerge`: files of whole legs of one
gate always merge. `LegInv` says a stamped document holds numbers of its own shard
only, an unstamped one with numbers has a writer under way or was cut, and that
writer is of the shard whose numbers are there. `ListedIsAccounted`, with
no hypothesis, and `MergedIsAccounted`, for whole legs: what a package listed has a
number or an entry that names it as missing, in each file and in the merge of any
that were uploaded. `AccountInv` counts what a writer in hand is about to append, so
the document of a save cut in two is judged with what its writer still holds.
`NothingHaunts` says that after a full save or mark of every package no number of
an older commit is left, given that every number has an owner (`MeasureAll` off) and
that an item two packages share stays in every listing of either (`KeepsShared`;
section 4 shows `Fresh` false where an item moves). `FreshInv` dates every number by
what its package has done since.

**RunCacheProofs.** Whether the checkout moves under the invocations or not:
`TypeCorrect`; `WholeAlways`, a stored run has the counters of every item of its key; and
`FailuresAlways`, no failure is served. Their invariant is `KeptInv`: each run held, found
or waiting to be stored has the counters of its scope and items and claims of one binary
only (`Sound`, `Final`, `HeldInv`); whose binary it is does not come into it.
When nothing moves (`Moves = FALSE`): `NamedAlways`, and, which no run repeats,
`SidesAlways` (a gate compares the checkout with its merge-base) and `VerdictsAlways` (what
a reused run is judged by is what its binary's counters give).
`CacheInv` is their strengthening: `StoredInv` says a stored run is of what names it, has
counters for its whole key, judged every claim of it by the counters and, if stamped, had
none fail; `JobInv` says at each step of an invocation what it holds in hand: the
digest is the checkout's, the merge-base the one asked first, the reference a
counted run of it, and everything waiting to be stored is worth storing under
the name it waits with. Stored runs alone are not inductive: what is about to be
stored has to be known good before it is. Lemmas on the operators (`Reference`,
`Covering`, `MergeStored`, `HeadPuts`, `BasePuts`, …) say which run each finds or
builds, and the steps cite those. `RunsImplementMemo`, under the same hypothesis: the
invocations implement `RunMemo`. Of what is in hand when an invocation
comes to its answer, `CacheInv` says whose it is and how its claims were judged, and
`KeptInv` that it has neither less nor more than its binary's; together the answer is what
measuring gives (`ToldInv`), and every other step of an invocation shows nothing (`Inner`).

**ItemCacheProofs.** `TypeCorrect`; `RunsMeasured`, that a run has for each item what
measuring its binary would give, whether files answered or not; `FailuresMeasured`,
that a claim which fails was measured in this run; `OneEntry`, that a file never holds
two entries of one code, nor more than `PerItem`; and `FilesImplementMemo`, that the
files with their unlocked writers, kills and archives implement `ItemMemo` under the
mapping of section 2. The invariant is `MemoInv`: every file, on disk, in an archive or
in a writer's hands, lists true facts under distinct codes (`GoodFile`, `FilesGood`), and what an
invocation plans, holds and is about to store is true (`GoodTask`, `GoodJob`). Two
writers of a file may lose each other's entries; that every entry in hand is true
is what makes the loss a forgetting, which the memo allows. The refinement is proved
for the initial states and for each action as a step or a stutter.

**ReferenceProofs.** The three parts of the run `reference`, each with an invariant of its
own. `GatesAreGates`: a step of a gate with its item is one of `Worktree`.
For one gate at a time (`OneGate`: the second gate of a checkout is a known limit), any
number of kills, rebases and deletions by the user: `TypeCorrect`; `BaseIsMeasured`,
what is built is the merge-base's own checkout under HEAD's config, as long
as the config is not ignored by git (`~Ignored`); `FailsOnce`, a gate that fails
clears what it failed on; `UserKeepsAll`. `IInv` says at each step of a gate what git
and the directory have come to, and that an interrupted command
leaves only what the next one repairs. `CopiesLink`: no unit of either build
directory is linked to another build of a dependency than it was compiled against.
`DirsInv` adds to that (`Linked`) that units compiled at one time are one build
(`SameBuild`), that what is still to be copied is not there yet and nobody's
readable fingerprint needs it (`CopyInv`), and that what cargo has looked at stays so
(`DoneInv`). `ItemsAreMeasuredWhole`: an item's numbers are of the whole window
it was given, for any costs, whichever side dies when; `ItemInv` relates
each phase of the bench to the dumps there are (`DumpsInv`) and to what the two sides
have told each other (`TalkInv`). A window is of one iteration at least
(`WindowPositive`); that the search has a largest one to choose is by
well-foundedness of the naturals (`Largest`).

**GreenProofs.** Tests: with sources that do not change under a round
(`~EditsWhileRunning`: section 4), `StoredIsEarned`, every stored pass is of the inputs it
names, and `RoundIsEarned`, a round that does not fail ran, or may skip, all it
selected. Inputs may change at any time, and steps be killed. Stored passes alone are
not inductive: `KeyInv` says of each executable which versions the memoised digests
that made its key can be of, and that the versions it started with lie between those and
now, so that a key that is still the same afterwards means nothing changed.
`UnselectedIsAtBase` (where links between packages are those declared,
`LinksDeclared`): what a round leaves out is as it was at the base.
Verdict: where no package is called as the docs check, as the Rust tests or as a
project's tests (`OwnNames`; their sections are kept by name), `GreenCheckIsEarned`,
a green conclusion has for every leg a command that found it good, a writer's waiver
of a gate that regressed, or, of a project's tests, inputs unchanged since the base or
since a pass, whatever was lost, torn, rerun or relabelled, and `OrderNeverMatters`,
the sections are the worst of the records folded, in any order of folding.
`PipelineInv` says what each record says of its leg was found (`EarnedAs`), that a
leg is `seen` only in a section no better than its record, and what the label was
when it was read; `OrderInv` that a section sums the records folded so far (`Sums`).
Spec gate: `ConsumersServedAlways`, the code of main serves the consumers of any document
published in the version's series, for any documents of the four dialects and however
many merges. To serve is not inductive: code may still serve a consumer and have
forgotten what the next comparison would need, such as a name that is free again. `KeptInv`
says instead that versions have not gone back (`NotOlder`), and that the two documents
are in a relation which every comparison that finds no break carries on (`Leads`); the
series is convex, so that a bump which acknowledges a break has left it for good
(`WithinSeries`). That there is such a relation is shown for each dialect from its
comparison (`OpenApiLasting`, `AsyncApiLasting`, `McpLasting`, `GraphQlLasting`). What is
supposed of documents is `Comparable`: in GraphQL, that no list changes its two
nullabilities in opposite directions; in OpenAPI, that no response gains or loses its
whole schema and no parameter its type (section 4); and, of the three dialects with
schemas, that what the recursive walk lets through at one place of the
document, revision after revision, stays accepted or understood there (`SchemasLast`).
GraphQL compares no schemas, so `GraphQlConsumersServed` does without the last.

**RequestProofs.** Requests over a network that delays, repeats and loses them. SDK:
`ServersEnd`, `OneServer` (but for the order of events of section 4) and
`CallsTakeEffectOnce`. `EmbeddedInv` says the exit handler knows each child not seen to
end and which starts the map of shared ones has; `OnceInv` that a call that must not be
repeated has one request on the wire at most, and none once it took effect.
Bot: `QueuesAreVouched` and `RemovalsHold` are about steps. `EarnedInv` says
that a job about to enable has a known delivery, of a writer's merge label, of the
commit it holds, and that GitHub requires checks; `MissedInv` that a delivery which
was begun with its label off comes to no enabling as long as nobody labels again
(`TooLate`): the live re-read sees the label missing, however long it waits for it.

The hypotheses are those named above and the modules' named assumptions, which TLC
evaluates in every run.

Only model-checked, among the runs' properties:

- `NobodyWaits`, `HeldIsReleased`, `LeftIsUpdated`, `AllSettle`: liveness under fairness.
- What the walk of two schemas (`Schemas!walk`) lets through: it is recursive, and out of
  the prover's reach. `ConsumersServed` checks it on the documents of the run; the
  theorem has it as a hypothesis at each place where schemas are compared.
- `SavesKeepGreen` is `SaveKeepsGreen` of the run's second instance of `GateLock`, the one
  with saves; `SavesStayGreen` proves `SaveKeepsGreen` for every value of the constants,
  this instance's included, and is listed without it.

## 6. What is not modelled

- Of the modelled parts: sizes, times and texts; the stores that share `store.rs`
  with the bench executables (rustdoc, spec); `--measure-new` and harness mismatches
  of the merge-base; runs stored before `head_format`; imported and build-cost items;
  assertions in baselines; triage and notes; `cache.rs`'s `copy_missing`.
- The build store's keys and the run cache's digests are not composed into one
  module: `RunCache` takes `DigestNamesTheBinary` as given (`Probe` names the binary its
  tree builds), so it is silent on what a digest kept in the window of section 4 would do.
- `codekey/` and `jumptable/` decide what machine code an item reaches; a model of
  them would be a model of x86. `soothfast-spec` without its probe and its comparison, the generators of
  `soothfast-sdk`, `-lang`, `-report`, `-site`, `init`, import and configuration turn text
  into text and keep nothing: they are a third of the code, and what could go wrong
  in them is a wrong text, which a test of inputs and outputs reaches.
- `prebuild/` fills the modelled stores with entries of the modelled kinds, from a plan
  of what jobs will ask for. `docs serve` (`serve.rs:75`) counts generations and rebuilds
  after changes; the order of its rebuilds is not modelled. Doc tests and `docs check`
  run blocks whose results they do not keep.

## 7. Plan

1. `Serve`, `Prebuild`, and the Python runtime beside the TypeScript one.
2. Abstract specifications of `Baseline` (each metric is of now, older or missing) and of
   `Tests` (every selected executable is run), and proofs that these implement them.
3. `BuildStore` and `RunCache` composed through digests, and `BuildStore` shown to implement
   a map from trees to executables.
