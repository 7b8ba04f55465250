-------------------------------- MODULE Probe --------------------------------
(* Which fields a live server populates, held against the committed           *)
(* probes.lock (spec_probe.rs: probe_in; soothfast-spec/src/probe/baseline.rs).*)
(*                                                                            *)
(* A run reads the lock, asks the server probe by probe and, when it accepts, *)
(* writes the lock at its end.  External: the server's answers, and what the  *)
(* specification and the assertions make of one.                              *)
EXTENDS Naturals

CONSTANTS Names,    \* of probes
          Fields,   \* of responses
          Pinned,   \* those the manifest calls intermittent
          Schemas,  \* declared fields of a response, or None
          Never, None

ProbeAssumption ==
    /\ Schemas \subseteq (SUBSET Fields) \cup {None}
    /\ None \notin {"always", "sometimes"} /\ Never \notin {"steady", "flapped"}
    /\ None \notin [fields : [Fields -> {None, "always", "sometimes"}], uncovered : SUBSET Fields]

Modes == {"gate", "accept", "accept-passing"}

VARIABLES
    manifest, \* the probes of probes.toml
    lock,     \* probes.lock: per probe, classes and uncovered fields
    probing,  \* a run: its flags, its copy of the lock, what it has to ask
    seen      \* history: what the accepted answers of a locked probe held

probe == <<manifest, lock, probing, seen>>

NoClass == [fields |-> [f \in Fields |-> None], uncovered |-> {}]
Unseen  == [f \in Fields |-> Never]

ProbeInit ==
    /\ manifest = Names /\ lock = [p \in Names |-> None] /\ seen = [p \in Names |-> Unseen]
    /\ probing = None

-----------------------------------------------------------------------------
(* One answer.  A field is there with data, there and empty, or not there.    *)

Answers == [Fields -> {"data", "empty", "absent"}]
Populated(observed) == {f \in Fields : observed[f] = "data"}
Nothing == [f \in Fields |-> "absent"]

\* What falls short of the classes a probe has.
Findings(entry, observed, declared) ==
    LET locked == IF entry = None THEN NoClass ELSE entry IN
    [regressed |-> {f \in Fields \ Pinned :
                      locked.fields[f] = "always" /\ observed[f] # "data"},
     new       |-> {f \in Fields : observed[f] = "data" /\ locked.fields[f] = None},
     uncovered |-> IF declared = None THEN {}
                   ELSE {f \in declared \ (Pinned \cup locked.uncovered) :
                           observed[f] # "data" /\ locked.fields[f] = None}]

Clean(entry, observed, declared) ==
    \A kind \in {"regressed", "new", "uncovered"} : Findings(entry, observed, declared)[kind] = {}

\* Slip: a field the answer does not mention keeps its class.
AcceptedMentioned(entry, observed, declared) ==
    LET old == (IF entry = None THEN NoClass ELSE entry).fields
        now == [f \in Fields |->
                  IF old[f] = None /\ observed[f] = "data" THEN "always"
                  ELSE IF old[f] = "always" /\ observed[f] = "empty" THEN "sometimes" ELSE old[f]] IN
    [fields |-> now,
     uncovered |-> IF declared = None THEN {} ELSE {f \in declared : now[f] = None}]

\* A field first seen with data is always there; one that was and is not now,
\* mentioned or not, is there sometimes, for good.
Accepted(entry, observed, declared) ==
    LET old == (IF entry = None THEN NoClass ELSE entry).fields
        now == [f \in Fields |->
                  IF old[f] = None /\ observed[f] = "data" THEN "always"
                  ELSE IF old[f] = "always" /\ observed[f] # "data" THEN "sometimes" ELSE old[f]] IN
    [fields |-> now,
     uncovered |-> IF declared = None THEN {} ELSE {f \in declared : now[f] = None}]

-----------------------------------------------------------------------------
(* A run.                                                                     *)

Begin(mode, allowGone, filter) ==
    /\ probing = None /\ filter \cap manifest # {}
    /\ LET gone == {p \in Names \ manifest : lock[p] # None}
           drop == allowGone \/ mode = "accept" IN
         probing' = [mode |-> mode, todo |-> filter \cap manifest, answers |-> <<>>,
                     failed |-> gone # {} /\ ~drop,
                     lock |-> [p \in Names |-> IF drop /\ p \in gone THEN None ELSE lock[p]]]
    /\ UNCHANGED <<manifest, lock, seen>>

Asked(p) == probing # None /\ p \in probing.todo

Step(p, failed) == [probing EXCEPT !.todo = @ \ {p}, !.failed = @ \/ failed]

\* Unreachable, another status, or a body that is not JSON; or skip_status.
NoAnswer(p) ==
    /\ Asked(p) /\ \E failed \in BOOLEAN : probing' = Step(p, failed)
    /\ UNCHANGED <<manifest, lock, seen>>

\* A well-formed answer, and whether its shape and assertions hold.  One
\* without a body shows no fields, and has no schema.
Answer(p, observed, declared, holds) ==
    /\ Asked(p)
    /\ LET accepts == probing.mode # "gate"
           taken   == holds /\ (accepts \/ Clean(probing.lock[p], observed, declared)) IN
         probing' = [Step(p, ~taken) EXCEPT
                       !.answers = IF taken THEN [q \in DOMAIN @ \cup {p} |->
                                                    IF q = p THEN Populated(observed) ELSE @[q]]
                                  ELSE @,
                       !.lock[p] = IF taken /\ accepts THEN Accepted(@, observed, declared) ELSE @]
    /\ UNCHANGED <<manifest, lock, seen>>

\* A whole-run accept with a failure is not written.
Writes(run) == run.mode = "accept-passing" \/ (run.mode = "accept" /\ ~run.failed)

Seen(old, populated) ==
    [f \in Fields |-> IF f \in populated THEN IF old[f] = Never THEN "steady" ELSE old[f]
                      ELSE IF old[f] = "steady" THEN "flapped" ELSE old[f]]

End ==
    /\ probing # None /\ probing.todo = {}
    /\ IF Writes(probing)
       THEN /\ lock' = probing.lock
            /\ seen' = [p \in Names |->
                 IF probing.lock[p] = None THEN Unseen
                 ELSE IF p \in DOMAIN probing.answers THEN Seen(seen[p], probing.answers[p])
                 ELSE seen[p]]
       ELSE UNCHANGED <<lock, seen>>
    /\ probing' = None
    /\ UNCHANGED manifest

Killed == probing # None /\ probing' = None /\ UNCHANGED <<manifest, lock, seen>>

\* probes.toml is edited; a run has read it.
EditManifest(to) ==
    /\ probing = None /\ manifest' = to /\ to # manifest
    /\ UNCHANGED <<lock, probing, seen>>

ProbeNext ==
    \/ \E mode \in Modes, allowGone \in BOOLEAN, filter \in SUBSET Names : Begin(mode, allowGone, filter)
    \/ \E p \in Names : NoAnswer(p)
    \/ \E p \in Names, observed \in Answers, declared \in Schemas, holds \in BOOLEAN :
         Answer(p, observed, declared, holds)
    \/ \E p \in Names : Answer(p, Nothing, None, TRUE)
    \/ End \/ Killed
    \/ \E to \in SUBSET Names : EditManifest(to)

-----------------------------------------------------------------------------
(* The class of a locked field is what the answers accepted since it was      *)
(* first seen say of it, over runs that were cut short, failed, were filtered *)
(* or accepted in part: populated in each of them, or not in all; a field     *)
(* that is owed was in none; and a gate takes no answer that lacks a field    *)
(* they all had (baseline.rs: "`always`: populated in every accepted run ...  *)
(* `sometimes`: observed both ways").                                         *)
LockEarned ==
    \A p \in Names : lock[p] # None =>
      /\ \A f \in Fields : /\ lock[p].fields[f] = "always" <=> seen[p][f] = "steady"
                           /\ lock[p].fields[f] = "sometimes" <=> seen[p][f] = "flapped"
      /\ \A f \in lock[p].uncovered : seen[p][f] = Never
      /\ probing # None /\ p \in DOMAIN probing.answers
           => \A f \in Fields \ Pinned :
                seen[p][f] = "steady" /\ probing.mode = "gate" => f \in probing.answers[p]
=============================================================================
