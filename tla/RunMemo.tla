------------------------------ MODULE RunMemo ------------------------------
(***************************************************************************)
(* What `measure' and `gate --against-ref' promise, as if no run were ever   *)
(* stored: whatever is reused, an answer is what measuring the checkout, and *)
(* for a gate its merge-base, gives at the time (runcache.rs, key_with: "the *)
(* key pins every condition that moves the numbers").  Only time may come    *)
(* out either way, and counters may be missing where two sides are one       *)
(* binary and nothing can differ.                                            *)
(***************************************************************************)
EXTENDS Integers, Sequences

CONSTANTS
  Procs, Trees, Items,
  Bin,       \* the binary a tree builds
  Listing,   \* the ids a binary registers
  Breaks,    \* those whose complexity claim fails on counters
  None

VARIABLES
  commits, at, ref, tree,   \* the repository
  asked,     \* per invocation: what it was asked, or None
  answer     \* ... and what it has answered, or None

vars == <<commits, at, ref, tree, asked, answer>>

Requests == [cmd : {"measure", "gate"}, items : SUBSET Items]

Init ==
  /\ commits \in {<<t>> : t \in Trees} /\ at = 1 /\ ref = 1 /\ tree = commits[1]
  /\ asked = [p \in Procs |-> None] /\ answer = [p \in Procs |-> None]

(* History grows, and the rest of the repository changes as it likes, while   *)
(* no invocation is under way.                                               *)
Move ==
  /\ \A p \in Procs : asked[p] = None
  /\ commits' \in {commits, Append(commits, tree)}
  /\ at' \in 1..Len(commits') /\ ref' \in 1..Len(commits') /\ tree' \in Trees
  /\ UNCHANGED <<asked, answer>>

Ask(p) ==
  /\ asked[p] = None
  /\ \E request \in Requests : asked' = [asked EXCEPT ![p] = request]
  /\ UNCHANGED <<commits, at, ref, tree, answer>>

HeadBinary == Bin[tree]
BaseBinary == Bin[commits[IF ref < at THEN ref ELSE at]]

(* A side's binary, the items asked of it, and the claims that break there.   *)
Side(b, items, counted) ==
  [bin |-> b, items |-> items \cap Listing[b], fails |-> items \cap Breaks[b], counted |-> counted]

Replies(request) ==
  {[head |-> Side(HeadBinary, request.items, counted),
    base |-> IF request.cmd = "gate" THEN Side(BaseBinary, request.items, counted) ELSE None,
    late |-> late] :
     late \in BOOLEAN,
     counted \in IF request.cmd = "gate" /\ HeadBinary = BaseBinary THEN BOOLEAN ELSE {TRUE}}

Answer(p) ==
  /\ asked[p] # None /\ answer[p] = None
  /\ answer'[p] \in Replies(asked[p])
  /\ answer' = [answer EXCEPT ![p] = answer'[p]]
  /\ UNCHANGED <<commits, at, ref, tree, asked>>

Leave(p) ==
  /\ asked[p] # None
  /\ asked' = [asked EXCEPT ![p] = None] /\ answer' = [answer EXCEPT ![p] = None]
  /\ UNCHANGED <<commits, at, ref, tree>>

Next ==
  \/ Move
  \/ \E p \in Procs : Ask(p) \/ Answer(p) \/ Leave(p)

Spec == Init /\ [][Next]_vars
=============================================================================
