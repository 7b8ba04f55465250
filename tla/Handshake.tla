------------------------------ MODULE Handshake ------------------------------
(* One item under callgrind by the window method: the command that measures    *)
(* it and the bench process it runs under valgrind, over two pipes, with the   *)
(* bench's output on two more.  Sources: soothfast-measure/src/callgrind.rs    *)
(* (run_window, measure_window), ctl.rs and runner.rs (--callgrind-window).    *)
(*                                                                             *)
(* External: valgrind writes a dump when the process asks for one and when it  *)
(* exits, unless it is killed, and then counts from zero; a read returns when  *)
(* there is a byte or nobody holds the other end, a write when there is room,  *)
(* and ends the writer when nobody reads.                                      *)
EXTENDS Integers, Sequences

CONSTANTS Costs,        \* instructions an iteration of an item takes
          K_MAX, WINDOW_IR,
          Room,         \* what a pipe of output holds
          Leaves,       \* a bench may leave a process behind that holds its ends
          None

HandshakeAssumption ==
    /\ Costs \subseteq Nat \ {0} /\ K_MAX \in Nat \ {0} /\ WINDOW_IR \in Nat
    /\ Room \in Nat \ {0} /\ Leaves \in BOOLEAN
    /\ None \notin Nat

VARIABLES
    cli,      \* where the command is
    chosen,   \* the window it chose
    result,   \* the instructions it returns for an iteration, and the window
    bench,    \* where the bench process is
    cost,     \* instructions of an iteration of this item
    dumps,    \* the dump files: instructions counted, in order
    report,   \* the byte that says the warm-up is dumped is in the pipe
    answer,   \* the window in the other pipe
    text,     \* output not yet read
    fine,     \* the process ended with status zero
    left      \* a process of its own outlives it

hs == <<cli, chosen, result, bench, cost, dumps, report, answer, text, fine, left>>

\* Alive, as a process.
Alive == bench \notin {"none", "gone"}

\* Everybody who could write the report, and who could write the answer.
Reporters == Alive \/ left
\* Slip: the bench process inherits the command's ends.
AnswersByAll == Alive \/ cli # "off"
Answers      == cli # "off"
Readers   == cli # "off"

HandshakeInit ==
    /\ cli = "off" /\ chosen = None /\ result = None
    /\ bench = "none" /\ cost = None /\ dumps = <<>>
    /\ report = FALSE /\ answer = None /\ text = 0 /\ fine = FALSE /\ left = FALSE

Cleared ==
    /\ cli' = "off" /\ chosen' = None /\ result' = None
    /\ bench' = "none" /\ cost' = None /\ dumps' = <<>>
    /\ report' = FALSE /\ answer' = None /\ text' = 0 /\ fine' = FALSE /\ left' = FALSE

-----------------------------------------------------------------------------
(* The bench process.                                                        *)

\* The largest power of two that fits the window, at most K_MAX.
AtLeastOne(n) == IF n < 1 THEN 1 ELSE n

WindowFor(ir) ==
    LET fit == AtLeastOne(WINDOW_IR \div AtLeastOne(ir))
        powers == {k \in 1 .. fit : \E n \in 0 .. fit : k = 2 ^ n}
        power == CHOOSE k \in powers : \A j \in powers : j <= k
    IN IF power < K_MAX THEN power ELSE K_MAX

Dump(n) == dumps' = Append(dumps, n)

Ends(ok) == bench' = "gone" /\ fine' = ok

\* Its body prints; with nobody reading the process is ended by the write.
Prints(next) ==
    IF Readers THEN text < Room /\ text' = text + 1 /\ bench' = next /\ UNCHANGED fine
    ELSE Ends(FALSE) /\ UNCHANGED text

\* Setup may start processes: they hold the ends this process was given, until
\* `from_env' sets them to close, after the warm-up.
SetUp ==
    /\ bench = "setup"
    /\ Prints("warmup")
    /\ IF bench' = "warmup" THEN Dump(0) ELSE UNCHANGED dumps
    /\ left' \in {FALSE, Leaves}
    /\ UNCHANGED <<cli, chosen, result, cost, report, answer>>

WarmUp ==
    /\ bench = "warmup"
    /\ Prints("report")
    /\ IF bench' = "report" THEN Dump(cost) ELSE UNCHANGED dumps
    /\ UNCHANGED <<cli, chosen, result, cost, report, answer, left>>

Report ==
    /\ bench = "report"
    /\ IF Readers THEN report' = TRUE /\ bench' = "await" /\ UNCHANGED fine
       ELSE Ends(FALSE) /\ UNCHANGED report
    /\ UNCHANGED <<cli, chosen, result, cost, dumps, answer, text, left>>

\* A channel without its command is an error of the bench's.
Await ==
    /\ bench = "await"
    /\ \/ answer # None /\ bench' = "window" /\ Dump(0) /\ UNCHANGED fine
       \/ answer = None /\ ~Answers /\ Ends(FALSE) /\ UNCHANGED dumps
    /\ UNCHANGED <<cli, chosen, result, cost, report, answer, text, left>>

Window ==
    /\ bench = "window"
    /\ Prints("leave")
    /\ IF bench' = "leave" THEN Dump(answer * cost) ELSE UNCHANGED dumps
    /\ UNCHANGED <<cli, chosen, result, cost, report, answer, left>>

Leave ==
    /\ bench = "leave"
    /\ Ends(TRUE)
    /\ Dump(0)
    /\ UNCHANGED <<cli, chosen, result, cost, report, answer, text, left>>

\* The bench exits in its setup or body, with either status, having run part
\* of what it was to run; or is killed, where it stands.
Dies ==
    /\ \/ /\ bench \in {"setup", "warmup", "window"}
          /\ \E ok \in BOOLEAN : Ends(ok)
          /\ \/ Dump(0)
             \/ bench = "window" /\ Dump(cost)
       \/ Alive /\ Ends(FALSE) /\ UNCHANGED dumps
    /\ UNCHANGED <<cli, chosen, result, cost, report, answer, text, left>>

-----------------------------------------------------------------------------
(* The command.                                                              *)

Spawn ==
    /\ cli = "off" /\ bench = "none"
    /\ cli' = "warm" /\ bench' = "setup"
    /\ cost' \in Costs
    /\ UNCHANGED <<chosen, result, dumps, report, answer, text, fine, left>>

\* The command ends where it stands, or has returned; its bench does not.
Killed ==
    IF Alive
    THEN /\ cli' = "off" /\ chosen' = None /\ result' = None /\ text' = 0
         /\ UNCHANGED <<bench, cost, dumps, report, answer, fine, left>>
    ELSE Cleared

Forgotten == cli = "off" /\ bench = "gone" /\ Cleared

\* The report, or end of file when nobody is left to send it.  Then the process
\* is killed.
Abandon ==
    /\ cli' = "wait" /\ chosen' = None
    /\ IF Alive THEN Ends(FALSE) ELSE UNCHANGED <<bench, fine>>

Warmed ==
    /\ cli = "warm"
    /\ IF report THEN cli' = "choose" /\ UNCHANGED <<chosen, bench, fine>>
       ELSE ~Reporters /\ Abandon
    /\ UNCHANGED <<result, cost, dumps, report, answer, text, left>>

\* The second dump is the warm-up's, whatever ended there.
Choose ==
    /\ cli = "choose"
    /\ IF Len(dumps) >= 2
       THEN /\ chosen' = WindowFor(dumps[2])
            /\ cli' = "send" /\ UNCHANGED <<bench, fine>>
       ELSE Abandon
    /\ UNCHANGED <<result, cost, dumps, report, answer, text, left>>

Send ==
    /\ cli = "send"
    /\ IF Alive \/ left
       THEN cli' = "wait" /\ answer' = chosen /\ UNCHANGED <<chosen, bench, fine>>
       ELSE Abandon /\ UNCHANGED answer
    /\ UNCHANGED <<result, cost, dumps, report, text, left>>

Wait ==
    /\ cli = "wait" /\ ~Alive
    /\ cli' = "join"
    /\ UNCHANGED <<chosen, result, bench, cost, dumps, report, answer, text, fine, left>>

\* Two threads read the output while the command waits.
Drain ==
    /\ text > 0 /\ Readers
    /\ text' = text - 1
    /\ UNCHANGED <<cli, chosen, result, bench, cost, dumps, report, answer, fine, left>>

\* Slip: the dump before the last is the window's.
MeasuredNearEnd(window) ==
    IF window # None /\ fine /\ Len(dumps) >= 2
    THEN [ir |-> dumps[Len(dumps) - 1] \div window, window |-> window] ELSE None

\* A window was sent, the process ended well, and there is a dump for each of
\* the five phases.
Measured(window) ==
    IF window # None /\ fine /\ Len(dumps) = 5
    THEN [ir |-> dumps[4] \div window, window |-> window] ELSE None

\* The threads end with the output, when nobody holds it open.
Join ==
    /\ cli = "join" /\ text = 0 /\ ~left
    /\ cli' = "over" /\ result' = Measured(chosen)
    /\ UNCHANGED <<chosen, bench, cost, dumps, report, answer, text, fine, left>>

-----------------------------------------------------------------------------
BenchStep == SetUp \/ WarmUp \/ Report \/ Await \/ Window \/ Leave
CliStep   == Warmed \/ Choose \/ Send \/ Wait \/ Join

\* What happens of itself once a command has spawned its bench.
HandshakeStep == BenchStep \/ Forgotten \/ Dies \/ CliStep \/ Drain

\* Processes run, and the threads read.
HandshakeFairness == WF_hs(BenchStep \/ Forgotten) /\ WF_hs(CliStep) /\ WF_hs(Drain)

-----------------------------------------------------------------------------
\* What is returned is what an iteration of the item takes, measured over the
\* window that was chosen for it: never part of a window, another phase's
\* instructions or those of a process that failed (callgrind.rs:
\* measure_window).
MeasuredWhole ==
    result # None => result.ir = cost /\ result.window = WindowFor(cost)

\* A bench process ends, also when its command is killed in front of it: what
\* it waits for is sent, or can be seen never to come (ctl.rs: "A side that
\* dies closes its ends").
BenchEnds == Alive ~> ~Alive
=============================================================================
