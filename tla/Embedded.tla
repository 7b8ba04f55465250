------------------------------ MODULE Embedded ------------------------------
(* The server a generated TypeScript package bundles: started on first use,   *)
(* shared by every client that asks for one environment, stopped on request   *)
(* and when the process ends (soothfast-sdk/assets/typescript/server.ts).     *)
(*                                                                            *)
(* Node runs one callback at a time; what it does between two events, the     *)
(* promise reactions included, is one step.  A start is its number in         *)
(* `starts'.  The server is external: it may announce itself, die at any      *)
(* time, and go on when it is asked to end.                                   *)
EXTENDS Naturals, Sequences, FiniteSets, Option

CONSTANTS Keys,                \* binaries with their environments
          MaxStarts, MaxStops  \* bounds

ASSUME EmbeddedAssumption == None \notin Nat

VARIABLES
    starts,   \* every server started: its promise and its process
    running,  \* per key, the start that is shared
    spawned,  \* the starts whose process was not seen to end
    halt,     \* the starts that calls of stopEmbeddedServers wait for
    stops, app

embedded == <<starts, running, spawned, halt, stops, app>>

EmbeddedInit ==
    /\ starts = <<>> /\ running = [k \in Keys |-> None]
    /\ spawned = {} /\ halt = {} /\ stops = 0 /\ app = "up"

Up == app = "up"
Alive(n) == starts[n].child = "alive"
Pending(n) == starts[n].promise = "pending"

-----------------------------------------------------------------------------
(* Starting.                                                                  *)

Start(k) ==
    /\ Len(starts) < MaxStarts
    /\ starts' = Append(starts, [key |-> k, promise |-> "pending", child |-> "alive",
                                 signal |-> "none", halted |-> FALSE])
    /\ running' = [running EXCEPT ![k] = Len(starts) + 1]
    /\ spawned' = spawned \cup {Len(starts) + 1}
    /\ UNCHANGED <<halt, stops, app>>

\* Slip: a server is shared once it is ready.
SharedReady(k) == IF running[k] # None /\ ~Pending(running[k]) THEN running[k] ELSE None
\* The start that a client which asks now waits for.
Shared(k) == running[k]

EmbeddedBaseUrl(k) == IF Shared(k) = None THEN Start(k) ELSE UNCHANGED embedded

\* A stop that waits for it ends it at once.
Ready(n) ==
    /\ starts' = [starts EXCEPT ![n].promise = "ready",
                                ![n].signal = IF n \in halt THEN "term" ELSE @]
    /\ UNCHANGED <<running, spawned, halt, stops, app>>

\* The process is killed, and whatever the key has now is forgotten.
Fails(n) ==
    /\ starts' = [starts EXCEPT ![n].promise = "failed", ![n].signal = "kill"]
    /\ running' = [running EXCEPT ![starts[n].key] = None]
    /\ halt' = halt \ {n}
    /\ UNCHANGED <<spawned, stops, app>>

\* The line with the URL is read.
OnData(n) == Up /\ Pending(n) /\ Alive(n) /\ Ready(n)
\* There is nothing to run, its ready line names no URL, or none comes in time.
OnError(n) == Up /\ Pending(n) /\ Fails(n)

-----------------------------------------------------------------------------
(* Ending.                                                                    *)

Dies(n) ==
    /\ Alive(n)
    /\ starts' = [starts EXCEPT ![n].child = "dead"]
    /\ UNCHANGED <<running, spawned, halt, stops, app>>

\* The event that says so; a start still pending has failed.
OnExit(n) ==
    /\ Up /\ starts[n].child = "dead"
    /\ starts' = [starts EXCEPT ![n].child = "gone",
                                ![n].promise = IF Pending(n) THEN "failed" ELSE @]
    /\ running' = IF Pending(n) THEN [running EXCEPT ![starts[n].key] = None] ELSE running
    /\ spawned' = spawned \ {n} /\ halt' = halt \ {n}
    /\ UNCHANGED <<stops, app>>

\* Those that are ready are asked to end.
Stop ==
    /\ Up /\ stops < MaxStops /\ stops' = stops + 1
    /\ LET of == {running[k] : k \in Keys} \ {None} IN
         /\ starts' = [n \in DOMAIN starts |->
                IF n \notin of THEN starts[n]
                ELSE IF Pending(n) THEN [starts[n] EXCEPT !.halted = TRUE]
                ELSE IF starts[n].child = "gone" THEN starts[n]
                ELSE [starts[n] EXCEPT !.signal = "term"]]
         /\ halt' = halt \cup {n \in of : Pending(n) \/ starts[n].child # "gone"}
    /\ running' = [k \in Keys |-> None]
    /\ UNCHANGED <<spawned, app>>

\* Five seconds later.
Forced(n) ==
    /\ Up /\ n \in halt /\ starts[n].signal = "term"
    /\ starts' = [starts EXCEPT ![n].signal = "kill"]
    /\ UNCHANGED <<running, spawned, halt, stops, app>>

\* Slip: the servers that are shared are signalled.
SignalledRunning == {n \in DOMAIN starts : \E k \in Keys : running[k] = n}
\* The children the exit handler signals.
Signalled == spawned

Exit ==
    /\ Up /\ app' = "exited"
    /\ starts' = [n \in DOMAIN starts |->
           IF n \in Signalled /\ starts[n].signal = "none"
           THEN [starts[n] EXCEPT !.signal = "term"] ELSE starts[n]]
    /\ UNCHANGED <<running, spawned, halt, stops>>

Settles(n) == OnData(n) \/ OnError(n)

-----------------------------------------------------------------------------
\* A start the process still has, that nobody has asked to end.
InUse(n) == starts[n].promise # "failed" /\ starts[n].signal = "none"
            /\ ~starts[n].halted /\ starts[n].child # "gone"

\* Every client of one environment has the same server: there is one in use,
\* but for a start that a stop let go of and that failed, which takes the next
\* one's place in the map with it (server.ts: embeddedBaseUrl; docs/sdk.md:
\* "keep one shared server per binary and launch environment").
OneShared ==
    \A i, j \in DOMAIN starts :
        InUse(i) /\ InUse(j) /\ starts[i].key = starts[j].key /\ i # j
          => \E n \in DOMAIN starts : starts[n].key = starts[i].key /\ starts[n].halted
                                      /\ starts[n].promise = "failed"

\* No server outlives the process unasked, whether it was shared, starting or
\* waited for by a stop when the process ended (server.ts: the exit handler).
NoneLeft == ~Up => \A n \in DOMAIN starts : Alive(n) => starts[n].signal # "none"
=============================================================================
