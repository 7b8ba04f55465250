--------------------------------- MODULE Sdk ---------------------------------
(* Calls of generated TypeScript clients: the transport with its retries       *)
(* (soothfast-sdk/assets/typescript/runtime.ts) over the servers of Embedded.  *)
(*                                                                             *)
(* External: a request may reach the server or not, and be answered or not;    *)
(* one whose client gave up may take effect later.  A server that answers 429  *)
(* or 503 has done nothing.                                                    *)
EXTENDS Embedded

CONSTANTS Clients, KeyOf,           \* clients, and the server each asks for
          Calls, ClientOf, Method,  \* calls, whose each is, and its verb
          Retries                   \* what clients are configured with

ASSUME SdkAssumption ==
    /\ KeyOf \in [Clients -> Keys] /\ ClientOf \in [Calls -> Clients]
    /\ Retries \subseteq Nat
    /\ None \notin {"ok", "error", "busy"}

IDEMPOTENT == {"GET", "HEAD", "OPTIONS", "PUT", "DELETE"}

VARIABLES
    maxRetries, \* attempts after the first
    resolved, \* per client, the start its base URL is of
    calls,    \* per call, where it is, its server, its attempt, its answer
    wire,     \* requests under way, by call and attempt
    effects   \* how often a call that must not be repeated took effect

transport == <<maxRetries, resolved, calls, wire, effects>>
sdk == <<embedded, transport>>

Idle == [pc |-> "idle", at |-> None, attempt |-> 0, answer |-> None]
\* The call's promise has settled: it returned, or it threw.
Settled == [Idle EXCEPT !.pc = "settled"]

SdkInit ==
    /\ EmbeddedInit /\ maxRetries \in Retries
    /\ resolved = [c \in Clients |-> None]
    /\ calls = [c \in Calls |-> Idle]
    /\ wire = {} /\ effects = [c \in Calls |-> 0]

At(c, pc) == Up /\ calls[c].pc = pc

-----------------------------------------------------------------------------
(* The base URL.                                                               *)

\* `origin' asks at most once, also for calls made while it waits.
Ask(c) ==
    /\ At(c, "idle")
    /\ LET client == ClientOf[c]
           key    == KeyOf[client]
           start  == IF resolved[client] # None THEN resolved[client]
                     ELSE IF Shared(key) # None THEN Shared(key) ELSE Len(starts) + 1 IN
         /\ IF resolved[client] # None THEN UNCHANGED embedded ELSE EmbeddedBaseUrl(key)
         /\ resolved' = [resolved EXCEPT ![client] = start]
         /\ calls' = [calls EXCEPT ![c].pc = "origin", ![c].at = start]
    /\ UNCHANGED <<maxRetries, wire, effects>>

\* A start that fails is not kept for an answer, and those that wait for it
\* throw.
Dropped ==
    LET failed == {n \in DOMAIN starts : Pending(n) /\ starts'[n].promise = "failed"} IN
    /\ resolved' = [c \in Clients |-> IF resolved[c] \in failed THEN None ELSE resolved[c]]
    /\ calls' = [c \in Calls |->
           IF calls[c].pc = "origin" /\ calls[c].at \in failed
           THEN Settled ELSE calls[c]]
    /\ UNCHANGED <<maxRetries, wire, effects>>

-----------------------------------------------------------------------------
(* Attempts.                                                                   *)

Send(c) ==
    /\ At(c, "asleep") \/ (At(c, "origin") /\ starts[calls[c].at].promise = "ready")
    /\ calls' = [calls EXCEPT ![c].pc = "sent"]
    /\ wire' = IF Alive(calls[c].at)
               THEN wire \cup {[call |-> c, attempt |-> calls[c].attempt, at |-> calls[c].at]}
               ELSE wire
    /\ UNCHANGED <<embedded, maxRetries, resolved, effects>>

\* The server answers; what it did stays done when nobody waits any more.
Serve(w) ==
    /\ Alive(w.at) /\ wire' = wire \ {w}
    /\ \E answer \in {"ok", "error", "busy"}, done \in {0, 1} :
         /\ answer = "ok" => done = 1
         /\ answer = "busy" => done = 0
         /\ effects' = IF Method[w.call] \in IDEMPOTENT THEN effects
                       ELSE [effects EXCEPT ![w.call] = @ + done]
         /\ calls' = IF calls[w.call].pc = "sent" /\ calls[w.call].attempt = w.attempt
                     THEN [calls EXCEPT ![w.call].answer = answer] ELSE calls
    /\ UNCHANGED <<embedded, maxRetries, resolved>>

Left(c) == calls[c].attempt < maxRetries

\* Slip: whatever failed on the way is sent again.
ShouldRetryLost(c, failure) == Left(c) /\ failure \in {"lost", "busy"}
\* Slip: the attempts are not counted.
ShouldRetryOn(c, failure) ==
    \/ failure = "lost" /\ Method[c] \in IDEMPOTENT
    \/ failure = "busy"
\* 429 and 503 are retried; when the wait they name is too long they are an
\* error like the others.
ShouldRetry(c, failure) ==
    /\ Left(c)
    /\ \/ failure = "lost" /\ Method[c] \in IDEMPOTENT
       \/ failure = "busy"

Failed(c, failure) ==
    IF ShouldRetry(c, failure)
    THEN calls' = [calls EXCEPT ![c].pc = "asleep", ![c].answer = None,
                                ![c].attempt = IF Left(c) THEN @ + 1 ELSE @]
    ELSE calls' = [calls EXCEPT ![c] = Settled]

\* An answer whose body does not arrive whole is not retried either.
Receive(c) ==
    /\ At(c, "sent") /\ calls[c].answer # None
    /\ IF calls[c].answer = "ok" THEN calls' = [calls EXCEPT ![c] = Settled]
       ELSE Failed(c, calls[c].answer)
    /\ UNCHANGED <<embedded, maxRetries, resolved, wire, effects>>

\* Nobody answers in time, or the connection is refused or reset.
Lose(c) ==
    /\ At(c, "sent")
    /\ Failed(c, "lost")
    /\ UNCHANGED <<embedded, maxRetries, resolved, wire, effects>>

-----------------------------------------------------------------------------
\* What is on its way to a server ends with it.
ServerDies(n) ==
    /\ Dies(n)
    /\ wire' = {w \in wire : w.at # n}
    /\ UNCHANGED <<maxRetries, resolved, calls, effects>>

Launches(n) == (Settles(n) \/ OnExit(n)) /\ Dropped
Forces(n)   == Forced(n) /\ UNCHANGED transport
Ends        == (Stop \/ Exit) /\ UNCHANGED transport

SdkNext ==
    \/ \E c \in Calls : Ask(c) \/ Send(c) \/ Receive(c) \/ Lose(c)
    \/ \E w \in wire : Serve(w)
    \/ \E n \in DOMAIN starts : Launches(n) \/ Forces(n) \/ ServerDies(n)
    \/ Ends

\* Node's timers and events come, and a killed process ends.  Nothing is
\* assumed of a server, and nobody has to call, stop or exit.
GoesOn(c) == Send(c) \/ Receive(c) \/ Lose(c)
Comes(n)  == Launches(n) \/ Forces(n) \/ (starts[n].signal = "kill" /\ ServerDies(n))

SdkFairness ==
    /\ \A c \in Calls : WF_sdk(GoesOn(c))
    /\ \A n \in 1 .. MaxStarts : WF_sdk(n \in DOMAIN starts /\ Comes(n))

SdkSpec == SdkInit /\ [][SdkNext]_sdk /\ SdkFairness

-----------------------------------------------------------------------------
\* A call that must not be repeated takes effect at most once, whatever was
\* lost, came late or was answered by a busy server (runtime.ts: shouldRetry).
AtMostOnce == \A c \in Calls : Method[c] \notin IDEMPOTENT => effects[c] <= 1

\* Whatever the server does, calls come to their end, and so does a stop: while
\* the program runs there is always a time to come when nobody waits
\* (runtime.ts: request; server.ts: readReadyLine, stop).
NobodyWaiting == halt = {} /\ \A c \in Calls : calls[c].pc \in {"idle", "settled"}
AllSettle == []<>(~Up \/ NobodyWaiting)
=============================================================================
