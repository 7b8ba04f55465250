---------------------------- MODULE RequestProofs ----------------------------
(* What holds of requests over a network that delays, repeats and loses them. *)
(*                                                                            *)
(* Of a generated TypeScript client and its bundled server, for any           *)
(* environments, clients, calls, verbs and retries, and however many servers  *)
(* are started and stopped: one server is shared, none outlives the process,  *)
(* and a call that must not be repeated takes effect once.  Of the bot, for   *)
(* any pull requests, people, handlers and deliveries: what it queues a       *)
(* writer has asked for, of this commit, and has not taken back.              *)
EXTENDS Sdk, Bot, SequenceTheorems, TLAPS

-----------------------------------------------------------------------------
(* The servers.                                                               *)

StartRecord ==
    [key : Keys, promise : {"pending", "ready", "failed"},
     child : {"alive", "dead", "gone"}, signal : {"none", "term", "kill"},
     halted : BOOLEAN]

EmbeddedType ==
    /\ starts \in Seq(StartRecord)
    /\ running = [k \in Keys |-> running[k]]
    /\ app \in {"up", "exited"}

\* A start of k that a stop let go of has failed.
Lost(k) ==
    \E n \in DOMAIN starts :
        starts[n].key = k /\ starts[n].halted /\ starts[n].promise = "failed"

\* A start that may still be handed to a client is the one its key shares.
Mapped(n) == running[starts[n].key] = n \/ Lost(starts[n].key)
Kept ==
    \A n \in DOMAIN starts :
        (Pending(n) /\ ~starts[n].halted) \/ InUse(n) => Mapped(n)

\* The exit handler knows every child that was not seen to end.
Known == \A n \in DOMAIN starts : starts[n].child # "gone" => n \in spawned

EmbeddedInv == EmbeddedType /\ Kept /\ Known /\ NoneLeft

\* What a step does to the servers.
EmbeddedStep ==
    \/ Up /\ \E k \in Keys : running[k] = None /\ Start(k)
    \/ \E n \in DOMAIN starts : OnData(n) \/ OnError(n) \/ OnExit(n) \/ Forced(n) \/ Dies(n)
    \/ Stop \/ Exit

LEMMA EmbeddedInitially == EmbeddedInit => EmbeddedInv
BY EmbeddedAssumption DEF EmbeddedInit, EmbeddedInv, EmbeddedType, Kept, Known, NoneLeft, Up

\* A start never changes its key, and what was let go of and failed stays so.
LEMMA LostStays ==
  ASSUME EmbeddedType, EmbeddedType',
         \A n \in DOMAIN starts :
            /\ n \in DOMAIN starts'
            /\ starts'[n].key = starts[n].key
            /\ starts[n].halted => starts'[n].halted
            /\ starts[n].promise = "failed" => starts'[n].promise = "failed",
         NEW k, Lost(k)
  PROVE  Lost(k)'
BY DEF Lost

LEMMA StartKeeps ==
  ASSUME EmbeddedInv, Up, NEW k \in Keys, running[k] = None, Start(k)
  PROVE  EmbeddedInv'
<1> DEFINE s == [key |-> k, promise |-> "pending", child |-> "alive",
                 signal |-> "none", halted |-> FALSE]
           m == Len(starts) + 1
<1>1. s \in StartRecord
  BY DEF StartRecord
<1>2. /\ starts' \in Seq(StartRecord) /\ Len(starts') = m /\ starts'[m] = s
      /\ \A n \in DOMAIN starts : n \in DOMAIN starts' /\ starts'[n] = starts[n] /\ n # m
      /\ \A n \in DOMAIN starts' : n = m \/ n \in DOMAIN starts
      /\ m \in Nat
  BY <1>1 DEF Start, EmbeddedInv, EmbeddedType
<1>3. running' = [running EXCEPT ![k] = m] /\ spawned' = spawned \cup {m} /\ app' = app
  BY DEF Start
<1>4. EmbeddedType'
  BY <1>2, <1>3 DEF EmbeddedInv, EmbeddedType
<1>5. \A l : Lost(l) => Lost(l)'
  BY <1>2, <1>4, LostStays DEF EmbeddedInv
<1>6. Kept'
  <2> SUFFICES ASSUME NEW n \in DOMAIN starts', (Pending(n) /\ ~starts[n].halted)' \/ InUse(n)'
               PROVE  Mapped(n)'
    BY DEF Kept
  <2>1. CASE n = m
    BY <2>1, <1>2, <1>3 DEF Mapped, EmbeddedInv, EmbeddedType
  <2>2. CASE n \in DOMAIN starts
    <3>1. Mapped(n)
      BY <2>2, <1>2 DEF EmbeddedInv, Kept, Pending, InUse
    <3>2. starts[n].key \in Keys
      <4>1. starts[n] \in StartRecord
        BY <2>2 DEF EmbeddedInv, EmbeddedType
      <4> QED
        BY <4>1 DEF StartRecord
    <3>3. n # None
      BY <2>2, EmbeddedAssumption DEF EmbeddedInv, EmbeddedType
    <3> QED
      BY <3>1, <3>2, <3>3, <1>2, <1>3, <1>5, <2>2 DEF Mapped, EmbeddedInv, EmbeddedType
  <2> QED
    BY <2>1, <2>2, <1>2
<1>7. Known' /\ NoneLeft'
  BY <1>2, <1>3 DEF EmbeddedInv, Known, NoneLeft, Up
<1> QED
  BY <1>4, <1>6, <1>7 DEF EmbeddedInv

\* A sequence is a function.
LEMMA SeqOfFunction ==
  ASSUME NEW S, NEW m \in Nat, NEW f \in [1 .. m -> S]
  PROVE  f \in Seq(S)
OBVIOUS

\* Of one start, its promise, its process or its signal changes.
LEMMA OneStart ==
  ASSUME EmbeddedType, NEW n \in DOMAIN starts, NEW s \in StartRecord,
         starts' = [starts EXCEPT ![n] = s], s.key = starts[n].key
  PROVE  /\ starts' \in Seq(StartRecord) /\ DOMAIN starts' = DOMAIN starts
         /\ starts'[n] = s /\ \A i \in DOMAIN starts \ {n} : starts'[i] = starts[i]
         /\ \A i \in DOMAIN starts : starts'[i].key = starts[i].key /\ starts[i] \in StartRecord
<1>1. \A i \in DOMAIN starts : starts[i] \in StartRecord
  BY DEF EmbeddedType
<1>2. DOMAIN starts = 1 .. Len(starts) /\ Len(starts) \in Nat
  BY DEF EmbeddedType
<1>3. starts' \in [1 .. Len(starts) -> StartRecord]
  BY <1>1, <1>2
<1>4. starts' \in Seq(StartRecord)
  BY <1>2, <1>3, SeqOfFunction
<1> QED
  BY <1>1, <1>2, <1>3, <1>4

LEMMA OnDataKeeps ==
  ASSUME EmbeddedInv, NEW n \in DOMAIN starts, OnData(n)
  PROVE  EmbeddedInv'
<1> DEFINE s == [starts[n] EXCEPT !.promise = "ready",
                                  !.signal = IF n \in halt THEN "term" ELSE @]
<1>0. starts[n] \in StartRecord /\ starts[n].promise = "pending"
  BY DEF EmbeddedInv, EmbeddedType, OnData, Pending
<1>1. /\ s \in StartRecord /\ s.key = starts[n].key /\ s.halted = starts[n].halted
      /\ s.promise = "ready" /\ s.child = starts[n].child
      /\ s.signal = "none" => starts[n].signal = "none"
  BY <1>0 DEF StartRecord
<1>2. starts' = [starts EXCEPT ![n] = s]
  BY DEF OnData, Ready, EmbeddedInv, EmbeddedType
<1>3. Up /\ running' = running /\ spawned' = spawned /\ app' = app
  BY DEF OnData, Ready
<1> HIDE DEF s
<1>4. /\ starts' \in Seq(StartRecord) /\ DOMAIN starts' = DOMAIN starts
      /\ starts'[n] = s /\ \A i \in DOMAIN starts \ {n} : starts'[i] = starts[i]
  BY <1>1, <1>2, OneStart DEF EmbeddedInv
<1>5. EmbeddedType'
  BY <1>3, <1>4 DEF EmbeddedInv, EmbeddedType
<1>6. \A l : Lost(l) => Lost(l)'
  BY <1>0, <1>1, <1>4, <1>5, LostStays DEF EmbeddedInv
<1>7. Kept'
  BY <1>0, <1>1, <1>3, <1>4, <1>6 DEF EmbeddedInv, Kept, Mapped, Pending, InUse
<1>8. Known' /\ NoneLeft'
  BY <1>1, <1>3, <1>4 DEF EmbeddedInv, Known, NoneLeft, Up
<1> QED
  BY <1>5, <1>7, <1>8 DEF EmbeddedInv

\* A start that fails is the one its key shares, or a stop let go of it, or
\* another that did so has already failed.
LEMMA OneFails ==
  ASSUME EmbeddedInv, NEW n \in DOMAIN starts, Pending(n), NEW s \in StartRecord,
         starts' = [starts EXCEPT ![n] = s],
         s.key = starts[n].key, s.halted = starts[n].halted, s.promise = "failed",
         running' = [running EXCEPT ![starts[n].key] = None], app' = app
  PROVE  EmbeddedType' /\ Kept'
<1>1. /\ starts' \in Seq(StartRecord) /\ DOMAIN starts' = DOMAIN starts
      /\ starts'[n] = s /\ \A i \in DOMAIN starts \ {n} : starts'[i] = starts[i]
      /\ \A i \in DOMAIN starts : starts'[i].key = starts[i].key /\ starts[i] \in StartRecord
  BY OneStart DEF EmbeddedInv
<1>2. EmbeddedType'
  BY <1>1 DEF EmbeddedInv, EmbeddedType
<1>3. \A l : Lost(l) => Lost(l)'
  BY <1>1, <1>2, LostStays DEF EmbeddedInv
<1>4. running[starts[n].key] = n \/ Lost(starts[n].key)'
  <2>1. CASE starts[n].halted
    BY <2>1, <1>1 DEF Lost
  <2>2. CASE ~starts[n].halted
    BY <2>2, <1>3 DEF EmbeddedInv, Kept, Mapped
  <2> QED
    BY <2>1, <2>2
<1>5. ASSUME NEW i \in DOMAIN starts', (Pending(i) /\ ~starts[i].halted)' \/ InUse(i)'
      PROVE  Mapped(i)'
  <2>1. i # n /\ starts'[i] = starts[i] /\ i \in DOMAIN starts
    BY <1>1, <1>5 DEF Pending, InUse
  <2>2. Mapped(i)
    BY <1>5, <2>1 DEF EmbeddedInv, Kept, Pending, InUse
  <2>3. CASE starts[i].key = starts[n].key
    BY <2>1, <2>2, <2>3, <1>3, <1>4 DEF Mapped
  <2>4. CASE starts[i].key # starts[n].key
    BY <2>1, <2>2, <2>4, <1>1, <1>3 DEF Mapped, EmbeddedInv, EmbeddedType, StartRecord
  <2> QED
    BY <2>3, <2>4
<1> QED
  BY <1>2, <1>5 DEF Kept

LEMMA OnErrorKeeps ==
  ASSUME EmbeddedInv, NEW n \in DOMAIN starts, OnError(n)
  PROVE  EmbeddedInv'
<1> DEFINE s == [starts[n] EXCEPT !.promise = "failed", !.signal = "kill"]
<1>0. starts[n] \in StartRecord /\ Pending(n) /\ Up
  BY DEF EmbeddedInv, EmbeddedType, OnError
<1>1. /\ s \in StartRecord /\ s.key = starts[n].key /\ s.halted = starts[n].halted
      /\ s.promise = "failed" /\ s.child = starts[n].child
  BY <1>0 DEF StartRecord
<1>2. /\ starts' = [starts EXCEPT ![n] = s] /\ spawned' = spawned /\ app' = app
      /\ running' = [running EXCEPT ![starts[n].key] = None]
  BY DEF OnError, Fails, EmbeddedInv, EmbeddedType
<1> HIDE DEF s
<1>3. /\ DOMAIN starts' = DOMAIN starts
      /\ starts'[n] = s /\ \A i \in DOMAIN starts \ {n} : starts'[i] = starts[i]
  BY <1>1, <1>2, OneStart DEF EmbeddedInv
<1>4. EmbeddedType' /\ Kept'
  BY <1>0, <1>1, <1>2, OneFails
<1>5. Known' /\ NoneLeft'
  BY <1>0, <1>1, <1>2, <1>3 DEF EmbeddedInv, Known, NoneLeft, Up
<1> QED
  BY <1>4, <1>5 DEF EmbeddedInv

\* A start whose promise and halting stay, and which is no more in use than it
\* was, is kept as it was.
LEMMA OneStays ==
  ASSUME EmbeddedInv, NEW n \in DOMAIN starts, NEW s \in StartRecord,
         starts' = [starts EXCEPT ![n] = s],
         s.key = starts[n].key, s.halted = starts[n].halted,
         s.promise = starts[n].promise,
         s.signal = "none" => starts[n].signal = "none",
         s.child # "gone" => starts[n].child # "gone",
         running' = running, app' = app
  PROVE  EmbeddedType' /\ Kept'
<1>1. /\ starts' \in Seq(StartRecord) /\ DOMAIN starts' = DOMAIN starts
      /\ starts'[n] = s /\ \A i \in DOMAIN starts \ {n} : starts'[i] = starts[i]
      /\ \A i \in DOMAIN starts : starts'[i].key = starts[i].key /\ starts[i] \in StartRecord
  BY OneStart DEF EmbeddedInv
<1>2. EmbeddedType'
  BY <1>1 DEF EmbeddedInv, EmbeddedType
<1>3. \A l : Lost(l) => Lost(l)'
  BY <1>1, <1>2, LostStays DEF EmbeddedInv
<1>4. Kept'
  BY <1>1, <1>3 DEF EmbeddedInv, Kept, Mapped, Pending, InUse
<1> QED
  BY <1>2, <1>4

LEMMA OnExitKeeps ==
  ASSUME EmbeddedInv, NEW n \in DOMAIN starts, OnExit(n)
  PROVE  EmbeddedInv'
<1> DEFINE s == [starts[n] EXCEPT !.child = "gone",
                                  !.promise = IF Pending(n) THEN "failed" ELSE @]
<1>0. starts[n] \in StartRecord /\ Up
  BY DEF EmbeddedInv, EmbeddedType, OnExit
<1>1. /\ s \in StartRecord /\ s.key = starts[n].key /\ s.halted = starts[n].halted
      /\ s.child = "gone" /\ s.signal = starts[n].signal
      /\ s.promise = IF Pending(n) THEN "failed" ELSE starts[n].promise
  BY <1>0 DEF StartRecord
<1>2. /\ starts' = [starts EXCEPT ![n] = s] /\ spawned' = spawned \ {n} /\ app' = app
      /\ running' = IF Pending(n) THEN [running EXCEPT ![starts[n].key] = None] ELSE running
  BY DEF OnExit, EmbeddedInv, EmbeddedType
<1> HIDE DEF s
<1>3. /\ DOMAIN starts' = DOMAIN starts
      /\ starts'[n] = s /\ \A i \in DOMAIN starts \ {n} : starts'[i] = starts[i]
  BY <1>1, <1>2, OneStart DEF EmbeddedInv
<1>4. EmbeddedType' /\ Kept'
  <2>1. CASE Pending(n)
    BY <2>1, <1>1, <1>2, OneFails
  <2>2. CASE ~Pending(n)
    BY <2>2, <1>1, <1>2, OneStays
  <2> QED
    BY <2>1, <2>2
<1>5. Known' /\ NoneLeft'
  BY <1>0, <1>1, <1>2, <1>3 DEF EmbeddedInv, Known, NoneLeft, Up
<1> QED
  BY <1>4, <1>5 DEF EmbeddedInv

LEMMA ForcedKeeps ==
  ASSUME EmbeddedInv, NEW n \in DOMAIN starts, Forced(n)
  PROVE  EmbeddedInv'
<1> DEFINE s == [starts[n] EXCEPT !.signal = "kill"]
<1>0. starts[n] \in StartRecord /\ Up
  BY DEF EmbeddedInv, EmbeddedType, Forced
<1>1. /\ s \in StartRecord /\ s.key = starts[n].key /\ s.halted = starts[n].halted
      /\ s.child = starts[n].child /\ s.signal = "kill" /\ s.promise = starts[n].promise
  BY <1>0 DEF StartRecord
<1>2. /\ starts' = [starts EXCEPT ![n] = s] /\ spawned' = spawned /\ app' = app
      /\ running' = running
  BY DEF Forced, EmbeddedInv, EmbeddedType
<1> HIDE DEF s
<1>3. /\ DOMAIN starts' = DOMAIN starts
      /\ starts'[n] = s /\ \A i \in DOMAIN starts \ {n} : starts'[i] = starts[i]
  BY <1>1, <1>2, OneStart DEF EmbeddedInv
<1>4. EmbeddedType' /\ Kept'
  BY <1>1, <1>2, OneStays
<1>5. Known' /\ NoneLeft'
  BY <1>0, <1>1, <1>2, <1>3 DEF EmbeddedInv, Known, NoneLeft, Up
<1> QED
  BY <1>4, <1>5 DEF EmbeddedInv

LEMMA DiesKeeps ==
  ASSUME EmbeddedInv, NEW n \in DOMAIN starts, Dies(n)
  PROVE  EmbeddedInv'
<1> DEFINE s == [starts[n] EXCEPT !.child = "dead"]
<1>0. starts[n] \in StartRecord /\ Alive(n)
  BY DEF EmbeddedInv, EmbeddedType, Dies
<1>1. /\ s \in StartRecord /\ s.key = starts[n].key /\ s.halted = starts[n].halted
      /\ s.child = "dead" /\ s.signal = starts[n].signal /\ s.promise = starts[n].promise
  BY <1>0 DEF StartRecord
<1>2. /\ starts' = [starts EXCEPT ![n] = s] /\ spawned' = spawned /\ app' = app
      /\ running' = running
  BY DEF Dies, EmbeddedInv, EmbeddedType
<1> HIDE DEF s
<1>3. /\ DOMAIN starts' = DOMAIN starts
      /\ starts'[n] = s /\ \A i \in DOMAIN starts \ {n} : starts'[i] = starts[i]
  BY <1>1, <1>2, OneStart DEF EmbeddedInv
<1>4. EmbeddedType' /\ Kept'
  BY <1>0, <1>1, <1>2, OneStays DEF Alive
<1>5. Known' /\ NoneLeft'
  BY <1>0, <1>1, <1>2, <1>3 DEF EmbeddedInv, Known, NoneLeft, Up, Alive
<1> QED
  BY <1>4, <1>5 DEF EmbeddedInv

LEMMA StopKeeps ==
  ASSUME EmbeddedInv, Stop
  PROVE  EmbeddedInv'
<1> DEFINE of == {running[k] : k \in Keys} \ {None}
           After(n) == IF n \notin of THEN starts[n]
                       ELSE IF Pending(n) THEN [starts[n] EXCEPT !.halted = TRUE]
                       ELSE IF starts[n].child = "gone" THEN starts[n]
                       ELSE [starts[n] EXCEPT !.signal = "term"]
<1>1. /\ starts' = [n \in DOMAIN starts |-> After(n)]
      /\ running' = [k \in Keys |-> None] /\ Up /\ spawned' = spawned /\ app' = app
  BY DEF Stop
<1>2. ASSUME NEW n \in DOMAIN starts
      PROVE  /\ After(n) \in StartRecord /\ starts[n] \in StartRecord
             /\ After(n).key = starts[n].key /\ After(n).promise = starts[n].promise
             /\ After(n).child = starts[n].child
             /\ starts[n].halted => After(n).halted
             /\ n \notin of => After(n) = starts[n]
             /\ n \in of /\ starts[n].promise = "pending" => After(n).halted
             /\ n \in of /\ starts[n].promise # "pending" /\ starts[n].child # "gone" => After(n).signal = "term"
  <2>1. starts[n] \in StartRecord
    BY DEF EmbeddedInv, EmbeddedType
  <2> HIDE DEF of
  <2> QED
    BY <2>1 DEF StartRecord, Pending
<1> HIDE DEF After
<1>3. starts' \in Seq(StartRecord) /\ DOMAIN starts' = DOMAIN starts
      /\ \A n \in DOMAIN starts : starts'[n] = After(n)
  <2>1. DOMAIN starts = 1 .. Len(starts) /\ Len(starts) \in Nat
    BY DEF EmbeddedInv, EmbeddedType
  <2>2. starts' \in [1 .. Len(starts) -> StartRecord]
    BY <1>1, <1>2, <2>1
  <2> QED
    BY <1>1, <2>1, <2>2
<1>4. EmbeddedType'
  BY <1>1, <1>3 DEF EmbeddedInv, EmbeddedType
<1>5. \A l : Lost(l) => Lost(l)'
  BY <1>2, <1>3, <1>4, LostStays DEF EmbeddedInv
<1>6. ASSUME NEW n \in DOMAIN starts', (Pending(n) /\ ~starts[n].halted)' \/ InUse(n)'
      PROVE  Mapped(n)'
  <2>1. n \in DOMAIN starts /\ starts'[n] = After(n)
    BY <1>3
  <2>2. n \notin of
    BY <1>2, <1>6, <2>1 DEF Pending, InUse
  <2>3. starts'[n] = starts[n]
    BY <1>2, <2>1, <2>2
  <2>4. Mapped(n)
    BY <1>6, <2>1, <2>3 DEF EmbeddedInv, Kept, Pending, InUse
  <2>5. running[starts[n].key] # n
    <3>1. starts[n].key \in Keys
      BY <1>2, <2>1 DEF StartRecord
    <3>2. n # None
      BY <2>1, EmbeddedAssumption DEF EmbeddedInv, EmbeddedType
    <3> QED
      BY <3>1, <3>2, <2>2
  <2> QED
    BY <2>3, <2>4, <2>5, <1>5 DEF Mapped
<1>7. Known' /\ NoneLeft'
  BY <1>1, <1>2, <1>3 DEF EmbeddedInv, Known, NoneLeft, Up
<1> QED
  BY <1>4, <1>6, <1>7 DEF EmbeddedInv, Kept

LEMMA ExitKeeps ==
  ASSUME EmbeddedInv, Exit
  PROVE  EmbeddedInv'
<1> DEFINE After(n) == IF n \in Signalled /\ starts[n].signal = "none"
                       THEN [starts[n] EXCEPT !.signal = "term"] ELSE starts[n]
<1>1. /\ starts' = [n \in DOMAIN starts |-> After(n)]
      /\ running' = running /\ spawned' = spawned /\ app' = "exited"
  BY DEF Exit
<1>2. ASSUME NEW n \in DOMAIN starts
      PROVE  /\ After(n) \in StartRecord
             /\ After(n).key = starts[n].key /\ After(n).promise = starts[n].promise
             /\ After(n).child = starts[n].child /\ After(n).halted = starts[n].halted
             /\ After(n).signal = "none" => After(n) = starts[n] /\ n \notin spawned
  <2>1. starts[n] \in StartRecord
    BY DEF EmbeddedInv, EmbeddedType
  <2> QED
    BY <2>1 DEF StartRecord, Signalled
<1> HIDE DEF After
<1>3. starts' \in Seq(StartRecord) /\ DOMAIN starts' = DOMAIN starts
      /\ \A n \in DOMAIN starts : starts'[n] = After(n)
  <2>1. DOMAIN starts = 1 .. Len(starts) /\ Len(starts) \in Nat
    BY DEF EmbeddedInv, EmbeddedType
  <2>2. starts' \in [1 .. Len(starts) -> StartRecord]
    BY <1>1, <1>2, <2>1
  <2> QED
    BY <1>1, <2>1, <2>2
<1>4. EmbeddedType'
  BY <1>1, <1>3 DEF EmbeddedInv, EmbeddedType
<1>5. \A l : Lost(l) => Lost(l)'
  BY <1>2, <1>3, <1>4, LostStays DEF EmbeddedInv
<1>6. Kept'
  BY <1>1, <1>2, <1>3, <1>5 DEF EmbeddedInv, Kept, Mapped, Pending, InUse
<1>7. Known' /\ NoneLeft'
  BY <1>1, <1>2, <1>3 DEF EmbeddedInv, Known, NoneLeft, Up, Alive
<1> QED
  BY <1>4, <1>6, <1>7 DEF EmbeddedInv

LEMMA EmbeddedStepKeeps == EmbeddedInv /\ (EmbeddedStep \/ UNCHANGED embedded) => EmbeddedInv'
<1> SUFFICES ASSUME EmbeddedInv, EmbeddedStep \/ UNCHANGED embedded PROVE EmbeddedInv'
  OBVIOUS
<1>1. CASE UNCHANGED embedded
  BY <1>1 DEF embedded, EmbeddedInv, EmbeddedType, Kept, Known, NoneLeft, Mapped, Lost,
              Pending, InUse, Alive, Up
<1>2. CASE EmbeddedStep
  BY <1>2, StartKeeps, OnDataKeeps, OnErrorKeeps, OnExitKeeps, ForcedKeeps, DiesKeeps,
     StopKeeps, ExitKeeps DEF EmbeddedStep
<1> QED
  BY <1>1, <1>2

-----------------------------------------------------------------------------
(* Calls do nothing to the servers but start one that is not there.           *)

LEMMA CallsOnlyStart == SdkNext => EmbeddedStep \/ UNCHANGED embedded
<1> SUFFICES ASSUME SdkNext PROVE EmbeddedStep \/ UNCHANGED embedded
  OBVIOUS
<1>1. ASSUME NEW c \in Calls, Ask(c) PROVE EmbeddedStep \/ UNCHANGED embedded
  <2>1. KeyOf[ClientOf[c]] \in Keys
    BY SdkAssumption
  <2> QED
    BY <1>1, <2>1 DEF Ask, At, EmbeddedBaseUrl, Shared, EmbeddedStep
<1>2. ASSUME NEW c \in Calls, Send(c) \/ Receive(c) \/ Lose(c) PROVE UNCHANGED embedded
  BY <1>2 DEF Send, Receive, Lose
<1>3. ASSUME NEW w \in wire, Serve(w) PROVE UNCHANGED embedded
  BY <1>3 DEF Serve
<1>4. ASSUME NEW n \in DOMAIN starts, Launches(n) \/ Forces(n) \/ ServerDies(n)
      PROVE  EmbeddedStep
  BY <1>4 DEF Launches, Settles, Forces, ServerDies, EmbeddedStep
<1>5. CASE Ends
  BY <1>5 DEF Ends, EmbeddedStep
<1> QED
  BY <1>1, <1>2, <1>3, <1>4, <1>5 DEF SdkNext

LEMMA EmbeddedAlways == SdkSpec => []EmbeddedInv
<1>1. SdkInit => EmbeddedInv
  BY EmbeddedInitially DEF SdkInit
<1>2. EmbeddedInv /\ [SdkNext]_sdk => EmbeddedInv'
  BY EmbeddedStepKeeps, CallsOnlyStart DEF sdk
<1> QED
  BY <1>1, <1>2, PTL DEF SdkSpec

\* No server outlives the process unasked: the exit handler signals what was
\* spawned and not seen to end, whatever is shared then.
THEOREM ServersEnd == SdkSpec => []NoneLeft
<1>1. EmbeddedInv => NoneLeft
  BY DEF EmbeddedInv
<1> QED
  BY <1>1, EmbeddedAlways, PTL

\* Clients of one environment share one server, but for a start that a stop let
\* go of and that failed.
THEOREM OneServer == SdkSpec => []OneShared
<1>1. EmbeddedInv => OneShared
  BY DEF EmbeddedInv, Kept, Mapped, Lost, OneShared
<1> QED
  BY <1>1, EmbeddedAlways, PTL

-----------------------------------------------------------------------------
(* Calls that must not be repeated.                                           *)

CallRecord(x) ==
    /\ x = [pc |-> x.pc, at |-> x.at, attempt |-> x.attempt, answer |-> x.answer]
    /\ x.pc \in {"idle", "origin", "asleep", "sent", "settled"}
    /\ x.answer \in {None, "ok", "error", "busy"}
    /\ x.pc # "sent" => x.answer = None

TransportType ==
    /\ calls = [c \in Calls |-> calls[c]] /\ effects = [c \in Calls |-> effects[c]]
    /\ \A c \in Calls : CallRecord(calls[c])
    /\ \A w \in wire : w.call \in Calls

\* A request of c is under way.
UnderWay(c) == \E w \in wire : w.call = c

\* c is sent, or can be, and nothing was done for it so far.
ToDo(c) ==
    \/ calls[c].pc \in {"idle", "origin", "asleep"}
    \/ calls[c].pc = "sent" /\ calls[c].answer = "busy"
Waits(c) == calls[c].pc = "sent" /\ calls[c].answer = None

\* While c may be sent, it has not taken effect and will not; while it waits,
\* or a request of it is under way, there is one request, of this attempt.
Once(c) ==
    /\ effects[c] \in {0, 1}
    /\ ToDo(c) => effects[c] = 0 /\ ~UnderWay(c)
    /\ Waits(c) => effects[c] = 0
    /\ \A w \in wire : w.call = c =>
           /\ effects[c] = 0
           /\ calls[c].pc = "settled" \/ (Waits(c) /\ calls[c].attempt = w.attempt)
           /\ \A v \in wire : v.call = c => v = w

OnceInv == TransportType /\ \A c \in Calls : Method[c] \notin IDEMPOTENT => Once(c)

LEMMA OnceInitially == SdkInit => OnceInv
<1> SUFFICES ASSUME SdkInit PROVE OnceInv
  OBVIOUS
<1>1. calls = [c \in Calls |-> Idle] /\ wire = {} /\ effects = [c \in Calls |-> 0]
  BY DEF SdkInit
<1>2. TransportType
  BY <1>1 DEF TransportType, CallRecord, Idle
<1>3. ASSUME NEW c \in Calls PROVE Once(c)
  BY <1>1, SdkAssumption DEF Once, ToDo, Waits, UnderWay, Idle
<1> QED
  BY <1>2, <1>3 DEF OnceInv

\* What is sent, received or lost is one call's.
LEMMA OneCall ==
  ASSUME OnceInv, NEW c \in Calls, NEW x, CallRecord(x), calls' = [calls EXCEPT ![c] = x],
         effects' = effects, wire \subseteq wire',
         \A w \in wire' \ wire : w.call = c,
         Method[c] \notin IDEMPOTENT => Once(c)'
  PROVE  OnceInv'
<1>1. calls' = [d \in Calls |-> IF d = c THEN x ELSE calls[d]]
  BY DEF OnceInv, TransportType
<1>2. TransportType'
  BY <1>1 DEF OnceInv, TransportType
<1>3. ASSUME NEW d \in Calls, d # c, Once(d) PROVE Once(d)'
  <2>1. calls'[d] = calls[d] /\ effects'[d] = effects[d]
    BY <1>1, <1>3
  <2>2. \A w \in wire' : w.call = d => w \in wire
    BY <1>3
  <2> QED
    BY <1>3, <2>1, <2>2 DEF Once, ToDo, Waits, UnderWay
<1> QED
  BY <1>2, <1>3 DEF OnceInv

LEMMA AskKeeps ==
  ASSUME OnceInv, NEW c \in Calls, Ask(c)
  PROVE  OnceInv'
<1>1. PICK start : calls' = [calls EXCEPT ![c].pc = "origin", ![c].at = start]
  BY DEF Ask
<1> DEFINE x == [calls[c] EXCEPT !.pc = "origin", !.at = start]
<1>2. CallRecord(calls[c]) /\ calls[c].pc = "idle"
  BY DEF OnceInv, TransportType, Ask, At
<1>3. calls' = [calls EXCEPT ![c] = x]
  BY <1>1 DEF OnceInv, TransportType
<1>7. CallRecord(x) /\ x.pc = "origin"
  <2> DEFINE y == [calls[c] EXCEPT !.pc = "origin"]
  <2>1. y = [pc |-> "origin", at |-> calls[c].at, attempt |-> calls[c].attempt, answer |-> None]
    BY <1>2 DEF CallRecord
  <2>2. x = [y EXCEPT !.at = start]
    OBVIOUS
  <2> HIDE DEF x, y
  <2>3. x = [pc |-> "origin", at |-> start, attempt |-> calls[c].attempt, answer |-> None]
    BY <2>1, <2>2
  <2> QED
    BY <2>3 DEF CallRecord
<1> HIDE DEF x
<1>4. wire' = wire /\ effects' = effects /\ calls'[c] = x
  BY <1>3 DEF Ask, OnceInv, TransportType
<1>5. Once(c) => Once(c)'
  BY <1>2, <1>4, <1>7 DEF Once, ToDo, Waits, UnderWay
<1> QED
  BY <1>3, <1>4, <1>5, <1>7, OneCall DEF OnceInv

LEMMA SendKeeps ==
  ASSUME OnceInv, NEW c \in Calls, Send(c)
  PROVE  OnceInv'
<1> DEFINE x == [calls[c] EXCEPT !.pc = "sent"]
           r == [call |-> c, attempt |-> calls[c].attempt, at |-> calls[c].at]
<1>1. CallRecord(calls[c]) /\ calls[c].pc \in {"asleep", "origin"}
  BY DEF OnceInv, TransportType, Send, At
<1>2. calls' = [calls EXCEPT ![c] = x] /\ effects' = effects /\ calls'[c] = x
  BY DEF Send, OnceInv, TransportType
<1>3. /\ CallRecord(x) /\ x.pc = "sent" /\ x.answer = calls[c].answer
      /\ x.attempt = calls[c].attempt
  BY <1>1 DEF CallRecord
<1>4. wire' = wire \/ wire' = wire \cup {r}
  BY DEF Send
<1>5. r.call = c /\ r.attempt = calls[c].attempt
  OBVIOUS
<1> HIDE DEF x, r
<1>6. ASSUME Once(c) PROVE Once(c)'
  <2>1. effects[c] = 0 /\ ~UnderWay(c)
    BY <1>1, <1>6 DEF Once, ToDo
  <2>2. \A w \in wire' : w.call = c => w = r
    BY <2>1, <1>4 DEF UnderWay
  <2> QED
    BY <2>1, <2>2, <1>1, <1>2, <1>3, <1>5, SdkAssumption
    DEF CallRecord, Once, ToDo, Waits, UnderWay
<1> QED
  BY <1>2, <1>3, <1>4, <1>5, <1>6, OneCall DEF OnceInv

\* What cannot be repeated is not sent again when it is lost.
LEMMA FailedKeeps ==
  ASSUME OnceInv, NEW c \in Calls, calls[c].pc = "sent", NEW failure, Failed(c, failure),
         failure = calls[c].answer \/ failure = "lost",
         effects' = effects, wire' = wire
  PROVE  OnceInv'
<1> DEFINE x == [calls[c] EXCEPT !.pc = "asleep", !.answer = None,
                                 !.attempt = IF Left(c) THEN @ + 1 ELSE @]
<1>1. CallRecord(calls[c])
  BY DEF OnceInv, TransportType
<1>2. CASE ShouldRetry(c, failure)
  <2>1. calls' = [calls EXCEPT ![c] = x]
    BY <1>2 DEF Failed, OnceInv, TransportType
  <2>2. CallRecord(x) /\ x.pc = "asleep"
    <3> DEFINE y == [calls[c] EXCEPT !.pc = "asleep"]
               z == [y EXCEPT !.answer = None]
               n == IF Left(c) THEN calls[c].attempt + 1 ELSE calls[c].attempt
    <3>1. y = [pc |-> "asleep", at |-> calls[c].at, attempt |-> calls[c].attempt,
               answer |-> calls[c].answer]
      BY <1>1 DEF CallRecord
    <3>2. x = [z EXCEPT !.attempt = n]
      OBVIOUS
    <3> HIDE DEF y, n
    <3>3. z = [pc |-> "asleep", at |-> calls[c].at, attempt |-> calls[c].attempt, answer |-> None]
      BY <3>1
    <3> HIDE DEF x, z
    <3>4. x = [pc |-> "asleep", at |-> calls[c].at, attempt |-> n, answer |-> None]
      BY <3>2, <3>3
    <3> QED
      BY <3>4 DEF CallRecord
  <2> HIDE DEF x
  <2>3. calls'[c] = x
    BY <2>1 DEF OnceInv, TransportType
  <2>4. ASSUME Method[c] \notin IDEMPOTENT, Once(c) PROVE Once(c)'
    <3>1. calls[c].answer = "busy"
      BY <1>2, <2>4 DEF ShouldRetry
    <3>2. effects[c] = 0 /\ ~UnderWay(c)
      BY <2>4, <3>1 DEF Once, ToDo
    <3> QED
      BY <2>2, <2>3, <3>2 DEF Once, ToDo, Waits, UnderWay
  <2> QED
    BY <2>1, <2>2, <2>4, OneCall DEF OnceInv
<1>3. CASE ~ShouldRetry(c, failure)
  <2>1. calls' = [calls EXCEPT ![c] = Settled]
    BY <1>3 DEF Failed
  <2>2. CallRecord(Settled) /\ Settled.pc = "settled"
    BY DEF CallRecord, Settled, Idle
  <2>3. calls'[c] = Settled
    BY <2>1 DEF OnceInv, TransportType
  <2>4. ASSUME Once(c) PROVE Once(c)'
    BY <2>2, <2>3, <2>4 DEF Once, ToDo, Waits, UnderWay
  <2> QED
    BY <2>1, <2>2, <2>4, OneCall DEF OnceInv
<1> QED
  BY <1>2, <1>3

\* A call that settles, whatever its answer, is sent no more.
LEMMA SettledKeeps ==
  ASSUME OnceInv, NEW c \in Calls, calls' = [calls EXCEPT ![c] = Settled],
         effects' = effects, wire' = wire
  PROVE  OnceInv'
<1>1. CallRecord(Settled) /\ Settled.pc = "settled"
  BY DEF CallRecord, Settled, Idle
<1>2. calls'[c] = Settled
  BY DEF OnceInv, TransportType
<1>3. Once(c) => Once(c)'
  BY <1>1, <1>2 DEF Once, ToDo, Waits, UnderWay
<1> QED
  BY <1>1, <1>3, OneCall DEF OnceInv

LEMMA ReceiveOrLoseKeeps ==
  ASSUME OnceInv, NEW c \in Calls, Receive(c) \/ Lose(c)
  PROVE  OnceInv'
BY FailedKeeps, SettledKeeps DEF Receive, Lose, At

\* The server did something for a request at most once, and only while the call
\* waits for it or has given it up.
LEMMA ServeKeeps ==
  ASSUME OnceInv, NEW w \in wire, Serve(w)
  PROVE  OnceInv'
<1> DEFINE c == w.call
<1>1. c \in Calls /\ CallRecord(calls[c])
  BY DEF OnceInv, TransportType
<1>2. PICK answer \in {"ok", "error", "busy"}, done \in {0, 1} :
         /\ answer = "busy" => done = 0
         /\ effects' = IF Method[c] \in IDEMPOTENT THEN effects
                       ELSE [effects EXCEPT ![c] = @ + done]
         /\ calls' = IF calls[c].pc = "sent" /\ calls[c].attempt = w.attempt
                     THEN [calls EXCEPT ![c].answer = answer] ELSE calls
  BY DEF Serve
<1>3. wire' = wire \ {w}
  BY DEF Serve
<1> DEFINE x == [calls[c] EXCEPT !.answer = answer]
<1>4. (calls' = [calls EXCEPT ![c] = x] /\ calls[c].pc = "sent") \/ calls' = calls
  BY <1>2 DEF OnceInv, TransportType
<1>5. /\ x.pc = calls[c].pc /\ x.answer = answer
      /\ calls[c].pc = "sent" => CallRecord(x)
  BY <1>1, <1>2 DEF CallRecord
<1>6. Waits(c) /\ calls[c].attempt = w.attempt => calls'[c] = x
  BY <1>1, <1>2 DEF Waits, OnceInv, TransportType
<1>7. calls'[c] \in {x, calls[c]} /\ \A d \in Calls \ {c} : calls'[d] = calls[d]
  BY <1>1, <1>4 DEF OnceInv, TransportType
<1> HIDE DEF x, c
<1>8. TransportType'
  BY <1>2, <1>3, <1>4, <1>5, <1>7 DEF OnceInv, TransportType
<1>9. ASSUME NEW d \in Calls, d # c, Once(d) PROVE Once(d)'
  <2>1. calls'[d] = calls[d] /\ effects'[d] = effects[d]
    BY <1>2, <1>7, <1>9 DEF OnceInv, TransportType
  <2> QED
    BY <1>3, <1>9, <2>1 DEF Once, ToDo, Waits, UnderWay
<1>10. ASSUME Method[c] \notin IDEMPOTENT, Once(c) PROVE Once(c)'
  <2>0. w.call = c
    BY DEF c
  <2>1. /\ effects[c] = 0 /\ effects'[c] = done
        /\ calls[c].pc = "settled" \/ (Waits(c) /\ calls[c].attempt = w.attempt)
    BY <1>1, <1>2, <1>10, <2>0 DEF Once, OnceInv, TransportType
  <2>2. \A v \in wire' : v.call # c
    BY <1>3, <1>10, <2>0 DEF Once
  <2>3. calls'[c].pc = "settled" \/ (calls'[c] = x /\ x.pc = "sent")
    BY <1>5, <1>6, <1>7, <2>1 DEF Waits
  <2>4. ToDo(c)' => answer = "busy"
    BY <1>5, <2>3 DEF ToDo
  <2>5. ~Waits(c)'
    BY <1>2, <1>5, <2>3, SdkAssumption DEF Waits
  <2> QED
    BY <1>2, <2>1, <2>2, <2>4, <2>5 DEF Once, UnderWay
<1> QED
  BY <1>8, <1>9, <1>10 DEF OnceInv

\* A start that fails settles the calls that wait for it.
LEMMA DroppedKeeps ==
  ASSUME OnceInv, Dropped
  PROVE  OnceInv'
<1>1. PICK failed : calls' = [c \in Calls |->
           IF calls[c].pc = "origin" /\ calls[c].at \in failed THEN Settled ELSE calls[c]]
  BY DEF Dropped
<1>2. wire' = wire /\ effects' = effects
  BY DEF Dropped
<1>3. CallRecord(Settled) /\ Settled.pc = "settled"
  BY DEF CallRecord, Settled, Idle
<1>4. TransportType'
  BY <1>1, <1>2, <1>3 DEF OnceInv, TransportType
<1>5. ASSUME NEW c \in Calls, Once(c) PROVE Once(c)'
  <2>1. calls'[c] \in {Settled, calls[c]}
    BY <1>1
  <2> QED
    BY <1>2, <1>3, <1>5, <2>1 DEF Once, ToDo, Waits, UnderWay
<1> QED
  BY <1>4, <1>5 DEF OnceInv

\* A server's end takes requests with it.
LEMMA ServerDiesKeeps ==
  ASSUME OnceInv, NEW n, ServerDies(n)
  PROVE  OnceInv'
<1>1. wire' \subseteq wire /\ calls' = calls /\ effects' = effects
  BY DEF ServerDies
<1> QED
  BY <1>1 DEF OnceInv, TransportType, Once, ToDo, Waits, UnderWay

LEMMA OnceStep == OnceInv /\ [SdkNext]_sdk => OnceInv'
<1> SUFFICES ASSUME OnceInv, [SdkNext]_sdk PROVE OnceInv'
  OBVIOUS
<1>1. ASSUME UNCHANGED transport PROVE OnceInv'
  BY <1>1 DEF transport, OnceInv, TransportType, Once, ToDo, Waits, UnderWay
<1>2. CASE UNCHANGED sdk
  BY <1>1, <1>2 DEF sdk
<1>3. ASSUME NEW c \in Calls, Ask(c) \/ Send(c) \/ Receive(c) \/ Lose(c) PROVE OnceInv'
  BY <1>3, AskKeeps, SendKeeps, ReceiveOrLoseKeeps
<1>4. ASSUME NEW w \in wire, Serve(w) PROVE OnceInv'
  BY <1>4, ServeKeeps
<1>5. ASSUME NEW n \in DOMAIN starts, Launches(n) \/ Forces(n) \/ ServerDies(n) PROVE OnceInv'
  BY <1>1, <1>5, DroppedKeeps, ServerDiesKeeps DEF Launches, Forces
<1>6. CASE Ends
  BY <1>1, <1>6 DEF Ends
<1> QED
  BY <1>2, <1>3, <1>4, <1>5, <1>6 DEF SdkNext

\* A call that must not be repeated takes effect at most once: it is sent again
\* only after an answer that says nothing was done.
THEOREM CallsTakeEffectOnce == SdkSpec => []AtMostOnce
<1>1. OnceInv => AtMostOnce
  <2> SUFFICES ASSUME OnceInv, NEW c \in Calls, Method[c] \notin IDEMPOTENT
               PROVE  effects[c] <= 1
    BY DEF AtMostOnce
  <2>1. effects[c] \in {0, 1}
    BY DEF OnceInv, Once
  <2> QED
    BY <2>1
<1> QED
  BY <1>1, OnceInitially, OnceStep, PTL DEF SdkSpec

-----------------------------------------------------------------------------
(* The bot.  A job that has a pull request in hand may be long overtaken: what *)
(* is kept is that whatever it is about to queue was asked for by a delivery   *)
(* that is still known, and that it looks once more before it asks.            *)

JobShape(j) ==
    j = [pc |-> j.pc, todo |-> j.todo, by |-> j.by, open |-> j.open, fresh |-> j.fresh,
         cfg |-> j.cfg, acts |-> j.acts, missed |-> j.missed]

\* What is left of what Decide can ask for, and those of it that queue a merge.
ActLists == {<<>>, <<"disable">>, <<"update">>, <<"enable">>, <<"update", "enable">>}
Enables(acts) == acts \in {<<"enable">>, <<"update", "enable">>}

\* A job begun by a delivery that says somebody put the merge label on has one
\* pull request to look at, as that delivery has it.
Delivered(j) ==
    \E d \in deliveries : d.snap # None /\ d.by = j.by /\ j.todo = <<d.snap>>

\* A job that is to queue something was asked to by a writer.
EarnedJob(j) ==
    /\ JobShape(j) /\ j.acts \in ActLists
    /\ j.pc \in {"act", "enable", "merge"} => j.acts # <<>>
    /\ j.pc \in {"enable", "merge"} => Enables(j.acts)
    /\ j.pc # "idle" /\ j.by.label = Merge => ~j.open /\ j.pc # "list" /\ Delivered(j)
    /\ Enables(j.acts) => j.pc # "idle" /\ j.by.label = Merge /\ j.by.user \in Writers /\ checks

GitHubInv ==
    /\ pr \in [PRs -> PullRequest] /\ tip \in Nat
    /\ job = [w \in Workers |-> job[w]]
    /\ \A d \in deliveries : d.by.label = Merge => d.snap # None /\ d.snap \in PullRequest

JobsEarned == \A w \in Workers : EarnedJob(job[w])
EarnedInv == GitHubInv /\ JobsEarned

\* A delivery that came too late is not acted upon while the label is off.
TooLate(j) ==
    /\ j.pc \in {"load", "judge", "act"}
    /\ \E s \in PullRequest : j.todo = <<s>> /\ Merge \notin pr[s.n].labels
MissedInv == \A w \in Workers : job[w].missed /\ job[w].by.label = Merge => TooLate(job[w])

BotInv == EarnedInv /\ MissedInv

LEMMA NoJobFields ==
  /\ JobShape(NoJob) /\ NoJob.pc = "idle" /\ NoJob.acts = <<>> /\ NoJob.missed = FALSE
  /\ NoJob.todo = <<>> /\ NoJob.open = FALSE
BY DEF NoJob, JobShape

\* A pull request of which something changes.
LEMMA Edited ==
  ASSUME NEW s \in PullRequest
  PROVE  /\ \A labels \in SUBSET Labels : [s EXCEPT !.labels = labels] \in PullRequest
         /\ \A by \in [Labels -> Users \cup {None}] : [s EXCEPT !.by = by] \in PullRequest
         /\ \A head \in Nat : [s EXCEPT !.head = head] \in PullRequest
         /\ \A has \in Nat : [s EXCEPT !.has = has] \in PullRequest
         /\ \A b \in BOOLEAN : /\ [s EXCEPT !.auto = b] \in PullRequest
                               /\ [s EXCEPT !.green = b] \in PullRequest
                               /\ [s EXCEPT !.merged = b] \in PullRequest
<1>1. \A labels \in SUBSET Labels : [s EXCEPT !.labels = labels] \in PullRequest
  BY Zenon DEF PullRequest
<1>2. \A by \in [Labels -> Users \cup {None}] : [s EXCEPT !.by = by] \in PullRequest
  BY SMT DEF PullRequest
<1>3. \A head \in Nat : [s EXCEPT !.head = head] \in PullRequest
  BY SMT DEF PullRequest
<1>4. \A has \in Nat : [s EXCEPT !.has = has] \in PullRequest
  BY SMT DEF PullRequest
<1>5. \A b \in BOOLEAN : [s EXCEPT !.auto = b] \in PullRequest
  BY Zenon DEF PullRequest
<1>6. \A b \in BOOLEAN : [s EXCEPT !.green = b] \in PullRequest
  BY Zenon DEF PullRequest
<1>7. \A b \in BOOLEAN : [s EXCEPT !.merged = b] \in PullRequest
  BY Zenon DEF PullRequest
<1> QED
  BY <1>1, <1>2, <1>3, <1>4, <1>5, <1>6, <1>7, Zenon

LEMMA Typed ==
  ASSUME NEW s \in PullRequest
  PROVE  /\ s.labels \in SUBSET Labels /\ s.by \in [Labels -> Users \cup {None}]
         /\ s.head \in Nat /\ s.has \in Nat
         /\ s.auto \in BOOLEAN /\ s.green \in BOOLEAN /\ s.merged \in BOOLEAN
BY Zenon DEF PullRequest

LEMMA ActsLeft ==
  ASSUME NEW acts \in ActLists, acts # <<>>
  PROVE  /\ Tail(acts) \in ActLists
         /\ Enables(Tail(acts)) => Enables(acts)
         /\ Head(acts) = "enable" => acts = <<"enable">>
<1>1. ASSUME NEW a, acts = <<a>>
      PROVE  Head(acts) = a /\ Tail(acts) = <<>>
  BY <1>1
<1>2. ASSUME acts = <<"update", "enable">>
      PROVE  Head(acts) = "update" /\ Tail(acts) = <<"enable">>
  BY <1>2
<1>3. ~Enables(<<>>)
  BY DEF Enables
<1>4. acts \in {<<"disable">>, <<"update">>, <<"enable">>} \/ acts = <<"update", "enable">>
  BY Zenon DEF ActLists
<1>5. "disable" # "enable" /\ "update" # "enable"
  OBVIOUS
<1>6. CASE acts = <<"disable">>
  BY <1>1, <1>3, <1>5, <1>6, Zenon DEF ActLists
<1>7. CASE acts = <<"update">>
  BY <1>1, <1>3, <1>5, <1>7, Zenon DEF ActLists
<1>8. CASE acts = <<"enable">>
  BY <1>1, <1>3, <1>8, Zenon DEF ActLists
<1>9. CASE acts = <<"update", "enable">>
  BY <1>2, <1>5, <1>9, Zenon DEF ActLists, Enables
<1> QED
  BY <1>4, <1>6, <1>7, <1>8, <1>9, Zenon

LEMMA OneAndOne ==
  ASSUME NEW a, NEW b
  PROVE  <<a>> \o <<b>> = <<a, b>>
<1> DEFINE S == {a, b}
           s == Append(<<a>>, b)
           t == <<a, b>>
<1>1. <<a>> \in Seq(S) /\ b \in S /\ s \in Seq(S) /\ t \in Seq(S)
  OBVIOUS
<1>2. s = <<a>> \o <<b>>
  BY <1>1, AppendIsConcat
<1>3. Len(s) = 2 /\ s[1] = a /\ s[2] = b
  OBVIOUS
<1>4. Len(t) = 2 /\ t[1] = a /\ t[2] = b
  OBVIOUS
<1> HIDE DEF S, s, t
<1>5. \A i \in 1 .. Len(s) : s[i] = t[i]
  BY <1>3, <1>4
<1>6. s = t
  BY <1>1, <1>3, <1>4, <1>5, SeqEqual
<1> QED
  BY <1>2, <1>6 DEF t

LEMMA DecideEarned ==
  ASSUME NEW s, NEW by, NEW c
  PROVE  /\ Decide(s, by, c) \in ActLists
         /\ Enables(Decide(s, by, c)) => by.label = Merge /\ by.user \in Writers /\ checks
<1> DEFINE update == Behind(s) /\ ((Update \in s.labels /\ Writes(s, by, Update)) \/ c.all)
           enable == WantsMerge(s, by) /\ Writes(s, by, Merge) /\ checks
<1>1. /\ <<>> \o <<>> = <<>> /\ <<"update">> \o <<>> = <<"update">>
      /\ <<>> \o <<"enable">> = <<"enable">>
      /\ <<"update">> \o <<"enable">> = <<"update", "enable">>
  <2>1. <<>> \o <<>> = <<>>
    OBVIOUS
  <2>2. <<"update">> \o <<>> = <<"update">>
    OBVIOUS
  <2>3. <<>> \o <<"enable">> = <<"enable">>
    OBVIOUS
  <2>4. <<"update">> \o <<"enable">> = <<"update", "enable">>
    BY OneAndOne
  <2> QED
    BY <2>1, <2>2, <2>3, <2>4
<1>2. enable => by.label = Merge /\ by.user \in Writers /\ checks
  BY DEF WantsMerge, Writes, AppliedBy
<1>3. Decide(s, by, c) = IF Ignore \in s.labels THEN IF s.auto THEN <<"disable">> ELSE <<>>
                         ELSE (IF update THEN <<"update">> ELSE <<>>)
                              \o (IF enable THEN <<"enable">> ELSE <<>>)
  BY Zenon DEF Decide
<1> HIDE DEF update, enable
<1>4. Decide(s, by, c) \in ActLists
  BY <1>1, <1>3, Zenon DEF ActLists
<1>5. ~enable => ~Enables(Decide(s, by, c))
  <2>1. <<"disable">> # <<"enable">> /\ <<>> # <<"enable">> /\ <<"update">> # <<"enable">>
    OBVIOUS
  <2>2. /\ <<"disable">> # <<"update", "enable">> /\ <<>> # <<"update", "enable">>
        /\ <<"update">> # <<"update", "enable">>
    OBVIOUS
  <2> QED
    BY <1>1, <1>3, <2>1, <2>2, Zenon DEF Enables
<1> QED
  BY <1>2, <1>4, <1>5, Zenon

\* On to the next pull request, or to the next thing to do for this one.
LEMMA NextOneEarned ==
  ASSUME NEW j, EarnedJob(j), j.pc # "idle"
  PROVE  EarnedJob(NextOne(j))
<1>1. EarnedJob(NoJob)
  BY DEF EarnedJob, NoJob, JobShape, ActLists, Enables
<1>2. ASSUME ~(Len(j.todo) <= 1) PROVE EarnedJob(NextOne(j))
  <2>1. ~(j.by.label = Merge)
    <3>1. ASSUME Delivered(j) PROVE FALSE
      <4>1. PICK d : j.todo = <<d>>
        BY <3>1 DEF Delivered
      <4> QED
        BY <1>2, <4>1
    <3> QED
      BY <3>1, Zenon DEF EarnedJob
  <2> DEFINE k == NextOne(j)
  <2>2. k = [j EXCEPT !.pc = "judge", !.acts = <<>>, !.todo = Tail(j.todo)]
    BY <1>2 DEF NextOne
  <2>3. k = [pc |-> "judge", todo |-> Tail(j.todo), by |-> j.by, open |-> j.open,
             fresh |-> j.fresh, cfg |-> j.cfg, acts |-> <<>>, missed |-> j.missed]
    BY <2>2 DEF EarnedJob, JobShape
  <2> HIDE DEF k
  <2>4. k.acts = <<>> /\ k.pc = "judge" /\ k.by = j.by /\ JobShape(k)
    BY <2>3 DEF JobShape
  <2>5. ~Enables(<<>>) /\ <<>> \in ActLists
    BY DEF Enables, ActLists
  <2> QED
    BY <2>1, <2>4, <2>5 DEF EarnedJob, k
<1> QED
  BY <1>1, <1>2, Zenon DEF NextOne

LEMMA ActingEarned ==
  ASSUME NEW j, EarnedJob(j), j.pc # "idle", j.pc # "list", NEW acts \in ActLists,
         Enables(acts) => j.by.label = Merge /\ j.by.user \in Writers /\ checks
  PROVE  EarnedJob(Acting(j, acts))
<1>1. ASSUME acts # <<>> PROVE EarnedJob(Acting(j, acts))
  <2> DEFINE k == Acting(j, acts)
  <2>1. k = [pc |-> "act", todo |-> j.todo, by |-> j.by, open |-> j.open,
             fresh |-> j.fresh, cfg |-> j.cfg, acts |-> acts, missed |-> j.missed]
    BY <1>1 DEF EarnedJob, JobShape, Acting
  <2> HIDE DEF k
  <2>2. /\ k.acts = acts /\ k.pc = "act" /\ k.by = j.by /\ k.todo = j.todo /\ k.open = j.open
        /\ JobShape(k)
    BY <2>1 DEF JobShape
  <2>3. Delivered(j) => Delivered(k)
    BY <2>2 DEF Delivered
  <2> QED
    BY <1>1, <2>2, <2>3 DEF EarnedJob, k
<1> QED
  BY <1>1, NextOneEarned, Zenon DEF Acting

LEMMA ActedEarned ==
  ASSUME NEW j, EarnedJob(j), j.pc \in {"act", "enable", "merge"}
  PROVE  EarnedJob(Acted(j))
<1>1. j.acts \in ActLists /\ j.acts # <<>> /\ j.pc # "idle" /\ j.pc # "list"
  BY DEF EarnedJob
<1>2. Enables(j.acts) => j.by.label = Merge /\ j.by.user \in Writers /\ checks
  BY DEF EarnedJob
<1> QED
  BY <1>1, <1>2, ActsLeft, ActingEarned, Zenon DEF Acted

\* What GitHub and people do takes nothing from a job.
LEMMA EarnedStays ==
  ASSUME NEW j, EarnedJob(j), deliveries \subseteq deliveries', checks' = checks
  PROVE  EarnedJob(j)'
<1>1. Delivered(j) => Delivered(j)'
  BY DEF Delivered
<1> QED
  BY <1>1 DEF EarnedJob, JobShape, NoJob, ActLists, Enables

LEMMA JobStep ==
  ASSUME EarnedInv, GitHubInv', NEW w \in Workers, NEW j, Do(w, j), EarnedJob(j),
         deliveries \subseteq deliveries', checks' = checks
  PROVE  EarnedInv'
<1>1. ASSUME NEW v \in Workers PROVE EarnedJob(job[v])'
  <2>1. PICK k : k = job'[v]
    OBVIOUS
  <2>2. EarnedJob(k)
    BY <2>1 DEF EarnedInv, GitHubInv, JobsEarned, Do
  <2> QED
    BY <2>1, <2>2, EarnedStays, Zenon
<1> QED
  BY <1>1, Zenon DEF EarnedInv, JobsEarned

LEMMA EarnedInitially == Init => BotInv
<1> SUFFICES ASSUME Init PROVE BotInv
  OBVIOUS
<1>1. EarnedJob(NoJob) /\ ~NoJob.missed
  BY DEF EarnedJob, NoJob, JobShape, ActLists, Enables
<1>2. pr \in [PRs -> PullRequest]
  <2>1. ASSUME NEW n \in PRs, NEW labels \in {{}, {Update}}, NEW u \in Users
        PROVE  /\ Opened(n, labels, u) \in PullRequest
               /\ [Opened(n, labels, u) EXCEPT !.merged = TRUE] \in PullRequest
    BY <2>1 DEF Opened, PullRequest, Labels
  <2>2. PICK u \in Users, open \in SUBSET PRs :
          \E labels \in [open -> {{}, {Update}}] :
            pr = [n \in PRs |-> IF n \in open THEN Opened(n, labels[n], u)
                                ELSE [Opened(n, {}, u) EXCEPT !.merged = TRUE]]
    BY DEF Init
  <2>3. PICK labels \in [open -> {{}, {Update}}] :
          pr = [n \in PRs |-> IF n \in open THEN Opened(n, labels[n], u)
                              ELSE [Opened(n, {}, u) EXCEPT !.merged = TRUE]]
    BY <2>2
  <2>4. ASSUME NEW n \in PRs PROVE pr[n] \in PullRequest
    BY <2>1, <2>3
  <2> QED
    BY <2>3, <2>4
<1>3. job = [w \in Workers |-> NoJob] /\ tip \in Nat /\ deliveries = {}
  BY BotAssumption DEF Init
<1> QED
  BY <1>1, <1>2, <1>3 DEF BotInv, EarnedInv, GitHubInv, JobsEarned, MissedInv

\* People and GitHub.
LEMMA ChangesEarned ==
  ASSUME EarnedInv, NEW n \in PRs, NEW by, NEW after \in PullRequest, Changes(n, after, by)
  PROVE  /\ pr' \in [PRs -> PullRequest] /\ tip' \in Nat
         /\ deliveries \subseteq deliveries' /\ checks' = checks
         /\ \A d \in deliveries' : d.by.label = Merge => d.snap # None /\ d.snap \in PullRequest
<1>1. after # None
  BY BotAssumption
<1> QED
  BY <1>1 DEF Changes, Deliver, EarnedInv, GitHubInv

\* Where each job stays but for what it missed.
LEMMA JobsStay ==
  ASSUME EarnedInv, pr' \in [PRs -> PullRequest], tip' \in Nat,
         deliveries \subseteq deliveries', checks' = checks,
         \A d \in deliveries' : d.by.label = Merge => d.snap # None /\ d.snap \in PullRequest,
         job' = job \/ job' = [w \in Workers |-> [job[w] EXCEPT !.missed = FALSE]]
  PROVE  EarnedInv'
<1>1. job' = [w \in Workers |-> job'[w]]
  BY DEF EarnedInv, GitHubInv
<1>2. ASSUME NEW w \in Workers PROVE EarnedJob(job[w])'
  <2>1. PICK k : k = job'[w]
    OBVIOUS
  <2>2. EarnedJob(job[w])
    BY DEF EarnedInv, JobsEarned
  <2>3. k = job[w] \/ k = [job[w] EXCEPT !.missed = FALSE]
    BY <2>1
  <2>4. PICK j : j = job[w]
    OBVIOUS
  <2>5. ASSUME k = [j EXCEPT !.missed = FALSE] PROVE EarnedJob(k)
    <3>1. EarnedJob(j)
      BY <2>2, <2>4
    <3>2. j = [pc |-> j.pc, todo |-> j.todo, by |-> j.by, open |-> j.open, fresh |-> j.fresh,
               cfg |-> j.cfg, acts |-> j.acts, missed |-> j.missed]
      BY <3>1 DEF EarnedJob, JobShape
    <3>3. k = [pc |-> j.pc, todo |-> j.todo, by |-> j.by, open |-> j.open, fresh |-> j.fresh,
               cfg |-> j.cfg, acts |-> j.acts, missed |-> FALSE]
      BY <2>5, <3>2
    <3>4. /\ k.pc = j.pc /\ k.acts = j.acts /\ k.by = j.by /\ k.todo = j.todo
          /\ k.open = j.open /\ JobShape(k)
      BY <3>3 DEF JobShape
    <3>5. Delivered(j) => Delivered(k)
      BY <3>4 DEF Delivered
    <3> QED
      BY <3>1, <3>4, <3>5 DEF EarnedJob
  <2>6. EarnedJob(k)
    BY <2>2, <2>3, <2>4, <2>5, Zenon
  <2> QED
    BY <2>1, <2>6, EarnedStays, Zenon
<1> QED
  BY <1>1, <1>2 DEF EarnedInv, GitHubInv, JobsEarned

LEMMA PeopleEarned ==
  ASSUME EarnedInv, People
  PROVE  EarnedInv'
<1>0. pr \in [PRs -> PullRequest] /\ tip \in Nat
  BY DEF EarnedInv, GitHubInv
<1>1. ASSUME NEW n \in PRs, NEW l \in Labels, Unlabelled(n, l) PROVE EarnedInv'
  <2> DEFINE after == [pr[n] EXCEPT !.labels = @ \ {l}]
  <2>1. after \in PullRequest
    <3>1. pr[n] \in PullRequest /\ pr[n].labels \ {l} \in SUBSET Labels
      BY <1>0, Typed
    <3> QED
      BY <3>1, Edited, Zenon
  <2>2. Changes(n, after, NoOne) /\ job' = job
    BY <1>1, Zenon DEF Unlabelled
  <2> HIDE DEF after
  <2> QED
    BY <2>1, <2>2, ChangesEarned, JobsStay
<1>2. ASSUME NEW n \in PRs, NEW l \in Labels, NEW u \in Users, Labelled(n, l, u)
      PROVE  EarnedInv'
  <2> DEFINE labels == pr[n].labels \cup {l}
             by == [pr[n].by EXCEPT ![l] = IF l = Ignore THEN None ELSE u]
             after == [pr[n] EXCEPT !.labels = @ \cup {l},
                                    !.by[l] = IF l = Ignore THEN None ELSE u]
  <2>1. pr[n] \in PullRequest /\ labels \in SUBSET Labels
    BY <1>0, Typed
  <2>2. by \in [Labels -> Users \cup {None}]
    BY <2>1, Typed
  <2>3. after = [[pr[n] EXCEPT !.labels = labels] EXCEPT !.by = by]
    BY <2>1 DEF PullRequest
  <2>4. Changes(n, after, [label |-> l, user |-> u])
    BY <1>2, Zenon DEF Labelled
  <2>5. job' = job \/ job' = [w \in Workers |-> [job[w] EXCEPT !.missed = FALSE]]
    <3>1. CASE l = Merge
      BY <1>2, <3>1 DEF Labelled
    <3>2. CASE l # Merge
      <4>1. job' = [w \in Workers |-> job[w]]
        BY <1>2, <3>2, Zenon DEF Labelled
      <4> QED
        BY <4>1, Zenon DEF EarnedInv, GitHubInv
    <3> QED
      BY <3>1, <3>2
  <2> HIDE DEF after, labels, by
  <2>6. after \in PullRequest
    BY <2>1, <2>2, <2>3, Edited, Zenon
  <2> QED
    BY <2>4, <2>5, <2>6, ChangesEarned, JobsStay
<1>3. ASSUME NEW n \in PRs, NEW u \in Users, PushHead(n, u) PROVE EarnedInv'
  <2> DEFINE auto == pr[n].auto /\ u \in Writers
             after == [pr[n] EXCEPT !.head = @ + 1, !.green = FALSE, !.auto = @ /\ u \in Writers]
  <2>1. pr[n] \in PullRequest /\ pr[n].head + 1 \in Nat /\ auto \in BOOLEAN
    BY <1>0, Typed
  <2>2. after = [[[pr[n] EXCEPT !.head = pr[n].head + 1] EXCEPT !.green = FALSE]
                    EXCEPT !.auto = auto]
    BY Zenon
  <2>3. Changes(n, after, NoOne) /\ job' = job
    BY <1>3, Zenon DEF PushHead
  <2> HIDE DEF after, auto
  <2>4. after \in PullRequest
    BY <2>1, <2>2, Edited, Zenon
  <2> QED
    BY <2>3, <2>4, ChangesEarned, JobsStay
<1>4. ASSUME NEW n \in PRs, ChecksPass(n) \/ AutoMerge(n) PROVE EarnedInv'
  <2>1. pr[n] \in PullRequest
    BY <1>0
  <2>2. /\ [pr[n] EXCEPT !.green = TRUE] \in PullRequest
        /\ [pr[n] EXCEPT !.merged = TRUE] \in PullRequest
    BY <2>1, Edited, Zenon
  <2>3. pr' = [pr EXCEPT ![n] = [pr[n] EXCEPT !.green = TRUE]]
        \/ pr' = [pr EXCEPT ![n] = [pr[n] EXCEPT !.merged = TRUE]]
    BY <1>4, Zenon DEF ChecksPass, AutoMerge
  <2>4. PICK after \in PullRequest : pr' = [pr EXCEPT ![n] = after]
    BY <2>2, <2>3, Zenon
  <2>5. pr' \in [PRs -> PullRequest]
    BY <1>0, <2>4
  <2>6. tip' = tip /\ deliveries' = deliveries /\ checks' = checks /\ job' = job
    BY <1>4 DEF ChecksPass, AutoMerge
  <2>7. \A d \in deliveries' : d.by.label = Merge => d.snap # None /\ d.snap \in PullRequest
    BY <2>6 DEF EarnedInv, GitHubInv
  <2> QED
    BY <1>0, <2>5, <2>6, <2>7, JobsStay
<1>5. ASSUME NEW c \in Configs, PushBase(c) PROVE EarnedInv'
  <2>1. NoOne.label # Merge
    BY BotAssumption DEF NoOne, Labels
  <2>2. /\ tip' = tip + 1 /\ pr' = pr /\ checks' = checks /\ job' = job
        /\ deliveries' = deliveries \cup {[snap |-> None, by |-> NoOne, changed |-> c # config]}
    BY <1>5 DEF PushBase
  <2>3. \A d \in deliveries' : d.by.label = Merge => d.snap # None /\ d.snap \in PullRequest
    BY <2>1, <2>2 DEF EarnedInv, GitHubInv
  <2> QED
    BY <1>0, <2>2, <2>3, JobsStay
<1> QED
  BY <1>1, <1>2, <1>3, <1>4, <1>5, Zenon DEF People

\* The broker.
LEMMA SameDeliveries ==
  ASSUME EarnedInv, pr' \in [PRs -> PullRequest], tip' = tip, deliveries' = deliveries,
         NEW w \in Workers, NEW j, Do(w, j)
  PROVE  GitHubInv'
BY DEF EarnedInv, GitHubInv, Do

LEMMA StartEarned ==
  ASSUME EarnedInv, NEW w \in Workers, Begin(w) \/ Sweep
  PROVE  EarnedInv'
<1>0. /\ pr \in [PRs -> PullRequest] /\ deliveries' = deliveries /\ checks' = checks
      /\ pr' = pr /\ tip' = tip
  <2>1. pr \in [PRs -> PullRequest]
    BY DEF EarnedInv, GitHubInv
  <2>2. UNCHANGED github
    BY Zenon DEF Begin, Sweep
  <2> QED
    BY <2>1, <2>2 DEF github
<1>1. <<>> \in ActLists /\ ~Enables(<<>>)
  BY DEF ActLists, Enables
<1>2. CASE Sweep
  <2> DEFINE j == [NoJob EXCEPT !.pc = "load", !.by = NoOne, !.fresh = TRUE, !.open = TRUE]
  <2>2. Do(Sweeper, j) /\ Sweeper \in Workers
    BY <1>2, Zenon DEF Sweep, Workers
  <2>3. j.acts = <<>> /\ j.pc = "load" /\ j.by = NoOne /\ JobShape(j)
    <3>1. PICK a : a = [NoJob EXCEPT !.pc = "load"]
      OBVIOUS
    <3>2. PICK b : b = [a EXCEPT !.by = NoOne]
      OBVIOUS
    <3>3. PICK c : c = [b EXCEPT !.fresh = TRUE]
      OBVIOUS
    <3>4. j = [c EXCEPT !.open = TRUE]
      BY <3>1, <3>2, <3>3, Zenon
    <3> HIDE DEF j
    <3>5. JobShape(a) /\ a.pc = "load" /\ a.acts = <<>>
      BY <3>1, NoJobFields DEF JobShape
    <3>6. JobShape(b) /\ b.pc = "load" /\ b.acts = <<>> /\ b.by = NoOne
      BY <3>2, <3>5 DEF JobShape
    <3>7. JobShape(c) /\ c.pc = "load" /\ c.acts = <<>> /\ c.by = NoOne
      BY <3>3, <3>6 DEF JobShape
    <3> QED
      BY <3>4, <3>7 DEF JobShape
  <2> HIDE DEF j
  <2>4. EarnedJob(j)
    BY <1>1, <2>3, BotAssumption DEF EarnedJob, Labels, NoOne
  <2>5. PICK k : k = j
    OBVIOUS
  <2> QED
    BY <1>0, <2>2, <2>4, <2>5, SameDeliveries, JobStep
<1>3. CASE Begin(w)
  <2>1. PICK d \in deliveries :
          Do(w, [NoJob EXCEPT !.pc = "load", !.by = d.by, !.fresh = d.changed,
                              !.open = d.snap = None,
                              !.todo = IF d.snap = None THEN <<>> ELSE <<d.snap>>,
                              !.missed = d.snap # None /\ Merge \notin pr[d.snap.n].labels])
    BY <1>3, Zenon DEF Begin
  <2> DEFINE missed == d.snap # None /\ Merge \notin pr[d.snap.n].labels
             todo == IF d.snap = None THEN <<>> ELSE <<d.snap>>
             open == d.snap = None
             j == [NoJob EXCEPT !.pc = "load", !.by = d.by, !.fresh = d.changed, !.open = open,
                                !.todo = todo, !.missed = missed]
  <2>2. Do(w, j)
    BY <2>1, Zenon
  <2>3. /\ j.acts = <<>> /\ j.pc = "load" /\ j.by = d.by /\ j.todo = todo /\ JobShape(j)
        /\ j.open = open
    <3> HIDE DEF missed, todo, open
    <3>1. PICK a : a = [NoJob EXCEPT !.pc = "load"]
      OBVIOUS
    <3>2. PICK b : b = [a EXCEPT !.by = d.by]
      OBVIOUS
    <3>3. PICK c : c = [b EXCEPT !.fresh = d.changed]
      OBVIOUS
    <3>4. PICK e : e = [c EXCEPT !.open = open]
      OBVIOUS
    <3>5. PICK f : f = [e EXCEPT !.todo = todo]
      OBVIOUS
    <3>6. j = [f EXCEPT !.missed = missed]
      BY <3>1, <3>2, <3>3, <3>4, <3>5, Zenon
    <3> HIDE DEF j
    <3>7. JobShape(a) /\ a.pc = "load" /\ a.acts = <<>>
      BY <3>1, NoJobFields DEF JobShape
    <3>8. JobShape(b) /\ b.pc = "load" /\ b.acts = <<>> /\ b.by = d.by
      BY <3>2, <3>7 DEF JobShape
    <3>9. JobShape(c) /\ c.pc = "load" /\ c.acts = <<>> /\ c.by = d.by
      BY <3>3, <3>8 DEF JobShape
    <3>10. JobShape(e) /\ e.pc = "load" /\ e.acts = <<>> /\ e.by = d.by /\ e.open = open
      BY <3>4, <3>9 DEF JobShape
    <3>11. JobShape(f) /\ f.pc = "load" /\ f.acts = <<>> /\ f.by = d.by /\ f.open = open
           /\ f.todo = todo
      BY <3>5, <3>10 DEF JobShape
    <3> QED
      BY <3>6, <3>11 DEF JobShape
  <2>4. j.open = (d.snap = None)
    BY <2>3
  <2> HIDE DEF j
  <2>5. d.by.label = Merge => d.snap # None
    BY DEF EarnedInv, GitHubInv
  <2>6. d.by.label = Merge => ~j.open /\ Delivered(j)
    BY <2>3, <2>4, <2>5 DEF Delivered
  <2>7. EarnedJob(j)
    BY <1>1, <2>3, <2>6 DEF EarnedJob
  <2>8. PICK k : k = j
    OBVIOUS
  <2> QED
    BY <1>0, <2>2, <2>7, <2>8, SameDeliveries, JobStep
<1> QED
  BY <1>2, <1>3

LEMMA LoadedEarned ==
  ASSUME NEW j, EarnedJob(j), j.pc = "load", NEW c
  PROVE  EarnedJob(Loaded(j, c))
<1>1. EarnedJob(NoJob)
  BY NoJobFields DEF EarnedJob, ActLists, Enables
<1>2. ASSUME c.on PROVE EarnedJob(Loaded(j, c))
  <2> DEFINE pc == IF j.open THEN "list" ELSE "judge"
             k == [j EXCEPT !.cfg = c, !.fresh = FALSE, !.open = FALSE, !.pc = pc]
  <2>1. /\ k.pc = pc /\ k.acts = j.acts /\ k.by = j.by /\ k.todo = j.todo
        /\ k.open = FALSE /\ JobShape(k)
    <3> HIDE DEF pc
    <3>1. PICK a : a = [j EXCEPT !.cfg = c]
      OBVIOUS
    <3>2. PICK b : b = [a EXCEPT !.fresh = FALSE]
      OBVIOUS
    <3>3. PICK e : e = [b EXCEPT !.open = FALSE]
      OBVIOUS
    <3>4. k = [e EXCEPT !.pc = pc]
      BY <3>1, <3>2, <3>3, Zenon
    <3> HIDE DEF k
    <3>5. JobShape(a) /\ a.acts = j.acts /\ a.by = j.by /\ a.todo = j.todo
      BY <3>1 DEF JobShape, EarnedJob
    <3>6. JobShape(b) /\ b.acts = j.acts /\ b.by = j.by /\ b.todo = j.todo
      BY <3>2, <3>5 DEF JobShape
    <3>7. JobShape(e) /\ e.acts = j.acts /\ e.by = j.by /\ e.todo = j.todo /\ e.open = FALSE
      BY <3>3, <3>6 DEF JobShape
    <3> QED
      BY <3>4, <3>7 DEF JobShape
  <2>2. Loaded(j, c) = k
    BY <1>2, Zenon DEF Loaded
  <2> HIDE DEF k
  <2>3. j.by.label = Merge => k.pc = "judge" /\ Delivered(k)
    BY <2>1 DEF EarnedJob, Delivered
  <2>4. k.pc \in {"list", "judge"}
    BY <2>1
  <2>5. EarnedJob(k)
    BY <2>1, <2>3, <2>4 DEF EarnedJob
  <2> QED
    BY <2>2, <2>5
<1> QED
  BY <1>1, <1>2, Zenon DEF Loaded

\* Steps that only read.
LEMMA ReadingEarned ==
  ASSUME EarnedInv, NEW w \in Workers,
         LoadCached(w) \/ Fetch(w) \/ List(w) \/ Judge(w) \/ ReRead(w)
  PROVE  EarnedInv'
<1>1. UNCHANGED <<pr, tip, deliveries, checks>>
  BY DEF LoadCached, Fetch, List, Judge, ReRead, github
<1>2. pr' \in [PRs -> PullRequest] /\ EarnedJob(job[w])
  BY <1>1 DEF EarnedInv, GitHubInv, JobsEarned
<1>3. PICK j : j = job[w]
  OBVIOUS
<1>4. SUFFICES ASSUME TRUE PROVE \E k : Do(w, k) /\ EarnedJob(k)
  <2> SUFFICES ASSUME NEW k, Do(w, k), EarnedJob(k) PROVE EarnedInv'
    BY <1>4, Zenon
  <2> QED
    BY <1>1, <1>2, SameDeliveries, JobStep
<1>5. EarnedJob(j)
  BY <1>2, <1>3
<1>6. CASE LoadCached(w) \/ Fetch(w)
  <2>1. j.pc = "load" /\ \E c : Do(w, Loaded(j, c))
    BY <1>3, <1>6, Zenon DEF LoadCached, Fetch
  <2> QED
    BY <1>5, <2>1, LoadedEarned, Zenon
<1>7. CASE List(w)
  <2> DEFINE k == [j EXCEPT !.pc = "judge",
                            !.todo = [i \in DOMAIN Listed(j.cfg) |-> pr[Listed(j.cfg)[i]]]]
  <2>1. j.pc = "list" /\ (Do(w, NoJob) \/ Do(w, k))
    BY <1>3, <1>7, Zenon DEF List
  <2>2. EarnedJob(NoJob)
    BY NoJobFields DEF EarnedJob, ActLists, Enables
  <2>3. EarnedJob(k)
    <3>1. PICK todo : todo = [i \in DOMAIN Listed(j.cfg) |-> pr[Listed(j.cfg)[i]]]
      OBVIOUS
    <3>2. k = [j EXCEPT !.pc = "judge", !.todo = todo]
      BY <3>1, Zenon
    <3> HIDE DEF k
    <3>3. k.pc = "judge" /\ k.acts = j.acts /\ k.by = j.by /\ JobShape(k)
      BY <1>5, <3>2 DEF EarnedJob, JobShape
    <3> QED
      BY <1>5, <2>1, <3>3 DEF EarnedJob
  <2> QED
    BY <2>1, <2>2, <2>3, Zenon
<1>8. CASE Judge(w)
  <2>1. PICK acts : acts = Decide(Head(j.todo), j.by, j.cfg)
    OBVIOUS
  <2>2. j.pc = "judge" /\ Do(w, Acting(j, acts))
    BY <1>3, <1>8, <2>1, Zenon DEF Judge
  <2>3. PICK s, by, c : s = Head(j.todo) /\ by = j.by /\ c = j.cfg
    BY Zenon
  <2>4. /\ acts \in ActLists
        /\ Enables(acts) => j.by.label = Merge /\ j.by.user \in Writers /\ checks
    BY <2>1, <2>3, DecideEarned
  <2>5. j.pc # "idle" /\ j.pc # "list"
    BY <2>2
  <2>6. EarnedJob(Acting(j, acts))
    BY <1>5, <2>4, <2>5, ActingEarned, Zenon
  <2> QED
    BY <2>2, <2>6, Zenon
<1>9. CASE ReRead(w)
  <2> DEFINE k == [j EXCEPT !.pc = "enable"]
  <2>1. j.pc = "act" /\ Head(j.acts) = "enable" /\ (Do(w, k) \/ Do(w, Acted(j)))
    BY <1>3, <1>9, Zenon DEF ReRead, Act
  <2>2. EarnedJob(Acted(j))
    BY <1>5, <2>1, ActedEarned
  <2>3. j.acts # <<>> /\ j.acts \in ActLists
    BY <1>5, <2>1 DEF EarnedJob
  <2>4. Enables(j.acts) /\ j.acts # <<>>
    BY <2>1, <2>3, ActsLeft, Zenon DEF Enables
  <2>5. /\ k.pc = "enable" /\ k.acts = j.acts /\ k.by = j.by /\ JobShape(k)
        /\ k.todo = j.todo /\ k.open = j.open
    BY <1>5 DEF EarnedJob, JobShape
  <2> HIDE DEF k
  <2>6. Delivered(j) => Delivered(k)
    BY <2>5 DEF Delivered
  <2>7. EarnedJob(k)
    BY <1>5, <2>1, <2>4, <2>5, <2>6 DEF EarnedJob
  <2> QED
    BY <2>1, <2>2, <2>7, Zenon
<1> QED
  BY <1>6, <1>7, <1>8, <1>9

\* Steps that ask GitHub for something.
LEMMA PullRequestSet ==
  ASSUME EarnedInv, NEW n, NEW after, n \in PRs => after \in PullRequest,
         pr' = [pr EXCEPT ![n] = after]
  PROVE  pr' \in [PRs -> PullRequest]
BY DEF EarnedInv, GitHubInv

LEMMA RequestTypes ==
  ASSUME EarnedInv, NEW w \in Workers,
         Disable(w) \/ UpdateBranch(w) \/ Enable(w) \/ MergeNow(w) \/ Break(w)
  PROVE  pr' \in [PRs -> PullRequest]
<1>1. pr \in [PRs -> PullRequest] /\ tip \in Nat
  BY DEF EarnedInv, GitHubInv
<1>2. PICK n : n = Seen(w).n
  OBVIOUS
<1>3. n \in PRs => pr[n] \in PullRequest /\ pr[n].head + 1 \in Nat
  BY <1>1, Typed
<1>4. CASE Break(w)
  BY <1>1, <1>4 DEF Break
<1>5. CASE Disable(w) \/ Enable(w) \/ MergeNow(w)
  <2>1. \/ pr' = pr
        \/ \E b \in BOOLEAN : \/ pr' = [pr EXCEPT ![n] = [pr[n] EXCEPT !.auto = b]]
                              \/ pr' = [pr EXCEPT ![n] = [pr[n] EXCEPT !.merged = b]]
    BY <1>2, <1>5, Zenon DEF Disable, Enable, MergeNow
  <2>2. \A b \in BOOLEAN : n \in PRs => /\ [pr[n] EXCEPT !.auto = b] \in PullRequest
                                        /\ [pr[n] EXCEPT !.merged = b] \in PullRequest
    BY <1>3, Edited, Zenon
  <2>3. pr' = pr \/ \E after : /\ n \in PRs => after \in PullRequest
                              /\ pr' = [pr EXCEPT ![n] = after]
    BY <2>1, <2>2, Zenon
  <2> QED
    BY <1>1, <2>3, PullRequestSet, Zenon
<1>6. CASE UpdateBranch(w)
  <2> DEFINE after == [pr[n] EXCEPT !.head = @ + 1, !.has = tip, !.green = FALSE]
  <2>1. pr' = pr \/ pr' = [pr EXCEPT ![n] = after]
    BY <1>2, <1>6, Zenon DEF UpdateBranch
  <2>2. after = [[[pr[n] EXCEPT !.head = pr[n].head + 1] EXCEPT !.has = tip] EXCEPT !.green = FALSE]
    BY Zenon
  <2> HIDE DEF after
  <2>3. n \in PRs => after \in PullRequest
    BY <1>1, <1>3, <2>2, Edited, Zenon
  <2>4. pr' = pr \/ \E k : /\ n \in PRs => k \in PullRequest
                          /\ pr' = [pr EXCEPT ![n] = k]
    BY <2>1, <2>3, Zenon
  <2> QED
    BY <1>1, <2>4, PullRequestSet, Zenon
<1> QED
  BY <1>4, <1>5, <1>6

LEMMA RequestsEarned ==
  ASSUME EarnedInv, NEW w \in Workers,
         Disable(w) \/ UpdateBranch(w) \/ Enable(w) \/ MergeNow(w) \/ Break(w)
  PROVE  EarnedInv'
<1>1. pr' \in [PRs -> PullRequest]
  BY RequestTypes
<1>2. PICK j : j = job[w]
  OBVIOUS
<1>3. EarnedJob(j)
  BY <1>2 DEF EarnedInv, JobsEarned
<1>4. EarnedJob(NoJob)
  BY NoJobFields DEF EarnedJob, ActLists, Enables
<1>5. NoOne.label # Merge
  BY BotAssumption DEF NoOne, Labels
<1>6. checks' = checks /\ tip' = tip
  BY DEF Disable, UpdateBranch, Enable, MergeNow, Break
<1>7. /\ deliveries \subseteq deliveries'
      /\ \A d \in deliveries' : d.by.label = Merge => d.snap # None /\ d.snap \in PullRequest
  <2>1. \/ deliveries' = deliveries
        \/ \E s : deliveries'
                    = deliveries \cup {[snap |-> s, by |-> NoOne, changed |-> FALSE]}
    BY Zenon DEF Disable, UpdateBranch, Enable, MergeNow, Break, Deliver
  <2>2. \A d \in deliveries : d.by.label = Merge => d.snap # None /\ d.snap \in PullRequest
    BY DEF EarnedInv, GitHubInv
  <2> QED
    BY <1>5, <2>1, <2>2
<1>8. \E k : Do(w, k) /\ EarnedJob(k)
  <2>1. ASSUME j.pc \in {"act", "enable", "merge"}
        PROVE  EarnedJob(Acted(j)) /\ EarnedJob(NextOne(j))
    BY <1>3, <2>1, ActedEarned, NextOneEarned
  <2>2. CASE Disable(w) \/ UpdateBranch(w)
    <3>1. j.pc = "act" /\ (Do(w, Acted(j)) \/ Do(w, NextOne(j)))
      BY <1>2, <2>2, Zenon DEF Disable, UpdateBranch, Act
    <3> QED
      BY <2>1, <3>1, Zenon
  <2>3. CASE MergeNow(w)
    <3>1. j.pc = "merge" /\ Do(w, Acted(j))
      BY <1>2, <2>3, Zenon DEF MergeNow
    <3> QED
      BY <2>1, <3>1, Zenon
  <2>4. CASE Enable(w)
    <3> DEFINE k == [j EXCEPT !.pc = "merge"]
    <3>1. j.pc = "enable" /\ (Do(w, Acted(j)) \/ Do(w, NextOne(j)) \/ Do(w, k))
      BY <1>2, <2>4, Zenon DEF Enable
    <3>2. /\ k.pc = "merge" /\ k.acts = j.acts /\ k.by = j.by /\ k.todo = j.todo
          /\ k.open = j.open /\ JobShape(k)
      BY <1>3 DEF EarnedJob, JobShape
    <3> HIDE DEF k
    <3>3. Delivered(j) => Delivered(k)
      BY <3>2 DEF Delivered
    <3>4. EarnedJob(k)
      BY <1>3, <3>1, <3>2, <3>3 DEF EarnedJob
    <3> QED
      BY <2>1, <3>1, <3>4, Zenon
  <2>5. CASE Break(w)
    <3>1. j.pc # "idle" /\ (Do(w, NoJob) \/ Do(w, NextOne(j)))
      BY <1>2, <2>5, Zenon DEF Break
    <3>2. EarnedJob(NextOne(j))
      BY <1>3, <3>1, NextOneEarned
    <3> QED
      BY <1>4, <3>1, <3>2, Zenon
  <2> QED
    BY <2>2, <2>3, <2>4, <2>5
<1>9. PICK k : Do(w, k) /\ EarnedJob(k)
  BY <1>8, Zenon
<1>10. GitHubInv'
  BY <1>1, <1>6, <1>7, <1>9 DEF EarnedInv, GitHubInv, Do
<1> QED
  BY <1>6, <1>7, <1>9, <1>10, JobStep

LEMMA EarnedStep == EarnedInv /\ [Next]_vars => EarnedInv'
<1> SUFFICES ASSUME EarnedInv, [Next]_vars PROVE EarnedInv'
  OBVIOUS
<1>1. CASE UNCHANGED vars
  BY <1>1 DEF vars, EarnedInv, GitHubInv, JobsEarned, EarnedJob, JobShape, Delivered,
              ActLists, Enables
<1>2. CASE People
  BY <1>2, PeopleEarned
<1>3. CASE Sweep
  BY <1>3, StartEarned DEF Workers
<1>4. ASSUME NEW w \in Workers, Begin(w) \/ Handle(w) \/ Break(w) PROVE EarnedInv'
  BY <1>4, StartEarned, ReadingEarned, RequestsEarned, Zenon DEF Handle
<1> QED
  BY <1>1, <1>2, <1>3, <1>4, Zenon DEF Next

\* What an edit of a pull request leaves alone.
LEMMA LabelsEdited ==
  ASSUME NEW s \in PullRequest, NEW x, NEW k,
         k = [s EXCEPT !.labels = x]
  PROVE  k.labels = x /\ k.auto = s.auto /\ k.merged = s.merged
<1>1. s = [n |-> s.n, labels |-> s.labels, by |-> s.by, head |-> s.head, has |-> s.has,
           auto |-> s.auto, green |-> s.green, merged |-> s.merged]
  BY Zenon DEF PullRequest
<1> QED
  BY <1>1

LEMMA AutoEdited ==
  ASSUME NEW s \in PullRequest, NEW x, NEW k,
         k = [s EXCEPT !.auto = x]
  PROVE  k.labels = s.labels /\ k.auto = x /\ k.merged = s.merged
<1>1. s = [n |-> s.n, labels |-> s.labels, by |-> s.by, head |-> s.head, has |-> s.has,
           auto |-> s.auto, green |-> s.green, merged |-> s.merged]
  BY Zenon DEF PullRequest
<1> QED
  BY <1>1

LEMMA MergedEdited ==
  ASSUME NEW s \in PullRequest, NEW x, NEW k,
         k = [s EXCEPT !.merged = x]
  PROVE  k.labels = s.labels /\ k.auto = s.auto /\ k.merged = x
<1>1. s = [n |-> s.n, labels |-> s.labels, by |-> s.by, head |-> s.head, has |-> s.has,
           auto |-> s.auto, green |-> s.green, merged |-> s.merged]
  BY Zenon DEF PullRequest
<1> QED
  BY <1>1

LEMMA OtherEdited ==
  ASSUME NEW s \in PullRequest, NEW x, NEW k,
         k = [s EXCEPT !.by = x] \/ k = [s EXCEPT !.head = x] \/ k = [s EXCEPT !.has = x]
         \/ k = [s EXCEPT !.green = x]
  PROVE  k.labels = s.labels /\ k.auto = s.auto /\ k.merged = s.merged
<1>1. s = [n |-> s.n, labels |-> s.labels, by |-> s.by, head |-> s.head, has |-> s.has,
           auto |-> s.auto, green |-> s.green, merged |-> s.merged]
  BY Zenon DEF PullRequest
<1> QED
  BY <1>1

\* Nothing but the broker's requests queues or merges what was not queued, and
\* nothing but people puts a label on.
Quietly(n) ==
    /\ pr'[n].auto => pr[n].auto
    /\ pr'[n].merged => pr[n].merged \/ pr[n].auto
NotLabelled ==
    \A n \in PRs : Merge \in pr'[n].labels => Merge \in pr[n].labels

LEMMA QuietEdit ==
  ASSUME pr \in [PRs -> PullRequest], NEW m, NEW after, pr' = [pr EXCEPT ![m] = after],
         m \in PRs => /\ after.auto => pr[m].auto
                      /\ after.merged => pr[m].merged \/ pr[m].auto
  PROVE  \A n \in PRs : Quietly(n)
<1> SUFFICES ASSUME NEW n \in PRs PROVE Quietly(n)
  OBVIOUS
<1>1. CASE n = m
  <2>1. pr'[n] = after /\ pr[n] = pr[m] /\ m \in PRs
    BY <1>1
  <2> QED
    BY <2>1, Zenon DEF Quietly
<1>2. CASE n # m
  <2>1. pr'[n] = pr[n]
    BY <1>2
  <2> QED
    BY <2>1, Zenon DEF Quietly
<1> QED
  BY <1>1, <1>2

LEMMA LabelEdit ==
  ASSUME pr \in [PRs -> PullRequest], NEW m, NEW after, pr' = [pr EXCEPT ![m] = after],
         m \in PRs => (Merge \in after.labels => Merge \in pr[m].labels)
  PROVE  NotLabelled
BY DEF NotLabelled

\* What people do: queue nothing, and whoever puts the merge label on shows it to
\* every job.
Calm ==
    /\ \A n \in PRs : Quietly(n)
    /\ NotLabelled \/ \A w \in Workers : ~job'[w].missed

LEMMA PeopleCalm ==
  ASSUME EarnedInv, People
  PROVE  Calm
<1>0. pr \in [PRs -> PullRequest]
  BY DEF EarnedInv, GitHubInv
<1>1. ASSUME NEW m \in PRs, NEW l \in Labels, Unlabelled(m, l)
      PROVE  Calm
  <2>1. PICK after : after = [pr[m] EXCEPT !.labels = pr[m].labels \ {l}]
    OBVIOUS
  <2>2. pr' = [pr EXCEPT ![m] = after] /\ pr[m] \in PullRequest
    BY <1>0, <1>1, <2>1, Zenon DEF Unlabelled, Changes
  <2>3. /\ after.labels = pr[m].labels \ {l} /\ after.auto = pr[m].auto
        /\ after.merged = pr[m].merged
    BY <2>1, <2>2, LabelsEdited
  <2>4. Merge \in after.labels => Merge \in pr[m].labels
    BY <2>3
  <2>5. NotLabelled
    BY <1>0, <2>2, <2>4, LabelEdit
  <2> QED
    BY <1>0, <2>2, <2>3, <2>5, QuietEdit, Zenon DEF Calm
<1>2. ASSUME NEW m \in PRs, NEW l \in Labels, NEW u \in Users, Labelled(m, l, u)
      PROVE  Calm
  <2>1. pr[m] \in PullRequest
    BY <1>0
  <2>2. PICK labels : labels = pr[m].labels \cup {l}
    OBVIOUS
  <2>3. PICK by : by = [pr[m].by EXCEPT ![l] = IF l = Ignore THEN None ELSE u]
    OBVIOUS
  <2>4. PICK a : a = [pr[m] EXCEPT !.labels = labels]
    OBVIOUS
  <2>5. PICK after : after = [a EXCEPT !.by = by]
    OBVIOUS
  <2>6. labels \in SUBSET Labels
    BY <2>1, <2>2, Typed
  <2>7. a \in PullRequest
    BY <2>1, <2>4, <2>6, Edited, Zenon
  <2>8. a.by = pr[m].by
    BY <2>1, <2>4 DEF PullRequest
  <2>9. pr' = [pr EXCEPT ![m] = after]
    <3>1. pr' = [pr EXCEPT ![m] = [pr[m] EXCEPT !.labels = @ \cup {l},
                                                !.by[l] = IF l = Ignore THEN None ELSE u]]
      BY <1>2, Zenon DEF Labelled, Changes
    <3> QED
      BY <2>2, <2>3, <2>4, <2>5, <2>8, <3>1, Zenon
  <2>10. after.auto = a.auto /\ after.merged = a.merged /\ after.labels = a.labels
    BY <2>5, <2>7, OtherEdited
  <2>11. a.auto = pr[m].auto /\ a.merged = pr[m].merged /\ a.labels = labels
    BY <2>1, <2>4, LabelsEdited
  <2>12. CASE l = Merge
    <3>1. job' = [w \in Workers |-> [job[w] EXCEPT !.missed = FALSE]]
      BY <1>2, <2>12 DEF Labelled
    <3>2. \A w \in Workers : job'[w] = [job[w] EXCEPT !.missed = FALSE] /\ JobShape(job[w])
      BY <3>1 DEF EarnedInv, JobsEarned, EarnedJob
    <3>3. \A w \in Workers : ~job'[w].missed
      BY <3>2 DEF JobShape
    <3> QED
      BY <1>0, <2>9, <2>10, <2>11, <3>3, QuietEdit, Zenon DEF Calm
  <2>13. CASE l # Merge
    <3>1. Merge \in after.labels => Merge \in pr[m].labels
      BY <2>2, <2>10, <2>11, <2>13
    <3>2. NotLabelled
      BY <1>0, <2>9, <3>1, LabelEdit
    <3> QED
      BY <1>0, <2>9, <2>10, <2>11, <3>2, QuietEdit, Zenon DEF Calm
  <2> QED
    BY <2>12, <2>13
<1>3. ASSUME NEW m \in PRs, NEW u \in Users, PushHead(m, u)
      PROVE  Calm
  <2>1. pr[m] \in PullRequest /\ pr[m].head + 1 \in Nat
    BY <1>0, Typed
  <2>2. PICK a : a = [pr[m] EXCEPT !.head = pr[m].head + 1]
    OBVIOUS
  <2>3. PICK b : b = [a EXCEPT !.green = FALSE]
    OBVIOUS
  <2>4. PICK auto : auto = (pr[m].auto /\ u \in Writers)
    OBVIOUS
  <2>5. PICK after : after = [b EXCEPT !.auto = auto]
    OBVIOUS
  <2>6. a \in PullRequest /\ b \in PullRequest
    BY <2>1, <2>2, <2>3, Edited, Zenon
  <2>7. pr' = [pr EXCEPT ![m] = after]
    <3>1. pr' = [pr EXCEPT ![m] = [pr[m] EXCEPT !.head = @ + 1, !.green = FALSE,
                                                !.auto = @ /\ u \in Writers]]
      BY <1>3, Zenon DEF PushHead, Changes
    <3> QED
      BY <2>2, <2>3, <2>4, <2>5, <3>1, Zenon
  <2>8. after.auto = auto /\ after.merged = b.merged /\ after.labels = b.labels
    BY <2>5, <2>6, AutoEdited
  <2>9. b.merged = a.merged /\ b.labels = a.labels
    BY <2>3, <2>6, OtherEdited
  <2>10. a.merged = pr[m].merged /\ a.labels = pr[m].labels
    BY <2>1, <2>2, OtherEdited
  <2>11. after.auto => pr[m].auto
    BY <2>4, <2>8, Zenon
  <2>12. NotLabelled
    BY <1>0, <2>7, <2>8, <2>9, <2>10, LabelEdit, Zenon
  <2> QED
    BY <1>0, <2>7, <2>8, <2>9, <2>10, <2>11, <2>12, QuietEdit, Zenon DEF Calm
<1>4. ASSUME NEW m \in PRs, ChecksPass(m)
      PROVE  Calm
  <2>1. PICK after : after = [pr[m] EXCEPT !.green = TRUE]
    OBVIOUS
  <2>2. pr' = [pr EXCEPT ![m] = after] /\ pr[m] \in PullRequest
    BY <1>0, <1>4, <2>1, Zenon DEF ChecksPass
  <2>3. /\ after.auto = pr[m].auto /\ after.merged = pr[m].merged
        /\ after.labels = pr[m].labels
    BY <2>1, <2>2, OtherEdited
  <2>4. NotLabelled
    BY <1>0, <2>2, <2>3, LabelEdit, Zenon
  <2> QED
    BY <1>0, <2>2, <2>3, <2>4, QuietEdit, Zenon DEF Calm
<1>5. ASSUME NEW m \in PRs, AutoMerge(m)
      PROVE  Calm
  <2>1. PICK after : after = [pr[m] EXCEPT !.merged = TRUE]
    OBVIOUS
  <2>2. pr' = [pr EXCEPT ![m] = after] /\ pr[m] \in PullRequest /\ pr[m].auto
    BY <1>0, <1>5, <2>1, Zenon DEF AutoMerge
  <2>3. after.auto = pr[m].auto /\ after.labels = pr[m].labels
    <3>1. PICK s : s = pr[m]
      OBVIOUS
    <3>2. s \in PullRequest /\ after = [s EXCEPT !.merged = TRUE]
      BY <2>1, <2>2, <3>1, Zenon
    <3>3. s = [n |-> s.n, labels |-> s.labels, by |-> s.by, head |-> s.head,
               has |-> s.has, auto |-> s.auto, green |-> s.green, merged |-> s.merged]
      BY <3>2, Zenon DEF PullRequest
    <3>4. after.labels = s.labels /\ after.auto = s.auto
      BY <3>2, <3>3
    <3> QED
      BY <3>1, <3>4, Zenon
  <2>4. NotLabelled
    BY <1>0, <2>2, <2>3, LabelEdit, Zenon
  <2> QED
    BY <1>0, <2>2, <2>3, <2>4, QuietEdit, Zenon DEF Calm
<1>6. ASSUME NEW c \in Configs, PushBase(c)
      PROVE  Calm
  BY <1>6, Zenon DEF PushBase, Quietly, NotLabelled, Calm
<1> QED
  BY <1>1, <1>2, <1>3, <1>4, <1>5, <1>6, Zenon DEF People

\* What the broker's requests do.
LEMMA RequestsCalm ==
  ASSUME EarnedInv, NEW w \in Workers,
         Disable(w) \/ UpdateBranch(w) \/ Enable(w) \/ MergeNow(w)
  PROVE  /\ NotLabelled
         /\ \A n \in PRs :
              \/ Quietly(n)
              \/ /\ job[w].pc \in {"enable", "merge"} /\ Seen(w).n = n
                 /\ pr[n].head = Seen(w).head
<1>0. pr \in [PRs -> PullRequest]
  BY DEF EarnedInv, GitHubInv
<1>1. PICK m : m = Seen(w).n
  OBVIOUS
<1>2. m \in PRs => pr[m] \in PullRequest
  BY <1>0
<1>3. CASE pr' = pr
  BY <1>3, Zenon DEF NotLabelled, Quietly
<1>4. CASE Disable(w) /\ pr' # pr
  <2>0. PICK b : b = FALSE
    OBVIOUS
  <2>1. PICK after : after = [pr[m] EXCEPT !.auto = b]
    OBVIOUS
  <2>2. pr' = [pr EXCEPT ![m] = after]
    BY <1>1, <1>4, <2>0, <2>1, Zenon DEF Disable
  <2>3. m \in PRs => after.labels = pr[m].labels /\ after.auto = b /\ after.merged = pr[m].merged
    BY <1>2, <2>1, AutoEdited
  <2>4. NotLabelled
    BY <1>0, <2>2, <2>3, LabelEdit, Zenon
  <2> QED
    BY <1>0, <2>0, <2>2, <2>3, <2>4, QuietEdit, Zenon
<1>5. CASE UpdateBranch(w) /\ pr' # pr
  <2>1. PICK a : a = [pr[m] EXCEPT !.head = pr[m].head + 1]
    OBVIOUS
  <2>2. PICK b : b = [a EXCEPT !.has = tip]
    OBVIOUS
  <2>3. PICK after : after = [b EXCEPT !.green = FALSE]
    OBVIOUS
  <2>4. pr' = [pr EXCEPT ![m] = after]
    <3>1. pr' = [pr EXCEPT ![m] = [pr[m] EXCEPT !.head = @ + 1, !.has = tip, !.green = FALSE]]
      BY <1>1, <1>5, Zenon DEF UpdateBranch
    <3> QED
      BY <2>1, <2>2, <2>3, <3>1, Zenon
  <2>5. m \in PRs => a \in PullRequest
    <3>1. m \in PRs => pr[m].head + 1 \in Nat
      BY <1>2, Typed
    <3> QED
      BY <1>2, <2>1, <3>1, Edited, Zenon
  <2>6. m \in PRs => b \in PullRequest
    <3>1. tip \in Nat
      BY DEF EarnedInv, GitHubInv
    <3> QED
      BY <2>2, <2>5, <3>1, Edited, Zenon
  <2>7. m \in PRs => after.labels = b.labels /\ after.auto = b.auto /\ after.merged = b.merged
    BY <2>3, <2>6, OtherEdited
  <2>8. m \in PRs => b.labels = a.labels /\ b.auto = a.auto /\ b.merged = a.merged
    BY <2>2, <2>5, OtherEdited
  <2>9. m \in PRs => a.labels = pr[m].labels /\ a.auto = pr[m].auto /\ a.merged = pr[m].merged
    BY <1>2, <2>1, OtherEdited
  <2>10. NotLabelled
    BY <1>0, <2>4, <2>7, <2>8, <2>9, LabelEdit, Zenon
  <2> QED
    BY <1>0, <2>4, <2>7, <2>8, <2>9, <2>10, QuietEdit, Zenon
<1>6. CASE (Enable(w) \/ MergeNow(w)) /\ pr' # pr
  <2>1. PICK b : b = TRUE
    OBVIOUS
  <2>2. /\ job[w].pc \in {"enable", "merge"} /\ pr[m].head = Seen(w).head
        /\ \/ pr' = [pr EXCEPT ![m] = [pr[m] EXCEPT !.auto = b]]
           \/ pr' = [pr EXCEPT ![m] = [pr[m] EXCEPT !.merged = b]]
    BY <1>1, <1>6, <2>1, Zenon DEF Enable, MergeNow
  <2>3. PICK after : /\ pr' = [pr EXCEPT ![m] = after]
                     /\ after = [pr[m] EXCEPT !.auto = b] \/ after = [pr[m] EXCEPT !.merged = b]
    BY <2>2, Zenon
  <2>4. m \in PRs => after.labels = pr[m].labels
    <3>1. after = [pr[m] EXCEPT !.auto = b] /\ m \in PRs => after.labels = pr[m].labels
      BY <1>2, AutoEdited
    <3>2. after = [pr[m] EXCEPT !.merged = b] /\ m \in PRs => after.labels = pr[m].labels
      BY <1>2, MergedEdited
    <3> QED
      BY <2>3, <3>1, <3>2, Zenon
  <2>5. NotLabelled
    BY <1>0, <2>3, <2>4, LabelEdit, Zenon
  <2>6. ASSUME NEW n \in PRs, n # m PROVE Quietly(n)
    <3>1. pr'[n] = pr[n]
      BY <1>0, <2>3, <2>6
    <3> QED
      BY <3>1, Zenon DEF Quietly
  <2> QED
    BY <1>1, <2>2, <2>5, <2>6, Zenon
<1> QED
  BY <1>3, <1>4, <1>5, <1>6

LEMMA BrokerCalm ==
  ASSUME Sweep \/ \E w \in Workers : \/ Begin(w) \/ Break(w) \/ LoadCached(w) \/ Fetch(w)
                                     \/ List(w) \/ Judge(w) \/ ReRead(w)
  PROVE  NotLabelled /\ \A n \in PRs : Quietly(n)
<1>1. UNCHANGED github \/ pr' = pr
  BY Zenon DEF Sweep, Begin, Break, LoadCached, Fetch, List, Judge, ReRead
<1>2. pr' = pr
  BY <1>1 DEF github
<1> QED
  BY <1>2, Zenon DEF NotLabelled, Quietly

-----------------------------------------------------------------------------
\* A delivery that came too late stays so until somebody labels again.

LEMMA LateStays ==
  ASSUME NEW j, TooLate(j), NotLabelled
  PROVE  TooLate(j)'
<1>1. PICK s \in PullRequest : j.todo = <<s>> /\ Merge \notin pr[s.n].labels
  BY DEF TooLate
<1>2. s.n \in PRs
  BY Zenon DEF PullRequest
<1>3. Merge \notin pr'[s.n].labels
  BY <1>1, <1>2, Zenon DEF NotLabelled
<1> QED
  BY <1>1, <1>3, Zenon DEF TooLate

\* The next state of a job that has missed its label, if it has one.
Misses(k) == k.missed /\ k.by.label = Merge => TooLate(k)

LEMMA JobMisses ==
  ASSUME EarnedInv, EarnedInv', MissedInv, NotLabelled, NEW w \in Workers, NEW k,
         Do(w, k), Misses(k)
  PROVE  MissedInv'
<1> SUFFICES ASSUME NEW v \in Workers, job'[v].missed, job'[v].by.label = Merge
             PROVE  TooLate(job[v])'
  BY DEF MissedInv
<1>1. PICK j : j = job'[v]
  OBVIOUS
<1>2. j = k \/ j = job[v]
  BY <1>1 DEF EarnedInv, GitHubInv, Do
<1>3. Misses(j)
  BY <1>2 DEF MissedInv, Misses
<1>4. TooLate(j)
  BY <1>1, <1>3 DEF Misses
<1> QED
  BY <1>1, <1>4, LateStays, Zenon

LEMMA StartMisses ==
  ASSUME EarnedInv, NEW w \in Workers, Begin(w) \/ Sweep
  PROVE  \E v \in Workers : \E k : Do(v, k) /\ Misses(k)
<1>1. CASE Sweep
  <2>1. PICK k : k = [NoJob EXCEPT !.pc = "load", !.by = NoOne, !.fresh = TRUE, !.open = TRUE]
    OBVIOUS
  <2>2. Do(Sweeper, k) /\ Sweeper \in Workers
    BY <1>1, <2>1, Zenon DEF Sweep, Workers
  <2>3. k.missed = FALSE
    <3>1. PICK a : a = [NoJob EXCEPT !.pc = "load"]
      OBVIOUS
    <3>2. PICK b : b = [a EXCEPT !.by = NoOne]
      OBVIOUS
    <3>3. PICK c : c = [b EXCEPT !.fresh = TRUE]
      OBVIOUS
    <3>4. k = [c EXCEPT !.open = TRUE]
      BY <2>1, <3>1, <3>2, <3>3, Zenon
    <3>5. JobShape(a) /\ a.missed = FALSE
      BY <3>1, NoJobFields DEF JobShape
    <3>6. JobShape(b) /\ b.missed = FALSE
      BY <3>2, <3>5 DEF JobShape
    <3>7. JobShape(c) /\ c.missed = FALSE
      BY <3>3, <3>6 DEF JobShape
    <3> QED
      BY <3>4, <3>7 DEF JobShape
  <2> QED
    BY <2>2, <2>3, Zenon DEF Misses
<1>2. CASE Begin(w)
  <2>1. PICK d \in deliveries :
          Do(w, [NoJob EXCEPT !.pc = "load", !.by = d.by, !.fresh = d.changed,
                              !.open = d.snap = None,
                              !.todo = IF d.snap = None THEN <<>> ELSE <<d.snap>>,
                              !.missed = d.snap # None /\ Merge \notin pr[d.snap.n].labels])
    BY <1>2, Zenon DEF Begin
  <2>2. PICK missed : missed = (d.snap # None /\ Merge \notin pr[d.snap.n].labels)
    OBVIOUS
  <2>3. PICK todo : todo = IF d.snap = None THEN <<>> ELSE <<d.snap>>
    OBVIOUS
  <2>4. PICK open : open = (d.snap = None)
    OBVIOUS
  <2>5. PICK k : k = [NoJob EXCEPT !.pc = "load", !.by = d.by, !.fresh = d.changed, !.open = open,
                                   !.todo = todo, !.missed = missed]
    OBVIOUS
  <2>6. Do(w, k)
    BY <2>1, <2>2, <2>3, <2>4, <2>5, Zenon
  <2>7. k.pc = "load" /\ k.by = d.by /\ k.todo = todo /\ k.missed = missed
    <3>1. PICK a : a = [NoJob EXCEPT !.pc = "load"]
      OBVIOUS
    <3>2. PICK b : b = [a EXCEPT !.by = d.by]
      OBVIOUS
    <3>3. PICK c : c = [b EXCEPT !.fresh = d.changed]
      OBVIOUS
    <3>4. PICK e : e = [c EXCEPT !.open = open]
      OBVIOUS
    <3>5. PICK f : f = [e EXCEPT !.todo = todo]
      OBVIOUS
    <3>6. k = [f EXCEPT !.missed = missed]
      BY <2>5, <3>1, <3>2, <3>3, <3>4, <3>5, Zenon
    <3>7. JobShape(a) /\ a.pc = "load"
      BY <3>1, NoJobFields DEF JobShape
    <3>8. JobShape(b) /\ b.pc = "load" /\ b.by = d.by
      BY <3>2, <3>7 DEF JobShape
    <3>9. JobShape(c) /\ c.pc = "load" /\ c.by = d.by
      BY <3>3, <3>8 DEF JobShape
    <3>10. JobShape(e) /\ e.pc = "load" /\ e.by = d.by
      BY <3>4, <3>9 DEF JobShape
    <3>11. JobShape(f) /\ f.pc = "load" /\ f.by = d.by /\ f.todo = todo
      BY <3>5, <3>10 DEF JobShape
    <3> QED
      BY <3>6, <3>11 DEF JobShape
  <2>8. d.by.label = Merge => d.snap # None /\ d.snap \in PullRequest
    BY DEF EarnedInv, GitHubInv
  <2>9. ASSUME k.missed, k.by.label = Merge PROVE TooLate(k)
    <3>1. d.snap \in PullRequest /\ k.todo = <<d.snap>>
      BY <2>3, <2>7, <2>8, <2>9
    <3>2. Merge \notin pr[d.snap.n].labels
      BY <2>2, <2>7, <2>9, Zenon
    <3> QED
      BY <2>7, <3>1, <3>2, Zenon DEF TooLate
  <2> QED
    BY <2>6, <2>9, Zenon DEF Misses
<1> QED
  BY <1>1, <1>2

LEMMA NextOneMisses ==
  ASSUME NEW j, EarnedJob(j), j.pc # "idle"
  PROVE  Misses(NextOne(j))
<1>1. Misses(NoJob)
  BY NoJobFields, Zenon DEF Misses
<1>2. ASSUME ~(Len(j.todo) <= 1) PROVE Misses(NextOne(j))
  <2>1. ~(j.by.label = Merge)
    <3>1. ASSUME Delivered(j) PROVE FALSE
      <4>1. PICK d : j.todo = <<d>>
        BY <3>1 DEF Delivered
      <4> QED
        BY <1>2, <4>1
    <3> QED
      BY <3>1, Zenon DEF EarnedJob
  <2>2. PICK k : k = NextOne(j)
    OBVIOUS
  <2>3. k = [j EXCEPT !.pc = "judge", !.acts = <<>>, !.todo = Tail(j.todo)]
    BY <1>2, <2>2 DEF NextOne
  <2>4. k.by = j.by
    BY <2>3 DEF EarnedJob, JobShape
  <2> QED
    BY <2>1, <2>2, <2>4, Zenon DEF Misses
<1> QED
  BY <1>1, <1>2, Zenon DEF NextOne

LEMMA ActingMisses ==
  ASSUME NEW j, EarnedJob(j), j.pc # "idle", Misses(j), NEW acts
  PROVE  Misses(Acting(j, acts))
<1>1. ASSUME acts # <<>> PROVE Misses(Acting(j, acts))
  <2>1. PICK k : k = Acting(j, acts)
    OBVIOUS
  <2>2. k = [j EXCEPT !.pc = "act", !.acts = acts]
    BY <1>1, <2>1, Zenon DEF Acting
  <2>3. k.pc = "act" /\ k.by = j.by /\ k.todo = j.todo /\ k.missed = j.missed
    BY <2>2 DEF EarnedJob, JobShape
  <2>4. TooLate(j) => TooLate(k)
    BY <2>3 DEF TooLate
  <2> QED
    BY <2>1, <2>3, <2>4, Zenon DEF Misses
<1> QED
  BY <1>1, NextOneMisses, Zenon DEF Acting

LEMMA LoadedMisses ==
  ASSUME NEW j, EarnedJob(j), j.pc = "load", Misses(j), NEW c
  PROVE  Misses(Loaded(j, c))
<1>1. Misses(NoJob)
  BY NoJobFields, Zenon DEF Misses
<1>2. ASSUME c.on PROVE Misses(Loaded(j, c))
  <2>1. PICK pc : pc = IF j.open THEN "list" ELSE "judge"
    OBVIOUS
  <2>2. PICK a : a = [j EXCEPT !.cfg = c]
    OBVIOUS
  <2>3. PICK b : b = [a EXCEPT !.fresh = FALSE]
    OBVIOUS
  <2>4. PICK e : e = [b EXCEPT !.open = FALSE]
    OBVIOUS
  <2>5. PICK k : k = [e EXCEPT !.pc = pc]
    OBVIOUS
  <2>6. Loaded(j, c) = k
    BY <1>2, <2>1, <2>2, <2>3, <2>4, <2>5, Zenon DEF Loaded
  <2>7. JobShape(a) /\ a.by = j.by /\ a.todo = j.todo /\ a.missed = j.missed
    BY <2>2 DEF JobShape, EarnedJob
  <2>8. JobShape(b) /\ b.by = j.by /\ b.todo = j.todo /\ b.missed = j.missed
    BY <2>3, <2>7 DEF JobShape
  <2>9. JobShape(e) /\ e.by = j.by /\ e.todo = j.todo /\ e.missed = j.missed
    BY <2>4, <2>8 DEF JobShape
  <2>10. k.pc = pc /\ k.by = j.by /\ k.todo = j.todo /\ k.missed = j.missed
    BY <2>5, <2>9 DEF JobShape
  <2>11. j.by.label = Merge => pc = "judge"
    BY <2>1 DEF EarnedJob
  <2>12. TooLate(j) /\ pc = "judge" => TooLate(k)
    BY <2>10 DEF TooLate
  <2> QED
    BY <2>6, <2>10, <2>11, <2>12, Zenon DEF Misses
<1> QED
  BY <1>1, <1>2, Zenon DEF Loaded

LEMMA HandleMisses ==
  ASSUME BotInv, NEW w \in Workers, Handle(w) \/ Break(w)
  PROVE  \E v \in Workers : \E k : Do(v, k) /\ Misses(k)
<1> SUFFICES \E k : Do(w, k) /\ Misses(k)
  OBVIOUS
<1>1. PICK j : j = job[w]
  OBVIOUS
<1>2. EarnedJob(j) /\ Misses(j)
  BY <1>1 DEF BotInv, EarnedInv, JobsEarned, MissedInv, Misses
<1>3. Misses(NoJob)
  BY NoJobFields, Zenon DEF Misses
<1>4. CASE LoadCached(w) \/ Fetch(w)
  <2>1. j.pc = "load" /\ \E c : Do(w, Loaded(j, c))
    BY <1>1, <1>4, Zenon DEF LoadCached, Fetch
  <2> QED
    BY <1>2, <2>1, LoadedMisses, Zenon
<1>5. CASE List(w)
  <2>1. PICK todo : todo = [i \in DOMAIN Listed(j.cfg) |-> pr[Listed(j.cfg)[i]]]
    OBVIOUS
  <2>2. PICK k : k = [j EXCEPT !.pc = "judge", !.todo = todo]
    OBVIOUS
  <2>3. j.pc = "list" /\ (Do(w, NoJob) \/ Do(w, k))
    BY <1>1, <1>5, <2>1, <2>2, Zenon DEF List
  <2>4. k.by = j.by /\ ~(j.by.label = Merge)
    BY <1>2, <2>2, <2>3 DEF EarnedJob, JobShape
  <2>5. Misses(k)
    BY <2>4, Zenon DEF Misses
  <2> QED
    BY <1>3, <2>3, <2>5, Zenon
<1>6. CASE Judge(w) \/ Disable(w) \/ UpdateBranch(w) \/ MergeNow(w)
  <2>1. j.pc \in {"judge", "act", "merge"}
        /\ ((\E acts : Do(w, Acting(j, acts))) \/ Do(w, NextOne(j)))
    BY <1>1, <1>6, Zenon DEF Judge, Disable, UpdateBranch, MergeNow, Act, Acted
  <2>2. j.pc # "idle"
    BY <2>1
  <2> QED
    BY <1>2, <2>1, <2>2, ActingMisses, NextOneMisses, Zenon
<1>7. CASE ReRead(w)
  <2>1. PICK k : k = [j EXCEPT !.pc = "enable"]
    OBVIOUS
  <2>2. /\ j.pc = "act"
        /\ \/ Do(w, k) /\ Unchanged(pr[Head(j.todo).n], Head(j.todo))
           \/ Do(w, Acting(j, Tail(j.acts)))
    BY <1>1, <1>7, <2>1, Zenon DEF ReRead, Act, Acted, Seen
  <2>3. k.by = j.by /\ k.missed = j.missed
    BY <1>2, <2>1 DEF EarnedJob, JobShape
  <2>4. ASSUME Unchanged(pr[Head(j.todo).n], Head(j.todo)) PROVE ~TooLate(j)
    BY <2>4 DEF TooLate, Unchanged
  <2>5. Unchanged(pr[Head(j.todo).n], Head(j.todo)) => Misses(k)
    BY <1>2, <2>3, <2>4, Zenon DEF Misses
  <2>6. j.pc # "idle"
    BY <2>2
  <2> QED
    BY <1>2, <2>2, <2>5, <2>6, ActingMisses, Zenon
<1>8. CASE Enable(w)
  <2>1. PICK k : k = [j EXCEPT !.pc = "merge"]
    OBVIOUS
  <2>2. j.pc = "enable" /\ (Do(w, NextOne(j)) \/ Do(w, k) \/ Do(w, Acting(j, Tail(j.acts))))
    BY <1>1, <1>8, <2>1, Zenon DEF Enable, Acted
  <2>3. k.by = j.by /\ k.missed = j.missed
    BY <1>2, <2>1 DEF EarnedJob, JobShape
  <2>4. ~TooLate(j) /\ j.pc # "idle"
    BY <2>2 DEF TooLate
  <2>5. Misses(k)
    BY <1>2, <2>3, <2>4, Zenon DEF Misses
  <2> QED
    BY <1>2, <2>2, <2>4, <2>5, ActingMisses, NextOneMisses, Zenon
<1>9. CASE Break(w)
  <2>1. j.pc # "idle" /\ (Do(w, NoJob) \/ Do(w, NextOne(j)))
    BY <1>1, <1>9, Zenon DEF Break
  <2> QED
    BY <1>2, <1>3, <2>1, NextOneMisses, Zenon
<1> QED
  BY <1>4, <1>5, <1>6, <1>7, <1>8, <1>9, Zenon DEF Handle

\* Every step is a calm one, or a request that meets its commit.
LEMMA NextCalm ==
  ASSUME EarnedInv, Next
  PROVE  /\ NotLabelled \/ \A w \in Workers : ~job'[w].missed
         /\ \A n \in PRs :
              \/ Quietly(n)
              \/ \E w \in Workers : /\ job[w].pc \in {"enable", "merge"} /\ Seen(w).n = n
                                    /\ pr[n].head = Seen(w).head
<1>1. CASE People
  BY <1>1, PeopleCalm, Zenon DEF Calm
<1>2. CASE Sweep
  BY <1>2, BrokerCalm, Zenon
<1>3. ASSUME NEW w \in Workers, Begin(w) \/ Break(w) \/ Handle(w)
      PROVE  /\ NotLabelled
             /\ \A n \in PRs :
                  \/ Quietly(n)
                  \/ /\ job[w].pc \in {"enable", "merge"} /\ Seen(w).n = n
                     /\ pr[n].head = Seen(w).head
  BY <1>3, BrokerCalm, RequestsCalm, Zenon DEF Handle
<1> QED
  BY <1>1, <1>2, <1>3, Zenon DEF Next

LEMMA MissedStep == BotInv /\ [Next]_vars => MissedInv'
<1> SUFFICES ASSUME BotInv, [Next]_vars PROVE MissedInv'
  OBVIOUS
<1>1. EarnedInv /\ MissedInv /\ EarnedInv'
  BY EarnedStep DEF BotInv
<1>2. CASE UNCHANGED vars
  BY <1>1, <1>2 DEF vars, MissedInv, TooLate
<1>3. ASSUME \A w \in Workers : ~job'[w].missed PROVE MissedInv'
  BY <1>3, Zenon DEF MissedInv
<1>4. ASSUME NotLabelled, NEW v \in Workers, NEW k, Do(v, k), Misses(k) PROVE MissedInv'
  BY <1>1, <1>4, JobMisses
<1>5. ASSUME NotLabelled, job' = job PROVE MissedInv'
  <2> SUFFICES ASSUME NEW v \in Workers, job'[v].missed, job'[v].by.label = Merge
               PROVE  TooLate(job[v])'
    BY DEF MissedInv
  <2>1. PICK j : j = job[v] /\ j = job'[v]
    BY <1>5
  <2>2. TooLate(j)
    BY <1>1, <2>1 DEF MissedInv
  <2> QED
    BY <1>5, <2>1, <2>2, LateStays, Zenon
<1>6. CASE People
  <2>1. job' = job \/ \A w \in Workers : ~job'[w].missed
    <3>1. ASSUME NEW n \in PRs, NEW l \in Labels, NEW u \in Users, Labelled(n, l, u)
          PROVE  job' = job \/ \A w \in Workers : ~job'[w].missed
      <4>1. CASE l = Merge
        <5>1. job' = [w \in Workers |-> [job[w] EXCEPT !.missed = FALSE]]
          BY <3>1, <4>1 DEF Labelled
        <5>2. \A w \in Workers : job'[w] = [job[w] EXCEPT !.missed = FALSE] /\ JobShape(job[w])
          BY <1>1, <5>1 DEF EarnedInv, JobsEarned, EarnedJob
        <5> QED
          BY <5>2 DEF JobShape
      <4>2. CASE l # Merge
        <5>1. job' = [w \in Workers |-> job[w]]
          BY <3>1, <4>2, Zenon DEF Labelled
        <5> QED
          BY <1>1, <5>1, Zenon DEF EarnedInv, GitHubInv
      <4> QED
        BY <4>1, <4>2
    <3> QED
      BY <1>6, <3>1, Zenon DEF People, Unlabelled, PushHead, ChecksPass, AutoMerge, PushBase
  <2> QED
    BY <1>1, <1>3, <1>5, <1>6, <2>1, PeopleCalm, Zenon DEF Calm
<1>7. ASSUME Next, ~People PROVE MissedInv'
  <2>1. \E v \in Workers : \E k : Do(v, k) /\ Misses(k)
    BY <1>1, <1>7, StartMisses, HandleMisses, Zenon DEF Next, Workers
  <2>2. NotLabelled \/ \A w \in Workers : ~job'[w].missed
    BY <1>1, <1>7, NextCalm
  <2> QED
    BY <1>3, <1>4, <2>1, <2>2, Zenon
<1> QED
  BY <1>2, <1>6, <1>7

LEMMA BotAlways == Spec => []BotInv
<1>1. BotInv /\ [Next]_vars => BotInv'
  BY EarnedStep, MissedStep DEF BotInv
<1> QED
  BY <1>1, EarnedInitially, PTL DEF Spec

\* What the bot queues or merges is a commit a writer labelled for it, on a branch
\* that requires checks, however late, often or overtaken its deliveries are
\* (bot/src/labels.ts: gated, byWriters, unchanged).
THEOREM QueuesAreVouched == Spec => QueuesVouched
<1>1. BotInv /\ [Next]_vars
        => [\A n \in PRs : Queues(n) => Vouched(n, pr[n].head) /\ checks]_vars
  <2> SUFFICES ASSUME BotInv, Next, NEW n \in PRs, Queues(n)
               PROVE  Vouched(n, pr[n].head) /\ checks
    OBVIOUS
  <2>1. EarnedInv
    BY DEF BotInv
  <2>2. ~Quietly(n)
    BY Zenon DEF Quietly, Queues
  <2>3. PICK w \in Workers : /\ job[w].pc \in {"enable", "merge"} /\ Seen(w).n = n
                             /\ pr[n].head = Seen(w).head
    BY <2>1, <2>2, NextCalm, Zenon
  <2>4. EarnedJob(job[w]) /\ Enables(job[w].acts) /\ job[w].pc # "idle"
    BY <2>1, <2>3 DEF EarnedInv, JobsEarned, EarnedJob
  <2>5. /\ job[w].by.label = Merge /\ job[w].by.user \in Writers /\ checks
        /\ Delivered(job[w])
    BY <2>4, Zenon DEF EarnedJob
  <2>6. PICK d \in deliveries : d.snap # None /\ d.by = job[w].by /\ job[w].todo = <<d.snap>>
    BY <2>5, Zenon DEF Delivered
  <2>7. Seen(w) = d.snap
    BY <2>6 DEF Seen
  <2> QED
    BY <2>3, <2>5, <2>6, <2>7, Zenon DEF Vouched
<1> QED
  BY <1>1, BotAlways, PTL DEF Spec, QueuesVouched

\* A delivery handled when its label is gone again, and stays gone, queues nothing
\* (bot/src/labels.ts: unchanged, "overtaken by a label removal").
THEOREM RemovalsHold == Spec => RemovalHolds
<1>1. BotInv /\ [Next]_vars
        => [\A n \in PRs : Queues(n) =>
              \E w \in Workers : job[w].pc \in {"enable", "merge"} /\ Seen(w).n = n
                                 /\ ~job[w].missed]_vars
  <2> SUFFICES ASSUME BotInv, Next, NEW n \in PRs, Queues(n)
               PROVE  \E w \in Workers : job[w].pc \in {"enable", "merge"} /\ Seen(w).n = n
                                         /\ ~job[w].missed
    OBVIOUS
  <2>1. EarnedInv /\ MissedInv
    BY DEF BotInv
  <2>2. ~Quietly(n)
    BY Zenon DEF Quietly, Queues
  <2>3. PICK w \in Workers : job[w].pc \in {"enable", "merge"} /\ Seen(w).n = n
    BY <2>1, <2>2, NextCalm, Zenon
  <2>4. job[w].by.label = Merge
    BY <2>1, <2>3 DEF EarnedInv, JobsEarned, EarnedJob
  <2>5. ~TooLate(job[w])
    BY <2>3 DEF TooLate
  <2>6. ~job[w].missed
    BY <2>1, <2>4, <2>5, Zenon DEF MissedInv
  <2> QED
    BY <2>3, <2>6, Zenon
<1> QED
  BY <1>1, BotAlways, PTL DEF Spec, RemovalHolds
=============================================================================
