-------------------------------- MODULE MCSdk --------------------------------
(* Two clients of one environment.  Without retries they make three calls, so *)
(* that a start can fail after a stop and another; with them, two, one that   *)
(* may be repeated and one that must not be.                                  *)
EXTENDS Sdk, TLC

CONSTANTS k, c1, c2, get, post, other

MCKeyOf == c1 :> k @@ c2 :> k
MCClientOf == get :> c1 @@ post :> c2 @@ other :> c1
MCMethod == get :> "GET" @@ post :> "POST" @@ other :> "GET"

\* The third call is over where there are retries.
MCInit ==
  /\ EmbeddedInit /\ maxRetries \in Retries /\ wire = {}
  /\ resolved = [c \in Clients |-> None] /\ effects = [c \in Calls |-> 0]
  /\ calls = [c \in Calls |-> IF c = other /\ maxRetries > 0 THEN Settled ELSE Idle]

MCSpec == MCInit /\ [][SdkNext]_sdk /\ SdkFairness
=============================================================================
