------------------------------ MODULE MCTests ------------------------------
(* What a branch is checked for without measuring.  Three packages in a chain, *)
(* test executables at both ends; the last one's test loads its own code only, *)
(* and spawns a tool that loads the first's.  And the documents `spec gate'    *)
(* lets through (SpecGate).  They share no state, so one of them moves in a    *)
(* behaviour.                                                                  *)
EXTENDS Tests, SpecGate

CONSTANTS lib, mid, app, unit, integration

MCDeps == [p \in {lib, mid, app} |->
             IF p = lib THEN {} ELSE IF p = mid THEN {lib} ELSE {mid}]
MCPkgOf == [b \in {unit, integration} |-> IF b = unit THEN lib ELSE app]
MCLinks == [b \in {unit, integration} |-> IF b = unit THEN {lib} ELSE {app}]
MCToolLinks == [p \in {lib, mid, app} |-> IF p = app THEN {app, lib} ELSE {}]

Family == INSTANCE MCSpecs
MCDocuments == Family!Generated
MCReleases == Family!Released
MCCompareSchemas(olds, news, dir, old, new) == Family!SchemaDiff(olds, news, dir, old, new)
MCAccepts(olds, old, news, new) == Family!Accepted(olds, old, news, new)
MCUnderstands(olds, old, news, new) == Family!Understood(olds, old, news, new)

VARIABLE part

MCInit ==
  /\ Init /\ SpecInit /\ part \in {"tests", "specs"}
  /\ part = "tests" => dialect = "graphql"

MCNext ==
  \/ part = "tests" /\ Next /\ UNCHANGED <<specVars, part>>
  \/ part = "specs" /\ SpecNext /\ UNCHANGED <<vars, part>>

MCSpec == MCInit /\ [][MCNext]_<<vars, specVars, part>>
=============================================================================
