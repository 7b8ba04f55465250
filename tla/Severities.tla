----------------------------- MODULE Severities -----------------------------
(* What a change of a document means to its consumers, and the two judgements  *)
(* that comparisons of schemas, of parameters and of GraphQL types share        *)
(* (soothfast-spec: compat, openapi/diff, graphql/diff).                        *)
EXTENDS Option

Breaking == "breaking"
Additive == "additive"

compare_enum(o, n) ==
    {Breaking : gone \in o.values \ n.values} \cup {Additive : added \in n.values \ o.values}

\* Slip: what is no longer required breaks nobody.
RequirednessGrows(dir, was, is) ==
    IF was = is THEN {} ELSE {IF is /\ dir = "request" THEN Breaking ELSE Additive}
\* A property, or a parameter, that both have is required now, or no longer.
Requiredness(dir, was, is) ==
    IF was = is THEN {} ELSE {IF is = (dir = "request") THEN Breaking ELSE Additive}
=============================================================================
