------------------------------- MODULE Compat -------------------------------
(* Comparing two revisions of a generated document: what changed, and        *)
(* whether that breaks its consumers (soothfast-spec: compat, openapi/diff,   *)
(* asyncapi/diff, graphql/diff, mcp).  Schemas are compared by Schemas.       *)
(*                                                                            *)
(* Where a change is, and its wording, are left out: a comparison is the set  *)
(* of the severities it found.                                                *)
EXTENDS Severities, Naturals

\* What the comparison of two schemas, with the shared ones of their documents,
\* finds in a direction of the data: Schemas!SchemaDiff.
CONSTANT CompareSchemas(_, _, _, _, _)

\* What both revisions have, and what only one of them has.
Both(olds, news) == {<<olds[k], news[k]>> : k \in DOMAIN olds \cap DOMAIN news}

compare_keys(olds, news) ==
    {Breaking : gone \in DOMAIN olds \ DOMAIN news}
    \cup {Additive : added \in DOMAIN news \ DOMAIN olds}

-----------------------------------------------------------------------------
(* OpenAPI: a document has operations, whose parameters, bodies and responses *)
(* are named.                                                                 *)

compare_parameters(old, new) ==
    LET Presence(param) == IF param.required THEN Breaking ELSE Additive
        Parameter(o, n) ==
            Requiredness("request", o.required, n.required)
            \cup (IF None \notin {o.type, n.type} /\ o.type # n.type THEN {Breaking} ELSE {})
    IN  {Presence(old[k]) : k \in DOMAIN old \ DOMAIN new}
        \cup {Presence(new[k]) : k \in DOMAIN new \ DOMAIN old}
        \cup UNION {Parameter(old[k], new[k]) : k \in DOMAIN old \cap DOMAIN new}

OpenApiDiff(old, new) ==
    LET Schema(dir, o, n) == CompareSchemas(old.defs, new.defs, dir, o, n)
        Response(o, n) == IF None \in {o, n} THEN {} ELSE Schema("response", o, n)
        Operation(o, n) ==
            compare_parameters(o.params, n.params)
            \cup (IF o.body # None /\ n.body # None THEN Schema("request", o.body, n.body)
                  ELSE IF o.body # n.body THEN {Breaking} ELSE {})
            \cup compare_keys(o.responses, n.responses)
            \cup UNION {Response(r[1], r[2]) : r \in Both(o.responses, n.responses)}
    IN  compare_keys(old.operations, new.operations)
        \cup UNION {Operation(p[1], p[2]) : p \in Both(old.operations, new.operations)}

-----------------------------------------------------------------------------
(* AsyncAPI: an operation sends or receives one message at an address.        *)

AsyncApiDiff(old, new) ==
    LET Operation(o, n) ==
            IF o.action # n.action THEN {Breaking}
            ELSE {Breaking : moved \in {o.address} \ {n.address}}
                 \cup (IF n.payload = None THEN {Breaking : lost \in {o.payload} \ {None}}
                       ELSE IF o.payload = None THEN {Additive}
                       ELSE CompareSchemas(old.defs, new.defs,
                                           IF n.action = "send" THEN "response" ELSE "request",
                                           o.payload, n.payload))
    IN  compare_keys(old.operations, new.operations)
        \cup UNION {Operation(p[1], p[2]) : p \in Both(old.operations, new.operations)}

-----------------------------------------------------------------------------
(* MCP: a tool's schemas carry their own definitions.                         *)

McpDiff(old, new) ==
    LET Tool(o, n) ==
            CompareSchemas(o.input.defs, n.input.defs, "request", o.input.schema, n.input.schema)
            \cup (IF n.output = None THEN {Breaking : lost \in {o.output} \ {None}}
                  ELSE IF o.output = None THEN {Additive}
                  ELSE CompareSchemas(o.output.defs, n.output.defs, "response",
                                      o.output.schema, n.output.schema))
    IN  compare_keys(old.operations, new.operations)
        \cup UNION {Tool(p[1], p[2]) : p \in Both(old.operations, new.operations)}

-----------------------------------------------------------------------------
(* GraphQL: a field's type is the name and brackets it has, its shape, and    *)
(* whether it is marked non-null as a whole and, in a list, item by item.     *)

marks(t) == (IF t.item THEN 1 ELSE 0) + (IF t.whole THEN 1 ELSE 0)

compare_field(dir, o, n) ==
    LET tightened == (n.type.whole /\ ~o.type.whole) \/ marks(n.type) > marks(o.type)
    IN  IF o.type = n.type THEN {}
        ELSE IF o.type.shape # n.type.shape THEN {Breaking}
        ELSE {IF (dir = "request") = tightened THEN Breaking ELSE Additive}

\* Fields of a type or an input, or the arguments of a field.
compare_field_set(dir, old, new) ==
    {Breaking : gone \in DOMAIN old \ DOMAIN new}
    \cup {IF dir = "request" /\ new[name].type.whole THEN Breaking ELSE Additive
              : name \in DOMAIN new \ DOMAIN old}
    \cup UNION {compare_field(dir, old[name], new[name]) : name \in DOMAIN old \cap DOMAIN new}

compare_type(o, n) ==
    IF o.kind # n.kind THEN {Breaking}
    ELSE CASE o.kind = "enum" -> compare_enum(o, n)
           [] o.kind = "scalar" -> {}
           [] OTHER -> compare_field_set(IF o.kind = "input" THEN "request" ELSE "response",
                                         o.fields, n.fields)

GraphQlDiff(old, new) ==
    LET Root(o, n) == compare_field("response", o, n)
                      \cup compare_field_set("request", o.args, n.args)
    IN  compare_keys(old.types, new.types)
        \cup (UNION {compare_type(p[1], p[2]) : p \in Both(old.types, new.types)})
        \cup compare_keys(old.operations, new.operations)
        \cup UNION {Root(p[1], p[2]) : p \in Both(old.operations, new.operations)}
=============================================================================
