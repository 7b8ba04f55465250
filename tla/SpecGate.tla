------------------------------- MODULE SpecGate -------------------------------
(* `spec gate': the generated document of a branch is compared with that of   *)
(* its merge-base, and what breaks consumers must be acknowledged, by a bump  *)
(* of the document's version or by --allow-breaking                           *)
(* (cargo-soothfast: spec_gate; the comparison is Compat's).                  *)
(*                                                                            *)
(* A branch that passes is merged, as it stands, on the base it was compared  *)
(* with.  A consumer was built against some document that was published.      *)
EXTENDS Compat

CONSTANTS
  Accepts(_, _, _, _),     \* what goes by a schema, another accepts: Schemas!Accepted
  Understands(_, _, _, _), \* who goes by it understands another: Schemas!Understood
  Documents,   \* what the code can generate: by dialect, one after the other
  Releases     \* versions a document can carry: major, minor, patch

ASSUME SpecAssumption ==
  /\ DOMAIN Documents \subseteq {"openapi", "asyncapi", "mcp", "graphql"}
  /\ \A kind \in DOMAIN Documents : 0 \notin DOMAIN Documents[kind]
  /\ Releases \subseteq Nat \X Nat \X Nat /\ None \notin Nat \X Nat \X Nat

VARIABLES
  dialect,     \* the dialect of the spec file that is followed
  published,   \* the document on the main branch, with its version
  consumed,    \* the published document a consumer was built against
  coordinated, \* --allow-breaking let a break through since then
  reused       \* a parameter of the consumer's was withdrawn, and the name given out again

specVars == <<dialect, published, consumed, coordinated, reused>>

\* The base need not have the spec file: then its document is empty.
absent == [doc |-> 0, version |-> None]
empty == [operations |-> <<>>, types |-> <<>>, defs |-> <<>>]
Document(kind, doc) == IF doc = 0 THEN empty ELSE Documents[kind][doc]

diff(kind, old, new) ==
    CASE kind = "openapi"  -> OpenApiDiff(old, new)
      [] kind = "asyncapi" -> AsyncApiDiff(old, new)
      [] kind = "mcp"      -> McpDiff(old, new)
      [] kind = "graphql"  -> GraphQlDiff(old, new)

\* Only OpenAPI and AsyncAPI documents say a version.
versions == IF dialect \in {"openapi", "asyncapi"} THEN Releases ELSE {None}

bump_acknowledges(base, head) ==
    IF base[1] = 0 /\ head[1] = 0 THEN head[2] > base[2] ELSE head[1] > base[1]

acknowledged(base, head) ==
    None \notin {base, head} /\ bump_acknowledges(base, head)

-----------------------------------------------------------------------------
\* Versions of main do not go back.
NotOlder(base, head) ==
    None \notin {base, head} =>
        \E i \in 1..3 : /\ \A j \in 1..(i - 1) : head[j] = base[j]
                        /\ IF i < 3 THEN head[i] > base[i] ELSE head[i] >= base[i]

\* A parameter of the consumer's, not of main's, comes (back) with the branch.
Params(doc, op) ==
    LET ops == Document("openapi", doc).operations
    IN  IF op \in DOMAIN ops THEN DOMAIN ops[op].params ELSE {}
Reuses(kind, old, base, head) ==
    kind = "openapi" /\ \E op \in DOMAIN Document(kind, old).operations :
        (Params(old, op) \cap Params(head, op)) \ Params(base, op) # {}

SpecInit ==
    /\ dialect \in DOMAIN Documents
    /\ published = absent /\ consumed = absent
    /\ coordinated = FALSE /\ reused = FALSE

Breaks(kind, base, head) == Breaking \in diff(kind, Document(kind, base), Document(kind, head))

\* A branch changes the code, and with it the document, or its version; its
\* gate, run with or without --allow-breaking, exits 0, and it is merged.
gate(doc) ==
    \E breaking \in {Breaks(dialect, published.doc, doc)},
      version \in versions, allow \in BOOLEAN :
        LET head == [doc |-> doc, version |-> version]
            fails == breaking /\ ~acknowledged(published.version, version)
        IN  /\ head # published
            /\ NotOlder(published.version, version)
            /\ allow = fails  \* the flag, where nothing fails, changes nothing
            /\ published' = head
            /\ coordinated' = (coordinated \/ fails)
            /\ reused' = (reused \/ Reuses(dialect, consumed.doc, published.doc, doc))
            /\ UNCHANGED <<dialect, consumed>>

\* A consumer is built, from the document as it is published now.
Consume ==
    /\ consumed # published
    /\ consumed' = published /\ coordinated' = FALSE /\ reused' = FALSE
    /\ UNCHANGED <<dialect, published>>

SpecNext == (\E doc \in DOMAIN Documents[dialect] : gate(doc)) \/ Consume

-----------------------------------------------------------------------------
(* What a consumer of one document needs of the code that another is of: that *)
(* what it may say is accepted, and that it understands what it is told.  Of  *)
(* schemas, Accepts and Understands say so by the values that are exchanged.  *)

OpenApiServes(old, new) ==
    \A op \in DOMAIN old.operations :
        /\ op \in DOMAIN new.operations
        /\ LET o == old.operations[op]
               n == new.operations[op]
           IN  /\ \A k \in DOMAIN n.params :
                      IF k \in DOMAIN o.params
                      THEN n.params[k].type = o.params[k].type
                           /\ (n.params[k].required => o.params[k].required)
                      ELSE ~n.params[k].required
               /\ (o.body = None) = (n.body = None)
               /\ o.body # None => Accepts(old.defs, o.body, new.defs, n.body)
               /\ \A code \in DOMAIN o.responses :
                      code \in DOMAIN n.responses
                      /\ (o.responses[code] # None =>
                            Understands(old.defs, o.responses[code], new.defs, n.responses[code]))

AsyncApiServes(old, new) ==
    \A op \in DOMAIN old.operations :
        /\ op \in DOMAIN new.operations
        /\ LET o == old.operations[op]
               n == new.operations[op]
           IN  /\ n.action = o.action /\ n.address = o.address
               /\ o.payload # None =>
                    n.payload # None
                    /\ IF o.action = "send" THEN Understands(old.defs, o.payload, new.defs, n.payload)
                       ELSE Accepts(old.defs, o.payload, new.defs, n.payload)

McpServes(old, new) ==
    \A tool \in DOMAIN old.operations :
        /\ tool \in DOMAIN new.operations
        /\ LET o == old.operations[tool]
               n == new.operations[tool]
           IN  /\ Accepts(o.input.defs, o.input.schema, n.input.defs, n.input.schema)
               /\ o.output # None =>
                    n.output # None
                    /\ Understands(o.output.defs, o.output.schema, n.output.defs, n.output.schema)

\* What a GraphQL field can give or take: something, nothing, a list of nothing.
Gives(t) == {"some"} \cup (IF t.whole THEN {} ELSE {"null"})
                     \cup (IF t.item THEN {} ELSE {"item"})
Fits(giver, taker) == giver.shape = taker.shape /\ Gives(giver) \subseteq Gives(taker)
Given(olds, news) ==
    \A k \in DOMAIN olds : k \in DOMAIN news /\ Fits(news[k].type, olds[k].type)
Taken(olds, news) ==
    /\ \A k \in DOMAIN olds : k \in DOMAIN news /\ Fits(olds[k].type, news[k].type)
    /\ \A k \in DOMAIN news \ DOMAIN olds : ~news[k].type.whole

GraphQlServes(old, new) ==
    /\ \A name \in DOMAIN old.types :
           /\ name \in DOMAIN new.types
           /\ LET o == old.types[name]
                  n == new.types[name]
              IN  /\ n.kind = o.kind
                  /\ o.kind = "enum" => o.values \subseteq n.values
                  /\ o.kind = "input" => Taken(o.fields, n.fields)
                  /\ o.kind = "type" => Given(o.fields, n.fields)
    /\ Given(old.operations, new.operations)
    /\ \A op \in DOMAIN old.operations : Taken(old.operations[op].args, new.operations[op].args)

Serves(kind, old, new) ==
    CASE kind = "openapi"  -> OpenApiServes(old, new)
      [] kind = "asyncapi" -> AsyncApiServes(old, new)
      [] kind = "mcp"      -> McpServes(old, new)
      [] kind = "graphql"  -> GraphQlServes(old, new)

\* The versions `^from' stands for, as Cargo and npm read it.
SameSeries(from, to) ==
    None \in {from, to} \/ (from[1] = to[1] /\ (from[1] = 0 => from[2] = to[2]))

SpecSpec == SpecInit /\ [][SpecNext]_specVars

(* A consumer of any document that was published is served by the code of the *)
(* main branch, however many merges later, while the version stays in its     *)
(* series and no break was let through as coordinated: what it may say is     *)
(* accepted, and what it is told it understands.  Severities are decided pair *)
(* by pair, from schemas, by the direction of the data; nothing compares a    *)
(* consumer with code several merges on.                                      *)
ConsumersServed ==
    ~coordinated /\ ~reused /\ SameSeries(consumed.version, published.version)
        => Serves(dialect, Document(dialect, consumed.doc), Document(dialect, published.doc))
=============================================================================
