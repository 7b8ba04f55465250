-------------------------------- MODULE MCSpecs --------------------------------
(* Documents for SpecGate: of each dialect one operation or two, and what one  *)
(* revision can change about them, one thing at a time.                        *)
EXTENDS Schemas, TLC

\* The generator's schemas.  A string's values are listed or it has none; see
\* the README for the changes the comparison does not see, which are left out.
Schema(type) == [Anything EXCEPT !.type = type]
Text == Schema("string")
Number == Schema("integer")
Enum(vs) == [Text EXCEPT !.values = vs]
Array(items) == [Schema("array") EXCEPT !.items = items]
Obj(props, required) == [Schema("object") EXCEPT !.props = props, !.required = required]
Ref(name) == [Anything EXCEPT !.ref = name]

\* Objects, of which one property after another is optional, required, of
\* another type, restricted or gone.
Bodies ==
  {Obj("k" :> Text, {}), Obj("k" :> Text, {"k"}), Obj("k" :> Number, {}),
   Obj("k" :> Text @@ "l" :> Text, {}), Obj("k" :> Text @@ "l" :> Text, {"l"}),
   Obj("e" :> Enum({"a"}), {}), Obj("e" :> Enum({"a", "b"}), {"e"}),
   Array(Obj("k" :> Text, {}))}
Plain == Obj("k" :> Text, {})

\* A schema that refers to itself.
Nodes == {"Node" :> Obj("next" :> Ref("Node") @@ "k" :> s, r) : s \in {Text, Number}, r \in {{}, {"k"}}}

-----------------------------------------------------------------------------
Param(required, type) == [required |-> required, type |-> type]
Op(params, body, responses) == [params |-> params, body |-> body, responses |-> responses]
Api(op, defs) == [operations |-> op, types |-> <<>>, defs |-> defs]
Get == Op(<<>>, None, "200" :> Plain)

OpenApi ==
  {Api("get" :> [Get EXCEPT !.params = ps], <<>>) :
      ps \in {<<>>, "q" :> Param(FALSE, "string"), "q" :> Param(TRUE, "string"),
              "q" :> Param(FALSE, "integer")}}
  \cup {Api("get" :> Get @@ "put" :> Op(<<>>, b, "204" :> None), <<>>) :
      b \in Bodies \cup {None}}
  \cup {Api("get" :> [Get EXCEPT !.responses = "200" :> b], <<>>) : b \in Bodies}
  \cup {Api("get" :> [Get EXCEPT !.responses = @ @@ "404" :> None], <<>>)}
  \cup {Api("get" :> Get @@ "put" :> Op(<<>>, Ref("Node"), "200" :> Ref("Node")), d) : d \in Nodes}

-----------------------------------------------------------------------------
Event(action, address, payload) ==
  "event" :> [action |-> action, address |-> address, payload |-> payload]

AsyncApi ==
  {Api(Event("send", "orders", b), <<>>) : b \in Bodies}
  \cup {Api(Event("receive", "orders", b), <<>>) : b \in {Plain, Obj("k" :> Text, {"k"})}}
  \cup {Api(Event("send", at, b), <<>>) : at \in {"orders", "orders/2"}, b \in {None, Plain}}
  \cup {Api(<<>>, <<>>)}

-----------------------------------------------------------------------------
Root(schema) == [defs |-> <<>>, schema |-> schema]
Tool(input, output) == [input |-> input, output |-> output]

Mcp ==
  {Api("find" :> Tool(Root(b), Root(Plain)), <<>>) : b \in Bodies}
  \cup {Api("find" :> Tool(Root(Plain), Root(b)), <<>>) : b \in Bodies}
  \cup {Api("find" :> Tool(Root(Plain), out), <<>>) :
          out \in {None} \cup {[defs |-> d, schema |-> Ref("Node")] : d \in Nodes}}
  \cup {Api("find" :> Tool(Root(Plain), None) @@ "drop" :> Tool(Root(Plain), None), <<>>)}

-----------------------------------------------------------------------------
Type(shape, item, whole) == [type |-> [shape |-> shape, item |-> item, whole |-> whole]]
Lists == {Type("[T]", FALSE, FALSE), Type("[T]", TRUE, TRUE)}
Scalars == {Type("T", FALSE, w) : w \in BOOLEAN} \cup {Type("U", FALSE, FALSE)}
FieldSets == {"k" :> t : t \in Scalars \cup Lists}
             \cup {"k" :> Type("T", FALSE, FALSE) @@ "l" :> t : t \in Scalars}
Decl(kind, fields, vs) == [kind |-> kind, fields |-> fields, values |-> vs]
Field(type, args) == [type |-> type.type, args |-> args]
Graph(types, ops) == [operations |-> ops, types |-> types, defs |-> <<>>]
Query == "query" :> Field(Type("T", FALSE, FALSE), <<>>)

GraphQl ==
  {Graph("T" :> Decl(kind, fs, {}), Query) : kind \in {"type", "input"}, fs \in FieldSets}
  \cup {Graph("E" :> Decl("enum", <<>>, vs), Query) : vs \in {{"a"}, {"a", "b"}}}
  \cup {Graph("E" :> Decl("scalar", <<>>, {}), Query)}
  \cup {Graph(<<>>, "query" :> Field(t, args)) : t \in Scalars, args \in {<<>>} \cup FieldSets}
  \cup {Graph(<<>>, Query @@ "other" :> Field(Type("T", FALSE, FALSE), <<>>))}

OneByOne(docs) == FoldSet(LAMBDA doc, seq : Append(seq, doc), <<>>, docs)

Generated ==
  [openapi |-> OneByOne(OpenApi), asyncapi |-> OneByOne(AsyncApi),
   mcp |-> OneByOne(Mcp), graphql |-> OneByOne(GraphQl)]

Released == {<<0, 1, 0>>, <<0, 1, 1>>, <<0, 2, 0>>, <<1, 1, 0>>, <<1, 2, 0>>}
=============================================================================
