------------------------------- MODULE Schemas -------------------------------
(* Schemas: how two of them are compared, and what who goes by one says and     *)
(* understands (soothfast-spec: compat).  Both are recursive, and Compat and    *)
(* SpecGate take them as constants.                                             *)
(*                                                                              *)
(* A schema is a record; what it leaves out is None, {} or <<>>.  A document    *)
(* has its shared schemas, `defs'.                                              *)
EXTENDS Severities, Naturals, Sequences, SequencesExt

\* The schema that says nothing.
Anything == [ref |-> None, type |-> None, items |-> None, props |-> <<>>,
             required |-> {}, values |-> {}]

Deref(defs, s) == IF s.ref # None /\ s.ref \in DOMAIN defs THEN defs[s.ref] ELSE s

Elements(s) == IF s.items = None THEN Anything ELSE s.items

\* A pair of references is compared once in one comparison: `acc' has what was
\* found and the pairs that were seen.
RECURSIVE walk(_, _, _, _, _, _)
walk(oldDefs, newDefs, dir, old, new, acc) ==
    LET pair == <<old.ref, new.ref>>
        named == pair # <<None, None>>
        o == Deref(oldDefs, old)
        n == Deref(newDefs, new)
        marked == IF named THEN [acc EXCEPT !.seen = @ \cup {pair}] ELSE acc
        Found(a, severities) == [a EXCEPT !.found = @ \cup severities]
        Property(name, a) ==
            IF name \notin DOMAIN n.props THEN Found(a, {Breaking})
            ELSE IF name \notin DOMAIN o.props
            THEN Found(a, {IF dir = "request" /\ name \in n.required
                           THEN Breaking ELSE Additive})
            ELSE walk(oldDefs, newDefs, dir, o.props[name], n.props[name],
                      Found(a, Requiredness(dir, name \in o.required, name \in n.required)))
    IN  IF named /\ pair \in acc.seen THEN acc
        ELSE IF o.type # n.type THEN Found(marked, {Breaking})
        ELSE IF o.type = "array"
        THEN walk(oldDefs, newDefs, dir, Elements(o), Elements(n), marked)
        ELSE Found(FoldSet(Property, marked, DOMAIN o.props \cup DOMAIN n.props),
                   compare_enum(o, n))

SchemaDiff(oldDefs, newDefs, dir, old, new) ==
    walk(oldDefs, newDefs, dir, old, new, [found |-> {}, seen |-> {}]).found

-----------------------------------------------------------------------------
(* What a consumer and the code it talks to say to each other: values, of a   *)
(* bounded depth, and not schemas.                                            *)

\* The values a property with nothing said of them can have, by type.
Free == [string |-> {"a", "b", "z"}, integer |-> {"1", "2"}]

Atom(type, v) == [type |-> type, is |-> v, elems |-> <<>>, fields |-> <<>>]
List(elems) == [type |-> "array", is |-> None, elems |-> elems, fields |-> <<>>]
Object(fields) == [type |-> "object", is |-> None, elems |-> <<>>, fields |-> fields]

RECURSIVE Meant(_, _)
Meant(defs, s) == IF s.ref = None THEN s ELSE Meant(defs, defs[s.ref])

\* What someone who goes by a schema can say.
RECURSIVE Says(_, _, _)
Says(defs, schema, depth) ==
    LET s == Meant(defs, schema)
        Of(k) == Says(defs, s.props[k], depth - 1)
        Present == {ks \in SUBSET DOMAIN s.props : s.required \subseteq ks}
    IN  IF s.type \in {"array", "object"} /\ depth = 0 THEN {}
        ELSE CASE s.type = "array" -> {List(<<>>)} \cup {List(<<v>>) : v \in Says(defs, Elements(s), depth - 1)}
               [] s.type = "object" ->
                    {Object(fs) : fs \in UNION {{h \in [ks -> UNION {Of(k) : k \in ks}] :
                                                  \A k \in ks : h[k] \in Of(k)} : ks \in Present}}
               [] OTHER -> {Atom(s.type, v) : v \in IF s.values = {} THEN Free[s.type] ELSE s.values}

\* Whether someone who goes by a schema understands it.  Readers are told to
\* expect values that are new; what we accept is what we list.
RECURSIVE Reads(_, _, _, _)
Reads(defs, schema, dir, v) ==
    LET s == Meant(defs, schema)
    IN  /\ v.type = s.type
        /\ \A i \in DOMAIN v.elems : Reads(defs, Elements(s), dir, v.elems[i])
        /\ s.required \subseteq DOMAIN v.fields
        /\ \A k \in DOMAIN v.fields \cap DOMAIN s.props : Reads(defs, s.props[k], dir, v.fields[k])
        /\ dir = "request" /\ s.values # {} => v.is \in s.values

Depth == 3
Accepted(olds, old, news, new) == \A v \in Says(olds, old, Depth) : Reads(news, new, "request", v)
Understood(olds, old, news, new) == \A v \in Says(news, new, Depth) : Reads(olds, old, "response", v)
==============================================================================
