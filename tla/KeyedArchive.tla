------------------------------ MODULE KeyedArchive ------------------------------
(* NSKeyedArchiver: nskeyedarchiver-encoder.ts with the classes testmanagerd adds to it,  *)
(* and nskeyedarchiver-decoder.ts. What is archived is a graph of nodes: it may share its *)
(* nodes and have cycles. Between the two is a binary plist, which keeps no difference    *)
(* between a reference and a number. Contents of strings and data are only told apart.    *)
EXTENDS Integers, Sequences, SequencesExt

CONSTANTS
    Graphs,     \* bound: what is archived, node 1 being the root
    MaxDepth    \* MAX_DECODE_DEPTH

VARIABLE archived     \* the graph, the objects written for it, what is read of them

\* A node: "null"; "text" with s; "number" with v; "data"; "array", "set" with items, the numbers
\* of its nodes; "dict", "fields" (XCTestConfiguration) with keys and items; "url" with the
\* items base and relative; "uuid"; "capabilities" with one item, a dict.
NullMark == [k |-> "text", s |-> "$null"]
Null == [k |-> "null"]
Bytes == [k |-> "data"]
InlineData == 0 - 1   \* data in an object that is not a reference
Number(n) == [k |-> "number", v |-> n]
Classes == {"NSArray", "NSSet", "NSDictionary", "NSMutableData", "NSURL", "NSUUID", "XCTestConfiguration", "XCTCapabilities"}
ClassOf(k) == CASE k = "array" -> "NSArray" [] k = "set" -> "NSSet" [] k = "dict" -> "NSDictionary" [] k = "data" -> "NSMutableData"
                [] k = "url" -> "NSURL" [] k = "uuid" -> "NSUUID" [] k = "fields" -> "XCTestConfiguration" [] k = "capabilities" -> "XCTCapabilities"

-----------------------------------------------------------------------------
(* Encoding. The encoder has the objects, counted from 0, the index of what is cached and *)
(* the index of a class; archiving gives an encoder and an index.                         *)

Encoder == [objects |-> <<NullMark>>, cached |-> <<>>, classes |-> <<>>]
Pushed(e, object) == [e EXCEPT !.objects = Append(@, object)]
With(f, x, y) == [z \in DOMAIN f \cup {x} |-> IF z = x THEN y ELSE f[z]]

GetClassUid(e, k) ==
    LET class == ClassOf(k)
    IN IF class \in DOMAIN e.classes THEN [e |-> e, uid |-> e.classes[class]]
       ELSE [e |-> [Pushed(e, [k |-> "class", s |-> class]) EXCEPT !.classes = With(@, class, Len(e.objects))],
             uid |-> Len(e.objects)]

\* Only arrays, sets, dictionaries and data are cached, and before what they hold.
Caches(k) == k \in {"array", "set", "dict", "data"}
\* Booleans and numbers are the only fields that are stored inline.
Inline(g, node, ref) == node.k = "fields" /\ g[ref].k = "number"

RECURSIVE ArchiveObject(_, _, _), ArchiveAll(_, _, _, _)
ArchiveAll(e, g, node, refs) ==
    IF refs = <<>> THEN [e |-> e, uids |-> <<>>]
    ELSE LET one == IF Inline(g, node, refs[1]) THEN [e |-> e, uid |-> g[refs[1]].v] ELSE ArchiveObject(e, g, refs[1])
             more == ArchiveAll(one.e, g, node, Tail(refs))
         IN [e |-> more.e, uids |-> <<one.uid>> \o more.uids]

ArchiveKeys(e, keys) == [e |-> [e EXCEPT !.objects = @ \o [i \in DOMAIN keys |-> [k |-> "text", s |-> keys[i]]]],
                         uids |-> [i \in DOMAIN keys |-> Len(e.objects) + i - 1]]

ArchiveObject(e, g, ref) ==
    LET node == g[ref]
        index == Len(e.objects)
        cached == IF Caches(node.k) THEN [e EXCEPT !.cached = With(@, ref, index)] ELSE e
        placed == Pushed(cached, NullMark)
        keys == IF node.k = "dict" THEN ArchiveKeys(placed, node.keys) ELSE [e |-> placed, uids |-> <<>>]
        items == IF node.k \in {"data", "uuid"} THEN [e |-> placed, uids |-> <<>>] ELSE ArchiveAll(keys.e, g, node, node.items)
        class == GetClassUid(items.e, node.k)
        names == CASE node.k = "fields" -> node.keys [] node.k = "url" -> <<"base", "relative">>
                   [] node.k = "capabilities" -> <<"capabilities-dictionary">> [] OTHER -> <<>>
        object == CASE node.k \in {"array", "set"} -> [k |-> "array", items |-> items.uids]
                    [] node.k = "dict" -> [k |-> "dict", keys |-> keys.uids, items |-> items.uids]
                    [] node.k \in {"data", "uuid"} -> [k |-> "object", keys |-> <<node.k>>, items |-> <<InlineData>>]
                    [] OTHER -> [k |-> "object", keys |-> names, items |-> items.uids]
    IN IF node.k = "null" THEN [e |-> e, uid |-> 0]
       ELSE IF node.k \in {"text", "number"} THEN [e |-> Pushed(e, node), uid |-> index]
       ELSE IF ref \in DOMAIN e.cached THEN [e |-> e, uid |-> e.cached[ref]]
       ELSE [e |-> [class.e EXCEPT !.objects[index + 1] = object], uid |-> index]

-----------------------------------------------------------------------------
(* Decoding. The decoder has what was decoded and the objects it is in the middle of.     *)
(* Values: Null, a text or number node, Bytes, an array, a record of named values.        *)

Array(values) == [k |-> "array", items |-> values]
Record(keys, values) == [k |-> "record", entries |-> {<<keys[i], values[i]>> : i \in DOMAIN keys}]
Given(d, v) == [d |-> d, v |-> v]
\* Mutant: an object that was decoded stays among those being decoded.
StaysVisited(d, index) == d
Leaves(d, index) == [d EXCEPT !.visited = @ \ {index}]

RECURSIVE DecodeObject(_, _, _, _), DecodeAll(_, _, _, _), ResolveAll(_, _, _, _)
DecodeAll(d, objects, refs, depth) ==
    IF refs = <<>> THEN Given(d, <<>>)
    ELSE LET one == DecodeObject(d, objects, refs[1], depth) more == DecodeAll(one.d, objects, Tail(refs), depth)
         IN Given(more.d, <<one.v>> \o more.v)

\* A number in any other object: a reference, where there is an object at that index.
Resolves(d, objects, n) == /\ n \in 0..(Len(objects) - 1) /\ n \notin d.visited
                           /\ objects[n + 1].k \notin {"text", "number"}
ResolveAll(d, objects, fields, depth) ==
    IF fields = <<>> THEN Given(d, <<>>)
    ELSE LET value == fields[1]
             one == IF value = InlineData THEN Given(d, Bytes)
                    ELSE IF Resolves(d, objects, value) THEN DecodeObject(d, objects, value, depth)
                    ELSE Given(d, Number(value))
             more == ResolveAll(one.d, objects, Tail(fields), depth)
         IN Given(more.d, <<one.v>> \o more.v)

DecodeObject(d, objects, index, depth) ==
    LET object == objects[index + 1]
        into == [d EXCEPT !.visited = @ \cup {index}]
        Keep(all, v) == Given(Leaves([all.d EXCEPT !.decoded = With(@, index, v)], index), v)
        items == IF object.k = "object" THEN ResolveAll(into, objects, object.items, depth + 1)
                 ELSE DecodeAll(into, objects, object.items, depth + 1)
        keyed == DecodeAll(into, objects, object.keys \o object.items, depth + 1)
        n == Len(object.keys)
    IN IF depth > MaxDepth \/ index \in d.visited THEN Given(d, Null)
       ELSE IF index \in DOMAIN d.decoded THEN Given(d, d.decoded[index])
       ELSE CASE object.k \in {"text", "number"} -> Given(d, IF object = NullMark THEN Null ELSE object)
              [] object.k = "class" -> Keep(Given(into, object), object)
              [] object.k = "dict" -> Keep(keyed, Record([i \in 1..n |-> keyed.v[i].s], SubSeq(keyed.v, n + 1, 2 * n)))
              [] object.k = "array" -> Keep(items, Array(items.v))
              [] object.k = "object" -> Keep(items, Record(object.keys, items.v))

DecodeRoot(objects, root) == DecodeObject([decoded |-> <<>>, visited |-> {}], objects, root, 0).v

-----------------------------------------------------------------------------
ArchiveInit == archived \in {[graph |-> g, objects |-> <<>>, root |-> 0, value |-> Null, at |-> "given"] : g \in Graphs}

Encode == /\ archived.at = "given"
          /\ LET all == ArchiveObject(Encoder, archived.graph, 1)
             IN archived' = [archived EXCEPT !.objects = all.e.objects, !.root = all.uid, !.at = "encoded"]
DecodeArchive == /\ archived.at = "encoded"
                 /\ archived' = [archived EXCEPT !.value = DecodeRoot(archived.objects, archived.root), !.at = "decoded"]
ArchiveNext == Encode \/ DecodeArchive
ArchiveSpec == ArchiveInit /\ [][ArchiveNext]_archived

-----------------------------------------------------------------------------
\* What a graph without cycles stands for; a set is read as an array.
RECURSIVE Tree(_, _), Reaches(_, _, _)
Tree(g, ref) ==
    LET node == g[ref]
        items == IF node.k \in {"data", "uuid", "null", "text", "number"} THEN <<>> ELSE [i \in DOMAIN node.items |-> Tree(g, node.items[i])]
    IN CASE node.k = "null" -> Null
         [] node.k \in {"text", "number"} -> node
         [] node.k \in {"data", "uuid"} -> Record(<<node.k>>, <<Bytes>>)
         [] node.k \in {"array", "set"} -> Array(items)
         [] node.k \in {"dict", "fields"} -> Record(node.keys, items)
         [] node.k = "url" -> Record(<<"base", "relative">>, items)
         [] node.k = "capabilities" -> Record(<<"capabilities-dictionary">>, items)

Refs(node) == IF "items" \in DOMAIN node THEN ToSet(node.items) ELSE {}
Reaches(g, from, seen) == LET next == (UNION {Refs(g[r]) : r \in from}) \cup from
                          IN IF next = seen THEN seen ELSE Reaches(g, next, next)
Below(g) == Reaches(g, {1}, {})
Acyclic(g) == \A r \in Below(g) : r \notin Reaches(g, Refs(g[r]), {})
Plain(g) == \A r \in Below(g) : g[r].k \notin {"fields", "url", "capabilities"}
Read == archived.at = "decoded"

-----------------------------------------------------------------------------
\* However its nodes are shared, what is archived of arrays, sets, dictionaries and data is
\* what is decoded.
ArchiveKept == Read /\ Plain(archived.graph) /\ Acyclic(archived.graph) => archived.value = Tree(archived.graph, 1)

\* The comment of the decoder: any other object is returned as it is, its references resolved.
FieldsKept == Read /\ Acyclic(archived.graph) => archived.value = Tree(archived.graph, 1)
=============================================================================
