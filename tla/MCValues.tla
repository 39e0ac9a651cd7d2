-------------------------------- MODULE MCValues -------------------------------
(* The values that the codecs are checked on: small ones of every type, alone and in the   *)
(* containers, and the lengths around which an encoding changes its form.                  *)
EXTENDS Integers, Sequences

Times(n, x) == [i \in 1..n |-> x]

-----------------------------------------------------------------------------
(* BinaryPlist: integers around the widths of the (small) base, names that are the key of   *)
(* a TempObject, and a part that is shared.                                                 *)
Text(s) == [t |-> "string", s |-> s]
Whole(n) == [t |-> "int", n |-> n]
PlistNull == [t |-> "null"]
PlistArray(id, items) == [t |-> "array", id |-> id, items |-> items]
PlistDict(id, es) == [t |-> "dict", id |-> id, entries |-> es]

PlistAtoms == {[t |-> k] : k \in {"null", "true"}}
    \cup {Whole(n) : n \in {-9, -8, -3, -1, 0, 1, 2, 3, 4, 7, 8, 127, 128}}
    \cup {[t |-> "bigint", n |-> n] : n \in {-1, 2}} \cup {[t |-> "uid", n |-> n] : n \in {0, 3, 4, 15, 16}}
    \cup {[t |-> "real", s |-> <<7>>]} \cup {[t |-> "data", s |-> Times(n, 8)] : n \in {0, 3, 4, 5, 16}}
    \cup {Text(s) : s \in {<<>>, <<1>>, <<1, 2, 3, 0>>, <<9>>, <<9, 1, 9>>}}
PlistFew == {PlistNull, Whole(1), [t |-> "uid", n |-> 1], Text(<<9>>), PlistArray(9, <<PlistNull>>),
             PlistDict(8, <<<<<<0>>, PlistNull>>>>)}
PlistValues == PlistAtoms \cup {PlistArray(1, <<a>>) : a \in PlistAtoms}
    \cup {PlistArray(1, <<a, b, c>>) : a, b, c \in PlistFew}
    \cup {PlistArray(1, <<PlistArray(2, <<a>>), b>>) : a, b \in PlistFew}
    \cup {PlistArray(1, <<b, PlistArray(2, <<a>>)>>) : a, b \in PlistFew}
    \cup {PlistDict(1, <<<<<<1>>, a>>, <<<<2>>, b>>>>) : a, b \in PlistFew}
    \cup {PlistDict(1, <<<<<<0>>, a>>, <<<<3>>, b>>>>) : a, b \in PlistFew}
    \cup {PlistArray(1, [i \in 1..n |-> Whole(100 + i)]) : n \in 0..17}

-----------------------------------------------------------------------------
(* XpcWire: on stream 1 an empty message and strings of wide characters around a multiple   *)
(* of four; on stream 3 an array of the other types.                                        *)
XpcDict(es) == [t |-> "dict", entries |-> es]
XpcMessages == <<
    <<[t |-> "none"], XpcDict(<<<<<<"a">>, [t |-> "string", s |-> <<"x", "w", "y">>]>>,
                                <<<<"a", "b", "c">>, [t |-> "uint", n |-> 3]>>>>)>>,
    <<XpcDict(<<<<<<"k">>, [t |-> "array", items |-> <<[t |-> "data", s |-> <<1, 2, 3, 4>>], XpcDict(<<>>),
                                                       [t |-> "uuid", s |-> "u"], [t |-> "bool", n |-> 1]>>]>>,
                <<<<"b">>, [t |-> "null"]>>>>)>> >>

-----------------------------------------------------------------------------
(* PairingCodec: OPACK scalars at the edges of their forms, containers of 0, 1 and about 15; *)
(* TLV items that are cut, and neighbours of one type.                                       *)
OpackArray(items) == [t |-> "array", items |-> items]
OpackDict(n, v) == [t |-> "dict", entries |-> [i \in 1..n |-> <<<<i % 64, i \div 64>>, v>>]]
OpackNull == [t |-> "null"]
OpackLeafs == {[t |-> k] : k \in {"null", "true", "false"}}
    \cup {Whole(n) : n \in {0, 39, 40, 63, 64, 4095, 4096, 16777215, 16777216}} \cup {[t |-> "float", n |-> 9]}
    \cup {[t |-> k, s |-> Times(n, 5)] : k \in {"string", "bytes"}, n \in {0, 1, 32, 33, 63, 64, 70}}
OpackValues == OpackLeafs \cup {OpackArray(<<v>>) : v \in OpackLeafs} \cup {OpackDict(1, v) : v \in OpackLeafs}
    \cup {OpackArray(Times(n, v)) : n \in {0, 1, 14, 15, 16, 17}, v \in {OpackNull, Whole(3), OpackArray(<<>>), OpackDict(2, OpackNull)}}
    \cup {OpackDict(n, v) : n \in {0, 1, 14, 15, 16}, v \in {OpackNull, Whole(3), OpackArray(<<OpackNull>>)}}
TlvItems == {<<<<1, Times(a, 5)>>, <<2, Times(b, 5)>>, <<c, Times(a, 5)>>>> : a \in 0..7, b \in {0, 3, 4}, c \in {1, 2, 3}}

-----------------------------------------------------------------------------
(* KeyedArchive: two containers that refer to five nodes, themselves too; and objects with  *)
(* fields of their own.                                                                     *)
Refs == {<<>>} \cup {<<a>> : a \in 1..5} \cup {<<a, b>> : a, b \in 1..5}
Keys(s) == SubSeq(<<"a", "b">>, 1, Len(s))
Containers == {[k |-> k, items |-> s] : k \in {"array", "set"}, s \in Refs}
    \cup {[k |-> "dict", keys |-> Keys(s), items |-> s] : s \in Refs}
ArchiveText == [k |-> "text", s |-> "x"]
PlainGraphs == {<<a, b, ArchiveText, [k |-> "data"], c>> : a, b \in Containers, c \in {[k |-> "null"], [k |-> "number", v |-> 2]}}
FieldGraphs == {<<[k |-> "fields", keys |-> Keys(s), items |-> s], c, ArchiveText, [k |-> "number", v |-> 3], [k |-> "uuid"]>>
    : s \in {u \in Refs : \A i \in DOMAIN u : u[i] # 1}, c \in {[k |-> "url", items |-> <<3, 3>>], [k |-> "array", items |-> <<3>>]}}
AllGraphs == PlainGraphs \cup FieldGraphs
=============================================================================
