------------------------------ MODULE BinaryPlist ------------------------------
(* Binary property lists (lib/plist): a value is written as a table of objects that      *)
(* refer to one another by number, and read back in three passes. A file is a sequence   *)
(* of cells: the marker of an object, a byte of a number, a piece of opaque content. The *)
(* base of the bytes is a parameter, so that every boundary of the format is near.       *)
EXTENDS Integers, Sequences, SequencesExt

CONSTANTS
    Base,        \* values of a byte: 256
    Inline,      \* the first length that does not fit in a marker: 15
    Magic,       \* length of the magic and version: 8
    TypeKey,     \* the key "type"
    ValueKey,    \* the key "value"
    Plists       \* bound: the values written

\* A value: [t |-> "null"], "true", "false"; int, bigint and uid with n; string (characters),
\* data and real (or a date) with s; array and dict with an identity, items, or entries <<key, value>>.

VARIABLE bplist  \* the value, the file created of it, what was parsed, where it is

plistVars == <<bplist>>

RECURSIVE Pow(_, _)
Pow(b, n) == IF n = 0 THEN 1 ELSE b * Pow(b, n - 1)
Byte(n) == <<"byte", n>>
Digits(n, w) == [i \in 1..w |-> Byte(((n % Pow(Base, w)) \div Pow(Base, w - i)) % Base)]
Mark(t, info) == <<t, info>>
String(s) == [t |-> "string", s |-> s]
MinByteSize(n) == IF n < Base THEN 1 ELSE IF n < Pow(Base, 2) THEN 2 ELSE IF n < Pow(Base, 4) THEN 4 ELSE 8

-----------------------------------------------------------------------------
(* BinaryPlistCreator.                                                           *)

Children(v) == IF v.t = "array" THEN v.items
               ELSE IF v.t = "dict" THEN FlattenSeq([i \in DOMAIN v.entries |-> <<String(v.entries[i][1]), v.entries[i][2]>>])
               ELSE <<>>

\* _collectObjectsRecursive: depth first, each object once.
RECURSIVE Collect(_, _)
Collect(table, v) ==
    IF v \in Range(table) THEN table ELSE FoldLeft(Collect, Append(table, v), Children(v))

\* The length is in the marker or follows it.
IntHeader(n) == LET w == IF n < Base THEN 0 ELSE IF n < Pow(Base, 2) THEN 1 ELSE 2
                IN <<Mark("int", w)>> \o Digits(n, Pow(2, w))
Sized(t, n) == IF n < Inline THEN <<Mark(t, n)>> ELSE <<Mark(t, Inline)>> \o IntHeader(n)

\* Numbers take the smallest representation; from 0 to Base - 1 it is one without a sign.
\* Mutant: the first number that is too large is taken to fit.
FitsAlmost(n, w) == -(Pow(Base, w) \div 2) <= n /\ n <= Pow(Base, w) \div 2
Fits(n, w) == -(Pow(Base, w) \div 2) <= n /\ n < Pow(Base, w) \div 2
Integer(n) == LET w == IF n \in 0..(Base - 1) \/ Fits(n, 1) THEN 0 ELSE IF Fits(n, 2) THEN 1 ELSE IF Fits(n, 4) THEN 2 ELSE 3
              IN <<Mark("int", w)>> \o Digits(n, Pow(2, w))
Uid(n) == LET w == IF n < Base THEN 0 ELSE IF n < Pow(Base, 2) THEN 1 ELSE 2
          IN <<Mark("uid", w)>> \o Digits(n, Pow(2, w))

Text(s) == IF \A i \in DOMAIN s : s[i] < Base THEN Sized("ascii", Len(s)) \o [i \in DOMAIN s |-> Byte(s[i])]
           ELSE Sized("unicode", Len(s)) \o FlattenSeq([i \in DOMAIN s |-> Digits(s[i], 2)])

Ref(table, size, v) == Digits((CHOOSE i \in DOMAIN table : table[i] = v) - 1, size)
Refs(table, size, vs) == FlattenSeq([i \in DOMAIN vs |-> Ref(table, size, vs[i])])

\* _createObjectData
ObjectData(table, size, v) ==
    CASE v.t = "int" -> Integer(v.n)
      [] v.t = "bigint" -> <<Mark("int", 3)>> \o Digits(v.n, 8)
      [] v.t = "uid" -> Uid(v.n)
      [] v.t = "real" -> <<Mark("real", 3)>> \o [i \in 1..8 |-> <<"raw", v.s>>]
      [] v.t = "data" -> Sized("data", Len(v.s)) \o [i \in DOMAIN v.s |-> <<"raw", v.s[i]>>]
      [] v.t = "string" -> Text(v.s)
      [] v.t = "array" -> Sized("array", Len(v.items)) \o Refs(table, size, v.items)
      [] v.t = "dict" -> Sized("dict", Len(v.entries)) \o Refs(table, size, [i \in DOMAIN v.entries |-> String(v.entries[i][1])])
                                                       \o Refs(table, size, [i \in DOMAIN v.entries |-> v.entries[i][2]])
      [] OTHER -> <<Mark(v.t, 0)>>

\* create: the size of an offset is computed from the length of the objects; an offset that
\* does not fit is refused by the buffer it is written to.
Create(v) ==
    LET table == Collect(<<>>, v)
        refSize == MinByteSize(Len(table) - 1)
        data == [i \in DOMAIN table |-> ObjectData(table, refSize, table[i])]
        all == FlattenSeq(data)
        offsets == [i \in DOMAIN table |-> Magic + Len(FlattenSeq(SubSeq(data, 1, i - 1)))]
        offsetSize == MinByteSize(Len(all))
    IN IF \E i \in DOMAIN offsets : offsets[i] >= Pow(Base, offsetSize) THEN [refused |-> TRUE]
       ELSE [refused |-> FALSE, cells |-> all \o FlattenSeq([i \in DOMAIN offsets |-> Digits(offsets[i], offsetSize)]),
             offsetSize |-> offsetSize, refSize |-> refSize, objects |-> Len(table), tableAt |-> Magic + Len(all)]

-----------------------------------------------------------------------------
(* BinaryPlistParser. Positions in the file start at 0 with the magic.           *)

Cell(file, at) == file.cells[at - Magic + 1]
\* Where a marker is read as a byte, some number.
ByteAt(file, at) == IF Cell(file, at)[1] = "byte" THEN Cell(file, at)[2] ELSE 0

RECURSIVE Number(_, _, _)
Number(file, at, w) == IF w = 0 THEN 0 ELSE Number(file, at, w - 1) * Base + ByteAt(file, at + w - 1)
Signed(n, w) == IF n < Pow(Base, w) \div 2 THEN n ELSE n - Pow(Base, w)

ObjectAt(file, i) == Number(file, file.tableAt + i * file.offsetSize, file.offsetSize)
Info(file, i) == Cell(file, ObjectAt(file, i))[2]
LongLength(file, i) == Info(file, i) = Inline
LengthWidth(file, i) == Pow(2, Cell(file, ObjectAt(file, i) + 1)[2])

\* _parseObjects: where the content starts and its length.
Start(file, i) == ObjectAt(file, i) + 1 + (IF LongLength(file, i) THEN 1 + LengthWidth(file, i) ELSE 0)
Length(file, i) == IF LongLength(file, i) THEN Number(file, ObjectAt(file, i) + 2, LengthWidth(file, i)) ELSE Info(file, i)

\* _parseObjectByType, of what is no container.
Atom(file, i) ==
    LET t == Cell(file, ObjectAt(file, i))[1] w == Pow(2, Info(file, i))
        at == Start(file, i) n == Length(file, i)
    IN CASE t = "int" -> [t |-> "int", n |-> Signed(Number(file, at, w), w)]
         [] t = "uid" -> [t |-> "uid", n |-> Number(file, at, Info(file, i) + 1)]
         [] t = "real" -> [t |-> "real", s |-> Cell(file, at)[2]]
         [] t = "data" -> [t |-> "data", s |-> [k \in 1..n |-> Cell(file, at + k - 1)[2]]]
         [] t = "ascii" -> String([k \in 1..n |-> ByteAt(file, at + k - 1)])
         [] t = "unicode" -> String([k \in 1..n |-> Number(file, at + 2 * (k - 1), 2)])
         [] OTHER -> [t |-> t]

Kind(file, i) == Cell(file, ObjectAt(file, i))[1]
ReadRef(file, i, j) == Number(file, Start(file, i) + j * file.refSize, file.refSize)

\* _isTempObject, of a dictionary that has been resolved: it has a key "type".
LooksTemporary(v) == v.t = "dict" /\ \E k \in DOMAIN v.entries : v.entries[k][1] = TypeKey
Field(v, key) == IF \E k \in DOMAIN v.entries : v.entries[k][1] = key
                 THEN v.entries[CHOOSE k \in DOMAIN v.entries : v.entries[k][1] = key][2] ELSE [t |-> "undefined"]

\* _resolveReferences, by increasing number: an object with a smaller number is resolved by
\* then, one with a larger number is still the temporary one, to be filled.
RECURSIVE Resolved(_, _)
Resolved(file, i) ==
    LET Referred(j) == LET v == Resolved(file, ReadRef(file, i, j))
                       IN IF ReadRef(file, i, j) < i /\ LooksTemporary(v) THEN Field(v, ValueKey) ELSE v
        n == Length(file, i)
    IN CASE Kind(file, i) = "array" -> [t |-> "array", items |-> [j \in 1..n |-> Referred(j - 1)]]
         [] Kind(file, i) = "dict" -> [t |-> "dict", entries |-> [j \in 1..n |-> <<Referred(j - 1).s, Referred(n + j - 1)>>]]
         [] OTHER -> Atom(file, i)

\* _handleTopObject; its other case, an empty object that is not alone, is never written.
Parse(file) == LET top == Resolved(file, 0) IN IF LooksTemporary(top) THEN Field(top, ValueKey) ELSE top

-----------------------------------------------------------------------------
PlistInit == bplist \in {[value |-> v, file |-> [refused |-> FALSE], parsed |-> [t |-> "none"], at |-> "given"] : v \in Plists}

Creates == /\ bplist.at = "given"
           /\ LET file == Create(bplist.value)
              IN bplist' = [bplist EXCEPT !.file = file, !.at = IF file.refused THEN "refused" ELSE "created"]

Parses == /\ bplist.at = "created"
          /\ bplist' = [bplist EXCEPT !.parsed = Parse(bplist.file), !.at = "parsed"]

PlistNext == Creates \/ Parses
PlistSpec == PlistInit /\ [][PlistNext]_plistVars

\* What a value means, without the identity of its containers.
RECURSIVE Plain(_)
Plain(v) == CASE v.t = "array" -> [t |-> "array", items |-> [i \in DOMAIN v.items |-> Plain(v.items[i])]]
              [] v.t = "dict" -> [t |-> "dict", entries |-> [i \in DOMAIN v.entries |-> <<v.entries[i][1], Plain(v.entries[i][2])>>]]
              [] v.t = "bigint" -> [t |-> "int", n |-> v.n]
              [] OTHER -> v

\* The code misreads integers of a byte without a sign, long UIDs and dictionaries with "type".
Misread(v) == \/ v.t = "int" /\ v.n \in (Base \div 2)..(Base - 1)
              \/ v.t = "uid" /\ v.n >= Pow(Base, 2)
              \/ LooksTemporary(v)

-----------------------------------------------------------------------------
\* What was written is read back, whatever is shared, and however many objects, and bytes,
\* there are, as long as it holds none of what is known to be misread; and it is refused only
\* where the last offsets pass the largest of their size by the magic, which was not counted.
PlistKept ==
    LET objects == Collect(<<>>, bplist.value)
        length == Len(FlattenSeq([i \in DOMAIN objects |-> ObjectData(objects, MinByteSize(Len(objects) - 1), objects[i])]))
    IN /\ bplist.at = "parsed" /\ (\A v \in Range(objects) : ~Misread(v)) => bplist.parsed = Plain(bplist.value)
       /\ bplist.at = "refused" => \E w \in {1, 2, 4} : length < Pow(Base, w) /\ length + Magic > Pow(Base, w)

\* What is parsed of a dictionary is a dictionary.
DictStaysDict == bplist.at = "parsed" /\ bplist.value.t = "dict" => bplist.parsed.t = "dict"
=============================================================================
