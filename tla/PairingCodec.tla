------------------------------ MODULE PairingCodec ------------------------------
(* The encodings of Apple TV pairing: OPACK2 (lib/apple-tv/encryption/opack2.ts) and     *)
(* TLV8 (lib/apple-tv/tlv). In OPACK2 a marker holds a small number or length itself, or *)
(* says how long the one is that follows; markers are the numbers of the format. Bytes   *)
(* have a smaller base, so that each width of a length is exceeded.                      *)
EXTENDS Integers, Sequences, SequencesExt

CONSTANTS
    Base,       \* values of a byte: 256
    Fragment,   \* TLV8_MAX_FRAGMENT_SIZE: 255
    Values,     \* bound: what is serialized
    Items       \* bound: lists of TLV8 items <<type, data>>

VARIABLE pairing   \* what was given, its encoding, what is read of it

SmallInt == 39  SmallLength == 32  SmallCount == 15   \* OPACK2_SMALL_*_MAX
IntAt == 8  StringAt == 64  BytesAt == 112            \* OPACK2_SMALL_*_BASE, _OFFSET
ArrayAt == 208  VariableArray == 223  DictAt == 224  VariableDict == 239

\* A value: [t |-> "null"]; true, false; int and float with n; string, bytes with s; array
\* with items; dict with entries <<key, value>>. A cell: a marker or a byte.
Null == [t |-> "null"]
Bad == [t |-> "bad"]
Marker(n) == <<<<"marker", n>>>>
Raw(s) == [i \in DOMAIN s |-> <<"raw", s[i]>>]

RECURSIVE LittleEndian(_, _), FromLittleEndian(_), Pow(_, _)
LittleEndian(n, w) == IF w = 0 THEN <<>> ELSE <<<<"raw", n % Base>>>> \o LittleEndian(n \div Base, w - 1)
FromLittleEndian(s) == IF s = <<>> THEN 0 ELSE s[1][2] + Base * FromLittleEndian(Tail(s))
Pow(b, n) == IF n = 0 THEN 1 ELSE b * Pow(b, n - 1)
UintMax(w) == Pow(Base, w) - 1

-----------------------------------------------------------------------------
(* Opack2.dumps.                                                                 *)

EncodeNumber(n) ==
    IF n <= SmallInt THEN Marker(IntAt + n)
    ELSE IF n <= UintMax(1) THEN Marker(48) \o LittleEndian(n, 1)
    ELSE IF n <= UintMax(4) THEN Marker(50) \o LittleEndian(n, 4)
    ELSE Marker(51) \o LittleEndian(n, 8)

\* encodeString, encodeBytes: a marker with the length, or one for 1, 2 or 4 bytes of it.
EncodeSized(base, s) ==
    LET n == Len(s)
        w == IF n <= UintMax(1) THEN 1 ELSE IF n <= UintMax(2) THEN 2 ELSE 4
        long == CASE w = 1 -> base + 33 [] w = 2 -> base + 34 [] w = 4 -> base + 35
    IN (IF n <= SmallLength THEN Marker(base + n) ELSE Marker(long) \o Reverse(LittleEndian(n, w))) \o Raw(s)

\* Mutant: the largest count gets the marker of a dictionary of any length.
SmallDictToo(n) == n <= SmallCount
SmallDict(n) == n < SmallCount

\* encodeArray, encodeDict, of items that are encoded.
EncodeArray(n, items) == IF n <= SmallCount THEN Marker(ArrayAt + n) \o items
                         ELSE Marker(VariableArray) \o items \o Marker(3)
EncodeDict(n, items) == IF SmallDict(n) THEN Marker(DictAt + n) \o items
                        ELSE Marker(VariableDict) \o items \o Marker(3) \o Marker(3)

RECURSIVE Encode(_)
Encode(v) ==
    LET items == IF v.t = "array" THEN FlattenSeq([i \in DOMAIN v.items |-> Encode(v.items[i])])
                 ELSE FlattenSeq([i \in DOMAIN v.entries |-> EncodeSized(StringAt, v.entries[i][1]) \o Encode(v.entries[i][2])])
    IN CASE v.t = "null" -> Marker(3)
         [] v.t = "true" -> Marker(1)
         [] v.t = "false" -> Marker(2)
         [] v.t = "int" -> EncodeNumber(v.n)
         [] v.t = "float" -> Marker(53) \o [i \in 1..4 |-> <<"raw", v.n>>]
         [] v.t = "string" -> EncodeSized(StringAt, v.s)
         [] v.t = "bytes" -> EncodeSized(BytesAt, v.s)
         [] v.t = "array" -> EncodeArray(Len(v.items), items)
         [] v.t = "dict" -> EncodeDict(Len(v.entries), items)

-----------------------------------------------------------------------------
(* Opack2.loads: a value and the position after it. Where a marker is read as a byte, or *)
(* the other way round, the value is wrong in a way that is not followed.                *)

Got(v, at) == [v |-> v, at |-> at]
Sized(t, b, at, n) == IF at + n - 1 > Len(b) THEN Got(Bad, at) ELSE Got([t |-> t, s |-> [i \in 1..n |-> b[at + i - 1][2]]], at + n)
LongSized(t, b, at, w) == IF at + w - 1 > Len(b) THEN Got(Bad, at)
                          ELSE Sized(t, b, at + w, FromLittleEndian(Reverse(SubSeq(b, at, at + w - 1))))
Number(b, at, w) == IF at + w - 1 > Len(b) THEN Got(Bad, at)
                    ELSE Got([t |-> "int", n |-> FromLittleEndian(SubSeq(b, at, at + w - 1))], at + w)

RECURSIVE Decode(_, _), DecodeMany(_, _, _)
\* n values; or, when n is 0 - 1, as many as there are before a null.
DecodeMany(b, at, n) ==
    LET one == Decode(b, at) more == DecodeMany(b, one.at, IF n < 0 THEN n ELSE n - 1)
    IN IF n = 0 THEN Got(<<>>, at)
       ELSE IF one.v = Bad THEN Got(<<Bad>>, at)
       ELSE IF n < 0 /\ one.v = Null THEN Got(<<>>, one.at)
       ELSE Got(<<one.v>> \o more.v, more.at)

Paired(many) == [i \in 1..(Len(many) \div 2) |-> <<many[2 * i - 1].s, many[2 * i]>>]
Failed(many) == \E i \in DOMAIN many.v : many.v[i] = Bad
AsArray(many) == IF Failed(many) THEN Got(Bad, many.at) ELSE Got([t |-> "array", items |-> many.v], many.at)
AsDict(many) == IF Failed(many) \/ \E i \in 1..(Len(many.v) \div 2) : many.v[2 * i - 1].t # "string" THEN Got(Bad, many.at)
                ELSE Got([t |-> "dict", entries |-> Paired(many.v)], many.at)

\* decodeVariableDict reads in pairs, up to a pair of nulls.
RECURSIVE DecodePairs(_, _)
DecodePairs(b, at) ==
    LET key == Decode(b, at) value == Decode(b, key.at) more == DecodePairs(b, value.at)
    IN IF key.v = Bad \/ value.v = Bad THEN Got(<<Bad>>, at)
       ELSE IF key.v = Null /\ value.v = Null THEN Got(<<>>, value.at)
       ELSE Got(<<key.v, value.v>> \o more.v, more.at)

Decode(b, at) ==
    LET m == b[at][2] next == at + 1
        Long(t, base) == LongSized(t, b, next, CASE m = base + 33 -> 1 [] m = base + 34 -> 2 [] m = base + 35 -> 4)
    IN IF at > Len(b) THEN Got(Bad, at)
       ELSE CASE m = 3 -> Got(Null, next)
              [] m = 1 -> Got([t |-> "true"], next)
              [] m = 2 -> Got([t |-> "false"], next)
              [] m \in IntAt..(IntAt + SmallInt) -> Got([t |-> "int", n |-> m - IntAt], next)
              [] m = 48 -> Number(b, next, 1)
              [] m = 50 -> Number(b, next, 4)
              [] m = 51 -> Number(b, next, 8)
              [] m = 53 -> IF at + 4 > Len(b) THEN Got(Bad, at) ELSE Got([t |-> "float", n |-> b[next][2]], at + 5)
              [] m \in StringAt..(StringAt + SmallLength) -> Sized("string", b, next, m - StringAt)
              [] m \in (StringAt + 33)..(StringAt + 35) -> Long("string", StringAt)
              [] m \in BytesAt..(BytesAt + SmallLength) -> Sized("bytes", b, next, m - BytesAt)
              [] m \in (BytesAt + 33)..(BytesAt + 35) -> Long("bytes", BytesAt)
              [] m \in ArrayAt..(VariableArray - 1) -> AsArray(DecodeMany(b, next, m - ArrayAt))
              [] m = VariableArray -> AsArray(DecodeMany(b, next, 0 - 1))
              [] m \in DictAt..(VariableDict - 1) -> AsDict(DecodeMany(b, next, 2 * (m - DictAt)))
              [] m = VariableDict -> AsDict(DecodePairs(b, next))
              [] OTHER -> Got(Bad, at)

Loads(b) == LET all == Decode(b, 1) IN IF all.at # Len(b) + 1 THEN Bad ELSE all.v

-----------------------------------------------------------------------------
(* encodeTLV8, decodeTLV8ToDict.                                                 *)

Least(a, b) == IF a < b THEN a ELSE b
After(s, n) == SubSeq(s, n + 1, Len(s))

RECURSIVE Fragments(_, _), Decoded(_)
Fragments(type, s) ==
    LET n == Least(Fragment, Len(s))
    IN IF s = <<>> THEN <<>> ELSE <<type, n>> \o SubSeq(s, 1, n) \o Fragments(type, After(s, n))
EncodeTLV8(items) == FlattenSeq([i \in DOMAIN items |-> Fragments(items[i][1], items[i][2])])
Decoded(b) == IF b = <<>> THEN <<>> ELSE <<<<b[1], SubSeq(b, 3, 2 + b[2])>>>> \o Decoded(SubSeq(b, 3 + b[2], Len(b)))
Joined(items, type) == FlattenSeq([i \in DOMAIN items |-> IF items[i][1] = type THEN items[i][2] ELSE <<>>])
ToDict(items) == [type \in {items[i][1] : i \in DOMAIN items} |-> Joined(items, type)]

-----------------------------------------------------------------------------
PairingInit == pairing \in {[kind |-> "opack", given |-> v, bytes |-> <<>>, back |-> Null, at |-> "given"] : v \in Values}
                       \cup {[kind |-> "tlv", given |-> v, bytes |-> <<>>, back |-> Null, at |-> "given"] : v \in Items}

Encodes == /\ pairing.at = "given"
           /\ pairing' = [pairing EXCEPT !.at = "encoded",
                             !.bytes = IF pairing.kind = "opack" THEN Encode(pairing.given) ELSE EncodeTLV8(pairing.given)]
Decodes == /\ pairing.at = "encoded"
           /\ pairing' = [pairing EXCEPT !.at = "decoded",
                             !.back = IF pairing.kind = "opack" THEN Loads(pairing.bytes) ELSE ToDict(Decoded(pairing.bytes))]
PairingNext == Encodes \/ Decodes
PairingSpec == PairingInit /\ [][PairingNext]_pairing

\* What the encoder writes as something else: an array of 15, whose marker is the one of an
\* array of any length, and a null in an array that a null ends.
RECURSIVE Garbled(_)
Garbled(v) ==
    CASE v.t = "array" -> \/ Len(v.items) = SmallCount
                          \/ Len(v.items) > SmallCount /\ Null \in Range(v.items)
                          \/ \E i \in DOMAIN v.items : Garbled(v.items[i])
      [] v.t = "dict" -> \E i \in DOMAIN v.entries : Garbled(v.entries[i][2])
      [] OTHER -> FALSE

-----------------------------------------------------------------------------
\* Whatever its lengths and its nesting, a value that is serialized is read back, unless its
\* arrays are garbled; and TLV8 data, which loses only what is empty.
PairingDataKept ==
    pairing.at = "decoded" =>
        /\ pairing.kind = "opack" => Garbled(pairing.given) \/ pairing.back = pairing.given
        /\ pairing.kind = "tlv" =>
              pairing.back = ToDict(SelectSeq(pairing.given, LAMBDA item : item[2] # <<>>))

\* What loads reads of what dumps wrote is what was given.
OpackKept == pairing.at = "decoded" /\ pairing.kind = "opack" => pairing.back = pairing.given
=============================================================================
