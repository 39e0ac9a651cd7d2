------------------------------ MODULE XpcMessage ------------------------------
(* XPC messages (lib/remote-xpc/xpc-protocol.ts): a wrapper of fixed size around a       *)
(* dictionary of values, everything at multiples of four bytes. A buffer is a sequence   *)
(* of cells, one for a byte: the first of a number or type holds it, the others are      *)
(* Rest; characters outside ASCII take two.                                              *)
EXTENDS Naturals, Sequences, SequencesExt

CONSTANT Wide   \* the characters of two bytes

\* A value: [t |-> "null"]; bool, int, uint and double with n; string, data and uuid with s;
\* array with items; dict with entries <<key, value>>. A message: flags, id, and a body or None.
None == [t |-> "none"]
Bad == [t |-> "bad"]
Rest == <<"rest", 0>>
Nul == <<"nul", 0>>
First(kind, x, size) == <<<<kind, x>>>> \o [i \in 1..(size - 1) |-> Rest]
Word(n) == First("number", n, 4)
Long(n) == First("number", n, 8)
Type(t) == First("type", t, 4)

Padding(length) == (4 - (length % 4)) % 4
Pad(cells) == cells \o [i \in 1..Padding(Len(cells)) |-> Nul]
Chars(s) == FlattenSeq([i \in DOMAIN s |-> First("char", s[i], IF s[i] \in Wide THEN 2 ELSE 1)])
CString(s) == Append(Chars(s), Nul)

-----------------------------------------------------------------------------
(* encodeMessage, encodeObject, encodeDictionary.                                *)

Block(t, payload) == Type(t) \o Word(Len(payload)) \o payload

RECURSIVE EncodeObject(_)
EncodeObject(v) ==
    CASE v.t = "bool" -> Type("bool") \o First("number", v.n, 1) \o [i \in 1..3 |-> Nul]
      [] v.t \in {"int", "uint", "double"} -> Type(v.t) \o Long(v.n)
      [] v.t = "string" -> Type("string") \o Word(Len(CString(v.s))) \o Pad(CString(v.s))
      [] v.t = "uuid" -> Type("uuid") \o First("raw", v.s, 16)
      [] v.t = "data" -> Type("data") \o Word(Len(v.s)) \o Pad([i \in DOMAIN v.s |-> <<"raw", v.s[i]>>])
      [] v.t = "array" -> Block("array", Word(Len(v.items)) \o FlattenSeq([i \in DOMAIN v.items |-> EncodeObject(v.items[i])]))
      [] v.t = "dict" -> Block("dict", Word(Len(v.entries)) \o
                            FlattenSeq([i \in DOMAIN v.entries |-> Pad(CString(v.entries[i][1])) \o EncodeObject(v.entries[i][2])]))
      [] OTHER -> Type("null")

EncodeMessage(flags, id, body) ==
    LET payload == IF body = None THEN <<>> ELSE Type("object") \o Type("version") \o EncodeObject(body)
    IN Type("wrapper") \o Word(flags) \o Long(Len(payload)) \o Long(id) \o payload

-----------------------------------------------------------------------------
(* decodeObject: the value at a position, and the position after it. A read past the     *)
(* end, or of what is no number or type where one is expected, ends in an error.         *)

Is(b, at, kind) == at \in DOMAIN b /\ b[at][1] = kind
ReadType(b, at) == IF Is(b, at, "type") /\ at + 3 <= Len(b) THEN b[at][2] ELSE "bad"
ReadNumber(b, at) == IF Is(b, at, "number") THEN b[at][2] ELSE 0
Got(v, at) == [v |-> v, at |-> at]

\* The characters of a slice up to its first nul.
Text(b, at, n) ==
    LET nul == CHOOSE k \in 0..n : (k = n \/ b[at + k] = Nul) /\ \A j \in 0..(k - 1) : b[at + j] # Nul
        slice == SelectSeq(SubSeq(b, at, at + nul - 1), LAMBDA c : c[1] = "char")
    IN [i \in DOMAIN slice |-> slice[i][2]]

\* readDictionaryKey: padding is skipped by the length of the text, not of its bytes.
KeyAt(b, at) ==
    LET s == Text(b, at, Len(b) - at + 1)
    IN Got(s, at + Len(CString(s)) + Padding(Len(s) + 1))

RECURSIVE DecodeObject(_, _), DecodeItems(_, _, _), DecodeEntries(_, _, _)
DecodeObject(b, at) ==
    LET t == ReadType(b, at) n == ReadNumber(b, at + 4) body == at + 8
        payload == SubSeq(b, body, body + n - 1)
    IN CASE t = "null" -> Got([t |-> "null"], at + 4)
         [] t = "bool" -> Got([t |-> "bool", n |-> n], at + 8)
         [] t \in {"int", "uint", "double"} -> Got([t |-> IF t = "uint" THEN "int" ELSE t, n |-> n], at + 12)
         [] t = "string" /\ body + n - 1 <= Len(b) -> Got([t |-> "string", s |-> Text(b, body, n)], body + n + Padding(n))
         [] t = "uuid" /\ at + 19 <= Len(b) -> Got([t |-> "hex", s |-> b[at + 4][2]], at + 20)
         [] t = "data" /\ body + n - 1 <= Len(b) ->
               Got([t |-> "data", s |-> [i \in 1..n |-> payload[i][2]]], body + n + Padding(n))
         [] t = "array" -> LET all == DecodeItems(payload, 5, ReadNumber(payload, 1))
                           IN Got(IF all = Bad THEN Bad ELSE [t |-> "array", items |-> all.v], body + n)
         [] t = "dict" -> LET all == DecodeEntries(payload, 5, ReadNumber(payload, 1))
                          IN Got(IF all = Bad THEN Bad ELSE [t |-> "dict", entries |-> all.v], body + n)
         [] OTHER -> Got(Bad, at)

DecodeItems(b, at, n) ==
    IF n = 0 THEN Got(<<>>, at)
    ELSE LET one == DecodeObject(b, at)
             more == DecodeItems(b, one.at, n - 1)
         IN IF one.v = Bad THEN Bad ELSE IF more = Bad THEN Bad ELSE Got(<<one.v>> \o more.v, more.at)

DecodeEntries(b, at, n) ==
    IF n = 0 THEN Got(<<>>, at)
    ELSE LET key == KeyAt(b, at)
             one == DecodeObject(b, key.at)
             more == DecodeEntries(b, one.at, n - 1)
         IN IF one.v = Bad THEN Bad ELSE IF more = Bad THEN Bad ELSE Got(<<<<key.v, one.v>>>> \o more.v, more.at)

\* getXpcMessageByteLength, decodeMessage: what is incomplete and what is wrong both throw.
DecodeMessage(b) ==
    LET length == 24 + ReadNumber(b, 9)
        body == DecodeObject(SubSeq(b, 33, length), 1).v
    IN IF Len(b) < 24 \/ ReadType(b, 1) # "wrapper" \/ Len(b) < length THEN Bad
       ELSE IF length = 24 THEN [t |-> "message", body |-> None, used |-> 24]
       ELSE IF ReadType(b, 25) # "object" \/ ReadType(b, 29) # "version" \/ body.t # "dict" THEN Bad
       ELSE [t |-> "message", body |-> body, used |-> length]

\* What the decoder makes of a value: one type of integer, a UUID as its digits.
RECURSIVE Plain(_)
Plain(v) == CASE v.t = "array" -> [t |-> "array", items |-> [i \in DOMAIN v.items |-> Plain(v.items[i])]]
              [] v.t = "dict" -> [t |-> "dict", entries |-> [i \in DOMAIN v.entries |-> <<v.entries[i][1], Plain(v.entries[i][2])>>]]
              [] v.t = "uint" -> [t |-> "int", n |-> v.n]
              [] v.t = "uuid" -> [t |-> "hex", s |-> v.s]
              [] OTHER -> v

\* A key that the decoder leaves at another position than the encoder: its characters and its
\* bytes are padded differently.
RECURSIVE Misaligned(_)
Misaligned(v) == CASE v.t = "array" -> \E i \in DOMAIN v.items : Misaligned(v.items[i])
                   [] v.t = "dict" -> \E i \in DOMAIN v.entries : LET k == v.entries[i][1] IN
                         Padding(Len(k) + 1) # Padding(Len(CString(k))) \/ Misaligned(v.entries[i][2])
                   [] OTHER -> FALSE
=============================================================================
