------------------------------ MODULE Messages ------------------------------
(****************************************************************************)
(* The messages of the protocol as they go over the wire: what NetWriter    *)
(* puts for a value, what NetReader makes of the bytes, and of which fields *)
(* every message consists.                                                  *)
(*                                                                          *)
(* A message is a function from the names of its fields to values; its      *)
(* schema, the sequence of its fields, stands for serialize and deserialize *)
(* both, which put and get the same fields in the same order. Where only    *)
(* one of the two is in the repository the peer's program has the other.    *)
(* A byte takes Base values: fewer than 256 bring the limits of the length   *)
(* fields near. Floats and wide numbers are copied byte by byte.            *)
(****************************************************************************)
EXTENDS Integers, Sequences, SequencesExt, TLC

CONSTANTS
  Base,       \* how many values a byte has: 256 in the program
  ChatMax,    \* the limit of a chat message: 512
  NameMax     \* SERVER_INFO_NAME_MAX_LENGTH: 64; that of the motd is four times as much

ASSUME BaseAssumption ==
  /\ Base \in Nat /\ Base > 41          \* the highest number of an enumeration
  /\ ChatMax \in Nat /\ NameMax \in Nat /\ ChatMax < Base * Base

Limit(w) == Base ^ w          \* what a number of w bytes stays below
Upto(s, n) == SubSeq(s, 1, IF Len(s) < n THEN Len(s) ELSE n)

\* The text non_empty_or_failure puts in the place of an empty one.
Failure == <<1, 1>>

-----------------------------------------------------------------------------
(* NetWriter *)

\* to_le_bytes, of a value that is cast to w bytes
LE(n, w) == [i \in 1 .. w |-> (n \div Base ^ (i - 1)) % Base]

PutBool(b)   == <<IF b THEN 1 ELSE 0>>
PutBytes(s)  == LE(Len(s), 2) \o s

\* Mutant: the length as it is.
PutLengthPlain(s) == LE(Len(s), 2)

\* put_string adds one to the length, but for an empty string.
PutLength(s) == IF s = <<>> THEN LE(0, 2) ELSE LE(Len(s) + 1, 2)
PutString(s) == PutLength(s) \o s

-----------------------------------------------------------------------------
(* NetReader: what was read and the bytes that are left, or an underflow *)

Read(v, left) == [ok |-> TRUE, v |-> v, left |-> left]
Underflow     == [ok |-> FALSE, v |-> <<>>, left |-> <<>>]

\* The ? of a reader: the rest only happens when this went well.
Then(r, Next2(_, _)) == IF r.ok THEN Next2(r.v, r.left) ELSE Underflow

Take(n, left) ==
  IF Len(left) < n THEN Underflow ELSE Read(SubSeq(left, 1, n), SubSeq(left, n + 1, Len(left)))

FromLE(bytes) == FoldRight(LAMBDA b, n : n * Base + b, bytes, 0)

GetNumber(w, left) == Then(Take(w, left), LAMBDA b, rest : Read(FromLE(b), rest))
GetBool(left)      == Then(GetNumber(1, left), LAMBDA n, rest : Read(n # 0, rest))
GetBytes(left)     == Then(GetNumber(2, left), Take)
GetString(left) ==
  Then(GetNumber(2, left), LAMBDA n, rest : IF n = 0 THEN Read(<<>>, rest) ELSE Take(n - 1, rest))

-----------------------------------------------------------------------------
(* Fields: a name, the kind of the value, and, for one that is there only    *)
(* when an earlier one has some value, which one and when                    *)

Field(name, kind) == [name |-> name, kind |-> kind, only |-> <<>>]
Kind(k)           == [k |-> k]
Number(name, w)   == Field(name, [k |-> "number", w |-> w])
U8(name)          == Number(name, 1)
U16(name)         == Number(name, 2)
Bool(name)        == Field(name, Kind("bool"))
Text(name)        == Field(name, Kind("string"))
Bytes(name)       == Field(name, Kind("bytes"))
Rest(name)        == Field(name, Kind("rest"))
Raw(name, n)      == Field(name, [k |-> "raw", n |-> n])
Words(name, n)    == Raw(name, 4 * n)    \* n of i32, u32 or f32
List(name, w, of) == Field(name, [k |-> "list", w |-> w, of |-> of])
Enum(name, known) == Field(name, [k |-> "enum", known |-> known])
When(f, name, S)  == [f EXCEPT !.only = <<name, S>>]

Present(f, msg) == f.only = <<>> \/ msg[f.only[1]] \in f.only[2]

\* payload_len, by quality: it rises with the quality, and all others are High.
PoseLen(q) == IF q \in 0 .. 2 THEN q + 1 ELSE 4

\* The text of at most n bytes that trim_to_bytes keeps: whole characters. A byte Base - 1
\* goes on with the character of the byte before it.
Trim(s, n) ==
  IF Len(s) <= n THEN s
  ELSE SubSeq(s, 1, CHOOSE end \in 0 .. n : s[end + 1] # Base - 1
                      /\ \A i \in (end + 1) .. n : s[i + 1] = Base - 1)

\* AdditionalAvatarData: what does not fit the length is left away, and the index of nothing.
PutExtra(x) ==
  LET data == Upto(x.data, Limit(1) - 1) IN
    LE(Len(data), 1) \o (IF data = <<>> THEN <<>> ELSE LE(x.message_index, 1) \o data)

GetExtra(left) ==
  Then(GetNumber(1, left), LAMBDA n, rest :
    IF n = 0 THEN Read([message_index |-> 0, data |-> <<>>], rest)
    ELSE Then(GetNumber(1, rest), LAMBDA index, after :
      Then(Take(n, after), LAMBDA data, end :
        Read([message_index |-> index, data |-> data], end))))

\* A loop that reads n things, each with Get.
GetMany(n, left, Get(_)) ==
  FoldLeft(LAMBDA r, i : Then(r, LAMBDA got, rest :
                           Then(Get(rest), LAMBDA v, after : Read(Append(got, v), after))),
           Read(<<>>, left), [i \in 1 .. n |-> i])

\* The additional data of an avatar: the index of the link is between the count and the items.
PutExtras(x) ==
  LE(Len(x.items), 1)
  \o (IF x.items = <<>> THEN <<>>
      ELSE LE(x.linked, 1) \o FlattenSeq([i \in DOMAIN x.items |-> PutExtra(x.items[i])]))

GetExtras(left) ==
  Then(GetNumber(1, left), LAMBDA n, rest :
    IF n = 0 THEN Read([linked |-> 0, items |-> <<>>], rest)
    ELSE Then(GetNumber(1, rest), LAMBDA linked, after :
      Then(GetMany(n, after, GetExtra), LAMBDA items, end :
        Read([linked |-> linked, items |-> items], end))))

\* A value of the database: write_database_value picks the marker by what the JSON value is,
\* read_database_value the reader by the marker. Arrays and objects are written as text.
\* (The markers that only other programs write are left out.)
Marker == [null |-> 0, text |-> 1, int |-> 2, bool |-> 3, float |-> 5, long |-> 6,
           ulong |-> 7, nested |-> 1]

PutValue(x) ==
  LE(Marker[x.tag], 1) \o
  CASE x.tag = "null"                 -> <<>>
    [] x.tag \in {"text", "nested"}   -> PutString(x.v)
    [] x.tag = "bool"                 -> PutBool(x.v)
    [] OTHER                          -> x.v

GetValue(left) ==
  Then(GetNumber(1, left), LAMBDA marker, rest :
    LET As(tag, r) == Then(r, LAMBDA v, after : Read([tag |-> tag, v |-> v], after)) IN
      CASE marker = 1 -> As("text", GetString(rest))
        [] marker = 2 -> As("int", Take(4, rest))
        [] marker = 3 -> As("bool", GetBool(rest))
        [] marker = 5 -> As("float", Take(8, rest))
        [] marker = 6 -> As("long", Take(8, rest))
        [] marker = 7 -> As("ulong", Take(8, rest))
        [] OTHER      -> As("null", Read(<<>>, rest)))

\* write_database_payload: the entries of an object, or the one entry "value" of another value
PutEntry(e) == PutString(e.key) \o PutValue(e.value)
GetEntry(left) ==
  Then(GetString(left), LAMBDA key, rest :
    Then(GetValue(rest), LAMBDA value, after : Read([key |-> key, value |-> value], after)))

-----------------------------------------------------------------------------
(* serialize and deserialize *)

\* The bytes of the value v of a field of this kind. Inner(schema, msg) is serialize.
PutKind(kind, v, Inner(_, _)) ==
  CASE kind.k = "number"                  -> LE(v, kind.w)
    [] kind.k = "bool"                    -> PutBool(v)
    [] kind.k = "string"                  -> PutString(v)
    [] kind.k = "name"                    -> PutString(IF v = <<>> THEN Failure ELSE v)
    [] kind.k = "trimmed"                 -> PutString(Trim(v, kind.n))
    [] kind.k = "netid"                   -> IF v = <<>> THEN <<>> ELSE PutString(v)
    [] kind.k = "bytes"                   -> PutBytes(v)
    [] kind.k = "chat"                    -> PutBytes(Upto(v, ChatMax))
    [] kind.k \in {"rest", "raw", "pose"} -> v
    [] kind.k = "enum"                    -> LE(v, 1)
    [] kind.k = "extras"                  -> PutExtras(v)
    [] kind.k = "entries"                 ->
         LE(Len(v), 2) \o <<0, 0>> \o FlattenSeq([i \in DOMAIN v |-> PutEntry(v[i])])
    [] kind.k = "list"                    ->
         LE(Len(v), kind.w) \o FlattenSeq([i \in DOMAIN v |-> Inner(kind.of, v[i])])

\* What a reader makes of it. msg is what was read so far, Inner(schema, left) deserialize.
GetKind(kind, msg, left, Inner(_, _)) ==
  CASE kind.k = "number"                            -> GetNumber(kind.w, left)
    [] kind.k = "bool"                              -> GetBool(left)
    [] kind.k \in {"string", "name", "trimmed"}     -> GetString(left)
    [] kind.k = "netid"                             ->
         IF left = <<>> THEN Read(<<>>, left) ELSE GetString(left)
    [] kind.k = "bytes"                             -> GetBytes(left)
    [] kind.k = "chat"                              ->
         Then(GetNumber(2, left), LAMBDA n, rest : Take(IF n < ChatMax THEN n ELSE ChatMax, rest))
    [] kind.k = "rest"                              -> Read(left, <<>>)
    [] kind.k = "raw"                               -> Take(kind.n, left)
    [] kind.k = "pose"                              -> Take(PoseLen(msg[kind.quality]), left)
    [] kind.k = "enum"                              ->
         Then(GetNumber(1, left), LAMBDA n, rest : Read(IF n < kind.known THEN n ELSE 0, rest))
    [] kind.k = "extras"                            -> GetExtras(left)
    [] kind.k = "entries"                           ->
         Then(GetNumber(2, left), LAMBDA n, rest :
           Then(Take(2, rest), LAMBDA high, after : GetMany(n, after, GetEntry)))
    [] kind.k = "list"                              ->
         Then(GetNumber(kind.w, left), LAMBDA n, rest :
           GetMany(n, rest, LAMBDA l : Inner(kind.of, l)))

RECURSIVE Serialize(_, _)
Serialize(schema, msg) ==
  FlattenSeq([i \in DOMAIN schema |->
    IF Present(schema[i], msg) THEN PutKind(schema[i].kind, msg[schema[i].name], Serialize)
    ELSE <<>>])

RECURSIVE Deserialize(_, _)
Deserialize(schema, bytes) ==
  FoldLeft(LAMBDA r, f : Then(r, LAMBDA msg, left :
             IF ~Present(f, msg) THEN r
             ELSE Then(GetKind(f.kind, msg, left, Deserialize), LAMBDA v, rest :
                    Read(msg @@ (f.name :> v), rest))),
           Read(<<>>, bytes), schema)
=============================================================================
