-------------------------------- MODULE Codec -------------------------------
(***************************************************************************)
(* The opcode-mode codec of logorrhythm/core/session.py, one field at a    *)
(* time.  A codec state c holds what Session.encode and Session.decode     *)
(* share and update: table, the value table, and last, last_values: the    *)
(* last int that went through each field.                                  *)
(*                                                                         *)
(* A field is its id; an item is what one field of a message becomes on    *)
(* the wire: its id, how its value is given (FLAG_VALUE_REF, FLAG_DELTA or *)
(* a typed literal) and the payload.                                       *)
(***************************************************************************)
EXTENDS Tables

CONSTANTS Fields,      \* field ids
          FieldType,   \* field_types of the schema; "any" where it has none
          LearnFields, \* config.learn_fields; all of Fields for None
          Half         \* 2^63: the ints zigzag_encode is right for are -Half..Half-1

ASSUME CodecAssumption ==
  /\ Fields \subseteq Nat
  /\ LearnFields \subseteq Fields /\ Half \in Nat \ {0}
  /\ FieldType \in [Fields -> {"uvarint", "svarint", "bytes", "str", "bool", "any"}]

IsInt(v) == v.type = "int"   \* isinstance(v, int) and not isinstance(v, bool)

IntValue(n) == [type |-> "int", n |-> n]

(***************************************************************************)
(* A typed literal: the value the receiver reads for v in field f, and     *)
(* whether the sender can write it at all.  The type the schema declares   *)
(* wins over the type of the value; n = 0 is false, or empty.              *)
(*                                                                         *)
(* Besides Python's types there are "digits", a str int() accepts, with    *)
(* its number as n, and "opaque", what json.dumps raises on; "bytes" are   *)
(* none that int() accepts, and a "tuple" is what JSON reads back as a     *)
(* list.                                                                   *)
(***************************************************************************)
Numeric(v) == v.type \in {"int", "bool", "float", "digits"}

JsonWritable(v) == v.type \notin {"bytes", "opaque"}

JsonRead(v) == IF v.type = "tuple" THEN [v EXCEPT !.type = "list"] ELSE v

Encodable(f, v) ==
  /\ FieldType[f] = "uvarint" => Numeric(v) /\ v.n >= 0
  /\ FieldType[f] = "svarint" => Numeric(v)
  /\ FieldType[f] = "bytes" => v.type = "bytes"
  /\ FieldType[f] = "str" => v.type \in {"str", "digits"}
  /\ FieldType[f] = "any" => v.type = "bytes" \/ JsonWritable(v)

\* Ints of 65 bits, for which Svarint below is right.
IntsFit(values) == \A v \in values : v.n \in -2 * Half..2 * Half - 1

\* The shift by 63 leaves one bit or two of an int that is wider, and flips the others.
Svarint(n) == IF n \in -Half..Half-1 THEN n ELSE -n - 1

Literal(f, v) ==
  CASE FieldType[f] = "uvarint" -> IntValue(v.n)
    [] FieldType[f] = "svarint" \/ (FieldType[f] = "any" /\ IsInt(v) /\ v.n < 0) ->
         IntValue(Svarint(v.n))
    [] FieldType[f] = "bool" -> [type |-> "bool", n |-> IF v.n = 0 /\ v.type # "digits" THEN 0 ELSE 1]
    [] OTHER -> IF FieldType[f] = "any" THEN JsonRead(v) ELSE v

(***************************************************************************)
(* encode, for one field.                                                  *)
(***************************************************************************)
CanDelta(c, f, v) ==
  /\ IsInt(v)
  /\ f \in DOMAIN c.last
  /\ v.n - c.last[f] \in -63..63

NeedsLiteral(c, f, v) == IdOf(c.table, v) = NoId /\ ~CanDelta(c, f, v)

Item(c, f, v) ==
  IF IdOf(c.table, v) # NoId THEN [field |-> f, flag |-> "ref", payload |-> IdOf(c.table, v)]
  ELSE IF CanDelta(c, f, v) THEN [field |-> f, flag |-> "delta", payload |-> v.n - c.last[f]]
  ELSE [field |-> f, flag |-> "literal", payload |-> Literal(f, v)]

\* _learn_value and the update of last_values, which end a field on both sides.
Learn(c, f, v, t) ==
  [table |-> MaybeLearn(t, v, f \in LearnFields),
   last  |-> IF IsInt(v) THEN Put(c.last, f, v.n) ELSE c.last]

AfterEncode(c, f, v) == Learn(c, f, v, GetId(c.table, v))

(***************************************************************************)
(* decode, for one item.  A reference to an id the table does not have     *)
(* raises KeyError.                                                        *)
(***************************************************************************)
Decodable(c, item) == item.flag = "ref" => item.payload \in DOMAIN c.table.i2v

Previous(c, f) == IF f \in DOMAIN c.last THEN c.last[f] ELSE 0

DecodedValue(c, item) ==
  CASE item.flag = "ref"     -> c.table.i2v[item.payload]
    [] item.flag = "delta"   -> IntValue(Previous(c, item.field) + item.payload)
    [] item.flag = "literal" -> item.payload

\* Mutant: a reference is read from id_to_value without marking it as used.
AfterDecodeUntouched(c, item) ==
  LET v == DecodedValue(c, item)
  IN  IF item.flag = "ref"
      THEN [c EXCEPT !.last = IF IsInt(v) THEN Put(@, item.field, v.n) ELSE @]
      ELSE Learn(c, item.field, v, c.table)

\* Mutant: last_values is left alone when the value came as a reference.
AfterDecodeForgettingLast(c, item) ==
  IF item.flag = "ref" THEN [c EXCEPT !.table = GetValue(@, item.payload)]
  ELSE Learn(c, item.field, DecodedValue(c, item), c.table)

\* Mutant: a value that came as a delta is not offered for learning.
AfterDecodeNotLearning(c, item) ==
  LET v == DecodedValue(c, item)
  IN  IF item.flag = "delta" THEN [c EXCEPT !.last = Put(@, item.field, v.n)]
      ELSE Learn(c, item.field, v,
                 IF item.flag = "ref" THEN GetValue(c.table, item.payload) ELSE c.table)

AfterDecode(c, item) ==
  Learn(c, item.field, DecodedValue(c, item),
        IF item.flag = "ref" THEN GetValue(c.table, item.payload) ELSE c.table)
=============================================================================
