----------------------------- MODULE CodecProofs ----------------------------
(***************************************************************************)
(* Lemmas about the operators of Codec: that a codec state stays           *)
(* well-formed on both sides of the wire, and that decoding an item in the *)
(* state it was encoded in gives back the value and leads to the state     *)
(* encoding led to.                                                        *)
(***************************************************************************)
EXTENDS Codec, TablesProofs

\* What decode may return.  The types it names itself are spelled out because no
\* prover knows a literal string to be a member of STRING.
AllValues == [type : STRING \cup {"int", "bool", "list"}, n : Int]

PartialMaps(A, B) == UNION {[D -> B] : D \in SUBSET A}

GoodTables(V) ==
  {t \in [v2i : PartialMaps(KeysOf(V), Nat), i2v : PartialMaps(Nat, V),
          lru : Seq(KeysOf(V)), seen : PartialMaps(KeysOf(V), Nat), next : Nat] :
     Shape(t, V) /\ WithinLimit(t)}

CodecStates(V) == [table : GoodTables(V), last : PartialMaps(Fields, Int)]

Items ==
  [field : Fields, flag : {"ref"}, payload : Nat]
  \cup [field : Fields, flag : {"delta"}, payload : Int]
  \cup [field : Fields, flag : {"literal"}, payload : AllValues]

\* A dict after an assignment to one of its keys.
LEMMA PutLemma ==
  ASSUME NEW A, NEW B, NEW g \in PartialMaps(A, B), NEW x \in A, NEW y \in B
  PROVE  Put(g, x, y) \in PartialMaps(A, B)
<1>1. PICK D \in SUBSET A : g \in [D -> B]
  BY DEF PartialMaps
<1>2. Put(g, x, y) \in [D \cup {x} -> B]
  BY <1>1 DEF Put
<1>3. D \cup {x} \in SUBSET A
  BY <1>1
<1>4. QED  BY <1>2, <1>3 DEF PartialMaps

\* GoodTables is the set of the well-formed tables within the limit.
LEMMA GoodTablesLemma ==
  ASSUME NEW V, NEW t
  PROVE  t \in GoodTables(V) <=> Shape(t, V) /\ WithinLimit(t)
<1>1. ASSUME Shape(t, V), WithinLimit(t)  PROVE t \in GoodTables(V)
  <2>1. /\ t = [v2i |-> t.v2i, i2v |-> t.i2v, lru |-> t.lru, seen |-> t.seen, next |-> t.next]
        /\ t.lru \in Seq(KeysOf(V)) /\ t.next \in Nat
    BY <1>1 DEF Shape, IsTable
  <2>2. t.v2i \in PartialMaps(KeysOf(V), Nat)
    <3>1. DOMAIN t.v2i \in SUBSET KeysOf(V) /\ t.v2i \in [DOMAIN t.v2i -> Nat]
      BY <1>1 DEF Shape, IsTable
    <3>2. QED  BY <3>1 DEF PartialMaps
  <2>3. t.i2v \in PartialMaps(Nat, V)
    <3>1. DOMAIN t.i2v \in SUBSET Nat /\ t.i2v \in [DOMAIN t.i2v -> V]
      BY <1>1 DEF Shape, IsTable
    <3>2. QED  BY <3>1 DEF PartialMaps
  <2>4. t.seen \in PartialMaps(KeysOf(V), Nat)
    <3>1. DOMAIN t.seen \in SUBSET KeysOf(V) /\ t.seen \in [DOMAIN t.seen -> Nat]
      BY <1>1 DEF Shape, IsTable
    <3>2. QED  BY <3>1 DEF PartialMaps
  <2>5. t \in [v2i : PartialMaps(KeysOf(V), Nat), i2v : PartialMaps(Nat, V),
               lru : Seq(KeysOf(V)), seen : PartialMaps(KeysOf(V), Nat), next : Nat]
    BY <2>1, <2>2, <2>3, <2>4
  <2>6. QED  BY <1>1, <2>5 DEF GoodTables
<1>2. QED  BY <1>1 DEF GoodTables

\* Marking a known value as used.
LEMMA TouchGood ==
  ASSUME NEW V, NEW t \in GoodTables(V), NEW k \in DOMAIN t.v2i
  PROVE  Touch(t, k) \in GoodTables(V)
<1>1. Shape(t, V) /\ WithinLimit(t)
  BY GoodTablesLemma
<1>2. Shape(Touch(t, k), V) /\ Touch(t, k).v2i = t.v2i
  BY <1>1, TouchKeeps
<1>3. QED  BY <1>1, <1>2, GoodTablesLemma DEF WithinLimit

\* Learning a value keeps the codec state typed and its table good.
LEMMA LearnLemma ==
  ASSUME NEW V \in SUBSET AllValues, NEW c \in CodecStates(V), NEW f \in Fields, NEW v \in V,
         NEW t \in GoodTables(V)
  PROVE  Learn(c, f, v, t) \in CodecStates(V)
<1>1. MaybeLearn(t, v, f \in LearnFields) \in GoodTables(V)
  <2>1. Shape(t, V) /\ WithinLimit(t)
    BY GoodTablesLemma
  <2> DEFINE allow == f \in LearnFields
  <2>2. allow \in BOOLEAN
    OBVIOUS
  <2> HIDE DEF allow
  <2>3. Shape(MaybeLearn(t, v, allow), V) /\ WithinLimit(MaybeLearn(t, v, allow))
    BY <2>1, <2>2, MaybeLearnLemma
  <2>4. MaybeLearn(t, v, allow) \in GoodTables(V)
    BY <2>3, GoodTablesLemma
  <2>5. QED  BY <2>4 DEF allow
<1>2. (IF IsInt(v) THEN Put(c.last, f, v.n) ELSE c.last) \in PartialMaps(Fields, Int)
  <2>1. c.last \in PartialMaps(Fields, Int) /\ v.n \in Int
    BY DEF CodecStates, AllValues
  <2>2. Put(c.last, f, v.n) \in PartialMaps(Fields, Int)
    BY <2>1, PutLemma
  <2>3. QED  BY <2>1, <2>2
<1>3. QED  BY <1>1, <1>2 DEF Learn, CodecStates
-----------------------------------------------------------------------------
\* What encode does with a field keeps its codec state well-formed.
LEMMA AfterEncodeLemma ==
  ASSUME NEW V \in SUBSET AllValues, NEW c \in CodecStates(V), NEW f \in Fields, NEW v \in V
  PROVE  AfterEncode(c, f, v) \in CodecStates(V)
<1>1. c.table \in GoodTables(V)
  BY DEF CodecStates
<1>2. GetId(c.table, v) \in GoodTables(V)
  BY <1>1, TouchGood DEF GetId, IdOf, Known
<1>3. QED  BY <1>2, LearnLemma DEF AfterEncode

\* What encode writes for a field is an item, whatever the schema declares.
LEMMA ItemLemma ==
  ASSUME NEW V \in SUBSET AllValues, NEW c \in CodecStates(V), NEW f \in Fields, NEW v \in V
  PROVE  Item(c, f, v) \in Items /\ Item(c, f, v).field = f
<1>1. Shape(c.table, V) /\ c.last \in PartialMaps(Fields, Int) /\ v \in AllValues
  BY GoodTablesLemma DEF CodecStates
<1>2. CASE IdOf(c.table, v) # NoId
  <2>1. IdOf(c.table, v) \in Nat
    BY <1>1, <1>2 DEF IdOf, Known, Shape, IsTable
  <2>2. QED  BY <1>2, <2>1 DEF Item, Items
<1>3. CASE IdOf(c.table, v) = NoId /\ CanDelta(c, f, v)
  <2>1. v.n - c.last[f] \in Int
    BY <1>3 DEF CanDelta
  <2>2. QED  BY <1>3, <2>1 DEF Item, Items
<1>4. CASE IdOf(c.table, v) = NoId /\ ~CanDelta(c, f, v)
  <2>1. /\ v.n \in Int
        /\ [v EXCEPT !.type = "list"] \in AllValues
    <3>1. /\ v.type \in STRING \cup {"int", "bool", "list"} /\ v.n \in Int
          /\ v = [type |-> v.type, n |-> v.n]
      BY <1>1 DEF AllValues
    <3>2. [v EXCEPT !.type = "list"] = [type |-> "list", n |-> v.n]
      BY <3>1
    <3>3. QED  BY <3>1, <3>2 DEF AllValues
  <2>2. Literal(f, v) \in AllValues
    <3>1. Svarint(v.n) \in Int
      BY <2>1 DEF Svarint
    <3>2. IntValue(v.n) \in AllValues /\ IntValue(Svarint(v.n)) \in AllValues
      BY <2>1, <3>1 DEF IntValue, AllValues
    <3>3. \A n \in {0, 1} : [type |-> "bool", n |-> n] \in AllValues
      BY DEF AllValues
    <3>4. JsonRead(v) \in AllValues
      BY <1>1, <2>1 DEF JsonRead
    <3>5. CASE FieldType[f] = "bool"
      BY <3>3, <3>5 DEF Literal
    <3>6. CASE FieldType[f] # "bool"
      BY <1>1, <3>2, <3>4, <3>6 DEF Literal
    <3>7. QED  BY <3>5, <3>6
  <2>3. QED  BY <1>4, <2>2 DEF Item, Items
<1>5. QED  BY <1>2, <1>3, <1>4

\* What decode reads from an item is a value, and its codec state stays well-formed.
LEMMA AfterDecodeLemma ==
  ASSUME NEW c \in CodecStates(AllValues), NEW item \in Items, Decodable(c, item)
  PROVE  /\ DecodedValue(c, item) \in AllValues
         /\ AfterDecode(c, item) \in CodecStates(AllValues)
<1>1. /\ c.table \in GoodTables(AllValues) /\ c.last \in PartialMaps(Fields, Int)
      /\ Shape(c.table, AllValues)
  BY GoodTablesLemma DEF CodecStates
<1>2. item.field \in Fields
  BY DEF Items
<1>3. CASE item.flag = "ref"
  <2>1. item.payload \in DOMAIN c.table.i2v
    BY <1>3 DEF Decodable
  <2>2. DecodedValue(c, item) = c.table.i2v[item.payload]
    BY <1>3 DEF DecodedValue
  <2>3. DecodedValue(c, item) \in AllValues
    BY <1>1, <2>1, <2>2 DEF Shape, IsTable
  <2>4. Key(c.table.i2v[item.payload]) \in DOMAIN c.table.v2i
    BY <1>1, <2>1 DEF Shape, Bijective
  <2>5. GetValue(c.table, item.payload) \in GoodTables(AllValues)
    BY <1>1, <2>4, TouchGood DEF GetValue
  <2>6. QED  BY <1>2, <1>3, <2>3, <2>5, LearnLemma DEF AfterDecode
<1>4. CASE item.flag # "ref"
  <2>1. DecodedValue(c, item) \in AllValues
    <3>1. CASE item.flag = "delta"
      <4>1. Previous(c, item.field) \in Int
        BY <1>1 DEF Previous, PartialMaps
      <4>2. item.payload \in Int
        BY <3>1 DEF Items
      <4>3. DecodedValue(c, item) = IntValue(Previous(c, item.field) + item.payload)
        BY <3>1 DEF DecodedValue
      <4>4. QED  BY <4>1, <4>2, <4>3 DEF IntValue, AllValues
    <3>2. CASE item.flag = "literal"
      <4>1. item.payload \in AllValues
        BY <3>2 DEF Items
      <4>2. QED  BY <3>2, <4>1 DEF DecodedValue
    <3>3. QED  BY <1>4, <3>1, <3>2 DEF Items
  <2>2. QED  BY <1>1, <1>2, <1>4, <2>1, LearnLemma DEF AfterDecode
<1>5. QED  BY <1>3, <1>4

\* Decoding undoes encoding: in the state an item was written in it can be read,
\* the value is the one that was encoded, and decoding moves the state as encoding
\* did.  It takes that no two values of V are == without being the same, and that
\* a literal of v in f reads as v.
LEMMA DecodeUndoesEncode ==
  ASSUME NEW V \in SUBSET AllValues, \A u, v \in V : Key(u) = Key(v) => u = v,
         NEW c \in CodecStates(V), NEW f \in Fields, NEW v \in V,
         NeedsLiteral(c, f, v) => Literal(f, v) = v
  PROVE  LET item == Item(c, f, v)
         IN  /\ item.field = f
             /\ Decodable(c, item)
             /\ DecodedValue(c, item) = v
             /\ AfterDecode(c, item) = AfterEncode(c, f, v)
<1> DEFINE item == Item(c, f, v)
<1>1. Shape(c.table, V) /\ c.last \in PartialMaps(Fields, Int) /\ v \in AllValues
  BY GoodTablesLemma DEF CodecStates
<1>2. CASE IdOf(c.table, v) # NoId
  <2> DEFINE id == IdOf(c.table, v)
  <2>1. item = [field |-> f, flag |-> "ref", payload |-> id]
    BY <1>2 DEF Item
  <2>2. Key(v) \in DOMAIN c.table.v2i /\ id = c.table.v2i[Key(v)]
    BY <1>2 DEF IdOf, Known
  <2>3. id \in DOMAIN c.table.i2v /\ Key(c.table.i2v[id]) = Key(v)
    BY <1>1, <2>2 DEF Shape, Bijective
  <2>4. c.table.i2v[id] \in V
    BY <1>1, <2>3 DEF Shape, IsTable
  <2>5. c.table.i2v[id] = v
    BY <2>3, <2>4
  <2>6. GetId(c.table, v) = Touch(c.table, Key(v))
    BY <1>2 DEF GetId
  <2> HIDE DEF item, id
  <2>7. item.field = f /\ item.flag = "ref" /\ item.payload = id
    BY <2>1
  <2>8. DecodedValue(c, item) = v
    BY <2>5, <2>7 DEF DecodedValue
  <2>9. GetValue(c.table, item.payload) = GetId(c.table, v)
    BY <2>5, <2>6, <2>7 DEF GetValue
  <2>10. AfterDecode(c, item) = AfterEncode(c, f, v)
    BY <2>7, <2>8, <2>9 DEF AfterDecode, AfterEncode
  <2>11. QED  BY <2>3, <2>7, <2>8, <2>10 DEF Decodable, item
<1>3. CASE IdOf(c.table, v) = NoId /\ CanDelta(c, f, v)
  <2>1. item = [field |-> f, flag |-> "delta", payload |-> v.n - c.last[f]]
    BY <1>3 DEF Item
  <2>2. GetId(c.table, v) = c.table
    BY <1>3 DEF GetId
  <2>3. v.type = "int" /\ f \in DOMAIN c.last
    BY <1>3 DEF CanDelta, IsInt
  <2>4. Previous(c, f) = c.last[f] /\ c.last[f] \in Int
    BY <1>1, <2>3 DEF Previous, PartialMaps
  <2>5. v = [type |-> v.type, n |-> v.n] /\ v.n \in Int
    BY <1>1 DEF AllValues
  <2> HIDE DEF item
  <2>6. item.field = f /\ item.flag = "delta" /\ item.payload = v.n - c.last[f]
    BY <2>1
  <2>7. DecodedValue(c, item) = IntValue(c.last[f] + (v.n - c.last[f]))
    BY <2>4, <2>6 DEF DecodedValue
  <2>8. DecodedValue(c, item) = v
    BY <2>3, <2>4, <2>5, <2>7 DEF IntValue
  <2>9. AfterDecode(c, item) = AfterEncode(c, f, v)
    BY <2>2, <2>6, <2>8 DEF AfterDecode, AfterEncode
  <2>10. QED  BY <2>6, <2>8, <2>9 DEF Decodable, item
<1>4. CASE IdOf(c.table, v) = NoId /\ ~CanDelta(c, f, v)
  <2>1. item = [field |-> f, flag |-> "literal", payload |-> Literal(f, v)]
    BY <1>4 DEF Item
  <2>2. GetId(c.table, v) = c.table
    BY <1>4 DEF GetId
  <2>3. Literal(f, v) = v
    BY <1>4 DEF NeedsLiteral
  <2> HIDE DEF item
  <2>4. item.field = f /\ item.flag = "literal" /\ item.payload = v
    BY <2>1, <2>3
  <2>5. DecodedValue(c, item) = v
    BY <2>4 DEF DecodedValue
  <2>6. AfterDecode(c, item) = AfterEncode(c, f, v)
    BY <2>2, <2>4, <2>5 DEF AfterDecode, AfterEncode
  <2>7. QED  BY <2>4, <2>5, <2>6 DEF Decodable, item
<1>5. QED  BY <1>2, <1>3, <1>4
=============================================================================
