------------------------- MODULE SessionStreamProofs ------------------------
(***************************************************************************)
(* Theorems about SessionStream: its type invariant, that both value       *)
(* tables stay well-formed also through calls that raise, and, for         *)
(* payloads the codec can be faithful to (Admissible), that the decoder    *)
(* replays the encoder's states, that what is decoded is what was encoded, *)
(* and that every step is one of MessageStream or stutters.                *)
(***************************************************************************)
EXTENDS SessionStream, CodecProofs, WellFoundedInduction

Payloads == PartialMaps(Fields, AllValues)

TypeInv ==
  /\ TypeOK
  /\ Encoding => msg \in Messages
  /\ enc \in CodecStates(Values) /\ dec \in CodecStates(AllValues)
  /\ out \in Seq(Items) /\ wire \in Seq(Seq(Items))
  /\ trail \in Seq(CodecStates(Values)) /\ trails \in Seq(Seq(CodecStates(Values)))
  /\ acc \in Payloads /\ sent \in Seq(Messages) /\ delivered \in Seq(Payloads)
  /\ pos \in Nat

\* A set of numbers has a least one, and Min is it.
LEMMA MinLemma ==
  ASSUME NEW S \in SUBSET Nat, S # {}
  PROVE  Min(S) \in S /\ \A y \in S : Min(S) <= y
<1>1. \E x \in S : \A y \in S : ~(<<y, x>> \in OpToRel(<, Nat))
  BY NatLessThanWellFounded, WFMin
<1>2. \A x, y \in S : ~(<<y, x>> \in OpToRel(<, Nat)) => x <= y
  BY DEF OpToRel
<1>3. \E x \in S : \A y \in S : x <= y
  BY <1>1, <1>2
<1>4. QED  BY <1>3 DEF Min

\* The constants, in the terms of the lemmas about the codec.
LEMMA ConstantsLemma ==
  /\ Values \in SUBSET AllValues
  /\ Codec0 \in CodecStates(Values) /\ Codec0 \in CodecStates(AllValues)
  /\ MaxCalls \in Nat
  /\ \A m \in Messages : /\ DOMAIN m \subseteq Fields /\ DOMAIN m \subseteq Nat
                         /\ m = [f \in DOMAIN m |-> m[f]]
                         /\ \A f \in DOMAIN m : m[f] \in Values
<1>1. Values \in SUBSET AllValues
  BY SessionStreamAssumption DEF AllValues
<1>2. Shape(Table0, Values) /\ WithinLimit(Table0)
  BY SessionStreamAssumption DEF Shape
<1>3. Shape(Table0, AllValues)
  <2>1. KeysOf(Values) \subseteq KeysOf(AllValues)
    BY <1>1 DEF KeysOf
  <2>2. Table0.lru \in Seq(KeysOf(AllValues))
    <3>1. Table0.lru \in Seq(KeysOf(Values))
      BY <1>2 DEF Shape, IsTable
    <3>2. QED  BY <2>1, <3>1
  <2>3. Table0.i2v \in [DOMAIN Table0.i2v -> {v \in AllValues : Hashable(v)}]
    BY <1>1, <1>2 DEF Shape, IsTable
  <2>4. IsTable(Table0, AllValues)
    BY <1>2, <2>1, <2>2, <2>3 DEF Shape, IsTable
  <2>5. QED  BY <1>2, <2>4 DEF Shape
<1>4. EmptyMap \in PartialMaps(Fields, Int)
  BY DEF EmptyMap, PartialMaps
<1>5. Codec0 \in CodecStates(Values) /\ Codec0 \in CodecStates(AllValues)
  BY <1>2, <1>3, <1>4, GoodTablesLemma DEF Codec0, CodecStates
<1>6. QED
  BY <1>1, <1>5, SessionStreamAssumption, CodecAssumption

\* The field a running call of encode is at.
LEMMA FirstLemma ==
  ASSUME TypeInv, Encoding, todo # {}
  PROVE  /\ Min(todo) \in todo /\ Min(todo) \in DOMAIN msg
         /\ Min(todo) \in Fields /\ msg[Min(todo)] \in Values
<1>1. todo \subseteq DOMAIN msg /\ msg \in Messages
  BY DEF TypeInv, TypeOK
<1>2. todo \in SUBSET Nat
  BY <1>1, ConstantsLemma
<1>3. QED  BY <1>1, <1>2, MinLemma, ConstantsLemma
-----------------------------------------------------------------------------
\* Both codecs begin with the table of the schema, and nothing is under way.
LEMMA TypeInvInit == Init => TypeInv
<1> SUFFICES ASSUME Init PROVE TypeInv
  OBVIOUS
<1>1. \A S : <<>> \in Seq(S) /\ Len(<<>>) = 0
  BY EmptySeq
<1>2. NoMessage \in Payloads /\ DOMAIN NoMessage = {}
  BY DEF NoMessage, EmptyMap, Payloads, PartialMaps
<1>3. TypeOK
  <2>1. /\ Len(wire) = 0 /\ Len(sent) = 0 /\ Len(trails) = 0
        /\ ~Encoding /\ ~Decoding /\ msg = NoMessage /\ todo = {} /\ out = <<>>
    BY <1>1 DEF Init, Encoding, Decoding
  <2>2. calls = 0 /\ taken = 0 /\ limit = MaxCalls /\ lost = FALSE /\ MaxCalls \in Nat
    BY ConstantsLemma DEF Init
  <2>3. todo \subseteq DOMAIN msg /\ msg \in Messages \cup {NoMessage}
    BY <2>1
  <2>4. calls \in 0..MaxCalls /\ taken \in 0..Len(wire) /\ limit \in 0..MaxCalls
    BY <2>1, <2>2
  <2>5. lost \in BOOLEAN
    BY <2>2
  <2>6. QED  BY <2>1, <2>3, <2>4, <2>5 DEF TypeOK
<1>4. QED  BY <1>1, <1>2, <1>3, ConstantsLemma DEF Init, TypeInv, Encoding

\* What each step does to the types.  The sender's steps leave the receiver alone,
\* and the frame it reads; the receiver's leave the sender alone.
LEMMA TypeInvNext ==
  ASSUME TypeInv, [Next]_vars
  PROVE  TypeInv'
<1>0. /\ Len(wire) \in Nat /\ Len(sent) \in Nat /\ Len(trails) \in Nat /\ Len(out) \in Nat
      /\ Len(trail) \in Nat /\ MaxCalls \in Nat
      /\ DOMAIN NoMessage = {} /\ Len(<<>>) = 0
  BY LenProperties, EmptySeq, ConstantsLemma DEF TypeInv, NoMessage, EmptyMap
<1>01. TypeOK /\ taken \in Nat /\ taken <= Len(wire) /\ (Decoding => taken + 1 \in 1..Len(wire))
  BY <1>0 DEF TypeInv, TypeOK
<1>02. NoMessage \in Payloads
  BY DEF NoMessage, EmptyMap, Payloads, PartialMaps
<1>1. ASSUME NEW m \in Messages, EncodeCall(m)  PROVE TypeInv'
  <2>1. /\ calls' \in 0..MaxCalls /\ msg' = m /\ todo' = DOMAIN m /\ trail' = <<enc>>
        /\ UNCHANGED <<enc, out, wire, sent, limit, trails, taken, dec, pos, acc, delivered, lost>>
        /\ out = <<>>
    BY <1>1, <1>0 DEF EncodeCall, TypeInv, TypeOK, receiverVars
  <2>2. /\ trail' \in Seq(CodecStates(Values)) /\ Len(trail') = 1 /\ trail'[1] = enc
        /\ trail' # <<>>
    BY <2>1 DEF TypeInv
  <2>3. TypeOK'
    BY <1>0, <2>1, <2>2 DEF TypeInv, TypeOK, Encoding, Decoding, Frame
  <2>4. QED  BY <2>1, <2>2, <2>3 DEF TypeInv
<1>2. CASE EncodeField
  <2> DEFINE f == Min(todo)
  <2>1. /\ Encoding /\ todo # {} /\ todo' = todo \ {f}
        /\ out' = Append(out, Item(enc, f, msg[f]))
        /\ enc' = AfterEncode(enc, f, msg[f])
        /\ trail' = Append(trail, enc')
        /\ UNCHANGED <<calls, msg, wire, sent, limit, trails,
                       taken, dec, pos, acc, delivered, lost>>
    BY <1>2 DEF EncodeField, receiverVars
  <2>2. f \in Fields /\ msg[f] \in Values
    BY <2>1, FirstLemma
  <2> HIDE DEF f
  <2>3. enc' \in CodecStates(Values) /\ Item(enc, f, msg[f]) \in Items
    <3>1. Values \in SUBSET AllValues /\ enc \in CodecStates(Values)
      BY ConstantsLemma DEF TypeInv
    <3>2. QED  BY <2>1, <2>2, <3>1, AfterEncodeLemma, ItemLemma
  <2>4. /\ out' \in Seq(Items) /\ Len(out') = Len(out) + 1
        /\ trail' \in Seq(CodecStates(Values)) /\ Len(trail') = Len(trail) + 1
        /\ trail'[Len(trail) + 1] = enc' /\ trail' # <<>>
    <3>1. out \in Seq(Items) /\ trail \in Seq(CodecStates(Values))
      BY DEF TypeInv
    <3>2. out' \in Seq(Items) /\ Len(out') = Len(out) + 1
      BY <2>1, <2>3, <3>1, AppendProperties
    <3>3. QED  BY <2>1, <2>3, <3>1, <3>2, AppendProperties
  <2>5. TypeOK'
    BY <1>0, <2>1, <2>4 DEF TypeInv, TypeOK, Encoding, Decoding, Frame
  <2>6. QED  BY <2>1, <2>3, <2>4, <2>5 DEF TypeInv, Encoding
<1>3. CASE EncodeRaise
  <2>1. /\ msg' = NoMessage /\ todo' = {} /\ out' = <<>> /\ trail' = <<>>
        /\ limit' = limit \/ limit' = Min({limit, Len(sent)})
        /\ UNCHANGED <<calls, enc, wire, sent, trails, taken, dec, pos, acc, delivered, lost>>
    BY <1>3 DEF EncodeRaise, receiverVars
  <2>2. limit' \in 0..MaxCalls
    <3>1. limit \in 0..MaxCalls
      BY DEF TypeInv, TypeOK
    <3>2. {limit, Len(sent)} \in SUBSET Nat /\ {limit, Len(sent)} # {}
      BY <1>0, <3>1
    <3>3. Min({limit, Len(sent)}) \in Nat /\ Min({limit, Len(sent)}) <= limit
      BY <3>2, MinLemma
    <3>4. QED  BY <1>0, <2>1, <3>1, <3>3
  <2>3. TypeOK'
    BY <1>0, <2>1, <2>2 DEF TypeInv, TypeOK, Encoding, Decoding, Frame
  <2>4. QED  BY <1>0, <2>1, <2>3 DEF TypeInv, Encoding
<1>4. CASE EncodeReturn
  <2>1. /\ Encoding /\ todo = {}
        /\ wire' = Append(wire, out) /\ sent' = Append(sent, msg)
        /\ trails' = Append(trails, trail)
        /\ msg' = NoMessage /\ out' = <<>> /\ trail' = <<>>
        /\ UNCHANGED <<calls, enc, todo, limit, taken, dec, pos, acc, delivered, lost>>
    BY <1>4 DEF EncodeReturn, receiverVars
  <2>2. /\ wire' \in Seq(Seq(Items)) /\ Len(wire') = Len(wire) + 1
        /\ \A k \in 1..Len(wire) : wire'[k] = wire[k]
    BY <2>1, AppendProperties DEF TypeInv
  <2>3. sent' \in Seq(Messages) /\ Len(sent') = Len(sent) + 1
    BY <2>1, AppendProperties DEF TypeInv
  <2>4. trails' \in Seq(Seq(CodecStates(Values))) /\ Len(trails') = Len(trails) + 1
    BY <2>1, AppendProperties DEF TypeInv
  <2>5. Decoding => Frame' = Frame
    BY <1>01, <2>1, <2>2 DEF Frame
  <2>6. TypeOK'
    BY <1>0, <2>1, <2>2, <2>3, <2>4, <2>5 DEF TypeInv, TypeOK, Encoding, Decoding
  <2>7. QED  BY <1>0, <2>1, <2>2, <2>3, <2>4, <2>6 DEF TypeInv, Encoding
<1>5. CASE DecodeCall
  <2>1. /\ ~Decoding /\ taken < Len(wire) /\ pos' = 1 /\ acc' = NoMessage
        /\ UNCHANGED <<calls, enc, msg, todo, out, wire, sent, limit, trail, trails,
                       taken, dec, delivered, lost>>
    BY <1>5 DEF DecodeCall, senderVars
  <2>2. Len(Frame) \in Nat
    <3>1. taken + 1 \in 1..Len(wire)
      BY <1>0, <1>01, <2>1
    <3>2. Frame \in Seq(Items)
      BY <3>1, ElementOfSeq DEF TypeInv, Frame
    <3>3. QED  BY <3>2, LenProperties
  <2>3. acc' \in Payloads
    BY <1>02, <2>1
  <2>4. TypeOK'
    <3>1. Frame' = Frame /\ pos' \in 1..Len(Frame) + 1
      BY <2>1, <2>2 DEF Frame
    <3>2. QED  BY <1>0, <1>01, <2>1, <3>1 DEF TypeOK, Encoding, Decoding
  <2>5. QED  BY <2>1, <2>3, <2>4 DEF TypeInv, Encoding
<1>6. CASE DecodeField
  <2>1. /\ Decoding /\ pos <= Len(Frame) /\ Decodable(dec, Frame[pos])
        /\ acc' = Put(acc, Frame[pos].field, DecodedValue(dec, Frame[pos]))
        /\ dec' = AfterDecode(dec, Frame[pos])
        /\ pos' = pos + 1
        /\ UNCHANGED <<calls, enc, msg, todo, out, wire, sent, limit, trail, trails,
                       taken, delivered, lost>>
    BY <1>6 DEF DecodeField, senderVars
  <2>2. Len(Frame) \in Nat /\ Frame[pos] \in Items
    <3>1. taken + 1 \in 1..Len(wire)
      BY <1>0, <1>01, <2>1
    <3>2. Frame \in Seq(Items)
      BY <3>1, ElementOfSeq DEF TypeInv, Frame
    <3>3. Len(Frame) \in Nat /\ pos \in 1..Len(Frame)
      BY <2>1, <3>2, LenProperties DEF TypeInv, TypeOK
    <3>4. QED  BY <3>2, <3>3, ElementOfSeq
  <2>3. DecodedValue(dec, Frame[pos]) \in AllValues /\ dec' \in CodecStates(AllValues)
    BY <2>1, <2>2, AfterDecodeLemma DEF TypeInv
  <2>4. acc' \in Payloads
    <3>1. Frame[pos].field \in Fields
      BY <2>2 DEF Items
    <3>2. QED  BY <2>1, <2>3, <3>1, PutLemma DEF TypeInv, Payloads
  <2>5. TypeOK'
    <3>1. Frame' = Frame /\ pos' \in 1..Len(Frame) + 1
      BY <1>01, <2>1, <2>2 DEF Frame, TypeOK
    <3>2. QED  BY <1>0, <1>01, <2>1, <3>1 DEF TypeOK, Encoding, Decoding
  <2>6. QED  BY <2>1, <2>3, <2>4, <2>5 DEF TypeInv, Encoding
<1>7. CASE DecodeRaise \/ DecodeReturn
  <2>1. /\ Decoding /\ taken' = taken + 1 /\ pos' = 0 /\ acc' = NoMessage
        /\ lost' = TRUE \/ lost' = lost
        /\ delivered' = delivered \/ delivered' = Append(delivered, acc)
        /\ UNCHANGED <<calls, enc, msg, todo, out, wire, sent, limit, trail, trails, dec>>
    BY <1>7 DEF DecodeRaise, DecodeReturn, senderVars
  <2>2. delivered' \in Seq(Payloads)
    <3>1. delivered \in Seq(Payloads) /\ acc \in Payloads
      BY DEF TypeInv
    <3>2. Append(delivered, acc) \in Seq(Payloads)
      BY <3>1, AppendProperties
    <3>3. QED  BY <2>1, <3>1, <3>2
  <2>3. acc' \in Payloads
    BY <1>02, <2>1
  <2>4. TypeOK'
    <3>1. lost' \in BOOLEAN
      BY <1>01, <2>1 DEF TypeOK
    <3>2. taken' \in 0..Len(wire') /\ ~Decoding' /\ (Encoding' <=> Encoding)
      BY <1>0, <1>01, <2>1 DEF Encoding, Decoding
    <3>3. QED  BY <1>01, <2>1, <3>1, <3>2 DEF TypeOK
  <2>5. QED  BY <2>1, <2>2, <2>3, <2>4 DEF TypeInv, Encoding
<1>8. CASE UNCHANGED vars
  BY <1>8 DEF vars, senderVars, receiverVars, TypeInv, TypeOK, Encoding, Decoding, Frame
<1>9. QED
  BY <1>1, <1>2, <1>3, <1>4, <1>5, <1>6, <1>7, <1>8 DEF Next, Encode, Decode

\* The variables of a running call, and only they, are in use: for all values,
\* payloads and tables, with nothing asked of the payloads.
THEOREM TypeCorrect == Spec => []TypeOK
<1>1. TypeInv => TypeOK
  BY DEF TypeInv
<1>2. TypeInv /\ [Next]_vars => TypeInv'
  BY TypeInvNext
<1>3. QED  BY <1>1, <1>2, TypeInvInit, PTL DEF Spec

\* Both value tables stay well-formed and within max_entries, in the middle of a
\* call and after calls that raised, whatever payloads the application passes.
THEOREM BothTablesWellFormed == Spec => []TablesWellFormed
<1>1. TypeInv => TablesWellFormed
  <2> SUFFICES ASSUME TypeInv, NEW c \in {enc, dec}
               PROVE  Bijective(c.table) /\ LruMatches(c.table) /\ WithinLimit(c.table)
    BY DEF TablesWellFormed
  <2>1. PICK V : c \in CodecStates(V)
    BY DEF TypeInv
  <2>2. c.table \in GoodTables(V)
    BY <2>1 DEF CodecStates
  <2>3. QED  BY <2>2, GoodTablesLemma DEF Shape
<1>2. TypeInv /\ [Next]_vars => TypeInv'
  BY TypeInvNext
<1>3. QED  BY <1>1, <1>2, TypeInvInit, PTL DEF Spec
-----------------------------------------------------------------------------
(***************************************************************************)
(* The encoder's half.  The states of trail, and those of every frame in   *)
(* trails, are the states a decoder goes through that starts in the first  *)
(* of them and reads the items; and as far as limit goes each frame starts *)
(* where the one before it ended.                                          *)
(***************************************************************************)
ReplaysTo(items, states, m, rest) ==
  /\ Len(states) = Len(items) + 1
  /\ \A j \in 1..Len(items) :
       /\ Decodable(states[j], items[j])
       /\ DecodedValue(states[j], items[j]) = m[items[j].field]
       /\ AfterDecode(states[j], items[j]) = states[j + 1]
  /\ DOMAIN m = rest \cup {items[j].field : j \in 1..Len(items)}

EndOf(k) == IF k = 0 THEN Codec0 ELSE trails[k][Len(trails[k])]

Begun == Len(sent) + IF Encoding THEN 1 ELSE 0

EncoderInv ==
  /\ Begun <= calls
  /\ \A k \in 1..Len(wire) : ReplaysTo(wire[k], trails[k], sent[k], {})
  /\ Encoding => ReplaysTo(out, trail, msg, todo)
  /\ \A k \in 1..Len(wire) : k <= limit => trails[k][1] = EndOf(k - 1)
  /\ limit = MaxCalls => EndOf(Len(wire)) = IF Encoding THEN trail[1] ELSE enc
  /\ limit # MaxCalls => limit <= Len(wire)

\* One more field.
LEMMA ReplayStep ==
  ASSUME Admissible, NEW m \in Messages, NEW f \in DOMAIN m, NEW rest, f \in rest,
         NEW items \in Seq(Items), NEW states \in Seq(CodecStates(Values)),
         ReplaysTo(items, states, m, rest),
         NEW c, c = states[Len(states)],
         NeedsLiteral(c, f, m[f]) => Encodable(f, m[f])
  PROVE  ReplaysTo(Append(items, Item(c, f, m[f])), Append(states, AfterEncode(c, f, m[f])),
                   m, rest \ {f})
<1> DEFINE item  == Item(c, f, m[f])
           after == AfterEncode(c, f, m[f])
           is    == Append(items, item)
           ss    == Append(states, after)
<1>1. /\ Len(items) \in Nat /\ Len(states) = Len(items) + 1
      /\ f \in Fields /\ m[f] \in Values /\ Values \in SUBSET AllValues
  BY LenProperties, ConstantsLemma DEF ReplaysTo
<1>2. c \in CodecStates(Values)
  BY <1>1, ElementOfSeq
<1>3. /\ item.field = f /\ Decodable(c, item) /\ DecodedValue(c, item) = m[f]
      /\ AfterDecode(c, item) = after
  <2>1. NeedsLiteral(c, f, m[f]) => Literal(f, m[f]) = m[f]
    BY DEF Admissible
  <2>2. \A u, v \in Values : Key(u) = Key(v) => u = v
    BY DEF Admissible
  <2>3. QED  BY <1>1, <1>2, <2>1, <2>2, DecodeUndoesEncode
<1>4. item \in Items /\ after \in CodecStates(Values)
  BY <1>1, <1>2, ItemLemma, AfterEncodeLemma
<1> HIDE DEF item, after
<1>5. /\ Len(is) = Len(items) + 1 /\ is[Len(items) + 1] = item
      /\ \A j \in 1..Len(items) : is[j] = items[j]
  BY <1>4, AppendProperties
<1>6. /\ Len(ss) = Len(items) + 2 /\ ss[Len(items) + 2] = after
      /\ \A j \in 1..Len(items) + 1 : ss[j] = states[j]
  <2>1. /\ Len(ss) = Len(states) + 1 /\ ss[Len(states) + 1] = after
        /\ \A j \in 1..Len(states) : ss[j] = states[j]
    BY <1>4, AppendProperties
  <2>2. QED  BY <1>1, <2>1
<1> HIDE DEF is, ss
<1>7. ASSUME NEW j \in 1..Len(is)
      PROVE  /\ Decodable(ss[j], is[j])
             /\ DecodedValue(ss[j], is[j]) = m[is[j].field]
             /\ AfterDecode(ss[j], is[j]) = ss[j + 1]
  <2>1. CASE j \in 1..Len(items)
    <3>1. is[j] = items[j] /\ ss[j] = states[j] /\ ss[j + 1] = states[j + 1]
      BY <1>1, <1>5, <1>6, <2>1
    <3>2. QED  BY <2>1, <3>1 DEF ReplaysTo
  <2>2. CASE j = Len(items) + 1
    <3>1. is[j] = item /\ ss[j] = c /\ ss[j + 1] = after
      BY <1>1, <1>5, <1>6, <2>2
    <3>2. QED  BY <1>3, <3>1
  <2>3. QED  BY <1>1, <1>5, <2>1, <2>2
<1>8. DOMAIN m = (rest \ {f}) \cup {is[j].field : j \in 1..Len(is)}
  <2>1. DOMAIN m = rest \cup {items[j].field : j \in 1..Len(items)}
    BY DEF ReplaysTo
  <2>2. {is[j].field : j \in 1..Len(is)} = {items[j].field : j \in 1..Len(items)} \cup {f}
    <3>1. \A j \in 1..Len(is) : j \in 1..Len(items) \/ j = Len(items) + 1
      BY <1>1, <1>5
    <3>2. \A j \in 1..Len(items) : j \in 1..Len(is)
      BY <1>1, <1>5
    <3>3. Len(items) + 1 \in 1..Len(is) /\ is[Len(items) + 1].field = f
      BY <1>1, <1>3, <1>5
    <3>4. QED  BY <1>5, <3>1, <3>2, <3>3
  <2>3. QED  BY <2>1, <2>2
<1>9. Len(ss) = Len(is) + 1
  BY <1>1, <1>5, <1>6
<1>10. ReplaysTo(is, ss, m, rest \ {f})
  BY <1>7, <1>8, <1>9 DEF ReplaysTo
<1>11. QED  BY <1>10 DEF is, ss, item, after

\* No call of encode was made yet.
LEMMA EncoderInvInit ==
  ASSUME Init
  PROVE  EncoderInv
<1>1. Len(<<>>) = 0
  BY EmptySeq
<1>2. /\ Len(wire) = 0 /\ Len(sent) = 0 /\ ~Encoding
      /\ calls = 0 /\ enc = Codec0 /\ limit = MaxCalls
  BY <1>1 DEF Init, Encoding
<1>3. QED  BY <1>2 DEF EncoderInv, Begun, EndOf

\* Each field that is encoded adds an item that replays to the state after it.
LEMMA EncoderInvNext ==
  ASSUME Admissible, TypeInv, EncoderInv, [Next]_vars
  PROVE  EncoderInv'
<1>0. /\ TypeOK /\ Len(wire) \in Nat /\ Len(sent) = Len(wire) /\ Len(trails) = Len(wire)
      /\ Len(trail) \in Nat /\ Len(out) \in Nat /\ MaxCalls \in Nat /\ limit \in 0..MaxCalls
      /\ calls \in 0..MaxCalls
  BY LenProperties, ConstantsLemma DEF TypeInv, TypeOK
<1>1. ASSUME NEW m \in Messages, EncodeCall(m)  PROVE EncoderInv'
  <2>1. /\ ~Encoding /\ calls' = calls + 1 /\ msg' = m /\ todo' = DOMAIN m /\ trail' = <<enc>>
        /\ out' = <<>> /\ UNCHANGED <<wire, sent, limit, trails>>
    BY <1>0, <1>1 DEF EncodeCall, TypeOK, receiverVars
  <2>2. Encoding' /\ trail'[1] = enc /\ Len(trail') = 1 /\ Len(out') = 0
    BY <2>1, EmptySeq DEF Encoding
  <2>3. ReplaysTo(out', trail', msg', todo')
    <3>1. 1..Len(out') = {}
      BY <2>2
    <3>2. DOMAIN msg' = todo' \cup {out'[j].field : j \in 1..Len(out')}
      BY <2>1, <3>1
    <3>3. QED  BY <2>2, <3>1, <3>2 DEF ReplaysTo
  <2>4. Begun' <= calls'
    BY <1>0, <2>1, <2>2 DEF EncoderInv, Begun
  <2>5. \A k \in 0..Len(wire) : EndOf(k)' = EndOf(k)
    BY <2>1 DEF EndOf
  <2>6. limit = MaxCalls => EndOf(Len(wire)) = enc
    BY <2>1 DEF EncoderInv
  <2>7. \A k \in 1..Len(wire) : k - 1 \in 0..Len(wire)
    BY <1>0
  <2>8. QED
    BY <1>0, <2>1, <2>2, <2>3, <2>4, <2>5, <2>6, <2>7 DEF EncoderInv
<1>2. CASE EncodeField
  <2> DEFINE f == Min(todo)
  <2>1. /\ Encoding /\ todo # {} /\ todo' = todo \ {f}
        /\ NeedsLiteral(enc, f, msg[f]) => Encodable(f, msg[f])
        /\ out' = Append(out, Item(enc, f, msg[f]))
        /\ trail' = Append(trail, AfterEncode(enc, f, msg[f]))
        /\ UNCHANGED <<calls, msg, wire, sent, limit, trails>>
    BY <1>2 DEF EncodeField, receiverVars
  <2>2. f \in todo /\ f \in DOMAIN msg /\ f \in Fields /\ msg[f] \in Values /\ msg \in Messages
    BY <2>1, FirstLemma DEF TypeInv
  <2> HIDE DEF f
  <2>3. /\ enc = trail[Len(trail)] /\ trail \in Seq(CodecStates(Values)) /\ out \in Seq(Items)
        /\ enc \in CodecStates(Values) /\ Len(trail) = Len(out) + 1
    BY <2>1 DEF TypeInv, TypeOK
  <2>4. ReplaysTo(out, trail, msg, todo)
    BY <2>1 DEF EncoderInv
  <2>5. ReplaysTo(out', trail', msg', todo')
    BY <2>1, <2>2, <2>3, <2>4, ReplayStep
  <2>6. Encoding' /\ trail'[1] = trail[1]
    <3>1. AfterEncode(enc, f, msg[f]) \in CodecStates(Values)
      BY <2>2, <2>3, AfterEncodeLemma, ConstantsLemma
    <3>2. 1 \in 1..Len(trail)
      BY <1>0, <2>3
    <3>3. QED  BY <2>1, <2>3, <3>1, <3>2, AppendProperties DEF Encoding
  <2>7. \A k \in 0..Len(wire) : EndOf(k)' = EndOf(k)
    BY <2>1 DEF EndOf
  <2>8. \A k \in 1..Len(wire) : k - 1 \in 0..Len(wire)
    BY <1>0
  <2>9. Begun' = Begun
    BY <2>1, <2>6 DEF Begun
  <2>10. QED
    BY <1>0, <2>1, <2>5, <2>6, <2>7, <2>8, <2>9 DEF EncoderInv
<1>3. CASE EncodeRaise
  <2>1. /\ Encoding /\ trail' = <<>>
        /\ limit' = IF enc = trail[1] THEN limit ELSE Min({limit, Len(sent)})
        /\ UNCHANGED <<calls, enc, wire, sent, trails>>
    BY <1>3 DEF EncodeRaise, receiverVars
  <2>2. ~Encoding'
    BY <2>1 DEF Encoding
  <2>3. Len(sent) + 1 <= calls
    BY <2>1 DEF EncoderInv, Begun
  <2>4. /\ limit' <= limit /\ limit' \in Nat
        /\ limit' # limit => limit' = Len(sent)
        /\ enc # trail[1] => limit' <= Len(sent)
    <3>1. {limit, Len(sent)} \in SUBSET Nat /\ {limit, Len(sent)} # {}
      BY <1>0
    <3>2. /\ Min({limit, Len(sent)}) \in {limit, Len(sent)}
          /\ \A y \in {limit, Len(sent)} : Min({limit, Len(sent)}) <= y
      BY <3>1, MinLemma
    <3>3. QED  BY <1>0, <2>1, <3>2
  <2>5. \A k \in 0..Len(wire) : EndOf(k)' = EndOf(k)
    BY <2>1 DEF EndOf
  <2>6. \A k \in 1..Len(wire) : k <= limit' => trails'[k][1] = EndOf(k - 1)'
    <3>1. SUFFICES ASSUME NEW k \in 1..Len(wire), k <= limit'  PROVE trails[k][1] = EndOf(k - 1)
      BY <1>0, <2>1, <2>5
    <3>2. k <= limit
      BY <1>0, <2>4, <3>1
    <3>3. QED  BY <3>2 DEF EncoderInv
  <2>7. limit' = MaxCalls => EndOf(Len(wire))' = enc'
    <3>1. SUFFICES ASSUME limit' = MaxCalls  PROVE EndOf(Len(wire)) = enc
      BY <1>0, <2>1, <2>5
    <3>2. enc = trail[1] /\ limit = MaxCalls
      BY <1>0, <2>1, <2>3, <2>4, <3>1
    <3>3. QED  BY <2>1, <3>2 DEF EncoderInv
  <2>8. limit' # MaxCalls => limit' <= Len(wire)
    BY <1>0, <2>4 DEF EncoderInv
  <2>9. Begun' <= calls'
    BY <1>0, <2>1, <2>2, <2>3 DEF Begun
  <2>10. \A k \in 1..Len(wire) : ReplaysTo(wire[k], trails[k], sent[k], {})
    BY DEF EncoderInv
  <2>11. QED
    BY <1>0, <2>1, <2>2, <2>6, <2>7, <2>8, <2>9, <2>10 DEF EncoderInv
<1>4. CASE EncodeReturn
  <2> DEFINE n == Len(wire) + 1
  <2>1. /\ Encoding /\ todo = {}
        /\ wire' = Append(wire, out) /\ sent' = Append(sent, msg)
        /\ trails' = Append(trails, trail) /\ trail' = <<>>
        /\ UNCHANGED <<calls, enc, limit>>
    BY <1>4 DEF EncodeReturn, receiverVars
  <2>2. /\ Len(wire') = n /\ wire'[n] = out
        /\ \A k \in 1..Len(wire) : wire'[k] = wire[k]
    BY <2>1, AppendProperties DEF TypeInv
  <2>3. /\ Len(sent') = n /\ sent'[n] = msg
        /\ \A k \in 1..Len(wire) : sent'[k] = sent[k]
    BY <1>0, <2>1, AppendProperties DEF TypeInv
  <2>4. /\ trails'[n] = trail
        /\ \A k \in 1..Len(wire) : trails'[k] = trails[k]
    BY <1>0, <2>1, AppendProperties DEF TypeInv
  <2>5. ~Encoding' /\ trail[Len(trail)] = enc
    BY <1>0, <2>1 DEF Encoding, TypeOK
  <2>6. \A k \in 0..Len(wire) : EndOf(k)' = EndOf(k)
    BY <1>0, <2>4 DEF EndOf
  <2>7. EndOf(Len(wire))' = enc
    BY <1>0, <2>2, <2>4, <2>5 DEF EndOf
  <2>8. Len(wire) + 1 <= calls
    BY <1>0, <2>1 DEF EncoderInv, Begun
  <2>9. ReplaysTo(out, trail, msg, {}) /\ (limit = MaxCalls => EndOf(Len(wire)) = trail[1])
    BY <2>1 DEF EncoderInv
  <2>10. ASSUME NEW k \in 1..n
         PROVE  /\ ReplaysTo(wire'[k], trails'[k], sent'[k], {})
                /\ k <= limit' => trails'[k][1] = EndOf(k - 1)'
    <3>1. CASE k \in 1..Len(wire)
      <4>1. k - 1 \in 0..Len(wire)
        BY <1>0, <3>1
      <4>2. QED  BY <2>1, <2>2, <2>3, <2>4, <2>6, <3>1, <4>1 DEF EncoderInv
    <3>2. CASE k = n
      <4>1. k <= limit => limit = MaxCalls
        BY <1>0, <3>2 DEF EncoderInv
      <4>2. k - 1 = Len(wire) /\ Len(wire) \in 0..Len(wire)
        BY <1>0, <3>2
      <4>3. QED  BY <2>1, <2>2, <2>3, <2>4, <2>6, <2>9, <3>2, <4>1, <4>2
    <3>3. QED  BY <1>0, <3>1, <3>2
  <2>11. limit' # MaxCalls => limit' <= n
    BY <1>0, <2>1 DEF EncoderInv
  <2>12. Begun' <= calls'
    BY <1>0, <2>1, <2>3, <2>5, <2>8 DEF Begun
  <2>13. EndOf(Len(wire))' = enc'
    BY <2>1, <2>7
  <2> HIDE DEF n
  <2>14. QED
    BY <2>2, <2>5, <2>10, <2>11, <2>12, <2>13 DEF EncoderInv
<1>5. CASE Decode \/ UNCHANGED vars
  <2>1. UNCHANGED senderVars
    BY <1>5 DEF Decode, DecodeCall, DecodeField, DecodeRaise, DecodeReturn, vars
  <2>2. UNCHANGED <<calls, enc, msg, todo, out, wire, sent, limit, trail, trails>>
    BY <2>1 DEF senderVars
  <2>3. \A k \in 0..Len(wire) : EndOf(k)' = EndOf(k)
    BY <2>2 DEF EndOf
  <2>4. \A k \in 1..Len(wire) : k - 1 \in 0..Len(wire)
    BY <1>0
  <2>5. Begun' = Begun /\ (Encoding' <=> Encoding)
    BY <2>2 DEF Begun, Encoding
  <2>6. QED  BY <1>0, <2>2, <2>3, <2>4, <2>5 DEF EncoderInv
<1>6. QED
  BY <1>1, <1>2, <1>3, <1>4, <1>5 DEF Next, Encode
-----------------------------------------------------------------------------
(***************************************************************************)
(* The decoder's half: between calls it is where the frames it took ended, *)
(* within a call where the frame was when the item at pos was written.     *)
(***************************************************************************)
FieldsBefore(items, n) == {items[j].field : j \in 1..n - 1}

DecoderInv ==
  /\ taken <= limit /\ ~Decoding => dec = EndOf(taken)
  /\ taken < limit /\ Decoding =>
       /\ dec = trails[taken + 1][pos]
       /\ acc = [f \in FieldsBefore(Frame, pos) |-> sent[taken + 1][f]]
  /\ taken <= limit => ~lost /\ Len(delivered) = taken
  /\ taken > limit => Len(delivered) >= limit
  /\ \A i \in 1..Len(delivered) : i <= limit => i <= Len(sent) /\ delivered[i] = sent[i]

\* What the sender does while the receiver runs: it adds frames, and it may lower
\* limit to the number of frames there are.
LEMMA SenderLemma ==
  ASSUME TypeInv, Encode \/ \E m \in Messages : EncodeCall(m)
  PROVE  /\ UNCHANGED <<taken, dec, pos, acc, delivered, lost>>
         /\ Len(wire') >= Len(wire)
         /\ \A k \in 1..Len(wire) :
              wire'[k] = wire[k] /\ trails'[k] = trails[k] /\ sent'[k] = sent[k]
         /\ limit' = limit \/ (limit' = Len(wire) /\ limit' <= limit)
<1>0. /\ Len(wire) \in Nat /\ Len(sent) = Len(wire) /\ Len(trails) = Len(wire)
      /\ limit \in Nat
  BY LenProperties DEF TypeInv, TypeOK
<1>1. CASE EncodeField \/ \E m \in Messages : EncodeCall(m)
  <2>1. UNCHANGED <<wire, sent, limit, trails, taken, dec, pos, acc, delivered, lost>>
    BY <1>1 DEF EncodeField, EncodeCall, receiverVars
  <2>2. QED  BY <1>0, <2>1
<1>2. CASE EncodeRaise
  <2>1. /\ limit' = limit \/ limit' = Min({limit, Len(sent)})
        /\ UNCHANGED <<wire, sent, trails, taken, dec, pos, acc, delivered, lost>>
    BY <1>2 DEF EncodeRaise, receiverVars
  <2>2. {limit, Len(sent)} \in SUBSET Nat /\ {limit, Len(sent)} # {}
    BY <1>0
  <2>3. Min({limit, Len(sent)}) \in {limit, Len(sent)} /\ Min({limit, Len(sent)}) <= limit
    BY <2>2, MinLemma
  <2>4. QED  BY <1>0, <2>1, <2>3
<1>3. CASE EncodeReturn
  <2>1. /\ wire' = Append(wire, out) /\ sent' = Append(sent, msg) /\ trails' = Append(trails, trail)
        /\ Encoding /\ UNCHANGED <<limit, taken, dec, pos, acc, delivered, lost>>
    BY <1>3 DEF EncodeReturn, receiverVars
  <2>2. Len(wire') = Len(wire) + 1 /\ \A k \in 1..Len(wire) : wire'[k] = wire[k]
    BY <2>1, AppendProperties DEF TypeInv
  <2>3. \A k \in 1..Len(wire) : sent'[k] = sent[k]
    BY <1>0, <2>1, AppendProperties DEF TypeInv
  <2>4. \A k \in 1..Len(wire) : trails'[k] = trails[k]
    BY <1>0, <2>1, AppendProperties DEF TypeInv
  <2>5. QED  BY <1>0, <2>1, <2>2, <2>3, <2>4
<1>4. QED  BY <1>1, <1>2, <1>3 DEF Encode

\* The decoder begins where the encoder began.
LEMMA DecoderInvInit ==
  ASSUME Init
  PROVE  DecoderInv
<1>1. Len(<<>>) = 0
  BY EmptySeq
<1>2. /\ taken = 0 /\ ~Decoding /\ dec = Codec0 /\ ~lost /\ Len(delivered) = 0
      /\ limit = MaxCalls /\ MaxCalls \in Nat
  BY <1>1, ConstantsLemma DEF Init, Decoding
<1>3. EndOf(taken) = Codec0
  BY <1>2 DEF EndOf
<1>4. QED  BY <1>2, <1>3 DEF DecoderInv

\* While taken < limit the receiver can read every item, and reads what was sent.
LEMMA ReadLemma ==
  ASSUME TypeInv, EncoderInv, DecoderInv, Decoding, taken < limit
  PROVE  /\ taken + 1 \in 1..Len(wire) /\ taken + 1 \in 1..Len(sent)
         /\ Frame \in Seq(Items) /\ Len(Frame) \in Nat /\ pos \in 1..Len(Frame) + 1
         /\ ReplaysTo(Frame, trails[taken + 1], sent[taken + 1], {})
         /\ sent[taken + 1] \in Messages
         /\ pos <= Len(Frame) => /\ pos \in 1..Len(Frame)
                                 /\ Decodable(dec, Frame[pos])
<1>1. /\ Len(wire) \in Nat /\ Len(sent) = Len(wire) /\ taken \in 0..Len(wire)
      /\ taken < Len(wire) /\ pos \in 1..Len(Frame) + 1
  BY LenProperties DEF TypeInv, TypeOK
<1>2. taken + 1 \in 1..Len(wire) /\ taken + 1 \in 1..Len(sent)
  BY <1>1
<1>3. Frame \in Seq(Items) /\ sent[taken + 1] \in Messages
  BY <1>2, ElementOfSeq DEF TypeInv, Frame
<1>4. Len(Frame) \in Nat
  BY <1>3, LenProperties
<1>5. ReplaysTo(Frame, trails[taken + 1], sent[taken + 1], {})
  BY <1>2 DEF EncoderInv, Frame
<1>6. dec = trails[taken + 1][pos]
  BY DEF DecoderInv
<1>7. pos <= Len(Frame) => pos \in 1..Len(Frame)
  BY <1>1, <1>4
<1>8. QED  BY <1>1, <1>2, <1>3, <1>4, <1>5, <1>6, <1>7 DEF ReplaysTo

\* Reading an item takes the decoder along the recorded states of the encoder.
LEMMA DecoderInvNext ==
  ASSUME TypeInv, EncoderInv, DecoderInv, [Next]_vars, TypeInv'
  PROVE  DecoderInv'
<1>0. /\ TypeOK /\ Len(wire) \in Nat /\ Len(sent) = Len(wire) /\ Len(trails) = Len(wire)
      /\ taken \in 0..Len(wire) /\ limit \in Nat /\ limit' \in Nat /\ pos \in Nat
      /\ Len(delivered) \in Nat /\ delivered \in Seq(Payloads) /\ acc \in Payloads
      /\ Len(sent') = Len(wire')
  BY LenProperties, ConstantsLemma DEF TypeInv, TypeOK
<1>1. CASE Encode \/ \E m \in Messages : EncodeCall(m)
  <2>1. /\ UNCHANGED <<taken, dec, pos, acc, delivered, lost>>
        /\ Len(wire') >= Len(wire)
        /\ \A k \in 1..Len(wire) :
             wire'[k] = wire[k] /\ trails'[k] = trails[k] /\ sent'[k] = sent[k]
        /\ limit' = limit \/ (limit' = Len(wire) /\ limit' <= limit)
    BY <1>1, SenderLemma
  <2>2. EndOf(taken)' = EndOf(taken)
    BY <1>0, <2>1 DEF EndOf
  <2>3. Decoding => taken + 1 \in 1..Len(wire)
    BY <1>0 DEF TypeOK
  <2>4. Decoding => /\ trails'[taken + 1] = trails[taken + 1] /\ sent'[taken + 1] = sent[taken + 1]
                    /\ Frame' = Frame
    BY <2>1, <2>3 DEF Frame
  <2>5. /\ taken <= limit' <=> taken <= limit
        /\ taken < limit' => taken < limit
        /\ limit' <= limit
    BY <1>0, <2>1
  <2>6. taken > limit' => Len(delivered) >= limit'
    BY <1>0, <2>1, <2>5 DEF DecoderInv
  <2>7. ASSUME NEW i \in 1..Len(delivered), i <= limit'
        PROVE  i <= Len(sent') /\ delivered[i] = sent'[i]
    <3>1. i <= limit /\ i \in Nat /\ Len(wire') \in Nat
      <4>1. Len(wire') \in Nat
        BY LenProperties DEF TypeInv
      <4>2. QED  BY <1>0, <2>5, <2>7, <4>1
    <3>2. i <= Len(sent) /\ delivered[i] = sent[i]
      BY <3>1 DEF DecoderInv
    <3>3. QED  BY <1>0, <2>1, <3>1, <3>2
  <2>8. Decoding' <=> Decoding
    BY <2>1 DEF Decoding
  <2>9. QED
    BY <2>1, <2>2, <2>4, <2>5, <2>6, <2>7, <2>8 DEF DecoderInv, Decoding
<1>2. CASE DecodeCall
  <2>1. /\ ~Decoding /\ taken < Len(wire) /\ pos' = 1 /\ acc' = NoMessage
        /\ UNCHANGED <<wire, sent, limit, trails, taken, dec, delivered, lost>>
    BY <1>2 DEF DecodeCall, senderVars
  <2>2. Decoding' /\ Frame' = Frame
    BY <2>1 DEF Decoding, Frame
  <2>3. taken < limit => dec = trails[taken + 1][1]
    <3>1. SUFFICES ASSUME taken < limit  PROVE dec = trails[taken + 1][1]
      OBVIOUS
    <3>2. taken + 1 \in 1..Len(wire) /\ taken + 1 <= limit /\ (taken + 1) - 1 = taken
      BY <1>0, <2>1, <3>1
    <3>3. trails[taken + 1][1] = EndOf(taken)
      BY <3>2 DEF EncoderInv
    <3>4. taken <= limit
      BY <1>0, <3>1
    <3>5. QED  BY <2>1, <3>3, <3>4 DEF DecoderInv
  <2>4. acc' = [f \in FieldsBefore(Frame, 1) |-> sent[taken + 1][f]]
    <3>1. FieldsBefore(Frame, 1) = {}
      BY DEF FieldsBefore
    <3>2. QED  BY <2>1, <3>1 DEF NoMessage, EmptyMap
  <2>5. QED  BY <2>1, <2>2, <2>3, <2>4 DEF DecoderInv
<1>3. CASE DecodeField
  <2>1. /\ Decoding /\ pos <= Len(Frame)
        /\ acc' = Put(acc, Frame[pos].field, DecodedValue(dec, Frame[pos]))
        /\ dec' = AfterDecode(dec, Frame[pos])
        /\ pos' = pos + 1
        /\ UNCHANGED <<wire, sent, limit, trails, taken, delivered, lost>>
    BY <1>3 DEF DecodeField, senderVars
  <2>2. Decoding' /\ Frame' = Frame
    BY <1>0, <2>1 DEF Decoding, Frame
  <2>3. ASSUME taken < limit
        PROVE  /\ dec' = trails[taken + 1][pos + 1]
               /\ acc' = [f \in FieldsBefore(Frame, pos + 1) |-> sent[taken + 1][f]]
    <3>1. /\ pos \in 1..Len(Frame) /\ Len(Frame) \in Nat
          /\ ReplaysTo(Frame, trails[taken + 1], sent[taken + 1], {})
      BY <2>1, <2>3, ReadLemma
    <3>2. /\ dec = trails[taken + 1][pos]
          /\ acc = [f \in FieldsBefore(Frame, pos) |-> sent[taken + 1][f]]
      BY <2>1, <2>3 DEF DecoderInv
    <3>3. /\ dec' = trails[taken + 1][pos + 1]
          /\ DecodedValue(dec, Frame[pos]) = sent[taken + 1][Frame[pos].field]
      BY <2>1, <3>1, <3>2 DEF ReplaysTo
    <3>4. FieldsBefore(Frame, pos + 1) = FieldsBefore(Frame, pos) \cup {Frame[pos].field}
      <4>1. \A j \in 1..(pos + 1) - 1 : j \in 1..pos - 1 \/ j = pos
        BY <3>1
      <4>2. pos \in 1..(pos + 1) - 1 /\ \A j \in 1..pos - 1 : j \in 1..(pos + 1) - 1
        BY <3>1
      <4>3. QED  BY <4>1, <4>2 DEF FieldsBefore
    <3>5. QED  BY <2>1, <3>2, <3>3, <3>4 DEF Put
  <2>4. QED  BY <2>1, <2>2, <2>3 DEF DecoderInv
<1>4. CASE DecodeRaise
  <2>1. /\ Decoding /\ pos <= Len(Frame) /\ ~Decodable(dec, Frame[pos])
        /\ taken' = taken + 1 /\ pos' = 0
        /\ UNCHANGED <<wire, sent, limit, trails, dec, delivered>>
    BY <1>4 DEF DecodeRaise, senderVars
  <2>2. ~(taken < limit)
    BY <2>1, ReadLemma
  <2>3. taken' > limit /\ Len(delivered) >= limit
    BY <1>0, <2>1, <2>2 DEF DecoderInv
  <2>4. QED  BY <1>0, <2>1, <2>3 DEF DecoderInv
<1>5. CASE DecodeReturn
  <2>1. /\ Decoding /\ pos > Len(Frame) /\ delivered' = Append(delivered, acc)
        /\ taken' = taken + 1 /\ pos' = 0
        /\ UNCHANGED <<wire, sent, limit, trails, dec, lost>>
    BY <1>5 DEF DecodeReturn, senderVars
  <2>2. ~Decoding'
    BY <2>1 DEF Decoding
  <2>3. /\ Len(delivered') = Len(delivered) + 1 /\ delivered'[Len(delivered) + 1] = acc
        /\ \A i \in 1..Len(delivered) : delivered'[i] = delivered[i]
    BY <1>0, <2>1, AppendProperties
  <2>4. CASE taken < limit
    <3>1. /\ taken + 1 \in 1..Len(wire) /\ Len(Frame) \in Nat /\ pos = Len(Frame) + 1
          /\ ReplaysTo(Frame, trails[taken + 1], sent[taken + 1], {})
          /\ sent[taken + 1] \in Messages
      BY <2>1, <2>4, ReadLemma
    <3>2. /\ dec = trails[taken + 1][pos]
          /\ acc = [f \in FieldsBefore(Frame, pos) |-> sent[taken + 1][f]]
          /\ ~lost /\ Len(delivered) = taken
      BY <1>0, <2>1, <2>4 DEF DecoderInv
    <3>3. dec' = EndOf(taken)'
      <4>1. dec' = trails[taken + 1][Len(trails[taken + 1])]
        BY <2>1, <3>1, <3>2 DEF ReplaysTo
      <4>2. taken' # 0
        BY <1>0, <2>1
      <4>3. QED  BY <2>1, <4>1, <4>2 DEF EndOf
    <3>4. acc = sent[taken + 1]
      <4>1. FieldsBefore(Frame, pos) = DOMAIN sent[taken + 1]
        <5>1. pos - 1 = Len(Frame)
          BY <3>1
        <5>2. QED  BY <3>1, <5>1 DEF FieldsBefore, ReplaysTo
      <4>2. sent[taken + 1] = [f \in DOMAIN sent[taken + 1] |-> sent[taken + 1][f]]
        BY <3>1, ConstantsLemma
      <4>3. QED  BY <3>2, <4>1, <4>2
    <3>5. ASSUME NEW i \in 1..Len(delivered'), i <= limit'
          PROVE  i <= Len(sent') /\ delivered'[i] = sent'[i]
      <4>1. CASE i \in 1..Len(delivered)
        BY <2>1, <2>3, <3>5, <4>1 DEF DecoderInv
      <4>2. CASE i = Len(delivered) + 1
        <5>1. i = taken + 1 /\ delivered'[i] = acc
          BY <2>3, <3>2, <4>2
        <5>2. QED  BY <1>0, <2>1, <3>1, <3>4, <5>1
      <4>3. QED  BY <1>0, <2>3, <4>1, <4>2
    <3>6. taken' <= limit' /\ Len(delivered') = taken' /\ ~lost'
      BY <1>0, <2>1, <2>3, <2>4, <3>2
    <3>7. ~(taken' > limit')
      BY <1>0, <2>1, <2>4
    <3>8. QED  BY <2>2, <3>3, <3>5, <3>6, <3>7 DEF DecoderInv
  <2>5. CASE ~(taken < limit)
    <3>1. taken' > limit' /\ Len(delivered) >= limit
      BY <1>0, <2>1, <2>5 DEF DecoderInv
    <3>2. Len(delivered') >= limit' /\ ~(taken' <= limit') /\ ~(taken' < limit')
      BY <1>0, <2>1, <2>3, <3>1
    <3>3. ASSUME NEW i \in 1..Len(delivered'), i <= limit'
          PROVE  i <= Len(sent') /\ delivered'[i] = sent'[i]
      <4>1. i \in 1..Len(delivered) /\ i <= limit
        BY <1>0, <2>1, <2>3, <3>1, <3>3
      <4>2. QED  BY <2>1, <2>3, <4>1 DEF DecoderInv
    <3>4. QED  BY <3>1, <3>2, <3>3 DEF DecoderInv
  <2>6. QED  BY <2>4, <2>5
<1>6. CASE UNCHANGED vars
  BY <1>6 DEF vars, senderVars, receiverVars, DecoderInv, Decoding, Frame, EndOf
<1>7. QED
  BY <1>1, <1>2, <1>3, <1>4, <1>5, <1>6 DEF Next, Decode
-----------------------------------------------------------------------------
StreamInv == TypeInv /\ EncoderInv /\ DecoderInv

\* The three invariants hold at the start.
LEMMA StreamInvInit == Init => StreamInv
BY TypeInvInit, EncoderInvInit, DecoderInvInit DEF StreamInv

\* Each step keeps them, given each other.
LEMMA StreamInvNext ==
  ASSUME Admissible, StreamInv, [Next]_vars
  PROVE  StreamInv'
<1>1. TypeInv /\ EncoderInv /\ DecoderInv
  BY DEF StreamInv
<1>2. TypeInv'
  BY <1>1, TypeInvNext
<1>3. EncoderInv'
  BY <1>1, EncoderInvNext
<1>4. DecoderInv'
  BY <1>1, <1>2, DecoderInvNext
<1>5. QED  BY <1>2, <1>3, <1>4 DEF StreamInv

\* How many frames there can be.
LEMMA SentLemma ==
  ASSUME StreamInv
  PROVE  /\ Len(wire) \in Nat /\ Len(sent) = Len(wire) /\ Len(wire) <= MaxCalls
         /\ taken \in 0..Len(wire) /\ limit \in 0..MaxCalls /\ MaxCalls \in Nat
<1>1. /\ Len(wire) \in Nat /\ Len(sent) = Len(wire) /\ calls \in 0..MaxCalls
      /\ taken \in 0..Len(wire) /\ limit \in 0..MaxCalls /\ MaxCalls \in Nat
  BY LenProperties, ConstantsLemma DEF StreamInv, TypeInv, TypeOK
<1>2. Begun \in Nat /\ Len(sent) <= Begun
  BY <1>1 DEF Begun
<1>3. Begun <= calls
  BY DEF StreamInv, EncoderInv
<1>4. QED  BY <1>1, <1>2, <1>3

\* No state is exchanged after the handshake, and yet the decoder is, at every item,
\* in the state the encoder wrote it in: for every schema, table, threshold and
\* limit, and every application that passes admissible payloads.
THEOREM DecoderInLockstep ==
  ASSUME Admissible
  PROVE  Spec => []Lockstep
<1>1. StreamInv => Lockstep
  <2> SUFFICES ASSUME StreamInv PROVE Lockstep
    OBVIOUS
  <2>0. TypeInv /\ TypeOK /\ EncoderInv /\ DecoderInv
    BY DEF StreamInv, TypeInv
  <2>1. ASSUME taken < Len(wire), taken < limit
        PROVE  dec = trails[taken + 1][IF Decoding THEN pos ELSE 1]
    <3>1. CASE Decoding
      BY <2>0, <2>1, <3>1 DEF DecoderInv
    <3>2. CASE ~Decoding
      <4>1. /\ taken + 1 \in 1..Len(wire) /\ taken + 1 <= limit /\ (taken + 1) - 1 = taken
            /\ taken <= limit
        BY <2>1, SentLemma
      <4>2. trails[taken + 1][1] = EndOf(taken)
        BY <2>0, <4>1 DEF EncoderInv
      <4>3. dec = EndOf(taken)
        BY <2>0, <3>2, <4>1 DEF DecoderInv
      <4>4. QED  BY <3>2, <4>2, <4>3
    <3>3. QED  BY <3>1, <3>2
  <2>2. ASSUME taken = Len(wire), limit = MaxCalls
        PROVE  dec = IF Encoding THEN trail[1] ELSE enc
    <3>1. ~Decoding /\ taken <= limit
      BY <2>0, <2>2, SentLemma DEF TypeOK
    <3>2. dec = EndOf(taken)
      BY <2>0, <3>1 DEF DecoderInv
    <3>3. EndOf(taken) = IF Encoding THEN trail[1] ELSE enc
      BY <2>0, <2>2 DEF EncoderInv
    <3>4. QED  BY <3>2, <3>3
  <2>3. QED  BY <2>1, <2>2 DEF Lockstep
<1>2. StreamInv /\ [Next]_vars => StreamInv'
  BY StreamInvNext
<1>3. QED  BY <1>1, <1>2, StreamInvInit, PTL DEF Spec

\* decode(encode(p)) = p, in order and without loss, up to the first call of encode
\* that raised with part of its work done.
THEOREM DeliveryFaithful ==
  ASSUME Admissible
  PROVE  Spec => []FaithfulDelivery
<1>1. StreamInv => FaithfulDelivery
  BY DEF StreamInv, DecoderInv, FaithfulDelivery
<1>2. StreamInv /\ [Next]_vars => StreamInv'
  BY StreamInvNext
<1>3. QED  BY <1>1, <1>2, StreamInvInit, PTL DEF Spec
-----------------------------------------------------------------------------
(***************************************************************************)
(* The refinement.  When payloads only fail at their first field encode    *)
(* never raises with work done, so limit stays where it was.               *)
(***************************************************************************)
NothingHalfDone ==
  /\ limit = MaxCalls
  /\ Encoding => \/ todo = DOMAIN msg /\ enc = trail[1]
                 \/ Min(DOMAIN msg) \notin todo

\* A call that can raise does so before its first item.
LEMMA NothingHalfDoneNext ==
  ASSUME FailsAtFirst(Messages), TypeInv, NothingHalfDone, [Next]_vars
  PROVE  NothingHalfDone'
<1>1. ASSUME NEW m \in Messages, EncodeCall(m)  PROVE NothingHalfDone'
  <2>1. msg' = m /\ todo' = DOMAIN m /\ trail' = <<enc>> /\ enc' = enc /\ limit' = limit
    BY <1>1 DEF EncodeCall
  <2>2. QED  BY <2>1 DEF NothingHalfDone
<1>2. CASE EncodeField
  <2> DEFINE f == Min(todo)
  <2>1. Encoding /\ todo' = todo \ {f} /\ msg' = msg /\ limit' = limit
    BY <1>2 DEF EncodeField
  <2>2. Min(DOMAIN msg) \notin todo'
    <3>1. CASE todo = DOMAIN msg
      BY <2>1, <3>1
    <3>2. CASE Min(DOMAIN msg) \notin todo
      BY <2>1, <3>2
    <3>3. QED  BY <2>1, <3>1, <3>2 DEF NothingHalfDone
  <2>3. QED  BY <2>1, <2>2 DEF NothingHalfDone
<1>3. CASE EncodeRaise
  <2> DEFINE f == Min(todo)
  <2>1. /\ Encoding /\ todo # {} /\ ~Encodable(f, msg[f]) /\ trail' = <<>>
        /\ enc = trail[1] => limit' = limit
    BY <1>3 DEF EncodeRaise
  <2>2. f \in todo /\ f \in DOMAIN msg /\ msg \in Messages
    BY <2>1, FirstLemma DEF TypeInv
  <2>3. f = Min(DOMAIN msg)
    BY <2>1, <2>2 DEF FailsAtFirst
  <2>4. enc = trail[1]
    BY <2>1, <2>2, <2>3 DEF NothingHalfDone
  <2>5. QED  BY <2>1, <2>4 DEF NothingHalfDone, Encoding
<1>4. CASE EncodeReturn
  <2>1. trail' = <<>> /\ limit' = limit
    BY <1>4 DEF EncodeReturn
  <2>2. QED  BY <2>1 DEF NothingHalfDone, Encoding
<1>5. CASE Decode \/ UNCHANGED vars
  <2>1. UNCHANGED senderVars
    BY <1>5 DEF Decode, DecodeCall, DecodeField, DecodeRaise, DecodeReturn, vars
  <2>2. UNCHANGED <<enc, msg, todo, limit, trail>>
    BY <2>1 DEF senderVars
  <2>3. QED  BY <2>2 DEF NothingHalfDone, Encoding
<1>6. QED
  BY <1>1, <1>2, <1>3, <1>4, <1>5 DEF Next, Encode

\* Every step of the two sessions is a step of MessageStream or leaves it alone:
\* returning from encode is Send, returning from decode is Deliver.
LEMMA StreamStep ==
  ASSUME StreamInv, NothingHalfDone, [Next]_vars
  PROVE  [Stream!Next]_<<sent, delivered>>
<1>0. TypeInv /\ TypeOK /\ EncoderInv /\ DecoderInv /\ limit = MaxCalls
  BY DEF StreamInv, TypeInv, NothingHalfDone
<1>1. CASE EncodeReturn
  <2>1. sent' = Append(sent, msg) /\ Encoding /\ UNCHANGED delivered
    BY <1>1 DEF EncodeReturn, receiverVars
  <2>2. msg \in Messages
    BY <1>0, <2>1 DEF TypeInv
  <2>3. QED  BY <2>1, <2>2 DEF Stream!Next, Stream!Send
<1>2. CASE DecodeReturn
  <2>1. /\ Decoding /\ pos > Len(Frame) /\ delivered' = Append(delivered, acc)
        /\ UNCHANGED sent
    BY <1>2 DEF DecodeReturn, senderVars
  <2>2. taken < Len(wire)
    BY <1>0, <2>1 DEF TypeOK
  <2>3. taken < limit /\ taken <= limit
    BY <1>0, <2>2, SentLemma
  <2>4. /\ acc = [f \in FieldsBefore(Frame, pos) |-> sent[taken + 1][f]]
        /\ Len(delivered) = taken
    BY <1>0, <2>1, <2>3 DEF DecoderInv
  <2>5. /\ ReplaysTo(Frame, trails[taken + 1], sent[taken + 1], {})
        /\ sent[taken + 1] \in Messages
        /\ pos \in 1..Len(Frame) + 1 /\ Len(Frame) \in Nat
    BY <1>0, <2>1, <2>3, ReadLemma
  <2>6. FieldsBefore(Frame, pos) = DOMAIN sent[taken + 1]
    <3>1. pos - 1 = Len(Frame)
      BY <2>1, <2>5
    <3>2. QED  BY <2>5, <3>1 DEF FieldsBefore, ReplaysTo
  <2>7. acc = sent[taken + 1]
    <3>1. sent[taken + 1] = [f \in DOMAIN sent[taken + 1] |-> sent[taken + 1][f]]
      BY <2>5, ConstantsLemma
    <3>2. QED  BY <2>4, <2>6, <3>1
  <2>8. Len(delivered) < Len(sent)
    BY <2>2, <2>4, SentLemma
  <2>9. QED  BY <2>1, <2>4, <2>7, <2>8 DEF Stream!Next, Stream!Deliver
<1>3. CASE \/ EncodeField \/ EncodeRaise \/ DecodeCall \/ DecodeField \/ DecodeRaise
           \/ (\E m \in Messages : EncodeCall(m)) \/ UNCHANGED vars
  <2>1. UNCHANGED <<sent, delivered>>
    BY <1>3 DEF EncodeField, EncodeRaise, DecodeCall, DecodeField, DecodeRaise, EncodeCall,
                vars, senderVars, receiverVars
  <2>2. QED  BY <2>1
<1>4. QED
  BY <1>1, <1>2, <1>3 DEF Next, Encode, Decode

\* The safety half of the refinement: two sessions in opcode mode promise what
\* MessageStream says, and decode never raises, as long as payloads are admissible
\* and fail, if they do, at their first field.
THEOREM ImplementsMessageStream ==
  ASSUME Admissible, FailsAtFirst(Messages)
  PROVE  Spec => Stream!Init /\ [][Stream!Next]_<<sent, delivered>> /\ [](~lost)
<1>1. Init => Stream!Init /\ NothingHalfDone
  <2> SUFFICES ASSUME Init PROVE Stream!Init /\ NothingHalfDone
    OBVIOUS
  <2>1. sent = <<>> /\ delivered = <<>> /\ limit = MaxCalls /\ ~Encoding
    BY DEF Init, Encoding
  <2>2. QED  BY <2>1 DEF Stream!Init, NothingHalfDone
<1>2. StreamInv /\ [Next]_vars => StreamInv'
  BY StreamInvNext
<1>3. StreamInv /\ NothingHalfDone /\ [Next]_vars => NothingHalfDone'
  BY NothingHalfDoneNext DEF StreamInv
<1>4. StreamInv /\ NothingHalfDone /\ [Next]_vars => [Stream!Next]_<<sent, delivered>>
  BY StreamStep
<1>5. StreamInv /\ NothingHalfDone => ~lost
  <2> SUFFICES ASSUME StreamInv, NothingHalfDone PROVE ~lost
    OBVIOUS
  <2>1. taken <= limit
    BY SentLemma DEF NothingHalfDone
  <2>2. QED  BY <2>1 DEF StreamInv, DecoderInv
<1>6. QED  BY <1>1, <1>2, <1>3, <1>4, <1>5, StreamInvInit, PTL DEF Spec
=============================================================================
