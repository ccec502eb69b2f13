---------------------------- MODULE SessionStream ---------------------------
(***************************************************************************)
(* Two sessions in OPCODE_MODE with one schema: the first encodes, the     *)
(* second decodes, and a reliable FIFO connection carries the frames.      *)
(*                                                                         *)
(* encode and decode are loops over the fields of a message and can raise  *)
(* inside the loop, with what the iterations before it did to the table    *)
(* and to last_values in place: an iteration is a step.  Neither session   *)
(* does anything else while its call runs.                                 *)
(***************************************************************************)
EXTENDS Codec

CONSTANTS Values,     \* the values payloads are made of
          Messages,   \* payloads: functions from some Fields to Values
          Table0,     \* the table both sessions have after the handshake
          MaxCalls    \* bound: how many calls of encode

ASSUME SessionStreamAssumption ==
  /\ Values \subseteq [type : STRING, n : Int] /\ IntsFit(Values)
  /\ \A m \in Messages :
       /\ DOMAIN m \subseteq Fields /\ IsFiniteSet(DOMAIN m)
       /\ m \in [DOMAIN m -> Values]
  /\ IsTable(Table0, Values) /\ Bijective(Table0) /\ LruMatches(Table0)
  /\ WithinLimit(Table0)
  /\ MaxCalls \in Nat

VARIABLES calls,     \* how many calls of encode were made
          enc,       \* the encoder's codec state
          msg,       \* the payload encode is working on, or NoMessage
          todo,      \* the fields of msg still to encode
          out,       \* the items encoded so far
          wire,      \* every frame sent so far, each a sequence of items
          taken,     \* how many frames the receiver took from the connection
          dec,       \* the decoder's codec state
          pos,       \* the item decode reads next, 0 when decode is not running
          acc,       \* the fields decode has read
          sent,      \* history: the payloads encode returned a frame for
          delivered, \* history: the payloads decode returned
          lost,      \* history: has decode ever raised?
          limit,     \* history: how many payloads had been sent when encode first
                     \* raised with part of its work done; MaxCalls before that
          trail,     \* history: the encoder's states since encode was called
          trails     \* history: the same for every frame of wire

senderVars   == <<calls, enc, msg, todo, out, wire, sent, limit, trail, trails>>
receiverVars == <<taken, dec, pos, acc, delivered, lost>>
vars         == <<senderVars, receiverVars>>

NoMessage == EmptyMap
Encoding  == trail # <<>>
Decoding  == pos # 0

Codec0 == [table |-> Table0, last |-> EmptyMap]

Init ==
  /\ calls = 0
  /\ enc = Codec0 /\ dec = Codec0
  /\ msg = NoMessage /\ todo = {} /\ out = <<>>
  /\ wire = <<>> /\ taken = 0
  /\ pos = 0 /\ acc = NoMessage
  /\ sent = <<>> /\ delivered = <<>> /\ lost = FALSE /\ limit = MaxCalls
  /\ trail = <<>> /\ trails = <<>>
-----------------------------------------------------------------------------
(***************************************************************************)
(* Session.encode.  The fields go in the order of their ids.  What the     *)
(* schema does not name raises before anything is changed, and is left out.*)
(***************************************************************************)
EncodeCall(m) ==
  /\ ~Encoding
  /\ calls < MaxCalls
  /\ calls' = calls + 1
  /\ msg' = m
  /\ todo' = DOMAIN m
  /\ trail' = <<enc>>
  /\ UNCHANGED <<enc, out, wire, sent, limit, trails, receiverVars>>

EncodeField ==
  /\ Encoding
  /\ todo # {}
  /\ LET f == Min(todo)
     IN  /\ NeedsLiteral(enc, f, msg[f]) => Encodable(f, msg[f])
         /\ out' = Append(out, Item(enc, f, msg[f]))
         /\ enc' = AfterEncode(enc, f, msg[f])
         /\ todo' = todo \ {f}
         /\ trail' = Append(trail, enc')
  /\ UNCHANGED <<calls, msg, wire, sent, limit, trails, receiverVars>>

\* The literal cannot be written: encode raises, and nothing is sent.
EncodeRaise ==
  /\ Encoding
  /\ todo # {}
  /\ LET f == Min(todo) IN NeedsLiteral(enc, f, msg[f]) /\ ~Encodable(f, msg[f])
  /\ msg' = NoMessage
  /\ todo' = {}
  /\ out' = <<>>
  /\ limit' = IF enc = trail[1] THEN limit ELSE Min({limit, Len(sent)})
  /\ trail' = <<>>
  /\ UNCHANGED <<calls, enc, wire, sent, trails, receiverVars>>

\* Mutant: the buffer of the message is not a new one in every call.
EncodeReturnKeepingBody ==
  /\ Encoding
  /\ todo = {}
  /\ wire' = Append(wire, out)
  /\ sent' = Append(sent, msg)
  /\ trails' = Append(trails, trail)
  /\ msg' = NoMessage
  /\ trail' = <<>>
  /\ UNCHANGED <<calls, enc, todo, out, limit, receiverVars>>

EncodeReturn ==
  /\ Encoding
  /\ todo = {}
  /\ wire' = Append(wire, out)
  /\ sent' = Append(sent, msg)
  /\ trails' = Append(trails, trail)
  /\ msg' = NoMessage
  /\ out' = <<>>
  /\ trail' = <<>>
  /\ UNCHANGED <<calls, enc, todo, limit, receiverVars>>
-----------------------------------------------------------------------------
(***************************************************************************)
(* Session.decode of the next frame.  The opcode and the fields are known: *)
(* one schema is in use, and only frames of encode arrive.                 *)
(***************************************************************************)
DecodeCall ==
  /\ ~Decoding
  /\ taken < Len(wire)
  /\ pos' = 1
  /\ acc' = NoMessage
  /\ UNCHANGED <<taken, dec, delivered, lost, senderVars>>

Frame == wire[taken + 1]

DecodeField ==
  /\ Decoding
  /\ pos <= Len(Frame)
  /\ Decodable(dec, Frame[pos])
  /\ acc' = Put(acc, Frame[pos].field, DecodedValue(dec, Frame[pos]))
  /\ dec' = AfterDecode(dec, Frame[pos])
  /\ pos' = pos + 1
  /\ UNCHANGED <<taken, delivered, lost, senderVars>>

\* KeyError: the frame is gone, what its first items changed stays changed.
DecodeRaise ==
  /\ Decoding
  /\ pos <= Len(Frame)
  /\ ~Decodable(dec, Frame[pos])
  /\ taken' = taken + 1
  /\ pos' = 0
  /\ acc' = NoMessage
  /\ lost' = TRUE
  /\ UNCHANGED <<dec, delivered, senderVars>>

DecodeReturn ==
  /\ Decoding
  /\ pos > Len(Frame)
  /\ delivered' = Append(delivered, acc)
  /\ taken' = taken + 1
  /\ pos' = 0
  /\ acc' = NoMessage
  /\ UNCHANGED <<dec, lost, senderVars>>
-----------------------------------------------------------------------------
Encode == EncodeField \/ EncodeRaise \/ EncodeReturn
Decode == DecodeCall \/ DecodeField \/ DecodeRaise \/ DecodeReturn

Next == (\E m \in Messages : EncodeCall(m)) \/ Encode \/ Decode

\* A call that was made runs to its end, and the receiver reads its connection.
Fairness == WF_vars(Encode) /\ WF_vars(Decode)

Spec == Init /\ [][Next]_vars /\ Fairness
-----------------------------------------------------------------------------
\* The shape of the state: which variables a running call uses.
TypeOK ==
  /\ calls \in 0..MaxCalls
  /\ msg \in Messages \cup {NoMessage} /\ todo \subseteq DOMAIN msg
  /\ taken \in 0..Len(wire) /\ Len(sent) = Len(wire) /\ Len(trails) = Len(wire)
  /\ Decoding => taken < Len(wire) /\ pos \in 1..Len(Frame) + 1
  /\ Encoding => Len(trail) = Len(out) + 1 /\ trail[Len(trail)] = enc
  /\ ~Encoding => msg = NoMessage /\ todo = {} /\ out = <<>>
  /\ limit \in 0..MaxCalls /\ lost \in BOOLEAN

\* Both value tables stay well-formed, also in the middle of a call and after
\* calls that raised.
TablesWellFormed ==
  \A c \in {enc, dec} :
    Bijective(c.table) /\ LruMatches(c.table) /\ WithinLimit(c.table)

\* The decoder's table and last_values are, when it reads an item, exactly what
\* the encoder's were when it wrote that item, and once it has read everything
\* what the encoder's are: no state is exchanged, both sides replay one history.
Lockstep ==
  /\ taken < Len(wire) /\ taken < limit =>
       dec = trails[taken + 1][IF Decoding THEN pos ELSE 1]
  /\ taken = Len(wire) /\ limit = MaxCalls =>
       dec = IF Encoding THEN trail[1] ELSE enc

\* decode(encode(p)) = p, in order and with nothing lost, for every payload sent
\* before encode first raised half way through a message.
FaithfulDelivery ==
  /\ \A i \in 1..Len(delivered) : i <= limit => i <= Len(sent) /\ delivered[i] = sent[i]
  /\ taken <= limit => ~lost /\ Len(delivered) = taken

\* tests/test_core_protocol.py:127, assertEqual(decoded["fields"], payload): what
\* decode returns is == what was given to encode, as long as it never raised.
RoundTrip == ~lost =>
  \A i \in 1..Len(delivered) :
    /\ DOMAIN delivered[i] = DOMAIN sent[i]
    /\ \A f \in DOMAIN sent[i] : Key(delivered[i][f]) = Key(sent[i][f])

\* What the application must respect for the codec to be faithful: a value is of
\* the type its field declares, and no two values are == but of different types.
Admissible ==
  /\ \A m \in Messages : \A f \in DOMAIN m :
       Encodable(f, m[f]) => Literal(f, m[f]) = m[f]
  /\ \A u, v \in Values : Key(u) = Key(v) => u = v

\* No call of encode raises with part of its work done: a payload that cannot be
\* written fails at the first field encode comes to.
FailsAtFirst(payloads) ==
  \A m \in payloads : \A f \in DOMAIN m : ~Encodable(f, m[f]) => f = Min(DOMAIN m)

\* The detailed stream implements the abstract one, provided FailsAtFirst.
Stream == INSTANCE MessageStream WITH Payloads <- Messages
StreamSpec == Stream!Spec
=============================================================================
