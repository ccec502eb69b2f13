---------------------------- MODULE DuplexSession ---------------------------
(***************************************************************************)
(* Two sessions of logorrhythm/core/session.py that negotiate and then     *)
(* talk in both directions: Handshake and Codec composed.  A peer has one  *)
(* codec state for what it writes and what it reads; every frame that      *)
(* activates a schema, and reset, makes it anew.                           *)
(*                                                                         *)
(* Messages travel in the queues of Handshake, between its frames.  Calls  *)
(* of encode and decode are atomic: SessionStream has their insides.       *)
(***************************************************************************)
EXTENDS Handshake, Codec

CONSTANTS Enums,       \* for each schema the literals of its enums, in order
          Payloads,    \* the messages the application sends
          Rules,       \* which of its rules, named below, the application keeps
          MaxMessages  \* bound: calls of encode

\* The two sessions have the same limits and learn the same fields, as wherever
\* the code makes a pair of them.
PayloadValues == UNION {Range(m) : m \in Payloads}
Values        == PayloadValues \cup UNION {ToSet(Enums[s]) : s \in Schemas}

ASSUME DuplexAssumption ==
  /\ Values \subseteq [type : STRING, n : Int] /\ IntsFit(Values)
  /\ \A s \in Schemas : Enums[s] \in Seq({v \in Values : Hashable(v)})
  /\ \A m \in Payloads :
       /\ DOMAIN m \subseteq Fields /\ IsFiniteSet(DOMAIN m)
       /\ m \in [DOMAIN m -> Values]
       /\ \A f \in DOMAIN m : Encodable(f, m[f])
  /\ MaxMessages \in Nat

VARIABLES codec,    \* codec[p]: value_table and last_values
          encoded,  \* how many calls of encode were made
          garbled   \* history: decode raised, or returned what was not sent

duplexVars == <<vars, codec, encoded, garbled>>

MessageKinds == {"OPCODE_MESSAGE", "RAW_MESSAGE"}

\* _activate_schema: a table with the literals of the enums, and no last values.
Activated(s) == [table |-> Preload(EmptyTable, Enums[s]), last |-> EmptyMap]

DuplexInit ==
  /\ Init
  /\ codec = [p \in Peers |-> Activated(schema[p])]
  /\ encoded = 0 /\ garbled = FALSE
-----------------------------------------------------------------------------
(***************************************************************************)
(* The rules: "initiate" a handshake in HANDSHAKE mode only, and that and  *)
(* "reset" only when nothing is under way; "send" nothing while a message  *)
(* is coming, or to a peer that was reset and has not negotiated since.    *)
(***************************************************************************)
InTurnToInitiate(p) == Quiet /\ mode[p] = "HANDSHAKE"

InTurnToSend(p) ==
  /\ \A i \in 1..Len(net[p]) : net[p][i].kind \notin MessageKinds
  /\ \/ InOpcodeMode(Other(p))
     \/ \E i \in 1..Len(net[Other(p)]) : net[Other(p)][i].kind = "MODE_SWITCH"

InitiateHandshake(p) ==
  /\ Initiate(p)
  /\ "initiate" \in Rules => InTurnToInitiate(p)
  /\ UNCHANGED <<codec, encoded, garbled>>

ResetSession(p) ==
  /\ Reset(p)
  /\ codec' = [codec EXCEPT ![p] = Activated(schema[p])]
  /\ "reset" \in Rules => Quiet
  /\ UNCHANGED <<encoded, garbled>>

\* Mutant: a transferred schema is put to use with the table that was there.
ActivatesKnown(p) ==
  Incoming(p, "SCHEMA_FINGERPRINT") /\ Arriving(p).schema \in cache[p]

Activates(p) ==
  \/ Incoming(p, "SCHEMA_FINGERPRINT") /\ Arriving(p).schema \in cache[p]
  \/ Incoming(p, "SCHEMA_TRANSFER") /\ remote[p] \in {NoSchema, Arriving(p).schema}

Receive(p) ==
  /\ HandleFrame(p)
  /\ codec' = IF Activates(p)
              THEN [codec EXCEPT ![p] = Activated(Arriving(p).schema)] ELSE codec
  /\ UNCHANGED <<encoded, garbled>>
-----------------------------------------------------------------------------
(***************************************************************************)
(* encode.  said is what the application said, for comparison.             *)
(***************************************************************************)
WriteField(m, f, a) ==
  [codec |-> AfterEncode(a.codec, f, m[f]),
   items |-> Append(a.items, Item(a.codec, f, m[f]))]

\* The fields go in the order of their ids: the largest is the last.
Write(c, m) ==
  MapThenFoldSet(LAMBDA f, a : WriteField(m, f, a), [codec |-> c, items |-> <<>>],
                 LAMBDA f : f, Max, DOMAIN m)

Send(p, m, kind, items) ==
  /\ encoded < MaxMessages
  /\ encoded' = encoded + 1
  /\ net' = [net EXCEPT ![Other(p)] =
       Append(@, [kind |-> kind, schema |-> active[p], items |-> items, said |-> m])]
  /\ UNCHANGED <<config, mode, complete, remote, cache, active, initiations, resets, garbled>>

EncodeOpcode(p, m) ==
  /\ InOpcodeMode(p)
  /\ Send(p, m, "OPCODE_MESSAGE", Write(codec[p], m).items)
  /\ codec' = [codec EXCEPT ![p] = Write(codec[p], m).codec]
  /\ "send" \in Rules => InTurnToSend(p)

\* Outside OPCODE_MODE messages are JSON: no ids, no table.  A value JSON does not
\* have raises, before anything is changed.
EncodeRaw(p, m) ==
  /\ ~InOpcodeMode(p) /\ \A f \in DOMAIN m : JsonWritable(m[f])
  /\ Send(p, m, "RAW_MESSAGE", <<>>)
  /\ UNCHANGED <<codec>>
-----------------------------------------------------------------------------
(***************************************************************************)
(* decode, in whatever mode the session is.  A reference to an unknown id  *)
(* raises, and what the items before it changed stays changed.             *)
(***************************************************************************)
ReadItem(a, item) ==
  IF a.raised \/ ~Decodable(a.codec, item) THEN [a EXCEPT !.raised = TRUE]
  ELSE [codec  |-> AfterDecode(a.codec, item), raised |-> FALSE,
        fields |-> Put(a.fields, item.field, DecodedValue(a.codec, item))]

Read(c, items) ==
  FoldLeft(ReadItem, [codec |-> c, raised |-> FALSE, fields |-> EmptyMap], items)

\* Mutant: the last values of what was read are not recorded.
KeptTableOnly(p, r) == [codec EXCEPT ![p].table = r.codec.table]

Kept(p, r) == [codec EXCEPT ![p] = r.codec]

DecodeOpcode(p) ==
  /\ Incoming(p, "OPCODE_MESSAGE")
  /\ Take(p)
  /\ LET r == Read(codec[p], Arriving(p).items)
     IN  /\ codec' = Kept(p, r)
         /\ garbled' = (garbled \/ r.raised \/ r.fields # Arriving(p).said
                                \/ active[p] # Arriving(p).schema)
  /\ UNCHANGED <<config, mode, complete, remote, cache, active, initiations, resets,
                 encoded>>

DecodeRaw(p) ==
  /\ Incoming(p, "RAW_MESSAGE")
  /\ Take(p)
  /\ LET said == Arriving(p).said
     IN  garbled' = (garbled \/ \E f \in DOMAIN said : JsonRead(said[f]) # said[f])
  /\ UNCHANGED <<config, mode, complete, remote, cache, active, initiations, resets,
                 codec, encoded>>
-----------------------------------------------------------------------------
DuplexNext ==
  \/ \E p \in Initiators : InitiateHandshake(p)
  \/ \E p \in Peers : ResetSession(p) \/ Receive(p) \/ DecodeOpcode(p) \/ DecodeRaw(p)
  \/ \E p \in Peers, m \in Payloads : EncodeOpcode(p, m) \/ EncodeRaw(p, m)

DuplexSpec == DuplexInit /\ [][DuplexNext]_duplexVars
-----------------------------------------------------------------------------
\* What the application must respect besides its rules: a value is of the type its
\* field declares, and no two values are == but of different types.
Admissible ==
  /\ \A m \in Payloads : \A f \in DOMAIN m : Literal(f, m[f]) = m[f]
  /\ \A u, v \in Values : Key(u) = Key(v) => u = v

\* tests/test_core_protocol.py:127, assertEqual(decoded["fields"], payload), for a
\* conversation: every message is read as it was written, in both directions,
\* before, during and after a handshake and a renegotiation.
NeverGarbled == ~garbled

\* When nothing is under way, two sessions in OPCODE_MODE have the same value
\* table and the same last values: each has replayed what the other did.
TablesAgree ==
  Quiet /\ (\A p \in Peers : InOpcodeMode(p)) => codec["client"] = codec["server"]
=============================================================================
