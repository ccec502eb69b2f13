------------------------------ MODULE Handshake -----------------------------
(***************************************************************************)
(* The handshake of logorrhythm/core/session.py between the two sessions   *)
(* of a connection, which delivers frames in order and loses none.         *)
(*                                                                         *)
(* A fingerprint is the SHA-256 of the canonical schema: it stands for the *)
(* schema, and is modelled by it.  initiate_handshake returns two frames   *)
(* in one byte string; they are two entries of the queue, because HELLO is *)
(* read without any effect.  Every reply is one frame.                     *)
(***************************************************************************)
EXTENDS Naturals, Sequences, SequencesExt

CONSTANTS Schemas,        \* the schemas sessions are created with
          Initiators,     \* the peers whose application calls initiate_handshake
          MaxInitiations, \* bound: calls of initiate_handshake
          MaxResets       \* bound: calls of reset

Peers == {"client", "server"}
Other(p) == IF p = "client" THEN "server" ELSE "client"

NoSchema == "none"   \* None, and the payload of a frame that carries no schema

ASSUME HandshakeAssumption ==
  /\ NoSchema \notin Schemas
  /\ Initiators \subseteq Peers
  /\ MaxInitiations \in Nat /\ MaxResets \in Nat

VARIABLES schema,      \* the schema each session was created with
          strict,      \* config.strict_mode
          allow,       \* config.allow_schema_transfer
          mode,        \* "HANDSHAKE", "OPCODE_MODE" or "RAW"
          complete,    \* handshake_complete
          remote,      \* remote_fingerprint
          cache,       \* schema_cache
          active,      \* the schema opcodes, fields and field_types come from
          net,         \* net[p]: the frames on their way to p
          initiations, \* how many calls of initiate_handshake were made
          resets       \* how many calls of reset were made

config == <<schema, strict, allow>>
vars   == <<config, mode, complete, remote, cache, active, net, initiations, resets>>

BareKinds   == {"HELLO", "ACK", "NACK", "MODE_SWITCH"}
SchemaKinds == {"SCHEMA_FINGERPRINT", "SCHEMA_TRANSFER"}

Frame(kind, s) == [kind |-> kind, schema |-> s]
Bare(kind)     == Frame(kind, NoSchema)

Init ==
  /\ schema \in [Peers -> Schemas]
  /\ strict \in [Peers -> BOOLEAN]
  /\ allow \in [Peers -> BOOLEAN]
  /\ mode = [p \in Peers |-> "HANDSHAKE"]
  /\ complete = [p \in Peers |-> FALSE]
  /\ remote = [p \in Peers |-> NoSchema]
  /\ cache = [p \in Peers |-> {schema[p]}]
  /\ active = schema
  /\ net = [p \in Peers |-> <<>>]
  /\ initiations = 0
  /\ resets = 0

\* initiate_handshake changes no state of the session, whatever its mode.
Initiate(p) ==
  /\ initiations < MaxInitiations
  /\ initiations' = initiations + 1
  /\ net' = [net EXCEPT ![Other(p)] =
               @ \o <<Bare("HELLO"), Frame("SCHEMA_FINGERPRINT", schema[p])>>]
  /\ UNCHANGED <<config, mode, complete, remote, cache, active, resets>>

\* reset keeps the cache; what is on its way stays on its way.
Reset(p) ==
  /\ resets < MaxResets
  /\ resets' = resets + 1
  /\ mode' = [mode EXCEPT ![p] = "HANDSHAKE"]
  /\ complete' = [complete EXCEPT ![p] = FALSE]
  /\ remote' = [remote EXCEPT ![p] = NoSchema]
  /\ active' = [active EXCEPT ![p] = schema[p]]
  /\ UNCHANGED <<config, cache, net, initiations>>
-----------------------------------------------------------------------------
(***************************************************************************)
(* _handle_frame, by the kind of the frame.                                *)
(***************************************************************************)
Arriving(p) == Head(net[p])

Incoming(p, kind) == net[p] # <<>> /\ Arriving(p).kind = kind

Take(p) == net' = [net EXCEPT ![p] = Tail(@)]

Answer(p, frame) ==
  net' = [net EXCEPT ![p] = Tail(@), ![Other(p)] = Append(@, frame)]

EnterOpcodeMode(p) ==
  /\ mode' = [mode EXCEPT ![p] = "OPCODE_MODE"]
  /\ complete' = [complete EXCEPT ![p] = TRUE]

ReceiveHello(p) ==
  /\ Incoming(p, "HELLO")
  /\ Take(p)
  /\ UNCHANGED <<mode, complete, remote, cache, active>>

\* The fingerprint is of a schema this session has: it becomes the active one.
ReceiveKnownFingerprint(p) ==
  /\ Incoming(p, "SCHEMA_FINGERPRINT")
  /\ Arriving(p).schema \in cache[p]
  /\ remote' = [remote EXCEPT ![p] = Arriving(p).schema]
  /\ active' = [active EXCEPT ![p] = Arriving(p).schema]
  /\ Answer(p, Bare("ACK"))
  /\ UNCHANGED <<mode, complete, cache>>

\* The two refusals, "strict" and "schema", are the same frame to the peer.
ReceiveUnknownFingerprint(p) ==
  /\ Incoming(p, "SCHEMA_FINGERPRINT")
  /\ Arriving(p).schema \notin cache[p]
  /\ remote' = [remote EXCEPT ![p] = Arriving(p).schema]
  /\ mode' = IF strict[p] /\ ~allow[p] THEN [mode EXCEPT ![p] = "RAW"] ELSE mode
  /\ Answer(p, Bare("NACK"))
  /\ UNCHANGED <<complete, cache, active>>

\* Mutant: the transferred schema is cached, but not put to use.
TransferOnlyCaches(p) ==
  /\ Incoming(p, "SCHEMA_TRANSFER")
  /\ remote[p] \in {NoSchema, Arriving(p).schema}
  /\ cache' = [cache EXCEPT ![p] = @ \cup {Arriving(p).schema}]
  /\ remote' = [remote EXCEPT ![p] = Arriving(p).schema]
  /\ Answer(p, Bare("ACK"))
  /\ UNCHANGED <<mode, complete, active>>

\* Mutant: the cache gets the frame instead of the schema it carries.
TransferCachesFrame(p) ==
  /\ Incoming(p, "SCHEMA_TRANSFER")
  /\ cache' = [cache EXCEPT ![p] = @ \cup {Arriving(p)}]
  /\ Answer(p, Bare("ACK"))
  /\ UNCHANGED <<mode, complete, remote, active>>

\* Mutant: the transferred schema is put to use, and nobody is told.
TransferWithoutAck(p) ==
  /\ Incoming(p, "SCHEMA_TRANSFER")
  /\ remote[p] \in {NoSchema, Arriving(p).schema}
  /\ cache' = [cache EXCEPT ![p] = @ \cup {Arriving(p).schema}]
  /\ remote' = [remote EXCEPT ![p] = Arriving(p).schema]
  /\ active' = [active EXCEPT ![p] = Arriving(p).schema]
  /\ Take(p)
  /\ UNCHANGED <<mode, complete>>

ReceiveTransfer(p) ==
  /\ Incoming(p, "SCHEMA_TRANSFER")
  /\ remote[p] \in {NoSchema, Arriving(p).schema}
  /\ cache' = [cache EXCEPT ![p] = @ \cup {Arriving(p).schema}]
  /\ remote' = [remote EXCEPT ![p] = Arriving(p).schema]
  /\ active' = [active EXCEPT ![p] = Arriving(p).schema]
  /\ Answer(p, Bare("ACK"))
  /\ UNCHANGED <<mode, complete>>

\* A schema that is not the announced one: HandshakeError, and no answer.
RejectTransfer(p) ==
  /\ Incoming(p, "SCHEMA_TRANSFER")
  /\ remote[p] \notin {NoSchema, Arriving(p).schema}
  /\ Take(p)
  /\ UNCHANGED <<mode, complete, remote, cache, active>>

\* Mutant: the peer is not told to switch.
AckWithoutSwitch(p) ==
  /\ Incoming(p, "ACK")
  /\ mode[p] = "HANDSHAKE"
  /\ EnterOpcodeMode(p)
  /\ Take(p)
  /\ UNCHANGED <<remote, cache, active>>

ReceiveAck(p) ==
  /\ Incoming(p, "ACK")
  /\ mode[p] = "HANDSHAKE"
  /\ EnterOpcodeMode(p)
  /\ Answer(p, Bare("MODE_SWITCH"))
  /\ UNCHANGED <<remote, cache, active>>

IgnoreAck(p) ==
  /\ Incoming(p, "ACK")
  /\ mode[p] # "HANDSHAKE"
  /\ Take(p)
  /\ UNCHANGED <<mode, complete, remote, cache, active>>

\* Mutant: a refused fingerprint is announced again.
NackRetries(p) ==
  /\ Incoming(p, "NACK")
  /\ Answer(p, Frame("SCHEMA_FINGERPRINT", schema[p]))
  /\ UNCHANGED <<mode, complete, remote, cache, active>>

\* Mutant: the schema in use is transferred instead of the session's own.
NackSendsActive(p) ==
  /\ Incoming(p, "NACK")
  /\ IF allow[p]
     THEN Answer(p, Frame("SCHEMA_TRANSFER", active[p])) /\ UNCHANGED mode
     ELSE Take(p) /\ mode' = [mode EXCEPT ![p] = "RAW"]
  /\ UNCHANGED <<complete, remote, cache, active>>

\* The session offers its own schema, or gives up on opcodes.
ReceiveNack(p) ==
  /\ Incoming(p, "NACK")
  /\ IF allow[p]
     THEN Answer(p, Frame("SCHEMA_TRANSFER", schema[p])) /\ UNCHANGED mode
     ELSE Take(p) /\ mode' = [mode EXCEPT ![p] = "RAW"]
  /\ UNCHANGED <<complete, remote, cache, active>>

ReceiveModeSwitch(p) ==
  /\ Incoming(p, "MODE_SWITCH")
  /\ EnterOpcodeMode(p)
  /\ Take(p)
  /\ UNCHANGED <<remote, cache, active>>

HandleFrame(p) ==
  /\ \/ ReceiveHello(p)
     \/ ReceiveKnownFingerprint(p)
     \/ ReceiveUnknownFingerprint(p)
     \/ ReceiveTransfer(p)
     \/ RejectTransfer(p)
     \/ ReceiveAck(p)
     \/ IgnoreAck(p)
     \/ ReceiveNack(p)
     \/ ReceiveModeSwitch(p)
  /\ UNCHANGED <<config, initiations, resets>>
-----------------------------------------------------------------------------
Next ==
  \/ \E p \in Initiators : Initiate(p)
  \/ \E p \in Peers : Reset(p) \/ HandleFrame(p)

\* A frame that has arrived is handled; nobody has to initiate or to reset.
Fairness == \A p \in Peers : WF_vars(HandleFrame(p))

Spec == Init /\ [][Next]_vars /\ Fairness
-----------------------------------------------------------------------------
Modes == {"HANDSHAKE", "OPCODE_MODE", "RAW"}
Frames == [kind : BareKinds, schema : {NoSchema}] \cup [kind : SchemaKinds, schema : Schemas]

\* Every component of the state has the type the code gives it.
TypeOK ==
  /\ schema \in [Peers -> Schemas]
  /\ strict \in [Peers -> BOOLEAN] /\ allow \in [Peers -> BOOLEAN]
  /\ mode \in [Peers -> Modes] /\ complete \in [Peers -> BOOLEAN]
  /\ remote \in [Peers -> Schemas \cup {NoSchema}]
  /\ cache \in [Peers -> SUBSET Schemas]
  /\ active \in [Peers -> Schemas]
  /\ net \in [Peers -> Seq(Frames)]
  /\ initiations \in 0..MaxInitiations /\ resets \in 0..MaxResets

InOpcodeMode(p) == mode[p] = "OPCODE_MODE"
Quiet == \A p \in Peers : net[p] = <<>>

\* A session encodes opcodes only for a peer that reads them with the same
\* schema, also while the MODE_SWITCH that tells the peer is still on its way.
ReaderReady ==
  \A p \in Peers : InOpcodeMode(p) => active[Other(p)] = active[p]

\* When everything sent has arrived the two sessions are both in opcode mode or
\* both out of it, and a session is never left believing only one half of it.
BothOrNeither ==
  Quiet => /\ InOpcodeMode("client") <=> InOpcodeMode("server")
           /\ \A p \in Peers : complete[p] <=> InOpcodeMode(p)

\* Two sessions of this code never raise HandshakeError at each other: the schema
\* a session transfers is the one it announced, whoever initiated, however often,
\* and whatever was reset in between.
TransferIsAnnounced ==
  \A p \in Peers :
    Incoming(p, "SCHEMA_TRANSFER") => remote[p] \in {NoSchema, Arriving(p).schema}

\* No exchange goes on for ever: there is no cycle of refusals and transfers.
Terminates == <>[]Quiet

\* An initiator that may transfer its schema ends with both in opcode mode.
Negotiates ==
  \A p \in Initiators :
    [](initiations > 0 /\ allow[p] => <>(\A q \in Peers : InOpcodeMode(q)))

\* tests/test_core_protocol.py:88, test_mismatch_strict_mode_nack_and_remain_raw,
\* CHANGELOG.md:12, "safe RAW fallback": a strict session that refused a schema
\* remains in RAW mode.
StrictRemainsRaw ==
  [][ \A p \in Peers :
        strict[p] /\ ~allow[p] /\ mode[p] = "RAW" => mode'[p] = "RAW" ]_vars
=============================================================================
