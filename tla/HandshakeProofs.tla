--------------------------- MODULE HandshakeProofs --------------------------
(***************************************************************************)
(* Theorems about Handshake: type correctness for every configuration and  *)
(* that a transfer is always of the announced schema; for one initiator    *)
(* and no reset also that a session in opcode mode has a reader with its   *)
(* schema, and that both sessions end in opcode mode or neither does.  And *)
(* about HandshakeDriver: its turns are steps of Handshake, and what it    *)
(* counts is what the exchange costs.                                      *)
(***************************************************************************)
EXTENDS HandshakeDriver, SequenceTheorems, TLAPS

\* The frames of a queue, after the operations the handlers use.
LEMMA QueueLemma ==
  ASSUME NEW S, NEW q \in Seq(S)
  PROVE  /\ q # <<>> => /\ Head(q) \in S /\ Head(q) \in ToSet(q)
                        /\ Tail(q) \in Seq(S) /\ ToSet(Tail(q)) \subseteq ToSet(q)
         /\ \A f \in S : Append(q, f) \in Seq(S) /\ ToSet(Append(q, f)) = ToSet(q) \cup {f}
         /\ \A f, g \in S : /\ q \o <<f, g>> \in Seq(S)
                            /\ ToSet(q \o <<f, g>>) = ToSet(q) \cup {f, g}
<1>1. Len(q) \in Nat /\ DOMAIN q = 1..Len(q)
  BY LenProperties
<1>2. ASSUME q # <<>>
      PROVE  /\ Head(q) \in S /\ Head(q) \in ToSet(q)
             /\ Tail(q) \in Seq(S) /\ ToSet(Tail(q)) \subseteq ToSet(q)
  <2>1. /\ Head(q) \in S /\ Tail(q) \in Seq(S) /\ Len(Tail(q)) = Len(q) - 1
        /\ \A i \in 1..Len(Tail(q)) : Tail(q)[i] = q[i + 1]
    BY <1>2, HeadTailProperties
  <2>2. DOMAIN Tail(q) = 1..Len(q) - 1
    BY <2>1, LenProperties
  <2>3. Len(q) >= 1 /\ Head(q) = q[1]
    BY <1>1, <1>2, EmptySeq
  <2>4. ToSet(Tail(q)) \subseteq ToSet(q)
    BY <1>1, <2>1, <2>2 DEF ToSet
  <2>5. QED  BY <1>1, <2>1, <2>3, <2>4 DEF ToSet
<1>3. ASSUME NEW f \in S
      PROVE  Append(q, f) \in Seq(S) /\ ToSet(Append(q, f)) = ToSet(q) \cup {f}
  <2>1. /\ Append(q, f) \in Seq(S) /\ Len(Append(q, f)) = Len(q) + 1
        /\ \A i \in 1..Len(q) : Append(q, f)[i] = q[i]
        /\ Append(q, f)[Len(q) + 1] = f
    BY AppendProperties
  <2>2. DOMAIN Append(q, f) = 1..Len(q) + 1
    BY <2>1, LenProperties
  <2>3. ToSet(Append(q, f)) \subseteq ToSet(q) \cup {f}
    BY <1>1, <2>1, <2>2 DEF ToSet
  <2>4. ToSet(q) \cup {f} \subseteq ToSet(Append(q, f))
    BY <1>1, <2>1, <2>2 DEF ToSet
  <2>5. QED  BY <2>1, <2>3, <2>4
<1>4. ASSUME NEW f \in S, NEW g \in S
      PROVE  q \o <<f, g>> \in Seq(S) /\ ToSet(q \o <<f, g>>) = ToSet(q) \cup {f, g}
  <2> DEFINE r == <<f, g>>
             s == q \o r
  <2>1. r \in Seq(S) /\ Len(r) = 2 /\ r[1] = f /\ r[2] = g
    OBVIOUS
  <2> HIDE DEF r
  <2>2. /\ s \in Seq(S) /\ Len(s) = Len(q) + 2
        /\ \A i \in 1..Len(q) + 2 : s[i] = IF i <= Len(q) THEN q[i] ELSE r[i - Len(q)]
    <3>1. /\ s \in Seq(S) /\ Len(s) = Len(q) + Len(r)
          /\ \A i \in 1..Len(q) + Len(r) :
                s[i] = IF i <= Len(q) THEN q[i] ELSE r[i - Len(q)]
      BY <2>1, ConcatProperties
    <3>2. QED  BY <2>1, <3>1
  <2> HIDE DEF s
  <2>3. DOMAIN s = 1..Len(q) + 2
    BY <2>2, LenProperties
  <2>4. /\ \A i \in 1..Len(q) : s[i] = q[i]
        /\ s[Len(q) + 1] = f /\ s[Len(q) + 2] = g
    BY <1>1, <2>1, <2>2
  <2>5. \A i \in 1..Len(q) + 2 : i \in 1..Len(q) \/ i = Len(q) + 1 \/ i = Len(q) + 2
    BY <1>1
  <2>6. ToSet(s) \subseteq ToSet(q) \cup {f, g}
    BY <1>1, <2>3, <2>4, <2>5 DEF ToSet
  <2>7. ToSet(q) \cup {f, g} \subseteq ToSet(s)
    BY <1>1, <2>3, <2>4 DEF ToSet
  <2>8. QED  BY <2>2, <2>6, <2>7 DEF r, s
<1>5. QED  BY <1>2, <1>3, <1>4

\* What the handlers and initiate_handshake send are frames.
LEMMA FramesLemma ==
  /\ \A kind \in BareKinds : Bare(kind) \in Frames
  /\ \A kind \in SchemaKinds, s \in Schemas : Frame(kind, s) \in Frames
BY DEF Bare, Frame, Frames

\* A frame that is taken leaves its queue, and no queue gets another.
LEMMA TakeLemma ==
  ASSUME TypeOK, NEW p \in Peers, net[p] # <<>>, Take(p)
  PROVE  /\ net' \in [Peers -> Seq(Frames)]
         /\ \A q \in Peers : ToSet(net'[q]) \subseteq ToSet(net[q])
         /\ Arriving(p) \in ToSet(net[p]) /\ Arriving(p) \in Frames
<1>1. net \in [Peers -> Seq(Frames)]
  BY DEF TypeOK
<1>2. net' = [net EXCEPT ![p] = Tail(net[p])]
  BY DEF Take
<1>3. /\ Head(net[p]) \in Frames /\ Head(net[p]) \in ToSet(net[p])
      /\ Tail(net[p]) \in Seq(Frames) /\ ToSet(Tail(net[p])) \subseteq ToSet(net[p])
  BY <1>1, QueueLemma
<1>4. QED  BY <1>1, <1>2, <1>3 DEF Arriving

\* A frame that is answered leaves its queue, and the answer joins the other one.
LEMMA AnswerLemma ==
  ASSUME TypeOK, NEW p \in Peers, net[p] # <<>>, NEW f \in Frames, Answer(p, f)
  PROVE  /\ net' \in [Peers -> Seq(Frames)]
         /\ ToSet(net'[p]) \subseteq ToSet(net[p])
         /\ ToSet(net'[Other(p)]) = ToSet(net[Other(p)]) \cup {f}
         /\ Arriving(p) \in ToSet(net[p]) /\ Arriving(p) \in Frames
<1>1. net \in [Peers -> Seq(Frames)] /\ Other(p) \in Peers /\ Other(p) # p
  BY DEF TypeOK, Other, Peers
<1>2. net' = [net EXCEPT ![p] = Tail(net[p]), ![Other(p)] = Append(net[Other(p)], f)]
  BY <1>1 DEF Answer
<1>3. /\ Head(net[p]) \in Frames /\ Head(net[p]) \in ToSet(net[p])
      /\ Tail(net[p]) \in Seq(Frames) /\ ToSet(Tail(net[p])) \subseteq ToSet(net[p])
  BY <1>1, QueueLemma
<1>4. /\ Append(net[Other(p)], f) \in Seq(Frames)
      /\ ToSet(Append(net[Other(p)], f)) = ToSet(net[Other(p)]) \cup {f}
  BY <1>1, QueueLemma
<1>5. QED  BY <1>1, <1>2, <1>3, <1>4 DEF Arriving
-----------------------------------------------------------------------------
\* The initial state is typed, with queues that are empty.
LEMMA InitTypeOK == Init => TypeOK
<1>1. <<>> \in Seq(Frames)
  BY EmptySeq
<1>2. QED  BY <1>1, HandshakeAssumption DEF Init, TypeOK, Modes

\* Every action keeps the types: a frame only carries a schema of a session.
LEMMA NextTypeOK ==
  ASSUME TypeOK, [Next]_vars
  PROVE  TypeOK'
<1>1. ASSUME NEW p \in Initiators, Initiate(p)  PROVE TypeOK'
  <2>1. p \in Peers /\ Other(p) \in Peers
    BY HandshakeAssumption DEF Other, Peers
  <2>2. Bare("HELLO") \in Frames /\ Frame("SCHEMA_FINGERPRINT", schema[p]) \in Frames
    BY <2>1, FramesLemma DEF TypeOK, BareKinds, SchemaKinds
  <2>3. net[Other(p)] \o <<Bare("HELLO"), Frame("SCHEMA_FINGERPRINT", schema[p])>> \in Seq(Frames)
    BY <2>1, <2>2, QueueLemma DEF TypeOK
  <2>4. QED  BY <1>1, <2>1, <2>3, HandshakeAssumption DEF Initiate, TypeOK, config
<1>2. ASSUME NEW p \in Peers, Reset(p)  PROVE TypeOK'
  BY <1>2, HandshakeAssumption DEF Reset, TypeOK, config, Modes
<1>3. ASSUME NEW p \in Peers, HandleFrame(p)  PROVE TypeOK'
  <2>0. /\ UNCHANGED <<schema, strict, allow, initiations, resets>>
        /\ \A kind \in BareKinds : Bare(kind) \in Frames
        /\ Frame("SCHEMA_TRANSFER", schema[p]) \in Frames
    BY <1>3, FramesLemma DEF HandleFrame, config, TypeOK, SchemaKinds
  <2>1. CASE ReceiveHello(p) \/ RejectTransfer(p) \/ IgnoreAck(p)
    BY <2>0, <2>1, TakeLemma DEF ReceiveHello, RejectTransfer, IgnoreAck, Incoming, TypeOK
  <2>2. CASE ReceiveKnownFingerprint(p)
    <3>1. Answer(p, Bare("ACK")) /\ net[p] # <<>> /\ Bare("ACK") \in Frames
      BY <2>0, <2>2 DEF ReceiveKnownFingerprint, Incoming, BareKinds
    <3>2. net' \in [Peers -> Seq(Frames)] /\ Arriving(p) \in Frames
      BY <3>1, AnswerLemma
    <3>3. Arriving(p).schema \in Schemas
      BY <2>2 DEF ReceiveKnownFingerprint, TypeOK
    <3>4. QED  BY <2>0, <2>2, <3>2, <3>3 DEF ReceiveKnownFingerprint, TypeOK
  <2>3. CASE ReceiveUnknownFingerprint(p)
    <3>1. Answer(p, Bare("NACK")) /\ net[p] # <<>> /\ Bare("NACK") \in Frames
      BY <2>0, <2>3 DEF ReceiveUnknownFingerprint, Incoming, BareKinds
    <3>2. net' \in [Peers -> Seq(Frames)] /\ Arriving(p) \in Frames
      BY <3>1, AnswerLemma
    <3>3. Arriving(p).schema \in Schemas \cup {NoSchema}
      BY <3>2 DEF Frames
    <3>4. mode' \in [Peers -> Modes]
      BY <2>3 DEF ReceiveUnknownFingerprint, TypeOK, Modes
    <3>5. QED  BY <2>0, <2>3, <3>2, <3>3, <3>4 DEF ReceiveUnknownFingerprint, TypeOK
  <2>4. CASE ReceiveTransfer(p)
    <3>1. Answer(p, Bare("ACK")) /\ net[p] # <<>> /\ Bare("ACK") \in Frames
      BY <2>0, <2>4 DEF ReceiveTransfer, Incoming, BareKinds
    <3>2. net' \in [Peers -> Seq(Frames)] /\ Arriving(p) \in Frames
      BY <3>1, AnswerLemma
    <3>3. Arriving(p).schema \in Schemas
      BY <2>4, <3>2 DEF ReceiveTransfer, Incoming, Frames, BareKinds, SchemaKinds
    <3>4. cache' \in [Peers -> SUBSET Schemas]
      BY <2>4, <3>3 DEF ReceiveTransfer, TypeOK
    <3>5. QED  BY <2>0, <2>4, <3>2, <3>3, <3>4 DEF ReceiveTransfer, TypeOK
  <2>5. CASE ReceiveAck(p)
    <3>1. Answer(p, Bare("MODE_SWITCH")) /\ net[p] # <<>> /\ Bare("MODE_SWITCH") \in Frames
      BY <2>0, <2>5 DEF ReceiveAck, Incoming, BareKinds
    <3>2. net' \in [Peers -> Seq(Frames)]
      BY <3>1, AnswerLemma
    <3>3. QED  BY <2>0, <2>5, <3>2 DEF ReceiveAck, EnterOpcodeMode, TypeOK, Modes
  <2>6. CASE ReceiveNack(p)
    <3>1. net[p] # <<>>
      BY <2>6 DEF ReceiveNack, Incoming
    <3>2. net' \in [Peers -> Seq(Frames)] /\ mode' \in [Peers -> Modes]
      <4>1. CASE allow[p]
        BY <2>0, <2>6, <3>1, <4>1, AnswerLemma DEF ReceiveNack, TypeOK
      <4>2. CASE ~allow[p]
        BY <2>0, <2>6, <3>1, <4>2, TakeLemma DEF ReceiveNack, TypeOK, Modes
      <4>3. QED  BY <4>1, <4>2
    <3>3. QED  BY <2>0, <2>6, <3>2 DEF ReceiveNack, TypeOK
  <2>7. CASE ReceiveModeSwitch(p)
    <3>1. net' \in [Peers -> Seq(Frames)]
      BY <2>7, TakeLemma DEF ReceiveModeSwitch, Incoming
    <3>2. QED  BY <2>0, <2>7, <3>1 DEF ReceiveModeSwitch, EnterOpcodeMode, TypeOK, Modes
  <2>8. QED
    BY <1>3, <2>1, <2>2, <2>3, <2>4, <2>5, <2>6, <2>7 DEF HandleFrame
<1>4. CASE UNCHANGED vars
  BY <1>4 DEF vars, config, TypeOK
<1>5. QED  BY <1>1, <1>2, <1>3, <1>4 DEF Next

\* Type correctness of the two sessions and of the frames between them.
THEOREM TypeCorrect == Spec => []TypeOK
<1>1. TypeOK /\ [Next]_vars => TypeOK'
  BY NextTypeOK
<1>2. QED  BY <1>1, InitTypeOK, PTL DEF Spec
-----------------------------------------------------------------------------
(***************************************************************************)
(* One initiator i, no resets.  Only i announces and transfers, only the   *)
(* other side acknowledges, and an acknowledgement is only ever on its way *)
(* after the other side took i's schema, which it then keeps.  The last    *)
(* conjunct lists everything that may make somebody enter opcode mode.     *)
(***************************************************************************)
Acknowledged(i) ==
  \/ \E f \in ToSet(net[i]) : f.kind = "ACK"
  \/ \E f \in ToSet(net[Other(i)]) : f.kind = "MODE_SWITCH"
  \/ InOpcodeMode("client") \/ InOpcodeMode("server")

OneInitiatorInv(i) ==
  /\ TypeOK
  /\ \A f \in ToSet(net[i]) : f.kind \in {"ACK", "NACK"}
  /\ \A f \in ToSet(net[Other(i)]) :
        /\ f.kind \in {"HELLO", "SCHEMA_FINGERPRINT", "SCHEMA_TRANSFER", "MODE_SWITCH"}
        /\ f.kind \in SchemaKinds => f.schema = schema[i]
  /\ active[i] = schema[i]
  /\ Acknowledged(i) => active[Other(i)] = schema[i]

\* Before anything was sent nothing is acknowledged.
LEMMA OneInitiatorInit ==
  ASSUME NEW i \in Peers, Init
  PROVE  OneInitiatorInv(i)
<1>1. TypeOK
  BY InitTypeOK
<1>2. ToSet(<<>>) = {}
  <2>1. DOMAIN <<>> = {}
    BY EmptySeq, LenProperties
  <2>2. QED  BY <2>1 DEF ToSet
<1>3. /\ \A p \in Peers : net[p] = <<>> /\ ~InOpcodeMode(p) /\ active[p] = schema[p]
      /\ Other(i) \in Peers /\ "client" \in Peers /\ "server" \in Peers
  BY DEF Init, InOpcodeMode, Other, Peers
<1>4. QED  BY <1>1, <1>2, <1>3 DEF OneInitiatorInv, Acknowledged

\* By the receiver of each frame: an ACK follows the responder taking the schema.
LEMMA OneInitiatorNext ==
  ASSUME NEW i \in Peers, Initiators = {i}, MaxResets = 0,
         OneInitiatorInv(i), [Next]_vars
  PROVE  OneInitiatorInv(i)'
<1> DEFINE r == Other(i)
<1>0. /\ r \in Peers /\ r # i /\ Other(r) = i
      /\ \A p \in Peers : p = i \/ p = r
      /\ \A p \in Peers : p = "client" \/ p = "server"
      /\ "client" \in Peers /\ "server" \in Peers
  BY DEF Peers, Other
<1>1. TypeOK /\ TypeOK'
  BY NextTypeOK DEF OneInitiatorInv
<1>2. CASE Initiate(i)
  <2>1. Bare("HELLO") \in Frames /\ Frame("SCHEMA_FINGERPRINT", schema[i]) \in Frames
    BY <1>1, FramesLemma DEF TypeOK, BareKinds, SchemaKinds
  <2>2. /\ net' = [net EXCEPT ![r] = @ \o <<Bare("HELLO"), Frame("SCHEMA_FINGERPRINT", schema[i])>>]
        /\ UNCHANGED <<schema, mode, active>>
    BY <1>2 DEF Initiate, config
  <2>3. /\ ToSet(net'[r]) = ToSet(net[r])
                            \cup {Bare("HELLO"), Frame("SCHEMA_FINGERPRINT", schema[i])}
        /\ net'[i] = net[i]
    BY <1>0, <1>1, <2>1, <2>2, QueueLemma DEF TypeOK
  <2> HIDE DEF r
  <2>4. \A f \in ToSet(net'[i]) : f.kind \in {"ACK", "NACK"}
    BY <2>3 DEF OneInitiatorInv
  <2>5. \A f \in ToSet(net'[r]) :
          /\ f.kind \in {"HELLO", "SCHEMA_FINGERPRINT", "SCHEMA_TRANSFER", "MODE_SWITCH"}
          /\ f.kind \in SchemaKinds => f.schema = schema'[i]
    <3>1. ToSet(net[r]) = ToSet(net[Other(i)])
      BY DEF r
    <3>2. QED
      BY <2>2, <2>3, <3>1 DEF OneInitiatorInv, Bare, Frame, SchemaKinds
  <2>6. Acknowledged(i)' => Acknowledged(i)
    <3>1. mode' = mode /\ ToSet(net'[i]) = ToSet(net[i])
      BY <2>2, <2>3
    <3>2. \A f \in ToSet(net'[r]) : f.kind = "MODE_SWITCH" => f \in ToSet(net[r])
      BY <2>3 DEF Bare, Frame
    <3>3. (\E f \in ToSet(net'[r]) : f.kind = "MODE_SWITCH")
            => \E f \in ToSet(net[r]) : f.kind = "MODE_SWITCH"
      BY <3>2
    <3>4. QED  BY <3>1, <3>3 DEF Acknowledged, InOpcodeMode, r
  <2>7. QED
    BY <1>1, <2>2, <2>4, <2>5, <2>6 DEF OneInitiatorInv, r
<1>3. ASSUME NEW p \in Peers, Reset(p)  PROVE FALSE
  BY <1>1, <1>3 DEF Reset, TypeOK
\* What i receives: ACK and NACK.
<1>4. CASE HandleFrame(i)
  <2>0. /\ UNCHANGED schema
        /\ net[i] # <<>> => Arriving(i) \in ToSet(net[i])
        /\ net \in [Peers -> Seq(Frames)]
    BY <1>0, <1>1, <1>4, QueueLemma DEF HandleFrame, config, Arriving, TypeOK
  <2>1. net[i] # <<>> => Arriving(i).kind \in {"ACK", "NACK"}
    BY <2>0 DEF OneInitiatorInv
  <2>2. CASE ReceiveAck(i)
    <3>1. /\ Answer(i, Bare("MODE_SWITCH")) /\ net[i] # <<>> /\ Arriving(i).kind = "ACK"
          /\ UNCHANGED active
      BY <2>2 DEF ReceiveAck, Incoming
    <3>2. Bare("MODE_SWITCH") \in Frames
      BY FramesLemma DEF BareKinds
    <3>3. /\ ToSet(net'[i]) \subseteq ToSet(net[i])
          /\ ToSet(net'[r]) = ToSet(net[r]) \cup {Bare("MODE_SWITCH")}
      BY <1>1, <3>1, <3>2, AnswerLemma
    <3>4. active[r] = schema[i]
      BY <2>0, <3>1 DEF OneInitiatorInv, Acknowledged
    <3>5. QED
      BY <1>1, <2>0, <3>1, <3>3, <3>4
      DEF OneInitiatorInv, Acknowledged, Bare, Frame, SchemaKinds
  <2>3. CASE IgnoreAck(i)
    <3>1. Take(i) /\ net[i] # <<>> /\ UNCHANGED <<mode, active>>
      BY <2>3 DEF IgnoreAck, Incoming
    <3>2. \A q \in Peers : ToSet(net'[q]) \subseteq ToSet(net[q])
      BY <1>1, <3>1, TakeLemma
    <3>3. QED
      BY <1>0, <1>1, <2>0, <3>1, <3>2 DEF OneInitiatorInv, Acknowledged, InOpcodeMode
  <2>4. CASE ReceiveNack(i)
    <3>1. net[i] # <<>> /\ UNCHANGED active
      BY <2>4 DEF ReceiveNack, Incoming
    <3>2. CASE allow[i]
      <4>1. /\ Answer(i, Frame("SCHEMA_TRANSFER", schema[i])) /\ UNCHANGED mode
            /\ Frame("SCHEMA_TRANSFER", schema[i]) \in Frames
        BY <1>1, <2>4, <3>2, FramesLemma DEF ReceiveNack, TypeOK, SchemaKinds
      <4>2. /\ ToSet(net'[i]) \subseteq ToSet(net[i])
            /\ ToSet(net'[r]) = ToSet(net[r]) \cup {Frame("SCHEMA_TRANSFER", schema[i])}
        BY <1>1, <3>1, <4>1, AnswerLemma
      <4>3. QED
        BY <1>0, <1>1, <2>0, <3>1, <4>1, <4>2
        DEF OneInitiatorInv, Acknowledged, InOpcodeMode, Frame, SchemaKinds
    <3>3. CASE ~allow[i]
      <4>1. Take(i) /\ mode' = [mode EXCEPT ![i] = "RAW"]
        BY <2>4, <3>3 DEF ReceiveNack
      <4>2. \A q \in Peers : ToSet(net'[q]) \subseteq ToSet(net[q])
        BY <1>1, <3>1, <4>1, TakeLemma
      <4>3. \A q \in Peers : mode'[q] = "OPCODE_MODE" => mode[q] = "OPCODE_MODE"
        BY <1>1, <4>1 DEF TypeOK
      <4>4. QED
        BY <1>0, <1>1, <2>0, <3>1, <4>2, <4>3
        DEF OneInitiatorInv, Acknowledged, InOpcodeMode
    <3>4. QED  BY <3>2, <3>3
  <2>5. QED
    BY <1>4, <2>1, <2>2, <2>3, <2>4
    DEF HandleFrame, ReceiveHello, ReceiveKnownFingerprint, ReceiveUnknownFingerprint,
        ReceiveTransfer, RejectTransfer, ReceiveModeSwitch, Incoming
\* What r receives: HELLO, i's fingerprint, i's schema, MODE_SWITCH.
<1>5. CASE HandleFrame(r)
  <2>0. /\ UNCHANGED schema
        /\ net[r] # <<>> => Arriving(r) \in ToSet(net[r])
        /\ net \in [Peers -> Seq(Frames)]
    BY <1>0, <1>1, <1>5, QueueLemma DEF HandleFrame, config, Arriving, TypeOK
  <2>1. net[r] # <<>> =>
          /\ Arriving(r).kind \in {"HELLO", "SCHEMA_FINGERPRINT", "SCHEMA_TRANSFER", "MODE_SWITCH"}
          /\ Arriving(r).kind \in SchemaKinds => Arriving(r).schema = schema[i]
    BY <2>0 DEF OneInitiatorInv
  <2>2. CASE ReceiveHello(r) \/ RejectTransfer(r)
    <3>1. Take(r) /\ net[r] # <<>> /\ UNCHANGED <<mode, active>>
      BY <2>2 DEF ReceiveHello, RejectTransfer, Incoming
    <3>2. \A q \in Peers : ToSet(net'[q]) \subseteq ToSet(net[q])
      BY <1>0, <1>1, <3>1, TakeLemma
    <3>3. QED
      BY <1>0, <1>1, <2>0, <3>1, <3>2 DEF OneInitiatorInv, Acknowledged, InOpcodeMode
  <2>3. CASE ReceiveKnownFingerprint(r) \/ ReceiveTransfer(r)
    <3>1. /\ Answer(r, Bare("ACK")) /\ net[r] # <<>>
          /\ Arriving(r).kind \in SchemaKinds
          /\ active' = [active EXCEPT ![r] = Arriving(r).schema]
      BY <2>3 DEF ReceiveKnownFingerprint, ReceiveTransfer, Incoming, SchemaKinds
    <3>2. Bare("ACK") \in Frames
      BY FramesLemma DEF BareKinds
    <3>3. /\ ToSet(net'[r]) \subseteq ToSet(net[r])
          /\ ToSet(net'[i]) = ToSet(net[i]) \cup {Bare("ACK")}
      BY <1>0, <1>1, <3>1, <3>2, AnswerLemma
    <3>4. active'[r] = schema[i] /\ active'[i] = active[i]
      BY <1>0, <1>1, <2>1, <3>1 DEF TypeOK
    <3>5. QED
      BY <1>1, <2>0, <3>3, <3>4 DEF OneInitiatorInv, Bare, Frame
  <2>4. CASE ReceiveUnknownFingerprint(r)
    <3>1. /\ Answer(r, Bare("NACK")) /\ net[r] # <<>> /\ UNCHANGED active
          /\ mode' = mode \/ mode' = [mode EXCEPT ![r] = "RAW"]
      BY <2>4 DEF ReceiveUnknownFingerprint, Incoming
    <3>2. Bare("NACK") \in Frames
      BY FramesLemma DEF BareKinds
    <3>3. /\ ToSet(net'[r]) \subseteq ToSet(net[r])
          /\ ToSet(net'[i]) = ToSet(net[i]) \cup {Bare("NACK")}
      BY <1>0, <1>1, <3>1, <3>2, AnswerLemma
    <3>4. \A q \in Peers : mode'[q] = "OPCODE_MODE" => mode[q] = "OPCODE_MODE"
      BY <1>1, <3>1 DEF TypeOK
    <3>5. QED
      BY <1>0, <1>1, <2>0, <3>1, <3>3, <3>4
      DEF OneInitiatorInv, Acknowledged, InOpcodeMode, Bare, Frame
  <2>5. CASE ReceiveModeSwitch(r)
    <3>1. Take(r) /\ net[r] # <<>> /\ UNCHANGED active /\ Arriving(r).kind = "MODE_SWITCH"
      BY <2>5 DEF ReceiveModeSwitch, Incoming
    <3>2. \A q \in Peers : ToSet(net'[q]) \subseteq ToSet(net[q])
      BY <1>0, <1>1, <3>1, TakeLemma
    <3>3. active[r] = schema[i]
      BY <2>0, <3>1 DEF OneInitiatorInv, Acknowledged
    <3>4. QED
      BY <1>0, <1>1, <2>0, <3>1, <3>2, <3>3 DEF OneInitiatorInv
  <2>6. QED
    BY <1>5, <2>1, <2>2, <2>3, <2>4, <2>5
    DEF HandleFrame, ReceiveAck, IgnoreAck, ReceiveNack, Incoming
<1>6. CASE UNCHANGED vars
  BY <1>6 DEF vars, config, OneInitiatorInv, TypeOK, Acknowledged, InOpcodeMode
<1>7. QED
  BY <1>0, <1>2, <1>3, <1>4, <1>5, <1>6 DEF Next

\* A session in opcode mode encodes with the schema its peer reads with: for
\* every set of schemas and every configuration of the two sessions, when one
\* of them initiates, however often, and nobody resets.
THEOREM ReaderAlwaysReady ==
  ASSUME NEW i \in Peers, Initiators = {i}, MaxResets = 0
  PROVE  Spec => []ReaderReady
<1>1. Init => OneInitiatorInv(i)
  BY OneInitiatorInit
<1>2. OneInitiatorInv(i) /\ [Next]_vars => OneInitiatorInv(i)'
  BY OneInitiatorNext
<1>3. OneInitiatorInv(i) => ReaderReady
  <2>1. Other(i) \in Peers /\ Other(Other(i)) = i /\ \A p \in Peers : p = i \/ p = Other(i)
    BY DEF Peers, Other
  <2>2. \A p \in Peers : p = "client" \/ p = "server"
    BY DEF Peers
  <2>3. QED  BY <2>1, <2>2 DEF OneInitiatorInv, ReaderReady, Acknowledged
<1>4. QED  BY <1>1, <1>2, <1>3, PTL DEF Spec
-----------------------------------------------------------------------------
(***************************************************************************)
(* Any initiators, any resets: whatever announces or transfers a schema to *)
(* a session carries its peer's own, and so the session remembers no       *)
(* other.                                                                  *)
(***************************************************************************)
AnnouncedInv ==
  /\ TypeOK
  /\ \A p \in Peers :
       /\ remote[p] \in {NoSchema, schema[Other(p)]}
       /\ \A f \in ToSet(net[p]) : f.kind \in SchemaKinds => f.schema = schema[Other(p)]

\* Nothing is announced or remembered at the start.
LEMMA AnnouncedInit == Init => AnnouncedInv
<1> SUFFICES ASSUME Init PROVE AnnouncedInv
  OBVIOUS
<1>1. ToSet(<<>>) = {}
  <2>1. DOMAIN <<>> = {}
    BY EmptySeq, LenProperties
  <2>2. QED  BY <2>1 DEF ToSet
<1>2. QED  BY <1>1, InitTypeOK DEF Init, AnnouncedInv

\* What is sent, cached or put to use is, by every action, the schema of its session.
LEMMA AnnouncedNext ==
  ASSUME AnnouncedInv, [Next]_vars
  PROVE  AnnouncedInv'
<1>0. /\ TypeOK /\ TypeOK'
      /\ \A p \in Peers : Other(p) \in Peers /\ Other(p) # p /\ Other(Other(p)) = p
      /\ \A p, q \in Peers : q = p \/ q = Other(p)
  BY NextTypeOK DEF AnnouncedInv, Peers, Other
<1>1. ASSUME NEW p \in Initiators, Initiate(p)  PROVE AnnouncedInv'
  <2>0. p \in Peers
    BY HandshakeAssumption
  <2>1. Bare("HELLO") \in Frames /\ Frame("SCHEMA_FINGERPRINT", schema[p]) \in Frames
    BY <1>0, <2>0, FramesLemma DEF TypeOK, BareKinds, SchemaKinds
  <2>2. /\ net' = [net EXCEPT ![Other(p)] =
                     @ \o <<Bare("HELLO"), Frame("SCHEMA_FINGERPRINT", schema[p])>>]
        /\ UNCHANGED <<schema, remote>>
    BY <1>1 DEF Initiate, config
  <2>3. /\ ToSet(net'[Other(p)]) = ToSet(net[Other(p)])
                             \cup {Bare("HELLO"), Frame("SCHEMA_FINGERPRINT", schema[p])}
        /\ net'[p] = net[p]
    BY <1>0, <2>0, <2>1, <2>2, QueueLemma DEF TypeOK
  <2>4. /\ Bare("HELLO").kind \notin SchemaKinds
        /\ Frame("SCHEMA_FINGERPRINT", schema[p]).schema = schema[p]
    BY DEF Bare, Frame, SchemaKinds
  <2>5. ASSUME NEW q \in Peers
        PROVE  \A g \in ToSet(net'[q]) : g.kind \in SchemaKinds => g.schema = schema'[Other(q)]
    BY <1>0, <2>0, <2>2, <2>3, <2>4 DEF AnnouncedInv
  <2>6. \A q \in Peers : remote'[q] \in {NoSchema, schema'[Other(q)]}
    BY <2>2 DEF AnnouncedInv
  <2>7. QED  BY <1>0, <2>5, <2>6 DEF AnnouncedInv
<1>2. ASSUME NEW p \in Peers, Reset(p)  PROVE AnnouncedInv'
  BY <1>0, <1>2 DEF Reset, AnnouncedInv, TypeOK, config
<1>3. ASSUME NEW p \in Peers, HandleFrame(p)  PROVE AnnouncedInv'
  <2>1. UNCHANGED schema
    BY <1>3 DEF HandleFrame, config
  <2>2. ASSUME Take(p), net[p] # <<>>, UNCHANGED remote  PROVE AnnouncedInv'
    <3>1. \A q \in Peers : ToSet(net'[q]) \subseteq ToSet(net[q])
      BY <1>0, <2>2, TakeLemma
    <3>2. QED  BY <1>0, <2>1, <2>2, <3>1 DEF AnnouncedInv
  <2>3. ASSUME NEW f \in Frames, Answer(p, f), net[p] # <<>>,
               f.kind \in SchemaKinds => f.schema = schema[p],
               \/ UNCHANGED remote
               \/ /\ Arriving(p).kind \in SchemaKinds
                  /\ remote' = [remote EXCEPT ![p] = Arriving(p).schema]
        PROVE  AnnouncedInv'
    <3>1. /\ ToSet(net'[p]) \subseteq ToSet(net[p])
          /\ ToSet(net'[Other(p)]) = ToSet(net[Other(p)]) \cup {f}
          /\ Arriving(p) \in ToSet(net[p])
      BY <1>0, <2>3, AnswerLemma
    <3>2. ASSUME NEW q \in Peers
          PROVE  \A g \in ToSet(net'[q]) : g.kind \in SchemaKinds => g.schema = schema'[Other(q)]
      BY <1>0, <2>1, <2>3, <3>1 DEF AnnouncedInv
    <3>3. Arriving(p).kind \in SchemaKinds => Arriving(p).schema = schema[Other(p)]
      BY <3>1 DEF AnnouncedInv
    <3>4. \A q \in Peers : remote'[q] \in {NoSchema, schema'[Other(q)]}
      BY <1>0, <2>1, <2>3, <3>3 DEF AnnouncedInv, TypeOK
    <3>5. QED  BY <1>0, <3>2, <3>4 DEF AnnouncedInv
  <2>4. /\ \A kind \in BareKinds : Bare(kind) \in Frames /\ Bare(kind).kind \notin SchemaKinds
        /\ Frame("SCHEMA_TRANSFER", schema[p]) \in Frames
        /\ Frame("SCHEMA_TRANSFER", schema[p]).schema = schema[p]
    BY <1>0, FramesLemma DEF TypeOK, Bare, Frame, BareKinds, SchemaKinds
  <2>5. CASE ReceiveHello(p) \/ RejectTransfer(p) \/ IgnoreAck(p) \/ ReceiveModeSwitch(p)
    BY <2>2, <2>5 DEF ReceiveHello, RejectTransfer, IgnoreAck, ReceiveModeSwitch, Incoming
  <2>6. CASE ReceiveKnownFingerprint(p) \/ ReceiveTransfer(p)
    <3>1. /\ Answer(p, Bare("ACK")) /\ net[p] # <<>> /\ Arriving(p).kind \in SchemaKinds
          /\ remote' = [remote EXCEPT ![p] = Arriving(p).schema]
      BY <2>6 DEF ReceiveKnownFingerprint, ReceiveTransfer, Incoming, SchemaKinds
    <3>2. QED  BY <2>3, <2>4, <3>1 DEF BareKinds
  <2>7. CASE ReceiveUnknownFingerprint(p)
    <3>1. /\ Answer(p, Bare("NACK")) /\ net[p] # <<>> /\ Arriving(p).kind \in SchemaKinds
          /\ remote' = [remote EXCEPT ![p] = Arriving(p).schema]
      BY <2>7 DEF ReceiveUnknownFingerprint, Incoming, SchemaKinds
    <3>2. QED  BY <2>3, <2>4, <3>1 DEF BareKinds
  <2>8. CASE ReceiveAck(p)
    <3>1. Answer(p, Bare("MODE_SWITCH")) /\ net[p] # <<>> /\ UNCHANGED remote
      BY <2>8 DEF ReceiveAck, Incoming
    <3>2. QED  BY <2>3, <2>4, <3>1 DEF BareKinds
  <2>9. CASE ReceiveNack(p)
    <3>1. /\ Answer(p, Frame("SCHEMA_TRANSFER", schema[p])) \/ Take(p)
          /\ net[p] # <<>> /\ UNCHANGED remote
      BY <2>9 DEF ReceiveNack, Incoming
    <3>2. QED  BY <2>2, <2>3, <2>4, <3>1
  <2>10. QED
    BY <1>3, <2>5, <2>6, <2>7, <2>8, <2>9 DEF HandleFrame
<1>4. CASE UNCHANGED vars
  BY <1>0, <1>4 DEF vars, config, AnnouncedInv
<1>5. QED
  BY <1>1, <1>2, <1>3, <1>4 DEF Next

\* Two sessions of this code never raise HandshakeError at each other: a transfer
\* is always of the schema that was announced, for any schemas, configurations,
\* initiators and resets.
THEOREM TransfersAnnounced == Spec => []TransferIsAnnounced
<1>1. AnnouncedInv => TransferIsAnnounced
  <2> SUFFICES ASSUME AnnouncedInv, NEW p \in Peers, Incoming(p, "SCHEMA_TRANSFER")
               PROVE  remote[p] \in {NoSchema, Arriving(p).schema}
    BY DEF TransferIsAnnounced
  <2>1. Arriving(p) \in ToSet(net[p]) /\ Arriving(p).kind = "SCHEMA_TRANSFER"
    BY QueueLemma DEF AnnouncedInv, TypeOK, Incoming, Arriving
  <2>2. Arriving(p).schema = schema[Other(p)]
    BY <2>1 DEF AnnouncedInv, SchemaKinds
  <2>3. QED  BY <2>2 DEF AnnouncedInv
<1>2. AnnouncedInv /\ [Next]_vars => AnnouncedInv'
  BY AnnouncedNext
<1>3. QED  BY <1>1, <1>2, AnnouncedInit, PTL DEF Spec
-----------------------------------------------------------------------------
(***************************************************************************)
(* One initiator i, no resets, and how it ends.  The other side accepts    *)
(* i's schema once and for all; its refusals are on their way ahead of its *)
(* acknowledgements, so the first acknowledgement i handles is never       *)
(* followed by a refusal; and i is in opcode mode exactly when the other   *)
(* side is, or has the MODE_SWITCH that will take it there on its way.     *)
(***************************************************************************)
OnItsWay(p, kind) == \E f \in ToSet(net[p]) : f.kind = kind

AcksLast(q) ==
  \A j, k \in 1..Len(q) : j < k /\ q[j].kind = "ACK" => q[k].kind = "ACK"

Accepted(i) == schema[i] \in cache[Other(i)]

OneOutcomeInv(i) ==
  /\ OneInitiatorInv(i)
  /\ \A p \in Peers : complete[p] <=> InOpcodeMode(p)
  /\ OnItsWay(Other(i), "SCHEMA_TRANSFER") => allow[i]
  /\ OnItsWay(i, "ACK") \/ InOpcodeMode(i) => Accepted(i)
  /\ OnItsWay(i, "NACK") => ~InOpcodeMode(i) /\ (Accepted(i) => allow[i])
  /\ mode[i] = "RAW" => ~allow[i] /\ ~Accepted(i)
  /\ AcksLast(net[i])
  /\ InOpcodeMode(Other(i)) \/ OnItsWay(Other(i), "MODE_SWITCH") <=> InOpcodeMode(i)

\* Taking the first frame of a queue loses no other, and adding a last one moves none.
LEMMA OrderLemma ==
  ASSUME NEW S, NEW q \in Seq(S)
  PROVE  /\ q # <<>> =>
              /\ ToSet(q) = ToSet(Tail(q)) \cup {Head(q)}
              /\ AcksLast(q) => AcksLast(Tail(q))
              /\ AcksLast(q) /\ Head(q).kind = "ACK" => \A f \in ToSet(q) : f.kind = "ACK"
         /\ \A f \in S :
              /\ AcksLast(q) /\ f.kind = "ACK" => AcksLast(Append(q, f))
              /\ (\A g \in ToSet(q) : g.kind # "ACK") => AcksLast(Append(q, f))
<1>1. Len(q) \in Nat /\ DOMAIN q = 1..Len(q)
  BY LenProperties
<1>2. ASSUME q # <<>>
      PROVE  /\ ToSet(q) = ToSet(Tail(q)) \cup {Head(q)}
             /\ AcksLast(q) => AcksLast(Tail(q))
             /\ AcksLast(q) /\ Head(q).kind = "ACK" => \A f \in ToSet(q) : f.kind = "ACK"
  <2>1. /\ Tail(q) \in Seq(S) /\ Len(Tail(q)) = Len(q) - 1
        /\ \A j \in 1..Len(Tail(q)) : Tail(q)[j] = q[j + 1]
    BY <1>2, HeadTailProperties
  <2>2. DOMAIN Tail(q) = 1..Len(q) - 1
    BY <2>1, LenProperties
  <2>3. Len(q) >= 1 /\ Head(q) = q[1]
    BY <1>1, <1>2, EmptySeq
  <2>4. ToSet(Tail(q)) \cup {Head(q)} \subseteq ToSet(q)
    BY <1>1, <2>1, <2>2, <2>3 DEF ToSet
  <2>5. ASSUME NEW j \in 1..Len(q)  PROVE q[j] \in ToSet(Tail(q)) \cup {Head(q)}
    <3>1. CASE j = 1
      BY <2>3, <3>1
    <3>2. CASE j > 1
      <4>1. j - 1 \in 1..Len(q) - 1 /\ (j - 1) + 1 = j
        BY <1>1, <3>2
      <4>2. Tail(q)[j - 1] = q[j]
        BY <2>1, <4>1
      <4>3. QED  BY <2>2, <4>1, <4>2 DEF ToSet
    <3>3. QED  BY <1>1, <3>1, <3>2
  <2>6. AcksLast(q) => AcksLast(Tail(q))
    BY <1>1, <2>1 DEF AcksLast
  <2>7. ASSUME AcksLast(q), q[1].kind = "ACK", NEW j \in 1..Len(q)  PROVE q[j].kind = "ACK"
    BY <1>1, <2>3, <2>7 DEF AcksLast
  <2>8. AcksLast(q) /\ Head(q).kind = "ACK" => \A f \in ToSet(q) : f.kind = "ACK"
    BY <1>1, <2>3, <2>7 DEF ToSet
  <2>9. ToSet(q) \subseteq ToSet(Tail(q)) \cup {Head(q)}
    BY <1>1, <2>5 DEF ToSet
  <2>10. QED  BY <2>4, <2>6, <2>8, <2>9
<1>3. ASSUME NEW f \in S
      PROVE  /\ AcksLast(q) /\ f.kind = "ACK" => AcksLast(Append(q, f))
             /\ (\A g \in ToSet(q) : g.kind # "ACK") => AcksLast(Append(q, f))
  <2>1. /\ Len(Append(q, f)) = Len(q) + 1
        /\ \A j \in 1..Len(q) : Append(q, f)[j] = q[j]
        /\ Append(q, f)[Len(q) + 1] = f
    BY AppendProperties
  <2>2. \A j \in 1..Len(q) + 1 : j \in 1..Len(q) \/ j = Len(q) + 1
    BY <1>1
  <2>3. AcksLast(q) /\ f.kind = "ACK" => AcksLast(Append(q, f))
    BY <1>1, <2>1, <2>2 DEF AcksLast
  <2>4. \A j \in 1..Len(q) : q[j] \in ToSet(q)
    BY <1>1 DEF ToSet
  <2>5. (\A g \in ToSet(q) : g.kind # "ACK") => AcksLast(Append(q, f))
    BY <1>1, <2>1, <2>2, <2>4 DEF AcksLast
  <2>6. QED  BY <2>3, <2>5
<1>4. QED  BY <1>2, <1>3

\* What is on its way after the two ways of handling a frame.
LEMMA TakenLemma ==
  ASSUME TypeOK, NEW p \in Peers, net[p] # <<>>, Take(p)
  PROVE  /\ net'[Other(p)] = net[Other(p)]
         /\ ToSet(net[p]) = ToSet(net'[p]) \cup {Arriving(p)}
         /\ AcksLast(net[p]) => AcksLast(net'[p])
         /\ AcksLast(net[p]) /\ Arriving(p).kind = "ACK" => ~OnItsWay(p, "NACK")
<1>1. /\ net \in [Peers -> Seq(Frames)] /\ Other(p) \in Peers /\ Other(p) # p
      /\ net' = [net EXCEPT ![p] = Tail(net[p])]
  BY DEF TypeOK, Other, Peers, Take
<1>2. QED  BY <1>1, OrderLemma DEF Arriving, OnItsWay

\* The same for a frame that is answered.
LEMMA AnsweredLemma ==
  ASSUME TypeOK, NEW p \in Peers, net[p] # <<>>, NEW f \in Frames, Answer(p, f)
  PROVE  /\ net'[Other(p)] = Append(net[Other(p)], f)
         /\ ToSet(net'[Other(p)]) = ToSet(net[Other(p)]) \cup {f}
         /\ ToSet(net[p]) = ToSet(net'[p]) \cup {Arriving(p)}
         /\ AcksLast(net[p]) => AcksLast(net'[p])
         /\ AcksLast(net[p]) /\ Arriving(p).kind = "ACK" => ~OnItsWay(p, "NACK")
<1>1. /\ net \in [Peers -> Seq(Frames)] /\ Other(p) \in Peers /\ Other(p) # p
      /\ net' = [net EXCEPT ![p] = Tail(net[p]), ![Other(p)] = Append(net[Other(p)], f)]
  BY DEF TypeOK, Other, Peers, Answer
<1>2. QED  BY <1>1, OrderLemma, AnswerLemma DEF Arriving, OnItsWay

\* Both sessions start out of opcode mode, with nothing on its way.
LEMMA OneOutcomeInit ==
  ASSUME NEW i \in Peers, Init
  PROVE  OneOutcomeInv(i)
<1>1. ToSet(<<>>) = {} /\ Len(<<>>) = 0
  <2>1. DOMAIN <<>> = {} /\ Len(<<>>) = 0
    BY EmptySeq, LenProperties
  <2>2. QED  BY <2>1 DEF ToSet
<1>2. Other(i) \in Peers
  BY DEF Other, Peers
<1>3. \A p \in Peers : net[p] = <<>> /\ ~complete[p] /\ mode[p] = "HANDSHAKE"
  BY DEF Init
<1>4. AcksLast(net[i])
  BY <1>1, <1>3 DEF AcksLast
<1>5. /\ ~OnItsWay(i, "ACK") /\ ~OnItsWay(i, "NACK")
      /\ ~OnItsWay(Other(i), "SCHEMA_TRANSFER") /\ ~OnItsWay(Other(i), "MODE_SWITCH")
  BY <1>1, <1>2, <1>3 DEF OnItsWay
<1>6. OneInitiatorInv(i)
  BY OneInitiatorInit
<1>7. QED
  BY <1>2, <1>3, <1>4, <1>5, <1>6 DEF OneOutcomeInv, InOpcodeMode

\* What an ACK began is finished by the MODE_SWITCH, and by nothing else.
LEMMA OneOutcomeNext ==
  ASSUME NEW i \in Peers, Initiators = {i}, MaxResets = 0,
         OneOutcomeInv(i), [Next]_vars
  PROVE  OneOutcomeInv(i)'
<1> DEFINE r == Other(i)
<1>0. /\ r \in Peers /\ r # i /\ Other(r) = i
      /\ \A p \in Peers : p = i \/ p = r
  BY DEF Peers, Other
<1>1. /\ OneInitiatorInv(i) /\ OneInitiatorInv(i)' /\ TypeOK
      /\ mode \in [Peers -> Modes] /\ complete \in [Peers -> BOOLEAN]
      /\ cache \in [Peers -> SUBSET Schemas]
  <2>1. OneInitiatorInv(i)
    BY DEF OneOutcomeInv
  <2>2. OneInitiatorInv(i)'
    BY <2>1, OneInitiatorNext
  <2>3. QED  BY <2>1, <2>2 DEF OneInitiatorInv, TypeOK
<1>2. CASE Initiate(i)
  <2>1. Bare("HELLO") \in Frames /\ Frame("SCHEMA_FINGERPRINT", schema[i]) \in Frames
    BY <1>1, FramesLemma DEF TypeOK, BareKinds, SchemaKinds
  <2>2. /\ net' = [net EXCEPT ![r] = @ \o <<Bare("HELLO"), Frame("SCHEMA_FINGERPRINT", schema[i])>>]
        /\ UNCHANGED <<schema, allow, mode, complete, cache>>
    BY <1>2 DEF Initiate, config
  <2>3. /\ ToSet(net'[r]) = ToSet(net[r])
                            \cup {Bare("HELLO"), Frame("SCHEMA_FINGERPRINT", schema[i])}
        /\ net'[i] = net[i]
    BY <1>0, <1>1, <2>1, <2>2, QueueLemma DEF TypeOK
  <2>4. /\ Bare("HELLO").kind = "HELLO"
        /\ Frame("SCHEMA_FINGERPRINT", schema[i]).kind = "SCHEMA_FINGERPRINT"
    BY DEF Bare, Frame
  <2>5. /\ OnItsWay(r, "SCHEMA_TRANSFER")' <=> OnItsWay(r, "SCHEMA_TRANSFER")
        /\ OnItsWay(r, "MODE_SWITCH")' <=> OnItsWay(r, "MODE_SWITCH")
        /\ OnItsWay(i, "ACK")' <=> OnItsWay(i, "ACK")
        /\ OnItsWay(i, "NACK")' <=> OnItsWay(i, "NACK")
    BY <2>3, <2>4 DEF OnItsWay
  <2>6. QED
    BY <1>0, <1>1, <2>2, <2>3, <2>5 DEF OneOutcomeInv, InOpcodeMode, Accepted
<1>3. ASSUME NEW p \in Peers, Reset(p)  PROVE FALSE
  BY <1>1, <1>3 DEF Reset, TypeOK
\* What i receives: ACK and NACK.
<1>4. CASE HandleFrame(i)
  <2>0. /\ UNCHANGED <<schema, allow>>
        /\ net[i] # <<>> => Arriving(i) \in ToSet(net[i])
        /\ net \in [Peers -> Seq(Frames)]
    BY <1>0, <1>1, <1>4, QueueLemma DEF HandleFrame, config, Arriving, TypeOK
  <2>1. net[i] # <<>> => Arriving(i).kind \in {"ACK", "NACK"}
    BY <1>1, <2>0 DEF OneInitiatorInv
  <2>2. CASE ReceiveAck(i)
    <3>1. /\ Answer(i, Bare("MODE_SWITCH")) /\ net[i] # <<>> /\ Arriving(i).kind = "ACK"
          /\ mode' = [mode EXCEPT ![i] = "OPCODE_MODE"]
          /\ complete' = [complete EXCEPT ![i] = TRUE]
          /\ UNCHANGED cache
      BY <2>2 DEF ReceiveAck, Incoming, EnterOpcodeMode
    <3>2. Bare("MODE_SWITCH") \in Frames /\ Bare("MODE_SWITCH").kind = "MODE_SWITCH"
      BY FramesLemma DEF BareKinds, Bare, Frame
    <3>3. /\ ToSet(net'[r]) = ToSet(net[r]) \cup {Bare("MODE_SWITCH")}
          /\ ToSet(net[i]) = ToSet(net'[i]) \cup {Arriving(i)}
          /\ AcksLast(net'[i]) /\ ~OnItsWay(i, "NACK")
      BY <1>1, <3>1, <3>2, AnsweredLemma DEF OneOutcomeInv
    <3>4. /\ OnItsWay(i, "ACK") /\ ~OnItsWay(i, "NACK")' /\ OnItsWay(r, "MODE_SWITCH")'
          /\ OnItsWay(r, "SCHEMA_TRANSFER")' => OnItsWay(r, "SCHEMA_TRANSFER")
      BY <3>1, <3>2, <3>3 DEF OnItsWay
    <3>5. Accepted(i)' /\ (OnItsWay(r, "SCHEMA_TRANSFER")' => allow'[i])
      BY <2>0, <3>1, <3>4 DEF OneOutcomeInv, Accepted
    <3>6. /\ mode'[i] = "OPCODE_MODE" /\ mode'[r] = mode[r]
          /\ complete'[i] /\ complete'[r] = complete[r]
      BY <1>0, <1>1, <3>1
    <3>7. QED
      BY <1>0, <1>1, <3>3, <3>4, <3>5, <3>6 DEF OneOutcomeInv, InOpcodeMode
  <2>3. CASE IgnoreAck(i)
    <3>1. /\ Take(i) /\ net[i] # <<>> /\ UNCHANGED <<mode, complete, cache>>
      BY <2>3 DEF IgnoreAck, Incoming
    <3>2. /\ net'[r] = net[r] /\ AcksLast(net'[i])
          /\ ToSet(net[i]) = ToSet(net'[i]) \cup {Arriving(i)}
      BY <1>1, <3>1, TakenLemma DEF OneOutcomeInv
    <3>3. /\ OnItsWay(r, "SCHEMA_TRANSFER")' <=> OnItsWay(r, "SCHEMA_TRANSFER")
          /\ OnItsWay(r, "MODE_SWITCH")' <=> OnItsWay(r, "MODE_SWITCH")
          /\ OnItsWay(i, "ACK")' => OnItsWay(i, "ACK")
          /\ OnItsWay(i, "NACK")' => OnItsWay(i, "NACK")
      BY <3>2 DEF OnItsWay
    <3>4. QED
      BY <1>0, <1>1, <2>0, <3>1, <3>2, <3>3 DEF OneOutcomeInv, InOpcodeMode, Accepted
  <2>4. CASE ReceiveNack(i)
    <3>1. /\ net[i] # <<>> /\ Arriving(i).kind = "NACK" /\ UNCHANGED <<complete, cache>>
      BY <2>4 DEF ReceiveNack, Incoming
    <3>2. OnItsWay(i, "NACK")
      BY <2>0, <3>1 DEF OnItsWay
    <3>3. CASE allow[i]
      <4>1. /\ Answer(i, Frame("SCHEMA_TRANSFER", schema[i])) /\ UNCHANGED mode
            /\ Frame("SCHEMA_TRANSFER", schema[i]) \in Frames
            /\ Frame("SCHEMA_TRANSFER", schema[i]).kind = "SCHEMA_TRANSFER"
        BY <1>1, <2>4, <3>3, FramesLemma DEF ReceiveNack, TypeOK, SchemaKinds, Frame
      <4>2. /\ AcksLast(net'[i])
            /\ ToSet(net[i]) = ToSet(net'[i]) \cup {Arriving(i)}
            /\ ToSet(net'[r]) = ToSet(net[r]) \cup {Frame("SCHEMA_TRANSFER", schema[i])}
        BY <1>1, <3>1, <4>1, AnsweredLemma DEF OneOutcomeInv
      <4>3. /\ OnItsWay(r, "MODE_SWITCH")' <=> OnItsWay(r, "MODE_SWITCH")
            /\ OnItsWay(i, "ACK")' => OnItsWay(i, "ACK")
            /\ OnItsWay(i, "NACK")' => OnItsWay(i, "NACK")
        BY <4>1, <4>2 DEF OnItsWay
      <4>4. QED
        BY <1>0, <1>1, <2>0, <3>1, <3>3, <4>1, <4>2, <4>3
        DEF OneOutcomeInv, InOpcodeMode, Accepted
    <3>4. CASE ~allow[i]
      <4>1. Take(i) /\ mode' = [mode EXCEPT ![i] = "RAW"]
        BY <2>4, <3>4 DEF ReceiveNack
      <4>2. /\ net'[r] = net[r] /\ AcksLast(net'[i])
            /\ ToSet(net[i]) = ToSet(net'[i]) \cup {Arriving(i)}
        BY <1>1, <3>1, <4>1, TakenLemma DEF OneOutcomeInv
      <4>3. /\ OnItsWay(r, "SCHEMA_TRANSFER")' <=> OnItsWay(r, "SCHEMA_TRANSFER")
            /\ OnItsWay(r, "MODE_SWITCH")' <=> OnItsWay(r, "MODE_SWITCH")
            /\ OnItsWay(i, "ACK")' => OnItsWay(i, "ACK")
        BY <4>2 DEF OnItsWay
      <4>4. mode'[i] = "RAW" /\ mode'[r] = mode[r]
        BY <1>0, <1>1, <4>1
      <4>5. ~Accepted(i) /\ ~Accepted(i)' /\ ~InOpcodeMode(i)
        BY <2>0, <3>1, <3>2, <3>4 DEF OneOutcomeInv, Accepted
      <4>6. QED
        BY <1>0, <1>1, <2>0, <3>1, <3>4, <4>2, <4>3, <4>4, <4>5
        DEF OneOutcomeInv, InOpcodeMode
    <3>5. QED  BY <3>3, <3>4
  <2>5. QED
    BY <1>4, <2>1, <2>2, <2>3, <2>4
    DEF HandleFrame, ReceiveHello, ReceiveKnownFingerprint, ReceiveUnknownFingerprint,
        ReceiveTransfer, RejectTransfer, ReceiveModeSwitch, Incoming
\* What r receives: HELLO, i's fingerprint, i's schema, MODE_SWITCH.
<1>5. CASE HandleFrame(r)
  <2>0. /\ UNCHANGED <<schema, allow>>
        /\ net[r] # <<>> => Arriving(r) \in ToSet(net[r])
        /\ net \in [Peers -> Seq(Frames)]
    BY <1>0, <1>1, <1>5, QueueLemma DEF HandleFrame, config, Arriving, TypeOK
  <2>1. net[r] # <<>> =>
          /\ Arriving(r).kind \in {"HELLO", "SCHEMA_FINGERPRINT", "SCHEMA_TRANSFER", "MODE_SWITCH"}
          /\ Arriving(r).kind \in SchemaKinds => Arriving(r).schema = schema[i]
    BY <1>1, <2>0 DEF OneInitiatorInv
  <2>2. CASE ReceiveHello(r) \/ RejectTransfer(r)
    <3>1. /\ Take(r) /\ net[r] # <<>> /\ Arriving(r).kind # "MODE_SWITCH"
          /\ UNCHANGED <<mode, complete, cache>>
      BY <2>2 DEF ReceiveHello, RejectTransfer, Incoming
    <3>2. /\ net'[i] = net[i]
          /\ ToSet(net[r]) = ToSet(net'[r]) \cup {Arriving(r)}
      BY <1>0, <1>1, <3>1, TakenLemma
    <3>3. /\ OnItsWay(r, "SCHEMA_TRANSFER")' => OnItsWay(r, "SCHEMA_TRANSFER")
          /\ OnItsWay(r, "MODE_SWITCH")' <=> OnItsWay(r, "MODE_SWITCH")
          /\ OnItsWay(i, "ACK")' <=> OnItsWay(i, "ACK")
          /\ OnItsWay(i, "NACK")' <=> OnItsWay(i, "NACK")
      BY <3>1, <3>2 DEF OnItsWay
    <3>4. QED
      BY <1>0, <1>1, <2>0, <3>1, <3>2, <3>3 DEF OneOutcomeInv, InOpcodeMode, Accepted
  <2>3. CASE ReceiveKnownFingerprint(r) \/ ReceiveTransfer(r)
    <3>1. /\ Answer(r, Bare("ACK")) /\ net[r] # <<>> /\ Arriving(r).kind \in SchemaKinds
          /\ UNCHANGED <<mode, complete>>
      BY <2>3 DEF ReceiveKnownFingerprint, ReceiveTransfer, Incoming, SchemaKinds
    <3>2. Bare("ACK") \in Frames /\ Bare("ACK").kind = "ACK"
      BY FramesLemma DEF BareKinds, Bare, Frame
    <3>3. /\ net'[i] = Append(net[i], Bare("ACK"))
          /\ ToSet(net'[i]) = ToSet(net[i]) \cup {Bare("ACK")}
          /\ ToSet(net[r]) = ToSet(net'[r]) \cup {Arriving(r)}
      <4> HIDE DEF r
      <4>1. /\ net'[Other(r)] = Append(net[Other(r)], Bare("ACK"))
            /\ ToSet(net'[Other(r)]) = ToSet(net[Other(r)]) \cup {Bare("ACK")}
            /\ ToSet(net[r]) = ToSet(net'[r]) \cup {Arriving(r)}
        BY <1>0, <1>1, <3>1, <3>2, AnsweredLemma
      <4>2. QED  BY <1>0, <4>1
    <3>4. AcksLast(net'[i])
      BY <1>0, <2>0, <3>2, <3>3, OrderLemma DEF OneOutcomeInv
    <3>5. /\ OnItsWay(r, "SCHEMA_TRANSFER")' => OnItsWay(r, "SCHEMA_TRANSFER")
          /\ OnItsWay(r, "MODE_SWITCH")' <=> OnItsWay(r, "MODE_SWITCH")
          /\ OnItsWay(i, "NACK")' <=> OnItsWay(i, "NACK")
      BY <3>1, <3>2, <3>3 DEF OnItsWay, SchemaKinds
    <3>6. Accepted(i)' /\ (Accepted(i) \/ allow[i])
      <4>1. CASE ReceiveKnownFingerprint(r)
        <5>1. Arriving(r).schema = schema[i] /\ Arriving(r).schema \in cache[r] /\ UNCHANGED cache
          BY <2>1, <3>1, <4>1 DEF ReceiveKnownFingerprint
        <5>2. QED  BY <2>0, <5>1 DEF Accepted
      <4>2. CASE ReceiveTransfer(r)
        <5>1. /\ Arriving(r).schema = schema[i] /\ Arriving(r).kind = "SCHEMA_TRANSFER"
              /\ cache' = [cache EXCEPT ![r] = @ \cup {Arriving(r).schema}]
          BY <2>1, <3>1, <4>2 DEF ReceiveTransfer, Incoming
        <5>2. allow[i]
          BY <2>0, <3>1, <5>1 DEF OneOutcomeInv, OnItsWay
        <5>3. QED  BY <1>0, <1>1, <2>0, <5>1, <5>2 DEF Accepted
      <4>3. QED  BY <2>3, <4>1, <4>2
    <3>7. OnItsWay(i, "NACK")' => ~InOpcodeMode(i) /\ (Accepted(i)' => allow'[i])
      BY <2>0, <3>5, <3>6 DEF OneOutcomeInv
    <3>8. mode[i] # "RAW"
      BY <3>6 DEF OneOutcomeInv
    <3>9. QED
      BY <1>0, <1>1, <2>0, <3>1, <3>4, <3>5, <3>6, <3>7, <3>8 DEF OneOutcomeInv, InOpcodeMode
  <2>4. CASE ReceiveUnknownFingerprint(r)
    <3>1. /\ Answer(r, Bare("NACK")) /\ net[r] # <<>>
          /\ Arriving(r).kind = "SCHEMA_FINGERPRINT" /\ Arriving(r).schema \notin cache[r]
          /\ UNCHANGED <<complete, cache>>
          /\ mode' = mode \/ mode' = [mode EXCEPT ![r] = "RAW"]
      BY <2>4 DEF ReceiveUnknownFingerprint, Incoming
    <3>2. Bare("NACK") \in Frames /\ Bare("NACK").kind = "NACK"
      BY FramesLemma DEF BareKinds, Bare, Frame
    <3>3. /\ net'[i] = Append(net[i], Bare("NACK"))
          /\ ToSet(net'[i]) = ToSet(net[i]) \cup {Bare("NACK")}
          /\ ToSet(net[r]) = ToSet(net'[r]) \cup {Arriving(r)}
      <4> HIDE DEF r
      <4>1. /\ net'[Other(r)] = Append(net[Other(r)], Bare("NACK"))
            /\ ToSet(net'[Other(r)]) = ToSet(net[Other(r)]) \cup {Bare("NACK")}
            /\ ToSet(net[r]) = ToSet(net'[r]) \cup {Arriving(r)}
        BY <1>0, <1>1, <3>1, <3>2, AnsweredLemma
      <4>2. QED  BY <1>0, <4>1
    <3>4. ~Accepted(i) /\ ~Accepted(i)'
      BY <2>0, <2>1, <3>1 DEF Accepted, SchemaKinds
    <3>5. /\ ~InOpcodeMode(i) /\ ~InOpcodeMode(r) /\ ~OnItsWay(i, "ACK")
          /\ ~OnItsWay(r, "MODE_SWITCH")
      BY <3>4 DEF OneOutcomeInv
    <3>6. AcksLast(net'[i])
      <4>1. \A f \in ToSet(net[i]) : f.kind # "ACK"
        BY <3>5 DEF OnItsWay
      <4>2. QED  BY <1>0, <2>0, <3>2, <3>3, <4>1, OrderLemma
    <3>7. /\ OnItsWay(r, "SCHEMA_TRANSFER")' => OnItsWay(r, "SCHEMA_TRANSFER")
          /\ ~OnItsWay(r, "MODE_SWITCH")' /\ ~OnItsWay(i, "ACK")'
      BY <3>2, <3>3, <3>5 DEF OnItsWay
    <3>8. ~InOpcodeMode(i)' /\ ~InOpcodeMode(r)' /\ mode'[i] = mode[i]
      BY <1>0, <1>1, <3>1, <3>5 DEF InOpcodeMode
    <3>9. \A p \in Peers : complete'[p] <=> InOpcodeMode(p)'
      BY <1>0, <3>1, <3>5, <3>8 DEF OneOutcomeInv
    <3>10. QED
      BY <1>1, <2>0, <3>4, <3>6, <3>7, <3>8, <3>9 DEF OneOutcomeInv
  <2>5. CASE ReceiveModeSwitch(r)
    <3>1. /\ Take(r) /\ net[r] # <<>> /\ Arriving(r).kind = "MODE_SWITCH"
          /\ mode' = [mode EXCEPT ![r] = "OPCODE_MODE"]
          /\ complete' = [complete EXCEPT ![r] = TRUE]
          /\ UNCHANGED cache
      BY <2>5 DEF ReceiveModeSwitch, Incoming, EnterOpcodeMode
    <3>2. /\ net'[i] = net[i]
          /\ ToSet(net[r]) = ToSet(net'[r]) \cup {Arriving(r)}
      BY <1>0, <1>1, <3>1, TakenLemma
    <3>3. /\ OnItsWay(r, "MODE_SWITCH")
          /\ OnItsWay(r, "SCHEMA_TRANSFER")' => OnItsWay(r, "SCHEMA_TRANSFER")
          /\ OnItsWay(i, "ACK")' <=> OnItsWay(i, "ACK")
          /\ OnItsWay(i, "NACK")' <=> OnItsWay(i, "NACK")
      BY <3>1, <3>2 DEF OnItsWay
    <3>4. /\ mode'[r] = "OPCODE_MODE" /\ mode'[i] = mode[i]
          /\ complete'[r] /\ complete'[i] = complete[i]
      BY <1>0, <1>1, <3>1
    <3>5. Accepted(i)' <=> Accepted(i)
      BY <2>0, <3>1 DEF Accepted
    <3>6. QED
      BY <1>0, <1>1, <2>0, <3>2, <3>3, <3>4, <3>5 DEF OneOutcomeInv, InOpcodeMode
  <2>6. QED
    BY <1>5, <2>1, <2>2, <2>3, <2>4, <2>5
    DEF HandleFrame, ReceiveAck, IgnoreAck, ReceiveNack, Incoming
<1>6. CASE UNCHANGED vars
  BY <1>1, <1>6 DEF vars, config, OneOutcomeInv, InOpcodeMode, OnItsWay, Accepted
<1>7. QED
  BY <1>0, <1>2, <1>3, <1>4, <1>5, <1>6 DEF Next

\* Once everything sent has arrived the two sessions are both in opcode mode or
\* both out of it, and each knows it of itself: one initiator, however often it
\* initiates, no resets, any schemas and configurations.
THEOREM BothEndAlike ==
  ASSUME NEW i \in Peers, Initiators = {i}, MaxResets = 0
  PROVE  Spec => []BothOrNeither
<1>1. Init => OneOutcomeInv(i)
  BY OneOutcomeInit
<1>2. OneOutcomeInv(i) /\ [Next]_vars => OneOutcomeInv(i)'
  BY OneOutcomeNext
<1>3. OneOutcomeInv(i) => BothOrNeither
  <2> SUFFICES ASSUME OneOutcomeInv(i), Quiet  PROVE
        /\ InOpcodeMode("client") <=> InOpcodeMode("server")
        /\ \A p \in Peers : complete[p] <=> InOpcodeMode(p)
    BY DEF BothOrNeither
  <2>1. ToSet(<<>>) = {}
    <3>1. DOMAIN <<>> = {}
      BY EmptySeq, LenProperties
    <3>2. QED  BY <3>1 DEF ToSet
  <2>2. /\ Other(i) \in Peers
        /\ \/ i = "client" /\ Other(i) = "server"
           \/ i = "server" /\ Other(i) = "client"
    BY DEF Peers, Other
  <2>3. ~OnItsWay(Other(i), "MODE_SWITCH")
    BY <2>1, <2>2 DEF OnItsWay, Quiet
  <2>4. QED  BY <2>2, <2>3 DEF OneOutcomeInv
<1>4. QED  BY <1>1, <1>2, <1>3, PTL DEF Spec
-----------------------------------------------------------------------------
(***************************************************************************)
(* The driver of the benchmark: one exchange, started by the client.  With *)
(* one frame on its way at a time after the offer, where the exchange is   *)
(* determines the frame, who gets it, and what has passed.                 *)
(***************************************************************************)
Refusals == IF schema["client"] = schema["server"] THEN 0 ELSE 1

Carried(toServer, toClient) == net["server"] = toServer /\ net["client"] = toClient

Passed(hello, fingerprint, nack, transfer, ack, switch) ==
  /\ breakdown["HELLO"] = hello /\ breakdown["SCHEMA_FINGERPRINT"] = fingerprint
  /\ breakdown["NACK"] = nack /\ breakdown["SCHEMA_TRANSFER"] = transfer
  /\ breakdown["ACK"] = ack /\ breakdown["MODE_SWITCH"] = switch

\* The server took the client's schema, at once or after its transfer.
Taken(ack, switch) ==
  /\ Passed(1, 1, Refusals, Refusals, ack, switch)
  /\ Refusals = 1 => allow["client"]

Offer == Frame("SCHEMA_FINGERPRINT", schema["client"])

Fresh ==
  /\ mode["client"] = "HANDSHAKE" /\ mode["server"] = "HANDSHAKE"
  /\ cache["server"] = {schema["server"]}

Unstarted   == Fresh /\ Carried(<<>>, <<>>) /\ Passed(0, 0, 0, 0, 0, 0)
               /\ initiations = 0 /\ turn = "server"
Greeted     == Fresh /\ Carried(<<Bare("HELLO"), Offer>>, <<>>) /\ Passed(0, 0, 0, 0, 0, 0)
Offered     == Fresh /\ Carried(<<Offer>>, <<>>) /\ Passed(1, 0, 0, 0, 0, 0)
Refused     == /\ Carried(<<>>, <<Bare("NACK")>>) /\ Passed(1, 1, 0, 0, 0, 0)
               /\ Refusals = 1 /\ mode["client"] = "HANDSHAKE"
               /\ remote["server"] = schema["client"]
Transferred == /\ Carried(<<Frame("SCHEMA_TRANSFER", schema["client"])>>, <<>>)
               /\ Passed(1, 1, 1, 0, 0, 0)
               /\ Refusals = 1 /\ allow["client"] /\ mode["client"] = "HANDSHAKE"
               /\ remote["server"] = schema["client"]
Agreed      == /\ Carried(<<>>, <<Bare("ACK")>>) /\ Taken(0, 0)
               /\ mode["client"] = "HANDSHAKE"
Switching   == /\ Carried(<<Bare("MODE_SWITCH")>>, <<>>) /\ Taken(1, 0)
               /\ InOpcodeMode("client")
Switched    == /\ Carried(<<>>, <<>>) /\ Taken(1, 1)
               /\ InOpcodeMode("client") /\ InOpcodeMode("server")
GivenUp     == /\ Carried(<<>>, <<>>) /\ Passed(1, 1, 1, 0, 0, 0)
               /\ Refusals = 1 /\ ~allow["client"] /\ ~InOpcodeMode("client")

TurnsInv ==
  /\ TypeOK
  /\ turn \in Peers /\ outbound = Len(net[turn])
  /\ breakdown \in [BareKinds \cup SchemaKinds -> Nat]
  /\ finished => Quiet /\ initiations > 0

DriverInv ==
  /\ TurnsInv
  /\ \/ Unstarted
     \/ /\ initiations > 0
        /\ \/ Greeted \/ Offered \/ Refused \/ Transferred \/ Agreed
           \/ Switching \/ Switched \/ GivenUp

\* A queue of one frame, given away and answered.
LEMMA OneFrame ==
  ASSUME TypeOK, NEW p \in Peers, NEW f, net[p] = <<f>>, net[Other(p)] = <<>>
  PROVE  /\ Arriving(p) = f
         /\ Take(p) => net'[p] = <<>> /\ net'[Other(p)] = <<>>
         /\ \A g : Answer(p, g) => net'[p] = <<>> /\ net'[Other(p)] = <<g>>
<1>1. net \in [Peers -> Seq(Frames)] /\ Other(p) \in Peers /\ Other(p) # p
  BY DEF TypeOK, Other, Peers
<1>2. Head(<<f>>) = f /\ Tail(<<f>>) = <<>>
  OBVIOUS
<1>3. \A g : Append(<<>>, g) = <<g>>
  OBVIOUS
<1>4. ASSUME NEW g, Answer(p, g)  PROVE net'[p] = <<>> /\ net'[Other(p)] = <<g>>
  <2>1. net' = [net EXCEPT ![p] = Tail(net[p]), ![Other(p)] = Append(net[Other(p)], g)]
    BY <1>1, <1>4 DEF Answer
  <2>2. net'[p] = Tail(net[p]) /\ net'[Other(p)] = Append(net[Other(p)], g)
    BY <1>1, <2>1
  <2>3. QED  BY <1>2, <1>3, <2>2
<1>5. QED  BY <1>1, <1>2, <1>4 DEF Arriving, Take

\* Nothing is given to a session whose queue is empty, nor a frame of another kind.
LEMMA GivenLemma ==
  ASSUME NEW p \in Peers, HandleFrame(p)
  PROVE  /\ net[p] # <<>>
         /\ UNCHANGED <<schema, strict, allow, initiations, resets>>
         /\ Arriving(p).kind = "HELLO" => ReceiveHello(p)
         /\ Arriving(p).kind = "SCHEMA_FINGERPRINT" =>
              ReceiveKnownFingerprint(p) \/ ReceiveUnknownFingerprint(p)
         /\ Arriving(p).kind = "SCHEMA_TRANSFER" => ReceiveTransfer(p) \/ RejectTransfer(p)
         /\ Arriving(p).kind = "ACK" => ReceiveAck(p) \/ IgnoreAck(p)
         /\ Arriving(p).kind = "NACK" => ReceiveNack(p)
         /\ Arriving(p).kind = "MODE_SWITCH" => ReceiveModeSwitch(p)
BY DEF HandleFrame, config, Incoming, ReceiveHello, ReceiveKnownFingerprint,
       ReceiveUnknownFingerprint, ReceiveTransfer, RejectTransfer, ReceiveAck, IgnoreAck,
       ReceiveNack, ReceiveModeSwitch

\* What is given leaves the queue whose turn it is, and nothing joins that queue.
LEMMA GivenOnce ==
  ASSUME TypeOK, NEW p \in Peers, HandleFrame(p)
  PROVE  Len(net'[p]) = Len(net[p]) - 1
<1>1. net \in [Peers -> Seq(Frames)] /\ Other(p) \in Peers /\ Other(p) # p /\ net[p] # <<>>
  BY GivenLemma DEF TypeOK, Other, Peers
<1>2. net'[p] = Tail(net[p])
  <2>1. Take(p) \/ \E g : Answer(p, g)
    BY DEF HandleFrame, ReceiveHello, ReceiveKnownFingerprint, ReceiveUnknownFingerprint,
           ReceiveTransfer, RejectTransfer, ReceiveAck, IgnoreAck, ReceiveNack,
           ReceiveModeSwitch
  <2>2. Take(p) => net'[p] = Tail(net[p])
    BY <1>1 DEF Take
  <2>3. ASSUME NEW g, Answer(p, g)  PROVE net'[p] = Tail(net[p])
    BY <1>1, <2>3 DEF Answer
  <2>4. QED  BY <2>1, <2>2, <2>3
<1>3. net[p] \in Seq(Frames)
  BY <1>1
<1>4. QED  BY <1>1, <1>2, <1>3, HeadTailProperties

\* The driver begins before the first stage, with nothing counted.
LEMMA DriverInvInit == DriverInit => DriverInv
<1> SUFFICES ASSUME DriverInit  PROVE DriverInv
  OBVIOUS
<1>1. TypeOK
  BY InitTypeOK DEF DriverInit
<1>2. TurnsInv
  BY <1>1, EmptySeq DEF DriverInit, Init, TurnsInv, Peers, BareKinds, SchemaKinds
<1>3. Unstarted
  BY DEF DriverInit, Init, Unstarted, Fresh, Carried, Passed, Peers, BareKinds, SchemaKinds
<1>4. QED  BY <1>2, <1>3 DEF DriverInv

\* Every turn is a step of the handshake or leaves it alone, and the driver keeps
\* its books: type, turn and the frames left of it.
LEMMA TurnsNext ==
  ASSUME "client" \in Initiators, DriverInv, DriverNext
  PROVE  [Next]_vars /\ TurnsInv'
<1> USE DEF DriverInv, TurnsInv
<1>1. CASE Start
  <2>1. [Next]_vars
    BY <1>1 DEF Start, Next
  <2>2. TypeOK'
    BY <2>1, NextTypeOK
  <2>3. Unstarted /\ ~finished
    BY <1>1 DEF Start
  <2>4. net' = [net EXCEPT !["server"] = @ \o <<Bare("HELLO"), Offer>>]
    BY <1>1 DEF Start, Initiate, Other, Offer
  <2>5. Len(<<>> \o <<Bare("HELLO"), Offer>>) = 2
    OBVIOUS
  <2>6. Len(net'["server"]) = 2
    BY <2>3, <2>4, <2>5 DEF Unstarted, Carried, TypeOK, Peers
  <2>7. QED  BY <1>1, <2>1, <2>2, <2>3, <2>6 DEF Start, Unstarted
<1>2. CASE Give
  <2>1. HandleFrame(turn) /\ UNCHANGED <<turn, finished>> /\ outbound' = outbound - 1
        /\ ~finished /\ Count(Arriving(turn).kind)
    BY <1>2 DEF Give
  <2>2. [Next]_vars
    BY <2>1 DEF Next
  <2>3. TypeOK'
    BY <2>2, NextTypeOK
  <2>4. Len(net'[turn]) = Len(net[turn]) - 1
    BY <2>1, GivenOnce
  <2>5. breakdown' \in [BareKinds \cup SchemaKinds -> Nat]
    <3> DEFINE k == Arriving(turn).kind
    <3>1. breakdown' = [breakdown EXCEPT ![k] = breakdown[k] + 1]
      BY <2>1 DEF Count
    <3>2. breakdown \in [BareKinds \cup SchemaKinds -> Nat]
      OBVIOUS
    <3> DEFINE kinds == BareKinds \cup SchemaKinds
    <3> HIDE DEF k, kinds, DriverInv, TurnsInv
    <3>3. CASE k \in kinds
      BY <3>1, <3>2, <3>3 DEF kinds
    <3>4. CASE k \notin kinds
      BY <3>1, <3>2, <3>4 DEF kinds
    <3>5. QED  BY <3>3, <3>4
  <2>6. QED  BY <2>1, <2>2, <2>3, <2>4, <2>5
<1>3. CASE NextTurn
  <2>1. /\ UNCHANGED vars /\ UNCHANGED breakdown /\ turn' = Other(turn)
        /\ outbound' = Len(net[turn']) /\ finished' = (outbound' = 0)
        /\ initiations > 0 /\ outbound = 0
    BY <1>3 DEF NextTurn
  <2>2. UNCHANGED <<net, initiations>> /\ TypeOK'
    BY <2>1 DEF vars, config, TypeOK
  <2>3. turn' \in Peers /\ \A p \in Peers : p = turn \/ p = turn'
    BY <2>1 DEF Other, Peers
  <2>4. outbound' = 0 => Quiet'
    <3>1. \A p \in Peers : net[p] \in Seq(Frames)
      BY DEF TypeOK
    <3>2. QED  BY <2>1, <2>2, <2>3, <3>1, EmptySeq DEF Quiet
  <2>5. QED  BY <2>1, <2>2, <2>3, <2>4
<1>4. QED  BY <1>1, <1>2, <1>3 DEF DriverNext

\* A frame that passes is counted, and no other kind is.
LEMMA CountLemma ==
  ASSUME breakdown \in [BareKinds \cup SchemaKinds -> Nat],
         NEW k \in BareKinds \cup SchemaKinds, Count(k)
  PROVE  /\ breakdown'[k] = breakdown[k] + 1
         /\ \A other \in BareKinds \cup SchemaKinds :
               other # k => breakdown'[other] = breakdown[other]
BY DEF Count

\* What each frame leads to: the stages follow each other.
LEMMA StageNext ==
  ASSUME DriverInv, initiations > 0, Give
  PROVE  /\ Greeted => Offered'
         /\ Offered => Refused' \/ Agreed'
         /\ Refused => Transferred' \/ GivenUp'
         /\ Transferred => Agreed'
         /\ Agreed => Switching'
         /\ Switching => Switched'
         /\ ~Switched /\ ~GivenUp
<1> USE DEF DriverInv, TurnsInv
<1>0. /\ HandleFrame(turn) /\ Count(Arriving(turn).kind) /\ net[turn] # <<>> /\ turn \in Peers
      /\ UNCHANGED <<schema, strict, allow, initiations>>
  BY GivenLemma DEF Give
<1>1. /\ "client" \in Peers /\ "server" \in Peers /\ "client" # "server"
      /\ Other("client") = "server" /\ Other("server") = "client"
      /\ turn = "client" \/ turn = "server"
  BY <1>0 DEF Peers, Other
<1>2. /\ Bare("HELLO").kind = "HELLO" /\ Bare("ACK").kind = "ACK" /\ Bare("NACK").kind = "NACK"
      /\ Bare("MODE_SWITCH").kind = "MODE_SWITCH" /\ Offer.kind = "SCHEMA_FINGERPRINT"
      /\ Frame("SCHEMA_TRANSFER", schema["client"]).kind = "SCHEMA_TRANSFER"
      /\ Frame("SCHEMA_TRANSFER", schema["client"]).schema = schema["client"]
      /\ Offer.schema = schema["client"] /\ Offer' = Offer /\ Refusals' = Refusals
  BY <1>0 DEF Bare, Frame, Offer, Refusals
<1>3. \A k \in BareKinds \cup SchemaKinds :
        Count(k) => /\ breakdown'[k] = breakdown[k] + 1
                    /\ \A other \in BareKinds \cup SchemaKinds :
                          other # k => breakdown'[other] = breakdown[other]
  BY CountLemma
<1>4. /\ {"HELLO", "SCHEMA_FINGERPRINT", "NACK", "SCHEMA_TRANSFER", "ACK", "MODE_SWITCH"}
           = BareKinds \cup SchemaKinds
  BY DEF BareKinds, SchemaKinds
<1>5. ASSUME Greeted  PROVE Offered'
  <2>0. Tail(<<Bare("HELLO"), Offer>>) = <<Offer>> /\ Head(<<Bare("HELLO"), Offer>>) = Bare("HELLO")
    OBVIOUS
  <2>1. turn = "server" /\ Arriving(turn) = Bare("HELLO") /\ Tail(net[turn]) = <<Offer>>
    BY <1>0, <1>1, <1>5, <2>0 DEF Greeted, Carried, Arriving
  <2>2. ReceiveHello("server")
    BY <1>0, <1>2, <2>1, GivenLemma
  <2>3. net'["server"] = <<Offer>> /\ net'["client"] = <<>> /\ UNCHANGED <<mode, cache>>
    BY <1>1, <1>5, <2>1, <2>2 DEF ReceiveHello, Take, Greeted, Carried, TypeOK
  <2>4. Passed(1, 0, 0, 0, 0, 0)'
    BY <1>0, <1>2, <1>3, <1>4, <1>5, <2>1 DEF Passed, Greeted
  <2>5. QED  BY <1>0, <1>2, <1>5, <2>3, <2>4 DEF Greeted, Offered, Fresh, Carried
<1>6. ASSUME Offered  PROVE Refused' \/ Agreed'
  <2>1. /\ turn = "server" /\ Arriving(turn) = Offer /\ net["server"] = <<Offer>>
        /\ net["client"] = <<>>
    BY <1>0, <1>1, <1>6, OneFrame DEF Offered, Carried
  <2>2. Passed(1, 1, 0, 0, 0, 0)'
    BY <1>0, <1>2, <1>3, <1>4, <1>6, <2>1 DEF Passed, Offered
  <2>3. CASE ReceiveKnownFingerprint("server")
    <3>1. Answer("server", Bare("ACK")) /\ UNCHANGED mode /\ schema["client"] = schema["server"]
      BY <1>2, <1>6, <2>1, <2>3 DEF ReceiveKnownFingerprint, Offered, Fresh
    <3>2. net'["server"] = <<>> /\ net'["client"] = <<Bare("ACK")>>
      BY <1>1, <2>1, <3>1, OneFrame
    <3>3. QED
      BY <1>0, <1>2, <1>6, <2>2, <3>1, <3>2
      DEF Agreed, Carried, Taken, Passed, Refusals, Offered, Fresh
  <2>4. CASE ReceiveUnknownFingerprint("server")
    <3>1. /\ Answer("server", Bare("NACK")) /\ schema["client"] # schema["server"]
          /\ remote'["server"] = schema["client"] /\ mode'["client"] = mode["client"]
      BY <1>1, <1>2, <1>6, <2>1, <2>4 DEF ReceiveUnknownFingerprint, Offered, Fresh, TypeOK
    <3>2. net'["server"] = <<>> /\ net'["client"] = <<Bare("NACK")>>
      BY <1>1, <2>1, <3>1, OneFrame
    <3>3. QED
      BY <1>0, <1>2, <1>6, <2>2, <3>1, <3>2
      DEF Refused, Carried, Passed, Refusals, Offered, Fresh
  <2>5. QED  BY <1>0, <1>2, <2>1, <2>3, <2>4, GivenLemma
<1>7. ASSUME Refused  PROVE Transferred' \/ GivenUp'
  <2>1. /\ turn = "client" /\ Arriving(turn) = Bare("NACK") /\ net["client"] = <<Bare("NACK")>>
        /\ net["server"] = <<>>
    BY <1>0, <1>1, <1>7, OneFrame DEF Refused, Carried
  <2>2. Passed(1, 1, 1, 0, 0, 0)'
    BY <1>0, <1>2, <1>3, <1>4, <1>7, <2>1 DEF Passed, Refused
  <2>3. ReceiveNack("client")
    BY <1>0, <1>2, <2>1, GivenLemma
  <2>4. CASE allow["client"]
    <3>1. /\ Answer("client", Frame("SCHEMA_TRANSFER", schema["client"]))
          /\ UNCHANGED <<mode, remote>>
      BY <2>3, <2>4 DEF ReceiveNack
    <3>2. /\ net'["server"] = <<Frame("SCHEMA_TRANSFER", schema["client"])>>
          /\ net'["client"] = <<>>
      BY <1>1, <2>1, <3>1, OneFrame
    <3>3. QED
      BY <1>0, <1>2, <1>7, <2>2, <2>4, <3>1, <3>2 DEF Transferred, Carried, Refused
  <2>5. CASE ~allow["client"]
    <3>1. Take("client") /\ mode'["client"] = "RAW"
      BY <1>1, <2>3, <2>5 DEF ReceiveNack, TypeOK
    <3>2. net'["server"] = <<>> /\ net'["client"] = <<>>
      BY <1>1, <2>1, <3>1, OneFrame
    <3>3. QED
      BY <1>0, <1>2, <1>7, <2>2, <2>5, <3>1, <3>2
      DEF GivenUp, Carried, Refused, InOpcodeMode
  <2>6. QED  BY <2>4, <2>5
<1>8. ASSUME Transferred  PROVE Agreed'
  <2> DEFINE transfer == Frame("SCHEMA_TRANSFER", schema["client"])
  <2>1. /\ turn = "server" /\ Arriving(turn) = transfer /\ net["server"] = <<transfer>>
        /\ net["client"] = <<>>
    BY <1>0, <1>1, <1>8, OneFrame DEF Transferred, Carried
  <2>2. Passed(1, 1, 1, 1, 0, 0)'
    BY <1>0, <1>2, <1>3, <1>4, <1>8, <2>1 DEF Passed, Transferred
  <2>3. ReceiveTransfer("server")
    BY <1>0, <1>2, <1>8, <2>1, GivenLemma DEF RejectTransfer, Transferred
  <2>4. net'["server"] = <<>> /\ net'["client"] = <<Bare("ACK")>> /\ UNCHANGED mode
    BY <1>1, <2>1, <2>3, OneFrame DEF ReceiveTransfer
  <2>5. QED
    BY <1>0, <1>2, <1>8, <2>2, <2>4 DEF Agreed, Carried, Taken, Passed, Transferred
<1>9. ASSUME Agreed  PROVE Switching'
  <2>1. /\ turn = "client" /\ Arriving(turn) = Bare("ACK") /\ net["client"] = <<Bare("ACK")>>
        /\ net["server"] = <<>>
    BY <1>0, <1>1, <1>9, OneFrame DEF Agreed, Carried
  <2>2. Taken(1, 0)'
    BY <1>0, <1>2, <1>3, <1>4, <1>9, <2>1 DEF Passed, Agreed, Taken
  <2>3. ReceiveAck("client")
    BY <1>0, <1>2, <1>9, <2>1, GivenLemma DEF IgnoreAck, Agreed
  <2>4. Answer("client", Bare("MODE_SWITCH")) /\ mode'["client"] = "OPCODE_MODE"
    BY <1>1, <2>3 DEF ReceiveAck, EnterOpcodeMode, TypeOK
  <2>5. net'["server"] = <<Bare("MODE_SWITCH")>> /\ net'["client"] = <<>>
    BY <1>1, <2>1, <2>4, OneFrame
  <2>6. QED  BY <2>2, <2>4, <2>5 DEF Switching, Carried, InOpcodeMode, Bare, Frame
<1>10. ASSUME Switching  PROVE Switched'
  <2>1. /\ turn = "server" /\ Arriving(turn) = Bare("MODE_SWITCH")
        /\ net["server"] = <<Bare("MODE_SWITCH")>> /\ net["client"] = <<>>
    BY <1>0, <1>1, <1>10, OneFrame DEF Switching, Carried
  <2>2. Taken(1, 1)'
    BY <1>0, <1>2, <1>3, <1>4, <1>10, <2>1 DEF Passed, Switching, Taken
  <2>3. ReceiveModeSwitch("server")
    BY <1>0, <1>2, <2>1, GivenLemma
  <2>4. /\ Take("server")
        /\ mode'["server"] = "OPCODE_MODE" /\ mode'["client"] = mode["client"]
    BY <1>1, <2>3 DEF ReceiveModeSwitch, EnterOpcodeMode, TypeOK
  <2>5. net'["server"] = <<>> /\ net'["client"] = <<>>
    BY <1>1, <2>1, <2>4, OneFrame
  <2>6. QED  BY <1>10, <2>2, <2>4, <2>5 DEF Switching, Switched, Carried, InOpcodeMode
<1>11. ~Switched /\ ~GivenUp
  BY <1>0, <1>1 DEF Switched, GivenUp, Carried
<1>12. QED  BY <1>5, <1>6, <1>7, <1>8, <1>9, <1>10, <1>11

\* Every step of the driver goes on to the next stage or changes the turn only.
LEMMA DriverInvNext ==
  ASSUME "client" \in Initiators, DriverInv, [DriverNext]_<<vars, driverVars>>
  PROVE  DriverInv'
<1>1. CASE Start
  <2>1. TurnsInv' /\ Unstarted
    BY <1>1, TurnsNext DEF DriverNext, DriverInv, Start
  <2>2. /\ net' = [net EXCEPT !["server"] = @ \o <<Bare("HELLO"), Offer>>]
        /\ UNCHANGED <<schema, mode, cache, breakdown>> /\ initiations' = initiations + 1
    BY <1>1 DEF Start, Initiate, Other, Offer, config
  <2>3. <<>> \o <<Bare("HELLO"), Offer>> = <<Bare("HELLO"), Offer>>
    OBVIOUS
  <2>4. net'["server"] = <<Bare("HELLO"), Offer>> /\ net'["client"] = <<>>
    BY <2>1, <2>2, <2>3 DEF Unstarted, Carried, DriverInv, TurnsInv, TypeOK, Peers
  <2>5. Greeted'
    BY <2>1, <2>2, <2>4
    DEF Greeted, Unstarted, Fresh, Carried, Passed, Offer, Bare, Frame
  <2>6. initiations' > 0
    BY <2>1, <2>2 DEF Unstarted
  <2>7. QED  BY <2>1, <2>5, <2>6 DEF DriverInv
<1>2. CASE Give
  <2>1. TurnsInv' /\ initiations' = initiations
    BY <1>2, TurnsNext, GivenLemma DEF DriverNext, DriverInv, TurnsInv, Give
  <2>2. initiations > 0
    BY <1>2 DEF Give, DriverInv, TurnsInv, Unstarted, Carried, Peers
  <2>3. QED  BY <1>2, <2>1, <2>2, StageNext DEF DriverInv, Unstarted
<1>3. CASE NextTurn \/ UNCHANGED <<vars, driverVars>>
  <2>1. UNCHANGED <<vars, breakdown>> /\ (turn' = turn \/ initiations > 0)
    BY <1>3 DEF NextTurn, driverVars
  <2>2. TurnsInv'
    <3>1. CASE NextTurn
      BY <3>1, TurnsNext DEF DriverNext
    <3>2. CASE UNCHANGED <<vars, driverVars>>
      BY <3>2 DEF DriverInv, TurnsInv, vars, driverVars, config, TypeOK, Quiet
    <3>3. QED  BY <1>3, <3>1, <3>2
  <2>3. UNCHANGED <<schema, allow, mode, remote, cache, net, initiations, breakdown>>
    BY <2>1 DEF vars, config
  <2>4. /\ Unstarted /\ initiations = 0 => Unstarted'
        /\ Greeted => Greeted'
        /\ Offered => Offered'
        /\ Refused => Refused'
        /\ Transferred => Transferred'
        /\ Agreed => Agreed'
        /\ Switching => Switching'
        /\ Switched => Switched'
        /\ GivenUp => GivenUp'
    BY <2>1, <2>3
    DEF Unstarted, Greeted, Offered, Refused, Transferred, Agreed, Switching, Switched,
        GivenUp, Fresh, Carried, Passed, Taken, Refusals, Offer, InOpcodeMode, Bare, Frame
  <2>5. Unstarted => initiations = 0
    BY DEF Unstarted
  <2>6. QED  BY <2>2, <2>3, <2>4, <2>5 DEF DriverInv
<1>4. QED  BY <1>1, <1>2, <1>3 DEF DriverNext

\* The cost the benchmark reports of a handshake is that of one offer, its answer
\* and what the answer leads to, for every pair of sessions.
THEOREM CostsAddUp ==
  ASSUME "client" \in Initiators
  PROVE  DriverSpec => []Accounted
<1>1. DriverInv /\ [DriverNext]_<<vars, driverVars>> => DriverInv'
  BY DriverInvNext
<1>2. DriverInv => Accounted
  <2> SUFFICES ASSUME DriverInv, finished  PROVE Accounted
    BY DEF Accounted
  <2>1. /\ Quiet /\ initiations > 0 /\ "client" \in Peers /\ "server" \in Peers
        /\ \A p \in Peers : p = "client" \/ p = "server"
    BY DEF DriverInv, TurnsInv, Peers
  <2>2. Carried(<<>>, <<>>)
    BY <2>1 DEF Quiet, Carried
  <2>3. \A f : <<f>> # <<>>
    OBVIOUS
  <2>4. <<Bare("HELLO"), Offer>> # <<>>
    OBVIOUS
  <2>5. /\ ~Unstarted /\ ~Greeted /\ ~Offered /\ ~Refused /\ ~Transferred /\ ~Agreed
        /\ ~Switching
    BY <2>1, <2>2, <2>3, <2>4
    DEF Unstarted, Greeted, Offered, Refused, Transferred, Agreed, Switching, Carried
  <2>6. Switched \/ GivenUp
    BY <2>5 DEF DriverInv
  <2>7. QED
    BY <2>1, <2>6 DEF Accounted, Switched, GivenUp, Passed, Taken, Refusals, InOpcodeMode
<1>3. QED  BY <1>1, <1>2, DriverInvInit, PTL DEF DriverSpec
=============================================================================
