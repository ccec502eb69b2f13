---------------------------- MODULE LegacyEnvelope --------------------------
(***************************************************************************)
(* The envelopes of logorrhythm/legacy (encoding.py, api.py, bus.py): an   *)
(* agent encodes a task for another, the bus keeps it in a mailbox, where  *)
(* it may be put again or damaged, and the recipient decodes what it finds *)
(* there, with a security configuration of its own.  All recipients of a   *)
(* process share one store of nonces.                                      *)
(*                                                                         *)
(* Of a text only its size is kept, and for a task which one it is.  CRC32 *)
(* and HMAC are ideal: the value of what they are taken of.                *)
(***************************************************************************)
EXTENDS Integers, Sequences, SequencesExt, FiniteSets

CONSTANTS Agents,
          NameSize,    \* the bytes of an agent's id; 0 for a name the id pattern refuses
          Requests,    \* what is asked of encode: see Encode
          Securities,  \* the configurations decode is called with: [on, secret]
          MaxMessage,  \* MAX_MESSAGE_BYTES
          NonceLimit,  \* 2^64: a nonce is packed into eight bytes
          MaxMade, MaxPosts, MaxDamage  \* bounds: messages encoded, put in a mailbox, damaged

NoSecret == "none"
NoNonce  == -1
MaxText  == 255
MaxTask  == 65535
MinUuid  == 32   \* bytes of a UUID without dashes, braces or urn:uuid:
MacSize  == 64

ASSUME EnvelopeAssumption ==
  /\ NameSize \in [Agents -> Nat] /\ MaxMessage \in Nat
  /\ \A r \in Requests : /\ r.src \in Agents /\ r.dst \in Agents /\ r.text \in BOOLEAN
                         /\ r.instruction \in Nat /\ r.task \in Nat /\ r.cid \in Nat
  /\ \A s \in Securities : s.on \in BOOLEAN

VARIABLES made,      \* how many messages were encoded
          posts, damaged,
          mail,      \* AgentBus._mailboxes
          batch,     \* what a recipient took and has not decoded yet
          seen,      \* _DEFAULT_NONCE_STORE
          originals, \* history: the payloads that were encoded
          returned,  \* history: the payloads decode returned, [payload, on]
          last       \* history: the last call of decode, [how, packet, on, secret]

envelopeVars == <<made, posts, damaged, mail, batch, seen, originals, returned, last>>

EnvelopeInit ==
  /\ made = 0 /\ posts = 0 /\ damaged = 0
  /\ mail = [a \in Agents |-> <<>>] /\ batch = [a \in Agents |-> <<>>]
  /\ seen = {} /\ originals = {} /\ returned = <<>> /\ last = [how |-> "none"]
-----------------------------------------------------------------------------
(***************************************************************************)
(* encode_agent_payload_v2 (version 2) or encode_compact_payload, and then *)
(* encode_message, whoever calls them: api.encode leaves the nonce to be   *)
(* drawn.  All that raise, raise before anything is sent.                  *)
(***************************************************************************)
PayloadSize(p) ==
  IF p.version = 1 THEN 3 + p.task
  ELSE (1 + NameSize[p.src]) + (1 + NameSize[p.dst]) + (1 + p.instruction) + (1 + p.cid)
       + 8 + (2 + p.task) + 1 + (IF p.mac = <<>> THEN 0 ELSE MacSize)

HeaderSize(text) == IF text THEN 11 ELSE 10

Size(packet) == HeaderSize(packet.text) + PayloadSize(packet.payload) - packet.cut

Core(p) == [p EXCEPT !.mac = <<>>]

Payload(r) ==
  LET core == [version |-> r.version, src |-> r.src, dst |-> r.dst, instruction |-> r.instruction,
               cid |-> r.cid, task |-> r.task, text |-> made,
               nonce |-> IF r.nonce = NoNonce THEN made + 1 ELSE r.nonce, mac |-> <<>>]
  IN  IF r.on THEN [core EXCEPT !.mac = <<core, r.secret>>] ELSE core

Pack(r) == [payload |-> Payload(r), text |-> r.text, cut |-> 0,
            length |-> PayloadSize(Payload(r)), crc |-> Payload(r)]

Encodable(r) ==
  /\ r.version = 2 =>
       /\ NameSize[r.src] \in 1..MaxText /\ NameSize[r.dst] \in 1..MaxText
       /\ r.instruction \in 1..MaxText /\ r.cid \in MinUuid..MaxText
       /\ r.nonce \in 0..NonceLimit - 1 \/ r.nonce = NoNonce
       /\ r.task <= MaxTask
       /\ r.on => r.secret # NoSecret
  /\ PayloadSize(Payload(r)) <= MaxTask
  /\ Size(Pack(r)) <= MaxMessage

Encode(r) ==
  /\ made < MaxMade /\ posts < MaxPosts /\ Encodable(r)
  /\ made' = made + 1 /\ posts' = posts + 1
  /\ mail' = [mail EXCEPT ![r.dst] = Append(@, Pack(r))]
  /\ originals' = originals \cup {Payload(r)}
  /\ UNCHANGED <<damaged, batch, seen, returned, last>>
-----------------------------------------------------------------------------
(***************************************************************************)
(* AgentBus, and what may happen to a message.                             *)
(***************************************************************************)
Resend(a) ==
  /\ posts < MaxPosts
  /\ \E packet \in ToSet(mail[a]) \cup ToSet(batch[a]) : mail' = [mail EXCEPT ![a] = Append(@, packet)]
  /\ posts' = posts + 1
  /\ UNCHANGED <<made, damaged, batch, seen, originals, returned, last>>

\* Another text of the same length, or bytes missing at the end.
Damage(a) ==
  /\ damaged < MaxDamage
  /\ \E i \in DOMAIN mail[a] :
       mail' \in {[mail EXCEPT ![a][i].payload.text = -1], [mail EXCEPT ![a][i].cut = 1]}
  /\ damaged' = damaged + 1
  /\ UNCHANGED <<made, posts, batch, seen, originals, returned, last>>

Receive(a) ==
  /\ mail[a] # <<>>
  /\ batch' = [batch EXCEPT ![a] = @ \o mail[a]]
  /\ mail' = [mail EXCEPT ![a] = <<>>]
  /\ UNCHANGED <<made, posts, damaged, seen, originals, returned, last>>
-----------------------------------------------------------------------------
(***************************************************************************)
(* api.decode: decode_message, whose envelope is decoded a second time     *)
(* with an empty store.                                                    *)
(***************************************************************************)
Chars(size) == (4 * size + 2) \div 3

\* Mutant: the checksum is not compared.
IntactNoCrc(packet) ==
  /\ packet.text => Chars(Size(packet)) <= Chars(MaxMessage)
  /\ Size(packet) <= MaxMessage
  /\ PayloadSize(packet.payload) - packet.cut = packet.length

Intact(packet) ==
  /\ packet.text => Chars(Size(packet)) <= Chars(MaxMessage)
  /\ Size(packet) <= MaxMessage
  /\ PayloadSize(packet.payload) - packet.cut = packet.length
  /\ packet.crc = packet.payload

Signed(p, s) == p.mac # <<>> /\ p.mac = <<Core(p), s.secret>>

Checked(p, s) == p.version = 2 /\ s.on

\* Mutant: the nonce is noted before the signature is verified.
MarksAny(packet, s) == Intact(packet) /\ Checked(packet.payload, s)

\* Mutant: the nonces of the process are forgotten, as those of the second decode.
MarksNone(packet, s) == FALSE

\* check_and_mark: it is called last of all, for what nothing else is wrong with.
Marks(packet, s) ==
  Intact(packet) /\ Checked(packet.payload, s) /\ Signed(packet.payload, s)

Nonce(p) == <<p.src, p.nonce>>

Outcome(packet, s) ==
  IF ~Intact(packet) \/ (Checked(packet.payload, s) /\ ~Signed(packet.payload, s)) THEN "refused"
  ELSE IF Checked(packet.payload, s) /\ Nonce(packet.payload) \in seen THEN "replayed"
  ELSE "returned"

Decode(a, s) ==
  /\ batch[a] # <<>>
  /\ LET packet == Head(batch[a])
         how    == Outcome(packet, s)
     IN  /\ last' = [how |-> how, packet |-> packet, on |-> s.on, secret |-> s.secret]
         /\ seen' = IF Marks(packet, s) THEN seen \cup {Nonce(packet.payload)} ELSE seen
         /\ returned' = IF how # "returned" THEN returned
                        ELSE Append(returned, [payload |-> packet.payload, on |-> s.on])
         \* a caller may try what was refused again, with another configuration
         /\ batch' \in {[batch EXCEPT ![a] = Tail(@)],
                        IF how = "refused" THEN batch ELSE [batch EXCEPT ![a] = Tail(@)]}
  /\ UNCHANGED <<made, posts, damaged, mail, originals>>

EnvelopeNext ==
  \/ \E r \in Requests : Encode(r)
  \/ \E a \in Agents : Resend(a) \/ Damage(a) \/ Receive(a) \/ \E s \in Securities : Decode(a, s)

EnvelopeSpec == EnvelopeInit /\ [][EnvelopeNext]_envelopeVars
-----------------------------------------------------------------------------
\* What decode returns is what was encoded, whatever became of it on the way.
AsSent == \A i \in DOMAIN returned : returned[i].payload \in originals

\* legacy/SPEC.md:63, "verifies signature and nonce replay": with security on a
\* message is returned once, however often it is sent and decoded.
OnceOnly ==
  \A i, j \in DOMAIN returned :
    /\ Checked(returned[i].payload, returned[i]) /\ Checked(returned[j].payload, returned[j])
    /\ Nonce(returned[i].payload) = Nonce(returned[j].payload)
    => i = j

\* What encode accepts decode accepts, up to the last byte the limits leave, unless
\* it was damaged, its key is another one, or its nonce was returned before: a
\* copy that was refused does not use the nonce up.
RefusedForCause ==
  /\ last.how = "refused" =>
       \/ last.packet.payload \notin originals \/ last.packet.cut > 0
       \/ Checked(last.packet.payload, last) /\ ~Signed(last.packet.payload, last)
  /\ last.how = "replayed" =>
       \E i \in DOMAIN returned :
         returned[i].on /\ Nonce(returned[i].payload) = Nonce(last.packet.payload)
=============================================================================
