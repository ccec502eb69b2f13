----------------------------- MODULE LegacyChunks ---------------------------
(***************************************************************************)
(* logorrhythm/legacy/chunking.py: payloads are cut into numbered frames,  *)
(* which arrive lost, repeated and in any order, and are put together      *)
(* again.  The transfer id is a hash of the payload: here the payload.     *)
(***************************************************************************)
EXTENDS Integers, Sequences, SequencesExt, FiniteSetsExt

CONSTANTS Payloads, ChunkSizes,
          MaxArrived  \* bound: frames that arrive

ASSUME ChunkAssumption == Payloads \subseteq Seq(0..255) /\ ChunkSizes \subseteq Nat \ {0}

Total(payload, size) == (Len(payload) + size - 1) \div size

Chunks(payload, size) ==
  IF payload = <<>> THEN {[id |-> payload, seq |-> 0, total |-> 1, data |-> <<>>]}
  ELSE {[id |-> payload, seq |-> i, total |-> Total(payload, size),
         data |-> SubSeq(payload, i * size + 1, Min({(i + 1) * size, Len(payload)}))]
          : i \in 0..Total(payload, size) - 1}

VARIABLES transfers,  \* the transfers made, [payload, size]
          arrived,    \* the frames that arrived
          result      \* of the last reassembly: [ok, data], <<>> before it

chunkVars == <<transfers, arrived, result>>

ChunkInit == transfers = {} /\ arrived = <<>> /\ result = <<>>

ChunkPayload(payload, size) ==
  /\ transfers' = transfers \cup {[payload |-> payload, size |-> size]}
  /\ UNCHANGED <<arrived, result>>

FrameArrives ==
  /\ Len(arrived) < MaxArrived /\ result = <<>>
  /\ \E t \in transfers : \E f \in Chunks(t.payload, t.size) : arrived' = Append(arrived, f)
  /\ UNCHANGED <<transfers, result>>

\* Mutant: the transfer ids are not compared.
AcceptsMixed(fs) ==
  /\ \A i \in DOMAIN fs : fs[i].total = fs[1].total
  /\ \A i, j \in DOMAIN fs : fs[i].seq = fs[j].seq => i = j
  /\ Len(fs) = fs[1].total

Accepts(fs) ==
  /\ \A i \in DOMAIN fs : fs[i].id = fs[1].id /\ fs[i].total = fs[1].total
  /\ \A i, j \in DOMAIN fs : fs[i].seq = fs[j].seq => i = j
  /\ Len(fs) = fs[1].total

ReassembleChunks(fs) ==
  IF fs = <<>> THEN [ok |-> TRUE, data |-> <<>>]
  ELSE IF Accepts(fs)
  THEN [ok |-> TRUE, data |-> FlattenSeq([i \in 1..fs[1].total |->
                                (CHOOSE f \in ToSet(fs) : f.seq = i - 1).data])]
  ELSE [ok |-> FALSE, data |-> <<>>]

Reassemble ==
  /\ result = <<>> /\ result' = ReassembleChunks(arrived)
  /\ UNCHANGED <<transfers, arrived>>

ChunkNext ==
  \/ FrameArrives
  \/ Reassemble
  \/ \E p \in Payloads, s \in ChunkSizes : ChunkPayload(p, s)

ChunkSpec == ChunkInit /\ [][ChunkNext]_chunkVars
-----------------------------------------------------------------------------
\* A chunk does not say its size: frames of a payload that is sent again with
\* another size are told apart by their number only.
OneSize == \A s, t \in ChunkSizes : s = t

\* legacy/ROADMAP.md:22, "deterministic reassembly": what is put together is a
\* payload that was sent, and the frames of one transfer, each of them once, are
\* put together in every order they come in.
Reassembled ==
  result # <<>> =>
    /\ result.ok /\ arrived # <<>> => \E t \in transfers : t.payload = result.data
    /\ \A t \in transfers : /\ ToSet(arrived) = Chunks(t.payload, t.size)
                            /\ Len(arrived) = Cardinality(Chunks(t.payload, t.size))
                         => result = [ok |-> TRUE, data |-> t.payload]
=============================================================================
