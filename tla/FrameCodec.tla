------------------------------ MODULE FrameCodec ----------------------------
(***************************************************************************)
(* logorrhythm/core/frame.py, and the loop of Session.receive: a batch of  *)
(* frames, each of them a list of signed ints, goes to a reader, whole or  *)
(* with its end missing.  A byte is a number below 2 * Base, and Base      *)
(* is its continuation bit: Base is 128, MaxGroups 10, Half 2^63 in the    *)
(* code.                                                                   *)
(***************************************************************************)
EXTENDS Integers, Sequences, FiniteSetsExt, SequencesExt

CONSTANTS Base, MaxGroups, Half,
          FrameTypes,  \* the bytes that name a kind of frame
          Bodies,      \* the lists of ints that are sent
          MaxFrames,   \* bound: frames in a batch
          MaxLost      \* bound: bytes missing at its end

\* encode_uvarint, seven bits at a time, the lowest first.
EncodeUvarint[n \in Nat] ==
  IF n < Base THEN <<n>> ELSE <<(n % Base) + Base>> \o EncodeUvarint[n \div Base]

Failed == [ok |-> FALSE, value |-> 0, next |-> 0]

\* Loop[j] is the value after byte j, and the weight of the group that follows.
ReadGroups(data, i, most) ==
  LET ends == {j \in i..Min({Len(data), i + most - 1}) : data[j] < Base}
      last == Min(ends)
      Loop[j \in i - 1..last] ==
        IF j = i - 1 THEN [value |-> 0, weight |-> 1]
        ELSE [value  |-> Loop[j - 1].value + (data[j] % Base) * Loop[j - 1].weight,
              weight |-> Loop[j - 1].weight * Base]
  IN  IF ends = {} THEN Failed
      ELSE [ok |-> TRUE, value |-> Loop[last].value, next |-> last + 1]

\* Mutant: one group too few is accepted.
DecodeUvarintShort(data, i) == ReadGroups(data, i, MaxGroups - 1)

\* decode_uvarint: it fails when the bytes end, or after MaxGroups that go on.
DecodeUvarint(data, i) == ReadGroups(data, i, MaxGroups)

\* (v << 1) ^ (v >> 63) of a Python int, for -2 * Half <= v < 2 * Half: there the
\* shifted v is 0 or 1, or -1 or -2, whose xor is the complement of that with 0 or 1.
ZigzagEncode(v) ==
  LET high == v \div Half
  IN  IF high >= 0 THEN 2 * v + high ELSE -(2 * v + (-1 - high)) - 1

ZigzagDecode(z) == IF z % 2 = 0 THEN z \div 2 ELSE -(z \div 2) - 1

EncodeInts(ints) == FlattenSeq([i \in DOMAIN ints |-> EncodeUvarint[ZigzagEncode(ints[i])]])

MakeFrame(m) ==
  <<m.type>> \o EncodeUvarint[Len(EncodeInts(m.ints))] \o EncodeInts(m.ints)

\* What the reader has room for: ints of 63 bits and a sign, lengths of ten groups.
ASSUME FrameAssumption ==
  /\ Base \in Nat /\ Base > 1 /\ MaxGroups \in Nat /\ Half \in Nat \ {0}
  /\ FrameTypes \subseteq 0..2 * Base - 1
  /\ \A b \in Bodies :
       /\ b \in Seq(-Half..Half - 1)
       /\ Len(EncodeUvarint[Len(EncodeInts(b))]) <= MaxGroups
       /\ \A i \in DOMAIN b : Len(EncodeUvarint[ZigzagEncode(b[i])]) <= MaxGroups
  /\ MaxFrames \in Nat /\ MaxLost \in Nat
-----------------------------------------------------------------------------
VARIABLES messages, \* the messages of the batch, [type, ints]
          bytes,    \* in_bytes
          lost,     \* how many bytes of its end are missing
          cursor,   \* the byte read next
          end,      \* the end of the payload being read, 0 between frames
          got,      \* the messages read, the last of them perhaps in part
          receiving \* "build", "read", "returned" or "raised"

frameVars == <<messages, bytes, lost, cursor, end, got, receiving>>

FrameInit ==
  /\ messages = <<>> /\ bytes = <<>> /\ lost = 0
  /\ cursor = 1 /\ end = 0 /\ got = <<>> /\ receiving = "build"

SendFrame(m) ==
  /\ receiving = "build" /\ Len(messages) < MaxFrames
  /\ messages' = Append(messages, m)
  /\ bytes' = bytes \o MakeFrame(m)
  /\ UNCHANGED <<lost, cursor, end, got, receiving>>

ArriveBatch(k) ==
  /\ receiving = "build" /\ k <= Len(bytes)
  /\ lost' = k
  /\ bytes' = SubSeq(bytes, 1, Len(bytes) - k)
  /\ receiving' = "read"
  /\ UNCHANGED <<messages, cursor, end, got>>

Header == DecodeUvarint(bytes, cursor + 1)
PayloadEnd == Header.next - 1 + Header.value

\* The loop of receive: a frame that is all there is taken, or receive raises.
ReadFrame ==
  /\ receiving = "read" /\ end = 0 /\ cursor <= Len(bytes)
  /\ Header.ok /\ PayloadEnd <= Len(bytes)
  /\ got' = Append(got, [type |-> bytes[cursor], ints |-> <<>>])
  /\ cursor' = Header.next
  /\ end' = PayloadEnd
  /\ UNCHANGED <<messages, bytes, lost, receiving>>

Item == DecodeUvarint(SubSeq(bytes, 1, end), cursor)

\* decode_svarint at a position of the payload.
ReadInt ==
  /\ receiving = "read" /\ end # 0 /\ cursor <= end
  /\ Item.ok
  /\ got' = [got EXCEPT ![Len(got)].ints = Append(@, ZigzagDecode(Item.value))]
  /\ cursor' = Item.next
  /\ UNCHANGED <<messages, bytes, lost, end, receiving>>

EndFrame ==
  /\ receiving = "read" /\ end # 0 /\ cursor > end
  /\ end' = 0
  /\ UNCHANGED <<messages, bytes, lost, cursor, got, receiving>>

Raise ==
  /\ receiving = "read"
  /\ \/ end = 0 /\ cursor <= Len(bytes) /\ ~(Header.ok /\ PayloadEnd <= Len(bytes))
     \/ end # 0 /\ cursor <= end /\ ~Item.ok
  /\ receiving' = "raised"
  /\ UNCHANGED <<messages, bytes, lost, cursor, end, got>>

\* Mutant: receive stops where less than a header is left.
ReturnEarly ==
  /\ receiving = "read" /\ end = 0 /\ cursor + 1 >= Len(bytes)
  /\ receiving' = "returned"
  /\ UNCHANGED <<messages, bytes, lost, cursor, end, got>>

Return ==
  /\ receiving = "read" /\ end = 0 /\ cursor > Len(bytes)
  /\ receiving' = "returned"
  /\ UNCHANGED <<messages, bytes, lost, cursor, end, got>>

FrameNext ==
  \/ \E t \in FrameTypes, b \in Bodies : SendFrame([type |-> t, ints |-> b])
  \/ \E k \in 0..MaxLost : ArriveBatch(k)
  \/ ReadFrame \/ ReadInt \/ EndFrame \/ Raise \/ Return

FrameSpec == FrameInit /\ [][FrameNext]_frameVars
-----------------------------------------------------------------------------
\* tests/test_core_protocol.py:120, a round trip with a large signed int: what was
\* sent whole is read back whole, message by message and int by int.
IntsSurvive ==
  lost = 0 => receiving # "raised" /\ (receiving = "returned" => got = messages)

\* However many bytes are missing, every frame that was read is the one that was
\* sent in that place, and receive returns only if the rest is missing entirely:
\* the length of a frame is never taken for its contents, or the reverse.
PrefixRead ==
  /\ \A i \in 1..Len(got) :
       /\ i <= Len(messages) /\ got[i].type = messages[i].type
       /\ IsPrefix(got[i].ints, messages[i].ints)
       /\ i < Len(got) \/ receiving = "returned" => got[i] = messages[i]
  /\ receiving = "returned" => bytes = FlattenSeq([i \in 1..Len(got) |-> MakeFrame(got[i])])
=============================================================================
