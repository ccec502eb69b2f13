----------------------------- MODULE LegacyStream ---------------------------
(***************************************************************************)
(* logorrhythm/legacy/streaming.py: encode_stream cuts the bytes of a text *)
(* into chunks, iter_stream_text decodes each chunk as it comes.  A text   *)
(* is a sequence of characters, a character the number of its UTF-8 bytes; *)
(* a byte is its character's place in the text and its own in that.        *)
(***************************************************************************)
EXTENDS Integers, Sequences, SequencesExt, FiniteSetsExt

CONSTANTS Widths,     \* the widths of characters that occur
          MaxLength,  \* bound: characters in a text
          StreamSizes

ASSUME StreamAssumption == Widths \subseteq Nat \ {0} /\ StreamSizes \subseteq Nat \ {0}

VARIABLES text, size,  \* the text, and the chunk size, 0 before it is sent
          chunks,      \* the frames that were not read yet
          shown,       \* the characters that were yielded
          streaming    \* "open", "ended" or "raised"

streamVars == <<text, size, chunks, shown, streaming>>

Letters(t) == [i \in DOMAIN t |-> [k \in 1..t[i] |-> <<i, k>>]]
Utf8(t)    == FlattenSeq(Letters(t))

\* Mutant: the last chunk is left out unless it is full.
CutFull(bytes, n) ==
  [j \in 1..Len(bytes) \div n |-> SubSeq(bytes, (j - 1) * n + 1, j * n)]

Cut(bytes, n) ==
  [j \in 1..(Len(bytes) + n - 1) \div n |->
     SubSeq(bytes, (j - 1) * n + 1, Min({j * n, Len(bytes)}))]

StreamFrames(bytes, n) ==
  <<[op |-> "START", data |-> <<>>]>>
    \o [j \in DOMAIN Cut(bytes, n) |-> [op |-> "CHUNK", data |-> Cut(bytes, n)[j]]]
    \o <<[op |-> "END", data |-> <<>>]>>

StreamInit ==
  /\ text \in UNION {[1..n -> Widths] : n \in 0..MaxLength}
  /\ size = 0 /\ chunks = <<>> /\ shown = <<>> /\ streaming = "open"

EncodeStream ==
  /\ size = 0 /\ size' \in StreamSizes
  /\ chunks' = StreamFrames(Utf8(text), size')
  /\ UNCHANGED <<text, shown, streaming>>

\* A chunk is text if it begins with the first byte of a character and ends with
\* the last one of its last.
IsText(data) == data[1][2] = 1 /\ data[Len(data)][2] = text[data[Len(data)][1]]

DecodeText(data) ==
  [i \in 1..Cardinality({b[1] : b \in ToSet(data)}) |-> text[data[1][1] + i - 1]]

Iterate ==
  /\ streaming = "open" /\ chunks # <<>>
  /\ chunks' = Tail(chunks)
  /\ LET frame == Head(chunks)
     IN  IF frame.op # "CHUNK" THEN UNCHANGED <<shown, streaming>>
         ELSE IF IsText(frame.data)
         THEN shown' = shown \o DecodeText(frame.data) /\ UNCHANGED streaming
         ELSE streaming' = "raised" /\ UNCHANGED shown
  /\ UNCHANGED <<text, size>>

EndOfFrames ==
  /\ size # 0 /\ streaming = "open" /\ chunks = <<>> /\ streaming' = "ended"
  /\ UNCHANGED <<text, size, chunks, shown>>

StreamNext == EncodeStream \/ Iterate \/ EndOfFrames

StreamSpec == StreamInit /\ [][StreamNext]_streamVars
-----------------------------------------------------------------------------
\* What was shown is the beginning of the text, and at the end all of it.
ShowsText == IsPrefix(shown, text) /\ (streaming = "ended" => shown = text)
=============================================================================
