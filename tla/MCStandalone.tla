----------------------------- MODULE MCStandalone ---------------------------
(***************************************************************************)
(* The components that have no neighbour, side by side: FrameCodec,        *)
(* SchemaIds, HandshakeDriver and the former protocol.  Init chooses the   *)
(* one that runs, the others stay where they start.                        *)
(***************************************************************************)
EXTENDS HandshakeDriver, FrameCodec, SchemaIds, LegacyEnvelope, LegacyFleet, LegacyAlias,
        LegacyChunks, LegacyStream, LegacyRecords

MCNames == 1..4

\* Tasks of the sizes at which messages with and without a signature, as text and
\* as bytes, just fit and do not; a given nonce and drawn ones; two ways to write a
\* correlation id.
Request(version, asText, cid, task, nonce, on) ==
  [version |-> version, text |-> asText, src |-> "a1", dst |-> "a2", instruction |-> 7,
   cid |-> cid, task |-> task, nonce |-> nonce, on |-> on, secret |-> "key"]

MCNameSize == [a \in {"a1", "a2"} |-> 8]

MCRequests ==
  {Request(2, TRUE, 36, t, -1, on) : t \in {3947, 3948, 4011, 4012}, on \in BOOLEAN}
    \cup {Request(2, t, c, 1, 0, TRUE) : t \in BOOLEAN, c \in {32, 36}}
    \cup {Request(1, TRUE, 0, t, -1, FALSE) : t \in {0, 4082, 4083}}

MCSecurities == {[on |-> TRUE, secret |-> "key"], [on |-> TRUE, secret |-> "other"],
                 [on |-> FALSE, secret |-> "none"]}

\* Bytes of two bits and a continuation bit, at most three to a number, ints of
\* five bits.  The bodies reach each group count, both ends of the range, and a
\* payload whose length takes two bytes.
MCBodies == {<<>>, <<0, -1>>, <<15, -16, 7>>} \cup {<<v>> : v \in {1, 2, 8, -8, 15, -16}}

\* A codec that reads what it wrote itself, with two aliases for three messages.
MCLinks == {<<"a", "a">>}

\* Payloads that are empty, fill their last chunk or not, and begin or end alike.
MCPayloads == {<<>>, <<1, 2>>, <<1, 2, 3>>, <<1, 2, 3, 4>>, <<1, 2, 2, 1>>, <<3, 3, 1, 2>>}

\* A state of a checkpoint may hold the separator, the other texts do not.
MCLabels == {<<"a">>, <<"b">>}
MCTasks  == {<<"t1">>, <<"t2">>}
MCOwners == {<<"o1">>, <<"o2">>}
MCStates == {<<>>, <<"s", "|", "s">>}
MCSteps  == {<<"1">>}

ASSUME ChunksOfOneSize == OneSize
ASSUME TextsWithoutSeparators == WithoutSeparators
-----------------------------------------------------------------------------
VARIABLE part   \* the one that runs

StandaloneInit ==
  /\ part \in {"frames", "ids", "driver", "envelope", "alias", "chunks", "stream", "fleet", "records"}
  /\ FrameInit /\ EnvelopeInit /\ AliasInit /\ ChunkInit /\ FleetInit /\ RecordInit
  /\ IdsInit /\ (part # "ids" => raw = <<>>)
  /\ StreamInit /\ (part # "stream" => text = <<>>)
  /\ DriverInit
  /\ part # "driver" => \A p \in Peers : schema[p] = "s1" /\ ~strict[p] /\ ~allow[p]

StandaloneNext ==
  /\ UNCHANGED part
  /\ IF part = "frames"   THEN FrameNext  ELSE UNCHANGED frameVars
  /\ IF part = "ids"      THEN IdsNext       ELSE UNCHANGED idVars
  /\ IF part = "driver"   THEN DriverNext    ELSE UNCHANGED <<vars, driverVars>>
  /\ IF part = "envelope" THEN EnvelopeNext  ELSE UNCHANGED envelopeVars
  /\ IF part = "alias"    THEN AliasNext     ELSE UNCHANGED aliasVars
  /\ IF part = "chunks"   THEN ChunkNext     ELSE UNCHANGED chunkVars
  /\ IF part = "stream"   THEN StreamNext    ELSE UNCHANGED streamVars
  /\ IF part = "fleet"    THEN FleetNext     ELSE UNCHANGED fleetVars
  /\ IF part = "records"  THEN RecordNext    ELSE UNCHANGED recordVars

standaloneVars == <<part, frameVars, idVars, vars, driverVars, envelopeVars, aliasVars, chunkVars,
                    streamVars, fleetVars, recordVars>>

\* The driver, when it is the one that runs, runs to its end.
StandaloneSpec ==
  /\ StandaloneInit /\ [][StandaloneNext]_standaloneVars
  /\ WF_standaloneVars(part = "driver" /\ StandaloneNext)
=============================================================================
