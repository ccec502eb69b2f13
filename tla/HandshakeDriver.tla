--------------------------- MODULE HandshakeDriver --------------------------
(***************************************************************************)
(* _run_handshake of logorrhythm/benchmark.py, which carries the handshake *)
(* between two sessions of one process in turns: all that one of them      *)
(* answered goes to the other, until there is no answer.  It counts what   *)
(* passes by the kind of the frame, here in frames instead of bytes.       *)
(***************************************************************************)
EXTENDS Handshake, Integers

VARIABLES turn,      \* who is given the frames
          outbound,  \* how many frames of this turn are left
          breakdown, \* the frames that passed, by kind
          finished   \* did the driver return?

driverVars == <<turn, outbound, breakdown, finished>>

DriverInit ==
  /\ Init
  /\ turn = "server" /\ outbound = 0 /\ finished = FALSE
  /\ breakdown = [k \in BareKinds \cup SchemaKinds |-> 0]

Start ==
  /\ initiations = 0
  /\ Initiate("client")
  /\ outbound' = 2
  /\ UNCHANGED <<turn, breakdown, finished>>

\* Mutant: of a blob only the first frame is counted.
CountBlob(kind) ==
  breakdown' = IF kind = "SCHEMA_FINGERPRINT" THEN breakdown ELSE [breakdown EXCEPT ![kind] = @ + 1]

Count(kind) == breakdown' = [breakdown EXCEPT ![kind] = @ + 1]

Give ==
  /\ outbound > 0 /\ ~finished /\ outbound' = outbound - 1
  /\ Count(Arriving(turn).kind)
  /\ HandleFrame(turn)
  /\ UNCHANGED <<turn, finished>>

\* Mutant: the turn ends with the frames of its first answer.
NextTurnOnce ==
  /\ initiations > 0 /\ outbound = 0 /\ ~finished
  /\ turn' = Other(turn)
  /\ outbound' = Len(net[turn'])
  /\ finished' = (outbound' = 0 \/ turn = "client")
  /\ UNCHANGED <<vars, breakdown>>

NextTurn ==
  /\ initiations > 0 /\ outbound = 0 /\ ~finished
  /\ turn' = Other(turn)
  /\ outbound' = Len(net[turn'])
  /\ finished' = (outbound' = 0)
  /\ UNCHANGED <<vars, breakdown>>

DriverNext == Start \/ Give \/ NextTurn

DriverSpec == DriverInit /\ [][DriverNext]_<<vars, driverVars>> /\ WF_<<vars, driverVars>>(DriverNext)
-----------------------------------------------------------------------------
\* The turns are a schedule of Handshake: no frame is given to the wrong session,
\* or left when the driver returns, so what holds of the handshake holds here.
TakesTurns == Spec

\* What the benchmark reports as the cost of a handshake: one offer, an answer to
\* it, and a transfer and its answer exactly if the offer was refused by a session
\* whose peer may transfer; a mode switch exactly if both speak in opcodes.
Accounted ==
  finished =>
    /\ breakdown["HELLO"] = 1 /\ breakdown["SCHEMA_FINGERPRINT"] = 1
    /\ breakdown["NACK"] = IF schema["client"] = schema["server"] THEN 0 ELSE 1
    /\ breakdown["SCHEMA_TRANSFER"] = IF allow["client"] THEN breakdown["NACK"] ELSE 0
    /\ breakdown["ACK"] = 1 - breakdown["NACK"] + breakdown["SCHEMA_TRANSFER"]
    /\ breakdown["MODE_SWITCH"] = breakdown["ACK"]
    /\ breakdown["MODE_SWITCH"] = IF \A p \in Peers : InOpcodeMode(p) THEN 1 ELSE 0
=============================================================================
