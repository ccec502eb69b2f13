---------------------------- MODULE MessageStream ---------------------------
(***************************************************************************)
(* What two sessions in opcode mode promise to the application: messages   *)
(* arrive once, unchanged and in the order they were sent.                 *)
(***************************************************************************)
EXTENDS Naturals, Sequences

CONSTANT Payloads

VARIABLES sent,      \* the payloads encode accepted
          delivered  \* the payloads decode returned

Init == sent = <<>> /\ delivered = <<>>

Send(m) == sent' = Append(sent, m) /\ UNCHANGED delivered

Deliver ==
  /\ Len(delivered) < Len(sent)
  /\ delivered' = Append(delivered, sent[Len(delivered) + 1])
  /\ UNCHANGED sent

Next == (\E m \in Payloads : Send(m)) \/ Deliver

Spec == Init /\ [][Next]_<<sent, delivered>> /\ WF_<<sent, delivered>>(Deliver)
=============================================================================
