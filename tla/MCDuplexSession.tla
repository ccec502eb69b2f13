--------------------------- MODULE MCDuplexSession --------------------------
(***************************************************************************)
(* One int and one string field; the two schemas differ in an enum.        *)
(***************************************************************************)
EXTENDS DuplexSession, TLC

MCFields    == {1, 2}
MCFieldType == 1 :> "svarint" @@ 2 :> "str"
Int_(n)     == [type |-> "int", n |-> n]
Str(n)      == [type |-> "str", n |-> n]
MCEnums     == "s1" :> <<Str(1)>> @@ "s2" :> <<>>

MCPayloads  == {1 :> Int_(5), 1 :> Int_(6) @@ 2 :> Str(2), 1 :> Int_(7) @@ 2 :> Str(1)}

\* What the theorems of DuplexProofs assume of the application holds here.
ASSUME MCAdmissible == Admissible

AllRules    == {"initiate", "reset", "send"}
=============================================================================
