--------------------------- MODULE MCSessionStream --------------------------
(***************************************************************************)
(* SessionStream for TLC.  Fields 1 and 2 are declared uvarint, 3 has no   *)
(* declared type.  One literal is preloaded and the table holds two, so    *)
(* the stream learns, evicts, refers to and learns again; 70 is too far    *)
(* from 5 for a delta.                                                     *)
(***************************************************************************)
EXTENDS SessionStream

Val(type, n) == [type |-> type, n |-> n]

MCFields == 1..3
MCFieldType == <<"uvarint", "uvarint", "any">>
MCTable0 == Preload(EmptyTable, <<Val("str", 1)>>)

MCValues == {Val("int", 5), Val("int", 6), Val("int", 70), Val("int", -1),
             Val("str", 1), Val("bool", 1), Val("list", 1), Val("opaque", 1)}

\* Every payload that fails, fails at its first field.
MCMessages ==
  { 1 :> Val("int", 5) @@ 3 :> Val("str", 1),
    1 :> Val("int", 70) @@ 2 :> Val("int", 5),
    2 :> Val("int", 6) @@ 3 :> Val("bool", 1),
    2 :> Val("int", -1),
    3 :> Val("list", 1),
    3 :> Val("opaque", 1) }

\* One that may fail at its second field, after its first was processed.
MCMessagesRaise ==
  { 1 :> Val("int", 5) @@ 2 :> Val("int", 6),
    1 :> Val("int", 70),
    1 :> Val("int", 6) @@ 2 :> Val("int", -1) }

ASSUME Admissible
ASSUME FailsAtFirst(MCMessages)
=============================================================================
