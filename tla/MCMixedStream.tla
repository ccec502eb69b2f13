---------------------------- MODULE MCMixedStream ---------------------------
(***************************************************************************)
(* SessionStream for TLC with values that are == but of different types:   *)
(* a bool field and a uvarint field, as passed and tasks_complete are in   *)
(* schemas/loom_schema.json.  Every value has the type its field declares. *)
(***************************************************************************)
EXTENDS SessionStream

Val(type, n) == [type |-> type, n |-> n]

MCFields == 1..2
MCFieldType == <<"bool", "uvarint">>
MCValues == {Val("bool", 1), Val("int", 1), Val("int", 2)}
MCMessages == {1 :> Val("bool", 1), 2 :> Val("int", 1), 2 :> Val("int", 2)}
=============================================================================
