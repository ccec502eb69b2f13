---------------------------- MODULE MCValueTable ----------------------------
(***************************************************************************)
(* ValueTable for TLC: two strings, an int and the bool that equals it, a  *)
(* list, two preload lists of which one overfills the table.               *)
(***************************************************************************)
EXTENDS ValueTable

Val(type, n) == [type |-> type, n |-> n]

MCValues == {Val("str", 1), Val("str", 2), Val("int", 1), Val("bool", 1), Val("list", 1)}

MCPreloadLists ==
  { <<Val("str", 1), Val("str", 2), Val("str", 1)>>,
    <<Val("bool", 1), Val("str", 1), Val("str", 2), Val("int", 1)>> }
=============================================================================
