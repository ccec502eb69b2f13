------------------------------ MODULE SchemaIds -----------------------------
(***************************************************************************)
(* How logorrhythm/core/schema.py numbers the names of a schema: the loop  *)
(* of _assign_ids over the sorted names, on the sender's schema and then   *)
(* on the canonical one a SCHEMA_TRANSFER carries, which the receiver      *)
(* normalises once more.  Names are numbers, in the order of the strings.  *)
(***************************************************************************)
EXTENDS Integers, FiniteSetsExt, Functions

CONSTANTS Names, Ids  \* Ids: the explicit ids a schema may give

AutoId == -1   \* the string "auto"

ASSUME SchemaAssumption ==
  Names \subseteq Nat /\ IsFiniteSet(Names) /\ Ids \subseteq Int /\ AutoId \notin Ids

VARIABLES raw,       \* mapping: the names with explicit ids or AutoId
          todo,      \* the names the loop has not reached
          used, nextId, assigned,
          canonical, \* the ids the first normalisation assigned, <<>> before it is done
          status     \* "assign", "done" or "raised"

idVars == <<raw, todo, used, nextId, assigned, canonical, status>>

Explicit(m) == {n \in DOMAIN m : m[n] # AutoId}

Begin(m) ==
  /\ raw = m /\ todo = DOMAIN m
  /\ used = {m[n] : n \in Explicit(m)}
  /\ nextId = 1 /\ assigned = <<>> /\ status = "assign"

IdsInit == canonical = <<>> /\ \E S \in SUBSET Names : \E m \in [S -> Ids \cup {AutoId}] : Begin(m)

GiveId(n, id) == [x \in DOMAIN assigned \cup {n} |-> IF x = n THEN id ELSE assigned[x]]

\* Mutant: the numbering goes on after the largest explicit id.
FreeIdAfterAll == Max(used \cup {nextId - 1}) + 1

\* while next_id in used: next_id += 1
FreeId == CHOOSE i \in nextId..nextId + Cardinality(used) :
            i \notin used /\ \A j \in nextId..i - 1 : j \in used

\* Mutant: explicit ids are renumbered.
AssignAlways ==
  /\ status = "assign" /\ todo # {}
  /\ todo' = todo \ {Min(todo)}
  /\ assigned' = GiveId(Min(todo), FreeId)
  /\ used' = used \cup {FreeId}
  /\ nextId' = FreeId + 1
  /\ UNCHANGED <<raw, canonical, status>>

Assign ==
  /\ status = "assign" /\ todo # {}
  /\ todo' = todo \ {Min(todo)}
  /\ IF raw[Min(todo)] = AutoId
     THEN /\ assigned' = GiveId(Min(todo), FreeId)
          /\ used' = used \cup {FreeId}
          /\ nextId' = FreeId + 1
     ELSE /\ assigned' = GiveId(Min(todo), raw[Min(todo)])
          /\ UNCHANGED <<used, nextId>>
  /\ UNCHANGED <<raw, canonical, status>>

\* SchemaError, when two names were given one id.
Duplicate ==
  /\ status = "assign" /\ todo = {} /\ ~IsInjective(assigned)
  /\ status' = "raised"
  /\ UNCHANGED <<raw, todo, used, nextId, assigned, canonical>>

\* The schema that is sent has the ids in place of "auto".
Transfer ==
  /\ status = "assign" /\ todo = {} /\ IsInjective(assigned) /\ canonical = <<>>
  /\ raw # <<>>
  /\ canonical' = assigned
  /\ raw' = assigned /\ todo' = DOMAIN raw
  /\ used' = Range(assigned)
  /\ nextId' = 1 /\ assigned' = <<>>
  /\ UNCHANGED status

Done ==
  /\ status = "assign" /\ todo = {} /\ IsInjective(assigned)
  /\ canonical # <<>> \/ raw = <<>>
  /\ status' = "done"
  /\ UNCHANGED <<raw, todo, used, nextId, assigned, canonical>>

IdsNext == Assign \/ Duplicate \/ Transfer \/ Done

IdsSpec == IdsInit /\ [][IdsNext]_idVars
-----------------------------------------------------------------------------
Autos(m) == DOMAIN m \ Explicit(m)

Rank(S, x) == Cardinality({y \in S : y <= x})
Given(m) == {m[x] : x \in Explicit(m)}

\* What "auto" promises, as a definition: the k-th automatic name has the k-th
\* positive number that no name has explicitly, wherever the names with one come.
\* And no automatic id collides: a schema is refused exactly when two of its names
\* were given one id.
NumbersAsPromised ==
  /\ \A n \in Autos(raw) \cap DOMAIN assigned :
       /\ assigned[n] \notin Given(raw)
       /\ Rank(1..assigned[n] \ Given(raw), assigned[n]) = Rank(Autos(raw), n)
  /\ status \in {"raised", "done"} =>
       (status = "raised" <=> Cardinality(Given(raw)) < Cardinality(Explicit(raw)))

\* tests/test_core_protocol.py:63: the receiver of a transfer has the ids of the
\* sender, so fingerprint(received) is the fingerprint that was announced.
TransferKeepsIds == status = "done" /\ canonical # <<>> => assigned = canonical
=============================================================================
