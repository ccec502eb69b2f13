----------------------------- MODULE ValueTable -----------------------------
(***************************************************************************)
(* One value table under every sequence of calls of its methods.           *)
(*                                                                         *)
(* preload is the one method with a loop over its argument.  Its           *)
(* iterations are steps (PreloadCall, PreloadOneStep, PreloadReturn) and   *)
(* no other call starts before it returns: the invariants then speak of    *)
(* the table inside the loop too, where it may be over its limit.          *)
(***************************************************************************)
EXTENDS Tables

CONSTANTS Values,        \* the values callers pass
          PreloadLists,  \* the literal lists callers preload
          MaxId          \* bound: no id above it is given out

ASSUME ValueTableAssumption ==
  /\ PreloadLists \subseteq Seq({v \in Values : Hashable(v)})
  /\ MaxId \in Nat

VARIABLES table,    \* the table
          pending,  \* the literals preload has still to look at
          loading,  \* is preload running?
          returned, \* the id the last call returned
          born      \* history: the id each preloaded literal was first given

vars == <<table, pending, loading, returned, born>>

Init ==
  /\ table = EmptyTable
  /\ pending = <<>>
  /\ loading = FALSE
  /\ returned = NoId
  /\ born = EmptyMap

PreloadCall(values) ==
  /\ ~loading
  /\ table.next + Len(values) <= MaxId + 1
  /\ loading' = TRUE
  /\ pending' = values
  /\ UNCHANGED <<table, returned, born>>

PreloadOneStep ==
  /\ loading
  /\ pending # <<>>
  /\ table' = PreloadOne(table, Head(pending))
  /\ pending' = Tail(pending)
  /\ born' = IF Known(table, Head(pending)) THEN born
             ELSE Put(born, Key(Head(pending)), table.next)
  /\ UNCHANGED <<loading, returned>>

PreloadReturn ==
  /\ loading
  /\ pending = <<>>
  /\ table' = EvictIfNeeded(table)
  /\ loading' = FALSE
  /\ returned' = NoId
  /\ UNCHANGED <<pending, born>>

MaybeLearnCall(v, allow) ==
  /\ ~loading
  /\ table.next <= MaxId
  /\ table' = MaybeLearn(table, v, allow)
  /\ returned' = LearnedId(table, v, allow)
  /\ UNCHANGED <<pending, loading, born>>

GetIdCall(v) ==
  /\ ~loading
  /\ table' = GetId(table, v)
  /\ returned' = IdOf(table, v)
  /\ UNCHANGED <<pending, loading, born>>

\* An id that is not in the table raises KeyError and changes nothing.
GetValueCall(id) ==
  /\ ~loading
  /\ id \in DOMAIN table.i2v
  /\ table' = GetValue(table, id)
  /\ returned' = NoId
  /\ UNCHANGED <<pending, loading, born>>

Reset ==
  /\ ~loading
  /\ table' = EmptyTable
  /\ returned' = NoId
  /\ born' = EmptyMap
  /\ UNCHANGED <<pending, loading>>

Next ==
  \/ \E values \in PreloadLists : PreloadCall(values)
  \/ PreloadOneStep
  \/ PreloadReturn
  \/ \E v \in Values, allow \in BOOLEAN : MaybeLearnCall(v, allow)
  \/ \E v \in Values : GetIdCall(v)
  \/ \E id \in 1..MaxId : GetValueCall(id)
  \/ Reset

Spec == Init /\ [][Next]_vars
-----------------------------------------------------------------------------
\* Every component of the state has the type the code gives it.
TypeOK ==
  /\ IsTable(table, Values)
  /\ pending \in Seq({v \in Values : Hashable(v)})
  /\ loading \in BOOLEAN
  /\ returned \in Nat
  /\ DOMAIN born \subseteq KeysOf(Values)
  /\ born \in [DOMAIN born -> Nat]

\* The two dicts and the lru order describe the same entries after every call
\* and in every iteration of preload, and only inside preload's loop may the
\* table be over max_entries.
TableInv ==
  /\ Bijective(table)
  /\ LruMatches(table)
  /\ ~loading => WithinLimit(table)

\* An id a call has just returned can be used: a caller that sends it finds its
\* value in the table, although the call may have evicted after it chose the id.
ReturnedIdIsLive ==
  returned # NoId /\ MaxEntries > 0 => returned \in DOMAIN table.i2v

\* What was not preloaded is in the table only after learning_threshold
\* sightings, also after it has been evicted and learned again.
LearnedOnlyWhenRepeated ==
  \A k \in DOMAIN table.v2i \ DOMAIN born :
     k \in DOMAIN table.seen /\ table.seen[k] >= LearningThreshold

\* Until the table is reset an id stands for one value: no step gives an id in
\* use another value, and an id that enters the table was never given out
\* before.  A reference sent on the wire is never read as something else.
IdsNeverRebound ==
  [][ table'.next >= table.next =>
        \A id \in DOMAIN table'.i2v :
           IF id \in DOMAIN table.i2v THEN table'.i2v[id] = table.i2v[id]
                                      ELSE id >= table.next ]_vars
=============================================================================
