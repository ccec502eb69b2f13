-------------------------- MODULE ValueTableProofs --------------------------
(***************************************************************************)
(* Theorems about ValueTable, for every set of values, every limit and     *)
(* every threshold: the two dicts and the lru order never disagree, the    *)
(* limit holds whenever no call is running, and ids are never rebound.     *)
(***************************************************************************)
EXTENDS ValueTable, TablesProofs

\* The inductive invariant.  TableInv is preserved only by tables of the right
\* type, and an eviction keeps LearnedOnlyWhenRepeated, and the id that was just
\* given, only while the lru order and the dicts agree: all are proved together.
IInv == TypeOK /\ TableInv /\ LearnedOnlyWhenRepeated /\ ReturnedIdIsLive

\* The invariant holds of the empty table.
LEMMA InitIInv == Init => IInv
<1> SUFFICES ASSUME Init PROVE IInv
  OBVIOUS
<1>1. DOMAIN EmptyMap = {} /\ \A S : EmptyMap \in [{} -> S]
  BY DEF EmptyMap
<1>2. <<>> \in Seq({v \in Values : Hashable(v)})
  BY EmptySeq
<1>3. TypeOK
  BY <1>1, <1>2, EmptyTableLemma DEF Init, TypeOK, Shape, NoId
<1>4. TableInv
  BY EmptyTableLemma DEF Init, TableInv, Shape
<1>5. LearnedOnlyWhenRepeated
  BY <1>1 DEF Init, LearnedOnlyWhenRepeated, EmptyTable
<1>6. ReturnedIdIsLive
  BY DEF Init, ReturnedIdIsLive
<1>7. QED  BY <1>3, <1>4, <1>5, <1>6 DEF IInv

\* Every step keeps the inductive invariant, and unless it is Reset every step
\* keeps what ids mean.
LEMMA NextIInv ==
  ASSUME IInv, [Next]_vars
  PROVE  /\ IInv'
         /\ table'.next >= table.next => KeepsIds(table, table')
<1>0. /\ Shape(table, Values)
      /\ ~loading => WithinLimit(table)
      /\ table.next \in Nat
      /\ \A k \in DOMAIN table.seen : table.seen[k] \in Nat
      /\ LearningThreshold \in Nat
  BY TablesAssumption DEF IInv, TypeOK, TableInv, Shape, IsTable
<1>1. ASSUME NEW values \in PreloadLists, PreloadCall(values)
      PROVE  IInv' /\ KeepsIds(table, table')
  BY <1>0, <1>1, ValueTableAssumption
  DEF PreloadCall, IInv, TypeOK, TableInv, LearnedOnlyWhenRepeated, ReturnedIdIsLive, KeepsIds
<1>2. CASE PreloadOneStep
  <2> DEFINE v == Head(pending)
  <2>1. v \in Values /\ Hashable(v) /\ pending' \in Seq({w \in Values : Hashable(w)})
    BY <1>2, HeadTailProperties DEF PreloadOneStep, IInv, TypeOK
  <2>2. /\ table' = PreloadOne(table, v) /\ loading' = loading /\ returned' = returned
        /\ loading
        /\ born' = IF Known(table, v) THEN born ELSE Put(born, Key(v), table.next)
    BY <1>2 DEF PreloadOneStep
  <2>3. Key(v) \in KeysOf(Values)
    BY <2>1 DEF KeysOf
  <2> HIDE DEF v
  <2>4. /\ Shape(table', Values) /\ KeepsIds(table, table')
        /\ table'.seen = table.seen
        /\ DOMAIN table'.v2i \subseteq DOMAIN table.v2i \cup {Key(v)}
        /\ DOMAIN table.i2v \subseteq DOMAIN table'.i2v
    BY <2>1, <2>2, <1>0, PreloadOneLemma
  <2>5. /\ DOMAIN born' \subseteq KeysOf(Values)
        /\ born' \in [DOMAIN born' -> Nat]
        /\ DOMAIN born \subseteq DOMAIN born'
        /\ Key(v) \in DOMAIN born' \/ Key(v) \in DOMAIN table.v2i
    <3>1. CASE Known(table, v)
      BY <2>2, <3>1 DEF Known, IInv, TypeOK
    <3>2. CASE ~Known(table, v)
      BY <2>2, <2>3, <3>2, <1>0 DEF Put, IInv, TypeOK
    <3>3. QED  BY <3>1, <3>2
  <2>6. TypeOK'
    BY <2>1, <2>2, <2>4, <2>5 DEF IInv, TypeOK, Shape
  <2>7. TableInv'
    BY <2>2, <2>4 DEF TableInv, Shape
  <2>8. LearnedOnlyWhenRepeated'
    BY <2>4, <2>5 DEF IInv, LearnedOnlyWhenRepeated
  <2>9. ReturnedIdIsLive'
    BY <2>2, <2>4 DEF IInv, ReturnedIdIsLive
  <2>10. QED  BY <2>4, <2>6, <2>7, <2>8, <2>9 DEF IInv
<1>3. CASE PreloadReturn
  <2>1. /\ Shape(table', Values) /\ WithinLimit(table')
        /\ DOMAIN table'.v2i \subseteq DOMAIN table.v2i
        /\ DOMAIN table'.i2v \subseteq DOMAIN table.i2v
        /\ \A id \in DOMAIN table'.i2v : table'.i2v[id] = table.i2v[id]
        /\ table'.seen = table.seen
    BY <1>0, <1>3, EvictLemma DEF PreloadReturn
  <2>2. /\ loading' = FALSE /\ returned' = 0 /\ pending' = pending /\ born' = born
    BY <1>3 DEF PreloadReturn, NoId
  <2>3. TypeOK' /\ TableInv'
    BY <2>1, <2>2 DEF IInv, TypeOK, TableInv, Shape
  <2>4. LearnedOnlyWhenRepeated'
    BY <2>1, <2>2 DEF IInv, LearnedOnlyWhenRepeated
  <2>5. ReturnedIdIsLive'
    BY <2>2 DEF ReturnedIdIsLive, NoId
  <2>6. QED  BY <2>1, <2>3, <2>4, <2>5 DEF IInv, KeepsIds
<1>4. ASSUME NEW v \in Values, NEW allow \in BOOLEAN, MaybeLearnCall(v, allow)
      PROVE  IInv' /\ KeepsIds(table, table')
  <2>1. /\ Shape(table', Values) /\ WithinLimit(table') /\ KeepsIds(table, table')
        /\ \A k \in DOMAIN table.seen :
              k \in DOMAIN table'.seen /\ table'.seen[k] >= table.seen[k]
        /\ \A k \in DOMAIN table'.v2i \ DOMAIN table.v2i :
              k \in DOMAIN table'.seen /\ table'.seen[k] >= LearningThreshold
    BY <1>0, <1>4, MaybeLearnLemma DEF MaybeLearnCall
  <2>2. /\ loading' = loading /\ pending' = pending /\ born' = born
        /\ returned' = LearnedId(table, v, allow)
    BY <1>4 DEF MaybeLearnCall
  <2>3. returned' \in Nat
    BY <2>2, <1>0 DEF LearnedId, NoId, Known, Shape, IsTable
  <2>4. TypeOK' /\ TableInv'
    BY <2>1, <2>2, <2>3 DEF IInv, TypeOK, TableInv, Shape
  <2>5. LearnedOnlyWhenRepeated'
    <3>1. \A k \in DOMAIN table'.seen : table'.seen[k] \in Nat
      BY <2>1 DEF Shape, IsTable
    <3>2. SUFFICES ASSUME NEW k \in DOMAIN table'.v2i, k \notin DOMAIN born
                   PROVE  k \in DOMAIN table'.seen /\ table'.seen[k] >= LearningThreshold
      BY <2>2 DEF LearnedOnlyWhenRepeated
    <3>3. CASE k \in DOMAIN table.v2i
      <4>1. k \in DOMAIN table.seen /\ table.seen[k] >= LearningThreshold
        BY <3>2, <3>3 DEF IInv, LearnedOnlyWhenRepeated
      <4>2. k \in DOMAIN table'.seen /\ table'.seen[k] >= table.seen[k]
        BY <4>1, <2>1
      <4>3. QED  BY <4>1, <4>2, <3>1, <1>0
    <3>4. CASE k \notin DOMAIN table.v2i
      BY <3>2, <3>4, <2>1
    <3>5. QED  BY <3>3, <3>4
  <2>6. ReturnedIdIsLive'
    BY <2>2, <1>0, <1>4, LearnedIdLemma, TablesAssumption DEF MaybeLearnCall, ReturnedIdIsLive
  <2>7. QED  BY <2>1, <2>4, <2>5, <2>6 DEF IInv
<1>5. ASSUME NEW k \in DOMAIN table.v2i, table' = Touch(table, k),
             loading' = loading, pending' = pending, born' = born, returned' \in Nat,
             returned' # NoId => returned' \in DOMAIN table.i2v
      PROVE  IInv' /\ KeepsIds(table, table')
  <2>1. /\ Shape(table', Values)
        /\ table'.v2i = table.v2i /\ table'.i2v = table.i2v
        /\ table'.seen = table.seen /\ table'.next = table.next
    BY <1>0, <1>5, TouchKeeps
  <2>2. QED
    BY <2>1, <1>5, <1>0
    DEF IInv, TypeOK, TableInv, LearnedOnlyWhenRepeated, ReturnedIdIsLive, KeepsIds, Shape,
        WithinLimit
<1>6. ASSUME table' = table, loading' = loading, pending' = pending, born' = born,
             returned' \in {returned, NoId}
      PROVE  IInv' /\ KeepsIds(table, table')
  BY <1>6 DEF IInv, TypeOK, TableInv, LearnedOnlyWhenRepeated, ReturnedIdIsLive, KeepsIds, NoId
<1>7. ASSUME NEW v \in Values, GetIdCall(v)
      PROVE  IInv' /\ KeepsIds(table, table')
  <2>1. /\ loading' = loading /\ pending' = pending /\ born' = born
        /\ returned' = IdOf(table, v) /\ table' = GetId(table, v)
    BY <1>7 DEF GetIdCall
  <2>2. returned' \in Nat
    BY <2>1, <1>0 DEF IdOf, NoId, Known, Shape, IsTable
  <2>3. CASE IdOf(table, v) = NoId
    BY <2>1, <2>3, <1>6 DEF GetId
  <2>4. CASE IdOf(table, v) # NoId
    <3>1. /\ Key(v) \in DOMAIN table.v2i /\ table' = Touch(table, Key(v))
          /\ returned' = table.v2i[Key(v)]
      BY <2>1, <2>4 DEF GetId, IdOf, Known
    <3>2. returned' \in DOMAIN table.i2v
      BY <3>1, <1>0 DEF Shape, Bijective
    <3>3. QED  BY <3>1, <3>2, <2>1, <2>2, <1>5
  <2>5. QED  BY <2>3, <2>4
<1>8. ASSUME NEW id \in 1..MaxId, GetValueCall(id)
      PROVE  IInv' /\ KeepsIds(table, table')
  <2>1. Key(table.i2v[id]) \in DOMAIN table.v2i
    BY <1>0, <1>8 DEF GetValueCall, Shape, Bijective
  <2>2. /\ loading' = loading /\ pending' = pending /\ born' = born /\ returned' = 0
        /\ table' = Touch(table, Key(table.i2v[id]))
    BY <1>8 DEF GetValueCall, GetValue, NoId
  <2>3. QED  BY <2>1, <2>2, <1>5 DEF NoId
<1>9. CASE Reset
  <2>1. /\ table' = EmptyTable /\ returned' = 0 /\ born' = EmptyMap
        /\ pending' = pending /\ loading' = loading
    BY <1>9 DEF Reset, NoId
  <2>2. DOMAIN EmptyMap = {} /\ \A S : EmptyMap \in [{} -> S]
    BY DEF EmptyMap
  <2>3. TypeOK' /\ TableInv'
    BY <2>1, <2>2, EmptyTableLemma DEF IInv, TypeOK, TableInv, Shape
  <2>4. LearnedOnlyWhenRepeated'
    BY <2>1, <2>2 DEF LearnedOnlyWhenRepeated, EmptyTable
  <2>5. KeepsIds(table, table')
    BY <2>1, <2>2 DEF KeepsIds, EmptyTable
  <2>6. ReturnedIdIsLive'
    BY <2>1 DEF ReturnedIdIsLive, NoId
  <2>7. QED  BY <2>3, <2>4, <2>5, <2>6 DEF IInv
<1>10. CASE UNCHANGED vars
  BY <1>10, <1>6 DEF vars, IInv, TypeOK
<1>11. QED
  BY <1>1, <1>2, <1>3, <1>4, <1>7, <1>8, <1>9, <1>10 DEF Next

\* The invariant, from which each property below is read off.
LEMMA Invariance == Spec => []IInv
<1>1. IInv /\ [Next]_vars => IInv'
  BY NextIInv
<1>2. QED  BY <1>1, InitIInv, PTL DEF Spec

\* Type correctness of the value table under every sequence of calls.
THEOREM TypeCorrect == Spec => []TypeOK
<1>1. IInv => TypeOK
  BY DEF IInv
<1>2. QED  BY <1>1, Invariance, PTL

\* value_to_id, id_to_value and _lru describe the same entries after every call
\* and inside preload's loop, and the table is within max_entries between calls.
THEOREM TableCorrect == Spec => []TableInv
<1>1. IInv => TableInv
  BY DEF IInv
<1>2. QED  BY <1>1, Invariance, PTL

\* A value that was not preloaded enters the table at its threshold sighting.
THEOREM LearningCorrect == Spec => []LearnedOnlyWhenRepeated
<1>1. IInv => LearnedOnlyWhenRepeated
  BY DEF IInv
<1>2. QED  BY <1>1, Invariance, PTL

\* Whatever maybe_learn and get_id return can be sent: eviction, which runs after the
\* id was chosen, never takes it away, unless max_entries is 0.
THEOREM ReturnedIdsLive == Spec => []ReturnedIdIsLive
<1>1. IInv => ReturnedIdIsLive
  BY DEF IInv
<1>2. QED  BY <1>1, Invariance, PTL

\* Between two resets an id means one value and no id is given out twice.
THEOREM IdsStable == Spec => IdsNeverRebound
<1>1. IInv /\ [Next]_vars =>
        [table'.next >= table.next =>
           \A id \in DOMAIN table'.i2v :
             IF id \in DOMAIN table.i2v THEN table'.i2v[id] = table.i2v[id]
                                        ELSE id >= table.next]_vars
  BY NextIInv DEF KeepsIds
<1>2. QED  BY <1>1, Invariance, PTL DEF Spec, IdsNeverRebound
=============================================================================
