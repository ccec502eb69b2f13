------------------------------- MODULE Tables -------------------------------
(***************************************************************************)
(* The value table of logorrhythm/core/tables.py as operators on a record. *)
(*                                                                         *)
(*   v2i   value_to_id : keys to ids        i2v   id_to_value : ids to     *)
(*   lru   _lru : keys, oldest first              values                   *)
(*   seen  _seen : how often a key was      next  _next_id : the next id   *)
(*         offered for learning                                            *)
(*                                                                         *)
(* A Python value is a record [type, n]: n is the number of an int, a bool,*)
(* an integral float or a str of digits, and a mere name otherwise.  A dict finds a key by  *)
(* ==, and in Python True == 1 == 1.0; Key maps a value to the             *)
(* representative of its class, so v2i, lru and seen are indexed by keys   *)
(* while i2v holds the value that was stored, with its own type.           *)
(***************************************************************************)
EXTENDS Integers, Sequences, FiniteSets, SequencesExt

CONSTANTS MaxEntries,        \* value_table_max_entries
          LearningThreshold  \* learning_threshold

ASSUME TablesAssumption == MaxEntries \in Nat /\ LearningThreshold \in Nat

Key(v) == IF v.type \in {"bool", "float"} THEN [v EXCEPT !.type = "int"] ELSE v

Hashable(v) == v.type \notin {"list", "dict"}

NoId == 0   \* the None that stands for "no id": ids start at 1

EmptyMap == [x \in {} |-> NoId]

EmptyTable ==
  [v2i |-> EmptyMap, i2v |-> EmptyMap, lru |-> <<>>, seen |-> EmptyMap, next |-> 1]

Put(f, x, y) == [z \in DOMAIN f \cup {x} |-> IF z = x THEN y ELSE f[z]]

MoveToEnd(s, k) ==
  Append(IF Contains(s, k) THEN RemoveAt(s, CHOOSE i \in 1..Len(s) : s[i] = k) ELSE s, k)

Touch(t, k) == [t EXCEPT !.lru = MoveToEnd(@, k)]

(***************************************************************************)
(* The loop pops the least recently used key until max_entries are left:   *)
(* it drops the first Excess(t) keys of lru and the ids they had.          *)
(***************************************************************************)
Excess(t) == Max({0, Cardinality(DOMAIN t.v2i) - MaxEntries})

\* Mutant: the eviction that forgets id_to_value.pop.
EvictKeepingIds(t) ==
  LET kept == DOMAIN t.v2i \ {t.lru[i] : i \in 1..Excess(t)}
  IN  [t EXCEPT !.v2i = Restrict(@, kept), !.lru = SubSeq(@, Excess(t) + 1, Len(@))]

\* Mutant: popitem(last=True), which drops the entry just learned.
EvictNewest(t) ==
  LET left    == Len(t.lru) - Excess(t)
      dropped == {t.lru[i] : i \in left + 1..Len(t.lru)}
  IN  [t EXCEPT !.v2i = Restrict(@, DOMAIN @ \ dropped),
                !.i2v = Restrict(@, DOMAIN @ \ {t.v2i[k] : k \in dropped}),
                !.lru = SubSeq(@, 1, left)]

EvictIfNeeded(t) ==
  LET dropped == {t.lru[i] : i \in 1..Excess(t)}
  IN  [v2i  |-> Restrict(t.v2i, DOMAIN t.v2i \ dropped),
       i2v  |-> Restrict(t.i2v, DOMAIN t.i2v \ {t.v2i[k] : k \in dropped}),
       lru  |-> SubSeq(t.lru, Excess(t) + 1, Len(t.lru)),
       seen |-> t.seen,
       next |-> t.next]

\* Mutant: ids counted by the size of the table instead of _next_id.
InsertAtSize(t, v) ==
  LET id == Cardinality(DOMAIN t.v2i) + 1
  IN  Touch([t EXCEPT !.v2i = Put(@, Key(v), id), !.i2v = Put(@, id, v),
                      !.next = @ + 1], Key(v))

\* Mutant: the increment of _next_id comes first, and the old id is lost.
InsertAtNextNext(t, v) ==
  Touch([t EXCEPT !.v2i = Put(@, Key(v), t.next + 1),
                  !.i2v = Put(@, t.next + 1, v),
                  !.next = @ + 1], Key(v))

\* The next id goes to v, which becomes the most recently used entry.
Insert(t, v) ==
  [v2i  |-> Put(t.v2i, Key(v), t.next),
   i2v  |-> Put(t.i2v, t.next, v),
   lru  |-> MoveToEnd(t.lru, Key(v)),
   seen |-> t.seen,
   next |-> t.next + 1]

Known(t, v) == Key(v) \in DOMAIN t.v2i

\* One iteration of the loop of preload.
PreloadOne(t, v) == IF Known(t, v) THEN Touch(t, Key(v)) ELSE Insert(t, v)

Preload(t, values) == EvictIfNeeded(FoldLeft(PreloadOne, t, values))

\* maybe_learn counts the sighting, and learns at the threshold.
Sightings(t, v) == IF Key(v) \in DOMAIN t.seen THEN t.seen[Key(v)] ELSE 0

Count(t, v) == [t EXCEPT !.seen = Put(@, Key(v), Sightings(t, v) + 1)]

\* Mutant: learning one sighting early.
MaybeLearnEarly(t, v, allow) ==
  IF ~Hashable(v) THEN t
  ELSE IF Known(t, v) THEN Touch(t, Key(v))
  ELSE IF ~allow THEN t
  ELSE IF Sightings(t, v) + 2 < LearningThreshold THEN Count(t, v)
  ELSE EvictIfNeeded(Insert(Count(t, v), v))

MaybeLearn(t, v, allow) ==
  IF ~Hashable(v) THEN t
  ELSE IF Known(t, v) THEN Touch(t, Key(v))
  ELSE IF ~allow THEN t
  ELSE IF Sightings(t, v) + 1 < LearningThreshold THEN Count(t, v)
  ELSE EvictIfNeeded(Insert(Count(t, v), v))

\* The id maybe_learn returns.
LearnedId(t, v, allow) ==
  IF ~Hashable(v) THEN NoId
  ELSE IF Known(t, v) THEN t.v2i[Key(v)]
  ELSE IF allow /\ Sightings(t, v) + 1 >= LearningThreshold THEN t.next
  ELSE NoId

\* The id get_id returns, and the table it leaves.
IdOf(t, v) == IF Hashable(v) /\ Known(t, v) THEN t.v2i[Key(v)] ELSE NoId

GetId(t, v) == IF IdOf(t, v) = NoId THEN t ELSE Touch(t, Key(v))

\* The table get_value(id) leaves; the value it returns is t.i2v[id].
GetValue(t, id) == Touch(t, Key(t.i2v[id]))
-----------------------------------------------------------------------------
(***************************************************************************)
(* What a table must satisfy.  V is the set of values callers pass.        *)
(***************************************************************************)
KeysOf(V) == {Key(v) : v \in {w \in V : Hashable(w)}}

IsTable(t, V) ==
  /\ t = [v2i |-> t.v2i, i2v |-> t.i2v, lru |-> t.lru, seen |-> t.seen, next |-> t.next]
  /\ DOMAIN t.v2i \subseteq KeysOf(V)
  /\ t.v2i \in [DOMAIN t.v2i -> 1..t.next - 1]
  /\ DOMAIN t.i2v \subseteq 1..t.next - 1
  /\ t.i2v \in [DOMAIN t.i2v -> {v \in V : Hashable(v)}]
  /\ t.lru \in Seq(KeysOf(V))
  /\ DOMAIN t.seen \subseteq KeysOf(V)
  /\ t.seen \in [DOMAIN t.seen -> Nat]
  /\ t.next \in Nat \ {0}

\* value_to_id and id_to_value are inverse to each other, up to ==: a key leads
\* to an id whose value has that key, and every id is some key's.  This is what
\* eviction, which pops the two dicts separately, could break.
Bijective(t) ==
  /\ \A k \in DOMAIN t.v2i : t.v2i[k] \in DOMAIN t.i2v /\ Key(t.i2v[t.v2i[k]]) = k
  /\ \A id \in DOMAIN t.i2v : \E k \in DOMAIN t.v2i : t.v2i[k] = id

\* _lru holds exactly the keys of value_to_id, each once: popitem never meets an
\* empty _lru, and the key it pops is always one value_to_id still has.
LruMatches(t) ==
  /\ ToSet(t.lru) = DOMAIN t.v2i
  /\ \A i, j \in 1..Len(t.lru) : t.lru[i] = t.lru[j] => i = j

WithinLimit(t) == Cardinality(DOMAIN t.v2i) <= MaxEntries
=============================================================================
