---------------------------- MODULE TablesProofs ----------------------------
(***************************************************************************)
(* Lemmas about the operators of Tables: what each of them keeps of a      *)
(* well-formed table, for every set of values and every constant.          *)
(***************************************************************************)
EXTENDS Tables, SequenceTheorems, FiniteSetTheorems, TLAPS

\* Well-formed, but for the limit.
Shape(t, V) == IsTable(t, V) /\ Bijective(t) /\ LruMatches(t)

NoDuplicates(s) == \A i, j \in 1..Len(s) : s[i] = s[j] => i = j

\* Removing one element of a sequence without duplicates removes it for good.
LEMMA RemoveAtLemma ==
  ASSUME NEW S, NEW s \in Seq(S), NoDuplicates(s), NEW p \in 1..Len(s)
  PROVE  /\ RemoveAt(s, p) \in Seq(S)
         /\ NoDuplicates(RemoveAt(s, p))
         /\ ToSet(RemoveAt(s, p)) = ToSet(s) \ {s[p]}
<1> DEFINE a == SubSeq(s, 1, p - 1)
           b == SubSeq(s, p + 1, Len(s))
           r == a \o b
<1>0. /\ Len(s) \in Nat
      /\ DOMAIN s = 1..Len(s)
      /\ \A i \in 1..Len(s) : s[i] \in S
  BY LenProperties, ElementOfSeq
<1>1. /\ a \in Seq(S)
      /\ Len(a) = p - 1
      /\ \A i \in 1..p - 1 : a[i] = s[i]
  <2>1. 1 \in Int /\ p - 1 \in Int /\ \A i \in 1..p - 1 : s[i] \in S
    BY <1>0
  <2>2. QED  BY <1>0, <2>1, SubSeqProperties
<1>2. /\ b \in Seq(S)
      /\ Len(b) = Len(s) - p
      /\ \A i \in 1..Len(s) - p : b[i] = s[p + i]
  <2>1. p + 1 \in Int /\ Len(s) \in Int /\ \A i \in p + 1..Len(s) : s[i] \in S
    BY <1>0
  <2>2. /\ b \in Seq(S)
        /\ Len(b) = IF p + 1 <= Len(s) THEN Len(s) - (p + 1) + 1 ELSE 0
        /\ \A i \in 1..Len(s) - (p + 1) + 1 : b[i] = s[(p + 1) + i - 1]
    BY <2>1, SubSeqProperties
  <2>3. QED  BY <2>2, <1>0
<1>3. /\ r \in Seq(S)
      /\ Len(r) = Len(s) - 1
      /\ \A i \in 1..Len(s) - 1 : r[i] = IF i < p THEN s[i] ELSE s[i + 1]
  <2>1. /\ r \in Seq(S)
        /\ Len(r) = Len(a) + Len(b)
        /\ \A i \in 1..Len(a) + Len(b) : r[i] = IF i <= Len(a) THEN a[i] ELSE b[i - Len(a)]
    BY <1>1, <1>2, ConcatProperties
  <2> HIDE DEF a, b, r
  <2>2. ASSUME NEW i \in 1..Len(s) - 1
        PROVE  r[i] = IF i < p THEN s[i] ELSE s[i + 1]
    <3>0. i \in 1..Len(a) + Len(b)
      BY <1>0, <1>1, <1>2
    <3>1. CASE i < p
      <4>1. i <= Len(a) /\ i \in 1..p - 1
        BY <3>1, <1>1
      <4>2. r[i] = a[i]
        BY <3>0, <4>1, <2>1
      <4>3. QED  BY <3>1, <4>1, <4>2, <1>1
    <3>2. CASE ~(i < p)
      <4>1. ~(i <= Len(a)) /\ i - Len(a) \in 1..Len(s) - p
        BY <3>2, <1>0, <1>1
      <4>2. r[i] = b[i - Len(a)]
        BY <3>0, <4>1, <2>1
      <4>3. b[i - Len(a)] = s[p + (i - Len(a))]
        BY <4>1, <1>2
      <4>4. p + (i - Len(a)) = i + 1
        BY <1>0, <1>1
      <4>5. QED  BY <3>2, <4>2, <4>3, <4>4
    <3>3. QED  BY <3>1, <3>2
  <2>3. QED  BY <2>1, <2>2, <1>1, <1>2, <1>0
<1>4. NoDuplicates(r)
  <2> HIDE DEF r
  <2>1. SUFFICES ASSUME NEW i \in 1..Len(r), NEW j \in 1..Len(r), r[i] = r[j]
                 PROVE  i = j
    BY DEF NoDuplicates
  <2>2. i \in 1..Len(s) - 1 /\ j \in 1..Len(s) - 1
    BY <1>3
  <2>3. PICK u \in 1..Len(s) : r[i] = s[u] /\ u = IF i < p THEN i ELSE i + 1
    BY <2>2, <1>0, <1>3
  <2>4. PICK v \in 1..Len(s) : r[j] = s[v] /\ v = IF j < p THEN j ELSE j + 1
    BY <2>2, <1>0, <1>3
  <2>5. u = v
    BY <2>1, <2>3, <2>4 DEF NoDuplicates
  <2>6. QED  BY <2>2, <2>3, <2>4, <2>5, <1>0
<1>5. DOMAIN r = 1..Len(s) - 1
  BY <1>3, LenProperties
<1>6. ToSet(r) \subseteq ToSet(s) \ {s[p]}
  <2> HIDE DEF r
  <2>1. SUFFICES ASSUME NEW i \in 1..Len(s) - 1
                 PROVE  r[i] \in ToSet(s) \ {s[p]}
    BY <1>5 DEF ToSet
  <2>2. PICK u \in 1..Len(s) : r[i] = s[u] /\ u # p
    BY <1>0, <1>3
  <2>3. s[u] # s[p]
    BY <2>2 DEF NoDuplicates
  <2>4. QED  BY <2>2, <2>3, <1>0 DEF ToSet
<1>7. ASSUME NEW x \in ToSet(s) \ {s[p]}
      PROVE  x \in ToSet(r)
  <2> HIDE DEF r
  <2>1. PICK i \in 1..Len(s) : s[i] = x
    BY <1>0 DEF ToSet
  <2>2. CASE i < p
    <3>1. i \in 1..Len(s) - 1 /\ r[i] = x
      BY <2>1, <2>2, <1>0, <1>3
    <3>2. QED  BY <3>1, <1>5 DEF ToSet
  <2>3. CASE i > p
    <3>1. i - 1 \in 1..Len(s) - 1 /\ ~(i - 1 < p) /\ (i - 1) + 1 = i
      BY <2>1, <2>3, <1>0
    <3>2. r[i - 1] = x
      BY <3>1, <2>1, <1>3
    <3>3. QED  BY <3>1, <3>2, <1>5 DEF ToSet
  <2>4. i # p
    BY <2>1
  <2>5. QED  BY <2>2, <2>3, <2>4
<1>8. RemoveAt(s, p) = r
  BY DEF RemoveAt
<1>9. QED  BY <1>3, <1>4, <1>6, <1>7, <1>8

\* _touch: the key ends up in the order once, at the end, and no other key
\* enters or leaves it.
LEMMA MoveToEndLemma ==
  ASSUME NEW S, NEW s \in Seq(S), NoDuplicates(s), NEW k \in S
  PROVE  /\ MoveToEnd(s, k) \in Seq(S)
         /\ NoDuplicates(MoveToEnd(s, k))
         /\ ToSet(MoveToEnd(s, k)) = ToSet(s) \cup {k}
<1> DEFINE p == CHOOSE i \in 1..Len(s) : s[i] = k
           r == IF Contains(s, k) THEN RemoveAt(s, p) ELSE s
<1>1. /\ r \in Seq(S)
      /\ NoDuplicates(r)
      /\ ToSet(r) = ToSet(s) \ {k}
  <2>1. CASE Contains(s, k)
    <3>1. p \in 1..Len(s) /\ s[p] = k
      BY <2>1 DEF Contains
    <3>2. QED  BY <2>1, <3>1, RemoveAtLemma
  <2>2. CASE ~Contains(s, k)
    <3>1. DOMAIN s = 1..Len(s)
      BY LenProperties
    <3>2. k \notin ToSet(s)
      BY <2>2, <3>1 DEF Contains, ToSet
    <3>3. QED  BY <2>2, <3>2
  <2>3. QED  BY <2>1, <2>2
<1> HIDE DEF p, r
<1>2. /\ Append(r, k) \in Seq(S)
      /\ Len(Append(r, k)) = Len(r) + 1
      /\ \A i \in 1..Len(r) : Append(r, k)[i] = r[i]
      /\ Append(r, k)[Len(r) + 1] = k
  BY <1>1, AppendProperties
<1>3. Len(r) \in Nat /\ DOMAIN r = 1..Len(r) /\ DOMAIN Append(r, k) = 1..Len(r) + 1
  BY <1>1, <1>2, LenProperties
<1>4. \A i \in 1..Len(r) : r[i] # k
  BY <1>1, <1>3 DEF ToSet
<1>5. NoDuplicates(Append(r, k))
  BY <1>1, <1>2, <1>3, <1>4 DEF NoDuplicates
<1>6. ToSet(Append(r, k)) = ToSet(r) \cup {k}
  <2>1. ToSet(Append(r, k)) \subseteq ToSet(r) \cup {k}
    BY <1>2, <1>3 DEF ToSet
  <2>2. k \in ToSet(Append(r, k))
    BY <1>2, <1>3 DEF ToSet
  <2>3. ToSet(r) \subseteq ToSet(Append(r, k))
    BY <1>2, <1>3 DEF ToSet
  <2>4. QED  BY <2>1, <2>2, <2>3
<1>7. MoveToEnd(s, k) = Append(r, k)
  BY DEF MoveToEnd, p, r
<1>8. k \in ToSet(s) \/ k \notin ToSet(s)
  OBVIOUS
<1>9. QED  BY <1>1, <1>2, <1>5, <1>6, <1>7

\* How many keys there are: as many as the recency order is long.
LEMMA CardinalityLemma ==
  ASSUME NEW S, NEW s \in Seq(S), NoDuplicates(s)
  PROVE  IsFiniteSet(ToSet(s)) /\ Cardinality(ToSet(s)) = Len(s)
<1>1. Len(s) \in Nat /\ s \in [1..Len(s) -> S] /\ DOMAIN s = 1..Len(s)
  BY LenProperties
<1>2. s \in Bijection(1..Len(s), ToSet(s))
  BY <1>1 DEF Bijection, Injection, Surjection, IsInjective, ToSet, NoDuplicates
<1>3. ExistsBijection(1..Len(s), ToSet(s))
  BY <1>2 DEF ExistsBijection
<1>4. QED  BY <1>1, <1>3, FS_CountingElements, FS_NatBijection

\* What is left of the recency order when its n oldest keys are dropped.
LEMMA DropLemma ==
  ASSUME NEW S, NEW s \in Seq(S), NoDuplicates(s), NEW n \in 0..Len(s)
  PROVE  LET r == SubSeq(s, n + 1, Len(s))
         IN  /\ r \in Seq(S)
             /\ Len(r) = Len(s) - n
             /\ NoDuplicates(r)
             /\ ToSet(r) = ToSet(s) \ {s[i] : i \in 1..n}
<1> DEFINE r == SubSeq(s, n + 1, Len(s))
<1>1. Len(s) \in Nat /\ DOMAIN s = 1..Len(s) /\ \A i \in 1..Len(s) : s[i] \in S
  BY LenProperties, ElementOfSeq
<1>2. /\ r \in Seq(S)
      /\ Len(r) = IF n + 1 <= Len(s) THEN Len(s) - (n + 1) + 1 ELSE 0
      /\ \A i \in 1..Len(s) - (n + 1) + 1 : r[i] = s[(n + 1) + i - 1]
  <2>1. n + 1 \in Int /\ Len(s) \in Int /\ \A i \in n + 1..Len(s) : s[i] \in S
    BY <1>1
  <2>2. QED  BY <2>1, SubSeqProperties
<1> HIDE DEF r
<1>3. Len(r) = Len(s) - n /\ DOMAIN r = 1..Len(s) - n
  <2>1. Len(r) = Len(s) - n
    <3>1. n \in Nat /\ Len(s) \in Nat /\ n <= Len(s)
      BY <1>1
    <3>2. Len(r) = IF n + 1 <= Len(s) THEN Len(s) - (n + 1) + 1 ELSE 0
      BY <1>2
    <3>3. QED  BY <3>1, <3>2
  <2>2. DOMAIN r = 1..Len(r)
    BY <1>2, LenProperties
  <2>3. QED  BY <2>1, <2>2
<1>4. ASSUME NEW i \in 1..Len(s) - n
      PROVE  r[i] = s[n + i]
  <2>1. i \in 1..Len(s) - (n + 1) + 1 /\ (n + 1) + i - 1 = n + i
    BY <1>1
  <2>2. r[i] = s[(n + 1) + i - 1]
    BY <2>1, <1>2
  <2>3. QED  BY <2>1, <2>2
<1>5. NoDuplicates(r)
  <2>1. SUFFICES ASSUME NEW i \in 1..Len(s) - n, NEW j \in 1..Len(s) - n, r[i] = r[j]
                 PROVE  i = j
    BY <1>3 DEF NoDuplicates
  <2>2. n + i \in 1..Len(s) /\ n + j \in 1..Len(s)
    BY <1>1
  <2>3. s[n + i] = s[n + j]
    BY <2>1, <1>4
  <2>4. n + i = n + j
    BY <2>2, <2>3 DEF NoDuplicates
  <2>5. QED  BY <2>4, <1>1
<1>6. ToSet(r) \subseteq ToSet(s) \ {s[i] : i \in 1..n}
  <2>1. SUFFICES ASSUME NEW i \in 1..Len(s) - n
                 PROVE  s[n + i] \in ToSet(s) \ {s[j] : j \in 1..n}
    BY <1>3, <1>4 DEF ToSet
  <2>2. n + i \in 1..Len(s)
    BY <1>1
  <2>3. ASSUME NEW j \in 1..n
        PROVE  s[n + i] # s[j]
    <3>1. j \in 1..Len(s) /\ j # n + i
      BY <1>1
    <3>2. QED  BY <2>2, <3>1 DEF NoDuplicates
  <2>4. QED  BY <2>2, <2>3, <1>1 DEF ToSet
<1>7. ToSet(s) \ {s[i] : i \in 1..n} \subseteq ToSet(r)
  <2>1. SUFFICES ASSUME NEW i \in 1..Len(s), i \notin 1..n
                 PROVE  s[i] \in ToSet(r)
    BY <1>1 DEF ToSet
  <2>2. i - n \in 1..Len(s) - n /\ n + (i - n) = i
    BY <2>1, <1>1
  <2>3. r[i - n] = s[i]
    BY <2>2, <1>4
  <2>4. QED  BY <2>2, <2>3, <1>3 DEF ToSet
<1>8. QED  BY <1>2, <1>3, <1>5, <1>6, <1>7 DEF r

-----------------------------------------------------------------------------
\* An empty table describes no entries and is within its limit.
LEMMA EmptyTableLemma ==
  ASSUME NEW V
  PROVE  Shape(EmptyTable, V) /\ WithinLimit(EmptyTable)
<1> DEFINE t == EmptyTable
<1>1. /\ t.v2i = EmptyMap /\ t.i2v = EmptyMap /\ t.lru = <<>> /\ t.seen = EmptyMap
      /\ t.next = 1
      /\ t = [v2i |-> t.v2i, i2v |-> t.i2v, lru |-> t.lru, seen |-> t.seen, next |-> t.next]
  BY DEF EmptyTable
<1>2. DOMAIN EmptyMap = {} /\ \A S : EmptyMap \in [{} -> S]
  BY DEF EmptyMap
<1> HIDE DEF t
<1>3. <<>> \in Seq(KeysOf(V)) /\ Len(<<>>) = 0
  BY EmptySeq
<1>4. IsTable(t, V)
  BY <1>1, <1>2, <1>3 DEF IsTable
<1>5. Bijective(t)
  BY <1>1, <1>2 DEF Bijective
<1>6. LruMatches(t)
  <2>1. DOMAIN <<>> = {}
    BY <1>3, LenProperties
  <2>2. QED  BY <1>1, <1>2, <1>3, <2>1 DEF LruMatches, ToSet
<1>7. WithinLimit(t)
  BY <1>1, <1>2, FS_EmptySet, TablesAssumption DEF WithinLimit
<1>8. QED  BY <1>4, <1>5, <1>6, <1>7 DEF Shape, t

\* _touch of a key the table has.
LEMMA TouchLemma ==
  ASSUME NEW V, NEW t, Shape(t, V), NEW k \in DOMAIN t.v2i
  PROVE  /\ Shape(Touch(t, k), V)
         /\ Touch(t, k) = [t EXCEPT !.lru = MoveToEnd(t.lru, k)]
<1> DEFINE u == Touch(t, k)
<1>1. k \in KeysOf(V)
  BY DEF Shape, IsTable
<1>2. /\ MoveToEnd(t.lru, k) \in Seq(KeysOf(V))
      /\ NoDuplicates(MoveToEnd(t.lru, k))
      /\ ToSet(MoveToEnd(t.lru, k)) = ToSet(t.lru) \cup {k}
  BY <1>1, MoveToEndLemma DEF Shape, IsTable, LruMatches, NoDuplicates
<1>3. u = [v2i |-> t.v2i, i2v |-> t.i2v, lru |-> MoveToEnd(t.lru, k),
           seen |-> t.seen, next |-> t.next]
  BY DEF Touch, Shape, IsTable
<1> HIDE DEF u
<1>4. /\ u.v2i = t.v2i /\ u.i2v = t.i2v /\ u.lru = MoveToEnd(t.lru, k)
      /\ u.seen = t.seen /\ u.next = t.next
  BY <1>3
<1>5. IsTable(u, V)
  BY <1>2, <1>3, <1>4 DEF Shape, IsTable
<1>6. Bijective(u)
  BY <1>4 DEF Shape, Bijective
<1>7. LruMatches(u)
  <2>1. ToSet(t.lru) \cup {k} = DOMAIN t.v2i
    BY DEF Shape, LruMatches
  <2>2. QED  BY <1>2, <1>4, <2>1 DEF LruMatches, NoDuplicates
<1>8. QED  BY <1>5, <1>6, <1>7 DEF Shape, u, Touch

\* A hashable value the table does not know gets the next id.
LEMMA InsertLemma ==
  ASSUME NEW V, NEW t, Shape(t, V), NEW v \in V, Hashable(v), ~Known(t, v)
  PROVE  LET u == Insert(t, v)
         IN  /\ Shape(u, V)
             /\ u.v2i = Put(t.v2i, Key(v), t.next)
             /\ u.i2v = Put(t.i2v, t.next, v)
             /\ u.seen = t.seen
             /\ u.next = t.next + 1
<1> DEFINE u == Insert(t, v)
           k == Key(v)
<1>1. k \in KeysOf(V) /\ k \notin DOMAIN t.v2i
  BY DEF KeysOf, Known
<1>2. t.next \in Nat \ {0} /\ t.next \notin DOMAIN t.i2v
  BY DEF Shape, IsTable
<1>3. /\ MoveToEnd(t.lru, k) \in Seq(KeysOf(V))
      /\ NoDuplicates(MoveToEnd(t.lru, k))
      /\ ToSet(MoveToEnd(t.lru, k)) = ToSet(t.lru) \cup {k}
  BY <1>1, MoveToEndLemma DEF Shape, IsTable, LruMatches, NoDuplicates
<1>4. u = [v2i |-> Put(t.v2i, k, t.next), i2v |-> Put(t.i2v, t.next, v),
           lru |-> MoveToEnd(t.lru, k), seen |-> t.seen, next |-> t.next + 1]
  BY DEF Insert
<1> HIDE DEF u
<1>5. /\ u.v2i = Put(t.v2i, k, t.next) /\ u.i2v = Put(t.i2v, t.next, v)
      /\ u.lru = MoveToEnd(t.lru, k) /\ u.seen = t.seen /\ u.next = t.next + 1
  BY <1>4
<1> HIDE DEF k
<1>6. /\ DOMAIN u.v2i = DOMAIN t.v2i \cup {k}
      /\ u.v2i[k] = t.next
      /\ \A j \in DOMAIN t.v2i : u.v2i[j] = t.v2i[j]
  BY <1>1, <1>5 DEF Put
<1>7. /\ DOMAIN u.i2v = DOMAIN t.i2v \cup {t.next}
      /\ u.i2v[t.next] = v
      /\ \A id \in DOMAIN t.i2v : u.i2v[id] = t.i2v[id]
  BY <1>2, <1>5 DEF Put
<1>8. IsTable(u, V)
  <2>1. DOMAIN u.v2i \subseteq KeysOf(V) /\ u.next \in Nat \ {0}
    BY <1>1, <1>2, <1>5, <1>6 DEF Shape, IsTable
  <2>2. u.v2i \in [DOMAIN u.v2i -> 1..u.next - 1]
    <3>1. u.v2i = [j \in DOMAIN u.v2i |-> u.v2i[j]]
      BY <1>5, <1>6 DEF Put
    <3>2. ASSUME NEW j \in DOMAIN u.v2i  PROVE u.v2i[j] \in 1..u.next - 1
      BY <1>2, <1>5, <1>6 DEF Shape, IsTable
    <3>3. QED  BY <3>1, <3>2
  <2>3. DOMAIN u.i2v \subseteq 1..u.next - 1
    BY <1>2, <1>5, <1>7 DEF Shape, IsTable
  <2>4. u.i2v \in [DOMAIN u.i2v -> {w \in V : Hashable(w)}]
    <3>1. u.i2v = [id \in DOMAIN u.i2v |-> u.i2v[id]]
      BY <1>5, <1>7 DEF Put
    <3>2. ASSUME NEW id \in DOMAIN u.i2v  PROVE u.i2v[id] \in {w \in V : Hashable(w)}
      BY <1>7 DEF Shape, IsTable
    <3>3. QED  BY <3>1, <3>2
  <2>5. QED  BY <1>3, <1>4, <1>5, <2>1, <2>2, <2>3, <2>4 DEF Shape, IsTable
<1>9. Bijective(u)
  <2>1. ASSUME NEW j \in DOMAIN u.v2i
        PROVE  u.v2i[j] \in DOMAIN u.i2v /\ Key(u.i2v[u.v2i[j]]) = j
    <3>1. CASE j = k
      BY <3>1, <1>6, <1>7 DEF k
    <3>2. CASE j \in DOMAIN t.v2i
      BY <3>2, <1>6, <1>7 DEF Shape, Bijective
    <3>3. QED  BY <3>1, <3>2, <1>6
  <2>2. ASSUME NEW id \in DOMAIN u.i2v
        PROVE  \E j \in DOMAIN u.v2i : u.v2i[j] = id
    <3>1. CASE id = t.next
      BY <3>1, <1>6
    <3>2. CASE id \in DOMAIN t.i2v
      BY <3>2, <1>6 DEF Shape, Bijective
    <3>3. QED  BY <3>1, <3>2, <1>7
  <2>3. QED  BY <2>1, <2>2 DEF Bijective
<1>10. LruMatches(u)
  <2>1. ToSet(t.lru) \cup {k} = DOMAIN u.v2i
    BY <1>6 DEF Shape, LruMatches
  <2>2. QED  BY <1>3, <1>5, <2>1 DEF LruMatches, NoDuplicates
<1>11. QED  BY <1>5, <1>8, <1>9, <1>10 DEF Shape, u, k

\* _evict_if_needed: the dicts and the order lose the same entries, and the table
\* is within max_entries whatever its size was.
LEMMA EvictLemma ==
  ASSUME NEW V, NEW t, Shape(t, V)
  PROVE  LET u == EvictIfNeeded(t)
         IN  /\ Shape(u, V)
             /\ WithinLimit(u)
             /\ DOMAIN u.v2i = DOMAIN t.v2i \ {t.lru[i] : i \in 1..Excess(t)}
             /\ \A k \in DOMAIN u.v2i : u.v2i[k] = t.v2i[k]
             /\ DOMAIN u.i2v \subseteq DOMAIN t.i2v
             /\ \A id \in DOMAIN u.i2v : u.i2v[id] = t.i2v[id]
             /\ u.seen = t.seen
             /\ u.next = t.next
<1> DEFINE u == EvictIfNeeded(t)
           n == Excess(t)
           D == {t.lru[i] : i \in 1..n}
           G == {t.v2i[k] : k \in D}
<1>1. /\ t.lru \in Seq(KeysOf(V)) /\ NoDuplicates(t.lru)
      /\ ToSet(t.lru) = DOMAIN t.v2i
      /\ Len(t.lru) \in Nat
      /\ DOMAIN t.lru = 1..Len(t.lru)
  BY LenProperties DEF Shape, IsTable, LruMatches, NoDuplicates
<1>2. Cardinality(DOMAIN t.v2i) = Len(t.lru)
  BY <1>1, CardinalityLemma
<1>3. /\ n \in 0..Len(t.lru)
      /\ Len(t.lru) - n <= MaxEntries
  <2>1. MaxEntries \in Nat
    BY TablesAssumption
  <2>2. n = Max({0, Len(t.lru) - MaxEntries})
    BY <1>2 DEF Excess
  <2>3. CASE Len(t.lru) - MaxEntries >= 0
    <3>1. Max({0, Len(t.lru) - MaxEntries}) = Len(t.lru) - MaxEntries
      BY <1>1, <2>1, <2>3 DEF Max
    <3>2. QED  BY <1>1, <2>1, <2>2, <2>3, <3>1
  <2>4. CASE Len(t.lru) - MaxEntries < 0
    <3>1. Max({0, Len(t.lru) - MaxEntries}) = 0
      BY <1>1, <2>1, <2>4 DEF Max
    <3>2. QED  BY <1>1, <2>1, <2>2, <2>4, <3>1
  <2>5. QED  BY <1>1, <2>1, <2>3, <2>4
<1>4. u = [v2i |-> Restrict(t.v2i, DOMAIN t.v2i \ D),
           i2v |-> Restrict(t.i2v, DOMAIN t.i2v \ G),
           lru |-> SubSeq(t.lru, n + 1, Len(t.lru)), seen |-> t.seen, next |-> t.next]
  BY DEF EvictIfNeeded
<1> HIDE DEF u, n
<1>5. /\ u.v2i = Restrict(t.v2i, DOMAIN t.v2i \ D)
      /\ u.i2v = Restrict(t.i2v, DOMAIN t.i2v \ G)
      /\ u.lru = SubSeq(t.lru, n + 1, Len(t.lru))
      /\ u.seen = t.seen /\ u.next = t.next
  BY <1>4
<1>6. /\ u.lru \in Seq(KeysOf(V))
      /\ Len(u.lru) = Len(t.lru) - n
      /\ NoDuplicates(u.lru)
      /\ ToSet(u.lru) = DOMAIN t.v2i \ D
  BY <1>1, <1>3, <1>5, DropLemma
<1>7. D \subseteq DOMAIN t.v2i
  BY <1>1, <1>3 DEF ToSet
<1> HIDE DEF D
<1>8. /\ DOMAIN u.v2i = DOMAIN t.v2i \ D
      /\ \A k \in DOMAIN u.v2i : u.v2i[k] = t.v2i[k]
      /\ DOMAIN u.i2v = DOMAIN t.i2v \ G
      /\ \A id \in DOMAIN u.i2v : u.i2v[id] = t.i2v[id]
  BY <1>5 DEF Restrict
<1>9. IsTable(u, V)
  <2>1. u.v2i \in [DOMAIN u.v2i -> 1..u.next - 1]
    BY <1>5, <1>8 DEF Shape, IsTable, Restrict
  <2>2. u.i2v \in [DOMAIN u.i2v -> {w \in V : Hashable(w)}]
    BY <1>5, <1>8 DEF Shape, IsTable, Restrict
  <2>3. QED  BY <1>4, <1>5, <1>6, <1>8, <2>1, <2>2 DEF Shape, IsTable
<1>10. Bijective(u)
  <2>1. ASSUME NEW k \in DOMAIN u.v2i
        PROVE  u.v2i[k] \in DOMAIN u.i2v /\ Key(u.i2v[u.v2i[k]]) = k
    <3>1. k \in DOMAIN t.v2i /\ k \notin D /\ u.v2i[k] = t.v2i[k]
      BY <1>8
    <3>2. t.v2i[k] \in DOMAIN t.i2v /\ Key(t.i2v[t.v2i[k]]) = k
      BY <3>1 DEF Shape, Bijective
    <3>3. ASSUME NEW j \in D  PROVE t.v2i[j] # t.v2i[k]
      <4>1. Key(t.i2v[t.v2i[j]]) = j
        BY <1>7 DEF Shape, Bijective
      <4>2. QED  BY <3>1, <3>2, <4>1
    <3>4. t.v2i[k] \notin G
      BY <3>3
    <3>5. QED  BY <3>1, <3>2, <3>4, <1>8
  <2>2. ASSUME NEW id \in DOMAIN u.i2v
        PROVE  \E k \in DOMAIN u.v2i : u.v2i[k] = id
    <3>1. id \in DOMAIN t.i2v /\ id \notin G
      BY <1>8
    <3>2. PICK k \in DOMAIN t.v2i : t.v2i[k] = id
      BY <3>1 DEF Shape, Bijective
    <3>3. k \notin D
      BY <3>1, <3>2
    <3>4. QED  BY <3>2, <3>3, <1>8
  <2>3. QED  BY <2>1, <2>2 DEF Bijective
<1>11. LruMatches(u)
  BY <1>6, <1>8 DEF LruMatches, NoDuplicates
<1>12. WithinLimit(u)
  BY <1>3, <1>6, <1>8, CardinalityLemma DEF WithinLimit
<1>13. QED  BY <1>5, <1>8, <1>9, <1>10, <1>11, <1>12 DEF Shape, u, D, n

-----------------------------------------------------------------------------
\* What an operation may do to the ids: those in use keep their value, and what
\* comes in was never given out.
KeepsIds(t, u) ==
  \A id \in DOMAIN u.i2v :
     IF id \in DOMAIN t.i2v THEN u.i2v[id] = t.i2v[id] ELSE id >= t.next

\* Touching an entry: get_value, and get_id and maybe_learn of a known value.
LEMMA TouchKeeps ==
  ASSUME NEW V, NEW t, Shape(t, V), NEW k \in DOMAIN t.v2i
  PROVE  LET u == Touch(t, k)
         IN  /\ Shape(u, V)
             /\ u.v2i = t.v2i /\ u.i2v = t.i2v /\ u.seen = t.seen /\ u.next = t.next
<1>1. Shape(Touch(t, k), V) /\ Touch(t, k) = [t EXCEPT !.lru = MoveToEnd(t.lru, k)]
  BY TouchLemma
<1>2. t = [v2i |-> t.v2i, i2v |-> t.i2v, lru |-> t.lru, seen |-> t.seen, next |-> t.next]
  BY DEF Shape, IsTable
<1>3. QED  BY <1>1, <1>2

\* One literal of preload.
LEMMA PreloadOneLemma ==
  ASSUME NEW V, NEW t, Shape(t, V), NEW v \in V, Hashable(v)
  PROVE  LET u == PreloadOne(t, v)
         IN  /\ Shape(u, V)
             /\ KeepsIds(t, u)
             /\ u.seen = t.seen
             /\ DOMAIN u.v2i \subseteq DOMAIN t.v2i \cup {Key(v)}
             /\ DOMAIN t.i2v \subseteq DOMAIN u.i2v
             /\ u.next >= t.next
<1> DEFINE u == PreloadOne(t, v)
<1>1. CASE Known(t, v)
  <2>1. u = Touch(t, Key(v)) /\ Key(v) \in DOMAIN t.v2i
    BY <1>1 DEF PreloadOne, Known
  <2>2. /\ Shape(u, V)
        /\ u.v2i = t.v2i /\ u.i2v = t.i2v /\ u.seen = t.seen /\ u.next = t.next
    BY <2>1, TouchKeeps
  <2>3. t.next \in Nat
    BY DEF Shape, IsTable
  <2>4. QED  BY <2>2, <2>3 DEF KeepsIds
<1>2. CASE ~Known(t, v)
  <2>1. u = Insert(t, v)
    BY <1>2 DEF PreloadOne
  <2>2. /\ Shape(u, V)
        /\ u.v2i = Put(t.v2i, Key(v), t.next) /\ u.i2v = Put(t.i2v, t.next, v)
        /\ u.seen = t.seen /\ u.next = t.next + 1
    BY <1>2, <2>1, InsertLemma
  <2>3. t.next \in Nat /\ t.next \notin DOMAIN t.i2v
    BY DEF Shape, IsTable
  <2>4. QED  BY <2>2, <2>3 DEF KeepsIds, Put
<1>3. QED  BY <1>1, <1>2

\* Counting a sighting.
LEMMA CountLemma ==
  ASSUME NEW V, NEW t, Shape(t, V), NEW v \in V, Hashable(v)
  PROVE  LET u == Count(t, v)
         IN  /\ Shape(u, V)
             /\ u.v2i = t.v2i /\ u.i2v = t.i2v /\ u.lru = t.lru /\ u.next = t.next
             /\ Sightings(t, v) \in Nat
             /\ DOMAIN u.seen = DOMAIN t.seen \cup {Key(v)}
             /\ u.seen[Key(v)] = Sightings(t, v) + 1
             /\ \A k \in DOMAIN t.seen : k # Key(v) => u.seen[k] = t.seen[k]
<1> DEFINE u == Count(t, v)
           k == Key(v)
<1>1. k \in KeysOf(V)
  BY DEF KeysOf
<1>2. Sightings(t, v) \in Nat
  BY DEF Sightings, Shape, IsTable
<1>3. u = [v2i |-> t.v2i, i2v |-> t.i2v, lru |-> t.lru,
           seen |-> Put(t.seen, k, Sightings(t, v) + 1), next |-> t.next]
  BY DEF Count, Shape, IsTable
<1> HIDE DEF u
<1>4. /\ u.v2i = t.v2i /\ u.i2v = t.i2v /\ u.lru = t.lru /\ u.next = t.next
      /\ u.seen = Put(t.seen, k, Sightings(t, v) + 1)
  BY <1>3
<1> HIDE DEF k
<1>5. /\ DOMAIN u.seen = DOMAIN t.seen \cup {k}
      /\ u.seen[k] = Sightings(t, v) + 1
      /\ \A j \in DOMAIN t.seen : j # k => u.seen[j] = t.seen[j]
  BY <1>4 DEF Put
<1>6. u.seen \in [DOMAIN u.seen -> Nat]
  <2>1. u.seen = [j \in DOMAIN u.seen |-> u.seen[j]]
    BY <1>4, <1>5 DEF Put
  <2>2. ASSUME NEW j \in DOMAIN u.seen  PROVE u.seen[j] \in Nat
    BY <1>2, <1>5 DEF Shape, IsTable
  <2>3. QED  BY <2>1, <2>2
<1>7. IsTable(u, V)
  BY <1>1, <1>3, <1>4, <1>5, <1>6 DEF Shape, IsTable
<1>8. Bijective(u) /\ LruMatches(u)
  BY <1>4 DEF Shape, Bijective, LruMatches
<1>9. QED  BY <1>2, <1>4, <1>5, <1>7, <1>8 DEF Shape, u, k

\* maybe_learn, whichever of its returns it takes.
LEMMA MaybeLearnLemma ==
  ASSUME NEW V, NEW t, Shape(t, V), WithinLimit(t), NEW v \in V, NEW allow \in BOOLEAN
  PROVE  LET u == MaybeLearn(t, v, allow)
         IN  /\ Shape(u, V)
             /\ WithinLimit(u)
             /\ KeepsIds(t, u)
             /\ u.next >= t.next
             /\ \A k \in DOMAIN t.seen : k \in DOMAIN u.seen /\ u.seen[k] >= t.seen[k]
             /\ \A k \in DOMAIN u.v2i \ DOMAIN t.v2i :
                   k \in DOMAIN u.seen /\ u.seen[k] >= LearningThreshold
<1> DEFINE u == MaybeLearn(t, v, allow)
<1>0. t.next \in Nat /\ \A k \in DOMAIN t.seen : t.seen[k] \in Nat
  BY DEF Shape, IsTable
<1>1. CASE ~Hashable(v) \/ (~Known(t, v) /\ ~allow)
  <2>1. u = t
    BY <1>1 DEF MaybeLearn
  <2>2. QED  BY <2>1, <1>0 DEF KeepsIds
<1>2. CASE Hashable(v) /\ Known(t, v)
  <2>1. u = Touch(t, Key(v)) /\ Key(v) \in DOMAIN t.v2i
    BY <1>2 DEF MaybeLearn, Known
  <2>2. /\ Shape(u, V)
        /\ u.v2i = t.v2i /\ u.i2v = t.i2v /\ u.seen = t.seen /\ u.next = t.next
    BY <2>1, TouchKeeps
  <2>3. QED  BY <2>2, <1>0 DEF KeepsIds, WithinLimit
<1>3. CASE Hashable(v) /\ ~Known(t, v) /\ allow
  <2> DEFINE c == Count(t, v)
  <2>1. /\ Shape(c, V)
        /\ c.v2i = t.v2i /\ c.i2v = t.i2v /\ c.lru = t.lru /\ c.next = t.next
        /\ Sightings(t, v) \in Nat
        /\ DOMAIN c.seen = DOMAIN t.seen \cup {Key(v)}
        /\ c.seen[Key(v)] = Sightings(t, v) + 1
        /\ \A k \in DOMAIN t.seen : k # Key(v) => c.seen[k] = t.seen[k]
    BY <1>3, CountLemma
  <2>2. \A k \in DOMAIN t.seen : k \in DOMAIN c.seen /\ c.seen[k] >= t.seen[k]
    BY <2>1, <1>0 DEF Sightings
  <2>3. CASE Sightings(t, v) + 1 < LearningThreshold
    <3>1. u = c
      BY <1>3, <2>3 DEF MaybeLearn
    <3>2. QED  BY <3>1, <2>1, <2>2, <1>0 DEF KeepsIds, WithinLimit
  <2>4. CASE ~(Sightings(t, v) + 1 < LearningThreshold)
    <3> DEFINE w == Insert(c, v)
    <3>1. u = EvictIfNeeded(w)
      BY <1>3, <2>4 DEF MaybeLearn
    <3>2. ~Known(c, v)
      BY <1>3, <2>1 DEF Known
    <3> HIDE DEF c, u
    <3>3. /\ Shape(w, V)
          /\ w.v2i = Put(c.v2i, Key(v), c.next) /\ w.i2v = Put(c.i2v, c.next, v)
          /\ w.seen = c.seen /\ w.next = c.next + 1
      BY <1>3, <2>1, <3>2, InsertLemma
    <3> HIDE DEF w
    <3>4. /\ Shape(u, V) /\ WithinLimit(u)
          /\ DOMAIN u.v2i \subseteq DOMAIN w.v2i
          /\ DOMAIN u.i2v \subseteq DOMAIN w.i2v
          /\ \A id \in DOMAIN u.i2v : u.i2v[id] = w.i2v[id]
          /\ u.seen = w.seen /\ u.next = w.next
      BY <3>1, <3>3, EvictLemma
    <3>5. KeepsIds(t, u)
      <4>1. t.next \notin DOMAIN t.i2v
        BY DEF Shape, IsTable
      <4>2. w.i2v = Put(t.i2v, t.next, v)
        BY <3>3, <2>1
      <4>3. /\ DOMAIN w.i2v = DOMAIN t.i2v \cup {t.next}
            /\ \A id \in DOMAIN t.i2v : w.i2v[id] = t.i2v[id]
        BY <4>1, <4>2 DEF Put
      <4>4. QED  BY <4>3, <3>4, <1>0 DEF KeepsIds
    <3>6. \A k \in DOMAIN u.v2i \ DOMAIN t.v2i :
             k \in DOMAIN u.seen /\ u.seen[k] >= LearningThreshold
      <4>1. DOMAIN u.v2i \subseteq DOMAIN t.v2i \cup {Key(v)}
        BY <3>3, <3>4, <2>1 DEF Put
      <4>2. LearningThreshold \in Nat
        BY TablesAssumption
      <4>3. QED  BY <4>1, <4>2, <3>3, <3>4, <2>1, <2>4
    <3>7. u.next >= t.next
      BY <3>3, <3>4, <2>1, <1>0
    <3>8. QED  BY <3>3, <3>4, <3>5, <3>6, <3>7, <2>2 DEF u
  <2>5. QED  BY <2>3, <2>4
<1>4. QED  BY <1>1, <1>2, <1>3

\* The entry inserted last is the last of the recency order, so the eviction that
\* follows it drops it only if the table may hold nothing at all.
LEMMA NewestSurvives ==
  ASSUME NEW V, NEW t, Shape(t, V), NEW v \in V, Hashable(v), ~Known(t, v), MaxEntries > 0
  PROVE  t.next \in DOMAIN EvictIfNeeded(Insert(t, v)).i2v
<1> DEFINE k == Key(v)
           w == Insert(t, v)
           u == EvictIfNeeded(w)
           D == {w.lru[i] : i \in 1..Excess(w)}
<1>1. /\ Shape(w, V) /\ w.v2i = Put(t.v2i, k, t.next)
  BY InsertLemma
<1>2. /\ Shape(u, V)
      /\ DOMAIN u.v2i = DOMAIN w.v2i \ D
      /\ \A j \in DOMAIN u.v2i : u.v2i[j] = w.v2i[j]
  BY <1>1, EvictLemma
<1>3. k \in DOMAIN w.v2i /\ w.v2i[k] = t.next
  BY <1>1 DEF Put
<1>4. w.lru = MoveToEnd(t.lru, k)
  BY DEF Insert
<1> HIDE DEF w, u, k
<1>5. /\ w.lru \in Seq(KeysOf(V)) /\ NoDuplicates(w.lru)
      /\ ToSet(w.lru) = DOMAIN w.v2i
      /\ Len(w.lru) \in Nat
  BY <1>1, LenProperties DEF Shape, IsTable, LruMatches, NoDuplicates
<1>6. Len(w.lru) > 0 /\ w.lru[Len(w.lru)] = k
  <2> DEFINE r == IF Contains(t.lru, k)
                  THEN RemoveAt(t.lru, CHOOSE i \in 1..Len(t.lru) : t.lru[i] = k) ELSE t.lru
  <2>1. k \notin DOMAIN t.v2i /\ ToSet(t.lru) = DOMAIN t.v2i /\ t.lru \in Seq(KeysOf(V))
    BY DEF Known, k, Shape, LruMatches, IsTable
  <2>2. ~Contains(t.lru, k)
    <3>1. DOMAIN t.lru = 1..Len(t.lru)
      BY <2>1, LenProperties
    <3>2. QED  BY <2>1, <3>1 DEF Contains, ToSet
  <2>3. w.lru = Append(t.lru, k)
    BY <1>4, <2>2 DEF MoveToEnd
  <2>4. k \in KeysOf(V)
    BY DEF k, KeysOf
  <2>5. Len(t.lru) \in Nat
    BY <2>1, LenProperties
  <2>6. QED  BY <2>1, <2>3, <2>4, <2>5, AppendProperties
<1>7. k \notin D
  <2>1. Cardinality(DOMAIN w.v2i) = Len(w.lru)
    BY <1>5, CardinalityLemma
  <2>2. MaxEntries \in Nat /\ Excess(w) \in Int /\ Excess(w) < Len(w.lru)
    <3>1. Excess(w) = Max({0, Len(w.lru) - MaxEntries})
      BY <2>1 DEF Excess
    <3>2. MaxEntries \in Nat
      BY TablesAssumption
    <3>3. CASE Len(w.lru) - MaxEntries >= 0
      <4>1. Max({0, Len(w.lru) - MaxEntries}) = Len(w.lru) - MaxEntries
        BY <1>5, <3>2, <3>3 DEF Max
      <4>2. QED  BY <1>5, <3>1, <3>2, <4>1
    <3>4. CASE Len(w.lru) - MaxEntries < 0
      <4>1. Max({0, Len(w.lru) - MaxEntries}) = 0
        BY <1>5, <3>2, <3>4 DEF Max
      <4>2. QED  BY <1>6, <3>1, <3>2, <4>1
    <3>5. QED  BY <1>5, <3>2, <3>3, <3>4
  <2>3. SUFFICES ASSUME NEW i \in 1..Excess(w)  PROVE w.lru[i] # k
    OBVIOUS
  <2>4. i \in 1..Len(w.lru) /\ Len(w.lru) \in 1..Len(w.lru) /\ i # Len(w.lru)
    BY <1>5, <2>2
  <2>5. QED  BY <1>5, <1>6, <2>4 DEF NoDuplicates
<1>8. k \in DOMAIN u.v2i /\ u.v2i[k] = t.next
  BY <1>2, <1>3, <1>7
<1>9. u.v2i[k] \in DOMAIN u.i2v
  BY <1>2, <1>8 DEF Shape, Bijective
<1>10. QED  BY <1>8, <1>9 DEF u, w

\* The id maybe_learn returns is an id of the table it leaves.
LEMMA LearnedIdLemma ==
  ASSUME NEW V, NEW t, Shape(t, V), NEW v \in V, NEW allow \in BOOLEAN,
         LearnedId(t, v, allow) # NoId, MaxEntries > 0
  PROVE  LearnedId(t, v, allow) \in DOMAIN MaybeLearn(t, v, allow).i2v
<1>1. Hashable(v)
  BY DEF LearnedId
<1>2. CASE Known(t, v)
  <2>1. /\ MaybeLearn(t, v, allow) = Touch(t, Key(v)) /\ Key(v) \in DOMAIN t.v2i
        /\ LearnedId(t, v, allow) = t.v2i[Key(v)]
    BY <1>1, <1>2 DEF MaybeLearn, LearnedId, Known
  <2>2. Touch(t, Key(v)).i2v = t.i2v
    BY <2>1, TouchKeeps
  <2>3. t.v2i[Key(v)] \in DOMAIN t.i2v
    BY <2>1 DEF Shape, Bijective
  <2>4. QED  BY <2>1, <2>2, <2>3
<1>3. CASE ~Known(t, v)
  <2> DEFINE c == Count(t, v)
  <2>1. allow /\ Sightings(t, v) + 1 >= LearningThreshold /\ LearnedId(t, v, allow) = t.next
    BY <1>1, <1>3 DEF LearnedId
  <2>2. Shape(c, V) /\ c.v2i = t.v2i /\ c.next = t.next /\ Sightings(t, v) \in Nat
    BY <1>1, CountLemma
  <2>3. MaybeLearn(t, v, allow) = EvictIfNeeded(Insert(c, v))
    BY <1>1, <1>3, <2>1, <2>2, TablesAssumption DEF MaybeLearn
  <2>4. ~Known(c, v)
    BY <1>3, <2>2 DEF Known
  <2> HIDE DEF c
  <2>5. c.next \in DOMAIN EvictIfNeeded(Insert(c, v)).i2v
    BY <1>1, <2>2, <2>4, NewestSurvives
  <2>6. QED  BY <2>1, <2>2, <2>3, <2>5
<1>4. QED  BY <1>2, <1>3
=============================================================================
