---------------------------- MODULE DuplexProofs ----------------------------
(***************************************************************************)
(* Theorems about DuplexSession: for any schemas, enums, messages and      *)
(* limits, and however often the two negotiate, reset and speak, the       *)
(* application that keeps its rules reads what was said, and the value     *)
(* tables of the two sessions agree when all was read.                     *)
(*                                                                         *)
(* What a message becomes and what is read from it are folds, over the     *)
(* fields and over the items; that one undoes the other is shown first, by *)
(* induction over sets, for which no theorem with an operator is needed.   *)
(***************************************************************************)
EXTENDS DuplexSession, CodecProofs, WellFoundedInduction

(***************************************************************************)
(* Induction, over sets of numbers and of finite sets.                     *)
(***************************************************************************)
LEMMA NumberInduction ==
  ASSUME NEW P, 0 \in P, \A n \in Nat : n \in P => n + 1 \in P
  PROVE  \A n \in Nat : n \in P
<1> SUFFICES ASSUME Nat \ P # {}  PROVE FALSE
  OBVIOUS
<1>1. PICK x \in Nat \ P : \A y \in Nat \ P : ~(<<y, x>> \in OpToRel(<, Nat))
  BY NatLessThanWellFounded, WFMin
<1>2. x \in Nat /\ x # 0 /\ x - 1 \in Nat /\ x - 1 < x
  OBVIOUS
<1>3. x - 1 \in P
  BY <1>1, <1>2 DEF OpToRel
<1>4. (x - 1) + 1 \in P
  BY <1>2, <1>3
<1>5. QED  BY <1>2, <1>4

\* A finite set of numbers has a largest one.
LEMMA MaxLemma ==
  ASSUME NEW S \in SUBSET Nat, IsFiniteSet(S), S # {}
  PROVE  Max(S) \in S /\ \A x \in S : x <= Max(S)
<1> DEFINE Topped(T) == \E x \in T : \A y \in T : x >= y
           P == {n \in Nat : \A T \in SUBSET Nat :
                   IsFiniteSet(T) /\ Cardinality(T) = n /\ T # {} => Topped(T)}
<1>1. 0 \in P
  BY FS_EmptySet
<1>2. ASSUME NEW n \in Nat, n \in P  PROVE n + 1 \in P
  <2>1. SUFFICES ASSUME NEW T \in SUBSET Nat, IsFiniteSet(T), Cardinality(T) = n + 1, T # {}
                 PROVE  Topped(T)
    OBVIOUS
  <2>2. PICK x \in T : TRUE
    BY <2>1
  <2>3. IsFiniteSet(T \ {x}) /\ Cardinality(T \ {x}) = n
    <3>1. IsFiniteSet(T \ {x}) /\ Cardinality(T \ {x}) = Cardinality(T) - 1
      BY <2>1, <2>2, FS_RemoveElement
    <3>2. QED  BY <2>1, <3>1
  <2>4. CASE T \ {x} = {}
    BY <2>4
  <2>5. CASE T \ {x} # {}
    <3>1. Topped(T \ {x})
      BY <1>2, <2>3, <2>5
    <3>2. PICK y \in T \ {x} : \A z \in T \ {x} : y >= z
      BY <3>1
    <3>3. x \in Nat /\ y \in Nat /\ \A z \in T : z \in Nat
      BY <2>1
    <3>4. CASE x >= y
      BY <3>2, <3>3, <3>4
    <3>5. CASE ~(x >= y)
      BY <3>2, <3>3, <3>5
    <3>6. QED  BY <3>4, <3>5
  <2>6. QED  BY <2>4, <2>5
<1> HIDE DEF P
<1>3. \A n \in Nat : n \in P
  BY <1>1, <1>2, NumberInduction
<1>4. Cardinality(S) \in P
  BY <1>3, FS_CardinalityType
<1>5. Topped(S)
  BY <1>4 DEF P
<1>6. QED  BY <1>5 DEF Max

\* What holds of the empty set, and of a set if it holds without its largest
\* number, holds of every finite set of numbers.
LEMMA SetInduction ==
  ASSUME NEW S \in SUBSET Nat, IsFiniteSet(S), NEW P, {} \in P,
         \A T \in SUBSET S : T # {} /\ T \ {Max(T)} \in P => T \in P
  PROVE  \A T \in SUBSET S : T \in P
<1> DEFINE Q == {n \in Nat : \A T \in SUBSET S : Cardinality(T) = n => T \in P}
<1>0. \A T \in SUBSET S : IsFiniteSet(T) /\ Cardinality(T) \in Nat
  BY FS_Subset, FS_CardinalityType
<1>1. 0 \in Q
  <2>1. \A T \in SUBSET S : Cardinality(T) = 0 => T = {}
    BY <1>0, FS_EmptySet
  <2>2. QED  BY <2>1
<1>2. ASSUME NEW n \in Nat, n \in Q  PROVE n + 1 \in Q
  <2>1. SUFFICES ASSUME NEW T \in SUBSET S, Cardinality(T) = n + 1  PROVE T \in P
    OBVIOUS
  <2>2. T # {}
    <3>1. Cardinality({}) = 0 /\ n + 1 # 0
      BY <1>2, FS_EmptySet
    <3>2. QED  BY <2>1, <3>1
  <2>3. Max(T) \in T
    BY <1>0, <2>2, MaxLemma
  <2>4. Cardinality(T \ {Max(T)}) = n
    <3>1. Cardinality(T \ {Max(T)}) = Cardinality(T) - 1
      BY <1>0, <2>3, FS_RemoveElement
    <3>2. QED  BY <1>2, <2>1, <3>1
  <2>5. QED  BY <1>2, <2>2, <2>4
<1> HIDE DEF Q
<1>3. \A n \in Nat : n \in Q
  BY <1>1, <1>2, NumberInduction
<1>4. QED  BY <1>0, <1>3 DEF Q
-----------------------------------------------------------------------------
(***************************************************************************)
(* Folds.  Write and Read are folds, by functions on the sets of fields    *)
(* and of places; what is used of them is how they go on from the largest. *)
(***************************************************************************)
Begun(c) == [codec |-> c, items |-> <<>>]

\* The function MapThenFoldSet chooses.
WriteIter(g, c, m, S) ==
  g = [T \in SUBSET S |->
         IF T = {} THEN Begun(c) ELSE WriteField(m, Max(T), g[T \ {Max(T)}])]

LEMMA WriteFold ==
  ASSUME NEW c, NEW m, IsFiniteSet(DOMAIN m), DOMAIN m \subseteq Nat
  PROVE  \E g : WriteIter(g, c, m, DOMAIN m) /\ Write(c, m) = g[DOMAIN m]
<1> DEFINE S == DOMAIN m
           Below(n) == {T \in SUBSET S : \A x \in T : x < n}
           Iter(g, n) == g = [T \in Below(n) |->
                                IF T = {} THEN Begun(c)
                                ELSE WriteField(m, Max(T), g[T \ {Max(T)}])]
           P == {n \in Nat : \E g : Iter(g, n)}
<1>0. \A T \in SUBSET S : T # {} => Max(T) \in T /\ \A x \in T : x <= Max(T)
  <2>1. \A T \in SUBSET S : IsFiniteSet(T) /\ T \in SUBSET Nat
    BY FS_Subset
  <2>2. QED  BY <2>1, MaxLemma
<1>1. 0 \in P
  <2> DEFINE g == [T \in Below(0) |-> Begun(c)]
  <2>1. \A T \in Below(0) : T = {}
    OBVIOUS
  <2>2. Iter(g, 0)
    BY <2>1
  <2>3. QED  BY <2>2
<1>2. ASSUME NEW n \in Nat, n \in P  PROVE n + 1 \in P
  <2>1. PICK g : Iter(g, n)
    BY <1>2
  <2> DEFINE h == [T \in Below(n + 1) |->
                     IF n \in T THEN WriteField(m, n, g[T \ {n}]) ELSE g[T]]
  <2>2. ASSUME NEW T \in Below(n + 1)
        PROVE  h[T] = IF T = {} THEN Begun(c) ELSE WriteField(m, Max(T), h[T \ {Max(T)}])
    <3>1. \A x \in T : x \in Nat /\ x <= n
      OBVIOUS
    <3>2. CASE n \in T
      <4>1. Max(T) = n
        <5>1. T \in SUBSET S /\ T # {}
          BY <3>2
        <5>2. Max(T) \in T /\ n <= Max(T)
          BY <1>0, <3>2, <5>1
        <5>3. QED  BY <3>1, <5>2
      <4>2. T \ {n} \in Below(n) /\ T \ {n} \in Below(n + 1) /\ n \notin T \ {n}
        BY <3>1
      <4>3. h[T \ {n}] = g[T \ {n}]
        BY <4>2
      <4>4. h[T] = WriteField(m, n, g[T \ {n}])
        BY <3>2
      <4>5. QED  BY <3>2, <4>1, <4>3, <4>4
    <3>3. CASE n \notin T
      <4>1. T \in Below(n)
        BY <3>1, <3>3
      <4>2. h[T] = g[T]
        BY <3>3
      <4>3. g[T] = IF T = {} THEN Begun(c) ELSE WriteField(m, Max(T), g[T \ {Max(T)}])
        BY <2>1, <4>1
      <4>4. T \ {Max(T)} \in Below(n + 1) /\ n \notin T \ {Max(T)}
        BY <3>1, <3>3
      <4>5. h[T \ {Max(T)}] = g[T \ {Max(T)}]
        BY <4>4
      <4>6. QED  BY <4>2, <4>3, <4>5
    <3>4. QED  BY <3>2, <3>3
  <2>3. Iter(h, n + 1)
    BY <2>2
  <2>4. n + 1 \in Nat
    OBVIOUS
  <2> HIDE DEF h, Iter, Below
  <2>5. QED  BY <2>3, <2>4
<1> HIDE DEF P
<1>3. \A n \in Nat : n \in P
  BY <1>1, <1>2, NumberInduction
<1>4. PICK N \in Nat : \A x \in S : x < N
  <2>1. CASE S = {}
    BY <2>1
  <2>2. CASE S # {}
    <3>1. Max(S) \in Nat /\ \A x \in S : x \in Nat /\ x <= Max(S)
      BY <1>0, <2>2
    <3>2. Max(S) + 1 \in Nat /\ \A x \in S : x < Max(S) + 1
      BY <3>1
    <3>3. QED  BY <3>2
  <2>3. QED  BY <2>1, <2>2
<1>5. Below(N) = SUBSET S
  BY <1>4
<1>6. PICK g : Iter(g, N)
  BY <1>3 DEF P
<1>7. WriteIter(g, c, m, S)
  BY <1>5, <1>6 DEF WriteIter
<1> DEFINE i == CHOOSE j : WriteIter(j, c, m, S)
<1>8. WriteIter(i, c, m, S)
  BY <1>7
<1>9. Write(c, m) = i[S]
  BY DEF Write, MapThenFoldSet, WriteIter, Begun
<1>10. QED  BY <1>8, <1>9

Unread(c) == [codec |-> c, raised |-> FALSE, fields |-> EmptyMap]

\* The function FoldLeft chooses.
ReadIter(g, c, items, S) ==
  g = [T \in SUBSET S |->
         IF T = {} THEN Unread(c) ELSE ReadItem(g[T \ {Max(T)}], items[Max(T)])]

\* Read goes through the items in order: h[k] is where it is after k of them.
ReadPath(h, c, items) ==
  /\ h = [k \in 0..Len(items) |-> h[k]]
  /\ h[0] = Unread(c)
  /\ \A k \in 1..Len(items) : h[k] = ReadItem(h[k - 1], items[k])

LEMMA ReadFold ==
  ASSUME NEW c, NEW items, Len(items) \in Nat, DOMAIN items = 1..Len(items)
  PROVE  \E h : ReadPath(h, c, items) /\ Read(c, items) = h[Len(items)]
<1> DEFINE S == 1..Len(items)
           Iter(g, n) == ReadIter(g, c, items, 1..n)
           P == {n \in Nat : \E g : Iter(g, n)}
<1>0. ASSUME NEW n \in Nat, NEW T \in SUBSET (1..n), T # {}
      PROVE  Max(T) \in T /\ \A x \in T : x <= Max(T)
  <2>0. IsFiniteSet(1..n)
    BY FS_Interval
  <2>1. IsFiniteSet(T)
    BY <1>0, <2>0, FS_Subset
  <2>2. T \in SUBSET Nat
    BY <1>0
  <2>3. QED  BY <1>0, <2>1, <2>2, MaxLemma
<1>1. 0 \in P
  <2> DEFINE g == [T \in SUBSET (1..0) |-> Unread(c)]
  <2>1. 1..0 = {}
    OBVIOUS
  <2>2. Iter(g, 0)
    BY <2>1 DEF ReadIter
  <2> HIDE DEF g, Iter
  <2>3. QED  BY <2>2
<1>2. ASSUME NEW n \in Nat, n \in P  PROVE n + 1 \in P
  <2>1. PICK g : Iter(g, n)
    BY <1>2
  <2> DEFINE h == [T \in SUBSET (1..n + 1) |->
                     IF n + 1 \in T THEN ReadItem(g[T \ {n + 1}], items[n + 1]) ELSE g[T]]
  <2>2. ASSUME NEW T \in SUBSET (1..n + 1)
        PROVE  h[T] = IF T = {} THEN Unread(c)
                      ELSE ReadItem(h[T \ {Max(T)}], items[Max(T)])
    <3>1. \A x \in T : x \in Nat /\ x <= n + 1
      OBVIOUS
    <3>2. CASE n + 1 \in T
      <4>1. Max(T) = n + 1
        <5>1. n + 1 \in Nat /\ T # {}
          BY <3>2
        <5>2. Max(T) \in T /\ n + 1 <= Max(T)
          BY <1>0, <3>2, <5>1
        <5>3. Max(T) \in Nat /\ Max(T) <= n + 1
          BY <3>1, <5>2
        <5>4. QED  BY <1>2, <5>2, <5>3
      <4>2. T \ {n + 1} \in SUBSET (1..n) /\ n + 1 \notin T \ {n + 1}
        BY <3>1
      <4>3. h[T \ {n + 1}] = g[T \ {n + 1}]
        BY <4>2
      <4>4. h[T] = ReadItem(g[T \ {n + 1}], items[n + 1])
        BY <3>2
      <4>5. QED  BY <3>2, <4>1, <4>3, <4>4
    <3>3. CASE n + 1 \notin T
      <4>1. T \in SUBSET (1..n)
        BY <3>1, <3>3
      <4>2. h[T] = g[T]
        BY <3>3
      <4>3. g[T] = IF T = {} THEN Unread(c) ELSE ReadItem(g[T \ {Max(T)}], items[Max(T)])
        BY <2>1, <4>1 DEF ReadIter
      <4>4. n + 1 \notin T \ {Max(T)} /\ T \ {Max(T)} \in SUBSET (1..n + 1)
        BY <3>3
      <4>5. h[T \ {Max(T)}] = g[T \ {Max(T)}]
        BY <4>4
      <4>6. QED  BY <4>2, <4>3, <4>5
    <3>4. QED  BY <3>2, <3>3
  <2>3. Iter(h, n + 1)
    BY <2>2 DEF ReadIter
  <2>4. n + 1 \in Nat
    OBVIOUS
  <2> HIDE DEF h, Iter
  <2>5. QED  BY <2>3, <2>4
<1> HIDE DEF P
<1>3. \A n \in Nat : n \in P
  BY <1>1, <1>2, NumberInduction
<1>4. PICK g : ReadIter(g, c, items, S)
  BY <1>3 DEF P
<1> DEFINE i == CHOOSE j : ReadIter(j, c, items, S)
<1>5. ReadIter(i, c, items, S)
  BY <1>4
<1>6. Read(c, items) = i[S]
  BY DEF Read, FoldLeft, MapThenFoldSet, ReadIter, Unread
<1> HIDE DEF i
<1> DEFINE h == [k \in 0..Len(items) |-> i[1..k]]
<1>7. h[0] = Unread(c)
  <2>1. 1..0 = {} /\ {} \in SUBSET S
    OBVIOUS
  <2>2. QED  BY <1>5, <2>1 DEF ReadIter
<1>8. ASSUME NEW k \in 1..Len(items)
      PROVE  h[k] = ReadItem(h[k - 1], items[k])
  <2>1. /\ k \in Nat /\ k \in 1..k /\ 1..k # {}
        /\ 1..k \in SUBSET S
        /\ k - 1 \in 0..Len(items)
    <3>1. k \in Nat /\ k >= 1 /\ k <= Len(items)
      OBVIOUS
    <3>2. k \in 1..k
      BY <3>1
    <3>3. 1..k \subseteq S
      BY <3>1
    <3>4. QED  BY <3>1, <3>2, <3>3
  <2>2. Max(1..k) \in 1..k /\ k <= Max(1..k)
    BY <1>0, <2>1
  <2>3. Max(1..k) = k /\ (1..k) \ {k} = 1..k - 1
    BY <2>2
  <2>4. i[1..k] = ReadItem(i[1..k - 1], items[k])
    BY <1>5, <2>1, <2>3 DEF ReadIter
  <2>5. QED  BY <2>1, <2>4
<1>9. h[Len(items)] = i[S]
  OBVIOUS
<1>10. ReadPath(h, c, items)
  BY <1>7, <1>8 DEF ReadPath
<1> HIDE DEF h
<1>11. QED  BY <1>6, <1>9, <1>10

\* Reading one item more.
LEMMA ReadAppend ==
  ASSUME NEW c, NEW items \in Seq(Items), NEW x \in Items
  PROVE  Read(c, Append(items, x)) = ReadItem(Read(c, items), x)
<1> DEFINE n == Len(items)
           more == Append(items, x)
<1>1. /\ n \in Nat /\ DOMAIN items = 1..n
      /\ Len(more) = n + 1 /\ DOMAIN more = 1..n + 1
      /\ \A i \in 1..n : more[i] = items[i]
      /\ more[n + 1] = x
  <2>1. more \in Seq(Items)
    BY AppendProperties
  <2>2. QED  BY <2>1, LenProperties, AppendProperties
<1> HIDE DEF n, more
<1>2. PICK g : ReadPath(g, c, items) /\ Read(c, items) = g[n]
  BY <1>1, ReadFold DEF n
<1>3. PICK h : ReadPath(h, c, more) /\ Read(c, more) = h[n + 1]
  BY <1>1, ReadFold
<1> DEFINE P == {k \in Nat : k <= n => h[k] = g[k]}
<1>4. 0 \in P
  BY <1>2, <1>3 DEF ReadPath
<1>5. ASSUME NEW k \in Nat, k \in P  PROVE k + 1 \in P
  <2>1. SUFFICES ASSUME k + 1 <= n  PROVE h[k + 1] = g[k + 1]
    OBVIOUS
  <2>2. k + 1 \in 1..n /\ k + 1 \in 1..n + 1 /\ (k + 1) - 1 = k /\ k <= n
    BY <1>1, <2>1
  <2>3. g[k + 1] = ReadItem(g[k], items[k + 1])
    BY <1>2, <2>2 DEF ReadPath, n
  <2>4. h[k + 1] = ReadItem(h[k], more[k + 1])
    BY <1>1, <1>3, <2>2 DEF ReadPath
  <2>5. h[k] = g[k]
    BY <1>5, <2>2
  <2>6. QED  BY <1>1, <2>2, <2>3, <2>4, <2>5
<1> HIDE DEF P
<1>6. \A k \in Nat : k \in P
  BY <1>4, <1>5, NumberInduction
<1>7. h[n] = g[n]
  BY <1>1, <1>6 DEF P
<1>8. h[n + 1] = ReadItem(h[n], x)
  <2>1. n + 1 \in 1..n + 1 /\ (n + 1) - 1 = n
    BY <1>1
  <2>2. QED  BY <1>1, <1>3, <2>1 DEF ReadPath
<1>9. QED  BY <1>2, <1>3, <1>7, <1>8 DEF more

\* The constants, in the terms of the lemmas about the codec.
LEMMA ValuesLemma ==
  /\ Values \in SUBSET AllValues
  /\ \A m \in Payloads :
        /\ IsFiniteSet(DOMAIN m) /\ DOMAIN m \in SUBSET Nat /\ DOMAIN m \subseteq Fields
        /\ m = [f \in DOMAIN m |-> m[f]]
        /\ \A f \in DOMAIN m : m[f] \in Values
<1>1. Values \in SUBSET AllValues
  BY DuplexAssumption DEF AllValues
<1>2. ASSUME NEW m \in Payloads
      PROVE  /\ IsFiniteSet(DOMAIN m) /\ DOMAIN m \in SUBSET Nat /\ DOMAIN m \subseteq Fields
             /\ m = [f \in DOMAIN m |-> m[f]]
             /\ \A f \in DOMAIN m : m[f] \in Values
  BY DuplexAssumption, CodecAssumption
<1>3. QED  BY <1>1, <1>2

\* What encode writes, decode reads: in the codec state the message was written
\* in nothing raises, the fields are those of the message, and the state becomes
\* the one encode left behind.
LEMMA ReadUndoesWrite ==
  ASSUME Admissible, NEW c \in CodecStates(Values), NEW m \in Payloads
  PROVE  /\ Write(c, m).codec \in CodecStates(Values)
         /\ Write(c, m).items \in Seq(Items)
         /\ Read(c, Write(c, m).items) =
              [codec |-> Write(c, m).codec, raised |-> FALSE, fields |-> m]
<1> DEFINE S == DOMAIN m
<1>0. /\ IsFiniteSet(S) /\ S \in SUBSET Nat /\ S \subseteq Fields
      /\ m = [f \in S |-> m[f]]
      /\ \A f \in S : m[f] \in Values
      /\ Values \in SUBSET AllValues
  BY ValuesLemma
<1>1. PICK g : WriteIter(g, c, m, S) /\ Write(c, m) = g[S]
  BY <1>0, WriteFold
<1> DEFINE Said(T) == [f \in T |-> m[f]]
           Good(T) == /\ g[T].codec \in CodecStates(Values)
                      /\ g[T].items \in Seq(Items)
                      /\ Read(c, g[T].items) =
                           [codec |-> g[T].codec, raised |-> FALSE, fields |-> Said(T)]
           P == {T \in SUBSET S : Good(T)}
<1>2. {} \in P
  <2>1. g[{}] = [codec |-> c, items |-> <<>>]
    BY <1>1 DEF WriteIter, Begun
  <2>2. <<>> \in Seq(Items) /\ Len(<<>>) = 0 /\ DOMAIN <<>> = 1..0
    BY EmptySeq, LenProperties
  <2>3. Read(c, <<>>) = Unread(c)
    BY <2>2, ReadFold DEF ReadPath
  <2>4. Said({}) = EmptyMap
    BY DEF EmptyMap
  <2>5. /\ g[{}].codec = c /\ g[{}].items = <<>>
        /\ Read(c, <<>>) = [codec |-> c, raised |-> FALSE, fields |-> Said({})]
    BY <2>1, <2>3, <2>4 DEF Unread
  <2>6. Good({})
    BY <2>2, <2>5
  <2> HIDE DEF Good
  <2>7. QED  BY <2>6
<1>3. ASSUME NEW T \in SUBSET S, T # {}, T \ {Max(T)} \in P  PROVE T \in P
  <2> DEFINE f == Max(T)
             U == T \ {f}
             a == g[U]
  <2>1. f \in T /\ f \in S /\ U \in SUBSET S
    <3>1. IsFiniteSet(T) /\ T \in SUBSET Nat
      BY <1>0, FS_Subset
    <3>2. QED  BY <1>3, <3>1, MaxLemma
  <2>2. g[T] = WriteField(m, f, a)
    BY <1>1, <1>3 DEF WriteIter
  <2>3. /\ a.codec \in CodecStates(Values) /\ a.items \in Seq(Items)
        /\ Read(c, a.items) = [codec |-> a.codec, raised |-> FALSE, fields |-> Said(U)]
    BY <1>3
  <2> HIDE DEF a, U, f
  <2> DEFINE item == Item(a.codec, f, m[f])
  <2>4. f \in Fields /\ m[f] \in Values /\ Literal(f, m[f]) = m[f]
    BY <1>0, <2>1 DEF Admissible
  <2>5. /\ item \in Items
        /\ AfterEncode(a.codec, f, m[f]) \in CodecStates(Values)
    BY <1>0, <2>3, <2>4, ItemLemma, AfterEncodeLemma
  <2>6. /\ item.field = f /\ Decodable(a.codec, item) /\ DecodedValue(a.codec, item) = m[f]
        /\ AfterDecode(a.codec, item) = AfterEncode(a.codec, f, m[f])
    BY <1>0, <2>3, <2>4, DecodeUndoesEncode DEF Admissible
  <2>7. /\ g[T].codec = AfterEncode(a.codec, f, m[f])
        /\ g[T].items = Append(a.items, item)
    BY <2>2 DEF WriteField
  <2>8. Append(a.items, item) \in Seq(Items)
    BY <2>3, <2>5, AppendProperties
  <2>9. Read(c, Append(a.items, item)) = ReadItem(Read(c, a.items), item)
    BY <2>3, <2>5, ReadAppend
  <2> HIDE DEF item
  <2>10. Put(Said(U), f, m[f]) = Said(T)
    BY <2>1 DEF Put, U
  <2>11. ReadItem(Read(c, a.items), item) =
           [codec |-> AfterEncode(a.codec, f, m[f]), raised |-> FALSE, fields |-> Said(T)]
    <3> DEFINE r == Read(c, a.items)
    <3>1. r.codec = a.codec /\ r.raised = FALSE /\ r.fields = Said(U)
      BY <2>3
    <3> HIDE DEF r, Said
    <3>2. ReadItem(r, item) =
            [codec  |-> AfterDecode(r.codec, item), raised |-> FALSE,
             fields |-> Put(r.fields, item.field, DecodedValue(r.codec, item))]
      BY <2>6, <3>1 DEF ReadItem
    <3>3. QED  BY <2>6, <2>10, <3>1, <3>2 DEF r
  <2>12. Good(T)
    BY <2>5, <2>7, <2>8, <2>9, <2>11
  <2>13. QED  BY <2>12
<1> HIDE DEF P
<1>4. \A T \in SUBSET S : T \in P
  BY <1>0, <1>2, <1>3, SetInduction
<1>5. Good(S) /\ Said(S) = m
  BY <1>0, <1>4 DEF P
<1>6. QED  BY <1>1, <1>5
-----------------------------------------------------------------------------
\* The function FoldLeft chooses in Preload.
PreloadIter(g, values, S) ==
  g = [T \in SUBSET S |->
         IF T = {} THEN EmptyTable ELSE PreloadOne(g[T \ {Max(T)}], values[Max(T)])]

\* A session that activates a schema has a well-formed table, within its limit,
\* whatever literals the enums have and however many.
LEMMA ActivatedLemma ==
  ASSUME NEW s \in Schemas
  PROVE  Activated(s) \in CodecStates(Values)
<1> DEFINE H == {v \in Values : Hashable(v)}
           values == Enums[s]
           Iter(g, n) == PreloadIter(g, values, 1..n)
           P == {n \in Nat : \E g : Iter(g, n)}
<1>1. /\ Len(values) \in Nat /\ DOMAIN values = 1..Len(values)
      /\ \A i \in 1..Len(values) : values[i] \in Values /\ Hashable(values[i])
  <2>1. values \in Seq(H)
    BY DuplexAssumption
  <2>2. QED  BY <2>1, LenProperties, ElementOfSeq
<1> HIDE DEF values
<1>2. ASSUME NEW n \in Nat, NEW T \in SUBSET (1..n), T # {}
      PROVE  Max(T) \in T /\ \A x \in T : x <= Max(T)
  <2>1. IsFiniteSet(1..n)
    BY FS_Interval
  <2>2. IsFiniteSet(T)
    BY <1>2, <2>1, FS_Subset
  <2>3. T \in SUBSET Nat
    BY <1>2
  <2>4. QED  BY <1>2, <2>2, <2>3, MaxLemma
<1>3. 0 \in P
  <2> DEFINE g == [T \in SUBSET (1..0) |-> EmptyTable]
  <2>1. 1..0 = {}
    OBVIOUS
  <2>2. Iter(g, 0)
    BY <2>1 DEF PreloadIter
  <2> HIDE DEF g, Iter
  <2>3. QED  BY <2>2
<1>4. ASSUME NEW n \in Nat, n \in P  PROVE n + 1 \in P
  <2>1. PICK g : Iter(g, n)
    BY <1>4
  <2> DEFINE h == [T \in SUBSET (1..n + 1) |->
                     IF n + 1 \in T THEN PreloadOne(g[T \ {n + 1}], values[n + 1]) ELSE g[T]]
  <2>2. ASSUME NEW T \in SUBSET (1..n + 1)
        PROVE  h[T] = IF T = {} THEN EmptyTable
                      ELSE PreloadOne(h[T \ {Max(T)}], values[Max(T)])
    <3>1. \A x \in T : x \in Nat /\ x <= n + 1
      OBVIOUS
    <3>2. CASE n + 1 \in T
      <4>1. Max(T) = n + 1
        <5>1. n + 1 \in Nat /\ T # {}
          BY <3>2
        <5>2. Max(T) \in T /\ n + 1 <= Max(T)
          BY <1>2, <3>2, <5>1
        <5>3. Max(T) \in Nat /\ Max(T) <= n + 1
          BY <3>1, <5>2
        <5>4. QED  BY <1>4, <5>2, <5>3
      <4>2. T \ {n + 1} \in SUBSET (1..n) /\ n + 1 \notin T \ {n + 1}
        BY <3>1
      <4>3. h[T \ {n + 1}] = g[T \ {n + 1}]
        BY <4>2
      <4>4. h[T] = PreloadOne(g[T \ {n + 1}], values[n + 1])
        BY <3>2
      <4>5. QED  BY <3>2, <4>1, <4>3, <4>4
    <3>3. CASE n + 1 \notin T
      <4>1. T \in SUBSET (1..n)
        BY <3>1, <3>3
      <4>2. h[T] = g[T]
        BY <3>3
      <4>3. g[T] = IF T = {} THEN EmptyTable ELSE PreloadOne(g[T \ {Max(T)}], values[Max(T)])
        BY <2>1, <4>1 DEF PreloadIter
      <4>4. n + 1 \notin T \ {Max(T)} /\ T \ {Max(T)} \in SUBSET (1..n + 1)
        BY <3>3
      <4>5. h[T \ {Max(T)}] = g[T \ {Max(T)}]
        BY <4>4
      <4>6. QED  BY <4>2, <4>3, <4>5
    <3>4. QED  BY <3>2, <3>3
  <2>3. Iter(h, n + 1)
    BY <2>2 DEF PreloadIter
  <2>4. n + 1 \in Nat
    OBVIOUS
  <2> HIDE DEF h, Iter
  <2>5. QED  BY <2>3, <2>4
<1> HIDE DEF P
<1>5. \A n \in Nat : n \in P
  BY <1>3, <1>4, NumberInduction
<1> DEFINE N == Len(values)
           i == CHOOSE j : PreloadIter(j, values, 1..N)
<1>6. PICK g : PreloadIter(g, values, 1..N)
  BY <1>1, <1>5 DEF P
<1>7. PreloadIter(i, values, 1..N)
  BY <1>6
<1>8. FoldLeft(PreloadOne, EmptyTable, values) = i[1..N]
  BY <1>1 DEF FoldLeft, MapThenFoldSet, PreloadIter
<1> HIDE DEF i
<1> DEFINE Q == {n \in Nat : n <= N => Shape(i[1..n], Values)}
<1>9. 0 \in Q
  <2>1. 1..0 = {} /\ {} \in SUBSET (1..N)
    OBVIOUS
  <2>2. i[1..0] = EmptyTable
    BY <1>7, <2>1 DEF PreloadIter
  <2>3. QED  BY <2>2, EmptyTableLemma
<1>10. ASSUME NEW n \in Nat, n \in Q  PROVE n + 1 \in Q
  <2>1. SUFFICES ASSUME n + 1 <= N  PROVE Shape(i[1..n + 1], Values)
    OBVIOUS
  <2>2. n + 1 \in 1..n + 1 /\ (1..n + 1) \ {n + 1} = 1..n /\ 1..n + 1 # {} /\ n + 1 \in Nat
    OBVIOUS
  <2>3. 1..n + 1 \in SUBSET (1..N)
    BY <1>1, <2>1
  <2>4. Max(1..n + 1) \in 1..n + 1 /\ n + 1 <= Max(1..n + 1)
    BY <1>2, <2>2
  <2>5. Max(1..n + 1) = n + 1
    BY <2>4
  <2>6. i[1..n + 1] = PreloadOne(i[1..n], values[n + 1])
    BY <1>7, <2>2, <2>3, <2>5 DEF PreloadIter
  <2>7. n + 1 \in 1..N /\ n <= N
    BY <1>1, <2>1
  <2>8. Shape(i[1..n], Values) /\ values[n + 1] \in Values /\ Hashable(values[n + 1])
    BY <1>1, <1>10, <2>7
  <2>9. QED  BY <2>6, <2>8, PreloadOneLemma
<1> HIDE DEF Q
<1>11. \A n \in Nat : n \in Q
  BY <1>9, <1>10, NumberInduction
<1>12. Shape(i[1..N], Values)
  BY <1>1, <1>11 DEF Q
<1>13. /\ Shape(Preload(EmptyTable, values), Values)
       /\ WithinLimit(Preload(EmptyTable, values))
  BY <1>8, <1>12, EvictLemma DEF Preload
<1>14. EmptyMap \in PartialMaps(Fields, Int)
  <2>1. {} \in SUBSET Fields /\ EmptyMap \in [{} -> Int]
    BY DEF EmptyMap
  <2>2. QED  BY <2>1 DEF PartialMaps
<1>15. Preload(EmptyTable, values) \in GoodTables(Values)
  BY <1>13, GoodTablesLemma
<1>16. QED  BY <1>14, <1>15 DEF Activated, CodecStates, values
-----------------------------------------------------------------------------
(***************************************************************************)
(* Queues.  A frame is significant if it moves a handshake: HELLO does     *)
(* not, and messages do not.                                               *)
(***************************************************************************)
Significant == {"SCHEMA_FINGERPRINT", "SCHEMA_TRANSFER", "ACK", "NACK", "MODE_SWITCH"}

Messages == [kind : MessageKinds, schema : Schemas, items : Seq(Items), said : Payloads]
Carried  == Frames \cup Messages

Places(q) == {k \in 1..Len(q) : q[k].kind \in Significant}
Moves(q)  == {q[k] : k \in Places(q)}
Single(q) == \A j, k \in Places(q) : j = k
Spoken(q) == \E k \in 1..Len(q) : q[k].kind = "OPCODE_MESSAGE"

\* What a queue is when its head is taken.
LEMMA TakenQueue ==
  ASSUME NEW q \in Seq(Carried), q # <<>>
  PROVE  /\ Head(q) \in Carried /\ Tail(q) \in Seq(Carried)
         /\ Head(q).kind \notin Significant => Moves(Tail(q)) = Moves(q)
         /\ Head(q).kind \in Significant =>
              Head(q) \in Moves(q) /\ (Single(q) => Moves(Tail(q)) = {})
         /\ Single(q) => Single(Tail(q))
         /\ Spoken(Tail(q)) => Spoken(q)
         /\ Head(q).kind = "OPCODE_MESSAGE" => Spoken(q)
         /\ Head(q).kind # "OPCODE_MESSAGE" => (Spoken(Tail(q)) <=> Spoken(q))
<1> DEFINE r == Tail(q)
           n == Len(q)
<1>1. /\ n \in Nat /\ n >= 1 /\ Len(r) = n - 1
      /\ Head(q) = q[1] /\ Head(q) \in Carried /\ r \in Seq(Carried)
      /\ \A k \in 1..n - 1 : r[k] = q[k + 1]
  <2>1. n \in Nat /\ n # 0
    BY EmptySeq, LenProperties
  <2>2. /\ Head(q) \in Carried /\ r \in Seq(Carried) /\ Len(r) = n - 1
        /\ \A k \in 1..Len(r) : r[k] = q[k + 1]
    BY HeadTailProperties
  <2>3. Head(q) = q[1]
    OBVIOUS
  <2>4. QED  BY <2>1, <2>2, <2>3
<1> HIDE DEF r, n
<1>2. /\ \A k \in 1..n - 1 : k + 1 \in 1..n /\ k + 1 # 1
      /\ \A k \in 1..n : k # 1 => k - 1 \in 1..n - 1 /\ (k - 1) + 1 = k
      /\ 1 \in 1..n
  BY <1>1
<1>3. \A k \in 1..n - 1 : k \in Places(r) <=> k + 1 \in Places(q)
  BY <1>1, <1>2 DEF Places, n
<1>4. Places(r) \subseteq 1..n - 1 /\ Places(q) \subseteq 1..n
  BY <1>1 DEF Places, n
<1>5. Moves(r) = {q[k] : k \in Places(q) \ {1}}
  <2>1. ASSUME NEW k \in Places(r)  PROVE r[k] = q[k + 1] /\ k + 1 \in Places(q) \ {1}
    BY <1>1, <1>2, <1>3, <1>4
  <2>2. ASSUME NEW k \in Places(q) \ {1}  PROVE k - 1 \in Places(r) /\ r[k - 1] = q[k]
    <3>1. k \in 1..n /\ k - 1 \in 1..n - 1 /\ (k - 1) + 1 = k
      BY <1>2, <1>4
    <3>2. QED  BY <1>1, <1>3, <3>1
  <2>3. QED  BY <2>1, <2>2 DEF Moves
<1>6. 1 \in Places(q) <=> Head(q).kind \in Significant
  BY <1>1, <1>2 DEF Places, n
<1>7. Single(q) => Single(r)
  <2>1. SUFFICES ASSUME Single(q), NEW j \in Places(r), NEW k \in Places(r)  PROVE j = k
    BY DEF Single
  <2>2. j \in 1..n - 1 /\ k \in 1..n - 1 /\ j + 1 \in Places(q) /\ k + 1 \in Places(q)
    BY <1>3, <1>4
  <2>3. j + 1 = k + 1
    BY <2>1, <2>2 DEF Single
  <2>4. QED  BY <1>1, <2>2, <2>3
<1>8. Spoken(r) => Spoken(q)
  BY <1>1, <1>2 DEF Spoken, n
<1>9. Head(q).kind = "OPCODE_MESSAGE" => Spoken(q)
  BY <1>1, <1>2 DEF Spoken, n
<1>10. Head(q).kind # "OPCODE_MESSAGE" /\ Spoken(q) => Spoken(r)
  <2>1. SUFFICES ASSUME Head(q).kind # "OPCODE_MESSAGE",
                        NEW k \in 1..n, q[k].kind = "OPCODE_MESSAGE"
                 PROVE  Spoken(r)
    BY DEF Spoken, n
  <2>2. k - 1 \in 1..n - 1 /\ r[k - 1] = q[k]
    BY <1>1, <1>2, <2>1
  <2>3. QED  BY <1>1, <2>1, <2>2 DEF Spoken
<1>11. Head(q).kind \notin Significant => Moves(r) = Moves(q)
  BY <1>5, <1>6 DEF Moves
<1>12. Head(q).kind \in Significant =>
         Head(q) \in Moves(q) /\ (Single(q) => Moves(r) = {})
  BY <1>1, <1>5, <1>6 DEF Moves, Single
<1>13. QED  BY <1>1, <1>7, <1>8, <1>9, <1>10, <1>11, <1>12 DEF r

\* What it is when a frame joins it.
LEMMA JoinedQueue ==
  ASSUME NEW q \in Seq(Carried), NEW f \in Carried
  PROVE  /\ Append(q, f) \in Seq(Carried)
         /\ f.kind \in Significant /\ Moves(q) = {} =>
              Moves(Append(q, f)) = {f} /\ Single(Append(q, f))
         /\ f.kind \notin Significant =>
              Moves(Append(q, f)) = Moves(q) /\ (Single(q) => Single(Append(q, f)))
         /\ Spoken(Append(q, f)) <=> Spoken(q) \/ f.kind = "OPCODE_MESSAGE"
<1> DEFINE r == Append(q, f)
           n == Len(q)
<1>1. /\ n \in Nat /\ r \in Seq(Carried) /\ Len(r) = n + 1
      /\ \A k \in 1..n : r[k] = q[k]
      /\ r[n + 1] = f
  BY LenProperties, AppendProperties
<1> HIDE DEF r, n
<1>2. /\ \A k \in 1..n : k \in 1..n + 1 /\ k # n + 1
      /\ \A k \in 1..n + 1 : k # n + 1 => k \in 1..n
      /\ n + 1 \in 1..n + 1
  BY <1>1
<1>3. Places(r) = Places(q) \cup (IF f.kind \in Significant THEN {n + 1} ELSE {})
  BY <1>1, <1>2 DEF Places, n
<1>4. \A k \in Places(q) : r[k] = q[k]
  BY <1>1 DEF Places, n
<1>5. ASSUME f.kind \in Significant, Moves(q) = {}  PROVE Moves(r) = {f} /\ Single(r)
  <2>1. Places(q) = {}
    BY <1>5 DEF Moves
  <2>2. Places(r) = {n + 1}
    BY <1>3, <1>5, <2>1
  <2>3. QED  BY <1>1, <2>2 DEF Moves, Single
<1>6. ASSUME f.kind \notin Significant
      PROVE  Moves(r) = Moves(q) /\ (Single(q) => Single(r))
  <2>1. Places(r) = Places(q)
    BY <1>3, <1>6
  <2>2. QED  BY <1>4, <2>1 DEF Moves, Single
<1>7. Spoken(r) <=> Spoken(q) \/ f.kind = "OPCODE_MESSAGE"
  BY <1>1, <1>2 DEF Spoken, n
<1>8. QED  BY <1>1, <1>5, <1>6, <1>7 DEF r

LEMMA EmptyQueue ==
  /\ <<>> \in Seq(Carried) /\ Moves(<<>>) = {} /\ Single(<<>>) /\ ~Spoken(<<>>)
<1>1. <<>> \in Seq(Carried) /\ Len(<<>>) = 0
  BY EmptySeq
<1>2. Places(<<>>) = {}
  BY <1>1 DEF Places
<1>3. QED  BY <1>1, <1>2 DEF Moves, Single, Spoken
-----------------------------------------------------------------------------
(***************************************************************************)
(* The codec states between two messages.  Leads(q, a, b, s): decoding the *)
(* messages of q in order leads from a to b, each was written with the     *)
(* schema s in the state that decoding the ones before it leads to.        *)
(***************************************************************************)
Carries(f, a, b, s) ==
  IF f.kind = "OPCODE_MESSAGE"
  THEN f.schema = s /\ f.items = Write(a, f.said).items /\ b = Write(a, f.said).codec
  ELSE b = a

Path(q, c, a, b, s) ==
  /\ c[0] = a /\ c[Len(q)] = b
  /\ \A k \in 1..Len(q) : Carries(q[k], c[k - 1], c[k], s)

Leads(q, a, b, s) == \E c : Path(q, c, a, b, s)

\* Where no message is, nothing changes.
LEMMA SilentLeads ==
  ASSUME NEW q \in Seq(Carried), ~Spoken(q), NEW a, NEW b, NEW s
  PROVE  Leads(q, a, b, s) <=> a = b
<1>0. Len(q) \in Nat
  BY LenProperties
<1>1. ASSUME a = b  PROVE Leads(q, a, b, s)
  <2> DEFINE c == [k \in 0..Len(q) |-> a]
  <2>1. \A k \in 0..Len(q) : c[k] = a
    OBVIOUS
  <2>2. \A k \in 1..Len(q) : k - 1 \in 0..Len(q) /\ k \in 0..Len(q)
    BY <1>0
  <2>3. 0 \in 0..Len(q) /\ Len(q) \in 0..Len(q)
    BY <1>0
  <2> HIDE DEF c
  <2>4. Path(q, c, a, b, s)
    BY <1>1, <2>1, <2>2, <2>3 DEF Path, Carries, Spoken
  <2>5. QED  BY <2>4 DEF Leads
<1>2. ASSUME Leads(q, a, b, s)  PROVE a = b
  <2>1. PICK c : Path(q, c, a, b, s)
    BY <1>2 DEF Leads
  <2> DEFINE P == {k \in Nat : k <= Len(q) => c[k] = a}
  <2>2. 0 \in P
    BY <2>1 DEF Path
  <2>3. ASSUME NEW k \in Nat, k \in P  PROVE k + 1 \in P
    <3>1. SUFFICES ASSUME k + 1 <= Len(q)  PROVE c[k + 1] = a
      OBVIOUS
    <3>2. k + 1 \in 1..Len(q) /\ (k + 1) - 1 = k /\ c[k] = a
      BY <1>0, <2>3, <3>1
    <3>3. Carries(q[k + 1], c[k], c[k + 1], s)
      <4>1. Carries(q[k + 1], c[(k + 1) - 1], c[k + 1], s)
        BY <2>1, <3>2 DEF Path
      <4>2. QED  BY <3>2, <4>1
    <3>4. QED  BY <3>2, <3>3 DEF Carries, Spoken
  <2> HIDE DEF P
  <2>4. \A k \in Nat : k \in P
    BY <2>2, <2>3, NumberInduction
  <2>5. c[Len(q)] = a
    BY <1>0, <2>4 DEF P
  <2>6. QED  BY <2>1, <2>5 DEF Path
<1>3. QED  BY <1>1, <1>2

\* The head of the queue is carried first.
LEMMA TakenLeads ==
  ASSUME NEW q \in Seq(Carried), q # <<>>, NEW a, NEW b, NEW s, Leads(q, a, b, s)
  PROVE  \E d : Carries(Head(q), a, d, s) /\ Leads(Tail(q), d, b, s)
<1> DEFINE r == Tail(q)
           n == Len(q)
<1>1. /\ n \in Nat /\ n >= 1 /\ Len(r) = n - 1 /\ Head(q) = q[1]
      /\ \A k \in 1..n - 1 : r[k] = q[k + 1]
  <2>1. n \in Nat /\ n # 0
    BY EmptySeq, LenProperties
  <2>2. Len(r) = n - 1 /\ \A k \in 1..Len(r) : r[k] = q[k + 1]
    BY HeadTailProperties
  <2>3. QED  BY <2>1, <2>2
<1>2. PICK c : Path(q, c, a, b, s)
  BY DEF Leads
<1> HIDE DEF r, n
<1> DEFINE d == [k \in 0..n - 1 |-> c[k + 1]]
<1>3. /\ \A k \in 0..n - 1 : d[k] = c[k + 1]
      /\ 0 \in 0..n - 1 /\ n - 1 \in 0..n - 1 /\ 0 + 1 = 1 /\ (n - 1) + 1 = n
      /\ \A k \in 1..n - 1 : /\ k \in 0..n - 1 /\ k - 1 \in 0..n - 1 /\ k + 1 \in 1..n
                            /\ (k - 1) + 1 = k /\ (k + 1) - 1 = k
  BY <1>1
<1> HIDE DEF d
<1>4. Carries(Head(q), a, d[0], s)
  <2>1. 1 \in 1..n /\ 1 - 1 = 0
    BY <1>1
  <2>2. Carries(q[1], c[1 - 1], c[1], s)
    BY <1>2, <2>1 DEF Path, n
  <2>3. c[0] = a /\ d[0] = c[1]
    BY <1>2, <1>3 DEF Path
  <2>4. QED  BY <1>1, <2>1, <2>2, <2>3
<1>5. Path(r, d, d[0], b, s)
  <2>1. d[n - 1] = b
    BY <1>2, <1>3 DEF Path, n
  <2>2. ASSUME NEW k \in 1..n - 1  PROVE Carries(r[k], d[k - 1], d[k], s)
    <3>1. Carries(q[k + 1], c[(k + 1) - 1], c[k + 1], s)
      BY <1>2, <1>3 DEF Path, n
    <3>2. r[k] = q[k + 1] /\ d[k] = c[k + 1] /\ d[k - 1] = c[k] /\ c[(k + 1) - 1] = c[k]
      BY <1>1, <1>3
    <3>3. QED  BY <3>1, <3>2
  <2>3. QED  BY <1>1, <2>1, <2>2 DEF Path
<1>6. QED  BY <1>4, <1>5 DEF Leads, r

\* What joins the queue is carried last.
LEMMA JoinedLeads ==
  ASSUME NEW q \in Seq(Carried), NEW f \in Carried, NEW a, NEW b, NEW d, NEW s,
         Leads(q, a, b, s), Carries(f, b, d, s)
  PROVE  Leads(Append(q, f), a, d, s)
<1> DEFINE r == Append(q, f)
           n == Len(q)
<1>1. /\ n \in Nat /\ Len(r) = n + 1
      /\ \A k \in 1..n : r[k] = q[k]
      /\ r[n + 1] = f
  BY LenProperties, AppendProperties
<1>2. PICK c : Path(q, c, a, b, s)
  BY DEF Leads
<1> HIDE DEF r, n
<1> DEFINE e == [k \in 0..n + 1 |-> IF k = n + 1 THEN d ELSE c[k]]
<1>3. /\ \A k \in 0..n : e[k] = c[k]
      /\ e[n + 1] = d
      /\ 0 \in 0..n /\ n \in 0..n /\ (n + 1) - 1 = n
      /\ \A k \in 1..n : k \in 0..n /\ k - 1 \in 0..n
      /\ \A k \in 1..n + 1 : k = n + 1 \/ k \in 1..n
  BY <1>1
<1> HIDE DEF e
<1>4. e[0] = a
  BY <1>2, <1>3 DEF Path
<1>5. ASSUME NEW k \in 1..n + 1  PROVE Carries(r[k], e[k - 1], e[k], s)
  <2>1. CASE k = n + 1
    <3>1. e[k - 1] = b /\ e[k] = d /\ r[k] = f
      BY <1>1, <1>2, <1>3, <2>1 DEF Path, n
    <3>2. QED  BY <3>1
  <2>2. CASE k \in 1..n
    <3>1. Carries(q[k], c[k - 1], c[k], s)
      BY <1>2, <2>2 DEF Path, n
    <3>2. e[k - 1] = c[k - 1] /\ e[k] = c[k] /\ r[k] = q[k]
      BY <1>1, <1>3, <2>2
    <3>3. QED  BY <3>1, <3>2
  <2>3. QED  BY <1>3, <2>1, <2>2
<1>6. Path(r, e, a, d, s)
  BY <1>1, <1>3, <1>4, <1>5 DEF Path
<1>7. QED  BY <1>6 DEF Leads, r
-----------------------------------------------------------------------------
(***************************************************************************)
(* The inductive invariant.  The application initiates and resets when     *)
(* nothing is under way, so at most one frame that moves the handshake is  *)
(* on its way (Due says what it may rely on), and a session in HANDSHAKE   *)
(* mode is as new, unless the rest of its handshake is coming (Rests).     *)
(* From the MODE_SWITCH on the connection is Live: the two use one schema, *)
(* one direction is silent, and decoding what is on its way in the other   *)
(* makes the reader's codec state the writer's (InSync).                   *)
(***************************************************************************)
DuplexTyped ==
  /\ schema \in [Peers -> Schemas] /\ active \in [Peers -> Schemas]
  /\ mode \in [Peers -> Modes] /\ remote \in [Peers -> Schemas \cup {NoSchema}]
  /\ net \in [Peers -> Seq(Carried)]
  /\ codec \in [Peers -> CodecStates(Values)]

Coming(p, kind) == \E f \in Moves(net[p]) : f.kind = kind

OneMove(p) ==
  Single(net[p]) /\ (Moves(net[p]) = {} \/ Moves(net[Other(p)]) = {})

Fresh(p) == active[p] = schema[p] /\ codec[p] = Activated(schema[p])
Ready(p) == mode[p] = "HANDSHAKE" /\ Fresh(p)

\* What is so while the frame f is on its way to p.
Due(p, f) ==
  /\ f.kind \in SchemaKinds => f.schema = schema[Other(p)] /\ Ready(Other(p))
  /\ f.kind = "SCHEMA_TRANSFER" => remote[p] = schema[Other(p)]
  /\ f.kind = "NACK" => Ready(p) /\ remote[Other(p)] = schema[p]
  /\ f.kind = "ACK" => /\ Ready(p) /\ active[Other(p)] = schema[p]
                       /\ codec[Other(p)] = Activated(schema[p])
  /\ f.kind = "MODE_SWITCH" => InOpcodeMode(Other(p))

Rests(p) ==
  mode[p] = "HANDSHAKE" =>
    Fresh(p) \/ Coming(Other(p), "ACK") \/ Coming(p, "MODE_SWITCH")

Live == (\A p \in Peers : InOpcodeMode(p)) \/ \E p \in Peers : Coming(p, "MODE_SWITCH")

Synced(p) ==
  /\ ~Spoken(net[Other(p)])
  /\ Leads(net[p], codec[p], codec[Other(p)], active[p])

InSync == active["client"] = active["server"] /\ \E p \in Peers : Synced(p)

DuplexInv ==
  /\ DuplexTyped
  /\ \A p \in Peers : OneMove(p) /\ Rests(p)
  /\ \A p \in Peers : \A f \in Moves(net[p]) : Due(p, f)
  /\ Live => InSync
  /\ ~Live => \A p \in Peers : ~Spoken(net[p])
  /\ ~garbled

LEMMA PeersLemma ==
  /\ Peers = {"client", "server"}
  /\ \A p \in Peers : /\ Other(p) \in Peers /\ Other(p) # p /\ Other(Other(p)) = p
                      /\ \A x \in Peers : x = p \/ x = Other(p)
BY DEF Peers, Other

\* The frames of Handshake that are carried, and their kinds.
LEMMA CarriedLemma ==
  /\ Frames \subseteq Carried /\ Messages \subseteq Carried
  /\ \A f \in Frames : f.kind \in BareKinds \cup SchemaKinds
  /\ \A f \in Messages : f.kind \in MessageKinds /\ f.said \in Payloads
  /\ \A kind \in BareKinds : Bare(kind) \in Frames /\ Bare(kind).kind = kind
  /\ \A kind \in SchemaKinds, s \in Schemas :
        /\ Frame(kind, s) \in Frames
        /\ Frame(kind, s).kind = kind /\ Frame(kind, s).schema = s
BY DEF Carried, Frames, Messages, Bare, Frame

\* Two queues, after the operations of the handlers.
LEMMA TakeQueues ==
  ASSUME DuplexTyped, NEW p \in Peers, net[p] # <<>>, Take(p)
  PROVE  /\ net' \in [Peers -> Seq(Carried)]
         /\ net'[p] = Tail(net[p]) /\ net'[Other(p)] = net[Other(p)]
<1>1. Tail(net[p]) \in Seq(Carried)
  BY TakenQueue DEF DuplexTyped
<1>2. net' = [net EXCEPT ![p] = Tail(net[p])]
  BY DEF Take
<1>3. QED  BY <1>1, <1>2, PeersLemma DEF DuplexTyped

LEMMA SendQueues ==
  ASSUME DuplexTyped, NEW p \in Peers, NEW f \in Carried,
         net' = [net EXCEPT ![Other(p)] = Append(@, f)]
  PROVE  /\ net' \in [Peers -> Seq(Carried)]
         /\ net'[p] = net[p] /\ net'[Other(p)] = Append(net[Other(p)], f)
<1>1. Append(net[Other(p)], f) \in Seq(Carried)
  BY PeersLemma, JoinedQueue DEF DuplexTyped
<1>2. net' = [net EXCEPT ![Other(p)] = Append(net[Other(p)], f)]
  OBVIOUS
<1>3. QED  BY <1>1, <1>2, PeersLemma DEF DuplexTyped

LEMMA AnswerQueues ==
  ASSUME DuplexTyped, NEW p \in Peers, net[p] # <<>>, NEW f \in Carried, Answer(p, f)
  PROVE  /\ net' \in [Peers -> Seq(Carried)]
         /\ net'[p] = Tail(net[p]) /\ net'[Other(p)] = Append(net[Other(p)], f)
<1>1. Append(net[Other(p)], f) \in Seq(Carried) /\ Tail(net[p]) \in Seq(Carried)
  BY PeersLemma, JoinedQueue, TakenQueue DEF DuplexTyped
<1>2. net' = [net EXCEPT ![p] = Tail(net[p]), ![Other(p)] = Append(net[Other(p)], f)]
  BY PeersLemma DEF Answer, DuplexTyped
<1>3. QED  BY <1>1, <1>2, PeersLemma DEF DuplexTyped

\* A frame that moves the handshake is alone, and taking it leaves none.
LEMMA AloneLemma ==
  ASSUME DuplexInv, NEW p \in Peers, net[p] # <<>>, Arriving(p).kind \in Significant
  PROVE  /\ Moves(net[p]) = {Arriving(p)} /\ Moves(net[Other(p)]) = {}
         /\ Due(p, Arriving(p))
<1>1. net[p] \in Seq(Carried) /\ Single(net[p])
  BY DEF DuplexInv, DuplexTyped, OneMove
<1>2. Arriving(p) \in Moves(net[p])
  BY <1>1, TakenQueue DEF Arriving
<1>3. \A f, g \in Moves(net[p]) : f = g
  BY <1>1 DEF Moves, Single
<1>4. QED  BY <1>2, <1>3 DEF DuplexInv, OneMove

\* Nobody who waits for an answer is in opcode mode, and nothing was said.
LEMMA WaitingLemma ==
  ASSUME DuplexInv, NEW p \in Peers, net[p] # <<>>,
         Arriving(p).kind \in Significant \ {"MODE_SWITCH"}
  PROVE  ~Live /\ \A x \in Peers : ~Spoken(net[x])
<1>1. Due(p, Arriving(p)) /\ \A x \in Peers : ~Coming(x, "MODE_SWITCH")
  BY AloneLemma, PeersLemma DEF Coming
<1>2. \E x \in Peers : ~InOpcodeMode(x)
  BY <1>1, PeersLemma DEF Due, Ready, InOpcodeMode, Significant, SchemaKinds
<1>3. QED  BY <1>1, <1>2 DEF Live, DuplexInv

\* A frame that moves the handshake, answered by another.
LEMMA AnsweredLemma ==
  ASSUME DuplexInv, NEW p \in Peers, net[p] # <<>>, Arriving(p).kind \in Significant,
         NEW f \in Frames, f.kind \in Significant, Answer(p, f)
  PROVE  /\ net' \in [Peers -> Seq(Carried)]
         /\ Moves(net'[p]) = {} /\ Moves(net'[Other(p)]) = {f}
         /\ \A x \in Peers : OneMove(x)'
         /\ \A x \in Peers : Spoken(net'[x]) <=> Spoken(net[x])
<1> DEFINE q == Other(p)
<1>1. /\ net[p] \in Seq(Carried) /\ net[q] \in Seq(Carried) /\ f \in Carried
      /\ Single(net[p]) /\ DuplexTyped
      /\ f.kind # "OPCODE_MESSAGE" /\ Arriving(p).kind # "OPCODE_MESSAGE"
  BY PeersLemma, CarriedLemma DEF DuplexInv, DuplexTyped, OneMove, Significant
<1>2. /\ net' \in [Peers -> Seq(Carried)]
      /\ net'[p] = Tail(net[p]) /\ net'[q] = Append(net[q], f)
  BY <1>1, AnswerQueues
<1>3. /\ Moves(Tail(net[p])) = {} /\ Single(Tail(net[p]))
      /\ Spoken(Tail(net[p])) <=> Spoken(net[p])
  BY <1>1, TakenQueue DEF Arriving
<1>4. Moves(net[q]) = {}
  BY AloneLemma
<1>5. /\ Moves(Append(net[q], f)) = {f} /\ Single(Append(net[q], f))
      /\ Spoken(Append(net[q], f)) <=> Spoken(net[q])
  BY <1>1, <1>4, JoinedQueue
<1>6. /\ Moves(net'[p]) = {} /\ Single(net'[p]) /\ (Spoken(net'[p]) <=> Spoken(net[p]))
      /\ Moves(net'[q]) = {f} /\ Single(net'[q]) /\ (Spoken(net'[q]) <=> Spoken(net[q]))
  BY <1>2, <1>3, <1>5
<1>7. ASSUME NEW x \in Peers
      PROVE  OneMove(x)' /\ (Spoken(net'[x]) <=> Spoken(net[x]))
  <2>1. x = p \/ (x = q /\ Other(x) = p)
    BY PeersLemma
  <2>2. QED  BY <1>6, <2>1 DEF OneMove
<1>8. QED  BY <1>2, <1>6, <1>7

\* A frame that moves the handshake, and is not answered.
LEMMA EndedLemma ==
  ASSUME DuplexInv, NEW p \in Peers, net[p] # <<>>, Arriving(p).kind \in Significant,
         Take(p)
  PROVE  /\ net' \in [Peers -> Seq(Carried)]
         /\ \A x \in Peers : Moves(net'[x]) = {} /\ OneMove(x)'
         /\ \A x \in Peers : Spoken(net'[x]) <=> Spoken(net[x])
<1> DEFINE q == Other(p)
<1>1. /\ net[p] \in Seq(Carried) /\ Single(net[p]) /\ Single(net[q])
      /\ DuplexTyped /\ Arriving(p).kind # "OPCODE_MESSAGE"
  BY PeersLemma DEF DuplexInv, DuplexTyped, OneMove, Significant
<1>2. /\ net' \in [Peers -> Seq(Carried)]
      /\ net'[p] = Tail(net[p]) /\ net'[q] = net[q]
  BY <1>1, TakeQueues
<1>3. /\ Moves(Tail(net[p])) = {} /\ Single(Tail(net[p]))
      /\ Spoken(Tail(net[p])) <=> Spoken(net[p])
  BY <1>1, TakenQueue DEF Arriving
<1>4. Moves(net[q]) = {}
  BY AloneLemma
<1>5. QED  BY <1>1, <1>2, <1>3, <1>4, PeersLemma DEF OneMove

\* A step that changes the queues by what neither moves a handshake nor is written
\* with a codec state.
LEMMA IdleStep ==
  ASSUME DuplexInv,
         UNCHANGED <<schema, mode, remote, active, codec>>, ~garbled',
         net' \in [Peers -> Seq(Carried)],
         \A x \in Peers : /\ Moves(net'[x]) = Moves(net[x]) /\ Single(net'[x])
                          /\ Spoken(net'[x]) <=> Spoken(net[x])
                          /\ Synced(x) => Synced(x)'
  PROVE  DuplexInv'
<1>1. DuplexTyped'
  BY DEF DuplexInv, DuplexTyped
<1>2. \A x \in Peers, kind \in Significant : Coming(x, kind)' <=> Coming(x, kind)
  BY DEF Coming
<1>3. ASSUME NEW x \in Peers  PROVE OneMove(x)' /\ Rests(x)'
  <2>1. "ACK" \in Significant /\ "MODE_SWITCH" \in Significant /\ Other(x) \in Peers
    BY PeersLemma DEF Significant
  <2>2. OneMove(x) /\ Rests(x)
    BY DEF DuplexInv
  <2>3. OneMove(x)'
    BY <2>1, <2>2 DEF OneMove
  <2>4. Rests(x)'
    BY <1>2, <2>1, <2>2 DEF Rests, Fresh
  <2>5. QED  BY <2>3, <2>4
<1>4. ASSUME NEW x \in Peers, NEW f \in Moves(net'[x])  PROVE Due(x, f)'
  <2>1. Due(x, f)
    BY <1>4 DEF DuplexInv
  <2>2. QED  BY <2>1 DEF Due, Ready, Fresh, InOpcodeMode
<1>5. Live' <=> Live
  <2>1. "MODE_SWITCH" \in Significant
    BY DEF Significant
  <2>2. QED  BY <1>2, <2>1 DEF Live, InOpcodeMode
<1>6. InSync => InSync'
  BY DEF InSync
<1>7. QED  BY <1>1, <1>3, <1>4, <1>5, <1>6 DEF DuplexInv
-----------------------------------------------------------------------------
\* Two new sessions.
LEMMA DuplexInitInv == DuplexInit => DuplexInv
<1> SUFFICES ASSUME DuplexInit  PROVE DuplexInv
  OBVIOUS
<1>1. \A p \in Peers : /\ net[p] = <<>> /\ mode[p] = "HANDSHAKE"
                       /\ active[p] = schema[p] /\ codec[p] = Activated(schema[p])
  BY DEF DuplexInit, Init
<1>2. DuplexTyped
  BY EmptyQueue, ActivatedLemma DEF DuplexInit, Init, DuplexTyped, Modes
<1>3. \A p \in Peers : OneMove(p) /\ Rests(p) /\ ~Spoken(net[p]) /\ Moves(net[p]) = {}
  BY <1>1, EmptyQueue DEF OneMove, Rests, Fresh
<1>4. ~Live
  BY <1>1, <1>3, PeersLemma DEF Live, InOpcodeMode, Coming
<1>5. ~garbled
  BY DEF DuplexInit
<1>6. QED  BY <1>2, <1>3, <1>4, <1>5 DEF DuplexInv

LEMMA QuietLemma ==
  ASSUME DuplexInv, Quiet
  PROVE  \A p \in Peers : /\ Moves(net[p]) = {} /\ ~Spoken(net[p]) /\ Single(net[p])
                          /\ (mode[p] = "HANDSHAKE" => Ready(p))
<1>1. \A p \in Peers : Moves(net[p]) = {} /\ ~Spoken(net[p]) /\ Single(net[p])
  BY EmptyQueue DEF Quiet
<1>2. \A p \in Peers : Other(p) \in Peers /\ Rests(p)
  BY PeersLemma DEF DuplexInv
<1>3. QED  BY <1>1, <1>2 DEF Rests, Ready, Coming

\* initiate_handshake, with nothing under way: the two are not live after it either.
LEMMA InitiateStep ==
  ASSUME DuplexInv, NEW p \in Peers, InitiateHandshake(p), InTurnToInitiate(p)
  PROVE  DuplexInv'
<1> DEFINE q == Other(p)
           h == Bare("HELLO")
           f == Frame("SCHEMA_FINGERPRINT", schema[p])
<1>1. /\ UNCHANGED <<schema, mode, remote, active, codec, garbled>>
      /\ net' = [net EXCEPT ![q] = @ \o <<h, f>>]
      /\ Quiet /\ mode[p] = "HANDSHAKE"
  BY DEF InitiateHandshake, Initiate, InTurnToInitiate, config
<1>2. /\ h \in Carried /\ f \in Carried
      /\ h.kind = "HELLO" /\ f.kind = "SCHEMA_FINGERPRINT" /\ f.schema = schema[p]
  <2>1. schema[p] \in Schemas /\ "HELLO" \in BareKinds /\ "SCHEMA_FINGERPRINT" \in SchemaKinds
    BY DEF DuplexInv, DuplexTyped, BareKinds, SchemaKinds
  <2>2. QED  BY <2>1, CarriedLemma
<1> HIDE DEF h, f
<1>3. /\ Append(<<>>, h) \in Seq(Carried) /\ Moves(Append(<<>>, h)) = {}
      /\ Single(Append(<<>>, h)) /\ ~Spoken(Append(<<>>, h))
  BY <1>2, EmptyQueue, JoinedQueue DEF Significant
<1>4. LET r == Append(Append(<<>>, h), f)
      IN  r \in Seq(Carried) /\ Moves(r) = {f} /\ Single(r) /\ ~Spoken(r)
  BY <1>2, <1>3, JoinedQueue DEF Significant
<1>5. net[q] = <<>> /\ <<>> \o <<h, f>> = Append(Append(<<>>, h), f)
  <2>1. net[q] = <<>>
    BY <1>1, PeersLemma DEF Quiet
  <2>2. <<>> \o <<h, f>> = Append(Append(<<>>, h), f)
    BY <1>2
  <2>3. QED  BY <2>1, <2>2
<1>6. /\ net' \in [Peers -> Seq(Carried)] /\ net'[p] = net[p]
      /\ Moves(net'[q]) = {f} /\ Single(net'[q]) /\ ~Spoken(net'[q])
  <2>1. net \in [Peers -> Seq(Carried)]
    BY DEF DuplexInv, DuplexTyped
  <2>2. net' = [net EXCEPT ![q] = Append(Append(<<>>, h), f)]
    BY <1>1, <1>5
  <2>3. /\ net' \in [Peers -> Seq(Carried)] /\ net'[p] = net[p]
        /\ net'[q] = Append(Append(<<>>, h), f)
    BY <1>4, <2>1, <2>2, PeersLemma
  <2>4. QED  BY <1>4, <2>3
<1>7. Moves(net'[p]) = {} /\ Single(net'[p]) /\ ~Spoken(net'[p]) /\ Ready(p)
  BY <1>1, <1>6, QuietLemma
<1>8. DuplexTyped'
  BY <1>1, <1>6 DEF DuplexInv, DuplexTyped
<1>9. ASSUME NEW x \in Peers  PROVE OneMove(x)' /\ Rests(x)' /\ ~Spoken(net'[x])
  <2>1. x = p \/ (x = q /\ Other(x) = p)
    BY PeersLemma
  <2>2. OneMove(x)' /\ ~Spoken(net'[x])
    BY <1>6, <1>7, <2>1 DEF OneMove
  <2>3. mode[x] = "HANDSHAKE" => Fresh(x)
    BY <1>1, QuietLemma DEF Ready
  <2>4. Rests(x)'
    BY <1>1, <2>3 DEF Rests, Fresh
  <2>5. QED  BY <2>2, <2>4
<1>10. ASSUME NEW x \in Peers, NEW g \in Moves(net'[x])  PROVE Due(x, g)'
  <2>1. x = q /\ g = f /\ Other(x) = p
    BY <1>6, <1>7, PeersLemma
  <2>2. QED  BY <1>1, <1>2, <1>7, <2>1 DEF Due, Ready, Fresh
<1>11. ~Live'
  BY <1>1, <1>2, <1>6, <1>7, PeersLemma DEF Live, Coming, InOpcodeMode
<1>12. QED  BY <1>1, <1>8, <1>9, <1>10, <1>11 DEF DuplexInv

\* reset, with nothing under way.
LEMMA ResetStep ==
  ASSUME DuplexInv, NEW p \in Peers, ResetSession(p), Quiet
  PROVE  DuplexInv'
<1>1. /\ UNCHANGED <<schema, net, garbled>>
      /\ mode' = [mode EXCEPT ![p] = "HANDSHAKE"]
      /\ remote' = [remote EXCEPT ![p] = NoSchema]
      /\ active' = [active EXCEPT ![p] = schema[p]]
      /\ codec' = [codec EXCEPT ![p] = Activated(schema[p])]
  BY DEF ResetSession, Reset, config
<1>2. DuplexTyped' /\ DuplexTyped
  <2>1. DuplexTyped
    BY DEF DuplexInv
  <2>2. schema[p] \in Schemas /\ Activated(schema[p]) \in CodecStates(Values)
    BY <2>1, ActivatedLemma DEF DuplexTyped
  <2>3. QED  BY <1>1, <2>1, <2>2 DEF DuplexTyped, Modes
<1>3. \A x \in Peers : /\ Moves(net'[x]) = {} /\ ~Spoken(net'[x]) /\ Single(net'[x])
                       /\ (mode[x] = "HANDSHAKE" => Fresh(x))
  BY <1>1, QuietLemma DEF Ready
<1>4. ASSUME NEW x \in Peers  PROVE OneMove(x)' /\ Rests(x)'
  <2>1. mode'[x] = "HANDSHAKE" => Fresh(x)'
    BY <1>1, <1>2, <1>3 DEF Fresh, DuplexTyped
  <2>2. QED  BY <1>3, <2>1 DEF OneMove, Rests
<1>5. ~Live'
  BY <1>1, <1>2, <1>3, PeersLemma DEF Live, Coming, InOpcodeMode, DuplexTyped
<1>6. ~garbled'
  BY <1>1 DEF DuplexInv
<1>7. QED  BY <1>2, <1>3, <1>4, <1>5, <1>6 DEF DuplexInv
\* What does not move a handshake is taken from the queue, and is not written with
\* a codec state.
LEMMA TakeIdle ==
  ASSUME DuplexInv, NEW p \in Peers, net[p] # <<>>, Take(p),
         Arriving(p).kind \in {"HELLO", "RAW_MESSAGE"},
         UNCHANGED <<schema, mode, remote, active, codec>>, ~garbled'
  PROVE  DuplexInv'
<1> DEFINE q == Other(p)
<1>1. /\ DuplexTyped /\ net[p] \in Seq(Carried)
      /\ Single(net[p]) /\ Single(net[q])
  BY PeersLemma DEF DuplexInv, DuplexTyped, OneMove
<1>2. /\ net' \in [Peers -> Seq(Carried)]
      /\ net'[p] = Tail(net[p]) /\ net'[q] = net[q]
  BY <1>1, TakeQueues
<1>3. /\ Moves(net'[p]) = Moves(net[p]) /\ Single(net'[p])
      /\ Spoken(net'[p]) <=> Spoken(net[p])
  <2>1. Head(net[p]).kind \notin Significant /\ Head(net[p]).kind # "OPCODE_MESSAGE"
    BY DEF Arriving, Significant
  <2>2. QED  BY <1>1, <1>2, <2>1, TakenQueue
<1>4. \A a, b, s : Leads(net[p], a, b, s) => Leads(net'[p], a, b, s)
  <2>1. SUFFICES ASSUME NEW a, NEW b, NEW s, Leads(net[p], a, b, s)
                 PROVE  Leads(net'[p], a, b, s)
    OBVIOUS
  <2>2. PICK d : Carries(Head(net[p]), a, d, s) /\ Leads(Tail(net[p]), d, b, s)
    BY <1>1, <2>1, TakenLeads
  <2>3. d = a
    BY <2>2 DEF Carries, Arriving
  <2>4. QED  BY <1>2, <2>2, <2>3
<1>5. ASSUME NEW x \in Peers
      PROVE  /\ Moves(net'[x]) = Moves(net[x]) /\ Single(net'[x])
             /\ Spoken(net'[x]) <=> Spoken(net[x])
             /\ Synced(x) => Synced(x)'
  <2>1. x = p \/ (x = q /\ Other(x) = p)
    BY PeersLemma
  <2>2. QED  BY <1>1, <1>2, <1>3, <1>4, <2>1 DEF Synced
<1>6. QED  BY <1>2, <1>5, IdleStep

\* A fingerprint or a schema that is put to use, and acknowledged.
LEMMA ActivateStep ==
  ASSUME DuplexInv, NEW p \in Peers, net[p] # <<>>,
         Arriving(p).kind \in SchemaKinds,
         UNCHANGED <<schema, mode, garbled>>,
         remote' = [remote EXCEPT ![p] = Arriving(p).schema],
         active' = [active EXCEPT ![p] = Arriving(p).schema],
         codec' = [codec EXCEPT ![p] = Activated(Arriving(p).schema)],
         Answer(p, Bare("ACK"))
  PROVE  DuplexInv'
<1> DEFINE q == Other(p)
           f == Bare("ACK")
<1>1. f \in Frames /\ f.kind = "ACK" /\ Arriving(p).kind \in Significant
  BY CarriedLemma DEF BareKinds, SchemaKinds, Significant
<1> HIDE DEF f
<1>2. Due(p, Arriving(p)) /\ Arriving(p).schema = schema[q] /\ Ready(q)
  BY <1>1, AloneLemma DEF Due
<1>3. /\ net' \in [Peers -> Seq(Carried)]
      /\ Moves(net'[p]) = {} /\ Moves(net'[q]) = {f}
      /\ \A x \in Peers : OneMove(x)'
      /\ \A x \in Peers : Spoken(net'[x]) <=> Spoken(net[x])
  BY <1>1, AnsweredLemma DEF f, Significant
<1>4. \A x \in Peers : ~Spoken(net[x])
  BY <1>1, WaitingLemma DEF Significant, SchemaKinds
<1>5. DuplexTyped /\ q \in Peers /\ q # p /\ Other(q) = p /\ \A x \in Peers : x = p \/ x = q
  BY PeersLemma DEF DuplexInv
<1>6. DuplexTyped'
  <2>1. schema[q] \in Schemas /\ Activated(schema[q]) \in CodecStates(Values)
    BY <1>5, ActivatedLemma DEF DuplexTyped
  <2>2. QED  BY <1>2, <1>3, <1>5, <2>1 DEF DuplexTyped
<1>7. /\ active'[p] = schema[q] /\ codec'[p] = Activated(schema[q])
      /\ active'[q] = active[q] /\ codec'[q] = codec[q]
  BY <1>2, <1>5 DEF DuplexTyped
<1>8. Ready(q)'
  BY <1>2, <1>7 DEF Ready, Fresh
<1>9. Rests(q)' /\ Rests(p)'
  BY <1>1, <1>3, <1>8 DEF Rests, Ready, Coming
<1>10. Due(q, f)'
  BY <1>1, <1>5, <1>7, <1>8 DEF Due, SchemaKinds
<1>11. ~Live'
  BY <1>1, <1>3, <1>5, <1>8 DEF Live, Coming, InOpcodeMode, Ready
<1>12. \A x \in Peers : \A g \in Moves(net'[x]) : Due(x, g)'
  BY <1>3, <1>5, <1>10
<1>13. QED  BY <1>3, <1>4, <1>5, <1>6, <1>9, <1>11, <1>12 DEF DuplexInv

\* A fingerprint that is refused.
LEMMA RefuseStep ==
  ASSUME DuplexInv, NEW p \in Peers, ReceiveUnknownFingerprint(p),
         UNCHANGED <<schema, codec, garbled>>
  PROVE  DuplexInv'
<1> DEFINE q == Other(p)
           f == Bare("NACK")
<1>1. /\ net[p] # <<>> /\ Arriving(p).kind = "SCHEMA_FINGERPRINT" /\ Answer(p, f)
      /\ remote' = [remote EXCEPT ![p] = Arriving(p).schema] /\ active' = active
      /\ mode' = [mode EXCEPT ![p] = "RAW"] \/ mode' = mode
      /\ f \in Frames /\ f.kind = "NACK"
  BY CarriedLemma DEF ReceiveUnknownFingerprint, Incoming, BareKinds
<1> HIDE DEF f
<1>2. Arriving(p).schema = schema[q] /\ Ready(q)
  BY <1>1, AloneLemma DEF Due, Significant, SchemaKinds
<1>3. /\ net' \in [Peers -> Seq(Carried)]
      /\ Moves(net'[p]) = {} /\ Moves(net'[q]) = {f}
      /\ \A x \in Peers : OneMove(x)'
      /\ \A x \in Peers : Spoken(net'[x]) <=> Spoken(net[x])
  BY <1>1, AnsweredLemma DEF Significant
<1>4. \A x \in Peers : ~Spoken(net[x])
  BY <1>1, WaitingLemma DEF Significant
<1>5. DuplexTyped /\ q \in Peers /\ q # p /\ Other(q) = p /\ \A x \in Peers : x = p \/ x = q
  BY PeersLemma DEF DuplexInv
<1>6. DuplexTyped' /\ remote'[p] = schema[q] /\ mode'[q] = mode[q]
      /\ (mode'[p] = "HANDSHAKE" => mode[p] = "HANDSHAKE")
  BY <1>1, <1>2, <1>3, <1>5 DEF DuplexTyped, Modes
<1>7. Ready(q)'
  BY <1>1, <1>2, <1>6 DEF Ready, Fresh
<1>8. mode[p] = "HANDSHAKE" => Fresh(p)
  <2>1. ~Coming(q, "ACK") /\ ~Coming(p, "MODE_SWITCH") /\ Rests(p)
    BY <1>1, <1>5, AloneLemma DEF Coming, Significant, DuplexInv
  <2>2. QED  BY <2>1 DEF Rests
<1>9. Rests(q)' /\ Rests(p)'
  BY <1>1, <1>6, <1>7, <1>8 DEF Rests, Ready, Fresh
<1>10. Due(q, f)'
  BY <1>1, <1>5, <1>6, <1>7 DEF Due, SchemaKinds
<1>11. ~Live'
  BY <1>1, <1>3, <1>5, <1>7 DEF Live, Coming, InOpcodeMode, Ready
<1>12. \A x \in Peers : \A g \in Moves(net'[x]) : Due(x, g)'
  BY <1>3, <1>5, <1>10
<1>13. QED  BY <1>3, <1>4, <1>5, <1>6, <1>9, <1>11, <1>12 DEF DuplexInv

\* A refusal: the schema is transferred, or the session goes to RAW mode.
LEMMA NackStep ==
  ASSUME DuplexInv, NEW p \in Peers, ReceiveNack(p),
         UNCHANGED <<schema, codec, garbled>>
  PROVE  DuplexInv'
<1> DEFINE q == Other(p)
           f == Frame("SCHEMA_TRANSFER", schema[p])
<1>1. /\ net[p] # <<>> /\ Arriving(p).kind = "NACK"
      /\ remote' = remote /\ active' = active
      /\ Arriving(p).kind \in Significant \ {"MODE_SWITCH"}
  BY DEF ReceiveNack, Incoming, Significant
<1>2. Ready(p) /\ remote[q] = schema[p]
  BY <1>1, AloneLemma DEF Due
<1>3. DuplexTyped /\ q \in Peers /\ q # p /\ Other(q) = p /\ \A x \in Peers : x = p \/ x = q
  BY PeersLemma DEF DuplexInv
<1>4. ~Live /\ \A x \in Peers : ~Spoken(net[x])
  BY <1>1, WaitingLemma
<1>5. mode[q] = "HANDSHAKE" => Fresh(q)
  <2>1. ~Coming(p, "ACK") /\ ~Coming(q, "MODE_SWITCH") /\ Rests(q)
    BY <1>1, <1>3, AloneLemma DEF Coming, DuplexInv
  <2>2. QED  BY <1>3, <2>1 DEF Rests
<1>6. CASE allow[p]
  <2>1. Answer(p, f) /\ mode' = mode
    BY <1>6 DEF ReceiveNack
  <2>2. /\ f \in Frames /\ f.kind = "SCHEMA_TRANSFER" /\ f.schema = schema[p]
        /\ f.kind \in Significant
    BY <1>3, CarriedLemma DEF DuplexTyped, SchemaKinds, Significant
  <2> HIDE DEF f
  <2>3. /\ net' \in [Peers -> Seq(Carried)]
        /\ Moves(net'[p]) = {} /\ Moves(net'[q]) = {f}
        /\ \A x \in Peers : OneMove(x)'
        /\ \A x \in Peers : Spoken(net'[x]) <=> Spoken(net[x])
    BY <1>1, <2>1, <2>2, AnsweredLemma
  <2>4. DuplexTyped'
    BY <1>1, <1>3, <2>1, <2>3 DEF DuplexTyped
  <2>5. Ready(p)'
    BY <1>1, <1>2, <2>1 DEF Ready, Fresh
  <2>6. Rests(q)' /\ Rests(p)'
    BY <1>1, <1>5, <2>1, <2>5 DEF Rests, Ready, Fresh
  <2>7. ASSUME NEW g \in Moves(net'[q])  PROVE Due(q, g)'
    <3>1. g = f /\ schema' = schema
      BY <2>3
    <3>2. QED  BY <1>1, <1>2, <1>3, <2>2, <2>5, <3>1 DEF Due, SchemaKinds
  <2>8. ~Live'
    BY <1>3, <2>2, <2>3, <2>5 DEF Live, Coming, InOpcodeMode, Ready
  <2>9. \A x \in Peers : \A g \in Moves(net'[x]) : Due(x, g)'
    BY <1>3, <2>3, <2>7
  <2>10. QED  BY <1>3, <1>4, <2>3, <2>4, <2>6, <2>8, <2>9 DEF DuplexInv
<1>7. CASE ~allow[p]
  <2>1. Take(p) /\ mode' = [mode EXCEPT ![p] = "RAW"]
    BY <1>7 DEF ReceiveNack
  <2>2. /\ net' \in [Peers -> Seq(Carried)]
        /\ \A x \in Peers : Moves(net'[x]) = {} /\ OneMove(x)'
        /\ \A x \in Peers : Spoken(net'[x]) <=> Spoken(net[x])
    BY <1>1, <2>1, EndedLemma
  <2>3. DuplexTyped' /\ mode'[p] = "RAW" /\ mode'[q] = mode[q]
    BY <1>1, <1>3, <2>1, <2>2 DEF DuplexTyped, Modes
  <2>4. Rests(q)' /\ Rests(p)'
    BY <1>1, <1>5, <2>3 DEF Rests, Fresh
  <2>5. ~Live'
    BY <2>2, <2>3 DEF Live, Coming, InOpcodeMode
  <2>6. QED  BY <1>3, <1>4, <2>2, <2>3, <2>4, <2>5 DEF DuplexInv
<1>8. QED  BY <1>6, <1>7

\* An acknowledgement: both have the schema, and a codec state that is new.
LEMMA AckStep ==
  ASSUME DuplexInv, NEW p \in Peers, ReceiveAck(p),
         UNCHANGED <<schema, codec, garbled>>
  PROVE  DuplexInv'
<1> DEFINE q == Other(p)
           f == Bare("MODE_SWITCH")
<1>1. /\ net[p] # <<>> /\ Arriving(p).kind = "ACK" /\ Answer(p, f)
      /\ remote' = remote /\ active' = active
      /\ mode' = [mode EXCEPT ![p] = "OPCODE_MODE"]
      /\ f \in Frames /\ f.kind = "MODE_SWITCH"
      /\ Arriving(p).kind \in Significant /\ f.kind \in Significant
  BY CarriedLemma DEF ReceiveAck, Incoming, EnterOpcodeMode, BareKinds, Significant
<1> HIDE DEF f
<1>2. Ready(p) /\ active[q] = schema[p] /\ codec[q] = Activated(schema[p])
  BY <1>1, AloneLemma DEF Due
<1>3. /\ net' \in [Peers -> Seq(Carried)]
      /\ Moves(net'[p]) = {} /\ Moves(net'[q]) = {f}
      /\ \A x \in Peers : OneMove(x)'
      /\ \A x \in Peers : Spoken(net'[x]) <=> Spoken(net[x])
  BY <1>1, AnsweredLemma
<1>4. \A x \in Peers : ~Spoken(net'[x])
  BY <1>1, <1>3, WaitingLemma
<1>5. DuplexTyped /\ q \in Peers /\ q # p /\ Other(q) = p /\ \A x \in Peers : x = p \/ x = q
  BY PeersLemma DEF DuplexInv
<1>6. DuplexTyped' /\ mode'[p] = "OPCODE_MODE"
  BY <1>1, <1>3, <1>5 DEF DuplexTyped, Modes
<1>7. Rests(p)' /\ Rests(q)'
  BY <1>1, <1>3, <1>5, <1>6 DEF Rests, Coming
<1>8. Due(q, f)'
  BY <1>1, <1>5, <1>6 DEF Due, InOpcodeMode, SchemaKinds
<1>9. \A x \in Peers : \A g \in Moves(net'[x]) : Due(x, g)'
  BY <1>3, <1>5, <1>8
<1>10. InSync'
  <2>1. active[p] = active[q] /\ codec[p] = codec[q]
    BY <1>2 DEF Ready, Fresh
  <2>2. active'["client"] = active'["server"]
    BY <1>1, <1>5, <2>1, PeersLemma
  <2>3. Leads(net'[p], codec[p], codec[q], active[p])
    BY <1>3, <1>4, <2>1, SilentLeads
  <2>4. Synced(p)'
    BY <1>1, <1>4, <1>5, <2>3 DEF Synced
  <2>5. QED  BY <2>2, <2>4 DEF InSync
<1>11. Live'
  BY <1>1, <1>3, <1>5 DEF Live, Coming
<1>12. QED  BY <1>3, <1>5, <1>6, <1>7, <1>9, <1>10, <1>11 DEF DuplexInv

\* The switch: the reader, too, is in opcode mode.
LEMMA SwitchStep ==
  ASSUME DuplexInv, NEW p \in Peers, ReceiveModeSwitch(p),
         UNCHANGED <<schema, codec, garbled>>
  PROVE  DuplexInv'
<1> DEFINE q == Other(p)
<1>1. /\ net[p] # <<>> /\ Arriving(p).kind = "MODE_SWITCH" /\ Take(p)
      /\ remote' = remote /\ active' = active
      /\ mode' = [mode EXCEPT ![p] = "OPCODE_MODE"]
      /\ Arriving(p).kind \in Significant
  BY DEF ReceiveModeSwitch, Incoming, EnterOpcodeMode, Significant
<1>2. DuplexTyped /\ q \in Peers /\ q # p /\ Other(q) = p /\ \A x \in Peers : x = p \/ x = q
  BY PeersLemma DEF DuplexInv
<1>3. mode[q] = "OPCODE_MODE" /\ Moves(net[p]) = {Arriving(p)}
  BY <1>1, AloneLemma DEF Due, InOpcodeMode
<1>4. /\ net' \in [Peers -> Seq(Carried)]
      /\ \A x \in Peers : Moves(net'[x]) = {} /\ OneMove(x)'
      /\ \A x \in Peers : Spoken(net'[x]) <=> Spoken(net[x])
  BY <1>1, EndedLemma
<1>5. DuplexTyped' /\ mode'[p] = "OPCODE_MODE" /\ mode'[q] = "OPCODE_MODE"
  BY <1>1, <1>2, <1>3, <1>4 DEF DuplexTyped, Modes
<1>6. \A x \in Peers : Rests(x)'
  BY <1>2, <1>5 DEF Rests
<1>7. InSync
  BY <1>1, <1>3 DEF DuplexInv, Live, Coming
<1>8. net'[p] = Tail(net[p]) /\ net'[q] = net[q]
  BY <1>1, <1>2, TakeQueues
<1>9. ASSUME NEW a, NEW b, NEW s, Leads(net[p], a, b, s)
      PROVE  Leads(net'[p], a, b, s)
  <2>1. PICK d : Carries(Head(net[p]), a, d, s) /\ Leads(Tail(net[p]), d, b, s)
    BY <1>1, <1>2, <1>9, TakenLeads DEF DuplexTyped
  <2>2. d = a
    BY <1>1, <2>1 DEF Carries, Arriving
  <2>3. QED  BY <1>8, <2>1, <2>2
<1>10. ASSUME NEW x \in Peers, Synced(x)  PROVE Synced(x)'
  <2>1. x = p \/ (x = q /\ Other(x) = p)
    BY <1>2
  <2>2. QED  BY <1>1, <1>2, <1>4, <1>8, <1>9, <1>10, <2>1 DEF Synced
<1>11. InSync' /\ Live'
  BY <1>1, <1>2, <1>5, <1>7, <1>10 DEF InSync, Live, InOpcodeMode
<1>12. QED  BY <1>2, <1>4, <1>5, <1>6, <1>11 DEF DuplexInv

\* By the kind of the frame.
LEMMA ReceiveStep ==
  ASSUME DuplexInv, NEW p \in Peers, Receive(p)
  PROVE  DuplexInv'
<1>1. /\ HandleFrame(p) /\ UNCHANGED <<schema, garbled>>
      /\ codec' = IF Activates(p)
                  THEN [codec EXCEPT ![p] = Activated(Arriving(p).schema)] ELSE codec
  BY DEF Receive, HandleFrame, config
<1>2. CASE ReceiveHello(p)
  <2>1. /\ net[p] # <<>> /\ Arriving(p).kind = "HELLO" /\ Take(p)
        /\ UNCHANGED <<mode, remote, active>> /\ ~Activates(p) /\ ~garbled'
    BY <1>1, <1>2 DEF ReceiveHello, Incoming, Activates, DuplexInv
  <2>2. QED  BY <1>1, <2>1, TakeIdle
<1>3. CASE ReceiveKnownFingerprint(p)
  BY <1>1, <1>3, ActivateStep DEF ReceiveKnownFingerprint, Incoming, Activates, SchemaKinds
<1>4. CASE ReceiveUnknownFingerprint(p)
  <2>1. ~Activates(p)
    BY <1>4 DEF ReceiveUnknownFingerprint, Incoming, Activates
  <2>2. QED  BY <1>1, <1>4, <2>1, RefuseStep
<1>5. CASE ReceiveTransfer(p)
  BY <1>1, <1>5, ActivateStep DEF ReceiveTransfer, Incoming, Activates, SchemaKinds
<1>6. CASE RejectTransfer(p)
  <2>1. /\ net[p] # <<>> /\ Arriving(p).kind = "SCHEMA_TRANSFER"
        /\ remote[p] # Arriving(p).schema
    BY <1>6 DEF RejectTransfer, Incoming
  <2>2. Due(p, Arriving(p))
    BY <2>1, AloneLemma DEF Significant
  <2>3. QED  BY <2>1, <2>2 DEF Due, SchemaKinds
<1>7. CASE ReceiveAck(p)
  <2>1. ~Activates(p)
    BY <1>7 DEF ReceiveAck, Incoming, Activates
  <2>2. QED  BY <1>1, <1>7, <2>1, AckStep
<1>8. CASE IgnoreAck(p)
  <2>1. net[p] # <<>> /\ Arriving(p).kind = "ACK" /\ mode[p] # "HANDSHAKE"
    BY <1>8 DEF IgnoreAck, Incoming
  <2>2. Due(p, Arriving(p))
    BY <2>1, AloneLemma DEF Significant
  <2>3. QED  BY <2>1, <2>2 DEF Due, Ready
<1>9. CASE ReceiveNack(p)
  <2>1. ~Activates(p)
    BY <1>9 DEF ReceiveNack, Incoming, Activates
  <2>2. QED  BY <1>1, <1>9, <2>1, NackStep
<1>10. CASE ReceiveModeSwitch(p)
  <2>1. ~Activates(p)
    BY <1>10 DEF ReceiveModeSwitch, Incoming, Activates
  <2>2. QED  BY <1>1, <1>10, <2>1, SwitchStep
<1>11. QED
  BY <1>1, <1>2, <1>3, <1>4, <1>5, <1>6, <1>7, <1>8, <1>9, <1>10 DEF HandleFrame
\* On a live connection nothing but the MODE_SWITCH moves the handshake, and it is
\* what a session that is still in HANDSHAKE mode waits for.
LEMMA LiveLemma ==
  ASSUME DuplexInv, Live, NEW x \in Peers
  PROVE  /\ \A g \in Moves(net[x]) : g.kind = "MODE_SWITCH"
         /\ mode[x] = "HANDSHAKE" => Coming(x, "MODE_SWITCH")
<1>1. ASSUME NEW g \in Moves(net[x]), g.kind # "MODE_SWITCH"  PROVE FALSE
  <2>1. Due(x, g) /\ g.kind \in Significant
    BY DEF DuplexInv, Moves, Places
  <2>2. ~InOpcodeMode(x) \/ ~InOpcodeMode(Other(x))
    BY <1>1, <2>1 DEF Due, Ready, InOpcodeMode, Significant, SchemaKinds
  <2>3. \A y \in Peers : ~Coming(y, "MODE_SWITCH")
    <3>1. \A h \in Moves(net[x]) : h = g
      BY DEF DuplexInv, OneMove, Moves, Single
    <3>2. \A y \in Peers : y = x \/ Moves(net[y]) = {}
      BY PeersLemma DEF DuplexInv, OneMove
    <3>3. QED  BY <1>1, <3>1, <3>2 DEF Coming
  <2>4. QED  BY <2>2, <2>3, PeersLemma DEF Live
<1>2. ASSUME mode[x] = "HANDSHAKE"  PROVE Coming(x, "MODE_SWITCH")
  <2>1. PICK y \in Peers : Coming(y, "MODE_SWITCH")
    BY <1>2 DEF Live, InOpcodeMode
  <2>2. InOpcodeMode(Other(y))
    BY <2>1 DEF Coming, DuplexInv, Due
  <2>3. y = x
    BY <1>2, <2>2, PeersLemma DEF InOpcodeMode
  <2>4. QED  BY <2>1, <2>3
<1>3. QED  BY <1>1, <1>2

\* A step of a live connection that moves no handshake.
LEMMA LiveStep ==
  ASSUME DuplexInv, Live, UNCHANGED <<schema, mode, remote, active>>, DuplexTyped',
         \A x \in Peers : Moves(net'[x]) = Moves(net[x]) /\ Single(net'[x]),
         InSync', ~garbled'
  PROVE  DuplexInv'
<1>1. \A x \in Peers : OneMove(x)'
  <2>1. \A x \in Peers : OneMove(x) /\ Other(x) \in Peers
    BY PeersLemma DEF DuplexInv
  <2>2. QED  BY <2>1 DEF OneMove
<1>2. \A x \in Peers : Rests(x)'
  BY LiveLemma DEF Rests, Coming
<1>3. ASSUME NEW x \in Peers, NEW g \in Moves(net'[x])  PROVE Due(x, g)'
  <2>1. Due(x, g) /\ g.kind = "MODE_SWITCH"
    BY LiveLemma DEF DuplexInv
  <2>2. QED  BY <2>1 DEF Due, InOpcodeMode, SchemaKinds
<1>4. Live'
  BY DEF Live, Coming, InOpcodeMode
<1>5. QED  BY <1>1, <1>2, <1>3, <1>4 DEF DuplexInv

\* encode in opcode mode.  Nothing is coming, so what the sender has is what the
\* reader will have when it has read what is on its way.
LEMMA EncodeOpcodeStep ==
  ASSUME DuplexInv, Admissible, NEW p \in Peers, NEW m \in Payloads,
         EncodeOpcode(p, m), InTurnToSend(p)
  PROVE  DuplexInv'
<1> DEFINE q == Other(p)
           w == Write(codec[p], m)
           f == [kind |-> "OPCODE_MESSAGE", schema |-> active[p],
                 items |-> w.items, said |-> m]
<1>1. /\ UNCHANGED <<schema, mode, remote, active, garbled>>
      /\ net' = [net EXCEPT ![q] = Append(@, f)]
      /\ codec' = [codec EXCEPT ![p] = w.codec]
      /\ InOpcodeMode(p)
  BY DEF EncodeOpcode, Send, config
<1>2. DuplexTyped /\ q \in Peers /\ q # p /\ Other(q) = p /\ \A x \in Peers : x = p \/ x = q
  BY PeersLemma DEF DuplexInv
<1>3. w.codec \in CodecStates(Values) /\ w.items \in Seq(Items)
  BY <1>2, ReadUndoesWrite DEF DuplexTyped
<1>4. f \in Carried /\ f.kind \notin Significant
  <2>1. f \in Messages
    BY <1>2, <1>3 DEF Messages, MessageKinds, DuplexTyped
  <2>2. QED  BY <2>1, CarriedLemma DEF Significant
<1>5. Carries(f, codec[p], w.codec, active[p])
  BY DEF Carries
<1> HIDE DEF f, w
<1>6. /\ net' \in [Peers -> Seq(Carried)]
      /\ net'[p] = net[p] /\ net'[q] = Append(net[q], f)
  BY <1>1, <1>2, <1>4, SendQueues
<1>7. net[q] \in Seq(Carried) /\ net[p] \in Seq(Carried) /\ Single(net[p]) /\ Single(net[q])
  BY <1>2 DEF DuplexTyped, DuplexInv, OneMove
<1>8. Moves(net'[q]) = Moves(net[q]) /\ Single(net'[q])
  BY <1>4, <1>6, <1>7, JoinedQueue
<1>9. \A x \in Peers : Moves(net'[x]) = Moves(net[x]) /\ Single(net'[x])
  BY <1>2, <1>6, <1>7, <1>8
<1>10. DuplexTyped'
  BY <1>1, <1>2, <1>3, <1>6 DEF DuplexTyped
<1>11. ~Spoken(net[p])
  BY DEF InTurnToSend, MessageKinds, Spoken
<1>12. Live /\ InSync
  <2>1. CASE InOpcodeMode(q)
    BY <1>1, <1>2, <2>1 DEF Live, DuplexInv
  <2>2. CASE \E i \in 1..Len(net[q]) : net[q][i].kind = "MODE_SWITCH"
    <3>1. Coming(q, "MODE_SWITCH")
      BY <2>2 DEF Coming, Moves, Places, Significant
    <3>2. QED  BY <1>2, <3>1 DEF Live, DuplexInv
  <2>3. QED  BY <2>1, <2>2 DEF InTurnToSend
<1>13. Leads(net[q], codec[q], codec[p], active[q]) /\ active[q] = active[p]
  <2>1. active[q] = active[p]
    BY <1>2, <1>12, PeersLemma DEF InSync
  <2>2. PICK x \in Peers : Synced(x)
    BY <1>12 DEF InSync
  <2>3. CASE x = q
    BY <1>2, <2>1, <2>2, <2>3 DEF Synced
  <2>4. CASE x = p
    <3>1. ~Spoken(net[q]) /\ Leads(net[p], codec[p], codec[q], active[p])
      BY <2>2, <2>4 DEF Synced
    <3>2. codec[p] = codec[q]
      BY <1>7, <1>11, <3>1, SilentLeads
    <3>3. QED  BY <1>7, <2>1, <3>1, <3>2, SilentLeads
  <2>5. QED  BY <1>2, <2>3, <2>4
<1>14. Leads(net'[q], codec[q], w.codec, active[q])
  BY <1>4, <1>5, <1>6, <1>7, <1>13, JoinedLeads
<1>15. codec'[p] = w.codec /\ codec'[q] = codec[q]
  BY <1>1, <1>2 DEF DuplexTyped
<1>16. InSync'
  <2>1. Synced(q)'
    BY <1>1, <1>2, <1>6, <1>11, <1>14, <1>15 DEF Synced
  <2>2. QED  BY <1>1, <1>2, <1>12, <2>1 DEF InSync
<1>17. ~garbled'
  BY <1>1 DEF DuplexInv
<1>18. QED  BY <1>1, <1>9, <1>10, <1>12, <1>16, <1>17, LiveStep

\* encode outside opcode mode.
LEMMA EncodeRawStep ==
  ASSUME DuplexInv, NEW p \in Peers, NEW m \in Payloads, EncodeRaw(p, m)
  PROVE  DuplexInv'
<1> DEFINE q == Other(p)
           f == [kind |-> "RAW_MESSAGE", schema |-> active[p], items |-> <<>>, said |-> m]
<1>1. /\ UNCHANGED <<schema, mode, remote, active, codec, garbled>>
      /\ net' = [net EXCEPT ![q] = Append(@, f)]
  BY DEF EncodeRaw, Send, config
<1>2. DuplexTyped /\ q \in Peers /\ q # p /\ Other(q) = p /\ \A x \in Peers : x = p \/ x = q
  BY PeersLemma DEF DuplexInv
<1>3. f \in Carried /\ f.kind = "RAW_MESSAGE" /\ f.kind \notin Significant
  <2>1. <<>> \in Seq(Items)
    BY EmptySeq
  <2>2. f \in Messages
    BY <1>2, <2>1 DEF Messages, MessageKinds, DuplexTyped
  <2>3. QED  BY <2>2, CarriedLemma DEF Significant
<1> HIDE DEF f
<1>4. /\ net' \in [Peers -> Seq(Carried)]
      /\ net'[p] = net[p] /\ net'[q] = Append(net[q], f)
  BY <1>1, <1>2, <1>3, SendQueues
<1>5. /\ net[q] \in Seq(Carried) /\ Single(net[p]) /\ Single(net[q])
  BY <1>2 DEF DuplexTyped, DuplexInv, OneMove
<1>6. /\ Moves(net'[q]) = Moves(net[q]) /\ Single(net'[q])
      /\ Spoken(net'[q]) <=> Spoken(net[q])
  BY <1>3, <1>4, <1>5, JoinedQueue
<1>7. \A a, b, s : Leads(net[q], a, b, s) => Leads(net'[q], a, b, s)
  <2>1. SUFFICES ASSUME NEW a, NEW b, NEW s, Leads(net[q], a, b, s)
                 PROVE  Leads(net'[q], a, b, s)
    OBVIOUS
  <2>2. Carries(f, b, b, s)
    BY <1>3 DEF Carries
  <2>3. QED  BY <1>3, <1>4, <1>5, <2>1, <2>2, JoinedLeads
<1>8. ASSUME NEW x \in Peers
      PROVE  /\ Moves(net'[x]) = Moves(net[x]) /\ Single(net'[x])
             /\ Spoken(net'[x]) <=> Spoken(net[x])
             /\ Synced(x) => Synced(x)'
  <2>1. x = q \/ (x = p /\ Other(x) = q)
    BY <1>2
  <2>2. QED  BY <1>1, <1>2, <1>4, <1>5, <1>6, <1>7, <2>1 DEF Synced
<1>9. ~garbled'
  BY <1>1 DEF DuplexInv
<1>10. QED  BY <1>1, <1>4, <1>8, <1>9, IdleStep

\* decode: what is read was written in the reader's codec state, and for its schema.
LEMMA DecodeOpcodeStep ==
  ASSUME DuplexInv, Admissible, NEW p \in Peers, DecodeOpcode(p)
  PROVE  DuplexInv'
<1> DEFINE q == Other(p)
           f == Arriving(p)
           w == Write(codec[p], f.said)
           r == Read(codec[p], f.items)
<1>1. /\ UNCHANGED <<schema, mode, remote, active>>
      /\ net[p] # <<>> /\ f.kind = "OPCODE_MESSAGE" /\ Take(p)
      /\ codec' = [codec EXCEPT ![p] = r.codec]
      /\ garbled' = (garbled \/ r.raised \/ r.fields # f.said \/ active[p] # f.schema)
  BY DEF DecodeOpcode, Incoming, Kept, config
<1>2. DuplexTyped /\ q \in Peers /\ q # p /\ Other(q) = p /\ \A x \in Peers : x = p \/ x = q
  BY PeersLemma DEF DuplexInv
<1>3. /\ net[p] \in Seq(Carried) /\ Single(net[p]) /\ Single(net[q])
      /\ codec[p] \in CodecStates(Values)
  BY <1>2 DEF DuplexTyped, DuplexInv, OneMove
<1>4. Spoken(net[p]) /\ f.kind \notin Significant
  BY <1>1, <1>3, TakenQueue DEF Arriving, Significant
<1>5. Live /\ InSync
  BY <1>4 DEF DuplexInv
<1>6. ~Spoken(net[q]) /\ Leads(net[p], codec[p], codec[q], active[p])
  <2>1. PICK x \in Peers : Synced(x)
    BY <1>5 DEF InSync
  <2>2. x = p
    BY <1>2, <1>4, <2>1 DEF Synced
  <2>3. QED  BY <2>1, <2>2 DEF Synced
<1>7. PICK d : /\ Carries(Head(net[p]), codec[p], d, active[p])
               /\ Leads(Tail(net[p]), d, codec[q], active[p])
  BY <1>1, <1>3, <1>6, TakenLeads
<1>8. f.schema = active[p] /\ f.items = w.items /\ d = w.codec
  BY <1>1, <1>7 DEF Carries, Arriving
<1>9. f.said \in Payloads
  <2>1. f \in Carried
    BY <1>1, <1>3, TakenQueue DEF Arriving
  <2>2. f \notin Frames
    BY <1>1, CarriedLemma DEF BareKinds, SchemaKinds
  <2>3. QED  BY <2>1, <2>2, CarriedLemma DEF Carried
<1>10. /\ d \in CodecStates(Values)
       /\ r = [codec |-> d, raised |-> FALSE, fields |-> f.said]
  BY <1>3, <1>8, <1>9, ReadUndoesWrite
<1>11. ~garbled'
  <2>1. ~garbled
    BY DEF DuplexInv
  <2>2. ~r.raised /\ r.fields = f.said
    BY <1>10
  <2>3. QED  BY <1>1, <1>8, <2>1, <2>2
<1>12. codec'[p] = d /\ codec'[q] = codec[q] /\ codec' \in [Peers -> CodecStates(Values)]
  BY <1>1, <1>2, <1>10 DEF DuplexTyped
<1> HIDE DEF f, w, r
<1>13. /\ net' \in [Peers -> Seq(Carried)]
       /\ net'[p] = Tail(net[p]) /\ net'[q] = net[q]
  BY <1>1, <1>2, TakeQueues
<1>14. Moves(net'[p]) = Moves(net[p]) /\ Single(net'[p])
  BY <1>1, <1>3, <1>4, <1>13, TakenQueue DEF Arriving, f
<1>15. \A x \in Peers : Moves(net'[x]) = Moves(net[x]) /\ Single(net'[x])
  BY <1>2, <1>3, <1>13, <1>14
<1>16. DuplexTyped'
  BY <1>1, <1>2, <1>12, <1>13 DEF DuplexTyped
<1>17. InSync'
  <2>1. Synced(p)'
    BY <1>1, <1>6, <1>7, <1>12, <1>13 DEF Synced
  <2>2. QED  BY <1>1, <1>5, <2>1 DEF InSync
<1>18. QED  BY <1>1, <1>5, <1>11, <1>15, <1>16, <1>17, LiveStep
-----------------------------------------------------------------------------
\* JSON reads a message as it was said: a tuple cannot be written where it would be
\* read as one.
LEMMA JsonLemma ==
  ASSUME Admissible, NEW m \in Payloads, NEW f \in DOMAIN m
  PROVE  JsonRead(m[f]) = m[f]
<1>1. f \in Fields /\ Encodable(f, m[f]) /\ Literal(f, m[f]) = m[f]
  BY DuplexAssumption DEF Admissible
<1>2. FieldType[f] \in {"uvarint", "svarint", "bytes", "str", "bool", "any"}
  BY <1>1, CodecAssumption
<1>3. ASSUME m[f].type = "tuple"  PROVE FALSE
  <2>1. FieldType[f] \notin {"uvarint", "svarint", "bytes", "str"}
    BY <1>1, <1>3 DEF Encodable, Numeric
  <2>2. CASE FieldType[f] = "bool"
    <3>1. Literal(f, m[f]).type = "bool"
      BY <2>2 DEF Literal
    <3>2. QED  BY <1>1, <1>3, <3>1
  <2>3. CASE FieldType[f] = "any"
    <3>1. Literal(f, m[f]) = JsonRead(m[f])
      BY <1>3, <2>3 DEF Literal, IsInt
    <3>2. m[f] \in [type : STRING, n : Int]
      BY <1>1, ValuesLemma, DuplexAssumption
    <3>3. JsonRead(m[f]) = [type |-> "list", n |-> m[f].n]
      BY <1>3, <3>2 DEF JsonRead
    <3>4. QED  BY <1>1, <1>3, <3>1, <3>3
  <2>4. QED  BY <1>2, <2>1, <2>2, <2>3
<1>4. QED  BY <1>3 DEF JsonRead

\* The rules the theorems are for: the application keeps all three.
Orderly == {"initiate", "reset", "send"} \subseteq Rules

LEMMA DuplexNextInv ==
  ASSUME Orderly, Admissible, DuplexInv, [DuplexNext]_duplexVars
  PROVE  DuplexInv'
<1>1. ASSUME NEW p \in Initiators, InitiateHandshake(p)  PROVE DuplexInv'
  <2>1. p \in Peers /\ InTurnToInitiate(p)
    BY <1>1, HandshakeAssumption DEF InitiateHandshake, Orderly
  <2>2. QED  BY <1>1, <2>1, InitiateStep
<1>2. ASSUME NEW p \in Peers, ResetSession(p)  PROVE DuplexInv'
  <2>1. Quiet
    BY <1>2 DEF ResetSession, Orderly
  <2>2. QED  BY <1>2, <2>1, ResetStep
<1>3. ASSUME NEW p \in Peers, Receive(p)  PROVE DuplexInv'
  BY <1>3, ReceiveStep
<1>4. ASSUME NEW p \in Peers, DecodeOpcode(p)  PROVE DuplexInv'
  BY <1>4, DecodeOpcodeStep
<1>5. ASSUME NEW p \in Peers, DecodeRaw(p)  PROVE DuplexInv'
  <2>1. /\ net[p] # <<>> /\ Arriving(p).kind = "RAW_MESSAGE" /\ Take(p)
        /\ UNCHANGED <<schema, mode, remote, active, codec>>
    BY <1>5 DEF DecodeRaw, Incoming, config
  <2>2. Arriving(p) \in Carried
    <3>1. net[p] \in Seq(Carried)
      BY DEF DuplexInv, DuplexTyped
    <3>2. QED  BY <2>1, <3>1, TakenQueue DEF Arriving
  <2>3. Arriving(p).said \in Payloads
    BY <2>1, <2>2, CarriedLemma DEF Carried, BareKinds, SchemaKinds
  <2>4. ~garbled'
    <3>1. \A f \in DOMAIN Arriving(p).said : JsonRead(Arriving(p).said[f]) = Arriving(p).said[f]
      BY <2>3, JsonLemma
    <3>2. ~garbled
      BY DEF DuplexInv
    <3>3. QED  BY <1>5, <3>1, <3>2 DEF DecodeRaw
  <2>5. QED  BY <2>1, <2>4, TakeIdle
<1>6. ASSUME NEW p \in Peers, NEW m \in Payloads, EncodeOpcode(p, m)  PROVE DuplexInv'
  <2>1. InTurnToSend(p)
    BY <1>6 DEF EncodeOpcode, Orderly
  <2>2. QED  BY <1>6, <2>1, EncodeOpcodeStep
<1>7. ASSUME NEW p \in Peers, NEW m \in Payloads, EncodeRaw(p, m)  PROVE DuplexInv'
  BY <1>7, EncodeRawStep
<1>8. CASE UNCHANGED duplexVars
  <2>1. /\ UNCHANGED <<schema, mode, remote, active, codec>> /\ net' = net /\ ~garbled'
    BY <1>8 DEF duplexVars, vars, config, DuplexInv
  <2>2. DuplexTyped' /\ \A x \in Peers : Single(net[x])
    BY <2>1 DEF DuplexInv, DuplexTyped, OneMove
  <2>3. \A x \in Peers : Synced(x) => Synced(x)'
    BY <2>1 DEF Synced
  <2>4. QED  BY <2>1, <2>2, <2>3, IdleStep DEF DuplexTyped
<1>9. QED  BY <1>1, <1>2, <1>3, <1>4, <1>5, <1>6, <1>7, <1>8 DEF DuplexNext

THEOREM ConversationInvariant ==
  ASSUME Orderly, Admissible
  PROVE  DuplexSpec => []DuplexInv
<1>1. DuplexInit => DuplexInv
  BY DuplexInitInv
<1>2. DuplexInv /\ [DuplexNext]_duplexVars => DuplexInv'
  BY DuplexNextInv
<1>3. QED  BY <1>1, <1>2, PTL DEF DuplexSpec

\* Whatever two sessions say to each other, in either direction, before, during
\* and after a handshake, a renegotiation or a reset, is read as it was said:
\* Session.decode never raises, and never returns other fields.
THEOREM ConversationNeverGarbled ==
  ASSUME Orderly, Admissible
  PROVE  DuplexSpec => []NeverGarbled
<1>1. DuplexInv => NeverGarbled
  BY DEF DuplexInv, NeverGarbled
<1>2. QED  BY <1>1, ConversationInvariant, PTL

\* When all that was sent has been read, two sessions in opcode mode hold the same
\* value table and the same last values, though neither was ever told the other's.
THEOREM ConversationTablesAgree ==
  ASSUME Orderly, Admissible
  PROVE  DuplexSpec => []TablesAgree
<1>1. ASSUME DuplexInv  PROVE TablesAgree
  <2>1. SUFFICES ASSUME Quiet, \A p \in Peers : InOpcodeMode(p)
                 PROVE  codec["client"] = codec["server"]
    BY DEF TablesAgree
  <2>2. PICK p \in Peers : Synced(p)
    BY <1>1, <2>1 DEF DuplexInv, Live, InSync
  <2>3. /\ net[p] \in Seq(Carried) /\ ~Spoken(net[p])
    BY <1>1, <2>1, QuietLemma DEF DuplexInv, DuplexTyped
  <2>4. codec[p] = codec[Other(p)]
    BY <2>2, <2>3, SilentLeads DEF Synced
  <2>5. QED  BY <2>4, PeersLemma
<1>2. QED  BY <1>1, ConversationInvariant, PTL
=============================================================================
