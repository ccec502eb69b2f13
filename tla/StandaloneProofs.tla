-------------------------- MODULE StandaloneProofs -------------------------
(***************************************************************************)
(* Theorems about components that have no neighbour, which MCStandalone    *)
(* runs side by side: SchemaIds, LegacyEnvelope, LegacyFleet, LegacyAlias, *)
(* FrameCodec, LegacyChunks, LegacyStream, LegacyRecords.  For each, its   *)
(* inductive invariant; the assumptions on the constants are those its     *)
(* module states.                                                          *)
(***************************************************************************)
EXTENDS SchemaIds, LegacyEnvelope, LegacyFleet, LegacyAlias, FrameCodec, LegacyChunks,
        LegacyStream, LegacyRecords, FiniteSetTheorems, SequenceTheorems, WellFoundedInduction, TLAPS

-----------------------------------------------------------------------------
(***************************************************************************)
(* SchemaIds.  Names are numbered in the order of the strings; the value   *)
(* that stands for the string "auto" is no id.                             *)
(***************************************************************************)
Numbered == Autos(raw) \cap DOMAIN assigned   \* by the loop, so far

IdsTyped ==
  /\ DOMAIN raw \subseteq Names /\ raw \in [DOMAIN raw -> Int]
  /\ todo \subseteq DOMAIN raw /\ nextId \in Nat \ {0}
  /\ IsFiniteSet(used)
  /\ assigned \in [DOMAIN raw \ todo -> Int \ {AutoId}]
  /\ status \in {"assign", "done", "raised"}

\* What is used is what a name has, the explicit ids from the start; the automatic
\* ids so far are the first numbers that are free, one for each name.
IdsInv ==
  /\ IdsTyped
  /\ used = Given(raw) \cup {assigned[x] : x \in Numbered}
  /\ \A x \in DOMAIN assigned \ Autos(raw) : assigned[x] = raw[x]
  /\ \A x \in DOMAIN assigned, y \in todo : x < y
  /\ \A x \in Numbered :
       /\ assigned[x] \in 1..nextId - 1 /\ assigned[x] \notin Given(raw)
       /\ Rank(1..assigned[x] \ Given(raw), assigned[x])
            = Rank(Autos(raw), x)
       /\ \A y \in Numbered : assigned[x] = assigned[y] => x = y
  /\ Cardinality(1..nextId - 1 \ Given(raw)) = Cardinality(Numbered)
  /\ canonical # <<>> => raw = canonical /\ Autos(raw) = {}
  /\ status # "assign" => todo = {}
  /\ status = "done" => IsInjective(assigned)
  /\ status = "raised" => ~IsInjective(assigned)

\* The first name the loop has not reached.
LEMMA FirstName ==
  ASSUME NEW S \in SUBSET Nat, S # {}
  PROVE  Min(S) \in S /\ \A y \in S : Min(S) <= y
<1>1. \E x \in S : \A y \in S : ~(<<y, x>> \in OpToRel(<, Nat))
  BY NatLessThanWellFounded, WFMin
<1>2. \A x, y \in S : ~(<<y, x>> \in OpToRel(<, Nat)) => x <= y
  BY DEF OpToRel
<1>3. \E x \in S : \A y \in S : x <= y
  BY <1>1, <1>2
<1>4. QED  BY <1>3 DEF Min

\* The loop that looks for a free id ends: of n + 1 numbers one is not among n.
LEMMA FreeIdLemma ==
  ASSUME nextId \in Nat, IsFiniteSet(used)
  PROVE  /\ FreeId \in Nat /\ FreeId >= nextId /\ FreeId \notin used
         /\ \A j \in nextId..FreeId - 1 : j \in used
<1> DEFINE n     == Cardinality(used)
           range == nextId..nextId + n
           free  == {i \in range : i \notin used}
<1>1. n \in Nat
  BY FS_CardinalityType
<1>2. IsFiniteSet(range) /\ Cardinality(range) = n + 1
  <2> HIDE DEF n
  <2>1. nextId \in Int /\ nextId + n \in Int /\ nextId <= nextId + n
    BY <1>1
  <2> DEFINE top == nextId + n
  <2>2. top - nextId + 1 = n + 1 /\ ~(nextId > top) /\ top \in Int
    BY <1>1
  <2> HIDE DEF top
  <2>3. /\ IsFiniteSet(nextId..top)
        /\ Cardinality(nextId..top) = IF nextId > top THEN 0 ELSE top - nextId + 1
    BY <2>1, <2>2, FS_Interval
  <2>4. range = nextId..top
    BY DEF top
  <2> HIDE DEF range
  <2>5. QED  BY <2>2, <2>3, <2>4
<1>3. ~(range \subseteq used)
  <2> SUFFICES ASSUME range \subseteq used PROVE FALSE
    OBVIOUS
  <2> HIDE DEF range
  <2>1. Cardinality(range) <= Cardinality(used)
    BY FS_Subset
  <2> HIDE DEF n
  <2>2. n + 1 <= n
    BY <1>2, <2>1 DEF n
  <2>3. QED  BY <1>1, <2>2
<1>4. free # {} /\ free \in SUBSET Nat
  <2> HIDE DEF n
  <2>1. range \subseteq Nat
    BY <1>1
  <2>2. QED  BY <1>3, <2>1
<1>5. PICK i \in free : \A j \in free : i <= j
  <2> HIDE DEF free
  <2>1. QED  BY <1>4, FirstName
<1>6. i \in range /\ i \notin used /\ \A j \in nextId..i - 1 : j \in used
  <2> HIDE DEF n
  <2>1. i \in range /\ i \notin used
    BY <1>5
  <2>2. ASSUME NEW j \in nextId..i - 1 PROVE j \in used
    <3>1. j \in range /\ ~(i <= j)
      BY <1>1, <2>1
    <3>2. QED  BY <1>5, <3>1
  <2>3. QED  BY <2>1, <2>2
<1>7. /\ FreeId \in range /\ FreeId \notin used
      /\ \A j \in nextId..FreeId - 1 : j \in used
  BY <1>6 DEF FreeId
<1>8. \A k \in range : k \in Nat /\ k >= nextId
  <2> HIDE DEF n
  <2>1. QED  BY <1>1
<1>9. QED  BY <1>7, <1>8

\* The explicit ids: as many as the names that have one, unless two share one.
LEMMA GivenLemma ==
  ASSUME NEW m, IsFiniteSet(DOMAIN m)
  PROVE  /\ IsFiniteSet(Explicit(m)) /\ IsFiniteSet(Given(m))
         /\ Cardinality(Given(m)) <= Cardinality(Explicit(m))
         /\ Cardinality(Given(m)) < Cardinality(Explicit(m))
              <=> \E x, y \in Explicit(m) : m[x] = m[y] /\ x # y
<1> DEFINE E == Explicit(m)
           G == Given(m)
           f == [x \in E |-> m[x]]
<1>1. IsFiniteSet(E)
  BY FS_Subset DEF Explicit
<1>2. f \in Surjection(E, G)
  BY DEF Surjection, Given
<1>3. f \in Injection(E, G) <=> ~\E x, y \in E : m[x] = m[y] /\ x # y
  <2>1. f \in [E -> G]
    BY <1>2 DEF Surjection
  <2>2. \A x \in E : f[x] = m[x]
    OBVIOUS
  <2> HIDE DEF f, E
  <2>3. DOMAIN f = E
    BY <2>1
  <2>4. QED  BY <2>1, <2>2, <2>3 DEF Injection, IsInjective
<1>4. /\ IsFiniteSet(G) /\ Cardinality(G) <= Cardinality(E)
      /\ Cardinality(G) = Cardinality(E) <=> f \in Injection(E, G)
  <2> HIDE DEF f, E, G
  <2>1. QED  BY <1>1, <1>2, FS_Surjection
<1>5. Cardinality(G) \in Nat /\ Cardinality(E) \in Nat
  BY <1>1, <1>4, FS_CardinalityType
<1> HIDE DEF f, E, G
<1>6. /\ IsFiniteSet(E) /\ IsFiniteSet(G) /\ Cardinality(G) <= Cardinality(E)
      /\ Cardinality(G) < Cardinality(E) <=> \E x, y \in E : m[x] = m[y] /\ x # y
  BY <1>1, <1>3, <1>4, <1>5
<1>7. QED  BY <1>6 DEF E, G

\* Before the loop nothing is numbered.
LEMMA NothingNumbered ==
  /\ DOMAIN <<>> = {} /\ \A S : <<>> \in [{} -> S]
  /\ \A S : 1..1 - 1 \ S = {} /\ Cardinality({}) = 0
<1>1. \A S : <<>> \in [1..0 -> S]
  <2> TAKE S
  <2>1. <<>> \in Seq(S) /\ Len(<<>>) = 0
    OBVIOUS
  <2>2. QED  BY <2>1
<1>2. 1..0 = {}
  OBVIOUS
<1>3. QED  BY <1>1, <1>2, FS_EmptySet

\* Any schema may be the first one.
LEMMA IdsInvInit ==
  IdsInit => IdsInv
<1> SUFFICES ASSUME IdsInit PROVE IdsInv
  OBVIOUS
<1>1. /\ DOMAIN raw \in SUBSET Names /\ raw \in [DOMAIN raw -> Ids \cup {AutoId}]
      /\ todo = DOMAIN raw /\ used = Given(raw)
      /\ nextId = 1 /\ assigned = <<>> /\ status = "assign" /\ canonical = <<>>
  BY DEF IdsInit, Begin, Given
<1>2. IsFiniteSet(used)
  BY <1>1, GivenLemma, FS_Subset, SchemaAssumption
<1>3. DOMAIN assigned = {} /\ DOMAIN raw \ todo = {} /\ Numbered = {}
  BY <1>1, NothingNumbered DEF Numbered
<1>4. assigned \in [DOMAIN raw \ todo -> Int \ {AutoId}]
  BY <1>1, <1>3, NothingNumbered
<1>5. Cardinality(1..nextId - 1 \ Given(raw)) = 0 /\ Cardinality(Numbered) = 0
  BY <1>1, <1>3, NothingNumbered
<1>6. raw \in [DOMAIN raw -> Int]
  BY <1>1, SchemaAssumption DEF AutoId
<1>7. IdsTyped
  BY <1>1, <1>2, <1>4, <1>6 DEF IdsTyped
<1>8. QED  BY <1>1, <1>3, <1>5, <1>7 DEF IdsInv

\* The receiver begins again, with the ids the sender assigned.
LEMMA IdsTransfer ==
  ASSUME IdsInv, Transfer
  PROVE  IdsInv'
<1>1. /\ todo = {} /\ canonical' = assigned /\ raw' = assigned /\ todo' = DOMAIN raw
      /\ nextId' = 1 /\ assigned' = <<>> /\ status' = "assign"
      /\ used' = {assigned[x] : x \in DOMAIN assigned}
  BY DEF Transfer, Range
<1>2. /\ DOMAIN assigned = DOMAIN raw /\ assigned \in [DOMAIN raw -> Int \ {AutoId}]
      /\ DOMAIN raw \subseteq Names
  BY <1>1 DEF IdsInv, IdsTyped
<1>3. Explicit(raw') = DOMAIN raw' /\ Autos(raw') = {}
  BY <1>1, <1>2 DEF Explicit, Autos
<1>4. used' = Given(raw') /\ IsFiniteSet(used')
  <2>1. used' = Given(raw')
    BY <1>1, <1>3 DEF Given
  <2>2. QED  BY <1>1, <1>2, <2>1, GivenLemma, FS_Subset, SchemaAssumption
<1>5. DOMAIN assigned' = {} /\ DOMAIN raw' \ todo' = {} /\ Numbered' = {}
  BY <1>1, <1>2, NothingNumbered DEF Numbered
<1>6. assigned' \in [DOMAIN raw' \ todo' -> Int \ {AutoId}]
  BY <1>1, <1>5, NothingNumbered
<1>7. Cardinality(1..nextId' - 1 \ Given(raw')) = 0 /\ Cardinality(Numbered') = 0
  BY <1>1, <1>5, NothingNumbered
<1>8. IdsTyped'
  BY <1>1, <1>2, <1>4, <1>6 DEF IdsTyped
<1>9. QED  BY <1>1, <1>3, <1>4, <1>5, <1>7, <1>8 DEF IdsInv

\* The next name and its id, and what that changes in any case.
LEMMA GiveLemma ==
  ASSUME IdsTyped, todo # {},
         \A x \in DOMAIN assigned, y \in todo : x < y,
         NEW id \in Int \ {AutoId},
         todo' = todo \ {Min(todo)}, assigned' = GiveId(Min(todo), id)
  PROVE  /\ Min(todo) \in todo /\ Min(todo) \notin DOMAIN assigned
         /\ DOMAIN assigned' = DOMAIN assigned \cup {Min(todo)}
         /\ assigned'[Min(todo)] = id
         /\ \A x \in DOMAIN assigned : assigned'[x] = assigned[x]
         /\ assigned' \in [DOMAIN raw \ todo' -> Int \ {AutoId}]
         /\ todo' \subseteq DOMAIN raw
         /\ \A x \in DOMAIN assigned', y \in todo' : x < y
<1> DEFINE n == Min(todo)
<1>1. todo \in SUBSET Nat /\ DOMAIN raw \subseteq Nat /\ DOMAIN assigned = DOMAIN raw \ todo
  BY SchemaAssumption DEF IdsTyped
<1>2. n \in todo /\ \A y \in todo : n <= y
  BY <1>1, FirstName
<1> HIDE DEF n
<1>3. n \in todo /\ n \notin DOMAIN assigned /\ todo' = todo \ {n}
  BY <1>1, <1>2 DEF n
<1>4. assigned' = [x \in DOMAIN assigned \cup {n} |-> IF x = n THEN id ELSE assigned[x]]
  BY DEF n, GiveId
<1>5. /\ DOMAIN assigned' = DOMAIN assigned \cup {n} /\ assigned'[n] = id
      /\ \A x \in DOMAIN assigned : assigned'[x] = assigned[x]
  BY <1>3, <1>4
<1>6. DOMAIN raw \ todo' = DOMAIN assigned \cup {n} /\ todo' \subseteq DOMAIN raw
  BY <1>1, <1>3 DEF IdsTyped
<1>7. assigned' \in [DOMAIN raw \ todo' -> Int \ {AutoId}]
  BY <1>4, <1>6 DEF IdsTyped
<1>8. \A x \in DOMAIN assigned', y \in todo' : x < y
  <2> SUFFICES ASSUME NEW x \in DOMAIN assigned', NEW y \in todo' PROVE x < y
    OBVIOUS
  <2>1. y \in todo /\ y # n /\ n <= y /\ y \in Nat /\ n \in Nat
    BY <1>1, <1>2, <1>3
  <2>2. QED  BY <1>5, <2>1
<1>9. QED  BY <1>3, <1>5, <1>6, <1>7, <1>8 DEF n

\* The loop gives the next name its own id, or the first free one.
LEMMA IdsAssign ==
  ASSUME IdsInv, Assign
  PROVE  IdsInv'
<1> DEFINE n == Min(todo)
           G == Given(raw)
           A == Autos(raw)
           id == IF raw[n] = AutoId THEN FreeId ELSE raw[n]
<1>1. /\ status = "assign" /\ todo # {} /\ UNCHANGED <<raw, canonical, status>>
      /\ todo' = todo \ {n}
  BY DEF Assign
<1>2. /\ nextId \in Nat \ {0} /\ IsFiniteSet(used)
      /\ FreeId \in Nat /\ FreeId >= nextId /\ FreeId \notin used
      /\ \A j \in nextId..FreeId - 1 : j \in used
  BY FreeIdLemma DEF IdsInv, IdsTyped
<1>3. todo \subseteq DOMAIN raw /\ raw \in [DOMAIN raw -> Int] /\ n \in todo
  BY <1>1, FirstName, SchemaAssumption DEF IdsInv, IdsTyped
<1>4. id \in Int \ {AutoId}
  BY <1>2, <1>3 DEF AutoId
<1>5. assigned' = GiveId(n, id)
  BY DEF Assign
<1> HIDE DEF id
<1>6. /\ n \notin DOMAIN assigned /\ DOMAIN assigned' = DOMAIN assigned \cup {n}
      /\ assigned'[n] = id
      /\ \A x \in DOMAIN assigned : assigned'[x] = assigned[x]
      /\ assigned' \in [DOMAIN raw \ todo' -> Int \ {AutoId}]
      /\ todo' \subseteq DOMAIN raw
      /\ \A x \in DOMAIN assigned', y \in todo' : x < y
  BY <1>1, <1>4, <1>5, GiveLemma DEF IdsInv
<1> HIDE DEF n
<1>7. /\ A = {x \in DOMAIN raw : raw[x] = AutoId}
      /\ G = {raw[x] : x \in DOMAIN raw \ A}
      /\ A' = A /\ G' = G
  BY <1>1 DEF Autos, Explicit, Given
<1> HIDE DEF A, G
<1>8. CASE raw[n] # AutoId
  <2>1. used' = used /\ nextId' = nextId /\ id = raw[n]
    BY <1>8 DEF Assign, id, n
  <2>2. n \notin A
    BY <1>7, <1>8
  <2>3. Numbered' = Numbered /\ \A x \in Numbered : assigned'[x] = assigned[x]
    BY <1>6, <1>7, <2>2 DEF Numbered, A
  <2>4. {assigned'[x] : x \in Numbered'} = {assigned[x] : x \in Numbered}
    BY <2>3
  <2>5. \A x \in DOMAIN assigned' \ A : assigned'[x] = raw[x]
    BY <1>6, <2>1 DEF IdsInv, A
  <2>6. IdsTyped'
    BY <1>1, <1>6, <2>1 DEF IdsInv, IdsTyped
  <2>7. \A x \in Numbered' :
          /\ assigned'[x] \in 1..nextId' - 1 /\ assigned'[x] \notin G
          /\ Rank(1..assigned'[x] \ G, assigned'[x]) = Rank(A, x)
          /\ \A y \in Numbered' : assigned'[x] = assigned'[y] => x = y
    BY <2>1, <2>3 DEF IdsInv, A, G
  <2>8. Cardinality(1..nextId' - 1 \ G) = Cardinality(Numbered')
    BY <2>1, <2>3 DEF IdsInv, G
  <2>9. used' = G' \cup {assigned'[x] : x \in Numbered'}
    BY <1>7, <2>1, <2>4 DEF IdsInv, G
  <2>10. QED
    BY <1>1, <1>6, <1>7, <2>5, <2>6, <2>7, <2>8, <2>9 DEF IdsInv, A, G
<1>9. CASE raw[n] = AutoId
  <2>1. id = FreeId /\ used' = used \cup {id} /\ nextId' = id + 1
    BY <1>9 DEF Assign, id, n
  <2>2. /\ id \in Nat /\ id >= nextId /\ id \notin used /\ id \in Int
        /\ \A j \in nextId..id - 1 : j \in used
    BY <1>2, <2>1
  <2>3. n \in A /\ Numbered' = Numbered \cup {n} /\ n \notin Numbered
    BY <1>3, <1>6, <1>7, <1>9 DEF Numbered, A
  <2>4. \A x \in Numbered : assigned'[x] = assigned[x]
    BY <1>6 DEF Numbered
  <2>5. /\ used = G \cup {assigned[x] : x \in Numbered}
        /\ \A x \in Numbered :
             /\ assigned[x] \in 1..nextId - 1 /\ assigned[x] \notin G
             /\ Rank(1..assigned[x] \ G, assigned[x]) = Rank(A, x)
             /\ \A y \in Numbered : assigned[x] = assigned[y] => x = y
        /\ Cardinality(1..nextId - 1 \ G) = Cardinality(Numbered)
    BY DEF IdsInv, A, G
  <2>6. \A j \in nextId..id - 1 : j \in G
    <3> SUFFICES ASSUME NEW j \in nextId..id - 1, j \notin G PROVE FALSE
      OBVIOUS
    <3>1. PICK x \in Numbered : j = assigned[x]
      BY <2>2, <2>5
    <3>2. j \in 1..nextId - 1
      BY <2>5, <3>1
    <3>3. QED  BY <1>2, <2>2, <3>2
  <2>7. id \notin G
    BY <2>2, <2>5
  <2>8. 1..id \ G = (1..nextId - 1 \ G) \cup {id} /\ id \notin 1..nextId - 1 \ G
    BY <1>2, <2>2, <2>6, <2>7
  <2>9. IsFiniteSet(1..nextId - 1 \ G) /\ IsFiniteSet(Numbered)
    <3>1. IsFiniteSet(1..nextId - 1)
      <4>1. nextId - 1 \in Int
        BY <1>2
      <4>2. QED  BY <4>1, FS_Interval
    <3>2. IsFiniteSet(DOMAIN raw)
      BY FS_Subset, SchemaAssumption DEF IdsInv, IdsTyped
    <3>3. Numbered \subseteq DOMAIN raw
      BY DEF Numbered, Autos
    <3>4. QED  BY <3>1, <3>2, <3>3, FS_Subset
  <2>10. Cardinality(1..id \ G) = Cardinality(Numbered')
    <3>1. Cardinality(1..id \ G) = Cardinality(1..nextId - 1 \ G) + 1
      BY <2>8, <2>9, FS_AddElement
    <3>2. Cardinality(Numbered') = Cardinality(Numbered) + 1
      BY <2>3, <2>9, FS_AddElement
    <3>3. QED  BY <2>5, <3>1, <3>2
  <2>11. Rank(1..id \ G, id) = Rank(A, n)
    <3>1. {y \in 1..id \ G : y <= id} = 1..id \ G
      BY <2>2
    <3>2. {y \in A : y <= n} = Numbered'
      <4>1. \A y \in DOMAIN raw : y \in todo \/ y \in DOMAIN assigned
        BY DEF IdsInv, IdsTyped
      <4>2. \A y \in todo : n <= y /\ y \in Nat /\ n \in Nat
        BY <1>3, FirstName, SchemaAssumption DEF IdsInv, IdsTyped, n
      <4>3. \A y \in DOMAIN assigned : y < n /\ y \in Nat
        BY <1>3, SchemaAssumption DEF IdsInv, IdsTyped
      <4>4. A \subseteq DOMAIN raw /\ Numbered = A \cap DOMAIN assigned
        BY DEF A, Autos, Numbered
      <4>5. \A y \in A : y <= n <=> y \in Numbered'
        BY <1>3, <2>3, <4>1, <4>2, <4>3, <4>4
      <4>6. QED  BY <2>3, <4>4, <4>5
    <3>3. QED  BY <2>10, <3>1, <3>2 DEF Rank
  <2>12. {assigned'[x] : x \in Numbered'} = {assigned[x] : x \in Numbered} \cup {id}
    BY <1>6, <2>3, <2>4
  <2>13. nextId' - 1 = id /\ nextId' \in Nat \ {0} /\ IsFiniteSet(used')
    BY <1>2, <2>1, <2>2, FS_AddElement
  <2>14. \A x \in Numbered' :
           /\ assigned'[x] \in 1..nextId' - 1 /\ assigned'[x] \notin G
           /\ Rank(1..assigned'[x] \ G, assigned'[x]) = Rank(A, x)
           /\ \A y \in Numbered' : assigned'[x] = assigned'[y] => x = y
    <3>1. assigned'[n] = id /\ id \in 1..id
      BY <1>2, <1>6, <2>2
    <3>2. \A x \in Numbered : assigned'[x] \in 1..id /\ assigned'[x] # id
      <4>1. \A x \in Numbered : assigned'[x] \in 1..nextId - 1
        BY <2>4, <2>5
      <4>2. \A k \in 1..nextId - 1 : k \in 1..id /\ k # id
        BY <1>2, <2>2
      <4>3. QED  BY <4>1, <4>2
    <3>3. QED  BY <2>3, <2>4, <2>5, <2>7, <2>11, <2>13, <3>1, <3>2
  <2>15. used' = G \cup {assigned'[x] : x \in Numbered'}
    BY <2>1, <2>5, <2>12
  <2>16. \A x \in DOMAIN assigned' \ A : assigned'[x] = raw[x]
    BY <1>6, <2>3 DEF IdsInv, A
  <2>17. IdsTyped'
    BY <1>1, <1>6, <2>13 DEF IdsInv, IdsTyped
  <2>18. Cardinality(1..nextId' - 1 \ G) = Cardinality(Numbered')
    BY <2>10, <2>13
  <2>19. canonical' # <<>> => raw' = canonical' /\ A' = {}
    BY <1>1, <1>7 DEF IdsInv, A
  <2>20. QED
    BY <1>1, <1>6, <1>7, <2>14, <2>15, <2>16, <2>17, <2>18, <2>19 DEF IdsInv, A, G
<1>10. QED  BY <1>8, <1>9

\* Every step keeps the account of the ids.
LEMMA IdsInvNext ==
  IdsInv /\ [IdsNext]_idVars => IdsInv'
<1> SUFFICES ASSUME IdsInv, [IdsNext]_idVars PROVE IdsInv'
  OBVIOUS
<1>1. ASSUME UNCHANGED <<raw, todo, used, nextId, assigned, canonical>>,
             status' # "assign" => todo = {},
             status' = "done" => IsInjective(assigned),
             status' = "raised" => ~IsInjective(assigned),
             status' \in {"assign", "done", "raised"}
      PROVE  IdsInv'
  <2>1. Numbered' = Numbered /\ IdsTyped'
    BY <1>1 DEF Numbered, IdsInv, IdsTyped
  <2>2. QED  BY <1>1, <2>1 DEF IdsInv
<1>2. CASE Duplicate
  BY <1>1, <1>2 DEF Duplicate
<1>3. CASE Done
  BY <1>1, <1>3 DEF Done
<1>4. CASE UNCHANGED idVars
  BY <1>1, <1>4 DEF idVars, IdsInv, IdsTyped
<1>5. QED
  BY <1>2, <1>3, <1>4, IdsAssign, IdsTransfer DEF IdsNext

\* The receiver of a transfer has the ids of the sender, whatever the schema: its
\* fingerprint is the one that was announced.
THEOREM TransfersKeepIds ==
  IdsSpec => []TransferKeepsIds
<1>1. IdsInv => TransferKeepsIds
  <2> SUFFICES ASSUME IdsInv, status = "done", canonical # <<>> PROVE assigned = canonical
    BY DEF TransferKeepsIds
  <2>1. todo = {} /\ raw = canonical /\ Autos(raw) = {}
    BY DEF IdsInv
  <2>2. DOMAIN assigned = DOMAIN raw /\ \A x \in DOMAIN raw : assigned[x] = raw[x]
    BY <2>1 DEF IdsInv, IdsTyped
  <2>3. QED  BY <2>1, <2>2 DEF IdsInv, IdsTyped
<1>2. QED  BY <1>1, IdsInvInit, IdsInvNext, PTL DEF IdsSpec

\* An automatic id is the free number of its name's rank among the automatic ones,
\* and a schema is refused exactly when two of its names were given one id.
THEOREM NumbersKeepPromise ==
  IdsSpec => []NumbersAsPromised
<1>1. IdsInv => NumbersAsPromised
  <2> SUFFICES ASSUME IdsInv PROVE NumbersAsPromised
    OBVIOUS
  <2> DEFINE A == Autos(raw)
             E == Explicit(raw)
  <2>1. ASSUME todo = {}
        PROVE  IsInjective(assigned) <=> ~\E x, y \in E : raw[x] = raw[y] /\ x # y
    <3>1. /\ DOMAIN assigned = DOMAIN raw /\ Numbered = A
          /\ E = DOMAIN raw \ A
      BY <2>1 DEF IdsInv, IdsTyped, Numbered, Autos, Explicit
    <3>2. \A x \in E : assigned[x] = raw[x] /\ raw[x] \in Given(raw)
      BY <3>1 DEF IdsInv, Given
    <3>3. \A x \in A : /\ assigned[x] \notin Given(raw)
                       /\ \A y \in A : assigned[x] = assigned[y] => x = y
      BY <3>1 DEF IdsInv
    <3> HIDE DEF A, E
    <3>4. QED  BY <3>1, <3>2, <3>3 DEF IsInjective
  <2>2. IsFiniteSet(DOMAIN raw)
    BY FS_Subset, SchemaAssumption DEF IdsInv, IdsTyped
  <2>3. Cardinality(Given(raw)) < Cardinality(E)
          <=> \E x, y \in E : raw[x] = raw[y] /\ x # y
    BY <2>2, GivenLemma
  <2> HIDE DEF E
  <2>4. status \in {"raised", "done"} =>
          (status = "raised" <=> Cardinality(Given(raw)) < Cardinality(E))
    BY <2>1, <2>3 DEF IdsInv
  <2>5. \A x \in A \cap DOMAIN assigned :
          /\ assigned[x] \notin Given(raw)
          /\ Rank(1..assigned[x] \ Given(raw), assigned[x]) = Rank(A, x)
    BY DEF IdsInv, Numbered
  <2>6. QED  BY <2>4, <2>5 DEF NumbersAsPromised, E
<1>2. QED  BY <1>1, IdsInvInit, IdsInvNext, PTL DEF IdsSpec
-----------------------------------------------------------------------------
(***************************************************************************)
(* LegacyEnvelope.                                                         *)
(***************************************************************************)
Damaged(p) == [p EXCEPT !.text = -1]

\* What a message can have become: its checksum and its length are still those of
\* a payload that was encoded and fits.
Packets ==
  {p \in [payload : originals \cup {Damaged(q) : q \in originals}, text : BOOLEAN,
          cut : {0, 1}, length : Int, crc : originals] :
     /\ p.payload \in {p.crc, Damaged(p.crc)}
     /\ p.length = PayloadSize(p.crc)
     /\ HeaderSize(p.text) + p.length <= MaxMessage}

EnvelopeInv ==
  /\ made \in Nat
  /\ \A p \in originals :
       /\ p = [version |-> p.version, src |-> p.src, dst |-> p.dst, instruction |-> p.instruction,
               cid |-> p.cid, task |-> p.task, text |-> p.text, nonce |-> p.nonce, mac |-> p.mac]
       /\ p.text \in Nat /\ PayloadSize(p) \in Int
  /\ mail \in [Agents -> Seq(Packets)] /\ batch \in [Agents -> Seq(Packets)]
  /\ returned \in Seq([payload : originals, on : BOOLEAN])
  /\ OnceOnly
  /\ \A i \in DOMAIN returned :
       Checked(returned[i].payload, returned[i]) => Nonce(returned[i].payload) \in seen
  /\ \A x \in seen : \E i \in DOMAIN returned :
       returned[i].on /\ Nonce(returned[i].payload) = x
  /\ last.how = "refused" =>
       \/ last.packet.payload.text = -1 \/ last.packet.cut > 0
       \/ Checked(last.packet.payload, last) /\ ~Signed(last.packet.payload, last)
  /\ last.how = "replayed" => Nonce(last.packet.payload) \in seen

\* No message was encoded, posted or decoded.
LEMMA EnvelopeInvInit == EnvelopeInit => EnvelopeInv
<1> SUFFICES ASSUME EnvelopeInit PROVE EnvelopeInv
  OBVIOUS
<1>1. \A S : <<>> \in Seq(S)
  OBVIOUS
<1>2. returned = <<>> /\ DOMAIN returned = {} /\ seen = {} /\ originals = {} /\ last.how = "none"
  BY NothingNumbered DEF EnvelopeInit
<1>3. mail \in [Agents -> Seq(Packets)] /\ batch \in [Agents -> Seq(Packets)] /\ made \in Nat
  BY <1>1 DEF EnvelopeInit
<1>4. QED  BY <1>1, <1>2, <1>3 DEF EnvelopeInv, OnceOnly

\* What is encoded fits, and is what its checksum was taken of.
LEMMA EnvelopeEncode ==
  ASSUME EnvelopeInv, NEW r \in Requests, Encode(r)
  PROVE  EnvelopeInv'
<1> DEFINE p == Payload(r)
<1>1. /\ originals' = originals \cup {p} /\ made' = made + 1
      /\ mail' = [mail EXCEPT ![r.dst] = Append(@, Pack(r))]
      /\ UNCHANGED <<batch, seen, returned, last>>
  BY DEF Encode
<1>2. /\ p = [version |-> p.version, src |-> p.src, dst |-> p.dst, instruction |-> p.instruction,
              cid |-> p.cid, task |-> p.task, text |-> p.text, nonce |-> p.nonce, mac |-> p.mac]
      /\ p.text = made /\ p.src = r.src /\ p.dst = r.dst
      /\ p.instruction = r.instruction /\ p.task = r.task /\ p.cid = r.cid
  BY DEF Payload
<1>3. PayloadSize(p) \in Int
  <2> HIDE DEF p
  <2>1. /\ NameSize[p.src] \in Nat /\ NameSize[p.dst] \in Nat
        /\ p.instruction \in Nat /\ p.task \in Nat /\ p.cid \in Nat
    BY <1>2, EnvelopeAssumption
  <2>2. (IF p.mac = <<>> THEN 0 ELSE MacSize) \in Int
    BY DEF MacSize
  <2> DEFINE mac == IF p.mac = <<>> THEN 0 ELSE MacSize
             src == NameSize[p.src]
             dst == NameSize[p.dst]
  <2>3. PayloadSize(p)
          = IF p.version = 1 THEN 3 + p.task
            ELSE (1 + src) + (1 + dst) + (1 + p.instruction) + (1 + p.cid)
                 + 8 + (2 + p.task) + 1 + mac
    BY DEF PayloadSize
  <2>4. mac \in Int /\ src \in Int /\ dst \in Int
    BY <2>1, <2>2
  <2> HIDE DEF mac, src, dst
  <2>5. CASE p.version = 1
    BY <2>1, <2>3, <2>5
  <2>6. CASE p.version # 1
    <3>1. PayloadSize(p)
            = (1 + src) + (1 + dst) + (1 + p.instruction) + (1 + p.cid)
              + 8 + (2 + p.task) + 1 + mac
      BY <2>3, <2>6
    <3> DEFINE ins  == p.instruction
               task == p.task
               uuid == p.cid
    <3>2. ins \in Int /\ task \in Int /\ uuid \in Int
      BY <2>1, <2>2
    <3> HIDE DEF ins, task, uuid
    <3>3. (1 + src) + (1 + dst) + (1 + ins) + (1 + uuid) + 8 + (2 + task) + 1 + mac \in Int
      BY <2>4, <3>2
    <3>4. QED  BY <3>1, <3>3 DEF ins, task, uuid
  <2>7. QED  BY <2>5, <2>6
<1>4. Pack(r) \in Packets'
  <2>1. /\ Pack(r) = [payload |-> p, text |-> r.text, cut |-> 0,
                               length |-> PayloadSize(p), crc |-> p]
        /\ Size(Pack(r)) <= MaxMessage
    BY DEF Encode, Encodable, Pack
  <2> HIDE DEF p
  <2>2. HeaderSize(r.text) + PayloadSize(p) <= MaxMessage
    <3>1. HeaderSize(r.text) \in Int
      BY DEF HeaderSize
    <3>2. Size(Pack(r)) = HeaderSize(r.text) + PayloadSize(p) - 0
      BY <2>1 DEF Size
    <3>3. QED  BY <1>3, <2>1, <3>1, <3>2
  <2>3. p \in originals' /\ r.text \in BOOLEAN
    BY <1>1, EnvelopeAssumption
  <2>4. QED  BY <1>3, <2>1, <2>2, <2>3 DEF Packets
<1> HIDE DEF p
<1>5. Packets \subseteq Packets'
  BY <1>1 DEF Packets
<1>6. mail' \in [Agents -> Seq(Packets')] /\ batch' \in [Agents -> Seq(Packets')]
  <2>1. r.dst \in Agents
    BY EnvelopeAssumption
  <2>2. \A a \in Agents : mail[a] \in Seq(Packets') /\ batch[a] \in Seq(Packets')
    BY <1>5 DEF EnvelopeInv
  <2>3. Append(mail[r.dst], Pack(r)) \in Seq(Packets')
    BY <1>4, <2>1, <2>2
  <2>4. QED  BY <1>1, <2>1, <2>2, <2>3 DEF EnvelopeInv
<1>7. returned' \in Seq([payload : originals', on : BOOLEAN])
  <2>1. [payload : originals, on : BOOLEAN] \subseteq [payload : originals', on : BOOLEAN]
    BY <1>1
  <2>2. returned \in Seq([payload : originals, on : BOOLEAN]) /\ returned' = returned
    BY <1>1 DEF EnvelopeInv
  <2>3. \A S, T : S \subseteq T => Seq(S) \subseteq Seq(T)
    OBVIOUS
  <2>4. QED  BY <2>1, <2>2, <2>3
<1>8. OnceOnly'
  BY <1>1 DEF EnvelopeInv, OnceOnly
<1>9. QED  BY <1>1, <1>2, <1>3, <1>6, <1>7, <1>8 DEF EnvelopeInv

\* The bus only moves messages, and damage leaves the checksum.
LEMMA EnvelopeBus ==
  ASSUME EnvelopeInv, NEW a \in Agents,
         Resend(a) \/ Damage(a) \/ Receive(a)
  PROVE  EnvelopeInv'
<1>1. UNCHANGED <<made, seen, originals, returned, last>>
  BY DEF Resend, Damage, Receive
<1>2. Packets' = Packets
  BY <1>1 DEF Packets
<1>3. mail' \in [Agents -> Seq(Packets)] /\ batch' \in [Agents -> Seq(Packets)]
  <2>1. /\ mail \in [Agents -> Seq(Packets)] /\ batch \in [Agents -> Seq(Packets)]
        /\ mail[a] \in Seq(Packets) /\ batch[a] \in Seq(Packets)
    BY DEF EnvelopeInv
  <2>2. CASE Resend(a)
    <3>1. PICK packet \in ToSet(mail[a]) \cup ToSet(batch[a]) :
            mail' = [mail EXCEPT ![a] = Append(@, packet)]
      BY <2>2 DEF Resend
    <3>2. packet \in Packets
      BY <2>1 DEF ToSet
    <3>3. QED  BY <2>1, <2>2, <3>1, <3>2 DEF Resend
  <2>3. CASE Receive(a)
    <3>1. batch[a] \o mail[a] \in Seq(Packets) /\ <<>> \in Seq(Packets)
      BY <2>1
    <3>2. QED  BY <2>1, <2>3, <3>1 DEF Receive
  <2>4. CASE Damage(a)
    <3>1. PICK i \in DOMAIN mail[a] :
            mail' \in {[mail EXCEPT ![a][i].payload.text = -1], [mail EXCEPT ![a][i].cut = 1]}
      BY <2>4 DEF Damage
    <3> DEFINE p == mail[a][i]
               q == [p EXCEPT !.payload = Damaged(p.payload)]
               c == [p EXCEPT !.cut = 1]
    <3>2. p \in Packets
      BY <2>1
    <3>3. mail' \in {[mail EXCEPT ![a] = [@ EXCEPT ![i] = q]], [mail EXCEPT ![a] = [@ EXCEPT ![i] = c]]}
      BY <3>1 DEF Damaged
    <3>4. q \in Packets
      <4>1. p.crc \in originals /\ p.payload \in {p.crc, Damaged(p.crc)}
        BY <3>2 DEF Packets
      <4>2. \A o \in originals : Damaged(Damaged(o)) = Damaged(o)
        BY DEF EnvelopeInv, Damaged
      <4>3. Damaged(p.payload) = Damaged(p.crc)
        BY <4>1, <4>2
      <4> HIDE DEF p
      <4>4. QED  BY <3>2, <4>1, <4>3 DEF Packets
    <3>5. c \in Packets
      <4> HIDE DEF p
      <4>1. QED  BY <3>2 DEF Packets
    <3>6. [mail[a] EXCEPT ![i] = q] \in Seq(Packets) /\ [mail[a] EXCEPT ![i] = c] \in Seq(Packets)
      <4> HIDE DEF q, c
      <4>1. \A x \in Packets : [mail[a] EXCEPT ![i] = x] \in Seq(Packets)
        BY <2>1
      <4>2. QED  BY <3>4, <3>5, <4>1
    <3> HIDE DEF q, c, p
    <3>7. batch' = batch
      BY <2>4 DEF Damage
    <3>8. QED  BY <2>1, <3>3, <3>6, <3>7
  <2>5. QED  BY <2>2, <2>3, <2>4
<1>4. OnceOnly'
  BY <1>1 DEF EnvelopeInv, OnceOnly
<1>5. QED  BY <1>1, <1>2, <1>3, <1>4 DEF EnvelopeInv

\* What is good enough to be decoded is what was encoded, and what was encoded, and
\* not damaged, is good enough.
LEMMA IntactLemma ==
  ASSUME EnvelopeInv, NEW p \in Packets
  PROVE  /\ Intact(p) => p.payload \in originals
         /\ ~Intact(p) => p.payload.text = -1 \/ p.cut > 0
<1>1. /\ p.crc \in originals /\ p.cut \in {0, 1} /\ p.text \in BOOLEAN
      /\ p.payload = p.crc \/ p.payload = Damaged(p.crc)
      /\ p.length = PayloadSize(p.crc) /\ p.length \in Int
      /\ HeaderSize(p.text) + p.length <= MaxMessage
  BY DEF Packets
<1>2. Damaged(p.crc).text = -1
  BY <1>1 DEF EnvelopeInv, Damaged
<1>3. ASSUME p.payload = p.crc, p.cut = 0 PROVE Intact(p)
  <2> DEFINE whole == Size(p)
  <2>1. whole = HeaderSize(p.text) + p.length - 0
    BY <1>1, <1>3 DEF Size
  <2>2. HeaderSize(p.text) \in Int
    BY DEF HeaderSize
  <2> HIDE DEF whole
  <2>3. whole \in Int /\ whole <= MaxMessage /\ MaxMessage \in Int
    BY <1>1, <2>1, <2>2, EnvelopeAssumption
  <2>4. Chars(whole) <= Chars(MaxMessage)
    BY <2>3 DEF Chars
  <2>5. PayloadSize(p.payload) - p.cut = p.length
    BY <1>1, <1>3
  <2>6. QED  BY <1>3, <2>3, <2>4, <2>5 DEF Intact, whole
<1>4. Intact(p) => p.payload = p.crc
  BY DEF Intact
<1>5. QED  BY <1>1, <1>2, <1>3, <1>4

\* A call of decode returns, refuses or meets a nonce it has returned before.
LEMMA EnvelopeDecode ==
  ASSUME EnvelopeInv, NEW a \in Agents, NEW s \in Securities,
         Decode(a, s)
  PROVE  EnvelopeInv'
<1> DEFINE packet  == Head(batch[a])
           how     == Outcome(packet, s)
           checked == Checked(packet.payload, s)
           nonce   == Nonce(packet.payload)
           entry   == [payload |-> packet.payload, on |-> s.on]
<1>1. /\ batch[a] \in Seq(Packets) /\ batch[a] # <<>>
      /\ packet \in Packets /\ Tail(batch[a]) \in Seq(Packets) /\ s.on \in BOOLEAN
  <2>1. batch[a] \in Seq(Packets) /\ batch[a] # <<>>
    BY DEF EnvelopeInv, Decode
  <2>2. QED  BY <2>1, EnvelopeAssumption
<1>2. /\ last' = [how |-> how, packet |-> packet, on |-> s.on, secret |-> s.secret]
      /\ seen' = IF Marks(packet, s) THEN seen \cup {nonce} ELSE seen
      /\ returned' = IF how # "returned" THEN returned ELSE Append(returned, entry)
      /\ batch' \in {[batch EXCEPT ![a] = Tail(@)], batch}
      /\ UNCHANGED <<made, mail, originals>>
  BY DEF Decode
<1> HIDE DEF packet
<1>3. Packets' = Packets
  BY <1>2 DEF Packets
<1>4. /\ how \in {"refused", "replayed", "returned"}
      /\ how = "refused" => \/ packet.payload.text = -1 \/ packet.cut > 0
                            \/ checked /\ ~Signed(packet.payload, s)
      /\ how = "replayed" => checked /\ nonce \in seen
      /\ how = "returned" => /\ packet.payload \in originals
                             /\ checked => nonce \notin seen /\ Marks(packet, s)
      /\ Marks(packet, s) => checked /\ (how = "returned" \/ nonce \in seen)
  BY <1>1, IntactLemma DEF Outcome, Marks
<1> HIDE DEF how
<1>5. checked <=> packet.payload.version = 2 /\ s.on
  BY DEF Checked
<1> HIDE DEF checked, nonce
<1>6. batch' \in [Agents -> Seq(Packets)] /\ mail' \in [Agents -> Seq(Packets)]
  <2>1. QED  BY <1>1, <1>2 DEF EnvelopeInv
<1>7. returned \in Seq([payload : originals, on : BOOLEAN]) /\ Len(returned) \in Nat
  BY DEF EnvelopeInv
<1>8. returned' \in Seq([payload : originals, on : BOOLEAN])
  <2>1. how = "returned" => entry \in [payload : originals, on : BOOLEAN]
    BY <1>1, <1>4
  <2>2. \A S : \A q \in Seq(S) : \A x \in S : Append(q, x) \in Seq(S)
    OBVIOUS
  <2> HIDE DEF entry
  <2>3. QED  BY <1>2, <1>7, <2>1, <2>2
<1>9. /\ DOMAIN returned = 1..Len(returned)
      /\ \A i \in DOMAIN returned : i \in DOMAIN returned' /\ returned'[i] = returned[i]
      /\ how # "returned" => returned' = returned
      /\ how = "returned" => /\ DOMAIN returned' = DOMAIN returned \cup {Len(returned) + 1}
                             /\ Len(returned) + 1 \notin DOMAIN returned
                             /\ returned'[Len(returned) + 1] = entry
  <2> HIDE DEF entry
  <2>1. QED  BY <1>2, <1>7
<1>10. \A i \in DOMAIN returned :
         /\ Nonce(returned'[i].payload) = Nonce(returned[i].payload)
         /\ Checked(returned'[i].payload, returned'[i])
              <=> Checked(returned[i].payload, returned[i])
  BY <1>9
<1>11. how = "returned" => /\ Nonce(entry.payload) = nonce
                           /\ Checked(entry.payload, entry) <=> checked
  BY <1>5 DEF Nonce, Checked, nonce
<1>12. /\ \A i \in DOMAIN returned :
            Checked(returned[i].payload, returned[i])
              => Nonce(returned[i].payload) \in seen
       /\ \A x \in seen : \E i \in DOMAIN returned :
            returned[i].on /\ Nonce(returned[i].payload) = x
       /\ \A i, j \in DOMAIN returned :
            /\ Checked(returned[i].payload, returned[i])
            /\ Checked(returned[j].payload, returned[j])
            /\ Nonce(returned[i].payload) = Nonce(returned[j].payload)
            => i = j
  BY DEF EnvelopeInv, OnceOnly
<1>13. OnceOnly'
  <2> DEFINE n == Len(returned) + 1
  <2> SUFFICES ASSUME NEW i \in DOMAIN returned', NEW j \in DOMAIN returned',
                      Checked(returned'[i].payload, returned'[i]),
                      Checked(returned'[j].payload, returned'[j]),
                      Nonce(returned'[i].payload) = Nonce(returned'[j].payload)
               PROVE  i = j
    BY DEF OnceOnly
  <2>1. CASE i \in DOMAIN returned /\ j \in DOMAIN returned
    BY <1>10, <1>12, <2>1
  <2>2. ASSUME how = "returned", NEW k \in DOMAIN returned,
               Checked(returned[k].payload, returned[k]), checked
        PROVE  Nonce(returned[k].payload) # nonce
    BY <1>4, <1>12, <2>2
  <2> HIDE DEF n, entry
  <2>3. CASE i = n /\ j \in DOMAIN returned /\ how = "returned"
    BY <1>9, <1>10, <1>11, <2>2, <2>3 DEF n
  <2>4. CASE j = n /\ i \in DOMAIN returned /\ how = "returned"
    BY <1>9, <1>10, <1>11, <2>2, <2>4 DEF n
  <2>5. QED  BY <1>9, <2>1, <2>3, <2>4 DEF n
<1>14. \A i \in DOMAIN returned' :
         Checked(returned'[i].payload, returned'[i])
           => Nonce(returned'[i].payload) \in seen'
  <2> HIDE DEF entry
  <2>1. QED  BY <1>2, <1>4, <1>9, <1>10, <1>11, <1>12
<1>15. \A x \in seen' : \E i \in DOMAIN returned' :
         returned'[i].on /\ Nonce(returned'[i].payload) = x
  <2>1. ASSUME NEW x \in seen
        PROVE  \E i \in DOMAIN returned' : returned'[i].on /\ Nonce(returned'[i].payload) = x
    BY <1>9, <1>10, <1>12
  <2>2. ASSUME Marks(packet, s), nonce \notin seen
        PROVE  \E i \in DOMAIN returned' : returned'[i].on /\ Nonce(returned'[i].payload) = nonce
    <3>1. how = "returned" /\ s.on /\ entry.on = s.on
      BY <1>4, <1>5, <2>2
    <3> HIDE DEF entry
    <3>2. QED  BY <1>9, <1>11, <3>1
  <2>3. QED  BY <1>2, <2>1, <2>2
<1>16. /\ last'.how = "refused" =>
            \/ last'.packet.payload.text = -1 \/ last'.packet.cut > 0
            \/ Checked(last'.packet.payload, last') /\ ~Signed(last'.packet.payload, last')
       /\ last'.how = "replayed" => Nonce(last'.packet.payload) \in seen'
  <2>1. /\ last'.how = how /\ last'.packet = packet /\ last'.on = s.on /\ last'.secret = s.secret
    BY <1>2
  <2>2. /\ Checked(packet.payload, last') <=> Checked(packet.payload, s)
        /\ Signed(packet.payload, last') <=> Signed(packet.payload, s)
    BY <2>1 DEF Checked, Signed
  <2>3. QED  BY <1>2, <1>4, <2>1, <2>2 DEF checked, nonce
<1>17. QED
  BY <1>2, <1>3, <1>6, <1>8, <1>13, <1>14, <1>15, <1>16 DEF EnvelopeInv

\* The invariant of the messages, for every step.
LEMMA EnvelopeInvNext ==
  EnvelopeInv /\ [EnvelopeNext]_envelopeVars => EnvelopeInv'
<1>1. ASSUME EnvelopeInv, UNCHANGED envelopeVars PROVE EnvelopeInv'
  <2>1. UNCHANGED <<made, mail, batch, seen, originals, returned, last>>
    BY <1>1 DEF envelopeVars
  <2>2. Packets' = Packets /\ OnceOnly'
    BY <1>1, <2>1 DEF Packets, EnvelopeInv, OnceOnly
  <2>3. QED  BY <1>1, <2>1, <2>2 DEF EnvelopeInv
<1>2. QED  BY <1>1, EnvelopeEncode, EnvelopeBus, EnvelopeDecode DEF EnvelopeNext

\* What decode returns was encoded, for any agents, limits, keys and damage.
THEOREM DecodedWasSent ==
  EnvelopeSpec => []AsSent
<1>1. EnvelopeInv => AsSent
  <2> SUFFICES ASSUME EnvelopeInv, NEW i \in DOMAIN returned
               PROVE  returned[i].payload \in originals
    BY DEF AsSent
  <2>1. \A S : \A q \in Seq(S) : \A k \in DOMAIN q : q[k] \in S
    OBVIOUS
  <2>2. returned[i] \in [payload : originals, on : BOOLEAN]
    BY <2>1 DEF EnvelopeInv
  <2>3. QED  BY <2>2
<1>2. QED  BY <1>1, EnvelopeInvInit, EnvelopeInvNext, PTL DEF EnvelopeSpec

\* With security on no nonce of a sender is returned a second time.
THEOREM ReturnedOnce ==
  EnvelopeSpec => []OnceOnly
<1>1. EnvelopeInv => OnceOnly
  BY DEF EnvelopeInv, OnceOnly
<1>2. QED  BY <1>1, EnvelopeInvInit, EnvelopeInvNext, PTL DEF EnvelopeSpec

\* Decode refuses nothing that encode accepts, up to the last byte of the limits,
\* unless it was damaged, its key is another one or its nonce was returned before.
THEOREM RefusalsHaveCause ==
  EnvelopeSpec => []RefusedForCause
<1>1. EnvelopeInv => RefusedForCause
  <2> SUFFICES ASSUME EnvelopeInv PROVE RefusedForCause
    BY DEF RefusedForCause
  <2>1. \A p \in originals : p.text # -1
    BY DEF EnvelopeInv
  <2>2. last.packet.payload.text = -1 => last.packet.payload \notin originals
    BY <2>1
  <2>3. QED  BY <2>2 DEF EnvelopeInv, RefusedForCause
<1>2. QED  BY <1>1, EnvelopeInvInit, EnvelopeInvNext, PTL DEF EnvelopeSpec
-----------------------------------------------------------------------------
(***************************************************************************)
(* LegacyFleet.                                                            *)
(***************************************************************************)
Window(t) == t \div Interval

\* The windows an agent missed are those between the one it was last heard in and
\* the one that runs.
FleetInv ==
  /\ clock \in Nat /\ missed \in [Members -> Nat]
  /\ lastSeen \in [DOMAIN lastSeen -> Nat] /\ DOMAIN lastSeen \subseteq Members
  /\ beaten \subseteq DOMAIN lastSeen
  /\ \A a \in DOMAIN lastSeen :
       IF a \in beaten THEN Window(lastSeen[a]) = Window(clock) /\ missed[a] = 0
       ELSE missed[a] = Window(clock) - Window(lastSeen[a]) - 1

\* A tick begins a window at the multiples of its length.
LEMMA WindowLemma ==
  ASSUME NEW t \in Nat
  PROVE  /\ Window(t) \in Nat
         /\ Interval * Window(t) <= t /\ t < Interval * Window(t) + Interval
         /\ Window(t + 1) = IF (t + 1) % Interval = 0 THEN Window(t) + 1 ELSE Window(t)
BY FleetAssumption DEF Window

\* Times whose distance is a number of windows, give or take one.
LEMMA DistanceLemma ==
  ASSUME NEW t \in Nat, NEW u \in Nat
  PROVE  /\ t - u > Interval * (GraceMisses + 1) => Window(t) - Window(u) > GraceMisses
         /\ Window(t) - Window(u) > GraceMisses + 1 => t - u > Interval * (GraceMisses + 1)
<1> DEFINE w == Window(t)
           v == Window(u)
<1>1. /\ w \in Nat /\ v \in Nat
      /\ Interval * w <= t /\ t < Interval * w + Interval
      /\ Interval * v <= u /\ u < Interval * v + Interval
  BY WindowLemma
<1>2. Interval \in Nat /\ Interval >= 1 /\ GraceMisses \in Nat
  BY FleetAssumption
<1> HIDE DEF w, v
<1>3. \A i, j \in Int : i <= j => Interval * i <= Interval * j
  BY <1>2
<1>4. ASSUME w - v <= GraceMisses PROVE t - u <= Interval * (GraceMisses + 1)
  <2>1. Interval * w <= Interval * (v + GraceMisses)
    BY <1>1, <1>2, <1>3, <1>4
  <2>2. Interval * (v + GraceMisses) = Interval * v + Interval * GraceMisses
        /\ Interval * (GraceMisses + 1) = Interval * GraceMisses + Interval
    BY <1>1, <1>2
  <2> DEFINE iw == Interval * w
             iv == Interval * v
             ig == Interval * GraceMisses
  <2>3. iw \in Int /\ iv \in Int /\ ig \in Int
    BY <1>1, <1>2
  <2>4. iw <= iv + ig /\ t < iw + Interval /\ iv <= u /\ Interval * (GraceMisses + 1) = ig + Interval
    BY <1>1, <2>1, <2>2
  <2> HIDE DEF iw, iv, ig
  <2>5. QED  BY <1>2, <2>3, <2>4
<1>5. ASSUME w - v >= GraceMisses + 2 PROVE t - u > Interval * (GraceMisses + 1)
  <2>1. Interval * (v + GraceMisses + 2) <= Interval * w
    BY <1>1, <1>2, <1>3, <1>5
  <2>2. Interval * (v + GraceMisses + 2) = Interval * v + Interval * GraceMisses + 2 * Interval
        /\ Interval * (GraceMisses + 1) = Interval * GraceMisses + Interval
    BY <1>1, <1>2
  <2> DEFINE iw == Interval * w
             iv == Interval * v
             ig == Interval * GraceMisses
  <2>3. iw \in Int /\ iv \in Int /\ ig \in Int
    BY <1>1, <1>2
  <2>4. iv + ig + 2 * Interval <= iw /\ iw <= t /\ u < iv + Interval
        /\ Interval * (GraceMisses + 1) = ig + Interval
    BY <1>1, <2>1, <2>2
  <2> HIDE DEF iw, iv, ig
  <2>5. QED  BY <1>2, <2>3, <2>4
<1>6. QED
  <2>1. w - v <= GraceMisses \/ w - v > GraceMisses
    BY <1>1, <1>2
  <2>2. t - u > Interval * (GraceMisses + 1) => w - v > GraceMisses
    <3>1. Interval * (GraceMisses + 1) \in Int
      BY <1>2
    <3> DEFINE m == Interval * (GraceMisses + 1)
    <3> HIDE DEF m
    <3>2. QED  BY <1>4, <2>1, <3>1 DEF m
  <2>3. w - v > GraceMisses + 1 => t - u > Interval * (GraceMisses + 1)
    BY <1>1, <1>2, <1>5
  <2>4. QED  BY <2>2, <2>3 DEF w, v

\* No agent was heard yet.
LEMMA FleetInvInit == FleetInit => FleetInv
<1> SUFFICES ASSUME FleetInit PROVE FleetInv
  OBVIOUS
<1>1. DOMAIN lastSeen = {} /\ lastSeen \in [{} -> Nat]
  BY NothingNumbered DEF FleetInit
<1>2. QED  BY <1>1 DEF FleetInit, FleetInv

\* What the detector knows of the windows, through every step.
LEMMA FleetInvNext ==
  FleetInv /\ [FleetNext]_fleetVars => FleetInv'
<1> SUFFICES ASSUME FleetInv, [FleetNext]_fleetVars PROVE FleetInv'
  OBVIOUS
<1>1. CASE Tick
  <2>1. clock' = clock + 1 /\ clock \in Nat /\ lastSeen' = lastSeen
    BY <1>1 DEF Tick, FleetInv
  <2>2. \A a \in DOMAIN lastSeen : Window(lastSeen[a]) \in Nat
    BY WindowLemma DEF FleetInv
  <2>3. CASE clock' % Interval = 0
    <3>1. /\ missed' = [a \in Members |-> IF a \in beaten THEN 0 ELSE missed[a] + 1]
          /\ beaten' = {}
      BY <1>1, <2>3 DEF Tick
    <3>2. Window(clock') = Window(clock) + 1 /\ Window(clock) \in Nat
      BY <2>1, <2>3, WindowLemma
    <3>3. missed' \in [Members -> Nat]
      BY <3>1 DEF FleetInv
    <3>4. \A a \in DOMAIN lastSeen : missed'[a] = Window(clock') - Window(lastSeen[a]) - 1
      <4> SUFFICES ASSUME NEW a \in DOMAIN lastSeen
                   PROVE  missed'[a] = Window(clock') - Window(lastSeen[a]) - 1
        OBVIOUS
      <4>1. a \in Members /\ missed'[a] = IF a \in beaten THEN 0 ELSE missed[a] + 1
        BY <3>1 DEF FleetInv
      <4>2. CASE a \in beaten
        BY <2>2, <3>2, <4>1, <4>2 DEF FleetInv
      <4>3. CASE a \notin beaten
        BY <2>2, <3>2, <4>1, <4>3 DEF FleetInv
      <4>4. QED  BY <4>2, <4>3
    <3>5. QED  BY <2>1, <3>1, <3>3, <3>4 DEF FleetInv
  <2>4. CASE clock' % Interval # 0
    <3>1. UNCHANGED <<missed, beaten>>
      BY <1>1, <2>4 DEF Tick
    <3>2. Window(clock') = Window(clock)
      BY <2>1, <2>4, WindowLemma
    <3>3. QED  BY <2>1, <3>1, <3>2 DEF FleetInv
  <2>5. QED  BY <2>3, <2>4
<1>2. ASSUME NEW a \in Members, Heartbeat(a) PROVE FleetInv'
  <2>1. /\ beaten' = beaten \cup {a} /\ missed' = [missed EXCEPT ![a] = 0] /\ clock' = clock
        /\ lastSeen' = [x \in DOMAIN lastSeen \cup {a} |-> IF x = a THEN clock ELSE lastSeen[x]]
    BY <1>2 DEF Heartbeat, Put
  <2>2. QED  BY <2>1 DEF FleetInv
<1>3. CASE UNCHANGED fleetVars
  BY <1>3 DEF FleetInv, fleetVars
<1>4. QED  BY <1>1, <1>2, <1>3 DEF FleetNext

\* An agent that was heard is suspected only when it has missed the windows of
\* grace, and certainly when it missed one more, for every length of a window.
THEOREM SuspectedInTime ==
  FleetSpec => []DeadAfterMisses
<1>1. FleetInv => DeadAfterMisses
  <2> SUFFICES ASSUME FleetInv, NEW a \in DOMAIN lastSeen
               PROVE  /\ IsSuspectedDead(a) => missed[a] >= GraceMisses
                      /\ missed[a] > GraceMisses => IsSuspectedDead(a)
    BY DEF DeadAfterMisses
  <2>1. clock \in Nat /\ lastSeen[a] \in Nat /\ GraceMisses \in Nat
    BY FleetAssumption DEF FleetInv
  <2>2. Window(clock) \in Nat /\ Window(lastSeen[a]) \in Nat
    BY <2>1, WindowLemma
  <2>3. \/ Window(clock) - Window(lastSeen[a]) = 0 /\ missed[a] = 0
        \/ missed[a] = Window(clock) - Window(lastSeen[a]) - 1
    BY <2>2 DEF FleetInv
  <2>4. IsSuspectedDead(a) <=> clock - lastSeen[a] > Interval * (GraceMisses + 1)
    BY DEF IsSuspectedDead
  <2>5. /\ IsSuspectedDead(a) => Window(clock) - Window(lastSeen[a]) > GraceMisses
        /\ Window(clock) - Window(lastSeen[a]) > GraceMisses + 1 => IsSuspectedDead(a)
    BY <2>1, <2>4, DistanceLemma
  <2>6. QED  BY <2>1, <2>2, <2>3, <2>5
<1>2. QED  BY <1>1, FleetInvInit, FleetInvNext, PTL DEF FleetSpec
-----------------------------------------------------------------------------
(***************************************************************************)
(* LegacyAlias, for codecs that read what they wrote themselves: what one  *)
(* codec learns another does not.                                          *)
(***************************************************************************)
OwnLinks == Links \subseteq {<<c, c>> : c \in Codecs}

\* An alias that is on its way still stands for what it was written for.
Frames(c) ==
  {f \in [sent : Messages, alias : 0..Len(aliases[c])] :
     f.alias # 0 => aliases[c][f.alias] = f.sent}

AliasInv ==
  /\ aliases \in [Codecs -> Seq(Messages)]
  /\ DOMAIN wire = Links /\ \A l \in Links : wire[l] \in Seq(Frames(l[1]))
  /\ wire = [l \in Links |-> wire[l]]
  /\ ReadsAsWritten

\* Nothing was learned or written.
LEMMA AliasInvInit == AliasInit => AliasInv
<1> SUFFICES ASSUME AliasInit PROVE AliasInv
  OBVIOUS
<1>1. \A S : <<>> \in Seq(S)
  OBVIOUS
<1>2. QED  BY <1>1 DEF AliasInit, AliasInv, ReadsAsWritten

\* An alias once given is kept, and a frame has one only if it was given.
LEMMA AliasEncode ==
  ASSUME OwnLinks, AliasInv, NEW l \in Links, NEW m \in Messages, EncodeMessage(l, m)
  PROVE  AliasInv'
<1> DEFINE c     == l[1]
           table == aliases[c]
           new   == aliases'[c]
           frame == IF m \in Range(new) THEN [sent |-> m, alias |-> AliasOf(new, m)]
                    ELSE [sent |-> m, alias |-> 0]
<1>1. c \in Codecs
  BY DEF OwnLinks
<1>2. table \in Seq(Messages) /\ Len(table) \in Nat /\ aliases \in [Codecs -> Seq(Messages)]
  BY <1>1 DEF AliasInv
<1>3. /\ wire' = [wire EXCEPT ![l] = Append(@, frame)] /\ read' = read
      /\ \/ aliases' = aliases
         \/ aliases' = [aliases EXCEPT ![c] = Append(@, m)]
  BY DEF EncodeMessage, Learns, GiveAlias
<1> HIDE DEF c, table
<1>4. /\ new \in Seq(Messages) /\ Len(new) \in Nat /\ Len(table) <= Len(new)
      /\ \A i \in 1..Len(table) : new[i] = table[i]
      /\ aliases' \in [Codecs -> Seq(Messages)]
      /\ \A d \in Codecs : d # c => aliases'[d] = aliases[d]
  <2>1. CASE aliases' = aliases
    BY <1>1, <1>2, <2>1 DEF table
  <2>2. CASE aliases' = [aliases EXCEPT ![c] = Append(@, m)]
    <3>1. new = Append(table, m)
      BY <1>1, <1>2, <2>2 DEF table
    <3>2. /\ Append(table, m) \in Seq(Messages) /\ Len(Append(table, m)) = Len(table) + 1
          /\ \A i \in 1..Len(table) : Append(table, m)[i] = table[i]
      BY <1>2
    <3>3. QED  BY <1>1, <1>2, <2>2, <3>1, <3>2 DEF table
  <2>3. QED  BY <1>3, <2>1, <2>2
<1>5. \A d \in Codecs : Frames(d) \subseteq Frames(d)'
  <2> SUFFICES ASSUME NEW d \in Codecs, NEW f \in Frames(d) PROVE f \in Frames(d)'
    OBVIOUS
  <2>1. CASE d = c
    <3>1. f \in [sent : Messages, alias : 0..Len(table)] /\ (f.alias # 0 => table[f.alias] = f.sent)
      BY <2>1 DEF Frames, table
    <3>2. f.alias \in 0..Len(new) /\ (f.alias # 0 => f.alias \in 1..Len(table))
      BY <1>2, <1>4, <3>1
    <3> HIDE DEF new
    <3>3. f \in [sent : Messages, alias : 0..Len(new)] /\ (f.alias # 0 => new[f.alias] = f.sent)
      BY <1>4, <3>1, <3>2
    <3>4. QED  BY <2>1, <3>3 DEF Frames, new
  <2>2. CASE d # c
    BY <1>4, <2>2 DEF Frames
  <2>3. QED  BY <2>1, <2>2
<1>6. frame \in Frames(c)'
  <2>1. CASE m \in Range(new)
    <3> DEFINE i == AliasOf(new, m)
    <3>1. i \in DOMAIN new /\ new[i] = m
      BY <2>1 DEF Range, AliasOf
    <3>2. i \in 1..Len(new) /\ frame = [sent |-> m, alias |-> i]
      BY <1>4, <2>1, <3>1
    <3> HIDE DEF i, frame
    <3>3. QED  BY <1>4, <3>1, <3>2 DEF Frames
  <2>2. CASE m \notin Range(new)
    <3>1. frame = [sent |-> m, alias |-> 0] /\ 0 \in 0..Len(new)
      BY <1>4, <2>2
    <3> HIDE DEF frame
    <3>2. QED  BY <3>1 DEF Frames
  <2>3. QED  BY <2>1, <2>2
<1> HIDE DEF frame, new
<1>7. \A k \in Links : wire'[k] \in Seq(Frames(k[1])')
  <2> SUFFICES ASSUME NEW k \in Links PROVE wire'[k] \in Seq(Frames(k[1])')
    OBVIOUS
  <2>1. k[1] \in Codecs /\ wire[k] \in Seq(Frames(k[1]))
    BY DEF OwnLinks, AliasInv
  <2>2. wire[k] \in Seq(Frames(k[1])')
    <3>1. \A S, T : S \subseteq T => Seq(S) \subseteq Seq(T)
      OBVIOUS
    <3>2. QED  BY <1>5, <2>1, <3>1
  <2>3. CASE k = l
    <3>1. \A S : \A q \in Seq(S), x \in S : Append(q, x) \in Seq(S)
      OBVIOUS
    <3>2. wire'[k] = Append(wire[k], frame) /\ k[1] = c
      BY <1>3, <2>3 DEF AliasInv, c
    <3>3. QED  BY <1>6, <2>2, <3>1, <3>2
  <2>4. CASE k # l
    BY <1>3, <2>2, <2>4 DEF AliasInv
  <2>5. QED  BY <2>3, <2>4
<1>8. DOMAIN wire' = Links /\ wire' = [k \in Links |-> wire'[k]]
  BY <1>3 DEF AliasInv
<1>9. ReadsAsWritten'
  BY <1>3 DEF AliasInv, ReadsAsWritten
<1>10. QED  BY <1>4, <1>7, <1>8, <1>9 DEF AliasInv

\* What is read is what the frame was written for.
LEMMA AliasDecode ==
  ASSUME OwnLinks, AliasInv, NEW l \in Links, DecodeMessage(l)
  PROVE  AliasInv'
<1> DEFINE frame == Head(wire[l])
           c     == l[1]
<1>1. c \in Codecs /\ l[2] = c
  BY DEF OwnLinks
<1>2. wire[l] \in Seq(Frames(c)) /\ wire[l] # <<>>
  BY DEF AliasInv, DecodeMessage
<1>3. frame \in Frames(c) /\ Tail(wire[l]) \in Seq(Frames(c))
  <2>1. \A S : \A q \in Seq(S) : q # <<>> => Head(q) \in S /\ Tail(q) \in Seq(S)
    OBVIOUS
  <2>2. QED  BY <1>2, <2>1
<1>4. /\ wire' = [wire EXCEPT ![l] = Tail(@)] /\ aliases' = aliases
      /\ frame.alias = 0 => read' = [sent |-> frame.sent, got |-> frame.sent]
      /\ frame.alias # 0 =>
           read' = [sent |-> frame.sent,
                    got  |-> IF frame.alias \in DOMAIN aliases[l[2]] THEN aliases[l[2]][frame.alias]
                             ELSE Raised]
  BY DEF DecodeMessage
<1> HIDE DEF frame, c
<1>5. frame.alias # 0 => frame.alias \in DOMAIN aliases[c] /\ aliases[c][frame.alias] = frame.sent
  <2>1. aliases[c] \in Seq(Messages)
    BY <1>1 DEF AliasInv
  <2>2. DOMAIN aliases[c] = 1..Len(aliases[c]) /\ Len(aliases[c]) \in Nat
    BY <2>1
  <2>3. frame.alias \in 0..Len(aliases[c]) /\ (frame.alias # 0 => aliases[c][frame.alias] = frame.sent)
    BY <1>3 DEF Frames
  <2>4. QED  BY <2>2, <2>3
<1>6. read'.got = read'.sent
  BY <1>1, <1>4, <1>5
<1>7. \A d : Frames(d)' = Frames(d)
  BY <1>4 DEF Frames
<1>8. /\ DOMAIN wire' = Links /\ wire' = [k \in Links |-> wire'[k]]
      /\ \A k \in Links : wire'[k] \in Seq(Frames(k[1]))
    <2>1. QED  BY <1>3, <1>4 DEF AliasInv, c
<1>9. QED  BY <1>4, <1>6, <1>7, <1>8 DEF AliasInv, ReadsAsWritten

\* What a codec reads is what it wrote, also when its aliases have run out, for any
\* messages, thresholds and number of aliases.
THEOREM AliasesRead ==
  ASSUME OwnLinks
  PROVE  AliasSpec => []ReadsAsWritten
<1>1. AliasInv /\ [AliasNext]_aliasVars => AliasInv'
  <2>1. ASSUME AliasInv, UNCHANGED aliasVars PROVE AliasInv'
    <3>1. UNCHANGED <<aliases, wire, read>>
      BY <2>1 DEF aliasVars
    <3>2. \A d : Frames(d)' = Frames(d)
      BY <3>1 DEF Frames
    <3>3. QED  BY <2>1, <3>1, <3>2 DEF AliasInv, ReadsAsWritten
  <2>2. QED  BY <2>1, AliasEncode, AliasDecode DEF AliasNext
<1>2. AliasInv => ReadsAsWritten
  BY DEF AliasInv, ReadsAsWritten
<1>3. QED  BY <1>1, <1>2, AliasInvInit, PTL DEF AliasSpec
-----------------------------------------------------------------------------
(***************************************************************************)
(* Induction, over sets of numbers.                                        *)
(***************************************************************************)
LEMMA NumberInduction ==
  ASSUME NEW P, 0 \in P, \A n \in Nat : n \in P => n + 1 \in P
  PROVE  \A n \in Nat : n \in P
<1> SUFFICES ASSUME Nat \ P # {}  PROVE FALSE
  OBVIOUS
<1>1. Min(Nat \ P) \in Nat \ P /\ \A y \in Nat \ P : Min(Nat \ P) <= y
  BY FirstName
<1>2. PICK x \in Nat \ P : \A y \in Nat \ P : x <= y
  BY <1>1
<1>3. x # 0 /\ x - 1 \in Nat /\ ~(x <= x - 1) /\ (x - 1) + 1 = x
  BY <1>2
<1>4. QED  BY <1>2, <1>3

LEMMA CompleteInduction ==
  ASSUME NEW P, \A n \in Nat : (\A k \in 0..n - 1 : k \in P) => n \in P
  PROVE  \A n \in Nat : n \in P
<1> SUFFICES ASSUME Nat \ P # {}  PROVE FALSE
  OBVIOUS
<1>1. PICK x \in Nat \ P : \A y \in Nat \ P : x <= y
  BY FirstName
<1>2. \A k \in 0..x - 1 : k \in P
  BY <1>1
<1>3. QED  BY <1>1, <1>2

(***************************************************************************)
(* FrameCodec.  EncodeUvarint is the function that its equation describes: *)
(* it is the limit of those for the numbers up to n.                       *)
(***************************************************************************)
LEMMA QuotientLemma ==
  ASSUME NEW n \in Nat, n >= Base
  PROVE  /\ n \div Base \in Nat /\ n \div Base < n
         /\ n % Base \in 0..Base - 1 /\ n = Base * (n \div Base) + (n % Base)
<1>1. Base \in Nat /\ Base > 1
  BY FrameAssumption
<1>2. n \div Base \in Nat /\ n % Base \in 0..Base - 1 /\ n = Base * (n \div Base) + (n % Base)
  BY <1>1
<1>3. n \div Base < n
  <2>1. ASSUME NEW q \in Nat, NEW r \in Nat, NEW B \in Nat, B > 1, n = B * q + r, n >= B
        PROVE  q < n
    <3>1. CASE q = 0
      BY <2>1, <3>1
    <3>2. CASE q > 0
      <4>1. B * q >= 2 * q
        BY <2>1, <3>2
      <4>2. QED  BY <2>1, <3>2, <4>1
    <3>3. QED  BY <3>1, <3>2
  <2>2. QED  BY <1>1, <1>2, <2>1
<1>4. QED  BY <1>2, <1>3

LEMMA UvarintEquation ==
  \A n \in Nat :
    EncodeUvarint[n] = IF n < Base THEN <<n>>
                       ELSE <<(n % Base) + Base>> \o EncodeUvarint[n \div Base]
<1> DEFINE Value(g, k) == IF k < Base THEN <<k>> ELSE <<(k % Base) + Base>> \o g[k \div Base]
           Iter(g, n) == g = [k \in 0..n |-> Value(g, k)]
           E == {n \in Nat : \E g : Iter(g, n)}
<1>0. Base \in Nat /\ Base > 1
  BY FrameAssumption
<1>1. \A n \in Nat : n \in E
  <2>1. 0 \in E
    <3> DEFINE g == [k \in 0..0 |-> <<k>>]
    <3>1. \A k \in 0..0 : k < Base
      BY <1>0
    <3>2. Iter(g, 0)
      BY <3>1
    <3> HIDE DEF g, Iter
    <3>3. QED  BY <3>2
  <2>2. ASSUME NEW n \in Nat, n \in E  PROVE n + 1 \in E
    <3>1. PICK g : Iter(g, n)
      BY <2>2
    <3> DEFINE h == [k \in 0..n + 1 |-> IF k = n + 1 THEN Value(g, k) ELSE g[k]]
    <3>2. ASSUME NEW k \in 0..n + 1  PROVE h[k] = Value(h, k)
      <4>1. k >= Base => k \div Base \in 0..n /\ k \div Base \in 0..n + 1 /\ k \div Base # n + 1
        BY QuotientLemma, <1>0
      <4>2. k >= Base => h[k \div Base] = g[k \div Base]
        BY <4>1
      <4>3. Value(h, k) = Value(g, k)
        <5>1. CASE k < Base
          BY <5>1
        <5>2. CASE k >= Base
          <6> HIDE DEF h
          <6>1. QED  BY <1>0, <4>2, <5>2
        <5>3. QED  BY <1>0, <5>1, <5>2
      <4>4. h[k] = Value(g, k)
        <5>1. CASE k = n + 1
          BY <5>1
        <5>2. CASE k # n + 1
          <6>1. k \in 0..n
            BY <5>2
          <6>2. QED  BY <3>1, <5>2, <6>1
        <5>3. QED  BY <5>1, <5>2
      <4>5. QED  BY <4>3, <4>4
    <3>3. h = [k \in 0..n + 1 |-> Value(h, k)]
      BY <3>2
    <3> HIDE DEF h
    <3>4. Iter(h, n + 1)
      BY <3>3
    <3>5. n + 1 \in Nat
      OBVIOUS
    <3> HIDE DEF Iter
    <3>6. QED  BY <3>4, <3>5
  <2> HIDE DEF E
  <2>3. QED  BY <2>1, <2>2, NumberInduction
<1>2. ASSUME NEW g, NEW h, NEW n \in Nat, NEW m \in Nat, Iter(g, n), Iter(h, m)
      PROVE  \A k \in Nat : k <= n /\ k <= m => g[k] = h[k]
  <2> DEFINE P == {k \in Nat : k <= n /\ k <= m => g[k] = h[k]}
  <2>1. ASSUME NEW k \in Nat, \A j \in 0..k - 1 : j \in P  PROVE k \in P
    <3>1. SUFFICES ASSUME k <= n, k <= m  PROVE g[k] = h[k]
      OBVIOUS
    <3>2. k \in 0..n /\ k \in 0..m
      BY <3>1
    <3>3. g[k] = Value(g, k) /\ h[k] = Value(h, k)
      BY <1>2, <3>2
    <3>4. CASE k < Base
      BY <3>3, <3>4
    <3>5. CASE k >= Base
      <4>1. k \div Base \in 0..k - 1
        BY <3>5, QuotientLemma
      <4>2. g[k \div Base] = h[k \div Base]
        BY <2>1, <3>1, <4>1
      <4>3. QED  BY <3>3, <4>2
    <3>6. QED  BY <1>0, <3>4, <3>5
  <2> HIDE DEF P
  <2>2. \A k \in Nat : k \in P
    BY <2>1, CompleteInduction
  <2>3. QED  BY <2>2 DEF P
<1> DEFINE Some(n) == CHOOSE g : Iter(g, n)
           f == [n \in Nat |-> Some(n)[n]]
<1>3. \A n \in Nat : Iter(Some(n), n)
  BY <1>1
<1>4. ASSUME NEW n \in Nat  PROVE f[n] = Value(f, n)
  <2>1. Some(n)[n] = Value(Some(n), n)
    <3> HIDE DEF Some
    <3>1. n \in 0..n /\ Iter(Some(n), n)
      BY <1>3
    <3>2. QED  BY <3>1
  <2>2. CASE n < Base
    BY <2>1, <2>2
  <2>3. CASE n >= Base
    <3>1. n \div Base \in Nat /\ n \div Base <= n
      BY <2>3, QuotientLemma
    <3>2. Some(n)[n \div Base] = Some(n \div Base)[n \div Base]
      <4> HIDE DEF Some, Iter
      <4>1. QED  BY <1>2, <1>3, <3>1
    <3>3. f[n \div Base] = Some(n \div Base)[n \div Base] /\ f[n] = Some(n)[n]
      <4> HIDE DEF Some
      <4>1. QED  BY <3>1
    <3> HIDE DEF Some, f
    <3>4. QED  BY <1>0, <2>1, <2>3, <3>2, <3>3
  <2>4. QED  BY <1>0, <2>2, <2>3
<1>5. f = [n \in Nat |-> Value(f, n)]
  <2>1. f = [n \in Nat |-> f[n]]
    <3> HIDE DEF Some
    <3>1. QED  OBVIOUS
  <2> HIDE DEF f, Value
  <2>2. QED  BY <1>4, <2>1
<1> HIDE DEF f
<1>6. \E e : e = [n \in Nat |-> Value(e, n)]
  BY <1>5
<1>7. EncodeUvarint = [n \in Nat |-> Value(EncodeUvarint, n)]
  BY <1>6 DEF EncodeUvarint
<1>8. QED  BY <1>7

LEMMA RemainderLemma ==
  ASSUME NEW x \in Nat, NEW B \in Nat, B > 1
  PROVE  (x < B => x % B = x) /\ (x \in B..2 * B - 1 => x % B = x - B)
<1>1. x \div B \in Nat /\ x % B \in 0..B - 1 /\ x = B * (x \div B) + (x % B)
  OBVIOUS
<1>2. ASSUME NEW q \in Nat, NEW r \in 0..B - 1, x = B * q + r
      PROVE  (x < B => r = x) /\ (x \in B..2 * B - 1 => r = x - B)
  <2>1. q >= 2 => B * q >= 2 * B
    OBVIOUS
  <2>2. CASE q = 0
    BY <1>2, <2>2
  <2>3. CASE q = 1
    BY <1>2, <2>3
  <2>4. CASE q >= 2
    BY <1>2, <2>1, <2>4
  <2>5. QED  BY <2>2, <2>3, <2>4
<1>3. QED  BY <1>1, <1>2

\* What encode_uvarint writes: groups that go on, one that does not, and V[k] is the
\* number that is spelled from group k on.
Spells(u, n) ==
  /\ u \in Seq(Nat) /\ Len(u) \in Nat /\ Len(u) >= 1
  /\ \A k \in 1..Len(u) - 1 : u[k] \in Base..2 * Base - 1
  /\ u[Len(u)] \in 0..Base - 1
  /\ \E V \in [1..Len(u) -> Nat] :
        /\ V[1] = n /\ V[Len(u)] = u[Len(u)]
        /\ \A k \in 1..Len(u) - 1 : V[k] = (u[k] - Base) + Base * V[k + 1]

LEMMA UvarintLemma == \A n \in Nat : Spells(EncodeUvarint[n], n)
<1> DEFINE P == {n \in Nat : Spells(EncodeUvarint[n], n)}
<1>0. Base \in Nat /\ Base > 1
  BY FrameAssumption
<1>1. ASSUME NEW n \in Nat, \A k \in 0..n - 1 : k \in P  PROVE n \in P
  <2>1. CASE n < Base
    <3>1. EncodeUvarint[n] = <<n>>
      BY <2>1, UvarintEquation
    <3> DEFINE V == [k \in 1..1 |-> n]
    <3>2. V \in [1..1 -> Nat] /\ V[1] = n
      OBVIOUS
    <3> HIDE DEF V
    <3>3. /\ <<n>> \in Seq(Nat) /\ Len(<<n>>) = 1 /\ <<n>>[1] = n /\ 1..1 - 1 = {}
      OBVIOUS
    <3>4. Spells(<<n>>, n)
      BY <1>0, <2>1, <3>2, <3>3 DEF Spells
    <3>5. QED  BY <3>1, <3>4
  <2>2. CASE n >= Base
    <3> DEFINE q == n \div Base
               b == (n % Base) + Base
               u == EncodeUvarint[q]
               L == Len(u)
               w == <<b>> \o u
    <3>1. q \in Nat /\ q < n /\ n % Base \in 0..Base - 1 /\ n = Base * q + (n % Base)
      BY <2>2, QuotientLemma
    <3>2. EncodeUvarint[n] = w
      <4>1. ~(n < Base)
        BY <1>0, <2>2
      <4>2. QED  BY <4>1, UvarintEquation
    <3>3. Spells(u, q)
      BY <1>1, <3>1
    <3>4. b \in Base..2 * Base - 1 /\ b \in Nat /\ n = (b - Base) + Base * q
      BY <1>0, <3>1
    <3> HIDE DEF q, b, u
    <3>5. u \in Seq(Nat) /\ L \in Nat /\ L >= 1
      BY <3>3 DEF Spells
    <3>6. /\ w \in Seq(Nat) /\ Len(w) = L + 1
          /\ w[1] = b /\ \A k \in 2..L + 1 : w[k] = u[k - 1]
      <4>1. <<b>> \in Seq(Nat) /\ Len(<<b>>) = 1 /\ <<b>>[1] = b
        BY <3>4
      <4>2. /\ w \in Seq(Nat) /\ Len(w) = 1 + L
            /\ \A k \in 1..1 + L : w[k] = IF k <= 1 THEN <<b>>[k] ELSE u[k - 1]
        BY <3>5, <4>1, ConcatProperties
      <4>3. QED  BY <3>5, <4>1, <4>2
    <3>7. PICK V \in [1..L -> Nat] :
             /\ V[1] = q /\ V[L] = u[L]
             /\ \A k \in 1..L - 1 : V[k] = (u[k] - Base) + Base * V[k + 1]
      BY <3>3 DEF Spells
    <3> DEFINE W == [k \in 1..L + 1 |-> IF k = 1 THEN n ELSE V[k - 1]]
    <3>8. /\ W \in [1..L + 1 -> Nat] /\ W[1] = n
          /\ \A k \in 2..L + 1 : W[k] = V[k - 1]
      BY <3>5
    <3> HIDE DEF w, W, L
    <3>9. \A k \in 1..L : w[k] \in Base..2 * Base - 1
      <4>1. SUFFICES ASSUME NEW k \in 1..L  PROVE w[k] \in Base..2 * Base - 1
        OBVIOUS
      <4>2. CASE k = 1
        BY <3>4, <3>6, <4>2
      <4>3. CASE k # 1
        <5>1. k \in 2..L + 1 /\ k - 1 \in 1..L - 1
          BY <3>5, <4>3
        <5>2. u[k - 1] \in Base..2 * Base - 1
          BY <3>3, <5>1 DEF Spells, L
        <5>3. QED  BY <3>6, <5>1, <5>2
      <4>4. QED  BY <4>2, <4>3
    <3>10. ASSUME NEW k \in 1..L
           PROVE  W[k] = (w[k] - Base) + Base * W[k + 1]
      <4>1. CASE k = 1
        <5>1. W[k + 1] = V[1]
          BY <3>5, <3>8, <4>1
        <5>2. QED  BY <3>4, <3>6, <3>7, <3>8, <4>1, <5>1
      <4>2. CASE k # 1
        <5>1. /\ k \in 2..L + 1 /\ k + 1 \in 2..L + 1 /\ k - 1 \in 1..L - 1
              /\ (k - 1) + 1 = k /\ (k + 1) - 1 = k
          BY <3>5, <4>2
        <5>2. W[k] = V[k - 1] /\ W[k + 1] = V[k] /\ w[k] = u[k - 1]
          BY <3>6, <3>8, <5>1
        <5>3. V[k - 1] = (u[k - 1] - Base) + Base * V[(k - 1) + 1]
          BY <3>7, <5>1
        <5>4. QED  BY <5>1, <5>2, <5>3
      <4>3. QED  BY <4>1, <4>2
    <3>11. W[L + 1] = w[L + 1] /\ w[L + 1] \in 0..Base - 1
      <4>1. L + 1 \in 2..L + 1 /\ (L + 1) - 1 = L
        BY <3>5
      <4>2. u[L] \in 0..Base - 1
        BY <3>3 DEF Spells, L
      <4>3. QED  BY <3>6, <3>7, <3>8, <4>1, <4>2
    <3>12. Len(w) = L + 1 /\ Len(w) - 1 = L /\ Len(w) \in Nat /\ Len(w) >= 1
      BY <3>5, <3>6
    <3>13. Spells(w, n)
      BY <3>6, <3>8, <3>9, <3>10, <3>11, <3>12 DEF Spells
    <3>14. QED  BY <3>2, <3>13
  <2>3. QED  BY <1>0, <2>1, <2>2
<1> HIDE DEF P
<1>2. \A n \in Nat : n \in P
  BY <1>1, CompleteInduction
<1>3. QED  BY <1>2 DEF P

\* The bytes of u from position i on, as far as there are any.
Agrees(data, i, u) == \A k \in 1..Len(u) : i + k - 1 <= Len(data) => data[i + k - 1] = u[k]

\* decode_uvarint reads the number that encode_uvarint wrote, and the bytes that
\* follow do not matter.
LEMMA DecodeLemma ==
  ASSUME NEW n \in Nat, NEW data \in Seq(Nat), NEW i \in Nat \ {0},
         Agrees(data, i, EncodeUvarint[n]), Len(EncodeUvarint[n]) <= MaxGroups,
         i + Len(EncodeUvarint[n]) - 1 <= Len(data)
  PROVE  DecodeUvarint(data, i) =
           [ok |-> TRUE, value |-> n, next |-> i + Len(EncodeUvarint[n])]
<1> DEFINE u    == EncodeUvarint[n]
           L    == Len(u)
           end_ == i + L - 1
           top  == Min({Len(data), i + MaxGroups - 1})
           ends == {j \in i..top : data[j] < Base}
           stop == Min(ends)
<1>0. Base \in Nat /\ Base > 1 /\ MaxGroups \in Nat /\ Len(data) \in Nat
  BY FrameAssumption, LenProperties
<1>1. /\ Spells(u, n) /\ u \in Seq(Nat) /\ L \in Nat /\ L >= 1
      /\ L <= MaxGroups /\ end_ <= Len(data) /\ Agrees(data, i, u)
  BY UvarintLemma DEF Spells
<1> HIDE DEF u
<1>2. \A k \in 1..L : i + k - 1 \in i..end_ /\ data[i + k - 1] = u[k]
  <2>1. SUFFICES ASSUME NEW k \in 1..L  PROVE i + k - 1 \in i..end_ /\ data[i + k - 1] = u[k]
    OBVIOUS
  <2>2. k \in 1..Len(u) /\ k \in Nat /\ k <= L
    BY <1>1
  <2> HIDE DEF L
  <2>3. i + k - 1 \in i..end_ /\ i + k - 1 <= Len(data)
    BY <1>0, <1>1, <2>2
  <2>4. QED  BY <1>1, <2>2, <2>3 DEF Agrees
<1>3. \A j \in i..end_ : j - i + 1 \in 1..L /\ i + (j - i + 1) - 1 = j
  BY <1>1
<1> HIDE DEF L
<1>4. top \in Nat /\ end_ <= top
  <2>1. {Len(data), i + MaxGroups - 1} \in SUBSET Nat
    BY <1>0
  <2>2. top \in {Len(data), i + MaxGroups - 1}
    BY <2>1, FirstName
  <2>3. end_ <= Len(data) /\ end_ <= i + MaxGroups - 1
    BY <1>0, <1>1
  <2>4. QED  BY <2>1, <2>2, <2>3
<1> HIDE DEF top
<1>5. end_ \in ends /\ ends \in SUBSET Nat
  <2>1. L \in 1..L /\ i + L - 1 = end_ /\ end_ \in i..top
    BY <1>1, <1>4
  <2>2. data[end_] = u[L] /\ u[L] \in 0..Base - 1
    BY <1>1, <1>2, <2>1 DEF Spells, L
  <2>3. QED  BY <1>0, <2>1, <2>2
<1>6. \A j \in i..end_ - 1 : data[j] \in Base..2 * Base - 1
  <2>1. SUFFICES ASSUME NEW j \in i..end_ - 1  PROVE data[j] \in Base..2 * Base - 1
    OBVIOUS
  <2>2. j - i + 1 \in 1..L - 1 /\ j - i + 1 \in 1..L /\ i + (j - i + 1) - 1 = j
    BY <1>1
  <2>3. u[j - i + 1] \in Base..2 * Base - 1
    BY <1>1, <2>2 DEF Spells, L
  <2>4. QED  BY <1>2, <2>2, <2>3
<1>7. stop = end_
  <2>1. stop \in ends /\ stop <= end_
    BY <1>5, FirstName
  <2>2. stop \notin i..end_ - 1
    BY <1>0, <1>6, <2>1
  <2>3. stop \in i..top /\ end_ \in Nat
    BY <1>1, <2>1
  <2>4. QED  BY <1>4, <2>1, <2>2, <2>3
<1> HIDE DEF ends
<1> DEFINE Step(g, j) ==
             IF j = i - 1 THEN [value |-> 0, weight |-> 1]
             ELSE [value  |-> g[j - 1].value + (data[j] % Base) * g[j - 1].weight,
                   weight |-> g[j - 1].weight * Base]
           Iter(g, m) == g = [j \in i - 1..m |-> Step(g, j)]
           loop == CHOOSE g : Iter(g, end_)
<1>8. \E g : Iter(g, end_)
  <2> DEFINE E == {m \in Nat : \E g : Iter(g, i - 1 + m)}
  <2>1. 0 \in E
    <3> DEFINE g == [j \in i - 1..i - 1 |-> [value |-> 0, weight |-> 1]]
    <3>1. Iter(g, i - 1)
      OBVIOUS
    <3>2. i - 1 + 0 = i - 1
      OBVIOUS
    <3> HIDE DEF g, Iter
    <3>3. QED  BY <3>1, <3>2
  <2>2. ASSUME NEW m \in Nat, m \in E  PROVE m + 1 \in E
    <3>1. PICK g : Iter(g, i - 1 + m)
      BY <2>2
    <3> DEFINE h == [j \in i - 1..i + m |-> IF j = i + m THEN Step(g, j) ELSE g[j]]
    <3>2. ASSUME NEW j \in i - 1..i + m  PROVE h[j] = Step(h, j)
      <4>1. j # i - 1 => j - 1 \in i - 1..i + m /\ j - 1 # i + m
        OBVIOUS
      <4>2. j # i - 1 => h[j - 1] = g[j - 1]
        BY <4>1
      <4>3. h[j] = IF j = i + m THEN Step(g, j) ELSE g[j]
        OBVIOUS
      <4>4. j # i + m => g[j] = Step(g, j)
        <5>1. j # i + m => j \in i - 1..i - 1 + m
          OBVIOUS
        <5>2. QED  BY <3>1, <5>1
      <4> HIDE DEF h
      <4>5. Step(h, j) = Step(g, j)
        BY <4>2
      <4> HIDE DEF Step
      <4>6. QED  BY <4>3, <4>4, <4>5
    <3>3. h = [j \in i - 1..i + m |-> h[j]]
      OBVIOUS
    <3> HIDE DEF h, Step
    <3>4. Iter(h, i - 1 + (m + 1))
      <4>1. i - 1 + (m + 1) = i + m
        OBVIOUS
      <4>2. QED  BY <3>2, <3>3, <4>1
    <3>5. m + 1 \in Nat
      OBVIOUS
    <3> HIDE DEF Iter
    <3>6. QED  BY <3>4, <3>5
  <2> HIDE DEF E
  <2>3. \A m \in Nat : m \in E
    BY <2>1, <2>2, NumberInduction
  <2>4. L \in E /\ i - 1 + L = end_
    BY <1>1, <2>3
  <2> HIDE DEF Iter
  <2>5. QED  BY <2>4 DEF E
<1>9. Iter(loop, end_)
  BY <1>8
<1> HIDE DEF loop
<1>10. PICK V \in [1..L -> Nat] :
         /\ V[1] = n /\ V[L] = u[L]
         /\ \A k \in 1..L - 1 : V[k] = (u[k] - Base) + Base * V[k + 1]
  BY <1>1 DEF Spells, L
\* What was read, and the rest times its weight, are the number.
<1> DEFINE R == {m \in Nat : m < L =>
                   /\ loop[i - 1 + m].value \in Nat /\ loop[i - 1 + m].weight \in Nat
                   /\ n = loop[i - 1 + m].value + loop[i - 1 + m].weight * V[m + 1]}
<1>11. 0 \in R
  <2>1. i - 1 + 0 = i - 1 /\ i - 1 \in i - 1..end_ /\ 0 + 1 = 1
    BY <1>1
  <2>2. loop[i - 1] = [value |-> 0, weight |-> 1]
    <3>1. loop[i - 1] = Step(loop, i - 1)
      <4> HIDE DEF Step
      <4>1. QED  BY <1>9, <2>1
    <3>2. QED  BY <3>1
  <2>3. V[1] \in Nat
    BY <1>1, <1>10
  <2>4. QED  BY <1>10, <2>1, <2>2, <2>3
<1>12. ASSUME NEW m \in Nat, m \in R  PROVE m + 1 \in R
  <2> DEFINE j == i + m
             a == loop[j - 1]
             b == loop[j]
  <2>1. SUFFICES ASSUME m + 1 < L
                 PROVE  b.value \in Nat /\ b.weight \in Nat /\ n = b.value + b.weight * V[m + 2]
    <3>1. i - 1 + (m + 1) = j /\ (m + 1) + 1 = m + 2 /\ m + 1 \in Nat
      <4>1. i \in Nat /\ m \in Nat
        OBVIOUS
      <4> HIDE DEF a, b
      <4>2. QED  BY <4>1
    <3> HIDE DEF j
    <3>2. QED  BY <2>1, <3>1
  <2>2. /\ m < L /\ i - 1 + m = j - 1 /\ j \in i - 1..end_ /\ j # i - 1 /\ j \in i..end_ - 1
        /\ m + 1 \in 1..L - 1 /\ m + 1 \in 1..L /\ m + 2 \in 1..L
        /\ (m + 1) + 1 = m + 2 /\ i + (m + 1) - 1 = j
    BY <1>1, <2>1
  <2>3. a.value \in Nat /\ a.weight \in Nat /\ n = a.value + a.weight * V[m + 1]
    BY <1>12, <2>2
  <2>4. V[m + 1] = (data[j] - Base) + Base * V[m + 2] /\ V[m + 2] \in Nat
    BY <1>2, <1>10, <2>2
  <2>5. b.value = a.value + (data[j] % Base) * a.weight /\ b.weight = a.weight * Base
    <3> HIDE DEF j
    <3>1. loop[j] = Step(loop, j)
      <4> HIDE DEF Step
      <4>1. QED  BY <1>9, <2>2
    <3>2. QED  BY <2>2, <3>1
  <2>6. data[j] % Base = data[j] - Base /\ data[j] - Base \in Nat
    <3>1. data[j] \in Base..2 * Base - 1
      BY <1>6, <2>2
    <3>2. ASSUME NEW x \in Nat, NEW B \in Nat, B > 1, x \in B..2 * B - 1
          PROVE  x % B = x - B /\ x - B \in Nat
      <4>1. x % B = x - B
        BY <3>2, RemainderLemma
      <4>2. QED  BY <3>2, <4>1
    <3>3. data[j] \in Nat
      BY <1>0, <3>1
    <3> DEFINE x == data[j]
    <3> HIDE DEF x
    <3>4. QED  BY <1>0, <3>1, <3>2, <3>3 DEF x
  <2> DEFINE d == data[j] - Base
  <2> HIDE DEF a, b, j
  <2>8. V[m + 1] \in Nat
    BY <1>10, <2>2
  <2> DEFINE z == V[m + 2]
             w == V[m + 1]
  <2>9. /\ d \in Nat /\ z \in Nat /\ w \in Nat /\ w = d + Base * z
        /\ a.value \in Nat /\ a.weight \in Nat /\ n = a.value + a.weight * w
        /\ b.value = a.value + d * a.weight /\ b.weight = a.weight * Base
    BY <2>3, <2>4, <2>5, <2>6, <2>8
  <2> HIDE DEF d, w
  <2>10. b.value \in Nat /\ b.weight \in Nat /\ n = b.value + b.weight * z
    <3> DEFINE x == a.value
               y == a.weight
    <3>1. x \in Nat /\ y \in Nat /\ n = x + y * w /\ b.value = x + d * y /\ b.weight = y * Base
      BY <2>9
    <3> HIDE DEF x, y, z
    <3>2. x + y * w = (x + d * y) + (y * Base) * z
      <4>1. y * w = y * (d + Base * z)
        BY <2>9
      <4>2. y * (d + Base * z) = y * d + y * (Base * z)
        BY <1>0, <2>9, <3>1
      <4>3. y * d = d * y /\ y * (Base * z) = (y * Base) * z
        BY <1>0, <2>9, <3>1
      <4>4. QED  BY <1>0, <2>9, <3>1, <4>1, <4>2, <4>3
    <3>3. x + d * y \in Nat /\ y * Base \in Nat
      BY <1>0, <2>9, <3>1
    <3>4. QED  BY <3>1, <3>2, <3>3
  <2>11. QED  BY <2>10
<1> HIDE DEF R
<1>13. \A m \in Nat : m \in R
  BY <1>11, <1>12, NumberInduction
<1>14. loop[end_].value = n
  <2> DEFINE a == loop[end_ - 1]
  <2>1. /\ L - 1 \in Nat /\ L - 1 < L /\ i - 1 + (L - 1) = end_ - 1 /\ (L - 1) + 1 = L
        /\ end_ \in i - 1..end_ /\ end_ # i - 1 /\ L \in 1..L /\ i + L - 1 = end_
    BY <1>1
  <2>2. a.value \in Nat /\ a.weight \in Nat /\ n = a.value + a.weight * V[L]
    BY <1>13, <2>1 DEF R
  <2>3. V[L] = data[end_] /\ data[end_] \in 0..Base - 1
    <3>1. data[end_] = u[L]
      BY <1>2, <2>1
    <3>2. QED  BY <1>1, <1>10, <3>1 DEF Spells, L
  <2>4. loop[end_].value = a.value + (data[end_] % Base) * a.weight
    <3>1. loop[end_] = Step(loop, end_)
      <4> HIDE DEF Step, end_
      <4>1. QED  BY <1>9, <2>1
    <3> HIDE DEF end_
    <3>2. QED  BY <2>1, <3>1
  <2>5. data[end_] % Base = data[end_]
    BY <1>0, <2>3, RemainderLemma
  <2> HIDE DEF a
  <2>6. a.weight * V[L] = (data[end_] % Base) * a.weight
    BY <1>0, <2>2, <2>3, <2>5
  <2>7. QED  BY <2>2, <2>4, <2>6
<1>15. ends # {} /\ stop + 1 = i + L
  BY <1>1, <1>5, <1>7
<1>16. DecodeUvarint(data, i) = [ok |-> TRUE, value |-> loop[stop].value, next |-> stop + 1]
  BY <1>7, <1>15 DEF DecodeUvarint, ReadGroups, loop, ends, top
<1>17. QED  BY <1>7, <1>14, <1>15, <1>16 DEF L, u

\* If it was cut off, decode_uvarint fails.
LEMMA CutOffLemma ==
  ASSUME NEW n \in Nat, NEW data \in Seq(Nat), NEW i \in Nat \ {0},
         Agrees(data, i, EncodeUvarint[n]), i + Len(EncodeUvarint[n]) - 1 > Len(data)
  PROVE  DecodeUvarint(data, i) = Failed
<1> DEFINE u    == EncodeUvarint[n]
           top  == Min({Len(data), i + MaxGroups - 1})
           ends == {j \in i..top : data[j] < Base}
<1>0. Base \in Nat /\ Base > 1 /\ MaxGroups \in Nat /\ Len(data) \in Nat
  BY FrameAssumption, LenProperties
<1>1. Spells(u, n) /\ Len(u) \in Nat /\ Agrees(data, i, u) /\ i + Len(u) - 1 > Len(data)
  BY UvarintLemma DEF Spells
<1> HIDE DEF u
<1>2. top \in Nat /\ top <= Len(data)
  <2>1. {Len(data), i + MaxGroups - 1} \in SUBSET Nat
    BY <1>0
  <2>2. top \in {Len(data), i + MaxGroups - 1} /\ top <= Len(data)
    BY <2>1, FirstName
  <2>3. QED  BY <2>1, <2>2
<1> HIDE DEF top
<1>3. \A j \in i..top : data[j] >= Base
  <2>1. SUFFICES ASSUME NEW j \in i..top  PROVE data[j] >= Base
    OBVIOUS
  <2> DEFINE k == j - i + 1
  <2>2. k \in 1..Len(u) - 1 /\ k \in 1..Len(u) /\ i + k - 1 = j /\ j <= Len(data)
    BY <1>0, <1>1, <1>2
  <2> HIDE DEF k
  <2>3. data[j] = u[k] /\ u[k] \in Base..2 * Base - 1
    BY <1>1, <2>2 DEF Agrees, Spells
  <2>4. QED  BY <1>0, <2>3
<1>4. ends = {}
  <2>1. \A j \in i..top : ~(data[j] < Base)
    <3>1. \A j \in i..top : j \in 1..Len(data)
      BY <1>0, <1>2
    <3>2. \A j \in i..top : data[j] \in Nat
      BY <3>1, ElementOfSeq
    <3>3. QED  BY <1>0, <1>3, <3>2
  <2>2. QED  BY <2>1
<1>5. QED  BY <1>4 DEF DecodeUvarint, ReadGroups, ends, top

LEMMA ZigzagLemma ==
  ASSUME NEW v \in -Half..Half - 1
  PROVE  ZigzagEncode(v) \in Nat /\ ZigzagDecode(ZigzagEncode(v)) = v
<1>0. Half \in Nat \ {0} /\ v \in Int
  BY FrameAssumption
<1>1. v >= 0 => v \div Half = 0
  BY <1>0
<1>2. v < 0 => v \div Half = -1
  BY <1>0
<1>3. ASSUME NEW k \in Nat  PROVE /\ (2 * k) % 2 = 0 /\ (2 * k) \div 2 = k
                                  /\ (2 * k + 1) % 2 = 1 /\ (2 * k + 1) \div 2 = k
  OBVIOUS
<1>4. CASE v >= 0
  <2>1. ZigzagEncode(v) = 2 * v /\ v \in Nat
    BY <1>0, <1>1, <1>4 DEF ZigzagEncode
  <2>2. QED  BY <1>3, <2>1 DEF ZigzagDecode
<1>5. CASE v < 0
  <2>1. ZigzagEncode(v) = 2 * (-v - 1) + 1 /\ -v - 1 \in Nat
    BY <1>0, <1>2, <1>5 DEF ZigzagEncode
  <2> DEFINE k == -v - 1
  <2>2. k \in Nat /\ ZigzagEncode(v) = 2 * k + 1 /\ v = -k - 1
    BY <1>0, <2>1
  <2> HIDE DEF k
  <2>3. QED  BY <1>3, <2>2 DEF ZigzagDecode
<1>6. QED  BY <1>0, <1>4, <1>5

\* F[k] is what the first k sequences of s make, put together.
Joins(F, s) == F[0] = <<>> /\ \A k \in 1..Len(s) : F[k] = F[k - 1] \o s[k]

LEMMA JoinLemma ==
  ASSUME NEW A, NEW s \in Seq(Seq(A))
  PROVE  \E F : /\ F \in [0..Len(s) -> Seq(A)] /\ Joins(F, s)
             /\ F[Len(s)] = FlattenSeq(s)
<1> DEFINE n == Len(s)
           Step(g, k) == IF k = 1 THEN s[k] ELSE g[k - 1] \o s[k]
           Iter(g, m) == g = [k \in 1..m |-> Step(g, k)]
           flat == CHOOSE g : Iter(g, n)
<1>1. n \in Nat /\ \A k \in 1..n : s[k] \in Seq(A)
  BY LenProperties, ElementOfSeq
<1>2. FlattenSeq(s) = IF n = 0 THEN s ELSE flat[n]
  BY DEF FlattenSeq
<1> HIDE DEF n
<1>3. \E g : Iter(g, n)
  <2> DEFINE E == {m \in Nat : \E g : Iter(g, m)}
  <2>1. 0 \in E
    <3> DEFINE g == [k \in 1..0 |-> <<>>]
    <3>1. Iter(g, 0)
      OBVIOUS
    <3> HIDE DEF g, Iter
    <3>2. QED  BY <3>1
  <2>2. ASSUME NEW m \in Nat, m \in E  PROVE m + 1 \in E
    <3>1. PICK g : Iter(g, m)
      BY <2>2
    <3> DEFINE h == [k \in 1..m + 1 |-> IF k = m + 1 THEN Step(g, k) ELSE g[k]]
    <3>2. ASSUME NEW k \in 1..m + 1  PROVE h[k] = Step(h, k)
      <4>1. k # 1 => k - 1 \in 1..m + 1 /\ k - 1 # m + 1
        OBVIOUS
      <4>2. k # 1 => h[k - 1] = g[k - 1]
        BY <4>1
      <4>3. h[k] = IF k = m + 1 THEN Step(g, k) ELSE g[k]
        OBVIOUS
      <4>4. k # m + 1 => g[k] = Step(g, k)
        <5>1. k # m + 1 => k \in 1..m
          OBVIOUS
        <5> HIDE DEF Step
        <5>2. QED  BY <3>1, <5>1
      <4> HIDE DEF h
      <4>5. Step(h, k) = Step(g, k)
        BY <4>2
      <4> HIDE DEF Step
      <4>6. QED  BY <4>3, <4>4, <4>5
    <3>3. h = [k \in 1..m + 1 |-> h[k]]
      OBVIOUS
    <3> HIDE DEF h, Step
    <3>4. Iter(h, m + 1)
      BY <3>2, <3>3
    <3> HIDE DEF Iter
    <3>5. QED  BY <3>4
  <2> HIDE DEF E
  <2>3. \A m \in Nat : m \in E
    BY <2>1, <2>2, NumberInduction
  <2> HIDE DEF Iter
  <2>4. QED  BY <1>1, <2>3 DEF E
<1>4. Iter(flat, n)
  BY <1>3
<1> HIDE DEF flat
<1>5. ASSUME NEW k \in 1..n  PROVE flat[k] = Step(flat, k)
  <2> HIDE DEF Step
  <2>1. QED  BY <1>4
<1> HIDE DEF Iter
<1> DEFINE P == {k \in Nat : k \in 1..n => flat[k] \in Seq(A)}
<1>6. 0 \in P
  OBVIOUS
<1>7. ASSUME NEW k \in Nat, k \in P  PROVE k + 1 \in P
  <2>1. SUFFICES ASSUME k + 1 \in 1..n  PROVE flat[k + 1] \in Seq(A)
    OBVIOUS
  <2>2. s[k + 1] \in Seq(A)
    BY <1>1, <2>1
  <2>3. flat[k + 1] = Step(flat, k + 1)
    BY <1>5, <2>1
  <2>4. CASE k + 1 = 1
    BY <2>2, <2>3, <2>4
  <2>5. CASE k + 1 # 1
    <3>1. k \in 1..n /\ (k + 1) - 1 = k
      BY <1>1, <2>1, <2>5
    <3>2. flat[k] \in Seq(A)
      BY <1>7, <3>1
    <3>3. flat[k + 1] = flat[k] \o s[k + 1]
      BY <2>3, <2>5, <3>1
    <3>4. QED  BY <2>2, <3>2, <3>3, ConcatProperties
  <2>6. QED  BY <2>4, <2>5
<1> HIDE DEF P
<1>8. \A k \in 1..n : flat[k] \in Seq(A)
  <2>1. \A k \in Nat : k \in P
    BY <1>6, <1>7, NumberInduction
  <2>2. QED  BY <2>1 DEF P
<1> DEFINE F == [k \in 0..n |-> IF k = 0 THEN <<>> ELSE flat[k]]
<1>9. F \in [0..n -> Seq(A)]
  <2>1. <<>> \in Seq(A)
    OBVIOUS
  <2>2. \A k \in 0..n : k # 0 => k \in 1..n
    BY <1>1
  <2>3. QED  BY <1>8, <2>1, <2>2
<1>10. F[0] = <<>> /\ \A k \in 1..n : F[k] = flat[k]
  BY <1>1
<1> HIDE DEF F
<1>11. ASSUME NEW k \in 1..n  PROVE F[k] = F[k - 1] \o s[k]
  <2>1. CASE k = 1
    <3>1. k - 1 = 0 /\ flat[k] = s[k]
      BY <1>5, <2>1
    <3>2. <<>> \o s[k] = s[k]
      BY <1>1, ConcatEmptySeq
    <3>3. QED  BY <1>10, <3>1, <3>2
  <2>2. CASE k # 1
    <3>1. k - 1 \in 1..n
      BY <1>1, <2>2
    <3>2. flat[k] = flat[k - 1] \o s[k]
      BY <1>5, <2>2
    <3>3. QED  BY <1>10, <3>1, <3>2
  <2>3. QED  BY <2>1, <2>2
<1>12. F[n] = FlattenSeq(s)
  <2>1. CASE n = 0
    <3>1. s = <<>>
      BY <2>1, EmptySeq DEF n
    <3>2. QED  BY <1>2, <1>10, <2>1, <3>1
  <2>2. CASE n # 0
    <3>1. n \in 1..n
      BY <1>1, <2>2
    <3>2. QED  BY <1>2, <1>10, <2>2, <3>1
  <2>3. QED  BY <2>1, <2>2
<1>13. QED  BY <1>9, <1>10, <1>11, <1>12 DEF Joins, n

\* What s makes depends on its sequences alone, and a prefix of s makes a prefix.
Alike(s, t, m) ==
  m \in Nat /\ m <= Len(s) /\ m <= Len(t) /\ \A k \in 1..m : s[k] = t[k]

LEMMA SameJoin ==
  ASSUME NEW s, NEW t, NEW F, NEW G, NEW m, Joins(F, s), Joins(G, t), Alike(s, t, m),
         Len(s) \in Nat, Len(t) \in Nat
  PROVE  F[m] = G[m]
<1> DEFINE P == {k \in Nat : k <= m => F[k] = G[k]}
<1>1. 0 \in P
  BY DEF Joins
<1>2. ASSUME NEW k \in Nat, k \in P  PROVE k + 1 \in P
  <2>1. SUFFICES ASSUME k + 1 <= m  PROVE F[k + 1] = G[k + 1]
    OBVIOUS
  <2>2. k + 1 \in 1..Len(s) /\ k + 1 \in 1..Len(t) /\ k + 1 \in 1..m /\ (k + 1) - 1 = k /\ k <= m
    BY <2>1 DEF Alike
  <2>3. F[k + 1] = F[k] \o s[k + 1] /\ G[k + 1] = G[k] \o t[k + 1]
    BY <2>2 DEF Joins
  <2>4. QED  BY <1>2, <2>2, <2>3 DEF Alike
<1> HIDE DEF P
<1>3. \A k \in Nat : k \in P
  BY <1>1, <1>2, NumberInduction
<1>4. QED  BY <1>3 DEF P, Alike

\* Where the sequence after the first k begins, less one.
Offset(s, k) == Len(FlattenSeq(SubSeq(s, 1, k)))

LEMMA FlattenLemma ==
  ASSUME NEW A, NEW s \in Seq(Seq(A))
  PROVE  /\ FlattenSeq(s) \in Seq(A)
         /\ Offset(s, 0) = 0 /\ Offset(s, Len(s)) = Len(FlattenSeq(s))
         /\ \A k \in 0..Len(s) :
              /\ Offset(s, k) \in Nat /\ Offset(s, k) <= Len(FlattenSeq(s))
              /\ SubSeq(FlattenSeq(s), 1, Offset(s, k)) = FlattenSeq(SubSeq(s, 1, k))
         /\ \A k \in 1..Len(s) :
              /\ Len(s[k]) \in Nat /\ Offset(s, k) = Offset(s, k - 1) + Len(s[k])
              /\ \A j \in 1..Len(s[k]) : FlattenSeq(s)[Offset(s, k - 1) + j] = s[k][j]
<1> DEFINE n == Len(s)
           w == FlattenSeq(s)
<1>1. n \in Nat /\ \A k \in 1..n : s[k] \in Seq(A) /\ Len(s[k]) \in Nat
  BY LenProperties, ElementOfSeq
<1>2. PICK F : F \in [0..n -> Seq(A)] /\ Joins(F, s) /\ F[n] = w
  BY JoinLemma
<1>3. ASSUME NEW k \in 0..n  PROVE FlattenSeq(SubSeq(s, 1, k)) = F[k]
  <2> DEFINE t == SubSeq(s, 1, k)
  <2>1. t \in Seq(Seq(A)) /\ Len(t) = k /\ \A j \in 1..k : t[j] = s[j]
    <3>1. k \in Int /\ 1 \in Int /\ (\A i \in 1..k : s[i] \in Seq(A)) /\ k - 1 + 1 = k
      BY <1>1
    <3>2. /\ t \in Seq(Seq(A)) /\ Len(t) = IF 1 <= k THEN k - 1 + 1 ELSE 0
          /\ \A i \in 1..k - 1 + 1 : t[i] = s[1 + i - 1]
      BY <3>1, SubSeqProperties
    <3> HIDE DEF t
    <3>3. QED  BY <1>1, <3>1, <3>2
  <2> HIDE DEF t
  <2>2. PICK G : G \in [0..Len(t) -> Seq(A)] /\ Joins(G, t) /\ G[Len(t)] = FlattenSeq(t)
    BY <2>1, JoinLemma
  <2>3. F[k] = G[k]
    <3>1. Alike(s, t, k) /\ Len(s) \in Nat /\ Len(t) \in Nat
      BY <1>1, <2>1 DEF Alike
    <3>2. Joins(F, s) /\ Joins(G, t)
      BY <1>2, <2>2
    <3> HIDE DEF n
    <3>3. QED  BY <3>1, <3>2, SameJoin
  <2>4. QED  BY <2>1, <2>2, <2>3 DEF t
<1>4. \A k \in 0..n : F[k] \in Seq(A) /\ Len(F[k]) \in Nat /\ Offset(s, k) = Len(F[k])
  BY <1>2, <1>3, LenProperties DEF Offset
<1>5. ASSUME NEW k \in 1..n
      PROVE  /\ k - 1 \in 0..n /\ k \in 0..n /\ Len(F[k]) = Len(F[k - 1]) + Len(s[k])
             /\ \A j \in 1..Len(F[k - 1]) : F[k][j] = F[k - 1][j]
             /\ \A j \in 1..Len(s[k]) : F[k][Len(F[k - 1]) + j] = s[k][j]
  <2>1. k - 1 \in 0..n /\ k \in 0..n /\ F[k] = F[k - 1] \o s[k]
    <3>1. k - 1 \in 0..n /\ k \in 0..n
      BY <1>1
    <3>2. QED  BY <1>2, <3>1 DEF Joins
  <2>2. F[k - 1] \in Seq(A) /\ s[k] \in Seq(A) /\ Len(F[k - 1]) \in Nat /\ Len(s[k]) \in Nat
    BY <1>1, <1>4, <2>1
  <2> DEFINE a == F[k - 1]
             b == s[k]
  <2> HIDE DEF a, b
  <2>3. /\ Len(a \o b) = Len(a) + Len(b)
        /\ \A i \in 1..Len(a) + Len(b) : (a \o b)[i] = IF i <= Len(a) THEN a[i] ELSE b[i - Len(a)]
    BY <2>2, ConcatProperties DEF a, b
  <2>4. Len(a) \in Nat /\ Len(b) \in Nat
    BY <2>2 DEF a, b
  <2>5. \A j \in 1..Len(a) : (a \o b)[j] = a[j]
    BY <2>3, <2>4
  <2>6. \A j \in 1..Len(b) : (a \o b)[Len(a) + j] = b[j]
    <3>1. \A j \in 1..Len(b) : /\ Len(a) + j \in 1..Len(a) + Len(b) /\ ~(Len(a) + j <= Len(a))
                               /\ (Len(a) + j) - Len(a) = j
      BY <2>4
    <3>2. QED  BY <2>3, <3>1
  <2>7. QED  BY <2>1, <2>3, <2>5, <2>6 DEF a, b
<1> DEFINE Prefix(k, m) == Len(F[k]) <= Len(F[m]) /\ \A j \in 1..Len(F[k]) : F[m][j] = F[k][j]
           P == {m \in Nat : m <= n => \A k \in 0..m : Prefix(k, m)}
<1>6. 0 \in P
  <2>1. \A k \in 0..0 : k = 0 /\ 0 \in 0..n
    BY <1>1
  <2>2. QED  BY <1>4, <2>1
<1>7. ASSUME NEW m \in Nat, m \in P  PROVE m + 1 \in P
  <2>1. SUFFICES ASSUME m + 1 <= n, NEW k \in 0..m + 1  PROVE Prefix(k, m + 1)
    OBVIOUS
  <2>2. m + 1 \in 1..n /\ (m + 1) - 1 = m /\ m \in 0..n /\ m <= n /\ m + 1 \in 0..n
    BY <1>1, <2>1
  <2>3. /\ Len(F[m + 1]) = Len(F[m]) + Len(s[m + 1])
        /\ \A j \in 1..Len(F[m]) : F[m + 1][j] = F[m][j]
    <3> DEFINE p == m + 1
    <3>1. p \in 1..n /\ p - 1 = m
      BY <2>2
    <3> HIDE DEF p, n
    <3>2. /\ Len(F[p]) = Len(F[p - 1]) + Len(s[p])
          /\ \A j \in 1..Len(F[p - 1]) : F[p][j] = F[p - 1][j]
      BY <1>5, <3>1
    <3>3. QED  BY <3>1, <3>2 DEF p
  <2>4. Len(F[m]) \in Nat /\ Len(F[m + 1]) \in Nat /\ Len(s[m + 1]) \in Nat
    BY <1>1, <1>4, <2>2
  <2>5. CASE k = m + 1
    BY <2>4, <2>5
  <2>6. CASE k # m + 1
    <3>1. k \in 0..m /\ k \in 0..n
      BY <1>1, <2>1, <2>6
    <3>2. Prefix(k, m) /\ Len(F[k]) \in Nat
      BY <1>4, <1>7, <2>2, <3>1
    <3>3. \A j \in 1..Len(F[k]) : j \in 1..Len(F[m])
      BY <2>4, <3>2
    <3>4. Len(F[k]) <= Len(F[m + 1])
      <4> DEFINE a == Len(F[k])
                 b == Len(F[m])
                 c == Len(F[m + 1])
                 d == Len(s[m + 1])
      <4>1. a \in Nat /\ b \in Nat /\ c \in Nat /\ d \in Nat /\ c = b + d /\ a <= b
        BY <2>3, <2>4, <3>2
      <4> HIDE DEF a, b, c, d
      <4>2. a <= c
        BY <4>1
      <4>3. QED  BY <4>2 DEF a, c
    <3>5. \A j \in 1..Len(F[k]) : F[m + 1][j] = F[m][j] /\ F[m][j] = F[k][j]
      BY <2>3, <3>2, <3>3
    <3>6. QED  BY <3>4, <3>5
  <2>7. QED  BY <2>5, <2>6
<1> HIDE DEF P
<1>8. ASSUME NEW k \in 0..n  PROVE Prefix(k, n)
  <2>1. n \in P
    BY <1>1, <1>6, <1>7, NumberInduction
  <2> HIDE DEF Prefix
  <2>2. QED  BY <1>1, <2>1 DEF P
<1>9. w \in Seq(A) /\ Offset(s, 0) = 0 /\ Offset(s, n) = Len(w)
  <2>1. 0 \in 0..n /\ n \in 0..n
    BY <1>1
  <2>2. Len(F[0]) = 0
    BY <1>2 DEF Joins
  <2>3. QED  BY <1>2, <1>4, <2>1, <2>2
<1>10. ASSUME NEW k \in 0..n
       PROVE  /\ Offset(s, k) \in Nat /\ Offset(s, k) <= Len(w)
              /\ SubSeq(w, 1, Offset(s, k)) = FlattenSeq(SubSeq(s, 1, k))
  <2>1. Offset(s, k) = Len(F[k]) /\ Len(F[k]) \in Nat /\ F[k] \in Seq(A) /\ w = F[n]
    BY <1>2, <1>4
  <2>2. Len(F[k]) <= Len(w) /\ Len(w) \in Nat
    BY <1>8, <1>9, <2>1, LenProperties
  <2> DEFINE v == SubSeq(w, 1, Len(F[k]))
             l == Len(F[k])
  <2>3. v \in Seq(A) /\ Len(v) = l /\ \A i \in 1..l : v[i] = w[i]
    <3>1. \A i \in 1..l : w[i] \in A
      <4>1. \A i \in 1..l : i \in 1..Len(w)
        BY <2>1, <2>2
      <4>2. QED  BY <1>9, <4>1, ElementOfSeq
    <3>2. /\ v \in Seq(A) /\ Len(v) = IF 1 <= l THEN l - 1 + 1 ELSE 0
          /\ \A i \in 1..l - 1 + 1 : v[i] = w[1 + i - 1]
      <4>1. l \in Int /\ 1 \in Int
        BY <2>1
      <4>2. QED  BY <3>1, <4>1, SubSeqProperties
    <3>3. l \in Nat
      BY <2>1
    <3> HIDE DEF v, l
    <3>4. Len(v) = l
      BY <3>2, <3>3
    <3>5. \A i \in 1..l : i \in 1..l - 1 + 1 /\ 1 + i - 1 = i
      BY <3>3
    <3>6. QED  BY <3>2, <3>4, <3>5
  <2>4. v = F[k]
    <3>1. \A i \in 1..l : w[i] = F[k][i]
      BY <1>8, <2>1
    <3> HIDE DEF v
    <3>2. QED  BY <2>1, <2>3, <3>1, SeqEqual
  <2>5. QED  BY <1>3, <2>1, <2>2, <2>4
<1>11. ASSUME NEW k \in 1..n
       PROVE  /\ Len(s[k]) \in Nat /\ Offset(s, k) = Offset(s, k - 1) + Len(s[k])
              /\ \A j \in 1..Len(s[k]) : w[Offset(s, k - 1) + j] = s[k][j]
  <2>1. /\ k - 1 \in 0..n /\ k \in 0..n /\ Len(F[k]) = Len(F[k - 1]) + Len(s[k])
        /\ \A j \in 1..Len(s[k]) : F[k][Len(F[k - 1]) + j] = s[k][j]
    BY <1>5
  <2>2. /\ Offset(s, k) = Len(F[k]) /\ Offset(s, k - 1) = Len(F[k - 1])
        /\ Len(F[k - 1]) \in Nat /\ Len(s[k]) \in Nat
    BY <1>1, <1>4, <2>1
  <2>3. ASSUME NEW j \in 1..Len(s[k])  PROVE w[Len(F[k - 1]) + j] = s[k][j]
    <3>1. Len(F[k - 1]) + j \in 1..Len(F[k])
      <4> DEFINE a == Len(F[k - 1])
                 b == Len(s[k])
                 c == Len(F[k])
      <4>1. a \in Nat /\ b \in Nat /\ c = a + b /\ j \in 1..b
        BY <2>1, <2>2
      <4> HIDE DEF a, b, c
      <4>2. a + j \in 1..c
        BY <4>1
      <4>3. QED  BY <4>2 DEF a, c
    <3>2. F[n][Len(F[k - 1]) + j] = F[k][Len(F[k - 1]) + j]
      BY <1>8, <2>1, <3>1
    <3>3. QED  BY <1>2, <2>1, <3>2
  <2>4. QED  BY <2>1, <2>2, <2>3
<1>12. QED  BY <1>9, <1>10, <1>11

LEMMA FlattenAppend ==
  ASSUME NEW A, NEW s \in Seq(Seq(A)), NEW x \in Seq(A)
  PROVE  FlattenSeq(Append(s, x)) = FlattenSeq(s) \o x
<1> DEFINE t == Append(s, x)
           n == Len(s)
<1>1. /\ t \in Seq(Seq(A)) /\ Len(t) = n + 1 /\ t[n + 1] = x /\ n \in Nat
      /\ \A k \in 1..n : t[k] = s[k]
  BY AppendProperties, LenProperties
<1> HIDE DEF t
<1>2. PICK F : F \in [0..n -> Seq(A)] /\ Joins(F, s) /\ F[n] = FlattenSeq(s)
  BY JoinLemma
<1>3. PICK G : G \in [0..Len(t) -> Seq(A)] /\ Joins(G, t) /\ G[Len(t)] = FlattenSeq(t)
  BY <1>1, JoinLemma
<1>4. F[n] = G[n]
  <2>1. Alike(s, t, n) /\ Len(t) \in Nat
    BY <1>1 DEF Alike
  <2>2. Joins(F, s) /\ Joins(G, t) /\ n \in Nat /\ Len(s) \in Nat
    BY <1>1, <1>2, <1>3
  <2> HIDE DEF n
  <2>3. QED  BY <2>1, <2>2, SameJoin
<1>5. G[n + 1] = G[n] \o t[n + 1]
  <2>1. n + 1 \in 1..Len(t) /\ (n + 1) - 1 = n
    BY <1>1
  <2>2. QED  BY <1>3, <2>1 DEF Joins
<1>6. QED  BY <1>1, <1>2, <1>3, <1>4, <1>5 DEF t

\* If no sequence is empty, all of them are there where the whole ends.
LEMMA OffsetLemma ==
  ASSUME NEW A, NEW s \in Seq(Seq(A)), \A k \in 1..Len(s) : Len(s[k]) >= 1,
         NEW k \in 0..Len(s), Offset(s, k) >= Len(FlattenSeq(s))
  PROVE  k = Len(s) /\ Offset(s, k) = Len(FlattenSeq(s))
<1> DEFINE n == Len(s)
           w == Len(FlattenSeq(s))
<1>1. n \in Nat /\ Offset(s, k) \in Nat /\ Offset(s, k) <= w /\ Offset(s, k) >= w /\ w \in Nat
  BY FlattenLemma, LenProperties
<1>2. ASSUME k # n  PROVE FALSE
  <2>1. k + 1 \in 1..n /\ k + 1 \in 0..n /\ (k + 1) - 1 = k
    BY <1>1, <1>2
  <2> DEFINE p == k + 1
  <2>2. p \in 1..n /\ p \in 0..n /\ p - 1 = k
    BY <2>1
  <2> HIDE DEF p
  <2>3. Len(s[p]) \in Nat /\ Offset(s, p) = Offset(s, p - 1) + Len(s[p]) /\ Len(s[p]) >= 1
    BY <2>2, FlattenLemma
  <2>4. Offset(s, p) \in Nat /\ Offset(s, p) <= w
    BY <2>2, FlattenLemma
  <2> DEFINE a == Offset(s, k)
             b == Len(s[p])
             c == Offset(s, p)
  <2>5. a >= w /\ b >= 1 /\ c = a + b /\ c <= w /\ a \in Nat /\ b \in Nat /\ c \in Nat
    BY <1>1, <2>2, <2>3, <2>4
  <2> HIDE DEF a, b, c, w
  <2>6. QED  BY <1>1, <2>5
<1>3. QED  BY <1>1, <1>2

Message == [type : FrameTypes, ints : Bodies]
Groups(ints) == [i \in DOMAIN ints |-> EncodeUvarint[ZigzagEncode(ints[i])]]
Framed(ms) == [i \in DOMAIN ms |-> MakeFrame(ms[i])]

LEMMA IntsLemma ==
  ASSUME NEW b \in Bodies
  PROVE  /\ b \in Seq(-Half..Half - 1) /\ Len(b) \in Nat /\ DOMAIN b = 1..Len(b)
         /\ Groups(b) \in Seq(Seq(Nat)) /\ Len(Groups(b)) = Len(b)
         /\ \A i \in 1..Len(b) :
              /\ b[i] \in -Half..Half - 1 /\ ZigzagEncode(b[i]) \in Nat
              /\ Groups(b)[i] = EncodeUvarint[ZigzagEncode(b[i])]
              /\ Len(Groups(b)[i]) >= 1 /\ Len(Groups(b)[i]) <= MaxGroups
         /\ EncodeInts(b) = FlattenSeq(Groups(b))
         /\ EncodeInts(b) \in Seq(Nat) /\ Len(EncodeInts(b)) \in Nat
<1>1. b \in Seq(-Half..Half - 1) /\ Len(b) \in Nat /\ DOMAIN b = 1..Len(b)
  BY FrameAssumption, LenProperties
<1>2. ASSUME NEW i \in 1..Len(b)
      PROVE  /\ b[i] \in -Half..Half - 1 /\ ZigzagEncode(b[i]) \in Nat
             /\ EncodeUvarint[ZigzagEncode(b[i])] \in Seq(Nat)
             /\ Len(EncodeUvarint[ZigzagEncode(b[i])]) >= 1
             /\ Len(EncodeUvarint[ZigzagEncode(b[i])]) <= MaxGroups
  <2>1. b[i] \in -Half..Half - 1
    BY <1>1, ElementOfSeq
  <2>2. ZigzagEncode(b[i]) \in Nat
    BY <2>1, ZigzagLemma
  <2>3. Spells(EncodeUvarint[ZigzagEncode(b[i])], ZigzagEncode(b[i]))
    BY <2>2, UvarintLemma
  <2>4. Len(EncodeUvarint[ZigzagEncode(b[i])]) <= MaxGroups
    BY <1>1, FrameAssumption
  <2>5. QED  BY <2>1, <2>2, <2>3, <2>4 DEF Spells
<1>3. Groups(b) = [i \in 1..Len(b) |-> EncodeUvarint[ZigzagEncode(b[i])]]
  BY <1>1 DEF Groups
<1>4. /\ Groups(b) \in Seq(Seq(Nat)) /\ Len(Groups(b)) = Len(b)
      /\ \A i \in 1..Len(b) : Groups(b)[i] = EncodeUvarint[ZigzagEncode(b[i])]
  <2>1. Groups(b) \in [1..Len(b) -> Seq(Nat)]
    BY <1>2, <1>3
  <2>2. QED  BY <1>1, <1>3, <2>1
<1>5. EncodeInts(b) = FlattenSeq(Groups(b))
  BY DEF EncodeInts, Groups
<1>6. EncodeInts(b) \in Seq(Nat) /\ Len(EncodeInts(b)) \in Nat
  BY <1>4, <1>5, FlattenLemma, LenProperties
<1>7. QED  BY <1>1, <1>2, <1>4, <1>5, <1>6

LEMMA FrameLemma ==
  ASSUME NEW m \in Message
  PROVE  LET n == Len(EncodeInts(m.ints))
             u == EncodeUvarint[n]
             f == MakeFrame(m)
         IN  /\ n \in Nat /\ u \in Seq(Nat) /\ Len(u) \in Nat /\ Len(u) >= 1 /\ Len(u) <= MaxGroups
             /\ f \in Seq(Nat) /\ Len(f) = 1 + Len(u) + n /\ f[1] = m.type
             /\ \A j \in 1..Len(u) : f[1 + j] = u[j]
             /\ \A j \in 1..n : f[1 + Len(u) + j] = EncodeInts(m.ints)[j]
<1> DEFINE e == EncodeInts(m.ints)
           n == Len(e)
           u == EncodeUvarint[n]
           t == <<m.type>>
<1>1. m.ints \in Bodies /\ m.type \in Nat
  <2>1. m.ints \in Bodies /\ m.type \in FrameTypes
    BY DEF Message
  <2>2. m.type \in 0..2 * Base - 1 /\ Base \in Nat
    BY <2>1, FrameAssumption
  <2>3. QED  BY <2>1, <2>2
<1>2. e \in Seq(Nat) /\ n \in Nat
  BY <1>1, IntsLemma
<1>3. Spells(u, n) /\ Len(u) <= MaxGroups
  BY <1>1, <1>2, UvarintLemma, FrameAssumption
<1>4. u \in Seq(Nat) /\ Len(u) \in Nat /\ Len(u) >= 1
  BY <1>3 DEF Spells
<1>5. t \in Seq(Nat) /\ Len(t) = 1 /\ t[1] = m.type
  BY <1>1
<1>6. MakeFrame(m) = (t \o u) \o e
  BY DEF MakeFrame
<1> HIDE DEF e, u, t
<1> DEFINE l == Len(u)
           v == t \o u
<1>7. /\ v \in Seq(Nat) /\ Len(v) = 1 + l
      /\ \A i \in 1..1 + l : v[i] = IF i <= 1 THEN t[i] ELSE u[i - 1]
  <2>1. /\ v \in Seq(Nat) /\ Len(v) = Len(t) + Len(u)
        /\ \A i \in 1..Len(t) + Len(u) : v[i] = IF i <= Len(t) THEN t[i] ELSE u[i - Len(t)]
    BY <1>4, <1>5, ConcatProperties
  <2> HIDE DEF v
  <2>2. QED  BY <1>5, <2>1
<1>8. v[1] = m.type /\ \A j \in 1..l : v[1 + j] = u[j]
  <2>1. l \in Nat
    BY <1>4
  <2> HIDE DEF l, v
  <2>2. \A j \in 1..l : 1 + j \in 1..1 + l /\ ~(1 + j <= 1) /\ (1 + j) - 1 = j
    BY <2>1
  <2>3. 1 \in 1..1 + l
    BY <2>1
  <2>4. QED  BY <1>5, <1>7, <2>2, <2>3
<1> HIDE DEF v
<1>9. /\ v \o e \in Seq(Nat) /\ Len(v \o e) = (1 + l) + n
      /\ \A i \in 1..(1 + l) + n : (v \o e)[i] = IF i <= 1 + l THEN v[i] ELSE e[i - (1 + l)]
  <2> DEFINE x == v \o e
             a == Len(v)
  <2>1. /\ x \in Seq(Nat) /\ Len(x) = a + n
        /\ \A i \in 1..a + n : x[i] = IF i <= a THEN v[i] ELSE e[i - a]
    BY <1>2, <1>7, ConcatProperties
  <2>2. a = 1 + l
    BY <1>7
  <2> HIDE DEF x, a
  <2>3. /\ x \in Seq(Nat) /\ Len(x) = (1 + l) + n
        /\ \A i \in 1..(1 + l) + n : x[i] = IF i <= 1 + l THEN v[i] ELSE e[i - (1 + l)]
    BY <2>1, <2>2
  <2>4. QED  BY <2>3 DEF x
<1>10. /\ (v \o e)[1] = m.type
       /\ \A j \in 1..l : (v \o e)[1 + j] = u[j]
       /\ \A j \in 1..n : (v \o e)[1 + l + j] = e[j]
  <2>1. l \in Nat /\ n \in Nat
    BY <1>2, <1>4
  <2> HIDE DEF l, n
  <2>2. \A j \in 0..l : 1 + j \in 1..(1 + l) + n /\ 1 + j <= 1 + l
    BY <2>1
  <2>3. \A j \in 1..n : /\ 1 + l + j \in 1..(1 + l) + n /\ ~(1 + l + j <= 1 + l)
                        /\ (1 + l + j) - (1 + l) = j
    BY <2>1
  <2>4. (v \o e)[1] = m.type
    <3>1. 1 \in 1..(1 + l) + n /\ 1 <= 1 + l
      BY <2>1
    <3>2. QED  BY <1>8, <1>9, <3>1
  <2>5. \A j \in 1..l : (v \o e)[1 + j] = u[j]
    <3>1. \A j \in 1..l : j \in 0..l
      BY <2>1
    <3>2. QED  BY <1>8, <1>9, <2>2, <3>1
  <2>6. \A j \in 1..n : (v \o e)[1 + l + j] = e[j]
    BY <1>9, <2>3
  <2>7. QED  BY <2>4, <2>5, <2>6
<1>11. QED  BY <1>2, <1>3, <1>4, <1>6, <1>9, <1>10 DEF e, u, v

LEMMA FramesLemma ==
  ASSUME NEW ms \in Seq(Message)
  PROVE  /\ Framed(ms) \in Seq(Seq(Nat)) /\ Len(Framed(ms)) = Len(ms) /\ Len(ms) \in Nat
         /\ \A k \in 1..Len(ms) : /\ ms[k] \in Message /\ Framed(ms)[k] = MakeFrame(ms[k])
                                  /\ Len(Framed(ms)[k]) >= 1
         /\ \A m \in Message : Framed(Append(ms, m)) = Append(Framed(ms), MakeFrame(m))
         /\ \A k \in 0..Len(ms) : SubSeq(Framed(ms), 1, k) = Framed(SubSeq(ms, 1, k))
<1>1. Len(ms) \in Nat /\ DOMAIN ms = 1..Len(ms) /\ \A k \in 1..Len(ms) : ms[k] \in Message
  BY LenProperties, ElementOfSeq
<1>2. \A m \in Message : MakeFrame(m) \in Seq(Nat) /\ Len(MakeFrame(m)) >= 1
  <2>1. SUFFICES ASSUME NEW m \in Message  PROVE MakeFrame(m) \in Seq(Nat) /\ Len(MakeFrame(m)) >= 1
    OBVIOUS
  <2> DEFINE n == Len(EncodeInts(m.ints))
             l == Len(EncodeUvarint[n])
  <2>2. MakeFrame(m) \in Seq(Nat) /\ Len(MakeFrame(m)) = 1 + l + n /\ l \in Nat /\ n \in Nat
    BY FrameLemma
  <2> HIDE DEF n, l
  <2>3. QED  BY <2>2
<1>3. Framed(ms) = [k \in 1..Len(ms) |-> MakeFrame(ms[k])]
  BY <1>1 DEF Framed
<1>4. /\ Framed(ms) \in Seq(Seq(Nat)) /\ Len(Framed(ms)) = Len(ms)
      /\ \A k \in 1..Len(ms) : Framed(ms)[k] = MakeFrame(ms[k])
  <2>1. Framed(ms) \in [1..Len(ms) -> Seq(Nat)]
    BY <1>1, <1>2, <1>3
  <2>2. QED  BY <1>1, <1>3, <2>1
<1>5. ASSUME NEW m \in Message  PROVE Framed(Append(ms, m)) = Append(Framed(ms), MakeFrame(m))
  <2> DEFINE a == Append(ms, m)
             n == Len(ms)
  <2>1. /\ a \in Seq(Message) /\ Len(a) = n + 1 /\ a[n + 1] = m
        /\ \A k \in 1..n : a[k] = ms[k]
    BY AppendProperties
  <2>2. DOMAIN a = 1..n + 1
    BY <2>1, LenProperties
  <2> HIDE DEF a
  <2>3. Framed(a) = [k \in 1..n + 1 |-> MakeFrame(a[k])]
    BY <2>2 DEF Framed
  <2>4. Framed(a) \in Seq(Seq(Nat)) /\ Len(Framed(a)) = n + 1
    <3>1. \A k \in 1..n + 1 : a[k] \in Message
      BY <2>1, ElementOfSeq
    <3>2. Framed(a) \in [1..n + 1 -> Seq(Nat)]
      BY <1>2, <2>3, <3>1
    <3>3. QED  BY <1>1, <2>3, <3>2
  <2> DEFINE b == Append(Framed(ms), MakeFrame(m))
  <2>5. /\ b \in Seq(Seq(Nat)) /\ Len(b) = n + 1 /\ b[n + 1] = MakeFrame(m)
        /\ \A k \in 1..n : b[k] = Framed(ms)[k]
    BY <1>2, <1>4, AppendProperties
  <2> HIDE DEF b
  <2>6. \A k \in 1..n + 1 : Framed(a)[k] = b[k]
    <3>1. \A k \in 1..n + 1 : k \in 1..n \/ k = n + 1
      BY <1>1
    <3>2. \A k \in 1..n + 1 : Framed(a)[k] = MakeFrame(a[k])
      BY <2>3
    <3>3. QED  BY <1>4, <2>1, <2>5, <3>1, <3>2
  <2>7. Framed(a) = b
    BY <2>4, <2>5, <2>6, SeqEqual
  <2>8. QED  BY <2>7 DEF a, b
<1>6. ASSUME NEW k \in 0..Len(ms)  PROVE SubSeq(Framed(ms), 1, k) = Framed(SubSeq(ms, 1, k))
  <2> DEFINE a == SubSeq(ms, 1, k)
             b == SubSeq(Framed(ms), 1, k)
             n == Len(ms)
  <2>0. k \in Nat /\ \A i \in 1..k : i \in 1..n
    BY <1>1
  <2>1. a \in Seq(Message) /\ Len(a) = k /\ \A i \in 1..k : a[i] = ms[i]
    <3>1. k \in Int /\ 1 \in Int /\ (\A i \in 1..k : ms[i] \in Message)
      BY <1>1, <2>0
    <3>2. /\ a \in Seq(Message) /\ Len(a) = IF 1 <= k THEN k - 1 + 1 ELSE 0
          /\ \A i \in 1..k - 1 + 1 : a[i] = ms[1 + i - 1]
      BY <3>1, SubSeqProperties
    <3> HIDE DEF a
    <3>3. QED  BY <2>0, <3>2
  <2>2. b \in Seq(Seq(Nat)) /\ Len(b) = k /\ \A i \in 1..k : b[i] = Framed(ms)[i]
    <3>1. k \in Int /\ 1 \in Int /\ (\A i \in 1..k : Framed(ms)[i] \in Seq(Nat))
      BY <1>1, <1>2, <1>4, <2>0
    <3>2. /\ b \in Seq(Seq(Nat)) /\ Len(b) = IF 1 <= k THEN k - 1 + 1 ELSE 0
          /\ \A i \in 1..k - 1 + 1 : b[i] = Framed(ms)[1 + i - 1]
      BY <3>1, SubSeqProperties
    <3> HIDE DEF b
    <3>3. QED  BY <2>0, <3>2
  <2> HIDE DEF a, b
  <2>3. Framed(a) = [i \in 1..k |-> MakeFrame(a[i])]
    <3>1. DOMAIN a = 1..k
      BY <2>1, LenProperties
    <3>2. QED  BY <3>1 DEF Framed
  <2>4. Framed(a) \in Seq(Seq(Nat)) /\ Len(Framed(a)) = k
    <3>1. \A i \in 1..k : a[i] \in Message
      BY <2>1, ElementOfSeq
    <3>2. Framed(a) \in [1..k -> Seq(Nat)]
      BY <1>2, <2>3, <3>1
    <3>3. QED  BY <2>0, <2>3, <3>2
  <2>5. \A i \in 1..k : Framed(a)[i] = b[i]
    BY <1>4, <2>0, <2>1, <2>2, <2>3
  <2>6. b = Framed(a)
    BY <2>2, <2>4, <2>5, SeqEqual
  <2>7. QED  BY <2>6 DEF a, b
<1>7. QED  BY <1>1, <1>2, <1>4, <1>5, <1>6

\* The batch, and where a frame of it ends.
Batch(ms) == FlattenSeq(Framed(ms))
EndOf(ms, k) == Offset(Framed(ms), k)

LEMMA BatchLemma ==
  ASSUME NEW ms \in Seq(Message)
  PROVE  /\ Batch(ms) \in Seq(Nat) /\ Len(Batch(ms)) \in Nat
         /\ EndOf(ms, 0) = 0 /\ EndOf(ms, Len(ms)) = Len(Batch(ms))
         /\ \A k \in 0..Len(ms) :
              /\ EndOf(ms, k) \in Nat /\ EndOf(ms, k) <= Len(Batch(ms))
              /\ SubSeq(Batch(ms), 1, EndOf(ms, k)) = Batch(SubSeq(ms, 1, k))
              /\ EndOf(ms, k) >= Len(Batch(ms)) => k = Len(ms)
         /\ \A m \in Message : Batch(Append(ms, m)) = Batch(ms) \o MakeFrame(m)
<1> DEFINE s == Framed(ms)
<1>1. /\ s \in Seq(Seq(Nat)) /\ Len(s) = Len(ms) /\ Len(ms) \in Nat
      /\ \A k \in 1..Len(s) : Len(s[k]) >= 1
      /\ \A m \in Message : Framed(Append(ms, m)) = Append(s, MakeFrame(m))
      /\ \A k \in 0..Len(s) : SubSeq(s, 1, k) = Framed(SubSeq(ms, 1, k))
  BY FramesLemma
<1>2. /\ FlattenSeq(s) \in Seq(Nat)
      /\ Offset(s, 0) = 0 /\ Offset(s, Len(s)) = Len(FlattenSeq(s))
      /\ \A k \in 0..Len(s) :
           /\ Offset(s, k) \in Nat /\ Offset(s, k) <= Len(FlattenSeq(s))
           /\ SubSeq(FlattenSeq(s), 1, Offset(s, k)) = FlattenSeq(SubSeq(s, 1, k))
  BY <1>1, FlattenLemma
<1>3. \A k \in 0..Len(s) : Offset(s, k) >= Len(FlattenSeq(s)) => k = Len(s)
  BY <1>1, OffsetLemma
<1>4. \A m \in Message : FlattenSeq(Append(s, MakeFrame(m))) = FlattenSeq(s) \o MakeFrame(m)
  <2>1. \A m \in Message : MakeFrame(m) \in Seq(Nat)
    BY FrameLemma
  <2>2. QED  BY <1>1, <2>1, FlattenAppend
<1> HIDE DEF s
<1>5. QED  BY <1>1, <1>2, <1>3, <1>4, LenProperties DEF Batch, EndOf, s

\* What is where in the batch: the frame of message k begins behind that of k - 1.
LEMMA PlaceLemma ==
  ASSUME NEW ms \in Seq(Message), NEW k \in 1..Len(ms)
  PROVE  LET e == EncodeInts(ms[k].ints)
             n == Len(e)
             u == EncodeUvarint[n]
             b == EndOf(ms, k - 1)
         IN  /\ ms[k] \in Message /\ k - 1 \in 0..Len(ms) /\ k \in 0..Len(ms)
             /\ n \in Nat /\ Len(u) \in Nat /\ Len(u) >= 1 /\ Len(u) <= MaxGroups
             /\ b \in Nat /\ EndOf(ms, k) = b + 1 + Len(u) + n
             /\ Batch(ms)[b + 1] = ms[k].type
             /\ \A j \in 1..Len(u) : Batch(ms)[b + 1 + j] = u[j]
             /\ \A j \in 1..n : Batch(ms)[b + 1 + Len(u) + j] = e[j]
<1> DEFINE e == EncodeInts(ms[k].ints)
           n == Len(e)
           u == EncodeUvarint[n]
           l == Len(u)
           f == MakeFrame(ms[k])
           s == Framed(ms)
           b == EndOf(ms, k - 1)
<1>1. /\ s \in Seq(Seq(Nat)) /\ Len(s) = Len(ms) /\ Len(ms) \in Nat
      /\ ms[k] \in Message /\ s[k] = f
  BY FramesLemma
<1>2. k - 1 \in 0..Len(ms) /\ k \in 0..Len(ms) /\ k \in 1..Len(s)
  BY <1>1
<1>3. b \in Nat
  BY <1>2, BatchLemma
<1>4. /\ EndOf(ms, k) = b + Len(f)
      /\ \A j \in 1..Len(f) : Batch(ms)[b + j] = f[j]
  <2> HIDE DEF s, f
  <2>1. /\ Offset(s, k) = Offset(s, k - 1) + Len(s[k])
        /\ \A j \in 1..Len(s[k]) : FlattenSeq(s)[Offset(s, k - 1) + j] = s[k][j]
    BY <1>1, <1>2, FlattenLemma
  <2>2. QED  BY <1>1, <2>1 DEF Batch, EndOf, s
<1>5. /\ n \in Nat /\ l \in Nat /\ l >= 1 /\ l <= MaxGroups
      /\ Len(f) = 1 + l + n /\ f[1] = ms[k].type
      /\ \A j \in 1..l : f[1 + j] = u[j]
      /\ \A j \in 1..n : f[1 + l + j] = e[j]
  BY <1>1, FrameLemma
<1> HIDE DEF b, f
<1>6. /\ EndOf(ms, k) = b + 1 + l + n
      /\ Batch(ms)[b + 1] = ms[k].type
      /\ \A j \in 1..l : Batch(ms)[b + 1 + j] = u[j]
      /\ \A j \in 1..n : Batch(ms)[b + 1 + l + j] = e[j]
  <2> HIDE DEF e, n, u, l
  <2>1. EndOf(ms, k) = b + 1 + l + n
    BY <1>3, <1>4, <1>5
  <2>2. Batch(ms)[b + 1] = ms[k].type
    <3>1. 1 \in 1..Len(f)
      BY <1>5
    <3>2. QED  BY <1>4, <1>5, <3>1
  <2>3. \A j \in 1..l : Batch(ms)[b + 1 + j] = u[j]
    <3>1. \A j \in 1..l : 1 + j \in 1..Len(f) /\ b + (1 + j) = b + 1 + j
      BY <1>3, <1>5
    <3>2. QED  BY <1>4, <1>5, <3>1
  <2>4. \A j \in 1..n : Batch(ms)[b + 1 + l + j] = e[j]
    <3>1. \A j \in 1..n : 1 + l + j \in 1..Len(f) /\ b + (1 + l + j) = b + 1 + l + j
      <4>1. \A j \in 1..n : 1 + l + j \in 1..1 + l + n /\ b + (1 + l + j) = b + 1 + l + j
        <5>1. l \in Nat /\ n \in Nat /\ b \in Nat
          BY <1>3, <1>5
        <5>2. QED  BY <5>1
      <4>2. QED  BY <1>5, <4>1
    <3>2. QED  BY <1>4, <1>5, <3>1
  <2>5. QED  BY <2>1, <2>2, <2>3, <2>4
<1>7. QED  BY <1>1, <1>2, <1>3, <1>5, <1>6 DEF b

\* The same inside of a payload.
LEMMA GroupsLemma ==
  ASSUME NEW ints \in Bodies
  PROVE  LET e == EncodeInts(ints)
             g == Groups(ints)
         IN  /\ Offset(g, 0) = 0 /\ Offset(g, Len(ints)) = Len(e)
             /\ \A j \in 0..Len(ints) :
                  /\ Offset(g, j) \in Nat /\ Offset(g, j) <= Len(e)
                  /\ Offset(g, j) >= Len(e) => j = Len(ints)
             /\ \A j \in 1..Len(ints) :
                  /\ Offset(g, j) = Offset(g, j - 1) + Len(g[j])
                  /\ \A i \in 1..Len(g[j]) : e[Offset(g, j - 1) + i] = g[j][i]
<1> DEFINE s == Groups(ints)
<1>1. /\ s \in Seq(Seq(Nat)) /\ Len(s) = Len(ints) /\ EncodeInts(ints) = FlattenSeq(s)
      /\ \A k \in 1..Len(s) : Len(s[k]) >= 1
  BY IntsLemma
<1>2. /\ Offset(s, 0) = 0 /\ Offset(s, Len(s)) = Len(FlattenSeq(s))
      /\ \A k \in 0..Len(s) : Offset(s, k) \in Nat /\ Offset(s, k) <= Len(FlattenSeq(s))
      /\ \A k \in 1..Len(s) :
           /\ Offset(s, k) = Offset(s, k - 1) + Len(s[k])
           /\ \A j \in 1..Len(s[k]) : FlattenSeq(s)[Offset(s, k - 1) + j] = s[k][j]
  BY <1>1, FlattenLemma
<1>3. \A k \in 0..Len(s) : Offset(s, k) >= Len(FlattenSeq(s)) => k = Len(s)
  BY <1>1, OffsetLemma
<1> HIDE DEF s
<1>4. QED  BY <1>1, <1>2, <1>3 DEF s

\* What is left of a batch from which the end was cut.
LEMMA CutLemma ==
  ASSUME NEW S, NEW w \in Seq(S), NEW l \in 0..Len(w)
  PROVE  /\ SubSeq(w, 1, l) \in Seq(S) /\ Len(SubSeq(w, 1, l)) = l
         /\ \A i \in 1..l : SubSeq(w, 1, l)[i] = w[i]
         /\ \A k \in 0..l : SubSeq(SubSeq(w, 1, l), 1, k) = SubSeq(w, 1, k)
<1>0. Len(w) \in Nat /\ l \in Nat /\ l <= Len(w)
  BY LenProperties
<1>1. ASSUME NEW v \in Seq(S), NEW k \in Nat, k <= Len(v)
      PROVE  /\ SubSeq(v, 1, k) \in Seq(S) /\ Len(SubSeq(v, 1, k)) = k
             /\ \A i \in 1..k : SubSeq(v, 1, k)[i] = v[i]
  <2> DEFINE t == SubSeq(v, 1, k)
  <2>1. \A i \in 1..k : v[i] \in S
    <3>1. \A i \in 1..k : i \in 1..Len(v)
      BY <1>1, LenProperties
    <3>2. QED  BY <3>1, ElementOfSeq
  <2>2. /\ t \in Seq(S) /\ Len(t) = IF 1 <= k THEN k - 1 + 1 ELSE 0
        /\ \A i \in 1..k - 1 + 1 : t[i] = v[1 + i - 1]
    BY <2>1, SubSeqProperties
  <2> HIDE DEF t
  <2>3. t \in Seq(S) /\ Len(t) = k /\ \A i \in 1..k : t[i] = v[i]
    <3>1. k - 1 + 1 = k /\ (IF 1 <= k THEN k - 1 + 1 ELSE 0) = k
      OBVIOUS
    <3>2. \A i \in 1..k : i \in 1..k - 1 + 1 /\ 1 + i - 1 = i
      BY <3>1
    <3>3. \A i \in 1..k : t[i] = v[i]
      BY <2>2, <3>2
    <3>4. QED  BY <2>2, <3>1, <3>3
  <2>4. QED  BY <2>3 DEF t
<1> DEFINE d == SubSeq(w, 1, l)
<1>2. d \in Seq(S) /\ Len(d) = l /\ \A i \in 1..l : d[i] = w[i]
  BY <1>0, <1>1
<1> HIDE DEF d
<1>3. ASSUME NEW k \in 0..l  PROVE SubSeq(d, 1, k) = SubSeq(w, 1, k)
  <2> DEFINE x == SubSeq(d, 1, k)
             y == SubSeq(w, 1, k)
  <2>0. k \in Nat /\ k <= Len(d) /\ k <= Len(w) /\ k <= l
    BY <1>0, <1>2
  <2>1. x \in Seq(S) /\ Len(x) = k /\ \A i \in 1..k : x[i] = d[i]
    BY <1>1, <1>2, <2>0
  <2>2. y \in Seq(S) /\ Len(y) = k /\ \A i \in 1..k : y[i] = w[i]
    BY <1>1, <2>0
  <2> HIDE DEF x, y
  <2>3. \A i \in 1..k : d[i] = w[i]
    BY <1>2, <2>0
  <2>4. x = y
    BY <2>1, <2>2, <2>3, SeqEqual
  <2>5. QED  BY <2>4 DEF x, y
<1>4. QED  BY <1>2, <1>3 DEF d

\* Where a frame begins, its header is read as it was written, if it is there.
LEMMA HeaderLemma ==
  ASSUME NEW ms \in Seq(Message), NEW l \in 0..Len(Batch(ms)),
         NEW k \in 1..Len(ms), EndOf(ms, k - 1) < l
  PROVE  LET d == SubSeq(Batch(ms), 1, l)
             h == DecodeUvarint(d, EndOf(ms, k - 1) + 2)
             n == Len(EncodeInts(ms[k].ints))
         IN  /\ d[EndOf(ms, k - 1) + 1] = ms[k].type
             /\ h.ok => h.next = EndOf(ms, k) - n + 1 /\ h.value = n
             /\ l = Len(Batch(ms)) => h.ok
<1> DEFINE w == Batch(ms)
           d == SubSeq(w, 1, l)
           b == EndOf(ms, k - 1)
           n == Len(EncodeInts(ms[k].ints))
           u == EncodeUvarint[n]
           h == DecodeUvarint(d, b + 2)
<1>1. /\ n \in Nat /\ Len(u) \in Nat /\ Len(u) >= 1 /\ Len(u) <= MaxGroups
      /\ b \in Nat /\ EndOf(ms, k) = b + 1 + Len(u) + n /\ k \in 0..Len(ms)
      /\ w[b + 1] = ms[k].type
      /\ \A j \in 1..Len(u) : w[b + 1 + j] = u[j]
  BY PlaceLemma
<1>2. w \in Seq(Nat) /\ Len(w) \in Nat /\ EndOf(ms, k) <= Len(w)
  BY <1>1, BatchLemma
<1>3. d \in Seq(Nat) /\ Len(d) = l /\ \A i \in 1..l : d[i] = w[i]
  BY <1>2, CutLemma
<1>4. l \in Nat /\ l <= Len(w) /\ b < l
  BY <1>2
<1> HIDE DEF w, d, b, n, u
<1>5. d[b + 1] = ms[k].type
  <2>1. b + 1 \in 1..l
    BY <1>1, <1>4
  <2>2. QED  BY <1>1, <1>3, <2>1
<1>6. Agrees(d, b + 2, u)
  <2>1. SUFFICES ASSUME NEW j \in 1..Len(u), b + 2 + j - 1 <= Len(d)
                 PROVE  d[b + 2 + j - 1] = u[j]
    BY DEF Agrees
  <2>2. b + 2 + j - 1 = b + 1 + j /\ b + 1 + j \in 1..l
    BY <1>1, <1>3, <1>4, <2>1
  <2>3. QED  BY <1>1, <1>3, <2>2
<1>7. CASE b + 2 + Len(u) - 1 <= Len(d)
  <2>1. h = [ok |-> TRUE, value |-> n, next |-> b + 2 + Len(u)]
    <3>1. b + 2 \in Nat \ {0}
      BY <1>1
    <3>2. QED  BY <1>1, <1>3, <1>6, <1>7, <3>1, DecodeLemma DEF u
  <2>2. b + 2 + Len(u) = EndOf(ms, k) - n + 1
    BY <1>1
  <2> HIDE DEF h
  <2>3. h.ok /\ h.value = n /\ h.next = EndOf(ms, k) - n + 1
    BY <2>1, <2>2
  <2>4. QED  BY <1>5, <2>3 DEF w, d, b, n, h
<1>8. CASE b + 2 + Len(u) - 1 > Len(d)
  <2>1. h = Failed
    <3>1. b + 2 \in Nat \ {0}
      BY <1>1
    <3>2. QED  BY <1>1, <1>3, <1>6, <1>8, <3>1, CutOffLemma DEF u
  <2>2. ~h.ok
    <3> HIDE DEF h
    <3>1. QED  BY <2>1 DEF Failed
  <2>3. l # Len(w)
    BY <1>1, <1>2, <1>3, <1>8
  <2>4. QED  BY <1>5, <2>2, <2>3 DEF w, d, b, n, h
<1>9. QED
  <2>1. b + 2 + Len(u) - 1 \in Int /\ Len(d) \in Int
    BY <1>1, <1>3, <1>4
  <2>2. b + 2 + Len(u) - 1 <= Len(d) \/ b + 2 + Len(u) - 1 > Len(d)
    BY <2>1
  <2> HIDE DEF h
  <2>3. QED  BY <2>2, <1>7, <1>8, Zenon

\* Inside of a payload that is all there, the next int is read as it was written.
LEMMA ItemLemma ==
  ASSUME NEW ms \in Seq(Message), NEW l \in 0..Len(Batch(ms)),
         NEW k \in 1..Len(ms), EndOf(ms, k) <= l, NEW j \in 1..Len(ms[k].ints)
  PROVE  LET ints == ms[k].ints
             rest == EndOf(ms, k) - Len(EncodeInts(ints))
         IN  DecodeUvarint(SubSeq(SubSeq(Batch(ms), 1, l), 1, EndOf(ms, k)),
                           rest + Offset(Groups(ints), j - 1) + 1)
             = [ok |-> TRUE, value |-> ZigzagEncode(ints[j]),
                next |-> rest + Offset(Groups(ints), j) + 1]
<1> DEFINE w == Batch(ms)
           ints == ms[k].ints
           e == EncodeInts(ints)
           g == Groups(ints)
           c == EndOf(ms, k)
           rest == c - Len(e)
           d == SubSeq(w, 1, c)
           z == ZigzagEncode(ints[j])
           u == EncodeUvarint[z]
           a == Offset(g, j - 1)
           i == rest + a + 1
<1>1. /\ ms[k] \in Message /\ k \in 0..Len(ms) /\ Len(e) \in Nat /\ c \in Nat
      /\ rest \in Nat /\ \A x \in 1..Len(e) : w[rest + x] = e[x]
  <2> DEFINE b == EndOf(ms, k - 1)
             v == EncodeUvarint[Len(e)]
  <2>1. /\ ms[k] \in Message /\ k \in 0..Len(ms) /\ Len(e) \in Nat /\ Len(v) \in Nat
        /\ b \in Nat /\ c = b + 1 + Len(v) + Len(e)
        /\ \A x \in 1..Len(e) : w[b + 1 + Len(v) + x] = e[x]
    BY PlaceLemma
  <2> HIDE DEF b, v, c, w, e
  <2>2. rest = b + 1 + Len(v)
    BY <2>1
  <2>3. QED  BY <2>1, <2>2
<1>2. w \in Seq(Nat) /\ Len(w) \in Nat /\ c <= Len(w)
  BY <1>1, BatchLemma
<1>3. SubSeq(SubSeq(w, 1, l), 1, c) = d
  <2>1. c \in 0..l
    BY <1>1, <1>2
  <2>2. QED  BY <1>2, <2>1, CutLemma
<1>4. d \in Seq(Nat) /\ Len(d) = c /\ \A x \in 1..c : d[x] = w[x]
  <2>1. c \in 0..Len(w)
    BY <1>1, <1>2
  <2>2. QED  BY <1>2, <2>1, CutLemma
<1>5. ints \in Bodies
  BY <1>1 DEF Message
<1>6. z \in Nat /\ g[j] = u /\ Len(u) <= MaxGroups
  BY <1>5, IntsLemma
<1>7. Len(u) \in Nat /\ Len(u) >= 1
  BY <1>6, UvarintLemma DEF Spells
<1>8. /\ Offset(g, j) = a + Len(u) /\ Offset(g, j) <= Len(e) /\ a \in Nat
      /\ \A x \in 1..Len(u) : e[a + x] = u[x]
  <2>1. Len(ints) \in Nat
    BY <1>5, IntsLemma
  <2>2. j - 1 \in 0..Len(ints) /\ j \in 0..Len(ints)
    BY <2>1
  <2>3. QED  BY <1>5, <1>6, <2>2, GroupsLemma
<1> HIDE DEF w, ints, e, g, c, d, z, u, a
<1>9. i \in Nat \ {0} /\ rest \in Nat /\ c = rest + Len(e)
  BY <1>1, <1>8
<1>10. ASSUME NEW x \in 1..Len(u)  PROVE i + x - 1 \in 1..c /\ d[i + x - 1] = u[x]
  <2>1. /\ i + x - 1 = rest + (a + x) /\ a + x \in 1..Len(e) /\ rest + (a + x) \in 1..c
    <3> DEFINE m == Len(u)
               n == Len(e)
    <3>1. /\ a \in Nat /\ m \in Nat /\ n \in Nat /\ a + m <= n /\ c = rest + n
          /\ rest \in Nat /\ x \in 1..m
      BY <1>1, <1>7, <1>8, <1>9
    <3> HIDE DEF m, n, rest
    <3>2. i + x - 1 = rest + (a + x) /\ a + x \in 1..n /\ rest + (a + x) \in 1..c
      BY <3>1
    <3>3. QED  BY <3>2 DEF n
  <2> HIDE DEF i, rest
  <2>2. d[rest + (a + x)] = w[rest + (a + x)]
    BY <1>4, <2>1
  <2>3. w[rest + (a + x)] = e[a + x]
    BY <1>1, <2>1
  <2>4. QED  BY <1>8, <2>1, <2>2, <2>3
<1>11. Agrees(d, i, u)
  BY <1>10 DEF Agrees
<1>12. i + Len(u) - 1 <= Len(d) /\ i + Len(u) = rest + Offset(g, j) + 1
  BY <1>1, <1>4, <1>7, <1>8
<1> HIDE DEF i, rest
<1>13. DecodeUvarint(d, i) = [ok |-> TRUE, value |-> z, next |-> i + Len(u)]
  BY <1>4, <1>6, <1>9, <1>11, <1>12, DecodeLemma DEF u
<1>14. QED  BY <1>3, <1>12, <1>13 DEF w, ints, e, g, c, d, z, a, i, rest

\* The reader is between two frames: it has read the first ones as they are.
BetweenFrames ==
  /\ Len(got) \in 0..Len(messages) /\ got = SubSeq(messages, 1, Len(got))
  /\ cursor = EndOf(messages, Len(got)) + 1
  /\ EndOf(messages, Len(got)) <= Len(bytes)

\* It has read the first j ints of message k, and all of those before.
InPayload(k, j) ==
  /\ got = Append(SubSeq(messages, 1, k - 1),
                  [type |-> messages[k].type, ints |-> SubSeq(messages[k].ints, 1, j)])
  /\ end = EndOf(messages, k) /\ end <= Len(bytes)
  /\ cursor = end - Len(EncodeInts(messages[k].ints)) + Offset(Groups(messages[k].ints), j) + 1

FrameInv ==
  /\ messages \in Seq(Message) /\ lost \in 0..Len(Batch(messages))
  /\ bytes = SubSeq(Batch(messages), 1, Len(Batch(messages)) - lost)
  /\ receiving = "build" => lost = 0 /\ end = 0 /\ got = <<>> /\ cursor = 1
  /\ end = 0 => BetweenFrames
  /\ end # 0 => \E k \in 1..Len(messages) : \E j \in 0..Len(messages[k].ints) : InPayload(k, j)
  /\ receiving = "returned" => end = 0 /\ cursor > Len(bytes)
  /\ receiving = "raised" => lost # 0

LEMMA FrameInitInv == FrameInit => FrameInv
<1> SUFFICES ASSUME FrameInit  PROVE FrameInv
  OBVIOUS
<1>1. messages = <<>> /\ messages \in Seq(Message) /\ Len(messages) = 0 /\ Len(got) = 0
  BY DEF FrameInit
<1>2. EndOf(messages, 0) = 0 /\ EndOf(messages, Len(messages)) = Len(Batch(messages))
  BY <1>1, BatchLemma
<1>3. Batch(messages) \in Seq(Nat) /\ Len(Batch(messages)) = 0
  BY <1>1, <1>2, BatchLemma
<1>4. Batch(messages) = <<>>
  BY <1>3, EmptySeq
<1>5. /\ bytes = <<>> /\ Len(bytes) = 0 /\ lost = 0 /\ cursor = 1 /\ end = 0 /\ got = <<>>
      /\ receiving = "build"
  BY DEF FrameInit
<1>6. SubSeq(<<>>, 1, 0) = <<>>
  BY SubSeqEmpty
<1>7. BetweenFrames
  BY <1>1, <1>2, <1>5, <1>6 DEF BetweenFrames
<1>8. bytes = SubSeq(Batch(messages), 1, Len(Batch(messages)) - lost)
  BY <1>3, <1>4, <1>5, <1>6
<1>9. lost \in 0..Len(Batch(messages))
  BY <1>3, <1>5
<1>10. QED  BY <1>1, <1>5, <1>7, <1>8, <1>9 DEF FrameInv

\* What the invariant says of the bytes.
LEMMA BytesLemma ==
  ASSUME FrameInv
  PROVE  /\ Batch(messages) \in Seq(Nat) /\ Len(Batch(messages)) \in Nat
         /\ Len(messages) \in Nat
         /\ Len(bytes) = Len(Batch(messages)) - lost /\ Len(bytes) \in 0..Len(Batch(messages))
         /\ bytes = SubSeq(Batch(messages), 1, Len(bytes)) /\ bytes \in Seq(Nat)
         /\ lost \in Nat /\ (lost = 0 <=> Len(bytes) = Len(Batch(messages)))
         /\ lost = 0 => bytes = Batch(messages)
<1> DEFINE w == Batch(messages)
           l == Len(w) - lost
<1>1. messages \in Seq(Message) /\ lost \in 0..Len(w) /\ bytes = SubSeq(w, 1, l)
  BY DEF FrameInv
<1>2. w \in Seq(Nat) /\ Len(w) \in Nat /\ Len(messages) \in Nat
  BY <1>1, BatchLemma, LenProperties
<1> HIDE DEF w
<1>3. l \in 0..Len(w) /\ lost \in Nat /\ (lost = 0 <=> l = Len(w))
  BY <1>1, <1>2
<1> HIDE DEF l
<1>4. Len(bytes) = l /\ bytes \in Seq(Nat)
  BY <1>1, <1>2, <1>3, CutLemma
<1>5. lost = 0 => bytes = w
  BY <1>1, <1>2, <1>3, SubSeqFull
<1>6. QED  BY <1>1, <1>2, <1>3, <1>4, <1>5 DEF w, l

\* The first k of the messages, and one more.
LEMMA FirstMessages ==
  ASSUME NEW S, NEW ms \in Seq(S), NEW k \in 1..Len(ms)
  PROVE  /\ Len(SubSeq(ms, 1, k - 1)) = k - 1 /\ SubSeq(ms, 1, k - 1) \in Seq(S)
         /\ Append(SubSeq(ms, 1, k - 1), ms[k]) = SubSeq(ms, 1, k)
<1>1. Len(ms) \in Nat /\ k - 1 \in 0..Len(ms) /\ k \in 0..Len(ms) /\ ms[k] \in S
  BY LenProperties, ElementOfSeq
<1> DEFINE a == SubSeq(ms, 1, k - 1)
           b == SubSeq(ms, 1, k)
           c == Append(a, ms[k])
<1>2. a \in Seq(S) /\ Len(a) = k - 1 /\ \A i \in 1..k - 1 : a[i] = ms[i]
  BY <1>1, CutLemma
<1>3. b \in Seq(S) /\ Len(b) = k /\ \A i \in 1..k : b[i] = ms[i]
  BY <1>1, CutLemma
<1> HIDE DEF a, b
<1>4. /\ c \in Seq(S) /\ Len(c) = Len(a) + 1 /\ c[Len(a) + 1] = ms[k]
      /\ \A i \in 1..Len(a) : c[i] = a[i]
  BY <1>1, <1>2, AppendProperties
<1> HIDE DEF c
<1>5. Len(a) + 1 = k /\ \A i \in 1..k : i # k => i \in 1..k - 1
  BY <1>1, <1>2
<1>6. \A i \in 1..k : c[i] = b[i]
  BY <1>2, <1>3, <1>4, <1>5
<1>7. c = b
  BY <1>3, <1>4, <1>5, <1>6, SeqEqual
<1>8. QED  BY <1>2, <1>7 DEF a, b, c

\* Between frames, with bytes left, the message that comes next is there.
LEMMA NextLemma ==
  ASSUME FrameInv, end = 0, cursor <= Len(bytes)
  PROVE  LET k == Len(got) + 1
             n == Len(EncodeInts(messages[k].ints))
         IN  /\ k \in 1..Len(messages) /\ k - 1 = Len(got)
             /\ got = SubSeq(messages, 1, k - 1)
             /\ cursor = EndOf(messages, k - 1) + 1
             /\ bytes[cursor] = messages[k].type
             /\ Header.ok => Header.next = EndOf(messages, k) - n + 1 /\ Header.value = n
             /\ lost = 0 => Header.ok
<1> DEFINE k == Len(got) + 1
           g == Len(got)
           m == Len(messages)
           b == EndOf(messages, g)
           w == Batch(messages)
           l == Len(bytes)
<1>1. /\ g \in 0..m /\ got = SubSeq(messages, 1, g)
      /\ cursor = b + 1 /\ b <= l /\ messages \in Seq(Message)
  BY DEF FrameInv, BetweenFrames
<1>2. /\ m \in Nat /\ l \in 0..Len(w) /\ bytes = SubSeq(w, 1, l) /\ Len(w) \in Nat
      /\ lost = 0 => l = Len(w)
  BY BytesLemma
<1>4. g \in 0..m /\ b \in Nat
  BY <1>1, BatchLemma
<1>5. b < l
  BY <1>1, <1>2, <1>4
<1>6. g # m
  <2>1. g = m => b = Len(w)
    BY <1>1, BatchLemma
  <2>2. QED  BY <1>2, <1>4, <1>5, <2>1
<1>7. k \in 1..m /\ k - 1 = g
  BY <1>2, <1>4, <1>6
<1> HIDE DEF k, m, l
<1> DEFINE h == DecodeUvarint(SubSeq(w, 1, l), EndOf(messages, k - 1) + 2)
           n == Len(EncodeInts(messages[k].ints))
<1>8. /\ SubSeq(w, 1, l)[EndOf(messages, k - 1) + 1] = messages[k].type
      /\ h.ok => h.next = EndOf(messages, k) - n + 1 /\ h.value = n
      /\ l = Len(w) => h.ok
  <2> HIDE DEF g
  <2>1. EndOf(messages, k - 1) < l
    BY <1>5, <1>7
  <2>2. QED  BY <1>1, <1>2, <1>7, <2>1, HeaderLemma DEF m
<1>9. Header = h
  <2>1. cursor + 1 = EndOf(messages, k - 1) + 2
    BY <1>1, <1>4, <1>7
  <2>2. QED  BY <1>2, <2>1 DEF Header
<1>10. cursor = EndOf(messages, k - 1) + 1 /\ bytes[cursor] = messages[k].type
  BY <1>1, <1>2, <1>7, <1>8
<1> HIDE DEF h, n
<1>11. QED  BY <1>1, <1>2, <1>7, <1>8, <1>9, <1>10 DEF k, m, n

LEMMA ReadFrameStep == ASSUME FrameInv, ReadFrame  PROVE FrameInv'
<1>1. /\ receiving = "read" /\ end = 0 /\ cursor <= Len(bytes)
      /\ Header.ok /\ PayloadEnd <= Len(bytes)
      /\ got' = Append(got, [type |-> bytes[cursor], ints |-> <<>>])
      /\ cursor' = Header.next /\ end' = PayloadEnd
      /\ UNCHANGED <<messages, bytes, lost, receiving>>
  BY DEF ReadFrame
<1>2. PICK k \in 1..Len(messages) : k = Len(got) + 1
  BY <1>1, NextLemma
<1> DEFINE m == messages[k]
           n == Len(EncodeInts(m.ints))
           e == EndOf(messages, k)
<1>3. /\ got = SubSeq(messages, 1, k - 1) /\ bytes[cursor] = m.type
      /\ Header.next = e - n + 1 /\ Header.value = n
  BY <1>1, <1>2, NextLemma
<1>4. messages \in Seq(Message)
  BY DEF FrameInv
<1>5. m \in Message /\ n \in Nat /\ e \in Nat /\ e # 0
  <2> DEFINE u == EncodeUvarint[n]
             b == EndOf(messages, k - 1)
  <2>1. m \in Message /\ n \in Nat /\ Len(u) \in Nat /\ b \in Nat /\ e = b + 1 + Len(u) + n
    BY <1>4, PlaceLemma
  <2> HIDE DEF u, b, e, n
  <2>2. QED  BY <2>1
<1>6. m.ints \in Bodies
  BY <1>5 DEF Message
<1>7. Offset(Groups(m.ints), 0) = 0 /\ 0 \in 0..Len(m.ints) /\ SubSeq(m.ints, 1, 0) = <<>>
  BY <1>6, GroupsLemma, IntsLemma, SubSeqEmpty
<1>8. PayloadEnd = e /\ Header.next = e - n + Offset(Groups(m.ints), 0) + 1
  <2> HIDE DEF n, e
  <2>1. QED  BY <1>3, <1>5, <1>7 DEF PayloadEnd
<1>9. /\ got' = Append(SubSeq(messages, 1, k - 1), [type |-> m.type, ints |-> SubSeq(m.ints, 1, 0)])
      /\ end' = e /\ e <= Len(bytes) /\ cursor' = e - n + Offset(Groups(m.ints), 0) + 1
  BY <1>1, <1>3, <1>7, <1>8
<1>10. InPayload(k, 0)'
  BY <1>1, <1>9 DEF InPayload
<1>11. end' # 0
  BY <1>5, <1>9
<1>12. \E x \in 1..Len(messages)' : \E j \in 0..Len(messages[x].ints)' : InPayload(x, j)'
  BY <1>1, <1>7, <1>10
<1>13. QED  BY <1>1, <1>11, <1>12 DEF FrameInv

LEMMA ReplaceLast ==
  ASSUME NEW S, NEW s \in Seq(S), NEW x \in S, NEW y \in S
  PROVE  /\ Len(Append(s, x)) = Len(s) + 1 /\ Append(s, x)[Len(s) + 1] = x
         /\ [Append(s, x) EXCEPT ![Len(s) + 1] = y] = Append(s, y)
<1> DEFINE a == Append(s, x)
           b == Append(s, y)
           n == Len(s)
           c == [a EXCEPT ![n + 1] = y]
<1>1. /\ a \in Seq(S) /\ Len(a) = n + 1 /\ a[n + 1] = x /\ n \in Nat
      /\ \A i \in 1..n : a[i] = s[i]
  BY AppendProperties, LenProperties
<1>2. b \in Seq(S) /\ Len(b) = n + 1 /\ b[n + 1] = y /\ \A i \in 1..n : b[i] = s[i]
  BY AppendProperties
<1> HIDE DEF a, b, n
<1>3. /\ c \in Seq(S) /\ Len(c) = n + 1
      /\ \A i \in 1..n + 1 : c[i] = IF i = n + 1 THEN y ELSE a[i]
  <2>1. n + 1 \in 1..Len(a)
    BY <1>1
  <2>2. QED  BY <1>1, <2>1, ExceptSeq
<1> HIDE DEF c
<1>4. \A i \in 1..n + 1 : i # n + 1 => i \in 1..n
  BY <1>1
<1>5. \A i \in 1..n + 1 : c[i] = b[i]
  BY <1>1, <1>2, <1>3, <1>4
<1>6. c = b
  BY <1>2, <1>3, <1>5, SeqEqual
<1>7. QED  BY <1>1, <1>6 DEF a, b, c, n

\* What the reader knows inside of a payload.
LEMMA PayloadLemma ==
  ASSUME FrameInv, NEW k \in 1..Len(messages), NEW j \in 0..Len(messages[k].ints), InPayload(k, j)
  PROVE  LET ints == messages[k].ints
             g == Groups(ints)
         IN  /\ ints \in Bodies /\ Len(ints) \in Nat /\ messages[k] \in Message
             /\ end \in Nat /\ end = EndOf(messages, k)
             /\ (cursor > end) <=> j = Len(ints)
             /\ cursor > end => cursor = end + 1
             /\ cursor <= end =>
                  Item = [ok |-> TRUE, value |-> ZigzagEncode(ints[j + 1]),
                          next |-> end - Len(EncodeInts(ints)) + Offset(g, j + 1) + 1]
<1> DEFINE ints == messages[k].ints
           g == Groups(ints)
           n == Len(EncodeInts(ints))
           e == EndOf(messages, k)
           o == Offset(g, j)
<1>1. messages \in Seq(Message) /\ messages[k] \in Message /\ k \in 0..Len(messages)
  <2>1. messages \in Seq(Message)
    BY DEF FrameInv
  <2>2. QED  BY <2>1, PlaceLemma
<1>2. ints \in Bodies /\ Len(ints) \in Nat /\ n \in Nat
  <2>1. ints \in Bodies
    BY <1>1 DEF Message
  <2>2. QED  BY <2>1, IntsLemma
<1>3. end = e /\ end <= Len(bytes) /\ cursor = end - n + o + 1 /\ end \in Nat
  BY <1>1, BatchLemma DEF InPayload
<1>4. /\ o \in Nat /\ o <= n /\ Offset(g, Len(ints)) = n
      /\ o >= n => j = Len(ints)
  BY <1>2, GroupsLemma
<1>5. cursor > end <=> j = Len(ints)
  <2>1. j = Len(ints) => o = n
    BY <1>4
  <2> HIDE DEF o, n, ints, g, e
  <2>2. QED  BY <1>2, <1>3, <1>4, <2>1
<1>6. cursor > end => cursor = end + 1
  <2> HIDE DEF o, n, ints, g, e
  <2>1. QED  BY <1>2, <1>3, <1>4
<1>7. ASSUME cursor <= end
      PROVE  Item = [ok |-> TRUE, value |-> ZigzagEncode(ints[j + 1]),
                     next |-> end - n + Offset(g, j + 1) + 1]
  <2> DEFINE i == j + 1
             l == Len(bytes)
             w == Batch(messages)
  <2>1. j # Len(ints)
    <3> HIDE DEF o, n, ints, g, e
    <3>1. cursor \in Int
      BY <1>2, <1>3, <1>4
    <3>2. QED  BY <1>3, <1>5, <1>7, <3>1
  <2>2. i \in 1..Len(ints) /\ i - 1 = j
    <3> HIDE DEF ints
    <3>1. QED  BY <1>2, <2>1 DEF ints
  <2>3. l \in 0..Len(w) /\ bytes = SubSeq(w, 1, l) /\ e <= l
    BY <1>3, BytesLemma
  <2> HIDE DEF i, l
  <2>4. DecodeUvarint(SubSeq(SubSeq(w, 1, l), 1, e), e - n + Offset(g, i - 1) + 1)
        = [ok |-> TRUE, value |-> ZigzagEncode(ints[i]), next |-> e - n + Offset(g, i) + 1]
    BY <1>1, <2>2, <2>3, ItemLemma
  <2>5. QED  BY <1>3, <2>2, <2>3, <2>4 DEF Item, i
<1>8. QED  BY <1>1, <1>2, <1>3, <1>5, <1>6, <1>7

LEMMA ReadIntStep == ASSUME FrameInv, ReadInt  PROVE FrameInv'
<1>1. /\ receiving = "read" /\ end # 0 /\ cursor <= end /\ Item.ok
      /\ got' = [got EXCEPT ![Len(got)].ints = Append(@, ZigzagDecode(Item.value))]
      /\ cursor' = Item.next
      /\ UNCHANGED <<messages, bytes, lost, end, receiving>>
  BY DEF ReadInt
<1>2. messages \in Seq(Message)
  BY DEF FrameInv
<1>3. PICK k \in 1..Len(messages) : \E j \in 0..Len(messages[k].ints) : InPayload(k, j)
  BY <1>1 DEF FrameInv
<1>4. PICK j \in 0..Len(messages[k].ints) : InPayload(k, j)
  BY <1>3
<1> DEFINE ints == messages[k].ints
           t == messages[k].type
           i == j + 1
           s == SubSeq(messages, 1, k - 1)
           a == SubSeq(ints, 1, j)
           b == SubSeq(ints, 1, i)
           Z == -Half..Half - 1
           Row == [type : FrameTypes, ints : Seq(Z)]
           x == [type |-> t, ints |-> a]
           y == [type |-> t, ints |-> b]
<1>5. /\ ints \in Bodies /\ Len(ints) \in Nat /\ messages[k] \in Message
      /\ end \in Nat /\ j # Len(ints)
      /\ Item = [ok |-> TRUE, value |-> ZigzagEncode(ints[i]),
                 next |-> end - Len(EncodeInts(ints)) + Offset(Groups(ints), i) + 1]
  BY <1>1, <1>4, PayloadLemma
<1>6. i \in 1..Len(ints) /\ i - 1 = j /\ i \in 0..Len(ints)
  <2> HIDE DEF ints
  <2>1. QED  BY <1>5 DEF ints
<1>7. ints \in Seq(Z) /\ ints[i] \in Z
  BY <1>5, <1>6, IntsLemma
<1>8. ZigzagDecode(Item.value) = ints[i]
  BY <1>5, <1>7, ZigzagLemma
<1>9. a \in Seq(Z) /\ b \in Seq(Z) /\ Append(a, ints[i]) = b
  <2> HIDE DEF i, ints
  <2>1. a \in Seq(Z) /\ Append(a, ints[i]) = b
    BY <1>6, <1>7, FirstMessages
  <2>2. b \in Seq(Z)
    BY <1>6, <1>7, CutLemma
  <2>3. QED  BY <2>1, <2>2
<1>10. s \in Seq(Row) /\ Len(s) = k - 1
  <2>1. s \in Seq(Message) /\ Len(s) = k - 1
    BY <1>2, FirstMessages
  <2>2. Message \subseteq Row
    <3>1. Bodies \subseteq Seq(Z)
      BY IntsLemma
    <3>2. QED  BY <3>1 DEF Message
  <2>3. QED  BY <2>1, <2>2, SeqMonotonic
<1>11. x \in Row /\ y \in Row
  <2>1. t \in FrameTypes
    BY <1>5 DEF Message
  <2>2. QED  BY <1>9, <2>1
<1>12. got = Append(s, x) /\ cursor = end - Len(EncodeInts(ints)) + Offset(Groups(ints), j) + 1
  BY <1>4 DEF InPayload
<1> HIDE DEF ints, t, s, a, b, Row, i
<1>13. /\ Len(got) = Len(s) + 1 /\ got[Len(got)] = x
       /\ [Append(s, x) EXCEPT ![Len(s) + 1] = y] = Append(s, y)
  <2> HIDE DEF x, y
  <2>1. /\ Len(Append(s, x)) = Len(s) + 1 /\ Append(s, x)[Len(s) + 1] = x
        /\ [Append(s, x) EXCEPT ![Len(s) + 1] = y] = Append(s, y)
    BY <1>10, <1>11, ReplaceLast
  <2>2. QED  BY <1>12, <2>1
<1>14. got' = Append(s, y)
  <2>1. got' = [got EXCEPT ![Len(got)] = [got[Len(got)] EXCEPT !.ints =
                                            Append(got[Len(got)].ints, ints[i])]]
    BY <1>1, <1>8
  <2>2. [x EXCEPT !.ints = Append(x.ints, ints[i])] = y
    BY <1>9
  <2>3. got' = [got EXCEPT ![Len(got)] = y]
    BY <1>13, <2>1, <2>2
  <2>4. QED  BY <1>12, <1>13, <2>3
<1>15. cursor' = end - Len(EncodeInts(ints)) + Offset(Groups(ints), i) + 1
  BY <1>1, <1>5
<1>16. InPayload(k, i)'
  BY <1>1, <1>4, <1>14, <1>15 DEF InPayload, ints, t, s, b
<1>17. \E c \in 1..Len(messages)' : \E d \in 0..Len(messages[c].ints)' : InPayload(c, d)'
  BY <1>1, <1>6, <1>16 DEF ints
<1>18. QED  BY <1>1, <1>17 DEF FrameInv

LEMMA EndFrameStep == ASSUME FrameInv, EndFrame  PROVE FrameInv'
<1>1. /\ receiving = "read" /\ end # 0 /\ cursor > end /\ end' = 0
      /\ UNCHANGED <<messages, bytes, lost, cursor, got, receiving>>
  BY DEF EndFrame
<1>2. messages \in Seq(Message)
  BY DEF FrameInv
<1>3. PICK k \in 1..Len(messages) : \E j \in 0..Len(messages[k].ints) : InPayload(k, j)
  BY <1>1 DEF FrameInv
<1>4. PICK j \in 0..Len(messages[k].ints) : InPayload(k, j)
  BY <1>3
<1> DEFINE ints == messages[k].ints
           t == messages[k].type
<1>5. /\ ints \in Bodies /\ messages[k] \in Message /\ end = EndOf(messages, k)
      /\ j = Len(ints) /\ cursor = end + 1
  BY <1>1, <1>4, PayloadLemma
<1>6. SubSeq(ints, 1, j) = ints
  BY <1>5, IntsLemma, SubSeqFull
<1>7. [type |-> t, ints |-> ints] = messages[k]
  BY <1>5 DEF Message
<1>8. got = Append(SubSeq(messages, 1, k - 1), messages[k])
  BY <1>4, <1>6, <1>7 DEF InPayload
<1>9. got = SubSeq(messages, 1, k) /\ Len(got) = k /\ k \in 0..Len(messages)
  <2>1. k \in 0..Len(messages)
    BY <1>2, PlaceLemma
  <2>2. got = SubSeq(messages, 1, k)
    BY <1>2, <1>8, FirstMessages
  <2>3. QED  BY <1>2, <2>1, <2>2, CutLemma
<1>10. end <= Len(bytes)
  BY <1>4 DEF InPayload
<1>11. BetweenFrames'
  BY <1>1, <1>5, <1>9, <1>10 DEF BetweenFrames
<1>12. QED  BY <1>1, <1>11 DEF FrameInv

LEMMA SendFrameStep ==
  ASSUME FrameInv, NEW m \in Message, SendFrame(m)
  PROVE  FrameInv'
<1> DEFINE ms == Append(messages, m)
<1>1. /\ receiving = "build" /\ messages' = ms /\ bytes' = bytes \o MakeFrame(m)
      /\ UNCHANGED <<lost, cursor, end, got, receiving>>
  BY DEF SendFrame
<1>2. messages \in Seq(Message) /\ lost = 0 /\ end = 0 /\ got = <<>> /\ cursor = 1
  BY <1>1 DEF FrameInv
<1>3. ms \in Seq(Message) /\ Batch(ms) = bytes \o MakeFrame(m)
  <2>1. bytes = Batch(messages)
    BY <1>2, BytesLemma
  <2>2. QED  BY <1>2, <2>1, AppendProperties, BatchLemma
<1> HIDE DEF ms
<1>4. /\ Batch(ms) \in Seq(Nat) /\ Len(Batch(ms)) \in Nat /\ EndOf(ms, 0) = 0
      /\ Len(ms) \in Nat /\ 0 \in 0..Len(ms)
  <2>1. Len(ms) \in Nat
    BY <1>3, LenProperties
  <2>2. Batch(ms) \in Seq(Nat) /\ Len(Batch(ms)) \in Nat /\ EndOf(ms, 0) = 0
    BY <1>3, BatchLemma
  <2>3. 0 \in 0..Len(ms)
    BY <2>1
  <2>4. QED  BY <2>1, <2>2, <2>3
<1>5. SubSeq(Batch(ms), 1, Len(Batch(ms)) - 0) = Batch(ms)
  <2>1. Len(Batch(ms)) - 0 = Len(Batch(ms))
    BY <1>4
  <2>2. QED  BY <1>4, <2>1, SubSeqFull
<1>6. got = SubSeq(ms, 1, 0) /\ Len(got) = 0
  BY <1>2, SubSeqEmpty
<1>7. BetweenFrames'
  BY <1>1, <1>2, <1>3, <1>4, <1>6 DEF BetweenFrames
<1>8. QED  BY <1>1, <1>2, <1>3, <1>4, <1>5, <1>7 DEF FrameInv

LEMMA ArriveStep ==
  ASSUME FrameInv, NEW k \in 0..MaxLost, ArriveBatch(k)
  PROVE  FrameInv'
<1> DEFINE w == Batch(messages)
<1>1. /\ receiving = "build" /\ k <= Len(bytes) /\ lost' = k
      /\ bytes' = SubSeq(bytes, 1, Len(bytes) - k) /\ receiving' = "read"
      /\ UNCHANGED <<messages, cursor, end, got>>
  BY DEF ArriveBatch
<1>2. /\ messages \in Seq(Message) /\ lost = 0 /\ end = 0 /\ got = <<>> /\ cursor = 1
      /\ BetweenFrames
  BY <1>1 DEF FrameInv
<1>3. w \in Seq(Nat) /\ Len(w) \in Nat /\ bytes = w /\ k \in 0..Len(w)
  BY <1>1, <1>2, BytesLemma, FrameAssumption
<1>4. Len(bytes') = Len(w) - k /\ Len(w) - k \in 0..Len(w)
  <2> HIDE DEF w
  <2>1. Len(w) - k \in 0..Len(w)
    BY <1>3
  <2>2. bytes' = SubSeq(w, 1, Len(w) - k)
    BY <1>1, <1>3
  <2>3. QED  BY <1>3, <2>1, <2>2, CutLemma
<1>5. EndOf(messages, Len(got)) = 0
  BY <1>2, BatchLemma
<1>6. BetweenFrames'
  BY <1>1, <1>2, <1>4, <1>5 DEF BetweenFrames
<1>7. QED  BY <1>1, <1>2, <1>3, <1>6 DEF FrameInv

LEMMA RaiseStep == ASSUME FrameInv, Raise  PROVE FrameInv'
<1>1. /\ receiving = "read" /\ receiving' = "raised"
      /\ UNCHANGED <<messages, bytes, lost, cursor, end, got>>
  BY DEF Raise
<1>2. lost # 0
  <2>1. CASE end = 0 /\ cursor <= Len(bytes) /\ ~(Header.ok /\ PayloadEnd <= Len(bytes))
    <3> SUFFICES ASSUME lost = 0  PROVE FALSE
      OBVIOUS
    <3>1. PICK k \in 1..Len(messages) : k = Len(got) + 1
      BY <2>1, NextLemma
    <3> DEFINE n == Len(EncodeInts(messages[k].ints))
               e == EndOf(messages, k)
    <3>2. Header.ok /\ Header.next = e - n + 1 /\ Header.value = n
      BY <2>1, <3>1, NextLemma
    <3>3. messages \in Seq(Message)
      BY DEF FrameInv
    <3>4. k \in 0..Len(messages) /\ n \in Nat
      BY <3>3, PlaceLemma
    <3>5. e \in Nat /\ e <= Len(Batch(messages))
      BY <3>3, <3>4, BatchLemma
    <3>6. e <= Len(bytes)
      BY <3>5, BytesLemma
    <3> HIDE DEF n, e
    <3>7. PayloadEnd = e
      BY <3>2, <3>4, <3>5 DEF PayloadEnd
    <3>8. QED  BY <2>1, <3>2, <3>6, <3>7
  <2>2. CASE end # 0 /\ cursor <= end /\ ~Item.ok
    <3>1. PICK k \in 1..Len(messages) : \E j \in 0..Len(messages[k].ints) : InPayload(k, j)
      BY <2>2 DEF FrameInv
    <3>2. PICK j \in 0..Len(messages[k].ints) : InPayload(k, j)
      BY <3>1
    <3>3. Item.ok
      BY <2>2, <3>2, PayloadLemma
    <3>4. QED  BY <2>2, <3>3
  <2>3. QED  BY <2>1, <2>2 DEF Raise
<1>3. BetweenFrames' <=> BetweenFrames
  BY <1>1 DEF BetweenFrames
<1>4. \A k, j : InPayload(k, j)' <=> InPayload(k, j)
  BY <1>1 DEF InPayload
<1>5. QED  BY <1>1, <1>2, <1>3, <1>4 DEF FrameInv

LEMMA FrameNextInv == ASSUME FrameInv, [FrameNext]_frameVars  PROVE FrameInv'
<1>1. ASSUME NEW t \in FrameTypes, NEW b \in Bodies, SendFrame([type |-> t, ints |-> b])
      PROVE  FrameInv'
  <2>1. [type |-> t, ints |-> b] \in Message
    BY DEF Message
  <2>2. QED  BY <1>1, <2>1, SendFrameStep
<1>2. ASSUME Return  PROVE FrameInv'
  <2>1. /\ receiving = "read" /\ end = 0 /\ cursor > Len(bytes) /\ receiving' = "returned"
        /\ UNCHANGED <<messages, bytes, lost, cursor, end, got>>
    BY <1>2 DEF Return
  <2>2. BetweenFrames' <=> BetweenFrames
    BY <2>1 DEF BetweenFrames
  <2>3. QED  BY <2>1, <2>2 DEF FrameInv
<1>3. CASE UNCHANGED frameVars
  <2>1. UNCHANGED <<messages, bytes, lost, cursor, end, got, receiving>>
    BY <1>3 DEF frameVars
  <2>2. BetweenFrames' <=> BetweenFrames
    BY <2>1 DEF BetweenFrames
  <2>3. \A k, j : InPayload(k, j)' <=> InPayload(k, j)
    BY <2>1 DEF InPayload
  <2>4. QED  BY <2>1, <2>2, <2>3 DEF FrameInv
<1>4. QED  BY <1>1, <1>2, <1>3, ArriveStep, ReadFrameStep, ReadIntStep, EndFrameStep, RaiseStep
           DEF FrameNext

LEMMA FrameInvariant == FrameSpec => []FrameInv
<1>1. FrameInit => FrameInv
  BY FrameInitInv
<1>2. FrameInv /\ [FrameNext]_frameVars => FrameInv'
  BY FrameNextInv
<1>3. QED  BY <1>1, <1>2, PTL DEF FrameSpec

\* A reader that returns has read all the frames that are there, whole, and what is
\* missing begins where a frame begins.
LEMMA ReturnedLemma ==
  ASSUME FrameInv, receiving = "returned"
  PROVE  /\ BetweenFrames /\ EndOf(messages, Len(got)) = Len(bytes)
         /\ bytes = Batch(got)
         /\ lost = 0 => got = messages
<1> DEFINE k == Len(got)
           e == EndOf(messages, k)
           w == Batch(messages)
<1>1. BetweenFrames /\ cursor > Len(bytes) /\ messages \in Seq(Message)
  BY DEF FrameInv
<1>2. k \in 0..Len(messages) /\ got = SubSeq(messages, 1, k) /\ cursor = e + 1 /\ e <= Len(bytes)
  BY <1>1 DEF BetweenFrames
<1>3. e \in Nat /\ SubSeq(w, 1, e) = Batch(SubSeq(messages, 1, k)) /\ (e >= Len(w) => k = Len(messages))
  BY <1>1, <1>2, BatchLemma
<1>4. /\ Len(bytes) \in Nat /\ bytes = SubSeq(w, 1, Len(bytes)) /\ (lost = 0 => Len(bytes) = Len(w))
      /\ Len(w) \in Nat
  BY BytesLemma
<1>5. e = Len(bytes)
  <2> DEFINE l == Len(bytes)
  <2>1. e \in Nat /\ l \in Nat /\ e <= l /\ e + 1 > l
    BY <1>1, <1>2, <1>3, <1>4
  <2> HIDE DEF e, l
  <2>2. e = l
    BY <2>1
  <2>3. QED  BY <2>2 DEF l
<1>6. bytes = Batch(got)
  BY <1>2, <1>3, <1>4, <1>5
<1>7. ASSUME lost = 0  PROVE got = messages
  <2>1. k = Len(messages)
    BY <1>3, <1>4, <1>5, <1>7
  <2>2. QED  BY <1>1, <1>2, <2>1, SubSeqFull
<1>8. QED  BY <1>1, <1>5, <1>6, <1>7

\* Whatever ints of 63 bits and a sign are sent in whatever frames, receive reads them
\* back from the bytes that arrive whole, and does not raise.
THEOREM IntsAlwaysSurvive == FrameSpec => []IntsSurvive
<1>1. FrameInv => IntsSurvive
  <2> SUFFICES ASSUME FrameInv, lost = 0
               PROVE  receiving # "raised" /\ (receiving = "returned" => got = messages)
    BY DEF IntsSurvive
  <2>1. receiving # "raised"
    BY DEF FrameInv
  <2>2. QED  BY <2>1, ReturnedLemma
<1>2. QED  BY <1>1, FrameInvariant, PTL

\* However much of the end of a batch is missing, what was read is what was sent in
\* that place, and receive returns only where the batch was cut between two frames.
THEOREM PrefixIsRead == FrameSpec => []PrefixRead
<1>1. ASSUME FrameInv  PROVE PrefixRead
  <2>1. messages \in Seq(Message)
    BY <1>1 DEF FrameInv
  <2>2. ASSUME NEW i \in 1..Len(got)
        PROVE  /\ i <= Len(messages) /\ got[i].type = messages[i].type
               /\ IsPrefix(got[i].ints, messages[i].ints)
               /\ i < Len(got) \/ receiving = "returned" => got[i] = messages[i]
    <3> DEFINE same == i \in 1..Len(messages) /\ got[i] = messages[i]
    <3>1. ASSUME same
          PROVE  /\ i <= Len(messages) /\ got[i].type = messages[i].type
                 /\ IsPrefix(got[i].ints, messages[i].ints) /\ got[i] = messages[i]
      <4>1. i \in 1..Len(messages) /\ got[i] = messages[i]
        BY <3>1
      <4>2. messages[i].ints \in Bodies
        <5>1. messages[i] \in Message
          BY <2>1, <4>1, ElementOfSeq
        <5>2. QED  BY <5>1 DEF Message
      <4>3. Len(messages[i].ints) \in Nat
        BY <4>2, IntsLemma
      <4>4. QED  BY <4>1, <4>3 DEF IsPrefix
    <3>2. CASE end = 0
      <4>1. Len(got) \in 0..Len(messages) /\ got = SubSeq(messages, 1, Len(got))
        BY <1>1, <3>2 DEF FrameInv, BetweenFrames
      <4>2. \A x \in 1..Len(got) : SubSeq(messages, 1, Len(got))[x] = messages[x]
        BY <2>1, <4>1, CutLemma
      <4>3. i \in 1..Len(messages)
        BY <4>1, BytesLemma, <1>1
      <4>4. same
        BY <4>1, <4>2, <4>3
      <4> HIDE DEF same
      <4>5. QED  BY <3>1, <4>4
    <3>3. CASE end # 0
      <4>1. PICK k \in 1..Len(messages) : \E j \in 0..Len(messages[k].ints) : InPayload(k, j)
        BY <1>1, <3>3 DEF FrameInv
      <4>2. PICK j \in 0..Len(messages[k].ints) : InPayload(k, j)
        BY <4>1
      <4> DEFINE ints == messages[k].ints
                 s == SubSeq(messages, 1, k - 1)
                 Z == -Half..Half - 1
                 Row == [type : FrameTypes, ints : Seq(Z)]
                 x == [type |-> messages[k].type, ints |-> SubSeq(ints, 1, j)]
      <4>3. ints \in Bodies /\ Len(ints) \in Nat /\ messages[k] \in Message
        BY <1>1, <4>2, PayloadLemma
      <4>4. ints \in Seq(Z) /\ SubSeq(ints, 1, j) \in Seq(Z) /\ Len(SubSeq(ints, 1, j)) = j
        BY <4>3, IntsLemma, CutLemma
      <4>5. x \in Row
        BY <4>3, <4>4 DEF Message
      <4>6. s \in Seq(Row) /\ Len(s) = k - 1 /\ \A y \in 1..k - 1 : s[y] = messages[y]
        <5>1. k - 1 \in 0..Len(messages)
          BY <2>1, PlaceLemma
        <5>2. /\ s \in Seq(Message) /\ Len(s) = k - 1
              /\ \A y \in 1..k - 1 : s[y] = messages[y]
          BY <2>1, <5>1, CutLemma
        <5>3. Message \subseteq Row
          <6>1. Bodies \subseteq Seq(Z)
            BY IntsLemma
          <6>2. QED  BY <6>1 DEF Message
        <5>4. QED  BY <5>2, <5>3, SeqMonotonic
      <4>7. got = Append(s, x)
        BY <4>2 DEF InPayload
      <4> HIDE DEF Row, s
      <4>8. Len(got) = k /\ got[k] = x /\ \A y \in 1..k - 1 : got[y] = messages[y]
        <5> HIDE DEF x
        <5>1. /\ Len(got) = Len(s) + 1 /\ got[Len(s) + 1] = x
              /\ \A y \in 1..Len(s) : got[y] = s[y]
          BY <4>5, <4>6, <4>7, AppendProperties
        <5>2. QED  BY <4>6, <5>1
      <4>9. receiving # "returned"
        BY <1>1, <3>3 DEF FrameInv
      <4>10. CASE i = k
        <5>1. IsPrefix(SubSeq(ints, 1, j), ints)
          <6>1. j <= Len(ints) /\ SubSeq(SubSeq(ints, 1, j), 1, j) = SubSeq(ints, 1, j)
            BY <4>3, <4>4, SubSeqFull
          <6>2. QED  BY <4>4, <6>1 DEF IsPrefix
        <5>2. i <= Len(messages) /\ ~(i < Len(got))
          BY <1>1, <4>8, <4>10, BytesLemma
        <5>3. got[i].type = messages[i].type /\ got[i].ints = SubSeq(ints, 1, j)
          BY <4>8, <4>10
        <5>4. IsPrefix(got[i].ints, messages[i].ints)
          BY <4>10, <5>1, <5>3
        <5>5. QED  BY <4>9, <5>2, <5>3, <5>4
      <4>11. CASE i # k
        <5>1. i \in 1..k - 1 /\ i \in 1..Len(messages)
          BY <1>1, <4>8, <4>11, BytesLemma
        <5>2. same
          BY <4>8, <5>1
        <5> HIDE DEF same
        <5>3. QED  BY <3>1, <5>2
      <4>12. QED  BY <4>10, <4>11
    <3>4. QED  BY <3>2, <3>3
  <2>3. ASSUME receiving = "returned"
        PROVE  bytes = FlattenSeq([i \in 1..Len(got) |-> MakeFrame(got[i])])
    <3>1. BetweenFrames /\ bytes = Batch(got)
      BY <1>1, <2>3, ReturnedLemma
    <3>2. DOMAIN got = 1..Len(got)
      <4>1. got \in Seq(Message)
        BY <2>1, <3>1, CutLemma DEF BetweenFrames
      <4>2. QED  BY <4>1, LenProperties
    <3>3. QED  BY <3>1, <3>2 DEF Batch, Framed
  <2>4. QED  BY <2>2, <2>3 DEF PrefixRead
<1>2. QED  BY <1>1, FrameInvariant, PTL
-----------------------------------------------------------------------------
(***************************************************************************)
(* LegacyChunks.                                                           *)
(***************************************************************************)
\* What is a function from the numbers up to n is a sequence.
LEMMA SequenceLemma ==
  ASSUME NEW A, NEW n \in Nat, NEW s, s \in [1..n -> A]
  PROVE  s \in Seq(A) /\ Len(s) = n /\ DOMAIN s = 1..n
<1>1. s \in Seq(A)
  BY SeqDef
<1>2. Len(s) \in Nat /\ DOMAIN s = 1..Len(s) /\ DOMAIN s = 1..n
  BY <1>1, LenProperties
<1>3. Len(s) = n
  <2> DEFINE l == Len(s)
  <2>1. l \in Nat /\ 1..l = 1..n
    BY <1>2
  <2> HIDE DEF l
  <2>2. l \in 1..n \/ l = 0
    BY <2>1
  <2>3. n \in 1..l \/ n = 0
    BY <2>1
  <2>4. QED  BY <2>1, <2>2, <2>3 DEF l
<1>4. QED  BY <1>1, <1>2, <1>3

\* A sequence that is cut into pieces of n, the last one of what is left, is what the
\* pieces make when they are put together.
LEMMA PiecesLemma ==
  ASSUME NEW A, NEW w \in Seq(A), NEW s \in Seq(Seq(A)), NEW n \in Nat \ {0},
         \A k \in 1..Len(s) : /\ (k - 1) * n <= Len(w)
                              /\ s[k] = SubSeq(w, (k - 1) * n + 1, Min({k * n, Len(w)}))
  PROVE  \A k \in 0..Len(s) : /\ FlattenSeq(SubSeq(s, 1, k)) = SubSeq(w, 1, Min({k * n, Len(w)}))
                              /\ Offset(s, k) = Min({k * n, Len(w)})
<1> DEFINE l == Len(w)
           m == Len(s)
           To(k) == Min({k * n, l})
<1>1. l \in Nat /\ m \in Nat /\ n \in Nat /\ n >= 1
  BY LenProperties
<1>2. ASSUME NEW k \in Nat
      PROVE  /\ To(k) \in 0..l /\ k * n \in Nat
             /\ (k * n <= l => To(k) = k * n) /\ (k * n >= l => To(k) = l)
  <2>1. k * n \in Nat
    BY <1>1
  <2>2. {k * n, l} \in SUBSET Nat
    BY <1>1, <2>1
  <2>3. To(k) \in {k * n, l} /\ To(k) <= k * n /\ To(k) <= l
    BY <2>2, FirstName
  <2> HIDE DEF To, l
  <2>4. QED  BY <1>1, <2>1, <2>3
<1>3. ASSUME NEW k \in Nat
      PROVE  (k + 1) * n = k * n + n
  BY <1>1
<1> DEFINE P == {k \in Nat : k <= m => FlattenSeq(SubSeq(s, 1, k)) = SubSeq(w, 1, To(k))}
<1>4. 0 \in P
  <2>1. To(0) = 0
    <3>1. 0 * n = 0 /\ 0 \in Nat
      BY <1>1
    <3>2. To(0) = 0 * n
      <4> HIDE DEF To
      <4>1. QED  BY <1>1, <1>2, <3>1
    <3>3. QED  BY <3>1, <3>2
  <2>2. SubSeq(w, 1, 0) = <<>> /\ SubSeq(s, 1, 0) = <<>>
    BY SubSeqEmpty
  <2>3. FlattenSeq(<<>>) = <<>>
    <3>1. <<>> \in Seq(Seq(A)) /\ Len(<<>>) = 0
      OBVIOUS
    <3>2. FlattenSeq(<<>>) \in Seq(A) /\ Len(FlattenSeq(<<>>)) = Offset(<<>>, 0) /\ Offset(<<>>, 0) = 0
      BY <3>1, FlattenLemma
    <3>3. QED  BY <3>2, EmptySeq
  <2> HIDE DEF To
  <2>4. QED  BY <2>1, <2>2, <2>3
<1>5. ASSUME NEW k \in Nat, k \in P  PROVE k + 1 \in P
  <2>1. SUFFICES ASSUME k + 1 <= m
                 PROVE  FlattenSeq(SubSeq(s, 1, k + 1)) = SubSeq(w, 1, To(k + 1))
    <3> HIDE DEF To
    <3>1. QED  OBVIOUS
  <2>2. k + 1 \in 1..m /\ k \in 0..m /\ (k + 1) - 1 = k
    BY <1>1, <2>1
  <2>3. k * n <= l /\ s[k + 1] = SubSeq(w, k * n + 1, To(k + 1))
    BY <2>2
  <2>4. To(k) = k * n /\ k * n \in 0..l /\ To(k + 1) \in k * n..l
    <3>1. /\ To(k) = k * n /\ k * n \in Nat /\ To(k + 1) \in 0..l /\ (k + 1) * n \in Nat
          /\ ((k + 1) * n <= l => To(k + 1) = (k + 1) * n)
          /\ ((k + 1) * n >= l => To(k + 1) = l)
      <4>1. k + 1 \in Nat
        OBVIOUS
      <4> HIDE DEF To, l
      <4>2. QED  BY <1>2, <2>3, <4>1
    <3>2. (k + 1) * n >= k * n
      BY <1>1, <1>3, <3>1
    <3> DEFINE a == k * n
               b == (k + 1) * n
               t == To(k + 1)
    <3>3. a \in Nat /\ b \in Nat /\ b >= a /\ a <= l /\ t \in 0..l /\ (b <= l => t = b) /\ (b >= l => t = l)
      BY <2>3, <3>1, <3>2
    <3> HIDE DEF a, b, t, l
    <3>4. a \in 0..l /\ t \in a..l
      BY <1>1, <3>3
    <3>5. QED  BY <3>1, <3>4 DEF a, t
  <2>5. SubSeq(s, 1, k + 1) = Append(SubSeq(s, 1, k), s[k + 1])
    BY <2>2, FirstMessages
  <2>6. SubSeq(s, 1, k) \in Seq(Seq(A)) /\ s[k + 1] \in Seq(A)
    BY <2>2, CutLemma, ElementOfSeq
  <2>7. FlattenSeq(SubSeq(s, 1, k + 1)) = SubSeq(w, 1, To(k)) \o s[k + 1]
    <3>1. k <= m
      BY <2>2
    <3> HIDE DEF To
    <3>2. QED  BY <1>5, <2>5, <2>6, <3>1, FlattenAppend
  <2>8. SubSeq(w, 1, k * n) \o SubSeq(w, k * n + 1, To(k + 1)) = SubSeq(w, 1, To(k + 1))
    <3> DEFINE a == k * n
               t == To(k + 1)
    <3>1. a \in 0..l /\ t \in a..l
      BY <2>4
    <3> HIDE DEF a, t
    <3>2. 1 \in 1..Len(w) + 1 /\ a \in 1 - 1..Len(w) /\ t \in a..Len(w)
      BY <1>1, <3>1
    <3>3. SubSeq(w, 1, a) \o SubSeq(w, a + 1, t) = SubSeq(w, 1, t)
      BY <3>2, ConcatAdjacentSubSeq
    <3>4. QED  BY <3>3 DEF a, t
  <2> HIDE DEF To
  <2>9. QED  BY <2>3, <2>4, <2>7, <2>8
<1> HIDE DEF P
<1>6. \A k \in Nat : k \in P
  BY <1>4, <1>5, NumberInduction
<1>7. ASSUME NEW k \in 0..m  PROVE FlattenSeq(SubSeq(s, 1, k)) = SubSeq(w, 1, To(k)) /\ Offset(s, k) = To(k)
  <2>1. k \in Nat /\ k <= m
    BY <1>1
  <2>2. FlattenSeq(SubSeq(s, 1, k)) = SubSeq(w, 1, To(k))
    <3> HIDE DEF To
    <3>1. QED  BY <1>6, <2>1 DEF P
  <2>3. To(k) \in 0..Len(w)
    BY <1>2, <2>1
  <2> HIDE DEF To
  <2>4. QED  BY <2>2, <2>3, CutLemma DEF Offset
<1>8. QED  BY <1>7

\* The number of chunks, and what each of them holds.
LEMMA TotalLemma ==
  ASSUME NEW l \in Nat \ {0}, NEW n \in Nat \ {0}
  PROVE  LET m == (l + n - 1) \div n
         IN  m \in Nat \ {0} /\ (m - 1) * n < l /\ l <= m * n
<1> DEFINE m == (l + n - 1) \div n
           r == (l + n - 1) % n
<1>1. m \in Nat /\ r \in 0..n - 1 /\ l + n - 1 = n * m + r
  OBVIOUS
<1> HIDE DEF m, r
<1>2. m # 0
  <2>1. SUFFICES ASSUME m = 0  PROVE FALSE
    OBVIOUS
  <2>2. n * m = 0
    BY <1>1, <2>1
  <2>3. QED  BY <1>1, <2>2
<1>3. m * n = n * m /\ (m - 1) * n = n * m - n
  BY <1>1
<1> DEFINE p == n * m
<1>4. p \in Nat
  BY <1>1
<1> HIDE DEF p
<1>5. l + n - 1 = p + r /\ m * n = p /\ (m - 1) * n = p - n
  BY <1>1, <1>3 DEF p
<1>6. p - n < l /\ l <= p
  BY <1>1, <1>4, <1>5
<1>7. QED  BY <1>1, <1>2, <1>5, <1>6 DEF m

LEMMA SumLemma ==
  ASSUME NEW a \in Nat, NEW b \in Nat, NEW n \in Nat
  PROVE  a * n <= (a + b) * n
<1>1. (a + b) * n = a * n + b * n /\ b * n \in Nat /\ a * n \in Nat
  OBVIOUS
<1>2. QED  BY <1>1

Count(p, n) == IF p = <<>> THEN 1 ELSE Total(p, n)

LEMMA ChunksLemma ==
  ASSUME NEW p \in Payloads, NEW n \in ChunkSizes
  PROVE  /\ p \in Seq(0..255) /\ n \in Nat \ {0} /\ Count(p, n) \in Nat \ {0}
         /\ \A f \in Chunks(p, n) :
              /\ f.id = p /\ f.total = Count(p, n) /\ f.seq \in 0..Count(p, n) - 1
              /\ f.data \in Seq(0..255)
         /\ \A f, g \in Chunks(p, n) : f.seq = g.seq => f = g
         /\ \A i \in 0..Count(p, n) - 1 : \E f \in Chunks(p, n) : f.seq = i
<1>1. p \in Seq(0..255) /\ n \in Nat \ {0}
  BY ChunkAssumption
<1>2. CASE p = <<>>
  <2>1. Chunks(p, n) = {[id |-> p, seq |-> 0, total |-> 1, data |-> <<>>]} /\ Count(p, n) = 1
    BY <1>2 DEF Count, Chunks
  <2>2. <<>> \in Seq(0..255)
    OBVIOUS
  <2>3. QED  BY <1>1, <2>1, <2>2
<1>3. CASE p # <<>>
  <2>1. Count(p, n) = Total(p, n) /\ Len(p) \in Nat \ {0}
    BY <1>1, <1>3, LenProperties, EmptySeq DEF Count
  <2>2. Count(p, n) \in Nat \ {0}
    BY <1>1, <2>1, TotalLemma DEF Total
  <2> DEFINE Data(i) == SubSeq(p, i * n + 1, Min({(i + 1) * n, Len(p)}))
             Piece(i) == [id |-> p, seq |-> i, total |-> Total(p, n), data |-> Data(i)]
  <2>3. Chunks(p, n) = {Piece(i) : i \in 0..Count(p, n) - 1}
    BY <1>3, <2>1 DEF Chunks
  <2>4. \A i : /\ Piece(i).id = p /\ Piece(i).seq = i /\ Piece(i).total = Count(p, n)
               /\ Piece(i).data = Data(i)
    <3> HIDE DEF Data
    <3>1. QED  BY <2>1
  <2>5. ASSUME NEW i \in 0..Count(p, n) - 1  PROVE Data(i) \in Seq(0..255)
    <3>1. i \in Nat /\ i + 1 \in Nat
      BY <2>2
    <3>2. i * n \in Nat /\ (i + 1) * n \in Nat
      BY <1>1, <3>1
    <3>3. {(i + 1) * n, Len(p)} \in SUBSET Nat
      BY <2>1, <3>2
    <3> DEFINE t == Min({(i + 1) * n, Len(p)})
               a == i * n
    <3>4. t \in Nat /\ t <= Len(p)
      BY <3>3, FirstName
    <3> HIDE DEF t
    <3>5. \A j \in a + 1..t : p[j] \in 0..255
      <4>1. \A j \in a + 1..t : j \in 1..Len(p)
        <5> HIDE DEF a
        <5>1. QED  BY <2>1, <3>2, <3>4 DEF a
      <4>2. QED  BY <1>1, <4>1, ElementOfSeq
    <3>6. a + 1 \in Int /\ t \in Int
      BY <3>2, <3>4
    <3> HIDE DEF a
    <3>7. SubSeq(p, a + 1, t) \in Seq(0..255)
      BY <3>5, <3>6, SubSeqProperties
    <3>8. QED  BY <3>7 DEF a, t
  <2> HIDE DEF Piece, Data
  <2> DEFINE m == Count(p, n)
             C == Chunks(p, n)
  <2> HIDE DEF m, C
  <2>6. C = {Piece(i) : i \in 0..m - 1} /\ m \in Nat \ {0} /\ \A i \in 0..m - 1 : Data(i) \in Seq(0..255)
    BY <2>2, <2>3, <2>5 DEF m, C
  <2>7. \A i : /\ Piece(i).id = p /\ Piece(i).seq = i /\ Piece(i).total = m
               /\ Piece(i).data = Data(i)
    BY <2>4 DEF m
  <2>8. \A f \in C : /\ f.id = p /\ f.total = m /\ f.seq \in 0..m - 1
                     /\ f.data \in Seq(0..255) /\ f = Piece(f.seq)
    BY <2>6, <2>7
  <2>9. \A i \in 0..m - 1 : \E f \in C : f.seq = i
    BY <2>6, <2>7
  <2>10. \A f, g \in C : f.seq = g.seq => f = g
    BY <2>8
  <2>11. QED  BY <1>1, <2>6, <2>8, <2>9, <2>10 DEF m, C
<1>4. QED  BY <1>2, <1>3

\* The chunks of a payload, in the order of their numbers, are the payload.
LEMMA WholeLemma ==
  ASSUME NEW p \in Payloads, NEW n \in ChunkSizes, NEW s \in Seq(Seq(0..255)),
         Len(s) = Count(p, n),
         \A i \in 1..Len(s) : \E f \in Chunks(p, n) : f.seq = i - 1 /\ s[i] = f.data
  PROVE  FlattenSeq(s) = p
<1> DEFINE m == Len(s)
           l == Len(p)
<1>1. p \in Seq(0..255) /\ n \in Nat \ {0} /\ n \in Nat /\ m \in Nat \ {0} /\ l \in Nat
  BY ChunksLemma, LenProperties
<1>2. CASE p = <<>>
  <2>1. m = 1
    BY <1>2 DEF Count
  <2>2. s[1] = <<>>
    <3>1. 1 \in 1..m
      BY <2>1
    <3>2. PICK f \in Chunks(p, n) : s[1] = f.data
      BY <3>1
    <3>3. QED  BY <1>2, <3>2 DEF Chunks
  <2>3. Len(FlattenSeq(s)) = 0 /\ FlattenSeq(s) \in Seq(0..255)
    <3>1. 1 \in 1..m /\ 1 - 1 = 0 /\ Len(<<>>) = 0
      BY <2>1
    <3>2. /\ Offset(s, 1) = Offset(s, 1 - 1) + Len(s[1]) /\ Offset(s, 0) = 0
          /\ Offset(s, m) = Len(FlattenSeq(s)) /\ FlattenSeq(s) \in Seq(0..255)
      BY <3>1, FlattenLemma
    <3> HIDE DEF m
    <3>3. QED  BY <2>1, <2>2, <3>1, <3>2
  <2>4. FlattenSeq(s) = <<>>
    BY <2>3, EmptySeq
  <2>5. QED  BY <1>2, <2>4
<1>3. CASE p # <<>>
  <2>1. m = (l + n - 1) \div n /\ l \in Nat \ {0}
    BY <1>1, <1>3, EmptySeq DEF Count, Total
  <2>2. (m - 1) * n < l /\ l <= m * n
    BY <1>1, <2>1, TotalLemma
  <2>3. ASSUME NEW i \in 1..m
        PROVE  (i - 1) * n <= l /\ s[i] = SubSeq(p, (i - 1) * n + 1, Min({i * n, l}))
    <3>1. s[i] = SubSeq(p, (i - 1) * n + 1, Min({i * n, l}))
      <4>1. PICK f \in Chunks(p, n) : f.seq = i - 1 /\ s[i] = f.data
        BY <2>3
      <4>2. PICK j \in 0..Total(p, n) - 1 :
              f = [id |-> p, seq |-> j, total |-> Total(p, n),
                   data |-> SubSeq(p, j * n + 1, Min({(j + 1) * n, Len(p)}))]
        BY <1>3 DEF Chunks
      <4>3. j = i - 1 /\ s[i] = SubSeq(p, j * n + 1, Min({(j + 1) * n, Len(p)}))
        BY <4>1, <4>2
      <4>4. i \in Nat /\ (i - 1) + 1 = i
        BY <1>1
      <4>5. QED  BY <4>3, <4>4
    <3>2. (i - 1) * n <= (m - 1) * n
      <4>1. m - 1 = (i - 1) + (m - i) /\ m - i \in Nat /\ i - 1 \in Nat
        BY <1>1
      <4>2. QED  BY <1>1, <4>1, SumLemma
    <3> DEFINE x == (i - 1) * n
               y == (m - 1) * n
    <3>3. x \in Int /\ y \in Int /\ x <= y /\ y < l
      BY <1>1, <2>2, <3>2
    <3> HIDE DEF x, y, l
    <3>4. x <= l
      BY <1>1, <3>3
    <3>5. QED  BY <3>1, <3>4 DEF x, l
  <2>4. \A k \in 1..Len(s) : /\ (k - 1) * n <= Len(p)
                             /\ s[k] = SubSeq(p, (k - 1) * n + 1, Min({k * n, Len(p)}))
    BY <2>3
  <2>5. Len(s) \in 0..Len(s)
    BY <1>1
  <2>6. FlattenSeq(SubSeq(s, 1, Len(s))) = SubSeq(p, 1, Min({Len(s) * n, Len(p)}))
    <3>1. \A k \in 0..Len(s) :
            /\ FlattenSeq(SubSeq(s, 1, k)) = SubSeq(p, 1, Min({k * n, Len(p)}))
            /\ Offset(s, k) = Min({k * n, Len(p)})
      BY <1>1, <2>4, PiecesLemma
    <3>2. QED  BY <2>5, <3>1
  <2>7. Min({Len(s) * n, Len(p)}) = Len(p)
    <3> DEFINE u == Len(s) * n
    <3>1. u \in Nat /\ l <= u
      BY <1>1, <2>2
    <3> HIDE DEF u
    <3>2. {u, Len(p)} \in SUBSET Nat
      BY <1>1, <3>1
    <3> DEFINE t == Min({u, Len(p)})
    <3>3. t \in {u, l} /\ t <= l /\ t <= u
      BY <3>2, FirstName
    <3> HIDE DEF t, l
    <3>4. t = l
      BY <1>1, <3>1, <3>3
    <3>5. QED  BY <3>4 DEF t, u, l
  <2>8. QED  BY <1>1, <2>6, <2>7, SubSeqFull
<1>4. QED  BY <1>2, <1>3

\* Frames of one transfer that are accepted are all of its frames.
LEMMA AcceptedLemma ==
  ASSUME NEW p \in Payloads, NEW n \in ChunkSizes, NEW fs \in Seq(Chunks(p, n)),
         fs # <<>>, Accepts(fs)
  PROVE  ReassembleChunks(fs) = [ok |-> TRUE, data |-> p]
<1> DEFINE m == Count(p, n)
           Of(i) == CHOOSE f \in ToSet(fs) : f.seq = i - 1
           s == [i \in 1..fs[1].total |-> Of(i).data]
           g == [i \in 1..m |-> fs[i].seq]
<1>1. /\ m \in Nat \ {0} /\ Len(fs) \in Nat /\ Len(fs) # 0 /\ DOMAIN fs = 1..Len(fs)
      /\ \A i \in 1..Len(fs) : fs[i] \in Chunks(p, n)
  BY ChunksLemma, LenProperties, EmptySeq, ElementOfSeq
<1>2. fs[1].total = m /\ Len(fs) = m
  BY <1>1, ChunksLemma DEF Accepts
<1>3. \A i \in 1..m : fs[i].seq \in 0..m - 1
  BY <1>1, <1>2, ChunksLemma
<1>4. \A i, j \in 1..m : fs[i].seq = fs[j].seq => i = j
  BY <1>1, <1>2 DEF Accepts
<1> HIDE DEF m
<1>5. g \in Injection(1..m, 0..m - 1)
  BY <1>3, <1>4 DEF Injection, IsInjective
<1>6. g \in Surjection(1..m, 0..m - 1)
  <2>1. /\ IsFiniteSet(0..m - 1) /\ Cardinality(0..m - 1) = m
        /\ Cardinality(1..m) = m
    <3>1. 0 \in Int /\ 1 \in Int /\ m - 1 \in Int /\ m \in Int /\ ~(0 > m - 1) /\ ~(1 > m)
      BY <1>1
    <3>2. /\ IsFiniteSet(0..m - 1) /\ Cardinality(0..m - 1) = m - 1 - 0 + 1
          /\ Cardinality(1..m) = m - 1 + 1
      BY <3>1, FS_Interval
    <3>3. QED  BY <1>1, <3>2
  <2> HIDE DEF g
  <2>2. QED  BY <1>5, <2>1, FS_Injection
<1>7. \A i \in 1..m : \E f \in ToSet(fs) : f.seq = i - 1
  <2>1. TAKE i \in 1..m
  <2>2. i - 1 \in 0..m - 1
    BY <1>1
  <2>3. PICK j \in 1..m : fs[j].seq = i - 1
    BY <1>6, <2>2 DEF Surjection
  <2>4. fs[j] \in ToSet(fs)
    BY <1>1, <1>2 DEF ToSet
  <2>5. QED  BY <2>3, <2>4
<1>8. \A i \in 1..m : Of(i) \in Chunks(p, n) /\ Of(i).seq = i - 1
  <2>1. \A i \in 1..m : Of(i) \in ToSet(fs) /\ Of(i).seq = i - 1
    BY <1>7
  <2>2. ToSet(fs) \subseteq Chunks(p, n)
    BY <1>1 DEF ToSet
  <2> HIDE DEF Of
  <2>3. QED  BY <2>1, <2>2
<1>9. FlattenSeq(s) = p
  <2>1. \A i \in 1..m : Of(i).data \in Seq(0..255)
    BY <1>8, ChunksLemma
  <2> HIDE DEF Of
  <2>2. s \in [1..m -> Seq(0..255)] /\ m \in Nat /\ \A i \in 1..m : s[i] = Of(i).data
    BY <1>1, <1>2, <2>1
  <2> HIDE DEF s
  <2>3. s \in Seq(Seq(0..255)) /\ Len(s) = m
    BY <2>2, SequenceLemma
  <2>4. \A i \in 1..Len(s) : \E f \in Chunks(p, n) : f.seq = i - 1 /\ s[i] = f.data
    BY <1>8, <2>2, <2>3
  <2>5. QED  BY <2>3, <2>4, WholeLemma DEF m
<1>10. QED  BY <1>9 DEF ReassembleChunks

\* All the frames of a transfer, each of them once, are accepted.
LEMMA CompleteLemma ==
  ASSUME NEW p \in Payloads, NEW n \in ChunkSizes, NEW fs \in Seq(Chunks(p, n)),
         ToSet(fs) = Chunks(p, n), Len(fs) = Cardinality(Chunks(p, n))
  PROVE  fs # <<>> /\ Accepts(fs)
<1> DEFINE m == Count(p, n)
           C == Chunks(p, n)
           g == [f \in C |-> f.seq]
           l == Len(fs)
<1>1. /\ m \in Nat \ {0} /\ l \in Nat /\ DOMAIN fs = 1..l
      /\ \A i \in 1..l : fs[i] \in C
  BY ChunksLemma, LenProperties, ElementOfSeq
<1>2. /\ \A f \in C : f.id = p /\ f.total = m /\ f.seq \in 0..m - 1
      /\ \A f, h \in C : f.seq = h.seq => f = h
      /\ \A i \in 0..m - 1 : \E f \in C : f.seq = i
  BY ChunksLemma
<1>3. ToSet(fs) = C /\ l = Cardinality(C)
  OBVIOUS
<1> HIDE DEF m, C, l
<1>4. fs \in Surjection(1..l, C)
  <2>1. fs \in [1..l -> C]
    BY <1>1, LenProperties DEF C, l
  <2>2. \A f \in C : \E i \in 1..l : fs[i] = f
    BY <1>1, <1>3 DEF ToSet
  <2>3. QED  BY <2>1, <2>2 DEF Surjection
<1>5. IsFiniteSet(1..l) /\ Cardinality(1..l) = l
  <2>1. 1 \in Int /\ l \in Int /\ (IF 1 > l THEN 0 ELSE l - 1 + 1) = l
    BY <1>1
  <2>2. IsFiniteSet(1..l) /\ Cardinality(1..l) = IF 1 > l THEN 0 ELSE l - 1 + 1
    BY <2>1, FS_Interval
  <2>3. QED  BY <2>1, <2>2
<1>6. IsFiniteSet(C) /\ fs \in Injection(1..l, C)
  BY <1>3, <1>4, <1>5, FS_Surjection, FS_SurjSameCardinalityImpliesInj
<1>7. \A i, j \in 1..l : fs[i] = fs[j] => i = j
  BY <1>6 DEF Injection, IsInjective
<1>8. g \in Bijection(C, 0..m - 1)
  BY <1>2 DEF Bijection, Injection, Surjection, IsInjective
<1>9. l = m
  <2>1. Cardinality(0..m - 1) = Cardinality(C)
    <3>1. ExistsBijection(C, 0..m - 1)
      BY <1>8 DEF ExistsBijection
    <3>2. QED  BY <1>6, <3>1, FS_Bijection
  <2>2. Cardinality(0..m - 1) = m
    BY <1>1, FS_Interval
  <2>3. QED  BY <1>3, <2>1, <2>2
<1>10. 1 \in 1..l /\ fs # <<>>
  <2>1. 1 \in 1..l /\ l # 0
    BY <1>1, <1>9
  <2>2. QED  BY <2>1 DEF l
<1>11. QED  BY <1>1, <1>2, <1>7, <1>9, <1>10 DEF Accepts, l

-----------------------------------------------------------------------------
\* The frames are of transfers that were made, and what was put together is put
\* together from the frames that arrived.
Sent == UNION {Chunks(t.payload, t.size) : t \in transfers}

ChunkInv ==
  /\ transfers \subseteq [payload : Payloads, size : ChunkSizes]
  /\ arrived \in Seq(Sent)
  /\ result # <<>> => result = ReassembleChunks(arrived)

LEMMA ChunkInvInit == ChunkInit => ChunkInv
  BY DEF ChunkInit, ChunkInv

LEMMA ChunkInvNext == ASSUME ChunkInv, [ChunkNext]_chunkVars  PROVE ChunkInv'
<1>1. CASE FrameArrives
  <2>1. PICK t \in transfers : \E f \in Chunks(t.payload, t.size) : arrived' = Append(arrived, f)
    BY <1>1 DEF FrameArrives
  <2>2. PICK f \in Sent : arrived' = Append(arrived, f)
    BY <2>1 DEF Sent
  <2>3. arrived' \in Seq(Sent)
    BY <2>2, AppendProperties DEF ChunkInv
  <2>4. result' = <<>> /\ transfers' = transfers /\ Sent' = Sent
    BY <1>1 DEF FrameArrives, Sent
  <2>5. QED  BY <2>3, <2>4 DEF ChunkInv
<1>2. CASE Reassemble
  BY <1>2 DEF Reassemble, ChunkInv, Sent
<1>3. ASSUME NEW p \in Payloads, NEW n \in ChunkSizes, ChunkPayload(p, n)  PROVE ChunkInv'
  <2>1. transfers' \subseteq [payload : Payloads, size : ChunkSizes] /\ transfers \subseteq transfers'
    BY <1>3 DEF ChunkPayload, ChunkInv
  <2>2. Sent \subseteq Sent'
    BY <2>1 DEF Sent
  <2>3. Seq(Sent) \subseteq Seq(Sent')
    BY <2>2, SeqMonotonic
  <2>4. arrived' = arrived /\ result' = result
    BY <1>3 DEF ChunkPayload
  <2>5. QED  BY <2>1, <2>3, <2>4 DEF ChunkInv
<1>4. CASE UNCHANGED chunkVars
  BY <1>4 DEF chunkVars, ChunkInv, Sent
<1>5. QED  BY <1>1, <1>2, <1>3, <1>4 DEF ChunkNext

\* OneSize is what tells the frames of two transfers of one payload apart: there are
\* none.
THEOREM ChunksComeTogether ==
  ASSUME OneSize
  PROVE  ChunkSpec => []Reassembled
<1>1. ASSUME ChunkInv  PROVE Reassembled
  <2>1. SUFFICES ASSUME result = ReassembleChunks(arrived)
                 PROVE  /\ result.ok /\ arrived # <<>> => \E t \in transfers : t.payload = result.data
                        /\ \A t \in transfers :
                             /\ ToSet(arrived) = Chunks(t.payload, t.size)
                             /\ Len(arrived) = Cardinality(Chunks(t.payload, t.size))
                             => result = [ok |-> TRUE, data |-> t.payload]
    BY <1>1 DEF ChunkInv, Reassembled
  <2>2. /\ \A t \in transfers : t.payload \in Payloads /\ t.size \in ChunkSizes
        /\ Len(arrived) \in Nat /\ DOMAIN arrived = 1..Len(arrived)
        /\ \A i \in 1..Len(arrived) : \E t \in transfers : arrived[i] \in Chunks(t.payload, t.size)
    <3>1. arrived \in Seq(Sent)
      BY <1>1 DEF ChunkInv
    <3>2. \A i \in 1..Len(arrived) : arrived[i] \in Sent
      BY <3>1, ElementOfSeq
    <3>3. QED  BY <1>1, <3>1, <3>2, LenProperties DEF ChunkInv, Sent
  <2>3. ASSUME NEW C, \A i \in 1..Len(arrived) : arrived[i] \in C  PROVE arrived \in Seq(C)
    <3>1. arrived \in [1..Len(arrived) -> C]
      <4>1. arrived \in [1..Len(arrived) -> Sent]
        BY <1>1, LenProperties DEF ChunkInv
      <4>2. QED  BY <2>3, <4>1
    <3>2. QED  BY <2>2, <3>1, SeqDef
  <2>4. ASSUME result.ok, arrived # <<>>  PROVE \E t \in transfers : t.payload = result.data
    <3>1. Accepts(arrived)
      BY <2>1, <2>4 DEF ReassembleChunks
    <3>2. 1 \in 1..Len(arrived)
      <4>1. arrived \in Seq(Sent)
        BY <1>1 DEF ChunkInv
      <4>2. Len(arrived) # 0
        BY <2>4, <4>1, EmptySeq
      <4>3. QED  BY <2>2, <4>2
    <3>3. PICK t \in transfers : arrived[1] \in Chunks(t.payload, t.size)
      BY <2>2, <3>2
    <3>4. ASSUME NEW i \in 1..Len(arrived)  PROVE arrived[i] \in Chunks(t.payload, t.size)
      <4>1. PICK u \in transfers : arrived[i] \in Chunks(u.payload, u.size)
        BY <2>2
      <4>2. arrived[i].id = u.payload /\ arrived[1].id = t.payload
        BY <2>2, <3>3, <4>1, ChunksLemma
      <4>3. arrived[i].id = arrived[1].id
        BY <2>2, <3>1 DEF Accepts
      <4>4. u.size = t.size
        BY <2>2 DEF OneSize
      <4>5. QED  BY <4>1, <4>2, <4>3, <4>4
    <3>5. arrived \in Seq(Chunks(t.payload, t.size))
      BY <2>3, <3>4
    <3>6. result = [ok |-> TRUE, data |-> t.payload]
      BY <2>1, <2>2, <2>4, <3>1, <3>5, AcceptedLemma
    <3>7. QED  BY <3>6
  <2>5. ASSUME NEW t \in transfers, ToSet(arrived) = Chunks(t.payload, t.size),
               Len(arrived) = Cardinality(Chunks(t.payload, t.size))
        PROVE  result = [ok |-> TRUE, data |-> t.payload]
    <3>1. \A i \in 1..Len(arrived) : arrived[i] \in ToSet(arrived)
      BY <2>2 DEF ToSet
    <3>2. arrived \in Seq(Chunks(t.payload, t.size))
      BY <2>3, <2>5, <3>1
    <3>3. arrived # <<>> /\ Accepts(arrived)
      BY <2>2, <2>5, <3>2, CompleteLemma
    <3>4. QED  BY <2>1, <2>2, <3>2, <3>3, AcceptedLemma
  <2>6. QED  BY <2>4, <2>5
<1>2. QED  BY <1>1, ChunkInvInit, ChunkInvNext, PTL DEF ChunkSpec

-----------------------------------------------------------------------------
(***************************************************************************)
(* LegacyStream.                                                           *)
(***************************************************************************)
\* Where the reader is after the first k chunks.
ReadTo(l, n, k) == Min({k * n, l})

LEMMA ReadToLemma ==
  ASSUME NEW l \in Nat, NEW n \in Nat, NEW k \in Nat
  PROVE  /\ k * n \in Nat /\ ReadTo(l, n, k) \in 0..l
         /\ (k * n <= l => ReadTo(l, n, k) = k * n)
         /\ (k * n >= l => ReadTo(l, n, k) = l)
<1> DEFINE a == k * n
           t == ReadTo(l, n, k)
<1>1. a \in Nat
  OBVIOUS
<1>2. t \in {a, l} /\ t <= a /\ t <= l
  <2>1. {k * n, l} \in SUBSET Nat
    BY <1>1
  <2>2. QED  BY <2>1, FirstName DEF ReadTo
<1> HIDE DEF a, t
<1>3. t \in 0..l /\ (a <= l => t = a) /\ (a >= l => t = l)
  BY <1>1, <1>2
<1>4. QED  BY <1>1, <1>3 DEF a, t

\* Where the bytes of a character are, and which character a byte is of.
LEMMA LettersLemma ==
  ASSUME NEW t \in Seq(Widths)
  PROVE  LET O(i) == Offset(Letters(t), i)
             w == Utf8(t)
         IN  /\ w \in Seq(Nat \X Nat) /\ Len(w) \in Nat /\ Len(t) \in Nat
             /\ O(0) = 0 /\ O(Len(t)) = Len(w)
             /\ \A i \in 0..Len(t) : O(i) \in Nat /\ O(i) <= Len(w)
             /\ \A i \in 1..Len(t) :
                  /\ t[i] \in Nat /\ t[i] >= 1 /\ O(i) = O(i - 1) + t[i]
                  /\ \A k \in 1..t[i] : w[O(i - 1) + k] = <<i, k>>
<1> DEFINE s == Letters(t)
           w == Utf8(t)
<1>1. Len(t) \in Nat /\ DOMAIN t = 1..Len(t) /\ \A i \in 1..Len(t) : t[i] \in Nat /\ t[i] >= 1
  <2>1. Len(t) \in Nat /\ DOMAIN t = 1..Len(t) /\ \A i \in 1..Len(t) : t[i] \in Widths
    BY LenProperties, ElementOfSeq
  <2>2. \A x \in Widths : x \in Nat /\ x >= 1
    BY StreamAssumption
  <2>3. QED  BY <2>1, <2>2
<1>2. ASSUME NEW i \in 1..Len(t)
      PROVE  /\ s[i] \in Seq(Nat \X Nat) /\ Len(s[i]) = t[i]
             /\ \A k \in 1..t[i] : s[i][k] = <<i, k>>
  <2>1. s[i] = [k \in 1..t[i] |-> <<i, k>>] /\ t[i] \in Nat /\ i \in Nat
    BY <1>1 DEF Letters
  <2> HIDE DEF s
  <2>2. s[i] \in [1..t[i] -> Nat \X Nat]
    BY <2>1
  <2>3. s[i] \in Seq(Nat \X Nat) /\ Len(s[i]) = t[i]
    BY <2>1, <2>2, SequenceLemma
  <2>4. QED  BY <2>1, <2>3
<1>3. s \in Seq(Seq(Nat \X Nat)) /\ Len(s) = Len(t)
  <2>1. s = [i \in 1..Len(t) |-> s[i]]
    BY <1>1 DEF Letters
  <2> HIDE DEF s
  <2>2. s \in [1..Len(t) -> Seq(Nat \X Nat)]
    BY <1>2, <2>1
  <2>3. QED  BY <1>1, <2>2, SequenceLemma
<1>4. w = FlattenSeq(s)
  BY DEF Utf8
<1> HIDE DEF s, w
<1>5. /\ w \in Seq(Nat \X Nat) /\ Len(w) \in Nat
      /\ Offset(s, 0) = 0 /\ Offset(s, Len(t)) = Len(w)
      /\ \A i \in 0..Len(t) : Offset(s, i) \in Nat /\ Offset(s, i) <= Len(w)
      /\ \A i \in 1..Len(t) :
              /\ Offset(s, i) = Offset(s, i - 1) + Len(s[i])
              /\ \A k \in 1..Len(s[i]) : w[Offset(s, i - 1) + k] = s[i][k]
  <2>1. /\ FlattenSeq(s) \in Seq(Nat \X Nat)
        /\ Offset(s, 0) = 0 /\ Offset(s, Len(s)) = Len(FlattenSeq(s))
        /\ \A i \in 0..Len(s) :
             /\ Offset(s, i) \in Nat /\ Offset(s, i) <= Len(FlattenSeq(s))
             /\ SubSeq(FlattenSeq(s), 1, Offset(s, i)) = FlattenSeq(SubSeq(s, 1, i))
        /\ \A i \in 1..Len(s) :
             /\ Len(s[i]) \in Nat /\ Offset(s, i) = Offset(s, i - 1) + Len(s[i])
             /\ \A k \in 1..Len(s[i]) : FlattenSeq(s)[Offset(s, i - 1) + k] = s[i][k]
    BY <1>3, FlattenLemma
  <2>2. Len(w) \in Nat
    BY <1>4, <2>1, LenProperties
  <2>3. QED  BY <1>3, <1>4, <2>1, <2>2
<1>6. QED  BY <1>1, <1>2, <1>5 DEF s, w

LEMMA LetterAt ==
  ASSUME NEW t \in Seq(Widths)
  PROVE  LET O(i) == Offset(Letters(t), i)
         IN  /\ \A i, j \in 0..Len(t) : i < j => O(i) < O(j)
             /\ \A y \in 1..Len(Utf8(t)) : \E i \in 1..Len(t) : \E k \in 1..t[i] :
                  y = O(i - 1) + k /\ Utf8(t)[y] = <<i, k>>
<1> DEFINE O(i) == Offset(Letters(t), i)
           w == Utf8(t)
           n == Len(t)
<1>1. /\ n \in Nat /\ O(0) = 0 /\ O(n) = Len(w) /\ Len(w) \in Nat
      /\ \A i \in 0..n : O(i) \in Nat
      /\ \A i \in 1..n : /\ t[i] \in Nat /\ t[i] >= 1 /\ O(i) = O(i - 1) + t[i]
                         /\ \A k \in 1..t[i] : w[O(i - 1) + k] = <<i, k>>
  BY LettersLemma
<1> HIDE DEF O, w, n
<1>2. ASSUME NEW i \in 0..n, NEW j \in 0..n, i < j  PROVE O(i) < O(j)
  <2> DEFINE P == {d \in Nat : i + 1 + d <= n => O(i) < O(i + 1 + d)}
  <2>1. 0 \in P
    <3>1. ASSUME i + 1 <= n  PROVE O(i) < O(i + 1)
      <4>1. i + 1 \in 1..n /\ (i + 1) - 1 = i /\ i + 1 \in 0..n
        BY <1>1, <3>1
      <4>2. O(i + 1) = O(i) + t[i + 1] /\ t[i + 1] \in Nat /\ t[i + 1] >= 1 /\ O(i) \in Nat
        BY <1>1, <4>1
      <4>3. QED  BY <4>2
    <3>2. i + 1 + 0 = i + 1
      OBVIOUS
    <3>3. QED  BY <3>1, <3>2
  <2>2. ASSUME NEW d \in Nat, d \in P  PROVE d + 1 \in P
    <3>1. SUFFICES ASSUME i + 1 + (d + 1) <= n  PROVE O(i) < O(i + 1 + (d + 1))
      OBVIOUS
    <3> DEFINE a == i + 1 + d
    <3>2. a + 1 = i + 1 + (d + 1) /\ a + 1 \in 1..n /\ (a + 1) - 1 = a /\ a \in 0..n /\ a <= n
      BY <1>1, <3>1
    <3>3. O(i) < O(a)
      BY <2>2, <3>2
    <3> HIDE DEF a
    <3>4. /\ O(a + 1) = O(a) + t[a + 1] /\ t[a + 1] \in Nat /\ t[a + 1] >= 1
          /\ O(i) \in Nat /\ O(a) \in Nat
      BY <1>1, <3>2
    <3>5. QED  BY <3>2, <3>3, <3>4
  <2> HIDE DEF P
  <2>3. \A d \in Nat : d \in P
    BY <2>1, <2>2, NumberInduction
  <2>4. j - i - 1 \in Nat /\ i + 1 + (j - i - 1) = j
    BY <1>1, <1>2
  <2>5. i + 1 + (j - i - 1) <= n
    BY <1>1, <2>4
  <2>6. QED
    <3> DEFINE d == j - i - 1
    <3>1. d \in P /\ i + 1 + d = j /\ i + 1 + d <= n
      BY <2>3, <2>4, <2>5
    <3> HIDE DEF d
    <3>2. O(i) < O(i + 1 + d)
      BY <3>1 DEF P
    <3>3. QED  BY <3>1, <3>2
<1>3. ASSUME NEW y \in 1..Len(w)
      PROVE  \E i \in 1..n : \E k \in 1..t[i] : y = O(i - 1) + k /\ w[y] = <<i, k>>
  <2> DEFINE S == {i \in 0..n : O(i) >= y}
             i == Min(S)
  <2>1. S # {} /\ S \in SUBSET Nat
    <3>1. n \in 0..n /\ O(n) >= y
      BY <1>1
    <3>2. n \in S
      BY <3>1
    <3>3. 0..n \subseteq Nat
      OBVIOUS
    <3>4. QED  BY <3>2, <3>3
  <2>2. i \in S /\ \A j \in S : i <= j
    BY <2>1, FirstName
  <2> HIDE DEF i
  <2>3. i \in 1..n /\ i - 1 \in 0..n /\ O(i) >= y
    <3>1. i # 0
      BY <1>1, <2>2
    <3>2. QED  BY <1>1, <2>2, <3>1
  <2>4. O(i - 1) < y
    <3>1. i - 1 \notin S
      BY <1>1, <2>2, <2>3
    <3>2. O(i - 1) \in Nat /\ y \in Nat
      BY <1>1, <2>3
    <3>3. QED  BY <2>3, <3>1, <3>2
  <2> DEFINE k == y - O(i - 1)
  <2>5. k \in 1..t[i] /\ y = O(i - 1) + k
    <3>1. O(i) = O(i - 1) + t[i] /\ t[i] \in Nat /\ O(i - 1) \in Nat
      BY <1>1, <2>3
    <3>2. QED  BY <1>1, <2>3, <2>4, <3>1
  <2> HIDE DEF k
  <2>6. QED  BY <1>1, <2>3, <2>5
<1>4. QED  BY <1>2, <1>3 DEF O, w, n

\* The chunks: each begins where the one before it ended, and the last ends at the end.
Pieces(w, n) == (Len(w) + n - 1) \div n

RightCuts(w, n) ==
  LET m    == Pieces(w, n)
      R(k) == ReadTo(Len(w), n, k)
  IN  /\ m \in Nat /\ Len(w) \in Nat /\ DOMAIN Cut(w, n) = 1..m
      /\ R(0) = 0 /\ \A k \in Nat : k >= m => R(k) = Len(w)
      /\ \A k \in 1..m :
           /\ R(k - 1) \in Nat /\ R(k) \in Nat /\ R(k - 1) < R(k) /\ R(k) <= Len(w)
           /\ Cut(w, n)[k] \in Seq(Nat \X Nat) /\ Len(Cut(w, n)[k]) = R(k) - R(k - 1)
           /\ \A j \in 1..R(k) - R(k - 1) : Cut(w, n)[k][j] = w[R(k - 1) + j]

LEMMA CutsLemma ==
  ASSUME NEW w \in Seq(Nat \X Nat), NEW n \in Nat \ {0}
  PROVE  RightCuts(w, n)
<1> DEFINE l == Len(w)
           m == (l + n - 1) \div n
           R(k) == ReadTo(l, n, k)
<1>1. l \in Nat /\ n \in Nat /\ n >= 1
  BY LenProperties
<1>2. /\ m \in Nat /\ (l = 0 => m = 0) /\ l <= m * n
      /\ (m # 0 => (m - 1) * n < l)
  <2>1. CASE l = 0
    <3>1. m = (n - 1) \div n
      BY <1>1, <2>1
    <3>2. (n - 1) \div n = 0
      <4>1. ASSUME NEW q \in Int, NEW r \in 0..n - 1, n - 1 = n * q + r  PROVE q = 0
        <5>1. q >= 1 => n * q >= n
          BY <1>1
        <5>2. q <= -1 => n * q <= -n
          BY <1>1
        <5>3. n * q \in Int
          BY <1>1
        <5> DEFINE z == n * q
        <5> HIDE DEF z
        <5>4. (q >= 1 => z >= n) /\ (q <= -1 => z <= -n) /\ z \in Int /\ n - 1 = z + r
          BY <4>1, <5>1, <5>2, <5>3 DEF z
        <5>5. QED  BY <1>1, <5>4
      <4>2. (n - 1) \div n \in Int /\ (n - 1) % n \in 0..n - 1 /\ n - 1 = n * ((n - 1) \div n) + ((n - 1) % n)
        BY <1>1
      <4>3. QED  BY <4>1, <4>2
    <3>3. m = 0
      BY <3>1, <3>2
    <3> HIDE DEF m
    <3>4. m * n = 0
      BY <1>1, <3>3
    <3>5. QED  BY <2>1, <3>3, <3>4
  <2>2. CASE l # 0
    <3>1. l \in Nat \ {0} /\ n \in Nat \ {0}
      BY <1>1, <2>2
    <3>2. m \in Nat \ {0} /\ (m - 1) * n < l /\ l <= m * n
      BY <3>1, TotalLemma
    <3> HIDE DEF m, l
    <3>3. QED  BY <2>2, <3>2
  <2>3. QED  BY <2>1, <2>2
<1> HIDE DEF m
<1>3. ASSUME NEW k \in Nat
      PROVE  /\ k * n \in Nat /\ R(k) \in 0..l /\ (k * n <= l => R(k) = k * n)
             /\ (k * n >= l => R(k) = l)
  BY <1>1, ReadToLemma
<1>4. R(0) = 0
  <2>1. 0 * n = 0 /\ 0 \in Nat /\ 0 <= l
    BY <1>1
  <2> HIDE DEF R, l
  <2>2. QED  BY <1>3, <2>1
<1>5. ASSUME NEW k \in Nat, k >= m  PROVE R(k) = l
  <2>1. k - m \in Nat /\ k = m + (k - m)
    BY <1>2, <1>5
  <2>2. m * n <= k * n
    BY <1>1, <1>2, <2>1, SumLemma
  <2> DEFINE a == m * n
             b == k * n
  <2>3. a \in Nat /\ b \in Nat /\ a <= b /\ l <= a /\ (b >= l => R(k) = l)
    BY <1>1, <1>2, <1>3, <2>2
  <2> HIDE DEF a, b, R, l
  <2>4. QED  BY <1>1, <2>3
<1>6. Cut(w, n) = [k \in 1..m |-> SubSeq(w, (k - 1) * n + 1, R(k))]
  BY DEF Cut, m, Pieces, ReadTo
<1>7. ASSUME NEW k \in 1..m
      PROVE  /\ R(k - 1) \in Nat /\ R(k) \in Nat /\ R(k - 1) < R(k) /\ R(k) <= l
             /\ R(k - 1) = (k - 1) * n
  <2>1. k - 1 \in Nat /\ k \in Nat /\ m - k \in Nat /\ m - 1 = (k - 1) + (m - k) /\ m # 0
    BY <1>2
  <2>2. (k - 1) * n <= (m - 1) * n
    BY <1>1, <2>1, SumLemma
  <2>3. k * n = (k - 1) * n + n
    BY <1>1, <2>1
  <2> DEFINE a == (k - 1) * n
             b == k * n
             c == (m - 1) * n
  <2>4. a \in Nat /\ b \in Nat /\ c \in Int /\ a <= c /\ c < l /\ b = a + n
    BY <1>1, <1>2, <1>3, <2>1, <2>2, <2>3
  <2>5. /\ R(k - 1) \in 0..l /\ (a <= l => R(k - 1) = a)
        /\ R(k) \in 0..l /\ (b <= l => R(k) = b) /\ (b >= l => R(k) = l)
    BY <1>3, <2>1
  <2> HIDE DEF a, b, c, R, l
  <2>6. QED  BY <1>1, <2>4, <2>5 DEF a
<1>8. ASSUME NEW k \in 1..m
      PROVE  /\ Cut(w, n)[k] \in Seq(Nat \X Nat) /\ Len(Cut(w, n)[k]) = R(k) - R(k - 1)
             /\ \A j \in 1..R(k) - R(k - 1) : Cut(w, n)[k][j] = w[R(k - 1) + j]
  <2> DEFINE a == R(k - 1)
             b == R(k)
             c == Cut(w, n)[k]
  <2>1. c = SubSeq(w, a + 1, b) /\ a \in Nat /\ b \in Nat /\ a < b /\ b <= l
    BY <1>6, <1>7
  <2> HIDE DEF a, b, c
  <2>2. \A j \in a + 1..b : w[j] \in Nat \X Nat
    <3>1. \A j \in a + 1..b : j \in 1..l
      BY <1>1, <2>1
    <3>2. QED  BY <3>1, ElementOfSeq
  <2>3. a + 1 \in Int /\ b \in Int /\ a + 1 <= b /\ b - (a + 1) + 1 = b - a
    BY <2>1
  <2>4. /\ c \in Seq(Nat \X Nat) /\ Len(c) = b - (a + 1) + 1
        /\ \A j \in 1..b - (a + 1) + 1 : c[j] = w[a + 1 + j - 1]
    BY <2>1, <2>2, <2>3, SubSeqProperties
  <2>5. \A j \in 1..b - a : a + 1 + j - 1 = a + j
    BY <2>1
  <2>6. QED  BY <2>3, <2>4, <2>5 DEF a, b, c
<1>9. DOMAIN Cut(w, n) = 1..m
  BY <1>6
<1>10. QED  BY <1>1, <1>2, <1>4, <1>5, <1>7, <1>8, <1>9 DEF m, Pieces, RightCuts

\* A chunk that begins and ends with a character is read as the characters in it.
LEMMA CharactersLemma ==
  ASSUME text \in Seq(Widths), NEW q \in 0..Len(text), NEW b \in Nat,
         Offset(Letters(text), q) < b, b <= Len(Utf8(text)),
         NEW data \in Seq(Nat \X Nat), Len(data) = b - Offset(Letters(text), q),
         \A j \in 1..Len(data) : data[j] = Utf8(text)[Offset(Letters(text), q) + j],
         IsText(data)
  PROVE  \E p \in 0..Len(text) :
            /\ p > q /\ Offset(Letters(text), p) = b
            /\ data[1][1] = q + 1
            /\ {d[1] : d \in ToSet(data)} = q + 1..p
<1> DEFINE O(i) == Offset(Letters(text), i)
           w == Utf8(text)
           n == Len(text)
           a == O(q)
           l == Len(data)
<1>1. /\ n \in Nat /\ O(n) = Len(w) /\ Len(w) \in Nat
      /\ \A i \in 0..n : O(i) \in Nat
      /\ \A i \in 1..n : /\ text[i] \in Nat /\ text[i] >= 1 /\ O(i) = O(i - 1) + text[i]
                         /\ \A k \in 1..text[i] : w[O(i - 1) + k] = <<i, k>>
  BY LettersLemma
<1>2. /\ \A i, j \in 0..n : i < j => O(i) < O(j)
      /\ \A y \in 1..Len(w) : \E i \in 1..n : \E k \in 1..text[i] :
           y = O(i - 1) + k /\ w[y] = <<i, k>>
  BY LetterAt
<1>3. /\ a \in Nat /\ a < b /\ b <= Len(w) /\ l = b - a /\ DOMAIN data = 1..l
      /\ \A j \in 1..l : data[j] = w[a + j]
  <2>1. a \in Nat
    BY <1>1
  <2>2. DOMAIN data = 1..l
    BY LenProperties
  <2>3. QED  BY <2>1, <2>2
<1>4. data[l][2] = text[data[l][1]]
  BY DEF IsText
<1> HIDE DEF O, w, n, a, l
<1>5. PICK p \in 1..n : \E k \in 1..text[p] : b = O(p - 1) + k /\ w[b] = <<p, k>>
  <2>1. b \in 1..Len(w)
    BY <1>1, <1>3
  <2>2. QED  BY <1>2, <2>1
<1>6. O(p) = b
  <2>1. PICK k \in 1..text[p] : b = O(p - 1) + k /\ w[b] = <<p, k>>
    BY <1>5
  <2>2. l \in 1..l /\ a + l = b
    BY <1>3
  <2>3. data[l] = <<p, k>>
    BY <1>3, <2>1, <2>2
  <2>4. k = text[p]
    BY <1>4, <2>3
  <2>5. QED  BY <1>1, <2>1, <2>4
<1>7. p \in 0..n /\ q \in 0..n /\ p > q
  <2>1. p \in 0..n /\ q \in 0..n /\ O(q) < O(p)
    BY <1>1, <1>3, <1>6 DEF a, n
  <2>2. ASSUME p <= q  PROVE FALSE
    <3>1. p = q \/ p < q
      BY <1>1, <2>1, <2>2
    <3>2. CASE p = q
      BY <1>1, <2>1, <3>2
    <3>3. CASE p < q
      <4>1. O(p) < O(q) /\ O(p) \in Nat /\ O(q) \in Nat
        BY <1>1, <1>2, <2>1, <3>3
      <4>2. QED  BY <2>1, <4>1
    <3>4. QED  BY <3>1, <3>2, <3>3
  <2>3. QED  BY <1>1, <2>1, <2>2
<1>8. ASSUME NEW i \in q + 1..p
      PROVE  \E j \in 1..l : data[j] = <<i, 1>> /\ (i = q + 1 => j = 1)
  <2>1. i \in 1..n /\ i - 1 \in 0..n /\ i - 1 >= q /\ i \in 0..n /\ i <= p
    BY <1>1, <1>7
  <2>2. O(i - 1) >= a /\ O(i) <= b
    <3>1. q < i - 1 \/ q = i - 1
      BY <1>7, <2>1, <1>1
    <3>2. i < p \/ i = p
      BY <1>7, <2>1, <1>1
    <3>3. O(q) = a /\ O(p) = b
      BY <1>6 DEF a
    <3>4. O(i - 1) \in Nat /\ O(i) \in Nat
      BY <1>1, <2>1
    <3>5. O(i - 1) >= a
      <4>1. CASE q < i - 1
        BY <1>2, <1>3, <1>7, <2>1, <3>3, <3>4, <4>1
      <4>2. CASE q = i - 1
        BY <1>3, <3>3, <4>2
      <4>3. QED  BY <3>1, <4>1, <4>2
    <3>6. O(i) <= b
      <4>1. CASE i < p
        BY <1>2, <1>7, <2>1, <3>3, <3>4, <4>1
      <4>2. CASE i = p
        BY <3>3, <4>2
      <4>3. QED  BY <3>2, <4>1, <4>2
    <3>7. QED  BY <3>5, <3>6
  <2> DEFINE j == O(i - 1) + 1 - a
  <2>3. text[i] \in Nat /\ text[i] >= 1 /\ O(i) = O(i - 1) + text[i] /\ O(i - 1) \in Nat
    BY <1>1, <2>1
  <2>4. j \in 1..l /\ a + j = O(i - 1) + 1
    <3> DEFINE x == O(i - 1)
               y == O(i)
               z == text[i]
    <3>1. /\ x \in Nat /\ x >= a /\ y <= b /\ y = x + z /\ z \in Nat /\ z >= 1
          /\ a \in Nat /\ l = b - a
      BY <1>3, <2>2, <2>3
    <3>2. j = x + 1 - a
      OBVIOUS
    <3> HIDE DEF x, y, z, j
    <3>3. j \in 1..l /\ a + j = x + 1
      BY <3>1, <3>2
    <3>4. QED  BY <3>3 DEF x
  <2>5. i = q + 1 => j = 1
    <3>1. i = q + 1 => i - 1 = q
      BY <1>7, <1>1
    <3>2. QED  BY <1>3, <3>1 DEF a
  <2>6. w[O(i - 1) + 1] = <<i, 1>>
    BY <1>1, <2>1, <2>3
  <2> HIDE DEF j
  <2>7. data[j] = <<i, 1>>
    BY <1>3, <2>4, <2>6
  <2>8. QED  BY <2>4, <2>5, <2>7
<1>9. ASSUME NEW j \in 1..l  PROVE data[j][1] \in q + 1..p
  <2>1. a + j \in 1..Len(w) /\ a + j > a /\ a + j <= b
    <3> DEFINE z == Len(w)
    <3>1. a \in Nat /\ l = b - a /\ b <= z /\ z \in Nat
      BY <1>1, <1>3
    <3> HIDE DEF z
    <3>2. a + j \in 1..z /\ a + j > a /\ a + j <= b
      BY <3>1
    <3>3. QED  BY <3>2 DEF z
  <2>2. PICK i \in 1..n : \E k \in 1..text[i] : a + j = O(i - 1) + k /\ w[a + j] = <<i, k>>
    BY <1>2, <2>1
  <2>3. data[j][1] = i
    BY <1>3, <2>2
  <2>4. i \in 0..n /\ i - 1 \in 0..n /\ O(i) \in Nat /\ O(i - 1) \in Nat
        /\ O(i) >= a + j /\ O(i - 1) < a + j
    <3>1. i \in 0..n /\ i - 1 \in 0..n
      BY <1>1
    <3>2. PICK k \in 1..text[i] : a + j = O(i - 1) + k
      BY <2>2
    <3>3. O(i) = O(i - 1) + text[i] /\ text[i] \in Nat /\ O(i) \in Nat /\ O(i - 1) \in Nat
      BY <1>1, <3>1
    <3>4. QED  BY <3>1, <3>2, <3>3
  <2>5. O(q) = a /\ O(p) = b
    BY <1>6 DEF a
  <2>6. i > q
    <3>1. ASSUME i <= q  PROVE FALSE
      <4>1. i < q \/ i = q
        BY <1>7, <2>4, <3>1, <1>1
      <4>2. O(i) <= a
        <5>1. CASE i < q
          <6>1. O(i) < O(q)
            BY <1>2, <1>7, <2>4, <5>1
          <6>2. QED  BY <1>3, <2>4, <2>5, <6>1
        <5>2. CASE i = q
          BY <1>3, <2>5, <5>2
        <5>3. QED  BY <4>1, <5>1, <5>2
      <4>3. QED  BY <1>3, <2>1, <2>4, <4>2
    <3>2. QED  BY <1>1, <1>7, <2>4, <3>1
  <2>7. i <= p
    <3>1. ASSUME i > p  PROVE FALSE
      <4>1. p < i - 1 \/ p = i - 1
        BY <1>7, <2>4, <3>1, <1>1
      <4>2. O(i - 1) >= b
        <5>1. CASE p < i - 1
          <6>1. O(p) < O(i - 1)
            BY <1>2, <1>7, <2>4, <5>1
          <6>2. QED  BY <1>3, <2>4, <2>5, <6>1
        <5>2. CASE p = i - 1
          BY <1>3, <2>5, <5>2
        <5>3. QED  BY <4>1, <5>1, <5>2
      <4>3. QED  BY <1>3, <2>1, <2>4, <4>2
    <3>2. QED  BY <1>1, <1>7, <2>4, <3>1
  <2>8. QED  BY <1>1, <1>7, <2>3, <2>4, <2>6, <2>7
<1>10. data[1][1] = q + 1
  <2>1. q + 1 \in q + 1..p
    BY <1>1, <1>7
  <2>2. data[1] = <<q + 1, 1>>
    BY <1>8, <2>1
  <2>3. QED  BY <2>2
<1>11. {d[1] : d \in ToSet(data)} = q + 1..p
  <2>1. ToSet(data) = {data[j] : j \in 1..l}
    BY <1>3 DEF ToSet
  <2>2. ASSUME NEW i \in q + 1..p  PROVE \E d \in ToSet(data) : i = d[1]
    BY <1>8, <2>1
  <2>3. \A d \in ToSet(data) : d[1] \in q + 1..p
    BY <1>9, <2>1
  <2>4. QED  BY <2>2, <2>3
<1>12. QED  BY <1>6, <1>7, <1>10, <1>11 DEF O, n

StreamFrame == [op : {"START", "CHUNK", "END"}, data : Seq(Nat \X Nat)]

RightFrames(w, n) ==
  LET m == Pieces(w, n)
      f == StreamFrames(w, n)
  IN  /\ m \in Nat /\ f \in Seq(StreamFrame) /\ Len(f) = m + 2
      /\ \A x \in 1..m + 2 : f[x].op = "CHUNK" <=> x \in 2..m + 1
      /\ \A x \in 2..m + 1 : f[x].data = Cut(w, n)[x - 1]

LEMMA StreamFramesLemma ==
  ASSUME NEW w \in Seq(Nat \X Nat), NEW n \in Nat \ {0}
  PROVE  RightFrames(w, n)
<1> DEFINE m == Pieces(w, n)
           c == Cut(w, n)
           s1 == <<[op |-> "START", data |-> <<>>]>>
           s2 == [j \in DOMAIN c |-> [op |-> "CHUNK", data |-> c[j]]]
           s3 == <<[op |-> "END", data |-> <<>>]>>
           f == StreamFrames(w, n)
<1>1. m \in Nat /\ DOMAIN c = 1..m /\ \A k \in 1..m : c[k] \in Seq(Nat \X Nat)
  BY CutsLemma DEF RightCuts
<1>2. f = (s1 \o s2) \o s3
  BY DEF StreamFrames
<1> HIDE DEF m, c, f
<1>3. <<>> \in Seq(Nat \X Nat)
  OBVIOUS
<1>4. s1 \in Seq(StreamFrame) /\ Len(s1) = 1 /\ s1[1].op = "START"
  BY <1>3 DEF StreamFrame
<1>5. s3 \in Seq(StreamFrame) /\ Len(s3) = 1 /\ s3[1].op = "END"
  BY <1>3 DEF StreamFrame
<1>6. /\ s2 \in Seq(StreamFrame) /\ Len(s2) = m
      /\ \A j \in 1..m : s2[j].op = "CHUNK" /\ s2[j].data = c[j]
  <2>1. s2 \in [1..m -> StreamFrame] /\ \A j \in 1..m : s2[j].op = "CHUNK" /\ s2[j].data = c[j]
    BY <1>1 DEF StreamFrame
  <2> HIDE DEF s2
  <2>2. QED  BY <1>1, <2>1, SequenceLemma
<1> HIDE DEF s1, s2, s3
<1> DEFINE s12 == s1 \o s2
<1>7. /\ s12 \in Seq(StreamFrame) /\ Len(s12) = 1 + m
      /\ \A x \in 1..1 + m : s12[x] = IF x <= 1 THEN s1[x] ELSE s2[x - 1]
  <2>1. /\ s1 \o s2 \in Seq(StreamFrame) /\ Len(s1 \o s2) = Len(s1) + Len(s2)
        /\ \A x \in 1..Len(s1) + Len(s2) :
             (s1 \o s2)[x] = IF x <= Len(s1) THEN s1[x] ELSE s2[x - Len(s1)]
    <3>1. s1 \in Seq(StreamFrame) /\ s2 \in Seq(StreamFrame)
      BY <1>4, <1>6
    <3>2. QED  BY <3>1, ConcatProperties
  <2>2. QED  BY <1>4, <1>6, <2>1
<1> HIDE DEF s12
<1>8. /\ f \in Seq(StreamFrame) /\ Len(f) = (1 + m) + 1
      /\ \A x \in 1..(1 + m) + 1 : f[x] = IF x <= 1 + m THEN s12[x] ELSE s3[x - (1 + m)]
  <2>1. f = s12 \o s3
    BY <1>2 DEF s12
  <2>2. /\ f \in Seq(StreamFrame) /\ Len(f) = Len(s12) + Len(s3)
        /\ \A x \in 1..Len(s12) + Len(s3) :
             f[x] = IF x <= Len(s12) THEN s12[x] ELSE s3[x - Len(s12)]
    BY <1>5, <1>7, <2>1, ConcatProperties
  <2>3. QED  BY <1>5, <1>7, <2>2
<1>9. ASSUME NEW x \in 1..m + 2
      PROVE  (f[x].op = "CHUNK" <=> x \in 2..m + 1) /\ (x \in 2..m + 1 => f[x].data = c[x - 1])
  <2>1. CASE x = 1
    <3>1. x \in 1..(1 + m) + 1 /\ x <= 1 + m /\ x \in 1..1 + m /\ x <= 1 /\ x \notin 2..m + 1
      BY <1>1, <2>1
    <3>2. f[x] = s1[1]
      BY <1>7, <1>8, <2>1, <3>1
    <3>3. QED  BY <1>4, <3>1, <3>2
  <2>2. CASE x \in 2..m + 1
    <3>1. x \in 1..(1 + m) + 1 /\ x <= 1 + m /\ x \in 1..1 + m /\ ~(x <= 1) /\ x - 1 \in 1..m
      BY <1>1, <2>2
    <3>2. f[x] = s2[x - 1]
      BY <1>7, <1>8, <3>1
    <3>3. QED  BY <1>6, <2>2, <3>1, <3>2
  <2>3. CASE x = m + 2
    <3>1. x \in 1..(1 + m) + 1 /\ ~(x <= 1 + m) /\ x - (1 + m) = 1 /\ x \notin 2..m + 1
      BY <1>1, <2>3
    <3>2. f[x] = s3[1]
      BY <1>8, <3>1
    <3>3. QED  BY <1>5, <3>1, <3>2
  <2>4. x = 1 \/ x \in 2..m + 1 \/ x = m + 2
    BY <1>1
  <2>5. QED  BY <2>1, <2>2, <2>3, <2>4
<1>10. Len(f) = m + 2 /\ \A x \in 2..m + 1 : x \in 1..m + 2
  BY <1>1, <1>8
<1>11. QED  BY <1>1, <1>8, <1>9, <1>10 DEF m, c, f, RightFrames

\* The bytes in the first x frames.
BytesIn(w, n, x) == IF x = 0 THEN 0 ELSE ReadTo(Len(w), n, x - 1)

\* The frames that are left when the first x were read.
Rest(f, x, unread) ==
  /\ unread \in Seq(StreamFrame) /\ Len(unread) = Len(f) - x
  /\ \A i \in 1..Len(unread) : unread[i] = f[x + i]

\* Of the text t, sent in chunks of n, the first x frames were read and the first q
\* characters shown: what was read are their bytes, unless reading raised.
Progress(t, n, unread, display, how, x, q) ==
  LET f == StreamFrames(Utf8(t), n)
  IN  /\ x \in 0..Len(f) /\ q \in 0..Len(t)
      /\ Rest(f, x, unread)
      /\ display = SubSeq(t, 1, q)
      /\ how # "raised" => Offset(Letters(t), q) = BytesIn(Utf8(t), n, x)
      /\ how = "ended" => x = Len(f)

StreamInv ==
  /\ text \in Seq(Widths) /\ size \in StreamSizes \cup {0}
  /\ size = 0 => chunks = <<>> /\ shown = <<>> /\ streaming = "open"
  /\ size # 0 => \E x, q : Progress(text, size, chunks, shown, streaming, x, q)

LEMMA StreamInvInit == StreamInit => StreamInv
<1> SUFFICES ASSUME StreamInit  PROVE StreamInv
  OBVIOUS
<1>1. PICK n \in 0..MaxLength : text \in [1..n -> Widths]
  BY DEF StreamInit
<1>2. text \in Seq(Widths)
  <2>1. n \in Nat
    OBVIOUS
  <2>2. QED  BY <1>1, <2>1, SequenceLemma
<1>3. QED  BY <1>2 DEF StreamInit, StreamInv

LEMMA EncodeStep == ASSUME StreamInv, EncodeStream  PROVE StreamInv'
<1> DEFINE w == Utf8(text)
           f == StreamFrames(w, size')
<1>1. /\ text \in Seq(Widths) /\ size' \in StreamSizes /\ size' \in Nat \ {0}
      /\ chunks' = f /\ text' = text /\ shown' = <<>> /\ streaming' = "open"
  BY StreamAssumption DEF StreamInv, EncodeStream
<1>2. w \in Seq(Nat \X Nat) /\ Len(w) \in Nat /\ Len(text) \in Nat /\ Offset(Letters(text), 0) = 0
  BY <1>1, LettersLemma
<1>3. f \in Seq(StreamFrame) /\ Len(f) \in Nat
  BY <1>1, <1>2, StreamFramesLemma, LenProperties DEF RightFrames
<1>4. SubSeq(text, 1, 0) = <<>>
  BY SubSeqEmpty
<1> HIDE DEF f
<1>5. \A i \in 1..Len(f) : f[i] = f[0 + i]
  OBVIOUS
<1>6. Progress(text, size', f, <<>>, "open", 0, 0)
  <2>1. 0 \in 0..Len(f) /\ 0 \in 0..Len(text) /\ Len(f) = Len(f) - 0
    BY <1>2, <1>3
  <2>2. QED  BY <1>2, <1>3, <1>4, <1>5, <2>1 DEF Progress, Rest, BytesIn, f
<1>7. QED  BY <1>1, <1>6 DEF StreamInv

\* Reading the next frame.
LEMMA NextFrame ==
  ASSUME NEW f \in Seq(StreamFrame), NEW x \in 0..Len(f), NEW unread, Rest(f, x, unread),
         unread # <<>>
  PROVE  x + 1 \in 1..Len(f) /\ Head(unread) = f[x + 1] /\ Rest(f, x + 1, Tail(unread))
<1> DEFINE d == Tail(unread)
           l == Len(f)
           k == Len(unread)
<1>1. /\ unread \in Seq(StreamFrame) /\ k = l - x /\ l \in Nat
      /\ \A i \in 1..k : unread[i] = f[x + i]
  BY LenProperties DEF Rest
<1>2. k \in Nat \ {0} /\ 1 \in 1..k /\ Head(unread) = unread[1]
  BY <1>1, EmptySeq
<1>3. /\ d \in Seq(StreamFrame) /\ Len(d) = k - 1
      /\ \A i \in 1..Len(d) : d[i] = unread[i + 1]
  BY <1>1, HeadTailProperties
<1> HIDE DEF d, l, k
<1>4. x \in 0..l
  BY DEF l
<1>5. x + 1 \in 1..l /\ Len(d) = l - (x + 1)
  BY <1>1, <1>2, <1>3, <1>4
<1>6. ASSUME NEW i \in 1..Len(d)  PROVE d[i] = f[x + 1 + i]
  <2>1. i + 1 \in 1..k /\ x + (i + 1) = x + 1 + i
    BY <1>2, <1>3, <1>4, <1>1
  <2>2. QED  BY <1>1, <1>3, <2>1
<1>7. QED  BY <1>1, <1>2, <1>3, <1>5, <1>6 DEF d, l, Rest

LEMMA IterateStep == ASSUME StreamInv, Iterate  PROVE StreamInv'
<1>1. /\ text \in Seq(Widths) /\ size # 0 /\ size \in Nat \ {0} /\ size \in StreamSizes
      /\ streaming = "open" /\ chunks # <<>> /\ text' = text /\ size' = size
      /\ chunks' = Tail(chunks)
  BY StreamAssumption DEF StreamInv, Iterate
<1>2. PICK x, q : Progress(text, size, chunks, shown, "open", x, q)
  BY <1>1 DEF StreamInv
<1> DEFINE t == text
           w == Utf8(t)
           n == size
           f == StreamFrames(w, n)
           l == Len(w)
           m == Pieces(w, n)
           O(i) == Offset(Letters(text), i)
           R(k) == ReadTo(l, n, k)
           frame == Head(chunks)
<1>3. /\ x \in 0..Len(f) /\ q \in 0..Len(t) /\ shown = SubSeq(t, 1, q)
      /\ O(q) = BytesIn(w, n, x) /\ Rest(f, x, chunks)
  BY <1>2 DEF Progress
<1>4. w \in Seq(Nat \X Nat) /\ l \in Nat /\ Len(t) \in Nat /\ O(q) \in Nat
  BY <1>1, <1>3, LettersLemma
<1>5. RightFrames(w, n) /\ RightCuts(w, n)
  <2>1. n \in Nat \ {0}
    BY <1>1
  <2> HIDE DEF w, n
  <2>2. QED  BY <1>4, <2>1, StreamFramesLemma, CutsLemma
<1>6. /\ m \in Nat /\ f \in Seq(StreamFrame) /\ Len(f) = m + 2
      /\ \A y \in 1..m + 2 : f[y].op = "CHUNK" <=> y \in 2..m + 1
      /\ \A y \in 2..m + 1 : f[y].data = Cut(w, n)[y - 1]
  BY <1>5 DEF RightFrames
<1>7. /\ R(0) = 0 /\ \A k \in Nat : k >= m => R(k) = l
      /\ \A k \in 1..m :
           /\ R(k - 1) \in Nat /\ R(k) \in Nat /\ R(k - 1) < R(k) /\ R(k) <= l
           /\ Cut(w, n)[k] \in Seq(Nat \X Nat) /\ Len(Cut(w, n)[k]) = R(k) - R(k - 1)
           /\ \A j \in 1..R(k) - R(k - 1) : Cut(w, n)[k][j] = w[R(k - 1) + j]
  BY <1>5 DEF RightCuts
<1>8. x + 1 \in 1..Len(f) /\ frame = f[x + 1] /\ Rest(f, x + 1, chunks')
  <2> DEFINE cs == chunks
  <2>1. Rest(f, x, cs) /\ cs # <<>>
    BY <1>1, <1>3
  <2>2. chunks' = Tail(cs) /\ frame = Head(cs)
    BY <1>1
  <2> HIDE DEF f, cs, frame
  <2>3. QED  BY <1>3, <1>6, <2>1, <2>2, NextFrame
\* The step is done when the progress of the new state is known.
<1>9. ASSUME NEW p \in 0..Len(t), shown' = SubSeq(t, 1, p),
             streaming' # "ended", streaming' # "raised" => O(p) = BytesIn(w, n, x + 1)
      PROVE  StreamInv'
  <2>1. x + 1 \in 0..Len(f)
    BY <1>8
  <2>2. Progress(t, n, chunks', shown', streaming', x + 1, p)
    BY <1>8, <1>9, <2>1 DEF Progress
  <2>3. Progress(text', size', chunks', shown', streaming', x + 1, p)
    BY <1>1, <2>2
  <2>4. text' \in Seq(Widths) /\ size' \in StreamSizes /\ size' # 0
    BY <1>1
  <2>5. QED  BY <2>3, <2>4 DEF StreamInv
<1> HIDE DEF f, l, m, O, R, frame
<1>10. CASE frame.op # "CHUNK"
  <2>1. shown' = shown /\ streaming' = "open"
    BY <1>1, <1>10 DEF Iterate, frame
  <2>2. x + 1 \notin 2..m + 1 /\ x + 1 \in 1..m + 2
    BY <1>8, <1>6, <1>10
  <2>3. x = 0 \/ x = m + 1
    BY <1>3, <1>6, <2>2
  <2>4. BytesIn(w, n, x + 1) = BytesIn(w, n, x)
    <3>1. BytesIn(w, n, x + 1) = R(x)
      <4>1. x + 1 # 0 /\ (x + 1) - 1 = x
        BY <2>3, <1>6
      <4>2. QED  BY <4>1 DEF BytesIn, R, l
    <3>2. CASE x = 0
      BY <1>7, <3>1, <3>2 DEF BytesIn
    <3>3. CASE x = m + 1
      <4>1. x \in Nat /\ x >= m /\ x - 1 \in Nat /\ x - 1 >= m /\ x # 0
        BY <1>6, <3>3
      <4>2. R(x) = l /\ R(x - 1) = l
        BY <1>7, <4>1
      <4>3. BytesIn(w, n, x) = R(x - 1)
        BY <4>1 DEF BytesIn, R, l
      <4>4. QED  BY <3>1, <4>2, <4>3
    <3>4. QED  BY <2>3, <3>2, <3>3
  <2>5. QED  BY <1>3, <1>9, <2>1, <2>4
<1>11. CASE frame.op = "CHUNK"
  <2> DEFINE data == frame.data
             c == Cut(w, n)[x]
  <2>1. x + 1 \in 2..m + 1 /\ x \in 1..m /\ (x + 1) - 1 = x /\ x # 0 /\ x + 1 # 0
    <3>1. x + 1 \in 2..m + 1
      BY <1>8, <1>6, <1>11
    <3>2. QED  BY <1>3, <1>6, <3>1
  <2>2. data = c
    BY <1>8, <1>6, <2>1
  <2>3. BytesIn(w, n, x) = R(x - 1) /\ BytesIn(w, n, x + 1) = R(x)
    BY <2>1 DEF BytesIn, R, l
  <2>4. O(q) = R(x - 1)
    BY <1>3, <2>3
  <2>5. /\ R(x) \in Nat /\ O(q) < R(x) /\ R(x) <= l /\ data \in Seq(Nat \X Nat)
        /\ Len(data) = R(x) - O(q) /\ \A j \in 1..Len(data) : data[j] = w[O(q) + j]
    <3>1. /\ R(x - 1) < R(x) /\ R(x) \in Nat /\ R(x) <= l
          /\ c \in Seq(Nat \X Nat) /\ Len(c) = R(x) - R(x - 1)
          /\ \A j \in 1..R(x) - R(x - 1) : c[j] = w[R(x - 1) + j]
      BY <1>7, <2>1
    <3>2. QED  BY <2>2, <2>4, <3>1
  <2>6. CASE ~IsText(data)
    <3>1. streaming' = "raised" /\ shown' = shown
      BY <1>11, <2>6 DEF Iterate, frame
    <3>2. q \in 0..Len(t) /\ shown' = SubSeq(t, 1, q)
      BY <1>3, <3>1
    <3>3. QED  BY <1>9, <3>1, <3>2
  <2>7. CASE IsText(data)
    <3>1. shown' = shown \o DecodeText(data) /\ streaming' = "open"
      BY <1>1, <1>11, <2>7 DEF Iterate, frame
    <3>2. PICK p \in 0..Len(t) :
            /\ p > q /\ O(p) = R(x) /\ data[1][1] = q + 1
            /\ {d[1] : d \in ToSet(data)} = q + 1..p
      <4> DEFINE b == R(x)
      <4> HIDE DEF data, b
      <4>1. /\ b \in Nat /\ Offset(Letters(text), q) < b /\ b <= Len(Utf8(text))
            /\ data \in Seq(Nat \X Nat) /\ Len(data) = b - Offset(Letters(text), q)
            /\ \A j \in 1..Len(data) : data[j] = Utf8(text)[Offset(Letters(text), q) + j]
        BY <2>5 DEF b, O, l
      <4>2. \E p \in 0..Len(text) :
            /\ p > q /\ Offset(Letters(text), p) = b
            /\ data[1][1] = q + 1
            /\ {d[1] : d \in ToSet(data)} = q + 1..p
        BY <1>1, <1>3, <2>7, <4>1, CharactersLemma
      <4>3. QED  BY <4>2 DEF b, O
    <3>3. Cardinality(q + 1..p) = p - q
      <4>1. q \in Nat /\ p \in Nat /\ p > q
        BY <1>3, <1>4, <3>2
      <4>2. q + 1 \in Int /\ p \in Int /\ p - (q + 1) + 1 = p - q /\ ~(q + 1 > p)
        BY <4>1
      <4>3. QED  BY <4>2, FS_Interval
    <3>4. DecodeText(data) = SubSeq(t, q + 1, p)
      <4>1. DecodeText(data) = [i \in 1..p - q |-> t[q + 1 + i - 1]]
        BY <3>2, <3>3 DEF DecodeText
      <4> DEFINE s == SubSeq(t, q + 1, p)
                 e == [i \in 1..p - q |-> t[q + 1 + i - 1]]
      <4>2. q \in Nat /\ p \in Nat /\ p > q /\ p <= Len(t) /\ p - q \in Nat
        BY <1>3, <1>4, <3>2
      <4>3. \A i \in q + 1..p : t[i] \in Widths
        <5>1. \A i \in q + 1..p : i \in 1..Len(t)
          BY <1>4, <4>2
        <5>2. QED  BY <1>1, <5>1, ElementOfSeq
      <4>4. q + 1 \in Int /\ p \in Int /\ q + 1 <= p /\ p - (q + 1) + 1 = p - q
        BY <4>2
      <4>5. /\ s \in Seq(Widths) /\ Len(s) = p - q
            /\ \A i \in 1..p - q : s[i] = t[q + 1 + i - 1]
        BY <4>3, <4>4, SubSeqProperties
      <4>6. \A i \in 1..p - q : q + 1 + i - 1 \in q + 1..p
        BY <4>2
      <4>7. e \in [1..p - q -> Widths] /\ \A i \in 1..p - q : e[i] = t[q + 1 + i - 1]
        BY <4>3, <4>6
      <4> HIDE DEF e, s
      <4>8. e \in Seq(Widths) /\ Len(e) = p - q
        BY <4>2, <4>7, SequenceLemma
      <4>9. e = s
        <5>1. \A i \in 1..Len(e) : e[i] = s[i]
          BY <4>5, <4>7, <4>8
        <5>2. QED  BY <4>5, <4>8, <5>1, SeqEqual
      <4>10. QED  BY <4>1, <4>9 DEF e, s
    <3>5. SubSeq(t, 1, q) \o SubSeq(t, q + 1, p) = SubSeq(t, 1, p)
      <4>1. 1 \in 1..Len(t) + 1 /\ q \in 1 - 1..Len(t) /\ p \in q..Len(t)
        BY <1>3, <1>4, <3>2
      <4>2. QED  BY <1>1, <4>1, ConcatAdjacentSubSeq
    <3>6. shown' = SubSeq(t, 1, p)
      BY <1>3, <3>1, <3>4, <3>5
    <3>7. QED  BY <1>9, <2>3, <3>1, <3>2, <3>6
  <2>8. QED  BY <2>6, <2>7
<1>12. QED  BY <1>10, <1>11

LEMMA EndStep == ASSUME StreamInv, EndOfFrames  PROVE StreamInv'
<1>1. /\ size # 0 /\ streaming = "open" /\ chunks = <<>> /\ streaming' = "ended"
      /\ text' = text /\ size' = size /\ chunks' = <<>> /\ shown' = shown
      /\ text \in Seq(Widths) /\ size \in StreamSizes /\ size \in Nat \ {0}
  BY StreamAssumption DEF StreamInv, EndOfFrames
<1>2. PICK x, q : Progress(text, size, <<>>, shown, "open", x, q)
  BY <1>1 DEF StreamInv
<1>3. Len(StreamFrames(Utf8(text), size)) \in Nat
  BY <1>1, LettersLemma, StreamFramesLemma, LenProperties DEF RightFrames
<1>4. Progress(text, size, <<>>, shown, "ended", x, q)
  <2> DEFINE k == Len(StreamFrames(Utf8(text), size))
  <2>1. x \in 0..k /\ Len(<<>>) = k - x /\ k \in Nat /\ Len(<<>>) = 0
    BY <1>2, <1>3 DEF Progress, Rest
  <2> HIDE DEF k
  <2>2. x = k
    BY <2>1
  <2>3. QED  BY <1>2, <2>2 DEF Progress, k
<1>5. QED  BY <1>1, <1>4 DEF StreamInv

LEMMA StreamInvNext == ASSUME StreamInv, [StreamNext]_streamVars  PROVE StreamInv'
<1>1. CASE UNCHANGED streamVars
  BY <1>1 DEF streamVars, StreamInv
<1>2. QED  BY <1>1, EncodeStep, IterateStep, EndStep DEF StreamNext

THEOREM StreamShows == StreamSpec => []ShowsText
<1>1. ASSUME StreamInv  PROVE ShowsText
  <2>1. text \in Seq(Widths) /\ Len(text) \in Nat
    BY <1>1, LenProperties DEF StreamInv
  <2>2. \A q \in 0..Len(text) : IsPrefix(SubSeq(text, 1, q), text)
    <3>1. TAKE q \in 0..Len(text)
    <3>2. Len(SubSeq(text, 1, q)) = q /\ SubSeq(text, 1, q) \in Seq(Widths)
      BY <2>1, CutLemma
    <3>3. SubSeq(SubSeq(text, 1, q), 1, q) = SubSeq(text, 1, q)
      <4>1. SubSeq(SubSeq(text, 1, q), 1, Len(SubSeq(text, 1, q))) = SubSeq(text, 1, q)
        BY <3>2, SubSeqFull
      <4>2. QED  BY <3>2, <4>1
    <3>4. q <= Len(text)
      BY <2>1
    <3>5. QED  BY <3>2, <3>3, <3>4 DEF IsPrefix
  <2>3. CASE size = 0
    <3>1. shown = <<>> /\ streaming = "open" /\ SubSeq(text, 1, 0) = <<>> /\ 0 \in 0..Len(text)
      BY <1>1, <2>1, <2>3, SubSeqEmpty DEF StreamInv
    <3>2. QED  BY <2>2, <3>1 DEF ShowsText
  <2>4. CASE size # 0
    <3>1. PICK x, q : Progress(text, size, chunks, shown, streaming, x, q)
      BY <1>1, <2>4 DEF StreamInv
    <3>2. q \in 0..Len(text) /\ shown = SubSeq(text, 1, q)
      BY <3>1 DEF Progress
    <3>3. ASSUME streaming = "ended"  PROVE shown = text
      <4> DEFINE w == Utf8(text)
                 m == Pieces(w, size)
      <4>1. size \in Nat \ {0}
        BY <1>1, <2>4, StreamAssumption DEF StreamInv
      <4>2. w \in Seq(Nat \X Nat) /\ Offset(Letters(text), Len(text)) = Len(w)
            /\ \A i \in 0..Len(text) : Offset(Letters(text), i) \in Nat
        BY <2>1, LettersLemma
      <4>3. m \in Nat /\ Len(StreamFrames(w, size)) = m + 2
        BY <4>1, <4>2, StreamFramesLemma DEF RightFrames
      <4>4. x = m + 2 /\ Offset(Letters(text), q) = BytesIn(w, size, x)
        BY <3>1, <3>3, <4>3 DEF Progress
      <4>5. \A k \in Nat : k >= m => ReadTo(Len(w), size, k) = Len(w)
        BY <4>1, <4>2, CutsLemma DEF RightCuts
      <4>6. BytesIn(w, size, x) = Len(w)
        <5> HIDE DEF m, w
        <5>1. x # 0 /\ x - 1 \in Nat /\ x - 1 >= m
          BY <4>3, <4>4
        <5>2. QED  BY <4>5, <5>1 DEF BytesIn
      <4>7. q = Len(text)
        <5>1. ASSUME q # Len(text)  PROVE FALSE
          <6>1. q < Len(text) /\ Len(text) \in 0..Len(text)
            BY <2>1, <3>2, <5>1
          <6>2. Offset(Letters(text), q) < Offset(Letters(text), Len(text))
            BY <2>1, <3>2, <6>1, LetterAt
          <6>3. QED  BY <3>2, <4>2, <4>4, <4>6, <6>1, <6>2
        <5>2. QED  BY <5>1
      <4>8. QED  BY <2>1, <3>2, <4>7, SubSeqFull
    <3>4. QED  BY <2>2, <3>2, <3>3 DEF ShowsText
  <2>5. QED  BY <2>3, <2>4
<1>2. QED  BY <1>1, StreamInvInit, StreamInvNext, PTL DEF StreamSpec
-----------------------------------------------------------------------------
(***************************************************************************)
(* LegacyRecords.  Texts that were joined by a separator are the fields    *)
(* between the first of its places; that no other field holds it is a      *)
(* hypothesis, for nothing in the code keeps it out.                       *)
(***************************************************************************)

\* The first n separators of the text w are at E[1] to E[n], and E[0] and E[n + 1] are
\* next to its ends.
Marked(w, sep, n, E) ==
  /\ E \in [0..n + 1 -> Int] /\ E[0] = 0 /\ E[n + 1] = Len(w) + 1
  /\ \A k \in 1..n : E[k] \in 1..Len(w) /\ w[E[k]] = sep
  /\ \A k \in 1..n : E[k - 1] < E[k] /\ \A i \in E[k - 1] + 1..E[k] - 1 : w[i] # sep

\* Up to the k-th there are k, and up to no other place with a separator.
Counted(w, sep, n, E) ==
  /\ \A i \in 0..Len(w) : Separators(w, sep, i) \in Nat /\ Separators(w, sep, i) <= i
  /\ \A k \in 0..n : Separators(w, sep, E[k]) = k
  /\ \A k \in 1..n : \A i \in 1..Len(w) :
       w[i] = sep /\ Separators(w, sep, i) = k => i = E[k]

LEMMA SeparatorsLemma ==
  ASSUME NEW A, NEW w \in Seq(A), NEW sep, NEW n \in Nat, NEW E, Marked(w, sep, n, E)
  PROVE  Counted(w, sep, n, E)
<1> DEFINE S(i) == {j \in 1..i : w[j] = sep}
<1>1. Len(w) \in Nat
  OBVIOUS
<1>2. \A i \in Nat : IsFiniteSet(S(i)) /\ Cardinality(S(i)) \in Nat /\ Cardinality(S(i)) <= i
  <2> SUFFICES ASSUME NEW i \in Nat
               PROVE  IsFiniteSet(S(i)) /\ Cardinality(S(i)) \in Nat /\ Cardinality(S(i)) <= i
    OBVIOUS
  <2>1. IsFiniteSet(1..i) /\ Cardinality(1..i) = IF 1 > i THEN 0 ELSE i - 1 + 1
    <3>1. 1 \in Int /\ i \in Int
      OBVIOUS
    <3>2. QED  BY <3>1, FS_Interval
  <2>2. Cardinality(1..i) = i
    BY <2>1
  <2>3. S(i) \in SUBSET (1..i)
    OBVIOUS
  <2> HIDE DEF S
  <2>4. IsFiniteSet(S(i)) /\ Cardinality(S(i)) <= Cardinality(1..i)
    BY <2>1, <2>3, FS_Subset
  <2>5. QED  BY <2>2, <2>4, FS_CardinalityType
<1>3. \A k \in 1..n : S(E[k]) = S(E[k - 1]) \cup {E[k]} /\ E[k] \notin S(E[k - 1])
  <2> SUFFICES ASSUME NEW k \in 1..n
               PROVE  S(E[k]) = S(E[k - 1]) \cup {E[k]} /\ E[k] \notin S(E[k - 1])
    OBVIOUS
  <2>1. k - 1 \in 0..n + 1 /\ k \in 0..n + 1
    OBVIOUS
  <2> DEFINE a == E[k - 1]
             b == E[k]
  <2>2. a \in Int /\ b \in Int /\ b >= 1 /\ w[b] = sep /\ a < b
        /\ \A i \in a + 1..b - 1 : w[i] # sep
    BY <2>1 DEF Marked
  <2> HIDE DEF a, b
  <2>3. S(b) = S(a) \cup {b} /\ b \notin S(a)
    BY <2>2
  <2>4. QED  BY <2>3 DEF a, b
<1>4. \A k \in 0..n : E[k] \in 0..Len(w)
  BY <1>1 DEF Marked
<1> DEFINE P == {k \in Nat : k <= n => Cardinality(S(E[k])) = k}
<1>5. 0 \in P
  <2>1. S(E[0]) = {}
    BY DEF Marked
  <2>2. QED  BY <2>1, FS_EmptySet
<1>6. \A k \in Nat : k \in P => k + 1 \in P
  <2> SUFFICES ASSUME NEW k \in Nat, k \in P, k + 1 <= n
               PROVE  Cardinality(S(E[k + 1])) = k + 1
    OBVIOUS
  <2>1. k + 1 \in 1..n /\ (k + 1) - 1 = k /\ k \in 0..n /\ Cardinality(S(E[k])) = k
    OBVIOUS
  <2>2. S(E[k + 1]) = S(E[k]) \cup {E[k + 1]} /\ E[k + 1] \notin S(E[k])
    BY <1>3, <2>1
  <2>3. IsFiniteSet(S(E[k]))
    BY <1>2, <1>4, <2>1
  <2> HIDE DEF S
  <2> DEFINE x == E[k + 1]
             T == S(E[k])
  <2>4. IsFiniteSet(T) /\ x \notin T /\ S(x) = T \cup {x} /\ Cardinality(T) = k
    BY <2>1, <2>2, <2>3
  <2> HIDE DEF T, x
  <2>5. Cardinality(T \cup {x}) = Cardinality(T) + 1
    BY <2>4, FS_AddElement
  <2>6. QED  BY <2>4, <2>5 DEF x
<1>7. \A k \in 0..n : Cardinality(S(E[k])) = k
  <2> HIDE DEF P
  <2>1. \A k \in Nat : k \in P
    BY <1>5, <1>6, NumberInduction
  <2>2. QED  BY <2>1 DEF P
<1>8. ASSUME NEW k \in 1..n, NEW i \in 1..Len(w), w[i] = sep, Cardinality(S(i)) = k
      PROVE  i = E[k]
  <2>1. E[k] \in 1..Len(w) /\ w[E[k]] = sep /\ Cardinality(S(E[k])) = k
    <3>1. k \in 0..n
      OBVIOUS
    <3>2. QED  BY <1>7, <3>1 DEF Marked
  <2> DEFINE b == E[k]
  <2>2. /\ S(i) \in SUBSET S(b) \/ S(b) \in SUBSET S(i)
        /\ i \in S(i) /\ b \in S(b)
        /\ i < b => b \notin S(i)
        /\ b < i => i \notin S(b)
    BY <1>1, <1>8, <2>1
  <2>3. IsFiniteSet(S(i)) /\ IsFiniteSet(S(b)) /\ Cardinality(S(b)) = Cardinality(S(i))
    BY <1>1, <1>2, <1>8, <2>1
  <2> HIDE DEF S
  <2>4. S(i) = S(b)
    BY <2>2, <2>3, FS_Subset
  <2>5. i \in Int /\ b \in Int
    BY <1>1, <2>1
  <2> HIDE DEF b
  <2>6. i = b
    BY <2>2, <2>4, <2>5
  <2>7. QED  BY <2>6 DEF b
<1>9. \A i : Separators(w, sep, i) = Cardinality(S(i))
  BY DEF Separators
<1> HIDE DEF S
<1>10. QED
  <2>1. \A i \in 0..Len(w) : i \in Nat
    BY <1>1
  <2>2. \A i \in 0..Len(w) : Separators(w, sep, i) \in Nat /\ Separators(w, sep, i) <= i
    BY <1>2, <1>9, <2>1
  <2>3. \A k \in 1..n : \A i \in 1..Len(w) :
              w[i] = sep /\ Separators(w, sep, i) = k => i = E[k]
    BY <1>8, <1>9
  <2>4. \A k \in 0..n : Separators(w, sep, E[k]) = k
    BY <1>7, <1>9
  <2>5. QED  BY <2>2, <2>3, <2>4 DEF Counted

\* The fields are what is between the places of the separators.
LEMMA FieldsLemma ==
  ASSUME NEW A, NEW w \in Seq(A), NEW sep, NEW n \in Nat, NEW E, Marked(w, sep, n, E)
  PROVE  Fields(w, sep, n) = [k \in 1..n + 1 |-> SubSeq(w, E[k - 1] + 1, E[k] - 1)]
<1> DEFINE at(k) == CHOOSE i \in DOMAIN w : w[i] = sep /\ Separators(w, sep, i) = k
           cut == [k \in 0..n + 1 |-> IF k = 0 THEN 0 ELSE IF k > n THEN Len(w) + 1 ELSE at(k)]
<1>0. /\ \A k \in 0..n : Separators(w, sep, E[k]) = k
      /\ \A k \in 1..n : \A i \in 1..Len(w) :
           w[i] = sep /\ Separators(w, sep, i) = k => i = E[k]
  <2>1. Counted(w, sep, n, E)
    BY SeparatorsLemma
  <2>2. QED  BY <2>1 DEF Counted
<1>1. \A k \in 1..n : at(k) = E[k]
  <2> SUFFICES ASSUME NEW k \in 1..n  PROVE at(k) = E[k]
    OBVIOUS
  <2>1. k \in 0..n /\ DOMAIN w = 1..Len(w)
    OBVIOUS
  <2>2. E[k] \in DOMAIN w /\ w[E[k]] = sep /\ Separators(w, sep, E[k]) = k
    BY <1>0, <2>1 DEF Marked
  <2>3. \A i \in DOMAIN w : w[i] = sep /\ Separators(w, sep, i) = k => i = E[k]
    BY <1>0, <2>1
  <2>4. QED  BY <2>2, <2>3
<1> HIDE DEF at
<1>2. \A k \in 0..n + 1 : cut[k] = E[k]
  <2> SUFFICES ASSUME NEW k \in 0..n + 1  PROVE cut[k] = E[k]
    OBVIOUS
  <2>1. CASE k = 0
    BY <2>1 DEF Marked
  <2>2. CASE k = n + 1
    BY <2>2 DEF Marked
  <2>3. CASE k \in 1..n
    BY <2>3, <1>1
  <2>4. QED  BY <2>1, <2>2, <2>3
<1>3. Fields(w, sep, n) = [k \in 1..n + 1 |-> SubSeq(w, cut[k - 1] + 1, cut[k] - 1)]
  BY DEF Fields, at
<1> HIDE DEF cut
<1>4. \A k \in 1..n + 1 : k \in 0..n + 1 /\ k - 1 \in 0..n + 1
  OBVIOUS
<1>5. QED  BY <1>2, <1>3, <1>4

\* Texts of which all but the last are without the separator.
Separable(f, sep) == \A k \in 1..Len(f) - 1 : \A j \in 1..Len(f[k]) : f[k][j] # sep

\* The separators that join put there are the first ones, and each field is between two.
LEMMA JoinedLemma ==
  ASSUME NEW A, NEW f \in Seq(Seq(A)), f # <<>>, NEW sep \in A, Separable(f, sep)
  PROVE  /\ Join(f, sep) \in Seq(A)
         /\ \E E : /\ Marked(Join(f, sep), sep, Len(f) - 1, E)
                   /\ \A k \in 1..Len(f) : f[k] = SubSeq(Join(f, sep), E[k - 1] + 1, E[k] - 1)
<1> DEFINE m == Len(f)
           g == [i \in DOMAIN f |-> IF i = 1 THEN f[i] ELSE <<sep>> \o f[i]]
           w == Join(f, sep)
           E == [k \in 0..m |-> IF k = 0 THEN 0 ELSE Offset(g, k) + 1]
<1>1. m \in Nat /\ m >= 1 /\ DOMAIN f = 1..m /\ \A k \in 1..m : f[k] \in Seq(A) /\ Len(f[k]) \in Nat
  OBVIOUS
<1>2. g \in Seq(Seq(A)) /\ Len(g) = m /\ DOMAIN g = 1..m
  <2>1. \A i \in 1..m : <<sep>> \o f[i] \in Seq(A)
    BY <1>1
  <2>2. g \in [1..m -> Seq(A)]
    BY <1>1, <2>1
  <2> HIDE DEF g
  <2>3. QED  BY <1>1, <2>2, SequenceLemma
<1>3. w = FlattenSeq(g)
  BY DEF Join
<1>4. \A k \in 1..m : /\ k = 1 => g[k] = f[k]
                      /\ k > 1 => g[k] = <<sep>> \o f[k]
  BY <1>1
<1> HIDE DEF g, w
<1>5. /\ w \in Seq(A) /\ Len(w) \in Nat
      /\ Offset(g, 0) = 0 /\ Offset(g, m) = Len(w)
      /\ \A k \in 0..m : Offset(g, k) \in Nat /\ Offset(g, k) <= Len(w)
      /\ \A k \in 1..m : /\ Offset(g, k) = Offset(g, k - 1) + Len(g[k])
                         /\ \A j \in 1..Len(g[k]) : w[Offset(g, k - 1) + j] = g[k][j]
  <2>1. /\ FlattenSeq(g) \in Seq(A)
        /\ Offset(g, 0) = 0 /\ Offset(g, Len(g)) = Len(FlattenSeq(g))
        /\ \A k \in 0..Len(g) :
             /\ Offset(g, k) \in Nat /\ Offset(g, k) <= Len(FlattenSeq(g))
             /\ SubSeq(FlattenSeq(g), 1, Offset(g, k)) = FlattenSeq(SubSeq(g, 1, k))
        /\ \A k \in 1..Len(g) :
             /\ Len(g[k]) \in Nat /\ Offset(g, k) = Offset(g, k - 1) + Len(g[k])
             /\ \A j \in 1..Len(g[k]) : FlattenSeq(g)[Offset(g, k - 1) + j] = g[k][j]
    BY <1>2, FlattenLemma
  <2>2. QED  BY <1>2, <1>3, <2>1
<1> HIDE DEF m
<1>6. ASSUME NEW k \in 1..m
      PROVE  /\ E[k] = E[k - 1] + Len(f[k]) + 1
             /\ E[k - 1] \in Nat /\ E[k] \in Nat /\ E[k] <= Len(w) + 1
             /\ k > 1 => w[E[k - 1]] = sep /\ E[k - 1] \in 1..Len(w)
             /\ \A j \in 1..Len(f[k]) : w[E[k - 1] + j] = f[k][j]
  <2> DEFINE a == Offset(g, k - 1)
             b == Offset(g, k)
             l == Len(f[k])
  <2>1. k \in Nat /\ k - 1 \in 0..m /\ k \in 0..m /\ k >= 1
    BY <1>1
  <2>2. /\ a \in Nat /\ b \in Nat /\ a <= Len(w) /\ b <= Len(w)
        /\ b = a + Len(g[k]) /\ l \in Nat /\ f[k] \in Seq(A)
        /\ \A j \in 1..Len(g[k]) : w[a + j] = g[k][j]
    BY <1>1, <1>5, <2>1
  <2>3. E[k] = b + 1 /\ E[k - 1] = IF k = 1 THEN 0 ELSE a + 1
    BY <2>1
  <2>4. CASE k = 1
    <3>1. a = 0 /\ g[k] = f[k]
      BY <1>4, <1>5, <2>4
    <3> HIDE DEF a, b, E
    <3>2. QED  BY <1>5, <2>1, <2>2, <2>3, <2>4, <3>1
  <2>5. CASE k > 1
    <3>1. g[k] = <<sep>> \o f[k]
      BY <1>4, <2>5
    <3>2. /\ Len(g[k]) = l + 1 /\ g[k][1] = sep
          /\ \A j \in 1..l : g[k][j + 1] = f[k][j]
      BY <2>2, <3>1
    <3> DEFINE x == E[k - 1]
               y == E[k]
    <3> HIDE DEF a, b, E, l
    <3>3. x = a + 1 /\ b = a + l + 1 /\ y = b + 1
      BY <2>1, <2>2, <2>3, <2>5, <3>2
    <3> HIDE DEF x, y
    <3>4. w[a + 1] = sep /\ \A j \in 1..l : w[a + (j + 1)] = f[k][j]
      <4>1. l \in Nat /\ Len(g[k]) = l + 1
        BY <2>2, <3>2 DEF l
      <4>2. 1 \in 1..Len(g[k]) /\ \A j \in 1..l : j + 1 \in 1..Len(g[k])
        BY <4>1
      <4>3. QED  BY <2>2, <3>2, <4>2
    <3>5. \A j \in 1..l : w[x + j] = f[k][j]
      <4>1. \A j \in 1..l : x + j = a + (j + 1)
        BY <2>2, <3>3
      <4>2. QED  BY <3>4, <4>1
    <3>6. y = x + l + 1 /\ x \in 1..Len(w) /\ y <= Len(w) + 1 /\ x \in Nat /\ y \in Nat
      BY <1>5, <2>2, <3>3
    <3>7. w[x] = sep
      BY <3>3, <3>4
    <3>8. QED  BY <3>5, <3>6, <3>7 DEF l, x, y
  <2>6. QED  BY <2>1, <2>4, <2>5
<1>7. E \in [0..m -> Int] /\ E[0] = 0 /\ E[m] = Len(w) + 1
  BY <1>1, <1>5
<1> HIDE DEF E
<1>8. ASSUME NEW k \in 1..m  PROVE f[k] = SubSeq(w, E[k - 1] + 1, E[k] - 1)
  <2> DEFINE a == E[k - 1]
             b == E[k]
  <2>1. /\ b = a + Len(f[k]) + 1 /\ a \in Nat /\ b \in Nat /\ b <= Len(w) + 1
        /\ \A j \in 1..Len(f[k]) : w[a + j] = f[k][j]
        /\ f[k] \in Seq(A) /\ Len(f[k]) \in Nat
    BY <1>1, <1>6
  <2> DEFINE q == SubSeq(w, a + 1, b - 1)
  <2> HIDE DEF a, b
  <2>2. q \in Seq(A) /\ Len(q) = Len(f[k]) /\ \A j \in 1..Len(f[k]) : q[j] = w[a + j]
    <3> DEFINE l == Len(f[k])
    <3>1. w \in Seq(A) /\ a \in Nat /\ l \in Nat /\ b = a + l + 1 /\ b <= Len(w) + 1
      BY <1>5, <2>1
    <3> HIDE DEF l
    <3>2. Len(q) = l
      BY <3>1
    <3>3. \A j \in 1..l : q[j] = w[a + j]
      BY <3>1
    <3>4. q \in Seq(A)
      BY <3>1
    <3>5. QED  BY <3>2, <3>3, <3>4 DEF l
  <2> DEFINE h == f[k]
  <2>3. h \in Seq(A) /\ Len(q) = Len(h) /\ \A j \in 1..Len(q) : q[j] = h[j]
    BY <2>1, <2>2
  <2> HIDE DEF q, h
  <2>4. q = h
    BY <2>2, <2>3, SeqEqual
  <2>5. QED  BY <2>4 DEF q, h, a, b
<1>9. Marked(w, sep, m - 1, E)
  <2>1. ASSUME NEW k \in 1..m - 1
        PROVE  /\ E[k] \in 1..Len(w) /\ w[E[k]] = sep /\ E[k - 1] < E[k]
               /\ \A i \in E[k - 1] + 1..E[k] - 1 : w[i] # sep
    <3>1. k \in 1..m /\ k + 1 \in 1..m /\ k + 1 > 1 /\ (k + 1) - 1 = k
      BY <1>1
    <3>2. E[k] \in 1..Len(w) /\ w[E[k]] = sep
      BY <1>6, <3>1
    <3> DEFINE a == E[k - 1]
               b == E[k]
    <3>3. /\ b = a + Len(f[k]) + 1 /\ a \in Nat /\ b \in Nat /\ Len(f[k]) \in Nat
          /\ \A j \in 1..Len(f[k]) : w[a + j] = f[k][j]
      BY <1>1, <1>6, <3>1
    <3>4. \A j \in 1..Len(f[k]) : f[k][j] # sep
      BY DEF Separable, m
    <3> HIDE DEF a, b
    <3>5. ASSUME NEW i \in a + 1..b - 1  PROVE w[i] # sep
      <4>1. i - a \in 1..Len(f[k]) /\ a + (i - a) = i
        BY <3>3
      <4>2. QED  BY <3>3, <3>4, <4>1
    <3>6. a < b
      BY <3>3
    <3>7. QED  BY <3>2, <3>5, <3>6 DEF a, b
  <2>2. (m - 1) + 1 = m
    BY <1>1
  <2>3. QED  BY <1>7, <2>1, <2>2 DEF Marked
<1>10. QED
  <2>1. \A k \in 1..Len(f) : f[k] = SubSeq(w, E[k - 1] + 1, E[k] - 1)
    BY <1>8 DEF m
  <2>2. Marked(w, sep, Len(f) - 1, E)
    BY <1>9 DEF m
  <2>3. QED  BY <1>5, <2>1, <2>2 DEF w

\* What was joined is split into the fields it was made of, all separators counted when
\* no field has one, or as many as were put there when only the last field has some.
LEMMA SplitLemma ==
  ASSUME NEW A, NEW f \in Seq(Seq(A)), f # <<>>, NEW sep \in A, Separable(f, sep),
         NEW most, \/ most = Len(f) - 1
                   \/ /\ most = Len(Join(f, sep))
                      /\ \A j \in 1..Len(f[Len(f)]) : f[Len(f)][j] # sep
  PROVE  Split(Join(f, sep), sep, most) = f
<1> DEFINE n == Len(f) - 1
           w == Join(f, sep)
           all == Separators(w, sep, Len(w))
<1>1. n \in Nat /\ n + 1 = Len(f) /\ DOMAIN f = 1..n + 1
  OBVIOUS
<1>2. w \in Seq(A) /\ Len(w) \in Nat
  BY JoinedLemma
<1>3. PICK E : /\ Marked(w, sep, n, E)
               /\ \A k \in 1..Len(f) : f[k] = SubSeq(w, E[k - 1] + 1, E[k] - 1)
  BY JoinedLemma
<1> HIDE DEF w
<1>4. Counted(w, sep, n, E)
  <2> HIDE DEF n
  <2>1. QED  BY <1>1, <1>2, <1>3, SeparatorsLemma
<1>5. all \in Nat /\ all <= Len(w)
  BY <1>2, <1>4 DEF Counted
<1>6. E[n] \in 0..Len(w) /\ Separators(w, sep, E[n]) = n
  <2>1. n \in 0..n /\ (n = 0 \/ n \in 1..n)
    BY <1>1
  <2>2. Separators(w, sep, E[n]) = n
    BY <1>4, <2>1 DEF Counted
  <2>3. E[n] \in 0..Len(w)
    <3>1. E[0] = 0 /\ \A k \in 1..n : E[k] \in 1..Len(w)
      BY <1>3 DEF Marked
    <3> HIDE DEF n
    <3>2. CASE n = 0
      BY <1>2, <3>1, <3>2
    <3>3. CASE n \in 1..n
      BY <1>2, <3>1, <3>3
    <3>4. QED  BY <2>1, <3>2, <3>3
  <2>4. QED  BY <2>2, <2>3
<1> DEFINE S(i) == {j \in 1..i : w[j] = sep}
<1>7. n <= all
  <2>1. IsFiniteSet(1..Len(w))
    BY <1>2, FS_Interval
  <2>2. S(Len(w)) \in SUBSET (1..Len(w)) /\ S(E[n]) \in SUBSET S(Len(w))
    BY <1>2, <1>6
  <2> HIDE DEF S
  <2>3. Cardinality(S(E[n])) <= Cardinality(S(Len(w)))
    BY <2>1, <2>2, FS_Subset
  <2>4. QED  BY <1>6, <2>3 DEF S, Separators
<1>8. Min({most, all}) = n
  <2>1. CASE most = n
    <3>1. \A x \in {n, all} : x \in Nat
      BY <1>1, <1>5
    <3>2. QED  BY <1>1, <1>5, <1>7, <2>1, <3>1 DEF Min
  <2>2. CASE most = Len(w) /\ \A j \in 1..Len(f[n + 1]) : f[n + 1][j] # sep
    <3>1. f[n + 1] = SubSeq(w, E[n] + 1, Len(w))
      <4>1. n + 1 \in 1..Len(f) /\ (n + 1) - 1 = n
        BY <1>1
      <4>2. E[n + 1] - 1 = Len(w)
        BY <1>2, <1>3 DEF Marked
      <4>3. QED  BY <1>3, <4>1, <4>2
    <3> DEFINE e == E[n]
    <3>2. e \in 0..Len(w)
      BY <1>6
    <3> HIDE DEF e
    <3> DEFINE q == SubSeq(w, e + 1, Len(w))
    <3>3. Len(q) = Len(w) - e /\ \A j \in 1..Len(w) - e : q[j] = w[e + j]
      BY <1>2, <3>2
    <3>4. q = f[n + 1]
      BY <3>1 DEF e
    <3> HIDE DEF q
    <3>5. ASSUME NEW i \in e + 1..Len(w)  PROVE w[i] # sep
      <4>1. i - e \in 1..Len(w) - e /\ e + (i - e) = i
        BY <1>2, <3>2
      <4>2. QED  BY <2>2, <3>3, <3>4, <4>1
    <3>6. S(Len(w)) = S(e)
      BY <1>2, <3>2, <3>5
    <3>7. all = n
      BY <1>6, <3>6 DEF Separators, e
    <3>8. n <= Len(w) /\ n \in Nat
      BY <1>1, <1>5, <3>7
    <3>9. QED  BY <1>2, <2>2, <3>7, <3>8 DEF Min
  <2>3. QED  BY <1>1, <2>1, <2>2 DEF w
<1>9. Split(w, sep, most) = Fields(w, sep, n)
  BY <1>8 DEF Split
<1>10. Fields(w, sep, n) = [k \in 1..n + 1 |-> SubSeq(w, E[k - 1] + 1, E[k] - 1)]
  <2> HIDE DEF n
  <2>1. QED  BY <1>1, <1>2, <1>3, FieldsLemma
<1>11. f = [k \in 1..n + 1 |-> f[k]]
  BY <1>1
<1>12. [k \in 1..n + 1 |-> SubSeq(w, E[k - 1] + 1, E[k] - 1)] = [k \in 1..n + 1 |-> f[k]]
  BY <1>1, <1>3
<1>13. QED  BY <1>9, <1>10, <1>11, <1>12 DEF w

\* The prover does not know that these are members of STRING.
Tokens == STRING \cup {"0", "/", "|"}

LEMMA TokensLemma ==
  /\ Labels \cup Tasks \cup Owners \cup States \cup Steps \subseteq Seq(Tokens)
  /\ "0" \in Tokens /\ "/" \in Tokens /\ "|" \in Tokens
<1>1. \A S, T : S \subseteq T => Seq(S) \subseteq Seq(T)
  OBVIOUS
<1>2. STRING \subseteq Tokens /\ "0" \in Tokens /\ "/" \in Tokens /\ "|" \in Tokens
  BY DEF Tokens
<1>3. QED  BY <1>1, <1>2, RecordAssumption

Addresses == Labels \X Labels \X Labels
Checkpoints == [task : Tasks, owner : Owners, step : Steps, state : States]
Written(cp) == Join(<<cp.task, cp.owner, cp.step, cp.state>>, "|")

LEMMA AddressLemma ==
  ASSUME WithoutSeparators, NEW a \in Addresses
  PROVE  EncodeAddress(a) \in Seq(Tokens) /\ DecodeAddress(EncodeAddress(a)) = Returned(a)
<1> DEFINE f == <<a[1], a[2], a[3], <<"0">>, <<"0">>>>
           w == Join(f, "/")
<1>1. a[1] \in Labels /\ a[2] \in Labels /\ a[3] \in Labels /\ a = <<a[1], a[2], a[3]>>
  BY DEF Addresses
<1>2. \A x \in Labels : x \in Seq(Tokens) /\ \A j \in 1..Len(x) : x[j] # "/"
  BY TokensLemma DEF WithoutSeparators, Range
<1>3. f \in Seq(Seq(Tokens)) /\ f # <<>> /\ Len(f) = 5 /\ "/" \in Tokens
  <2>1. \A S : \A x, y, z, u, v \in S : <<x, y, z, u, v>> \in Seq(S)
    OBVIOUS
  <2>2. <<"0">> \in Seq(Tokens)
    <3>1. \A S : \A x \in S : <<x>> \in Seq(S)
      OBVIOUS
    <3>2. "0" \in Tokens
      BY TokensLemma
    <3>3. QED  BY <3>1, <3>2
  <2>3. a[1] \in Seq(Tokens) /\ a[2] \in Seq(Tokens) /\ a[3] \in Seq(Tokens)
    BY <1>1, <1>2
  <2>4. f \in Seq(Seq(Tokens))
    BY <2>1, <2>2, <2>3
  <2>5. f # <<>> /\ Len(f) = 5 /\ "/" \in Tokens
    BY TokensLemma
  <2>6. QED  BY <2>4, <2>5
<1>4. \A k \in 1..Len(f) : \A j \in 1..Len(f[k]) : f[k][j] # "/"
  <2>1. \A j \in 1..Len(<<"0">>) : <<"0">>[j] # "/"
    OBVIOUS
  <2>2. /\ f[1] = a[1] /\ f[2] = a[2] /\ f[3] = a[3] /\ f[4] = <<"0">> /\ f[5] = <<"0">>
        /\ \A k \in 1..5 : k = 1 \/ k = 2 \/ k = 3 \/ k = 4 \/ k = 5
    OBVIOUS
  <2> HIDE DEF f
  <2>3. QED  BY <1>1, <1>2, <1>3, <2>1, <2>2
<1>5. SubSeq(f, 1, 3) = a
  <2>1. SubSeq(f, 1, 3) = <<f[1], f[2], f[3]>>
    <3> DEFINE q == SubSeq(f, 1, 3)
               h == <<a[1], a[2], a[3]>>
    <3>1. f[1] = a[1] /\ f[2] = a[2] /\ f[3] = a[3]
      OBVIOUS
    <3> HIDE DEF f
    <3>2. q \in Seq(Seq(Tokens)) /\ Len(q) = 3 /\ q[1] = f[1] /\ q[2] = f[2] /\ q[3] = f[3]
      <4>1. \A S : \A g \in Seq(S) : Len(g) = 5 =>
              /\ SubSeq(g, 1, 3) \in Seq(S) /\ Len(SubSeq(g, 1, 3)) = 3
              /\ \A i \in 1..3 : SubSeq(g, 1, 3)[i] = g[i]
        OBVIOUS
      <4>2. QED  BY <1>3, <4>1
    <3>3. h \in Seq(Seq(Tokens)) /\ Len(h) = 3 /\ h[1] = a[1] /\ h[2] = a[2] /\ h[3] = a[3]
      <4>1. \A S : \A x, y, z \in S : <<x, y, z>> \in Seq(S)
        OBVIOUS
      <4>2. QED  BY <1>1, <1>2, <4>1
    <3> HIDE DEF q, h
    <3>4. \A i \in 1..Len(q) : q[i] = h[i]
      BY <3>1, <3>2, <3>3
    <3>5. q = h
      BY <3>2, <3>3, <3>4, SeqEqual
    <3>6. QED  BY <3>1, <3>5 DEF q, h
  <2>2. QED  BY <1>1, <2>1
<1> HIDE DEF f
<1>6. Separable(f, "/") /\ \A j \in 1..Len(f[Len(f)]) : f[Len(f)][j] # "/"
  BY <1>3, <1>4 DEF Separable
<1>7. w \in Seq(Tokens)
  BY <1>3, <1>6, JoinedLemma
<1>8. Split(w, "/", Len(w)) = f
  BY <1>3, <1>6, SplitLemma
<1>9. EncodeAddress(a) = w
  BY DEF EncodeAddress, f
<1> HIDE DEF w
<1>10. QED  BY <1>3, <1>5, <1>7, <1>8, <1>9 DEF DecodeAddress

LEMMA CheckpointLemma ==
  ASSUME WithoutSeparators, NEW cp \in Checkpoints
  PROVE  Split(Written(cp), "|", 3) = <<cp.task, cp.owner, cp.step, cp.state>>
<1> DEFINE f == <<cp.task, cp.owner, cp.step, cp.state>>
<1>1. cp.task \in Tasks /\ cp.owner \in Owners /\ cp.step \in Steps /\ cp.state \in States
  BY DEF Checkpoints
<1>2. /\ \A x \in Tasks \cup Owners \cup Steps \cup States : x \in Seq(Tokens)
      /\ \A x \in Tasks \cup Owners \cup Steps : \A j \in 1..Len(x) : x[j] # "|"
  BY TokensLemma DEF WithoutSeparators, Range
<1>3. f \in Seq(Seq(Tokens)) /\ f # <<>> /\ Len(f) - 1 = 3 /\ "|" \in Tokens
  <2>1. \A S : \A x, y, z, u \in S : <<x, y, z, u>> \in Seq(S)
    OBVIOUS
  <2>2. \A x \in {cp.task, cp.owner, cp.step, cp.state} : x \in Seq(Tokens)
    BY <1>1, <1>2
  <2>3. f \in Seq(Seq(Tokens))
    BY <2>1, <2>2
  <2>4. f # <<>> /\ Len(f) - 1 = 3 /\ "|" \in Tokens
    BY TokensLemma
  <2>5. QED  BY <2>3, <2>4
<1>4. \A k \in 1..3 : \A j \in 1..Len(f[k]) : f[k][j] # "|"
  <2>1. /\ f[1] = cp.task /\ f[2] = cp.owner /\ f[3] = cp.step
        /\ \A k \in 1..3 : k = 1 \/ k = 2 \/ k = 3
    OBVIOUS
  <2> HIDE DEF f
  <2>2. QED  BY <1>1, <1>2, <2>1
<1> HIDE DEF f
<1>5. Separable(f, "|")
  BY <1>3, <1>4 DEF Separable
<1>6. Split(Join(f, "|"), "|", 3) = f
  BY <1>3, <1>5, SplitLemma
<1>7. QED  BY <1>6 DEF Written, f

\* Each address in the book is one that was registered under its id, each snapshot the
\* text of the checkpoint that was saved.
RecordInv ==
  /\ book \in Seq(Seq(Tokens))
  /\ \A i \in DOMAIN book : \E r \in registered :
       r.id = i /\ r.address \in Addresses /\ book[i] = EncodeAddress(r.address)
  /\ \A w \in snapshots : w.saved \in Checkpoints /\ w.text = Written(w.saved)
  /\ ReadsBack

LEMMA RecordInvInit == RecordInit => RecordInv
  BY DEF RecordInit, RecordInv, ReadsBack

LEMMA RegisterStep ==
  ASSUME WithoutSeparators, RecordInv, NEW a \in Addresses, RegisterCall(a)
  PROVE  RecordInv'
<1> DEFINE line == EncodeAddress(a)
           new  == [address |-> a, id |-> CHOOSE i \in DOMAIN book' : book'[i] = line]
<1>1. /\ book' = IF line \in Range(book) THEN book ELSE Append(book, line)
      /\ registered' = registered \cup {new}
      /\ UNCHANGED <<resolved, restored, snapshots>>
  BY DEF RegisterCall, Register
<1>2. line \in Seq(Tokens)
  BY AddressLemma
<1>3. book \in Seq(Seq(Tokens)) /\ Len(book) \in Nat /\ DOMAIN book = 1..Len(book)
  BY DEF RecordInv
<1>4. book' \in Seq(Seq(Tokens))
  <2>1. \A S : \A q \in Seq(S) : \A x \in S : Append(q, x) \in Seq(S)
    OBVIOUS
  <2> HIDE DEF line, new
  <2>2. QED  BY <1>1, <1>2, <1>3, <2>1
<1>5. ASSUME NEW i \in DOMAIN book'
      PROVE  \E r \in registered' :
               r.id = i /\ r.address \in Addresses /\ book'[i] = EncodeAddress(r.address)
  <2>1. CASE i \in DOMAIN book /\ book'[i] = book[i]
    BY <1>1, <2>1 DEF RecordInv
  <2>2. CASE ~(i \in DOMAIN book /\ book'[i] = book[i])
    <3>1. line \notin Range(book) /\ book' = Append(book, line)
      BY <1>1, <2>2
    <3>2. \A j \in DOMAIN book : book[j] # line
      BY <3>1 DEF Range
    <3> HIDE DEF line
    <3>3. i = Len(book) + 1 /\ book'[i] = line
          /\ \A j \in DOMAIN book' : book'[j] = line => j = i
      BY <1>2, <1>3, <2>2, <3>1, <3>2
    <3>4. new.id = i /\ new.address = a
      BY <3>3
    <3> HIDE DEF new
    <3>5. QED  BY <1>1, <3>3, <3>4 DEF line
  <2>3. QED  BY <2>1, <2>2
<1> HIDE DEF new
<1>6. ReadsBack'
  BY <1>1 DEF RecordInv, ReadsBack
<1>7. QED  BY <1>1, <1>4, <1>5, <1>6 DEF RecordInv

LEMMA ResolveStep ==
  ASSUME WithoutSeparators, RecordInv, NEW i \in DOMAIN book, Resolve(i)
  PROVE  RecordInv'
<1>1. PICK r \in registered : r.id = i /\ r.address \in Addresses /\ book[i] = EncodeAddress(r.address)
  BY DEF RecordInv
<1>2. DecodeAddress(book[i]) = Returned(r.address)
  BY <1>1, AddressLemma
<1>3. resolved' = [id |-> r.id, got |-> Returned(r.address)]
  BY <1>1, <1>2 DEF Resolve
<1>4. UNCHANGED <<book, registered, snapshots, restored>>
  BY DEF Resolve
<1>5. ReadsBack'
  BY <1>3, <1>4 DEF RecordInv, ReadsBack
<1>6. QED  BY <1>4, <1>5 DEF RecordInv

LEMMA RestoreStep ==
  ASSUME WithoutSeparators, RecordInv, NEW w \in snapshots, Restore(w)
  PROVE  RecordInv'
<1> DEFINE c == w.saved
           parts == Split(w.text, "|", 3)
<1>1. c \in Checkpoints /\ w.text = Written(c)
  BY DEF RecordInv
<1>2. parts = <<c.task, c.owner, c.step, c.state>>
  BY <1>1, CheckpointLemma
<1>3. /\ Len(parts) = 4 /\ parts[3] \in Steps
      /\ c = [task |-> parts[1], owner |-> parts[2], step |-> parts[3], state |-> parts[4]]
  BY <1>1, <1>2 DEF Checkpoints
<1> HIDE DEF parts, c
<1>4. restored'.got = Returned(restored'.saved) /\ UNCHANGED <<book, registered, resolved, snapshots>>
  BY <1>3 DEF Restore, parts, c
<1>5. ReadsBack'
  BY <1>4 DEF RecordInv, ReadsBack
<1>6. QED  BY <1>4, <1>5 DEF RecordInv

LEMMA RecordInvNext ==
  ASSUME WithoutSeparators, RecordInv, [RecordNext]_recordVars
  PROVE  RecordInv'
<1>1. ASSUME NEW x \in Labels, NEW y \in Labels, NEW z \in Labels, RegisterCall(<<x, y, z>>)
      PROVE  RecordInv'
  <2>1. <<x, y, z>> \in Addresses
    BY DEF Addresses
  <2>2. QED  BY <1>1, <2>1, RegisterStep
<1>2. ASSUME NEW i \in DOMAIN book, Resolve(i)  PROVE RecordInv'
  BY <1>2, ResolveStep
<1>3. ASSUME NEW cp \in Checkpoints, Snapshot(cp)  PROVE RecordInv'
  <2>1. /\ snapshots' = snapshots \cup {[saved |-> cp, text |-> Written(cp)]}
        /\ UNCHANGED <<book, registered, resolved, restored>>
    BY <1>3 DEF Snapshot, Written
  <2>2. ReadsBack'
    BY <2>1 DEF RecordInv, ReadsBack
  <2>3. QED  BY <2>1, <2>2 DEF RecordInv
<1>4. ASSUME NEW w \in snapshots, Restore(w)  PROVE RecordInv'
  BY <1>4, RestoreStep
<1>5. ASSUME UNCHANGED <<book, registered, resolved, snapshots, restored>>  PROVE RecordInv'
  <2>1. ReadsBack'
    BY <1>5 DEF RecordInv, ReadsBack
  <2>2. QED  BY <1>5, <2>1 DEF RecordInv
<1>6. ASSUME NEW t \in DOMAIN store, NEW o \in Owners, Reassign(t, o)  PROVE RecordInv'
  BY <1>5, <1>6 DEF Reassign
<1>7. CASE Restart
  BY <1>5, <1>7 DEF Restart
<1>8. CASE UNCHANGED recordVars
  BY <1>5, <1>8 DEF recordVars
<1>9. \A t \in Tasks, o \in Owners, n \in Steps, s \in States :
        [task |-> t, owner |-> o, step |-> n, state |-> s] \in Checkpoints
  BY DEF Checkpoints
<1>10. QED  BY <1>1, <1>2, <1>3, <1>4, <1>6, <1>7, <1>8, <1>9 DEF RecordNext

\* When only the states hold separators, what resolve and restore return is what was
\* registered and saved: for all names, tasks, owners, steps and states, over every
\* sequence of registrations, snapshots, losses of the store and reassignments.
THEOREM RecordsReadBack ==
  ASSUME WithoutSeparators
  PROVE  RecordSpec => []ReadsBack
<1>1. RecordInit => RecordInv
  BY RecordInvInit
<1>2. RecordInv /\ [RecordNext]_recordVars => RecordInv'
  BY RecordInvNext
<1>3. RecordInv => ReadsBack
  BY DEF RecordInv
<1>4. QED  BY <1>1, <1>2, <1>3, PTL DEF RecordSpec
=============================================================================
