---------------------------- MODULE StoreProofs ----------------------------
(****************************************************************************)
(* The store, proved: what the import of the version 1 files keeps, what a  *)
(* process remembers of the choices it learned, and what it remembers of    *)
(* the user's words, for any number of processes, words, rows, writes and   *)
(* faults.                                                                  *)
(****************************************************************************)
EXTENDS Store, Ordered, WellFoundedInduction, SequenceTheorems, FiniteSetTheorems,
        FunctionTheorems, TLAPS

-----------------------------------------------------------------------------
(* Orders                                                                   *)

Orders(R, S) ==
  /\ \A x \in S : <<x, x>> \notin R
  /\ \A x, y, z \in S : <<x, y>> \in R /\ <<y, z>> \in R => <<x, z>> \in R
  /\ \A x, y \in S : x # y => <<x, y>> \in R \/ <<y, x>> \in R

(* The elements of a finite set have the places 1 to n, in their order.     *)
LEMMA PlaceType ==
  ASSUME NEW S, IsFiniteSet(S), NEW R, Orders(R, S), NEW x \in S
  PROVE  Place(x, S, R) \in 1 .. Cardinality(S)
<1> DEFINE B == {y \in S : <<y, x>> \in R}
<1>1. B \in SUBSET (S \ {x})
  BY DEF Orders
<1>2. IsFiniteSet(S \ {x}) /\ Cardinality(S \ {x}) = Cardinality(S) - 1
  BY FS_RemoveElement
<1>3. IsFiniteSet(B) /\ Cardinality(B) <= Cardinality(S) - 1
  <2> DEFINE T == S \ {x}
  <2>1. B \in SUBSET T /\ IsFiniteSet(T) /\ Cardinality(T) = Cardinality(S) - 1
    BY <1>1, <1>2
  <2> HIDE DEF B, T
  <2>2. IsFiniteSet(B) /\ Cardinality(B) <= Cardinality(T)
    BY <2>1, FS_Subset
  <2> QED
    BY <2>1, <2>2
<1>4. Cardinality(B) \in Nat /\ Cardinality(S) \in Nat
  BY <1>3, FS_CardinalityType
<1> QED
  BY <1>3, <1>4 DEF Place

LEMMA PlaceIncreases ==
  ASSUME NEW S, IsFiniteSet(S), NEW R, Orders(R, S),
         NEW x \in S, NEW y \in S, <<x, y>> \in R
  PROVE  Place(x, S, R) < Place(y, S, R)
<1> DEFINE B(z) == {u \in S : <<u, z>> \in R}
<1>1. B(x) \in SUBSET B(y)
  BY DEF Orders
<1>2. x \in B(y) /\ x \notin B(x)
  BY DEF Orders
<1>3. B(y) \in SUBSET S /\ IsFiniteSet(B(y))
  BY FS_Subset
<1>4. IsFiniteSet(B(x)) /\ Cardinality(B(x)) <= Cardinality(B(y))
  BY <1>1, <1>3, FS_Subset
<1>5. Cardinality(B(x)) # Cardinality(B(y))
  BY <1>1, <1>2, <1>3, FS_Subset
<1>6. Cardinality(B(x)) \in Nat /\ Cardinality(B(y)) \in Nat
  BY <1>3, <1>4, FS_CardinalityType
<1> QED
  BY <1>4, <1>5, <1>6 DEF Place

LEMMA PlaceOnce ==
  ASSUME NEW S, IsFiniteSet(S), NEW R, Orders(R, S),
         NEW x \in S, NEW y \in S, Place(x, S, R) = Place(y, S, R)
  PROVE  x = y
<1>1. Place(x, S, R) \in Nat
  BY PlaceType, FS_CardinalityType
<1>2. <<x, y>> \in R => Place(x, S, R) < Place(y, S, R)
  BY PlaceIncreases
<1>3. <<y, x>> \in R => Place(y, S, R) < Place(x, S, R)
  BY PlaceIncreases
<1>4. x # y => <<x, y>> \in R \/ <<y, x>> \in R
  BY DEF Orders
<1> HIDE DEF Place
<1> QED
  BY <1>1, <1>2, <1>3, <1>4

LEMMA PlaceTaken ==
  ASSUME NEW S, IsFiniteSet(S), NEW R, Orders(R, S)
  PROVE  [x \in S |-> Place(x, S, R)] \in Bijection(S, 1 .. Cardinality(S))
<1> DEFINE f == [x \in S |-> Place(x, S, R)]
           n == Cardinality(S)
<1>1. n \in Nat
  BY FS_CardinalityType
<1>2. f \in [S -> 1 .. n]
  BY PlaceType
<1>3. f \in Injection(S, 1 .. n)
  BY <1>2, PlaceOnce DEF Injection, IsInjective
<1>4. IsFiniteSet(1 .. n) /\ Cardinality(1 .. n) = n
  BY <1>1, FS_Interval
<1>5. f \in Surjection(S, 1 .. n)
  <2> HIDE DEF f
  <2> QED
    BY <1>3, <1>4, FS_Injection
<1> QED
  BY <1>3, <1>5 DEF Bijection

(* InOrder lists every element once, in the order.                          *)
LEMMA InOrderLists ==
  ASSUME NEW S, IsFiniteSet(S), NEW R, Orders(R, S)
  PROVE  /\ Cardinality(S) \in Nat
         /\ InOrder(S, R) \in [1 .. Cardinality(S) -> S]
         /\ \A x \in S : \E n \in 1 .. Cardinality(S) : InOrder(S, R)[n] = x
         /\ \A m, n \in 1 .. Cardinality(S) :
              m < n => <<InOrder(S, R)[m], InOrder(S, R)[n]>> \in R
         /\ \A m, n \in 1 .. Cardinality(S) :
              InOrder(S, R)[m] = InOrder(S, R)[n] => m = n
<1> DEFINE N == Cardinality(S)
           o == InOrder(S, R)
<1>0. N \in Nat
  BY FS_CardinalityType
<1>1. \A n \in 1 .. N : \E x \in S : Place(x, S, R) = n
  <2>1. [x \in S |-> Place(x, S, R)] \in Surjection(S, 1 .. N)
    BY PlaceTaken DEF Bijection
  <2> QED
    BY <2>1 DEF Surjection
<1>2. \A n \in 1 .. N : o[n] \in S /\ Place(o[n], S, R) = n
  BY <1>1 DEF InOrder
<1>3. o \in [1 .. N -> S]
  BY <1>2 DEF InOrder
<1>4. ASSUME NEW x \in S PROVE \E n \in 1 .. N : o[n] = x
  <2>1. Place(x, S, R) \in 1 .. N
    BY PlaceType
  <2> QED
    BY <2>1, <1>2, PlaceOnce
<1>5. ASSUME NEW m \in 1 .. N, NEW n \in 1 .. N, m < n PROVE <<o[m], o[n]>> \in R
  <2>1. o[m] \in S /\ o[n] \in S /\ o[m] # o[n]
    BY <1>2, <1>5
  <2>2. CASE <<o[n], o[m]>> \in R
    <3>1. Place(o[n], S, R) < Place(o[m], S, R)
      BY <2>1, <2>2, PlaceIncreases
    <3> QED
      BY <1>0, <1>2, <1>5, <3>1
  <2> QED
    BY <2>1, <2>2 DEF Orders
<1>6. \A m, n \in 1 .. N : o[m] = o[n] => m = n
  BY <1>2
<1> HIDE DEF o, N
<1> QED
  BY <1>0, <1>3, <1>4, <1>5, <1>6 DEF o, N

-----------------------------------------------------------------------------
(* Retained                                                                 *)

(* r takes the elements of s at the places g, in their order.               *)
Picks(g, r, s, S) ==
  /\ g \in [1 .. Len(r) -> 1 .. Len(s)]
  /\ \A m, n \in 1 .. Len(r) : m < n => g[m] < g[n]
  /\ \A n \in 1 .. Len(r) : r[n] = s[g[n]] /\ s[g[n]] \in S
  /\ \A i \in 1 .. Len(s) : s[i] \in S => \E n \in 1 .. Len(r) : g[n] = i

LEMMA RetainedPicks ==
  ASSUME NEW T, NEW s \in Seq(T), NEW S
  PROVE  /\ Retained(s, S) \in Seq(T)
         /\ Len(Retained(s, S)) = Cardinality({i \in 1 .. Len(s) : s[i] \in S})
         /\ \E g : Picks(g, Retained(s, S), s, S)
<1> DEFINE K == {i \in 1 .. Len(s) : s[i] \in S}
           R == {x \in K \X K : x[1] < x[2]}
           N == Cardinality(K)
           r == Retained(s, S)
<1>1. Len(s) \in Nat /\ DOMAIN s = 1 .. Len(s)
  OBVIOUS
<1>2. IsFiniteSet(K)
  <2>1. IsFiniteSet(1 .. Len(s)) /\ K \in SUBSET (1 .. Len(s))
    BY <1>1, FS_Interval
  <2> QED
    BY <2>1, FS_Subset
<1>3. \A i, j \in K : i \in Int /\ (<<i, j>> \in R <=> i < j)
  OBVIOUS
<1>4. Orders(R, K)
  <2>1. \A x \in K : <<x, x>> \notin R
    BY <1>3
  <2>2. ASSUME NEW x \in K, NEW y \in K, NEW z \in K, <<x, y>> \in R, <<y, z>> \in R
        PROVE  <<x, z>> \in R
    <3>1. x \in Int /\ y \in Int /\ z \in Int /\ x < y /\ y < z
      BY <1>3, <2>2
    <3>2. x < z
      BY <3>1
    <3> HIDE DEF R, K
    <3> QED
      BY <1>3, <3>2
  <2>3. \A x, y \in K : x # y => <<x, y>> \in R \/ <<y, x>> \in R
    <3> HIDE DEF R, K
    <3> QED
      BY <1>3
  <2> QED
    BY <2>1, <2>2, <2>3 DEF Orders
<1> DEFINE g == InOrder(K, R)
<1>5. r = [n \in 1 .. N |-> s[g[n]]]
  BY <1>1 DEF Retained
<1>6. /\ N \in Nat /\ g \in [1 .. N -> K]
      /\ \A x \in K : \E n \in 1 .. N : g[n] = x
      /\ \A m, n \in 1 .. N : m < n => <<g[m], g[n]>> \in R
  <2> HIDE DEF R, K
  <2> QED
    BY <1>2, <1>4, InOrderLists
<1>7. \A n \in 1 .. N : g[n] \in 1 .. Len(s) /\ s[g[n]] \in S /\ s[g[n]] \in T
  <2> HIDE DEF g
  <2> QED
    BY <1>1, <1>6
<1>8. r \in Seq(T) /\ Len(r) = N
  <2> HIDE DEF g, N
  <2> QED
    BY <1>5, <1>6, <1>7
<1>9. Picks(g, r, s, S)
  <2>1. g \in [1 .. Len(r) -> 1 .. Len(s)]
    <3> HIDE DEF g, N, r
    <3> QED
      BY <1>6, <1>7, <1>8
  <2>2. \A m, n \in 1 .. N : m < n => g[m] < g[n]
    <3> HIDE DEF g, N, R
    <3> QED
      BY <1>3, <1>6
  <2>3. \A n \in 1 .. N : r[n] = s[g[n]] /\ s[g[n]] \in S
    <3> HIDE DEF g, N
    <3> QED
      BY <1>5, <1>7
  <2>4. \A i \in 1 .. Len(s) : s[i] \in S => \E n \in 1 .. N : g[n] = i
    <3>1. \A i \in 1 .. Len(s) : s[i] \in S => i \in K
      OBVIOUS
    <3> HIDE DEF g, N, R, K
    <3> QED
      BY <1>6, <3>1
  <2> HIDE DEF g, r, N, K
  <2> QED
    BY <1>8, <2>1, <2>2, <2>3, <2>4 DEF Picks
<1> HIDE DEF g, r, K
<1> QED
  BY <1>8, <1>9 DEF r, K

(* Every element of the result is an element of s in S, and conversely.     *)
LEMMA RetainedElements ==
  ASSUME NEW T, NEW s \in Seq(T), NEW S
  PROVE  /\ \A n \in 1 .. Len(Retained(s, S)) :
              Retained(s, S)[n] \in S /\ \E i \in 1 .. Len(s) : s[i] = Retained(s, S)[n]
         /\ \A i \in 1 .. Len(s) : s[i] \in S =>
              \E n \in 1 .. Len(Retained(s, S)) : Retained(s, S)[n] = s[i]
<1>1. PICK g : Picks(g, Retained(s, S), s, S)
  BY RetainedPicks
<1> QED
  BY <1>1 DEF Picks

-----------------------------------------------------------------------------
(* Tables of learned choices                                                *)

LEMMA LearningCardinality ==
  ASSUME NEW S PROVE Learning!Cardinality(S) = Cardinality(S)
BY DEF Learning!Cardinality, Cardinality

LEMMA LearningPlace ==
  ASSUME NEW x, NEW S, NEW R PROVE Learning!Place(x, S, R) = Place(x, S, R)
BY LearningCardinality DEF Learning!Place, Place

LEMMA LearningInOrder ==
  ASSUME NEW S, NEW R PROVE Learning!InOrder(S, R) = InOrder(S, R)
BY LearningCardinality, LearningPlace DEF Learning!InOrder, InOrder

LEMMA LearningRetained ==
  ASSUME NEW s, NEW S PROVE Learning!Retained(s, S) = Retained(s, S)
BY LearningCardinality, LearningInOrder DEF Learning!Retained, Retained

LEMMA RowOfKey ==
  ASSUME NEW table, Learning!NoKeyTwice(table), NEW i \in DOMAIN table
  PROVE  /\ table[i].key \in Learning!Keys(table)
         /\ Learning!RowOf(table, table[i].key) = table[i]
<1>1. table[i].key \in Learning!Keys(table)
  BY DEF Learning!Keys
<1>2. PICK k : k = CHOOSE j \in DOMAIN table : table[j].key = table[i].key
  OBVIOUS
<1>3. k \in DOMAIN table /\ table[k].key = table[i].key
  BY <1>2
<1>4. k = i
  BY <1>3 DEF Learning!NoKeyTwice
<1> QED
  BY <1>1, <1>2, <1>4 DEF Learning!RowOf

LEMMA KeyOfRow ==
  ASSUME NEW table, NEW k \in Learning!Keys(table)
  PROVE  \E i \in DOMAIN table : table[i].key = k
BY DEF Learning!Keys

(* t has the rows of the table but for those of the keys.                   *)
Leaves(t, table, keys) ==
  /\ \A j \in DOMAIN t : t[j].key \notin keys
  /\ \A j \in DOMAIN t : \E i \in DOMAIN table : table[i] = t[j]
  /\ \A i \in DOMAIN table : table[i].key \notin keys => \E j \in DOMAIN t : t[j] = table[i]

Left(table, keys) == {i \in 1 .. Len(table) : table[i].key \notin keys}

(* Without drops the rows of the keys and nothing else.                     *)
LEMMA WithoutRows ==
  ASSUME NEW Row, NEW table \in Seq(Row), NEW keys
  PROVE  LET t == Learning!Without(table, keys)
         IN  /\ t \in Seq(Row)
             /\ Len(t) = Cardinality(Left(table, keys))
             /\ Leaves(t, table, keys)
             /\ Learning!NoKeyTwice(table) => Learning!NoKeyTwice(t)
<1> DEFINE S == {table[i] : i \in {j \in DOMAIN table : table[j].key \notin keys}}
           t == Learning!Without(table, keys)
<1>1. t = Retained(table, S)
  BY LearningRetained DEF Learning!Without
<1>2. DOMAIN table = 1 .. Len(table) /\ Len(table) \in Nat
  OBVIOUS
<1>3. \A i \in 1 .. Len(table) : table[i] \in S <=> table[i].key \notin keys
  BY <1>2
<1>4. {i \in 1 .. Len(table) : table[i] \in S} = Left(table, keys)
  BY <1>3 DEF Left
<1>5. /\ t \in Seq(Row)
      /\ Len(t) = Cardinality(Left(table, keys))
  <2> HIDE DEF S
  <2> QED
    BY <1>1, <1>4, RetainedPicks
<1>6. PICK g : Picks(g, t, table, S)
  <2> HIDE DEF S
  <2> QED
    BY <1>1, RetainedPicks
<1>7. DOMAIN t = 1 .. Len(t)
  BY <1>5
<1>8. ASSUME NEW j \in DOMAIN t
      PROVE  g[j] \in DOMAIN table /\ t[j] = table[g[j]] /\ t[j].key \notin keys
  <2>1. g[j] \in 1 .. Len(table) /\ t[j] = table[g[j]] /\ table[g[j]] \in S
    <3> HIDE DEF S, t
    <3> QED
      BY <1>6, <1>7 DEF Picks
  <2> QED
    BY <1>2, <1>3, <2>1
<1>9. ASSUME NEW i \in DOMAIN table, table[i].key \notin keys
      PROVE  \E j \in DOMAIN t : t[j] = table[i]
  <2>1. i \in 1 .. Len(table) /\ table[i] \in S
    BY <1>2, <1>3, <1>9
  <2>2. PICK j \in 1 .. Len(t) : g[j] = i
    <3> HIDE DEF S, t
    <3> QED
      BY <1>6, <2>1 DEF Picks
  <2> QED
    BY <1>7, <1>8, <2>2
<1>10. ASSUME Learning!NoKeyTwice(table), NEW i \in DOMAIN t, NEW j \in DOMAIN t,
              t[i].key = t[j].key
       PROVE  i = j
  <2>1. table[g[i]].key = table[g[j]].key /\ g[i] \in DOMAIN table /\ g[j] \in DOMAIN table
    BY <1>8, <1>10
  <2>2. g[i] = g[j]
    BY <1>10, <2>1 DEF Learning!NoKeyTwice
  <2>3. i \in 1 .. Len(t) /\ j \in 1 .. Len(t) /\ Len(t) \in Nat
    BY <1>5, <1>7
  <2>4. /\ g[i] \in 1 .. Len(table) /\ g[j] \in 1 .. Len(table)
        /\ i < j => g[i] < g[j]
        /\ j < i => g[j] < g[i]
    <3> HIDE DEF S, t
    <3> QED
      BY <1>6, <2>3 DEF Picks
  <2> QED
    BY <1>2, <2>2, <2>3, <2>4
<1> HIDE DEF t
<1>11. Learning!NoKeyTwice(table) => Learning!NoKeyTwice(t)
  BY <1>10 DEF Learning!NoKeyTwice
<1>12. Leaves(t, table, keys)
  BY <1>8, <1>9 DEF Leaves
<1> QED
  BY <1>5, <1>11, <1>12 DEF t

LEMMA WithoutKeys ==
  ASSUME NEW Row, NEW table \in Seq(Row), NEW keys, Learning!NoKeyTwice(table)
  PROVE  LET t == Learning!Without(table, keys)
         IN  /\ t \in Seq(Row) /\ Learning!NoKeyTwice(t)
             /\ Learning!Keys(t) = Learning!Keys(table) \ keys
             /\ \A k \in Learning!Keys(t) : Learning!RowOf(t, k) = Learning!RowOf(table, k)
<1> DEFINE t == Learning!Without(table, keys)
<1>1. t \in Seq(Row) /\ Learning!NoKeyTwice(t) /\ Leaves(t, table, keys)
  BY WithoutRows
<1> HIDE DEF t
<1>2. Learning!Keys(t) = Learning!Keys(table) \ keys
  BY <1>1 DEF Learning!Keys, Leaves
<1>3. ASSUME NEW k \in Learning!Keys(t)
      PROVE  Learning!RowOf(t, k) = Learning!RowOf(table, k)
  <2>1. PICK j \in DOMAIN t : t[j].key = k
    BY KeyOfRow
  <2>2. PICK i \in DOMAIN table : table[i] = t[j]
    BY <1>1 DEF Leaves
  <2>3. Learning!RowOf(t, k) = t[j]
    BY <1>1, <2>1, RowOfKey
  <2>4. Learning!RowOf(table, k) = table[i]
    BY <2>1, <2>2, RowOfKey
  <2> QED
    BY <2>2, <2>3, <2>4
<1> QED
  BY <1>1, <1>2, <1>3 DEF t

(* Upserted changes or appends one row.                                     *)
LEMMA UpsertedRows ==
  ASSUME NEW Row, NEW table \in Seq(Row), Learning!NoKeyTwice(table), NEW row \in Row,
         \A i \in DOMAIN table : table[i].key = row.key =>
           /\ [row EXCEPT !.count = table[i].count + 1] \in Row
           /\ [row EXCEPT !.count = table[i].count + 1].key = row.key
  PROVE  LET t == Learning!Upserted(table, row)
         IN  /\ t \in Seq(Row) /\ Learning!NoKeyTwice(t)
             /\ \A i \in DOMAIN table : i \in DOMAIN t /\ t[i].key = table[i].key
             /\ \A i \in DOMAIN table : table[i].key # row.key => t[i] = table[i]
             /\ \A j \in DOMAIN t : t[j].key # row.key => j \in DOMAIN table /\ t[j] = table[j]
             /\ \E j \in DOMAIN t : t[j].key = row.key
             /\ \A j \in DOMAIN t : t[j].key = row.key =>
                  t[j] = IF row.key \in Learning!Keys(table)
                         THEN [row EXCEPT !.count = Learning!RowOf(table, row.key).count + 1]
                         ELSE row
<1> DEFINE t == Learning!Upserted(table, row)
           new(i) == [row EXCEPT !.count = table[i].count + 1]
<1>0. DOMAIN table = 1 .. Len(table) /\ Len(table) \in Nat
      /\ \A i \in DOMAIN table : table[i] \in Row
  OBVIOUS
<1>1. CASE row.key \in Learning!Keys(table)
  <2>1. t = [i \in DOMAIN table |-> IF table[i].key = row.key THEN new(i) ELSE table[i]]
    BY <1>1 DEF Learning!Upserted
  <2>2. ASSUME NEW i \in DOMAIN table
        PROVE  /\ t[i] \in Row /\ t[i].key = table[i].key
               /\ table[i].key = row.key => t[i] = new(i)
               /\ table[i].key # row.key => t[i] = table[i]
    <3>1. t[i] = IF table[i].key = row.key THEN new(i) ELSE table[i]
      BY <2>1
    <3>2. table[i].key = row.key => new(i) \in Row /\ new(i).key = row.key
      OBVIOUS
    <3> HIDE DEF t, new
    <3> QED
      BY <1>0, <3>1, <3>2
  <2>3. t \in Seq(Row) /\ DOMAIN t = DOMAIN table
    <3> HIDE DEF new
    <3>1. t \in [1 .. Len(table) -> Row]
      <4>1. t = [i \in 1 .. Len(table) |-> IF table[i].key = row.key THEN new(i) ELSE table[i]]
        BY <1>0, <2>1
      <4> HIDE DEF t
      <4> QED
        BY <1>0, <2>2, <4>1
    <3> HIDE DEF t
    <3> QED
      BY <1>0, <3>1
  <2>4. Learning!NoKeyTwice(t)
    <3> HIDE DEF t
    <3> QED
      BY <2>2, <2>3 DEF Learning!NoKeyTwice
  <2>5. PICK k \in DOMAIN table : table[k].key = row.key
    BY <1>1, KeyOfRow
  <2>6. Learning!RowOf(table, row.key) = table[k]
    BY <2>5, RowOfKey
  <2>7. ASSUME NEW j \in DOMAIN t, t[j].key = row.key
        PROVE  t[j] = [row EXCEPT !.count = Learning!RowOf(table, row.key).count + 1]
    <3>1. j \in DOMAIN table /\ table[j].key = row.key /\ t[j] = new(j)
      BY <2>2, <2>3, <2>7
    <3>2. j = k
      BY <2>5, <3>1 DEF Learning!NoKeyTwice
    <3> QED
      BY <2>6, <3>1, <3>2
  <2> HIDE DEF t
  <2>8. \E j \in DOMAIN t : t[j].key = row.key
    BY <2>2, <2>3, <2>5
  <2> QED
    BY <1>1, <2>2, <2>3, <2>4, <2>7, <2>8 DEF t
<1>2. CASE row.key \notin Learning!Keys(table)
  <2>1. t = Append(table, row)
    BY <1>2 DEF Learning!Upserted
  <2>2. /\ t \in Seq(Row) /\ DOMAIN t = 1 .. Len(table) + 1
        /\ \A i \in DOMAIN table : t[i] = table[i]
        /\ t[Len(table) + 1] = row
    BY <2>1
  <2>3. \A i \in DOMAIN table : table[i].key # row.key
    BY <1>2 DEF Learning!Keys
  <2> HIDE DEF t
  <2>4. \A j \in DOMAIN t : j = Len(table) + 1 \/ j \in DOMAIN table
    BY <1>0, <2>2
  <2>5. Len(table) + 1 \in DOMAIN t /\ \A i \in DOMAIN table : i \in DOMAIN t
    BY <1>0, <2>2
  <2>6. Learning!NoKeyTwice(t)
    BY <2>2, <2>3, <2>4 DEF Learning!NoKeyTwice
  <2> QED
    BY <1>2, <2>2, <2>3, <2>4, <2>5, <2>6 DEF t
<1> QED
  BY <1>1, <1>2

LEMMA UpsertedKeys ==
  ASSUME NEW Row, NEW table \in Seq(Row), Learning!NoKeyTwice(table), NEW row \in Row,
         \A i \in DOMAIN table : table[i].key = row.key =>
           /\ [row EXCEPT !.count = table[i].count + 1] \in Row
           /\ [row EXCEPT !.count = table[i].count + 1].key = row.key
  PROVE  LET t == Learning!Upserted(table, row)
         IN  /\ t \in Seq(Row) /\ Learning!NoKeyTwice(t)
             /\ Learning!Keys(t) = Learning!Keys(table) \cup {row.key}
             /\ \A k \in Learning!Keys(table) : k # row.key =>
                  Learning!RowOf(t, k) = Learning!RowOf(table, k)
             /\ Learning!RowOf(t, row.key) =
                  IF row.key \in Learning!Keys(table)
                  THEN [row EXCEPT !.count = Learning!RowOf(table, row.key).count + 1]
                  ELSE row
<1> DEFINE t == Learning!Upserted(table, row)
           last == IF row.key \in Learning!Keys(table)
                   THEN [row EXCEPT !.count = Learning!RowOf(table, row.key).count + 1]
                   ELSE row
<1>1. /\ t \in Seq(Row) /\ Learning!NoKeyTwice(t)
      /\ \A i \in DOMAIN table : i \in DOMAIN t /\ t[i].key = table[i].key
      /\ \A i \in DOMAIN table : table[i].key # row.key => t[i] = table[i]
      /\ \A j \in DOMAIN t : t[j].key # row.key => j \in DOMAIN table /\ t[j] = table[j]
      /\ \E j \in DOMAIN t : t[j].key = row.key
      /\ \A j \in DOMAIN t : t[j].key = row.key => t[j] = last
  BY UpsertedRows
<1> HIDE DEF t, last
<1>2. Learning!Keys(t) = Learning!Keys(table) \cup {row.key}
  BY <1>1 DEF Learning!Keys
<1>3. ASSUME NEW k \in Learning!Keys(table), k # row.key
      PROVE  Learning!RowOf(t, k) = Learning!RowOf(table, k)
  <2>1. PICK i \in DOMAIN table : table[i].key = k
    BY KeyOfRow
  <2>2. i \in DOMAIN t /\ t[i] = table[i]
    BY <1>1, <1>3, <2>1
  <2> QED
    BY <1>1, <2>1, <2>2, RowOfKey
<1>4. Learning!RowOf(t, row.key) = last
  BY <1>1, RowOfKey
<1> QED
  BY <1>1, <1>2, <1>3, <1>4 DEF t, last

LEMMA UpTo ==
  ASSUME NEW n \in Nat PROVE IsFiniteSet(1 .. n) /\ Cardinality(1 .. n) = n
BY FS_Interval

LEMMA WeakerOrders ==
  ASSUME NEW table, NEW S, \A i \in S : i \in Nat /\ table[i].count \in Nat
  PROVE  Orders(Learning!Weaker(table, S), S)
<1> DEFINE R == Learning!Weaker(table, S)
<1>1. ASSUME NEW x \in S, NEW y \in S
      PROVE  <<x, y>> \in R <=> \/ table[x].count < table[y].count
                                \/ table[x].count = table[y].count /\ x < y
  BY DEF Learning!Weaker
<1> HIDE DEF R
<1>2. \A x \in S : <<x, x>> \notin R
  BY <1>1
<1>3. ASSUME NEW x \in S, NEW y \in S, NEW z \in S, <<x, y>> \in R, <<y, z>> \in R
      PROVE  <<x, z>> \in R
  <2>1. \/ table[x].count < table[y].count
        \/ table[x].count = table[y].count /\ x < y
    BY <1>1, <1>3
  <2>2. \/ table[y].count < table[z].count
        \/ table[y].count = table[z].count /\ y < z
    BY <1>1, <1>3
  <2>3. \/ table[x].count < table[z].count
        \/ table[x].count = table[z].count /\ x < z
    BY <2>1, <2>2
  <2> QED
    BY <1>1, <2>3
<1>4. ASSUME NEW x \in S, NEW y \in S, x # y PROVE <<x, y>> \in R \/ <<y, x>> \in R
  <2>1. \/ table[x].count < table[y].count
        \/ table[x].count = table[y].count /\ x < y
        \/ table[y].count < table[x].count
        \/ table[y].count = table[x].count /\ y < x
    BY <1>4
  <2> QED
    BY <1>1, <2>1
<1> QED
  BY <1>2, <1>3, <1>4 DEF Orders, R

(* So many elements as wanted are first.                                    *)
LEMMA FirstPlaces ==
  ASSUME NEW S, IsFiniteSet(S), NEW R, Orders(R, S), NEW n \in Nat, n <= Cardinality(S)
  PROVE  /\ IsFiniteSet({x \in S : Place(x, S, R) <= n})
         /\ Cardinality({x \in S : Place(x, S, R) <= n}) = n
<1> DEFINE V == {x \in S : Place(x, S, R) <= n}
           f == [x \in S |-> Place(x, S, R)]
           h == [x \in V |-> Place(x, S, R)]
<1>1. IsFiniteSet(V)
  <2>1. V \in SUBSET S
    OBVIOUS
  <2> HIDE DEF V
  <2> QED
    BY <2>1, FS_Subset
<1>2. Cardinality(S) \in Nat
  BY FS_CardinalityType
<1>3. \A m \in 1 .. n : \E x \in S : Place(x, S, R) = m
  <2>1. f \in Surjection(S, 1 .. Cardinality(S))
    BY PlaceTaken DEF Bijection
  <2>2. \A m \in 1 .. Cardinality(S) : \E x \in S : Place(x, S, R) = m
    BY <2>1 DEF Surjection
  <2>3. \A m \in 1 .. n : m \in 1 .. Cardinality(S)
    BY <1>2
  <2> QED
    BY <2>2, <2>3
<1>4. h \in [V -> 1 .. n]
  <2>1. \A x \in V : Place(x, S, R) \in 1 .. n
    BY <1>2, PlaceType
  <2> QED
    BY <2>1
<1>5. h \in Injection(V, 1 .. n)
  BY <1>4, PlaceOnce DEF Injection, IsInjective
<1>6. h \in Surjection(V, 1 .. n)
  <2>1. \A m \in 1 .. n : \E x \in V : h[x] = m
    BY <1>3
  <2> HIDE DEF h, V
  <2> QED
    BY <1>4, <2>1 DEF Surjection
<1>7. ExistsBijection(V, 1 .. n)
  BY <1>5, <1>6 DEF ExistsBijection, Bijection
<1>8. Cardinality(1 .. n) = Cardinality(V)
  <2> HIDE DEF V
  <2> QED
    BY <1>1, <1>7, FS_Bijection
<1>9. Cardinality(1 .. n) = n
  BY FS_Interval
<1> QED
  BY <1>1, <1>8, <1>9

(* Eviction spares the row of k, brings the table within its cap and takes  *)
(* no row that was used more often than one it leaves.                      *)
LEMMA EvictedRows ==
  ASSUME NEW Row, NEW table \in Seq(Row), \A i \in DOMAIN table : table[i].count \in Nat,
         Learning!NoKeyTwice(table), NEW k \in Learning!Keys(table), NEW cap \in Nat \ {0}
  PROVE  /\ k \notin Learning!Evicted(table, k, cap)
         /\ Learning!Evicted(table, k, cap) \subseteq Learning!Keys(table)
         /\ Len(Learning!Without(table, Learning!Evicted(table, k, cap))) <= cap
         /\ \A i, j \in DOMAIN table :
              /\ table[i].key \in Learning!Evicted(table, k, cap)
              /\ table[j].key \notin Learning!Evicted(table, k, cap) /\ table[j].key # k
              => table[i].count <= table[j].count
<1> DEFINE O == {i \in DOMAIN table : table[i].key # k}
           R == Learning!Weaker(table, O)
           X == Learning!Excess(table, cap)
           V == {j \in O : Place(j, O, R) <= X}
           gone == Learning!Evicted(table, k, cap)
<1>1. DOMAIN table = 1 .. Len(table) /\ Len(table) \in Nat
  OBVIOUS
<1>2. gone = {table[i].key : i \in V}
  BY LearningPlace DEF Learning!Evicted
<1>3. PICK i0 \in DOMAIN table : table[i0].key = k
  BY KeyOfRow
<1>4. O = (1 .. Len(table)) \ {i0}
  BY <1>1, <1>3 DEF Learning!NoKeyTwice
<1>5. IsFiniteSet(1 .. Len(table)) /\ Cardinality(1 .. Len(table)) = Len(table)
  BY <1>1, UpTo
<1>6. IsFiniteSet(O) /\ Cardinality(O) = Len(table) - 1
  <2> DEFINE D == 1 .. Len(table)
  <2>1. i0 \in D
    BY <1>1
  <2> HIDE DEF O, D
  <2>2. IsFiniteSet(D \ {i0}) /\ Cardinality(D \ {i0}) = Cardinality(D) - 1
    BY <1>5, <2>1, FS_RemoveElement DEF D
  <2> QED
    BY <1>4, <1>5, <2>2 DEF D
<1>7. Orders(R, O)
  <2>1. \A i \in O : i \in Nat /\ table[i].count \in Nat
    BY <1>1
  <2> HIDE DEF O
  <2> QED
    BY <2>1, WeakerOrders
<1>8. Len(table) \in Nat \ {0}
  BY <1>1, <1>3
<1>9. /\ X \in Nat /\ X <= Len(table) - 1
      /\ Len(table) - X <= cap
  BY <1>8 DEF Learning!Excess
<1>10. IsFiniteSet(V) /\ Cardinality(V) = X
  <2> HIDE DEF O, R, X
  <2> QED
    BY <1>6, <1>7, <1>9, FirstPlaces
<1>11. ASSUME NEW i \in DOMAIN table
       PROVE  table[i].key \in gone <=> i \in V
  <2>1. \A j \in V : j \in DOMAIN table
    OBVIOUS
  <2> HIDE DEF V, gone
  <2> QED
    BY <1>2, <2>1 DEF Learning!NoKeyTwice
<1>12. k \notin gone /\ gone \subseteq Learning!Keys(table)
  <2>1. \A j \in V : j \in DOMAIN table /\ table[j].key # k
    OBVIOUS
  <2> HIDE DEF V, gone
  <2> QED
    BY <1>2, <2>1 DEF Learning!Keys
<1>13. Len(Learning!Without(table, gone)) <= cap
  <2>1. Len(Learning!Without(table, gone))
          = Cardinality(Left(table, gone))
    <3> HIDE DEF gone
    <3> QED
      BY WithoutRows
  <2>2. Left(table, gone) = (1 .. Len(table)) \ V
    <3> HIDE DEF V, gone
    <3> QED
      BY <1>1, <1>11 DEF Left
  <2>3. (1 .. Len(table)) \cap V = V
    BY <1>1
  <2>4. Cardinality((1 .. Len(table)) \ V) = Len(table) - X
    <3> DEFINE D == 1 .. Len(table)
    <3>1. /\ IsFiniteSet(D) /\ Cardinality(D) = Len(table)
          /\ D \cap V = V /\ Cardinality(V) = X
      BY <1>5, <1>10, <2>3
    <3> HIDE DEF D, V, X
    <3>2. Cardinality(D \ V) = Cardinality(D) - Cardinality(D \cap V)
      BY <3>1, FS_Difference
    <3> QED
      BY <3>1, <3>2 DEF D
  <2> HIDE DEF V, X, gone
  <2> QED
    BY <1>9, <2>1, <2>2, <2>4
<1>14. ASSUME NEW i \in DOMAIN table, NEW j \in DOMAIN table,
              table[i].key \in gone, table[j].key \notin gone, table[j].key # k
       PROVE  table[i].count <= table[j].count
  <2>1. i \in V /\ j \in O /\ j \notin V /\ i \in O
    <3>1. i \in V /\ j \notin V
      BY <1>11, <1>14
    <3> QED
      BY <1>14, <3>1
  <2>2. Place(i, O, R) \in Nat /\ Place(j, O, R) \in Nat
    <3> HIDE DEF O, R, V
    <3> QED
      BY <1>6, <1>7, <2>1, PlaceType, FS_CardinalityType
  <2>3. Place(i, O, R) <= X /\ ~(Place(j, O, R) <= X)
    BY <2>1
  <2>4. <<j, i>> \notin R
    <3>1. <<j, i>> \in R => Place(j, O, R) < Place(i, O, R)
      <4> HIDE DEF O, R, V
      <4> QED
        BY <1>6, <1>7, <2>1, PlaceIncreases
    <3> HIDE DEF O, R, X, V
    <3> QED
      BY <1>9, <2>2, <2>3, <3>1
  <2>5. table[i].count \in Nat /\ table[j].count \in Nat
    OBVIOUS
  <2>6. ~(table[j].count < table[i].count)
    BY <2>1, <2>4 DEF Learning!Weaker
  <2> QED
    BY <2>5, <2>6
<1> HIDE DEF gone
<1> QED
  BY <1>12, <1>13, <1>14 DEF gone

(* The table after a write and the eviction that follows it.                *)
Gone(table, row, cap) ==
  Learning!Evicted(Learning!Upserted(table, row), row.key, cap)
After(table, row, cap) ==
  Learning!Without(Learning!Upserted(table, row), Gone(table, row, cap))

LEMMA RowOfType ==
  ASSUME NEW Row, NEW table \in Seq(Row), NEW k \in Learning!Keys(table)
  PROVE  Learning!RowOf(table, k) \in Row /\ Learning!RowOf(table, k).key = k
<1>1. PICK i : i = CHOOSE j \in DOMAIN table : table[j].key = k
  OBVIOUS
<1>2. i \in DOMAIN table /\ table[i].key = k
  BY <1>1, KeyOfRow
<1>3. table[i] \in Row
  BY <1>2
<1>4. Learning!RowOf(table, k) = table[i]
  BY <1>1 DEF Learning!RowOf
<1> QED
  BY <1>2, <1>3, <1>4

(* The row that is written stays; the others keep what they have, or go.    *)
LEMMA TableWritten ==
  ASSUME NEW Row, NEW table \in Seq(Row), Learning!NoKeyTwice(table), NEW row \in Row,
         \A r \in Row : r.count \in Nat,
         \A i \in DOMAIN table : table[i].key = row.key =>
           /\ [row EXCEPT !.count = table[i].count + 1] \in Row
           /\ [row EXCEPT !.count = table[i].count + 1].key = row.key,
         NEW cap \in Nat \ {0}
  PROVE  /\ After(table, row, cap) \in Seq(Row) /\ Learning!NoKeyTwice(After(table, row, cap))
         /\ row.key \notin Gone(table, row, cap)
         /\ Learning!Keys(After(table, row, cap))
              = (Learning!Keys(table) \cup {row.key}) \ Gone(table, row, cap)
         /\ \A k \in Learning!Keys(After(table, row, cap)) : k # row.key =>
              Learning!RowOf(After(table, row, cap), k) = Learning!RowOf(table, k)
         /\ Learning!RowOf(After(table, row, cap), row.key) =
              IF row.key \in Learning!Keys(table)
              THEN [row EXCEPT !.count = Learning!RowOf(table, row.key).count + 1]
              ELSE row
         /\ Len(After(table, row, cap)) <= cap
         /\ \A i \in DOMAIN table, j \in DOMAIN After(table, row, cap) :
              /\ table[i].key \notin Learning!Keys(After(table, row, cap))
              /\ After(table, row, cap)[j].key # row.key
              => table[i].count <= After(table, row, cap)[j].count
<1> DEFINE u == Learning!Upserted(table, row)
           gone == Gone(table, row, cap)
           a == After(table, row, cap)
           last == IF row.key \in Learning!Keys(table)
                   THEN [row EXCEPT !.count = Learning!RowOf(table, row.key).count + 1]
                   ELSE row
<1>1. /\ u \in Seq(Row) /\ Learning!NoKeyTwice(u)
      /\ Learning!Keys(u) = Learning!Keys(table) \cup {row.key}
      /\ \A k \in Learning!Keys(table) : k # row.key =>
           Learning!RowOf(u, k) = Learning!RowOf(table, k)
      /\ Learning!RowOf(u, row.key) = last
  BY UpsertedKeys
<1>2. /\ \A i \in DOMAIN table : i \in DOMAIN u /\ u[i].key = table[i].key
      /\ \A i \in DOMAIN table : table[i].key # row.key => u[i] = table[i]
  BY UpsertedRows
<1>3. gone = Learning!Evicted(u, row.key, cap) /\ a = Learning!Without(u, gone)
  BY DEF Gone, After
<1> HIDE DEF u, last, gone, a
<1>4. \A i \in DOMAIN u : u[i].count \in Nat
  <2>1. \A i \in DOMAIN u : u[i] \in Row
    BY <1>1
  <2> QED
    BY <2>1
<1>5. /\ row.key \notin gone
      /\ Len(a) <= cap
      /\ \A i, j \in DOMAIN u : u[i].key \in gone /\ u[j].key \notin gone /\ u[j].key # row.key
           => u[i].count <= u[j].count
  BY <1>1, <1>3, <1>4, EvictedRows
<1>6. /\ a \in Seq(Row) /\ Learning!NoKeyTwice(a)
      /\ Learning!Keys(a) = Learning!Keys(u) \ gone
      /\ \A k \in Learning!Keys(a) : Learning!RowOf(a, k) = Learning!RowOf(u, k)
  BY <1>1, <1>3, WithoutKeys
<1>7. Leaves(a, u, gone)
  BY <1>1, <1>3, WithoutRows
<1>8. ASSUME NEW i \in DOMAIN table, NEW j \in DOMAIN a,
             table[i].key \notin Learning!Keys(a), a[j].key # row.key
      PROVE  table[i].count <= a[j].count
  <2>1. i \in DOMAIN u /\ u[i].key = table[i].key /\ table[i].key \in Learning!Keys(table)
    BY <1>2 DEF Learning!Keys
  <2>2. u[i].key \in gone
    BY <1>1, <1>6, <1>8, <2>1
  <2>3. table[i].key # row.key /\ u[i] = table[i]
    BY <1>2, <1>5, <2>1, <2>2
  <2>4. PICK m \in DOMAIN u : u[m] = a[j]
    BY <1>7 DEF Leaves
  <2>5. u[m].key \notin gone /\ u[m].key # row.key
    BY <1>7, <1>8, <2>4 DEF Leaves
  <2>6. u[i].count <= u[m].count
    BY <1>5, <2>1, <2>2, <2>5
  <2> QED
    BY <2>3, <2>4, <2>6
<1>9. \A k \in Learning!Keys(a) : k # row.key => Learning!RowOf(a, k) = Learning!RowOf(table, k)
  BY <1>1, <1>6
<1>10. Learning!RowOf(a, row.key) = last
  BY <1>1, <1>5, <1>6
<1> QED
  BY <1>1, <1>5, <1>6, <1>8, <1>9, <1>10 DEF last, gone, a

-----------------------------------------------------------------------------
(* Learned choices                                                          *)

ScoreRows == [key : Choices, count : 1 .. TopCount]
LayoutRows == [key : Phrases, count : 1 .. TopCount, layout : Layouts]

LEMMA ScoreWritten ==
  ASSUME Learning!TypeOK, NEW w \in Choices,
         w \in Learning!Keys(scoreRows) => Learning!RowOf(scoreRows, w).count < TopCount
  PROVE  LET a == After(scoreRows, Learning!ScoreRow(w), ScoreCap)
             gone == Gone(scoreRows, Learning!ScoreRow(w), ScoreCap)
         IN  /\ a \in Seq(ScoreRows) /\ Learning!NoKeyTwice(a)
             /\ w \notin gone
             /\ Learning!Keys(a) = (Learning!Keys(scoreRows) \cup {w}) \ gone
             /\ \A k \in Learning!Keys(a) : k # w =>
                  Learning!RowOf(a, k) = Learning!RowOf(scoreRows, k)
             /\ Learning!RowOf(a, w).count =
                  IF w \in Learning!Keys(scoreRows)
                  THEN Learning!RowOf(scoreRows, w).count + 1 ELSE 1
             /\ Len(a) <= ScoreCap
             /\ \A i \in DOMAIN scoreRows, j \in DOMAIN a :
                  scoreRows[i].key \notin Learning!Keys(a) /\ a[j].key # w
                  => scoreRows[i].count <= a[j].count
<1> DEFINE row == Learning!ScoreRow(w)
           a == After(scoreRows, row, ScoreCap)
           gone == Gone(scoreRows, row, ScoreCap)
<1>1. row = [key |-> w, count |-> 1]
  BY DEF Learning!ScoreRow
<1>2. scoreRows \in Seq(ScoreRows) /\ Learning!NoKeyTwice(scoreRows)
  BY DEF Learning!TypeOK, ScoreRows
<1>3. row \in ScoreRows /\ row.key = w /\ \A r \in ScoreRows : r.count \in Nat
  BY <1>1, LearningAssumption DEF ScoreRows, LearningAssumption
<1>4. ASSUME NEW i \in DOMAIN scoreRows, scoreRows[i].key = row.key
      PROVE  /\ [row EXCEPT !.count = scoreRows[i].count + 1] \in ScoreRows
             /\ [row EXCEPT !.count = scoreRows[i].count + 1].key = row.key
  <2>1. Learning!RowOf(scoreRows, w) = scoreRows[i] /\ w \in Learning!Keys(scoreRows)
    BY <1>2, <1>3, <1>4, RowOfKey
  <2>2. scoreRows[i].count < TopCount /\ scoreRows[i] \in ScoreRows
    BY <1>2, <2>1
  <2>3. scoreRows[i].count + 1 \in 1 .. TopCount
    BY <2>2, LearningAssumption DEF ScoreRows, LearningAssumption
  <2>4. [row EXCEPT !.count = scoreRows[i].count + 1] = [key |-> w, count |-> scoreRows[i].count + 1]
    BY <1>1
  <2> QED
    BY <1>3, <2>3, <2>4 DEF ScoreRows
<1>5. ScoreCap \in Nat \ {0}
  BY LearningAssumption DEF LearningAssumption
<1> HIDE DEF row
<1>6. /\ a \in Seq(ScoreRows) /\ Learning!NoKeyTwice(a)
      /\ row.key \notin gone
      /\ Learning!Keys(a) = (Learning!Keys(scoreRows) \cup {row.key}) \ gone
      /\ \A k \in Learning!Keys(a) : k # row.key =>
           Learning!RowOf(a, k) = Learning!RowOf(scoreRows, k)
      /\ Learning!RowOf(a, row.key) =
           IF row.key \in Learning!Keys(scoreRows)
           THEN [row EXCEPT !.count = Learning!RowOf(scoreRows, row.key).count + 1]
           ELSE row
      /\ Len(a) <= ScoreCap
      /\ \A i \in DOMAIN scoreRows, j \in DOMAIN a :
           scoreRows[i].key \notin Learning!Keys(a) /\ a[j].key # row.key
           => scoreRows[i].count <= a[j].count
  BY <1>2, <1>3, <1>4, <1>5, TableWritten
<1> HIDE DEF a, gone
<1>7. Learning!RowOf(a, w).count =
        IF w \in Learning!Keys(scoreRows)
        THEN Learning!RowOf(scoreRows, w).count + 1 ELSE 1
  BY <1>1, <1>3, <1>6
<1> QED
  BY <1>3, <1>6, <1>7 DEF a, gone, row

LEMMA LayoutWritten ==
  ASSUME Learning!TypeOK, NEW f \in Phrases, NEW l \in Layouts,
         f \in Learning!Keys(layoutRows) => Learning!RowOf(layoutRows, f).count < TopCount
  PROVE  LET a == After(layoutRows, Learning!LayoutRow(f, l), LayoutCap)
             gone == Gone(layoutRows, Learning!LayoutRow(f, l), LayoutCap)
         IN  /\ a \in Seq(LayoutRows) /\ Learning!NoKeyTwice(a)
             /\ f \notin gone
             /\ Learning!Keys(a) = (Learning!Keys(layoutRows) \cup {f}) \ gone
             /\ \A k \in Learning!Keys(a) : k # f =>
                  Learning!RowOf(a, k) = Learning!RowOf(layoutRows, k)
             /\ Learning!RowOf(a, f).layout = l
<1> DEFINE row == Learning!LayoutRow(f, l)
           a == After(layoutRows, row, LayoutCap)
           gone == Gone(layoutRows, row, LayoutCap)
<1>1. row = [key |-> f, count |-> 1, layout |-> l]
  BY DEF Learning!LayoutRow
<1>2. layoutRows \in Seq(LayoutRows) /\ Learning!NoKeyTwice(layoutRows)
  BY DEF Learning!TypeOK, LayoutRows
<1>3. row \in LayoutRows /\ row.key = f /\ \A r \in LayoutRows : r.count \in Nat
  BY <1>1, LearningAssumption DEF LayoutRows, LearningAssumption
<1>4. ASSUME NEW i \in DOMAIN layoutRows, layoutRows[i].key = row.key
      PROVE  /\ [row EXCEPT !.count = layoutRows[i].count + 1] \in LayoutRows
             /\ [row EXCEPT !.count = layoutRows[i].count + 1].key = row.key
  <2>1. Learning!RowOf(layoutRows, f) = layoutRows[i] /\ f \in Learning!Keys(layoutRows)
    BY <1>2, <1>3, <1>4, RowOfKey
  <2>2. layoutRows[i].count < TopCount /\ layoutRows[i] \in LayoutRows
    BY <1>2, <2>1
  <2>3. layoutRows[i].count + 1 \in 1 .. TopCount
    BY <2>2, LearningAssumption DEF LayoutRows, LearningAssumption
  <2>4. [row EXCEPT !.count = layoutRows[i].count + 1]
          = [key |-> f, count |-> layoutRows[i].count + 1, layout |-> l]
    BY <1>1
  <2> QED
    BY <1>3, <2>3, <2>4 DEF LayoutRows
<1>5. LayoutCap \in Nat \ {0}
  BY LearningAssumption DEF LearningAssumption
<1> HIDE DEF row
<1>6. /\ a \in Seq(LayoutRows) /\ Learning!NoKeyTwice(a)
      /\ row.key \notin gone
      /\ Learning!Keys(a) = (Learning!Keys(layoutRows) \cup {row.key}) \ gone
      /\ \A k \in Learning!Keys(a) : k # row.key =>
           Learning!RowOf(a, k) = Learning!RowOf(layoutRows, k)
      /\ Learning!RowOf(a, row.key) =
           IF row.key \in Learning!Keys(layoutRows)
           THEN [row EXCEPT !.count = Learning!RowOf(layoutRows, row.key).count + 1]
           ELSE row
      /\ Len(a) <= LayoutCap
      /\ \A i \in DOMAIN layoutRows, j \in DOMAIN a :
           layoutRows[i].key \notin Learning!Keys(a) /\ a[j].key # row.key
           => layoutRows[i].count <= a[j].count
  BY <1>2, <1>3, <1>4, <1>5, TableWritten
<1> HIDE DEF a, gone
<1>7. Learning!RowOf(a, f).layout = l
  BY <1>1, <1>3, <1>6
<1> QED
  BY <1>3, <1>6, <1>7 DEF a, gone, row

LEMMA TableKeys ==
  ASSUME NEW K, NEW cap \in Nat, NEW t \in Learning!Tables(K, cap)
  PROVE  /\ \E n \in Nat : t \in [1 .. n -> K]
         /\ \A i, j \in DOMAIN t : t[i] = t[j] => i = j
<1>1. PICK n \in 0 .. cap + 1 :
        t \in {s \in [1 .. n -> K] : \A i, j \in 1 .. n : i # j => s[i] # s[j]}
  BY DEF Learning!Tables
<1>2. n \in Nat /\ t \in [1 .. n -> K] /\ DOMAIN t = 1 .. n
  BY <1>1
<1> QED
  BY <1>1, <1>2

LEMMA LearningInitially == Learning!Init => Learning!TypeOK
<1> SUFFICES ASSUME Learning!Init PROVE Learning!TypeOK
  OBVIOUS
<1> USE LearningAssumption DEF LearningAssumption
<1>1. scoreRows \in Seq(ScoreRows) /\ Learning!NoKeyTwice(scoreRows)
  <2>1. PICK keys \in Learning!Tables(Choices, ScoreCap) :
          \E n \in [DOMAIN keys -> 1 .. TopCount] :
            scoreRows = [i \in DOMAIN keys |-> [key |-> keys[i], count |-> n[i]]]
    BY DEF Learning!Init
  <2>2. PICK n \in [DOMAIN keys -> 1 .. TopCount] :
          scoreRows = [i \in DOMAIN keys |-> [key |-> keys[i], count |-> n[i]]]
    BY <2>1
  <2>3. PICK m \in Nat : keys \in [1 .. m -> Choices]
    BY TableKeys
  <2>4. \A i \in 1 .. m : scoreRows[i] = [key |-> keys[i], count |-> n[i]]
    BY <2>2, <2>3
  <2>5. scoreRows \in [1 .. m -> ScoreRows]
    BY <2>2, <2>3 DEF ScoreRows
  <2>6. \A i, j \in DOMAIN keys : keys[i] = keys[j] => i = j
    BY TableKeys
  <2>7. scoreRows \in Seq(ScoreRows)
    BY <2>3, <2>5
  <2>8. Learning!NoKeyTwice(scoreRows)
    BY <2>3, <2>4, <2>5, <2>6 DEF Learning!NoKeyTwice
  <2> QED
    BY <2>7, <2>8
<1>2. layoutRows \in Seq(LayoutRows) /\ Learning!NoKeyTwice(layoutRows)
  <2>1. PICK keys \in Learning!Tables(Phrases, LayoutCap) :
          \E l \in [DOMAIN keys -> Layouts] :
            layoutRows = [i \in DOMAIN keys |-> Learning!LayoutRow(keys[i], l[i])]
    BY DEF Learning!Init
  <2>2. PICK l \in [DOMAIN keys -> Layouts] :
          layoutRows = [i \in DOMAIN keys |-> Learning!LayoutRow(keys[i], l[i])]
    BY <2>1
  <2>3. PICK m \in Nat : keys \in [1 .. m -> Phrases]
    BY TableKeys
  <2>4. \A i \in 1 .. m : layoutRows[i] = [key |-> keys[i], count |-> 1, layout |-> l[i]]
    BY <2>2, <2>3 DEF Learning!LayoutRow
  <2>5. layoutRows \in [1 .. m -> LayoutRows]
    <3>1. \A i \in 1 .. m : layoutRows[i] \in LayoutRows
      BY <2>2, <2>3, <2>4 DEF LayoutRows
    <3> QED
      BY <2>2, <2>3, <3>1
  <2>6. \A i, j \in DOMAIN keys : keys[i] = keys[j] => i = j
    BY TableKeys
  <2>7. layoutRows \in Seq(LayoutRows)
    BY <2>3, <2>5
  <2>8. Learning!NoKeyTwice(layoutRows)
    BY <2>3, <2>4, <2>5, <2>6 DEF Learning!NoKeyTwice
  <2> QED
    BY <2>7, <2>8
<1>3. /\ mode \in [Learners -> {"stopped", "attached", "detached"}]
      /\ counts \in [Learners -> [Choices -> 0 .. TopCount]]
      /\ learned \in [Learners -> [Phrases -> Layouts \cup {NoLayout}]]
      /\ forgotten \subseteq Phrases
  BY DEF Learning!Init, Learning!NoCounts, Learning!NoLayouts
<1> QED
  BY <1>1, <1>2, <1>3 DEF Learning!TypeOK, ScoreRows, LayoutRows

LEMMA NothingType ==
  /\ Learning!NoCounts \in [Choices -> 0 .. TopCount]
  /\ Learning!NoLayouts \in [Phrases -> Layouts \cup {NoLayout}]
BY LearningAssumption DEF LearningAssumption, Learning!NoCounts, Learning!NoLayouts

LEMMA LoadedType ==
  ASSUME Learning!TypeOK
  PROVE  /\ Learning!CountsOf(scoreRows) \in [Choices -> 0 .. TopCount]
         /\ Learning!LayoutsOf(layoutRows) \in [Phrases -> Layouts \cup {NoLayout}]
<1>1. \A w \in Learning!Keys(scoreRows) :
        Learning!RowOf(scoreRows, w) \in [key : Choices, count : 1 .. TopCount]
  BY RowOfType DEF Learning!TypeOK
<1>2. \A f \in Learning!Keys(layoutRows) :
        Learning!RowOf(layoutRows, f) \in [key : Phrases, count : 1 .. TopCount, layout : Layouts]
  BY RowOfType DEF Learning!TypeOK
<1>3. TopCount \in Nat
  BY LearningAssumption DEF LearningAssumption
<1>4. \A w \in Choices : (IF w \in Learning!Keys(scoreRows)
                          THEN Learning!RowOf(scoreRows, w).count ELSE 0) \in 0 .. TopCount
  BY <1>1, <1>3
<1>5. \A f \in Phrases : (IF f \in Learning!Keys(layoutRows)
                          THEN Learning!RowOf(layoutRows, f).layout ELSE NoLayout)
                         \in Layouts \cup {NoLayout}
  BY <1>2
<1> QED
  BY <1>4, <1>5 DEF Learning!CountsOf, Learning!LayoutsOf

(* What the two writes do, in terms of After.                               *)
LEMMA RecordWrites ==
  ASSUME Learning!TypeOK, NEW p \in Learners, NEW w \in Choices, Learning!Record(p, w)
  PROVE  LET gone == Gone(scoreRows, Learning!ScoreRow(w), ScoreCap)
         IN  /\ mode[p] = "attached"
             /\ w \in Learning!Keys(scoreRows) => Learning!RowOf(scoreRows, w).count < TopCount
             /\ counts[p][w] < TopCount
             /\ scoreRows' = After(scoreRows, Learning!ScoreRow(w), ScoreCap)
             /\ counts' = [counts EXCEPT ![p] =
                             [v \in Choices |->
                                IF v \in gone THEN 0
                                ELSE IF v = w THEN counts[p][v] + 1
                                ELSE counts[p][v]]]
             /\ UNCHANGED <<layoutRows, mode, learned, forgotten>>
BY DEF Learning!Record, After, Gone, Learning!ScoreRow

LEMMA RecordLayoutWrites ==
  ASSUME Learning!TypeOK, NEW p \in Learners, NEW f \in Phrases, NEW l \in Layouts,
         Learning!RecordLayout(p, f, l)
  PROVE  LET gone == Gone(layoutRows, Learning!LayoutRow(f, l), LayoutCap)
         IN  /\ mode[p] = "attached"
             /\ f \in Learning!Keys(layoutRows) => Learning!RowOf(layoutRows, f).count < TopCount
             /\ layoutRows' = After(layoutRows, Learning!LayoutRow(f, l), LayoutCap)
             /\ learned' = [learned EXCEPT ![p] =
                              [g \in Phrases |->
                                 IF g \in gone THEN NoLayout
                                 ELSE IF g = f THEN l ELSE learned[p][g]]]
             /\ forgotten' = forgotten \ {f}
             /\ UNCHANGED <<scoreRows, mode, counts>>
BY DEF Learning!RecordLayout, After, Gone, Learning!LayoutRow

LEMMA LearningTypeKept == Learning!TypeOK /\ [Learning!Next]_Learning!vars => Learning!TypeOK'
<1> SUFFICES ASSUME Learning!TypeOK, [Learning!Next]_Learning!vars PROVE Learning!TypeOK'
  OBVIOUS
<1>0. TopCount \in Nat \ {0}
  BY LearningAssumption DEF LearningAssumption
<1>1. ASSUME NEW p \in Learners, Learning!Start(p) PROVE Learning!TypeOK'
  <2>1. /\ counts' \in [Learners -> [Choices -> 0 .. TopCount]]
        /\ learned' \in [Learners -> [Phrases -> Layouts \cup {NoLayout}]]
        /\ mode' \in [Learners -> {"stopped", "attached", "detached"}]
    <3> DEFINE c == Learning!CountsOf(scoreRows)
               l == Learning!LayoutsOf(layoutRows)
    <3>1. /\ c \in [Choices -> 0 .. TopCount]
          /\ l \in [Phrases -> Layouts \cup {NoLayout}]
      BY LoadedType
    <3>2. \/ /\ mode' = [mode EXCEPT ![p] = "attached"]
             /\ counts' = [counts EXCEPT ![p] = c]
             /\ learned' = [learned EXCEPT ![p] = l]
          \/ /\ mode' = [mode EXCEPT ![p] = "detached"]
             /\ counts' = counts /\ learned' = learned
      BY <1>1 DEF Learning!Start
    <3> HIDE DEF c, l
    <3>3. mode' \in [Learners -> {"stopped", "attached", "detached"}]
      BY <3>2 DEF Learning!TypeOK
    <3>4. counts' \in [Learners -> [Choices -> 0 .. TopCount]]
      BY <3>1, <3>2 DEF Learning!TypeOK
    <3>5. learned' \in [Learners -> [Phrases -> Layouts \cup {NoLayout}]]
      BY <3>1, <3>2 DEF Learning!TypeOK
    <3> QED
      BY <3>3, <3>4, <3>5
  <2>2. UNCHANGED <<scoreRows, layoutRows, forgotten>>
    BY <1>1 DEF Learning!Start
  <2> QED
    BY <2>1, <2>2 DEF Learning!TypeOK, Learning!NoKeyTwice
<1>2. ASSUME NEW p \in Learners, Learning!Stop(p) PROVE Learning!TypeOK'
  BY <1>2, NothingType DEF Learning!TypeOK, Learning!Stop, Learning!NoKeyTwice
<1>3. ASSUME NEW p \in Learners, Learning!Clear(p) PROVE Learning!TypeOK'
  <2>1. /\ counts' \in [Learners -> [Choices -> 0 .. TopCount]]
        /\ learned' \in [Learners -> [Phrases -> Layouts \cup {NoLayout}]]
        /\ mode' = mode /\ forgotten' = forgotten
    BY <1>3, NothingType DEF Learning!TypeOK, Learning!Clear
  <2>2. CASE mode[p] = "attached"
    <3>1. scoreRows' = <<>> /\ layoutRows' = <<>>
      BY <1>3, <2>2 DEF Learning!Clear
    <3>2. \A i \in DOMAIN <<>> : FALSE
      OBVIOUS
    <3> QED
      BY <2>1, <3>1, <3>2 DEF Learning!TypeOK, Learning!NoKeyTwice
  <2>3. CASE mode[p] # "attached"
    BY <1>3, <2>1, <2>3 DEF Learning!TypeOK, Learning!Clear, Learning!NoKeyTwice
  <2> QED
    BY <2>2, <2>3
<1>4. ASSUME NEW p \in Learners, NEW w \in Choices, Learning!Record(p, w) PROVE Learning!TypeOK'
  <2> DEFINE gone == Gone(scoreRows, Learning!ScoreRow(w), ScoreCap)
             learnt == [v \in Choices |-> IF v \in gone THEN 0
                                          ELSE IF v = w THEN counts[p][v] + 1
                                          ELSE counts[p][v]]
  <2>1. /\ w \in Learning!Keys(scoreRows) => Learning!RowOf(scoreRows, w).count < TopCount
        /\ counts[p][w] < TopCount
        /\ scoreRows' = After(scoreRows, Learning!ScoreRow(w), ScoreCap)
        /\ counts' = [counts EXCEPT ![p] = learnt]
        /\ UNCHANGED <<layoutRows, mode, learned, forgotten>>
    BY <1>4, RecordWrites
  <2> HIDE DEF gone
  <2>2. scoreRows' \in Seq(ScoreRows) /\ Learning!NoKeyTwice(scoreRows')
    BY <2>1, ScoreWritten
  <2>3. learnt \in [Choices -> 0 .. TopCount]
    <3>1. \A v \in Choices : counts[p][v] \in 0 .. TopCount
      BY DEF Learning!TypeOK
    <3>2. counts[p][w] + 1 \in 0 .. TopCount /\ 0 \in 0 .. TopCount
      BY <1>0, <2>1, <3>1
    <3> QED
      BY <3>1, <3>2
  <2> HIDE DEF learnt
  <2>4. counts' \in [Learners -> [Choices -> 0 .. TopCount]]
    BY <2>1, <2>3 DEF Learning!TypeOK
  <2> QED
    BY <2>1, <2>2, <2>4 DEF Learning!TypeOK, ScoreRows, Learning!NoKeyTwice
<1>5. ASSUME NEW p \in Learners, NEW w \in Choices, Learning!RecordDetached(p, w)
      PROVE  Learning!TypeOK'
  <2>1. counts' \in [Learners -> [Choices -> 0 .. TopCount]]
    BY <1>0, <1>5 DEF Learning!TypeOK, Learning!RecordDetached
  <2> QED
    BY <1>5, <2>1 DEF Learning!TypeOK, Learning!RecordDetached, Learning!NoKeyTwice
<1>6. ASSUME NEW p \in Learners, NEW f \in Phrases, Learning!ForgetLayout(p, f)
      PROVE  Learning!TypeOK'
  <2>1. /\ learned' \in [Learners -> [Phrases -> Layouts \cup {NoLayout}]]
        /\ forgotten' \subseteq Phrases
        /\ UNCHANGED <<scoreRows, mode, counts>>
    BY <1>6 DEF Learning!TypeOK, Learning!ForgetLayout
  <2>2. layoutRows' = layoutRows \/ layoutRows' = Learning!Without(layoutRows, {f})
    BY <1>6 DEF Learning!ForgetLayout
  <2>3. layoutRows' \in Seq(LayoutRows) /\ Learning!NoKeyTwice(layoutRows')
    BY <2>2, WithoutKeys DEF Learning!TypeOK, LayoutRows
  <2> QED
    BY <2>1, <2>3 DEF Learning!TypeOK, LayoutRows, Learning!NoKeyTwice
<1>7. ASSUME NEW p \in Learners, NEW f \in Phrases, NEW l \in Layouts,
             Learning!RecordLayout(p, f, l)
      PROVE  Learning!TypeOK'
  <2> DEFINE gone == Gone(layoutRows, Learning!LayoutRow(f, l), LayoutCap)
             learnt == [g \in Phrases |-> IF g \in gone THEN NoLayout
                                          ELSE IF g = f THEN l ELSE learned[p][g]]
  <2>1. /\ f \in Learning!Keys(layoutRows) => Learning!RowOf(layoutRows, f).count < TopCount
        /\ layoutRows' = After(layoutRows, Learning!LayoutRow(f, l), LayoutCap)
        /\ learned' = [learned EXCEPT ![p] = learnt]
        /\ forgotten' = forgotten \ {f}
        /\ UNCHANGED <<scoreRows, mode, counts>>
    BY <1>7, RecordLayoutWrites
  <2> HIDE DEF gone
  <2>2. layoutRows' \in Seq(LayoutRows) /\ Learning!NoKeyTwice(layoutRows')
    BY <2>1, LayoutWritten
  <2>3. learnt \in [Phrases -> Layouts \cup {NoLayout}]
    BY DEF Learning!TypeOK
  <2> HIDE DEF learnt
  <2> QED
    BY <2>1, <2>2, <2>3 DEF Learning!TypeOK, LayoutRows, Learning!NoKeyTwice
<1>8. ASSUME NEW p \in Learners, NEW f \in Phrases, NEW l \in Layouts,
             Learning!RecordLayoutDetached(p, f, l)
      PROVE  Learning!TypeOK'
  BY <1>8 DEF Learning!TypeOK, Learning!RecordLayoutDetached, Learning!NoKeyTwice
<1>9. CASE UNCHANGED Learning!vars
  BY <1>9 DEF Learning!vars, Learning!TypeOK, Learning!NoKeyTwice
<1> QED
  BY <1>1, <1>2, <1>3, <1>4, <1>5, <1>6, <1>7, <1>8, <1>9 DEF Learning!Next

(* The tables and the memories of what was learned keep their types, and no *)
(* table has two rows of one key.                                           *)
THEOREM LearningTypeCorrect == Learning!Spec => []Learning!TypeOK
<1>1. Learning!Init => Learning!TypeOK
  BY LearningInitially
<1>2. Learning!TypeOK /\ [Learning!Next]_Learning!vars => Learning!TypeOK'
  BY LearningTypeKept
<1> QED
  BY <1>1, <1>2, PTL DEF Learning!Spec

(* What was just learned is not evicted by its own write, the table is      *)
(* within its cap afterwards, and the weakest rows go.                      *)
THEOREM EvictsWeakestHolds == Learning!Spec => EvictsWeakest
<1>1. ASSUME Learning!TypeOK, NEW p \in Learners, NEW w \in Choices, Learning!Record(p, w)
      PROVE  /\ w \in Learning!Keys(scoreRows') /\ Len(scoreRows') <= ScoreCap
             /\ \A i \in DOMAIN scoreRows, j \in DOMAIN scoreRows' :
                  scoreRows[i].key \notin Learning!Keys(scoreRows') /\ scoreRows'[j].key # w
                    => scoreRows[i].count <= scoreRows'[j].count
  <2> DEFINE a == After(scoreRows, Learning!ScoreRow(w), ScoreCap)
             gone == Gone(scoreRows, Learning!ScoreRow(w), ScoreCap)
  <2>1. /\ w \in Learning!Keys(scoreRows) => Learning!RowOf(scoreRows, w).count < TopCount
        /\ scoreRows' = a
    BY <1>1, RecordWrites
  <2>2. /\ w \notin gone
        /\ Learning!Keys(a) = (Learning!Keys(scoreRows) \cup {w}) \ gone
        /\ Len(a) <= ScoreCap
        /\ \A i \in DOMAIN scoreRows, j \in DOMAIN a :
             scoreRows[i].key \notin Learning!Keys(a) /\ a[j].key # w
             => scoreRows[i].count <= a[j].count
    BY <1>1, <2>1, ScoreWritten
  <2> HIDE DEF a, gone
  <2> QED
    BY <2>1, <2>2
<1>2. Learning!TypeOK =>
        \A p \in Learners, w \in Choices : Learning!Record(p, w) =>
          /\ w \in Learning!Keys(scoreRows') /\ Len(scoreRows') <= ScoreCap
          /\ \A i \in DOMAIN scoreRows, j \in DOMAIN scoreRows' :
               scoreRows[i].key \notin Learning!Keys(scoreRows') /\ scoreRows'[j].key # w
                 => scoreRows[i].count <= scoreRows'[j].count
  BY <1>1
<1> QED
  BY <1>2, LearningTypeCorrect, PTL DEF EvictsWeakest, Learning!EvictsWeakest

-----------------------------------------------------------------------------
(* One process at a time has the tables open.  Two that have them open evict *)
(* and forget each other's rows, of which no memory hears.                   *)
Alone == \A p, q \in Learners : p # q => mode[p] # "attached" \/ mode[q] # "attached"

(* What a process has learned is what the tables hold.                      *)
CountsMatch(p) ==
  \A w \in Choices :
    counts[p][w] = IF w \in Learning!Keys(scoreRows)
                   THEN Learning!RowOf(scoreRows, w).count ELSE 0
LayoutsMatch(p) ==
  \A f \in Phrases : learned[p][f] # NoLayout =>
    /\ f \in Learning!Keys(layoutRows)
    /\ Learning!RowOf(layoutRows, f).layout = learned[p][f]
Matches(p) == CountsMatch(p) /\ LayoutsMatch(p)

MatchInv == \A p \in Learners : mode[p] = "attached" => Matches(p)

(* Nothing of the tables and of what p remembers changes.                   *)
LEMMA MatchUntouched ==
  ASSUME NEW p \in Learners, Matches(p),
         scoreRows' = scoreRows, layoutRows' = layoutRows,
         counts'[p] = counts[p], learned'[p] = learned[p]
  PROVE  Matches(p)'
BY DEF Matches, CountsMatch, LayoutsMatch

LEMMA MatchStarted ==
  ASSUME Learning!TypeOK, MatchInv, NEW p \in Learners, Learning!Start(p)
  PROVE  MatchInv'
<1> SUFFICES ASSUME NEW q \in Learners, mode'[q] = "attached" PROVE Matches(q)'
  BY DEF MatchInv
<1>1. UNCHANGED <<scoreRows, layoutRows>>
  BY DEF Learning!Start
<1>2. CASE q = p
  <2>1. /\ counts'[p] = Learning!CountsOf(scoreRows)
        /\ learned'[p] = Learning!LayoutsOf(layoutRows)
    BY <1>2 DEF Learning!Start, Learning!TypeOK
  <2>2. CountsMatch(p)'
    BY <1>1, <2>1 DEF CountsMatch, Learning!CountsOf
  <2>3. LayoutsMatch(p)'
    BY <1>1, <2>1 DEF LayoutsMatch, Learning!LayoutsOf
  <2> QED
    BY <1>2, <2>2, <2>3 DEF Matches
<1>3. CASE q # p
  <2>1. mode[q] = "attached" /\ counts'[q] = counts[q] /\ learned'[q] = learned[q]
    BY <1>3 DEF Learning!Start, Learning!TypeOK
  <2>2. Matches(q)
    BY <2>1 DEF MatchInv
  <2> QED
    BY <1>1, <2>1, <2>2, MatchUntouched
<1> QED
  BY <1>2, <1>3

LEMMA MatchRecorded ==
  ASSUME Learning!TypeOK, MatchInv, Alone, NEW p \in Learners, NEW w \in Choices,
         Learning!Record(p, w)
  PROVE  MatchInv'
<1> SUFFICES ASSUME NEW q \in Learners, mode'[q] = "attached" PROVE Matches(q)'
  BY DEF MatchInv
<1> DEFINE gone == Gone(scoreRows, Learning!ScoreRow(w), ScoreCap)
           a == After(scoreRows, Learning!ScoreRow(w), ScoreCap)
           learnt == [v \in Choices |-> IF v \in gone THEN 0
                                        ELSE IF v = w THEN counts[p][v] + 1
                                        ELSE counts[p][v]]
<1>1. /\ mode[p] = "attached"
      /\ w \in Learning!Keys(scoreRows) => Learning!RowOf(scoreRows, w).count < TopCount
      /\ scoreRows' = a
      /\ counts' = [counts EXCEPT ![p] = learnt]
      /\ UNCHANGED <<layoutRows, mode, learned, forgotten>>
  BY RecordWrites
<1>2. /\ w \notin gone
      /\ Learning!Keys(a) = (Learning!Keys(scoreRows) \cup {w}) \ gone
      /\ \A k \in Learning!Keys(a) : k # w =>
           Learning!RowOf(a, k) = Learning!RowOf(scoreRows, k)
      /\ Learning!RowOf(a, w).count =
           IF w \in Learning!Keys(scoreRows)
           THEN Learning!RowOf(scoreRows, w).count + 1 ELSE 1
  BY <1>1, ScoreWritten
<1>3. q = p
  BY <1>1 DEF Alone
<1>4. Matches(p)
  BY <1>1 DEF MatchInv
<1>5. \A v \in Choices : counts'[p][v] = IF v \in gone THEN 0
                                        ELSE IF v = w THEN counts[p][v] + 1
                                        ELSE counts[p][v]
  BY <1>1 DEF Learning!TypeOK
<1> HIDE DEF gone, a, learnt
<1>6. CountsMatch(p)'
  <2> SUFFICES ASSUME NEW v \in Choices
               PROVE  counts'[p][v] = IF v \in Learning!Keys(a)
                                      THEN Learning!RowOf(a, v).count ELSE 0
    BY <1>1 DEF CountsMatch
  <2>1. counts[p][v] = IF v \in Learning!Keys(scoreRows)
                       THEN Learning!RowOf(scoreRows, v).count ELSE 0
    BY <1>4 DEF Matches, CountsMatch
  <2>2. CASE v = w
    BY <1>2, <1>5, <2>1, <2>2
  <2>3. CASE v # w
    BY <1>2, <1>5, <2>1, <2>3
  <2> QED
    BY <2>2, <2>3
<1>7. LayoutsMatch(p)'
  BY <1>1, <1>4 DEF Matches, LayoutsMatch
<1> QED
  BY <1>3, <1>6, <1>7 DEF Matches

LEMMA MatchLayoutRecorded ==
  ASSUME Learning!TypeOK, MatchInv, Alone, NEW p \in Learners, NEW f \in Phrases,
         NEW l \in Layouts, Learning!RecordLayout(p, f, l)
  PROVE  MatchInv'
<1> SUFFICES ASSUME NEW q \in Learners, mode'[q] = "attached" PROVE Matches(q)'
  BY DEF MatchInv
<1> DEFINE gone == Gone(layoutRows, Learning!LayoutRow(f, l), LayoutCap)
           a == After(layoutRows, Learning!LayoutRow(f, l), LayoutCap)
           learnt == [g \in Phrases |-> IF g \in gone THEN NoLayout
                                        ELSE IF g = f THEN l ELSE learned[p][g]]
<1>1. /\ mode[p] = "attached"
      /\ f \in Learning!Keys(layoutRows) => Learning!RowOf(layoutRows, f).count < TopCount
      /\ layoutRows' = a
      /\ learned' = [learned EXCEPT ![p] = learnt]
      /\ UNCHANGED <<scoreRows, mode, counts>>
  BY RecordLayoutWrites
<1>2. /\ f \notin gone
      /\ Learning!Keys(a) = (Learning!Keys(layoutRows) \cup {f}) \ gone
      /\ \A k \in Learning!Keys(a) : k # f =>
           Learning!RowOf(a, k) = Learning!RowOf(layoutRows, k)
      /\ Learning!RowOf(a, f).layout = l
  BY <1>1, LayoutWritten
<1>3. q = p
  BY <1>1 DEF Alone
<1>4. Matches(p)
  BY <1>1 DEF MatchInv
<1>5. \A g \in Phrases : learned'[p][g] = IF g \in gone THEN NoLayout
                                         ELSE IF g = f THEN l ELSE learned[p][g]
  BY <1>1 DEF Learning!TypeOK
<1> HIDE DEF gone, a, learnt
<1>6. CountsMatch(p)'
  BY <1>1, <1>4 DEF Matches, CountsMatch
<1>7. LayoutsMatch(p)'
  <2> SUFFICES ASSUME NEW g \in Phrases, learned'[p][g] # NoLayout
               PROVE  g \in Learning!Keys(a) /\ Learning!RowOf(a, g).layout = learned'[p][g]
    BY <1>1 DEF LayoutsMatch
  <2>1. g \notin gone
    BY <1>5
  <2>2. CASE g = f
    BY <1>2, <1>5, <2>1, <2>2
  <2>3. CASE g # f
    <3>1. learned'[p][g] = learned[p][g]
      BY <1>5, <2>1, <2>3
    <3>2. /\ g \in Learning!Keys(layoutRows)
          /\ Learning!RowOf(layoutRows, g).layout = learned[p][g]
      BY <1>4, <3>1 DEF Matches, LayoutsMatch
    <3> QED
      BY <1>2, <2>1, <2>3, <3>1, <3>2
  <2> QED
    BY <2>2, <2>3
<1> QED
  BY <1>3, <1>6, <1>7 DEF Matches

LEMMA MatchForgotten ==
  ASSUME Learning!TypeOK, MatchInv, Alone, NEW p \in Learners, NEW f \in Phrases,
         Learning!ForgetLayout(p, f)
  PROVE  MatchInv'
<1> SUFFICES ASSUME NEW q \in Learners, mode'[q] = "attached" PROVE Matches(q)'
  BY DEF MatchInv
<1>1. /\ learned' = [learned EXCEPT ![p][f] = NoLayout]
      /\ UNCHANGED <<scoreRows, mode, counts>>
      /\ layoutRows' = layoutRows \/ layoutRows' = Learning!Without(layoutRows, {f})
      /\ mode[p] # "attached" => layoutRows' = layoutRows
  BY DEF Learning!ForgetLayout
<1>2. Matches(q)
  BY <1>1 DEF MatchInv
<1>3. CASE mode[p] # "attached"
  <2>1. q # p /\ learned'[q] = learned[q]
    BY <1>1, <1>3 DEF Learning!TypeOK
  <2> QED
    BY <1>1, <1>2, <1>3, <2>1, MatchUntouched
<1>4. CASE mode[p] = "attached"
  <2>1. q = p
    BY <1>1, <1>4 DEF Alone
  <2>2. \A g \in Phrases : learned'[p][g] = IF g = f THEN NoLayout ELSE learned[p][g]
    BY <1>1 DEF Learning!TypeOK
  <2>3. \A g \in Learning!Keys(layoutRows) : g # f =>
          /\ g \in Learning!Keys(layoutRows')
          /\ Learning!RowOf(layoutRows', g) = Learning!RowOf(layoutRows, g)
    BY <1>1, WithoutKeys DEF Learning!TypeOK
  <2>4. LayoutsMatch(p)'
    BY <1>2, <2>1, <2>2, <2>3 DEF Matches, LayoutsMatch
  <2>5. CountsMatch(p)'
    BY <1>1, <1>2, <2>1 DEF Matches, CountsMatch
  <2> QED
    BY <2>1, <2>4, <2>5 DEF Matches
<1> QED
  BY <1>3, <1>4

LEMMA MatchCleared ==
  ASSUME Learning!TypeOK, MatchInv, Alone, NEW p \in Learners, Learning!Clear(p)
  PROVE  MatchInv'
<1> SUFFICES ASSUME NEW q \in Learners, mode'[q] = "attached" PROVE Matches(q)'
  BY DEF MatchInv
<1>1. /\ mode' = mode
      /\ counts' = [counts EXCEPT ![p] = Learning!NoCounts]
      /\ learned' = [learned EXCEPT ![p] = Learning!NoLayouts]
  BY DEF Learning!Clear
<1>2. CASE mode[p] # "attached"
  <2>1. UNCHANGED <<scoreRows, layoutRows>> /\ q # p
    BY <1>1, <1>2 DEF Learning!Clear
  <2>2. counts'[q] = counts[q] /\ learned'[q] = learned[q] /\ Matches(q)
    BY <1>1, <2>1 DEF Learning!TypeOK, MatchInv
  <2> QED
    BY <2>1, <2>2, MatchUntouched
<1>3. CASE mode[p] = "attached"
  <2>1. q = p /\ scoreRows' = <<>>
    BY <1>1, <1>3 DEF Alone, Learning!Clear
  <2>2. counts'[p] = Learning!NoCounts /\ learned'[p] = Learning!NoLayouts
    BY <1>1 DEF Learning!TypeOK
  <2>3. Learning!Keys(scoreRows') = {}
    BY <2>1 DEF Learning!Keys
  <2>4. CountsMatch(p)'
    BY <2>2, <2>3 DEF CountsMatch, Learning!NoCounts
  <2>5. LayoutsMatch(p)'
    BY <2>2 DEF LayoutsMatch, Learning!NoLayouts
  <2> QED
    BY <2>1, <2>4, <2>5 DEF Matches
<1> QED
  BY <1>2, <1>3

LEMMA MatchKept ==
  Learning!TypeOK /\ MatchInv /\ Alone /\ [Learning!Next]_Learning!vars => MatchInv'
<1> SUFFICES ASSUME Learning!TypeOK, MatchInv, Alone, [Learning!Next]_Learning!vars
             PROVE  MatchInv'
  OBVIOUS
<1>1. ASSUME NEW p \in Learners, Learning!Stop(p) PROVE MatchInv'
  <2> SUFFICES ASSUME NEW q \in Learners, mode'[q] = "attached" PROVE Matches(q)'
    BY DEF MatchInv
  <2>1. q # p /\ mode[q] = "attached" /\ counts'[q] = counts[q] /\ learned'[q] = learned[q]
        /\ UNCHANGED <<scoreRows, layoutRows>>
    BY <1>1 DEF Learning!Stop, Learning!TypeOK
  <2>2. Matches(q)
    BY <2>1 DEF MatchInv
  <2> QED
    BY <2>1, <2>2, MatchUntouched
<1>2. ASSUME NEW p \in Learners, NEW w \in Choices, Learning!RecordDetached(p, w)
      PROVE  MatchInv'
  <2> SUFFICES ASSUME NEW q \in Learners, mode'[q] = "attached" PROVE Matches(q)'
    BY DEF MatchInv
  <2>1. q # p /\ mode[q] = "attached" /\ counts'[q] = counts[q] /\ learned'[q] = learned[q]
        /\ UNCHANGED <<scoreRows, layoutRows>>
    BY <1>2 DEF Learning!RecordDetached, Learning!TypeOK
  <2>2. Matches(q)
    BY <2>1 DEF MatchInv
  <2> QED
    BY <2>1, <2>2, MatchUntouched
<1>3. ASSUME NEW p \in Learners, NEW f \in Phrases, NEW l \in Layouts,
             Learning!RecordLayoutDetached(p, f, l)
      PROVE  MatchInv'
  <2> SUFFICES ASSUME NEW q \in Learners, mode'[q] = "attached" PROVE Matches(q)'
    BY DEF MatchInv
  <2>1. q # p /\ mode[q] = "attached" /\ counts'[q] = counts[q] /\ learned'[q] = learned[q]
        /\ UNCHANGED <<scoreRows, layoutRows>>
    BY <1>3 DEF Learning!RecordLayoutDetached, Learning!TypeOK
  <2>2. Matches(q)
    BY <2>1 DEF MatchInv
  <2> QED
    BY <2>1, <2>2, MatchUntouched
<1>4. CASE UNCHANGED Learning!vars
  BY <1>4 DEF Learning!vars, MatchInv, Matches, CountsMatch, LayoutsMatch
<1> QED
  BY <1>1, <1>2, <1>3, <1>4, MatchStarted, MatchRecorded, MatchLayoutRecorded,
     MatchForgotten, MatchCleared DEF Learning!Next

(* While one process at a time has the store open, it has learned nothing   *)
(* that its store does not have, with the same weight.                      *)
THEOREM NoPhantomLearningHolds == Learning!Spec /\ []Alone => []NoPhantomLearning
<1>1. Learning!Init => MatchInv
  BY DEF Learning!Init, MatchInv
<1>2. Learning!TypeOK /\ MatchInv /\ Alone /\ [Learning!Next]_Learning!vars => MatchInv'
  BY MatchKept
<1>3. MatchInv => NoPhantomLearning
  BY DEF MatchInv, Matches, CountsMatch, LayoutsMatch, NoPhantomLearning,
         Learning!NoPhantomLearning
<1> QED
  BY <1>1, <1>2, <1>3, LearningTypeCorrect, PTL DEF Learning!Spec

-----------------------------------------------------------------------------
(* The dictionary of a process                                              *)

LEMMA WordsCardinality ==
  ASSUME NEW S PROVE UserWords!Cardinality(S) = Cardinality(S)
BY DEF UserWords!Cardinality, Cardinality

LEMMA WordsPlace ==
  ASSUME NEW x, NEW S, NEW R PROVE UserWords!Place(x, S, R) = Place(x, S, R)
BY WordsCardinality DEF UserWords!Place, Place

LEMMA WordsInOrder ==
  ASSUME NEW S, NEW R PROVE UserWords!InOrder(S, R) = InOrder(S, R)
BY WordsCardinality, WordsPlace DEF UserWords!InOrder, InOrder

LEMMA WordsRetained ==
  ASSUME NEW s, NEW S PROVE UserWords!Retained(s, S) = Retained(s, S)
BY WordsCardinality, WordsInOrder DEF UserWords!Retained, Retained

(* s has the elements of ixs, and those with a higher frequency first.      *)
Ranked(list, all) ==
  \A j, k \in 1 .. Len(list) : j < k => all[list[j]].frequency >= all[list[k]].frequency
Once(list) ==
  \A j, k \in 1 .. Len(list) : list[j] = list[k] => j = k
SameElements(s, t) ==
  /\ \A j \in 1 .. Len(s) : \E k \in 1 .. Len(t) : s[j] = t[k]
  /\ \A k \in 1 .. Len(t) : \E j \in 1 .. Len(s) : s[j] = t[k]

LEMMA RankOrders ==
  ASSUME NEW P \in SUBSET Nat, NEW g \in [P -> Nat], NEW R,
         \A x, y \in P : <<x, y>> \in R <=> g[x] > g[y] \/ (g[x] = g[y] /\ x < y)
  PROVE  /\ Orders(R, P)
         /\ \A x, y \in P : <<x, y>> \in R => g[x] >= g[y]
<1>1. \A x \in P : g[x] \in Nat /\ x \in Nat
  OBVIOUS
<1>2. \A x \in P : <<x, x>> \notin R
  BY <1>1
<1>3. ASSUME NEW x \in P, NEW y \in P, NEW z \in P, <<x, y>> \in R, <<y, z>> \in R
      PROVE  <<x, z>> \in R
  <2>1. (g[x] > g[y] \/ (g[x] = g[y] /\ x < y)) /\ (g[y] > g[z] \/ (g[y] = g[z] /\ y < z))
    BY <1>3
  <2>2. g[x] > g[z] \/ (g[x] = g[z] /\ x < z)
    BY <1>1, <2>1
  <2> QED
    BY <2>2
<1>4. ASSUME NEW x \in P, NEW y \in P, x # y PROVE <<x, y>> \in R \/ <<y, x>> \in R
  <2>1. \/ g[x] > g[y] \/ (g[x] = g[y] /\ x < y)
        \/ g[y] > g[x] \/ (g[y] = g[x] /\ y < x)
    BY <1>1, <1>4
  <2> QED
    BY <2>1
<1>5. \A x, y \in P : <<x, y>> \in R => g[x] >= g[y]
  BY <1>1
<1> QED
  BY <1>2, <1>3, <1>4, <1>5 DEF Orders

(* ByFrequency sorts.                                                       *)
LEMMA ByFrequencySorts ==
  ASSUME NEW s \in Seq(Nat), NEW all,
         \A j \in 1 .. Len(s) : all[s[j]].frequency \in Nat
  PROVE  LET t == UserWords!ByFrequency(s, all)
         IN  /\ t \in Seq(Nat)
             /\ SameElements(t, s)
             /\ Once(s) => Once(t)
             /\ Ranked(t, all)
<1> DEFINE P == 1 .. Len(s)
           R == {x \in P \X P :
                   \/ all[s[x[1]]].frequency > all[s[x[2]]].frequency
                   \/ /\ all[s[x[1]]].frequency = all[s[x[2]]].frequency
                      /\ x[1] < x[2]}
           o == InOrder(P, R)
           t == UserWords!ByFrequency(s, all)
<1>1. t = [r \in P |-> s[o[r]]]
  BY WordsInOrder DEF UserWords!ByFrequency
<1>2. Len(s) \in Nat /\ \A j \in P : s[j] \in Nat
  OBVIOUS
<1>3. IsFiniteSet(P) /\ Cardinality(P) = Len(s)
  BY <1>2, UpTo
<1>4. /\ Orders(R, P)
      /\ \A x, y \in P : <<x, y>> \in R => all[s[x]].frequency >= all[s[y]].frequency
  <2>1. PICK g : g = [j \in P |-> all[s[j]].frequency]
    OBVIOUS
  <2>2. g \in [P -> Nat] /\ \A j \in P : g[j] = all[s[j]].frequency
    BY <2>1
  <2>3. ASSUME NEW x \in P, NEW y \in P
        PROVE  <<x, y>> \in R <=> g[x] > g[y] \/ (g[x] = g[y] /\ x < y)
    <3>1. <<x, y>> \in P \X P /\ <<x, y>>[1] = x /\ <<x, y>>[2] = y
      OBVIOUS
    <3>2. \A z \in P \X P : z \in R <=>
            \/ all[s[z[1]]].frequency > all[s[z[2]]].frequency
            \/ /\ all[s[z[1]]].frequency = all[s[z[2]]].frequency
               /\ z[1] < z[2]
      OBVIOUS
    <3> HIDE DEF R, P
    <3> QED
      BY <2>2, <3>1, <3>2
  <2>4. P \in SUBSET Nat
    OBVIOUS
  <2> HIDE DEF R, P
  <2>5. Orders(R, P) /\ \A x, y \in P : <<x, y>> \in R => g[x] >= g[y]
    BY <2>2, <2>3, <2>4, RankOrders
  <2> QED
    BY <2>2, <2>5
<1> HIDE DEF R
<1>5. /\ o \in [P -> P]
      /\ \A x \in P : \E n \in P : o[n] = x
      /\ \A m, n \in P : m < n => <<o[m], o[n]>> \in R
      /\ \A m, n \in P : o[m] = o[n] => m = n
  <2> HIDE DEF o
  <2>1. /\ Cardinality(P) \in Nat
        /\ o \in [1 .. Cardinality(P) -> P]
        /\ \A x \in P : \E n \in 1 .. Cardinality(P) : o[n] = x
        /\ \A m, n \in 1 .. Cardinality(P) : m < n => <<o[m], o[n]>> \in R
        /\ \A m, n \in 1 .. Cardinality(P) : o[m] = o[n] => m = n
    BY <1>3, <1>4, InOrderLists DEF o
  <2> QED
    BY <1>3, <2>1
<1> HIDE DEF o
<1> HIDE DEF t
<1>6. \A r \in P : t[r] = s[o[r]] /\ t[r] \in Nat /\ o[r] \in P
  BY <1>1, <1>2, <1>5
<1>7. t \in Seq(Nat) /\ Len(t) = Len(s) /\ 1 .. Len(t) = P
  <2>1. t \in [1 .. Len(s) -> Nat]
    BY <1>1, <1>6
  <2> QED
    BY <1>2, <2>1
<1> HIDE DEF P
<1>8. SameElements(t, s)
  <2>1. ASSUME NEW j \in P PROVE \E k \in P : t[j] = s[k]
    BY <1>6
  <2>2. ASSUME NEW k \in P PROVE \E j \in P : t[j] = s[k]
    BY <1>5, <1>6
  <2> QED
    BY <1>7, <2>1, <2>2 DEF SameElements, P
<1>9. ASSUME Once(s) PROVE Once(t)
  <2>1. \A j, k \in P : s[j] = s[k] => j = k
    BY <1>9 DEF Once, P
  <2>2. \A j, k \in P : t[j] = t[k] => j = k
    BY <1>5, <1>6, <2>1
  <2> QED
    BY <1>7, <2>2 DEF Once
<1>10. Ranked(t, all)
  <2>1. ASSUME NEW j \in P, NEW k \in P, j < k
        PROVE  all[t[j]].frequency >= all[t[k]].frequency
    <3>1. <<o[j], o[k]>> \in R
      BY <1>5, <2>1
    <3> QED
      BY <1>4, <1>6, <3>1
  <2> QED
    BY <1>7, <2>1 DEF Ranked
<1> QED
  BY <1>7, <1>8, <1>9, <1>10 DEF t

(* The list of a reading has its entries, each once.                        *)
Lists(list, all, r) ==
  /\ list \in Seq(Nat) /\ Once(list)
  /\ \A j \in 1 .. Len(list) : list[j] \in 1 .. Len(all) /\ ReadingOf[all[list[j]].word] = r
  /\ \A i \in 1 .. Len(all) : ReadingOf[all[i].word] = r => \E j \in 1 .. Len(list) : list[j] = i

LEMMA ListSorted ==
  ASSUME NEW all, NEW r, NEW s, Lists(s, all, r),
         \A i \in 1 .. Len(all) : all[i].frequency \in Nat
  PROVE  /\ Lists(UserWords!ByFrequency(s, all), all, r)
         /\ Ranked(UserWords!ByFrequency(s, all), all)
<1> DEFINE t == UserWords!ByFrequency(s, all)
<1>1. s \in Seq(Nat) /\ \A j \in 1 .. Len(s) : all[s[j]].frequency \in Nat
  BY DEF Lists
<1>2. t \in Seq(Nat) /\ SameElements(t, s) /\ (Once(s) => Once(t)) /\ Ranked(t, all)
  BY <1>1, ByFrequencySorts
<1> HIDE DEF t
<1>3. Lists(t, all, r)
  <2>1. ASSUME NEW j \in 1 .. Len(t)
        PROVE  t[j] \in 1 .. Len(all) /\ ReadingOf[all[t[j]].word] = r
    <3>1. PICK k \in 1 .. Len(s) : t[j] = s[k]
      BY <1>2 DEF SameElements
    <3> QED
      BY <3>1 DEF Lists
  <2>2. ASSUME NEW i \in 1 .. Len(all), ReadingOf[all[i].word] = r
        PROVE  \E j \in 1 .. Len(t) : t[j] = i
    <3>1. PICK k \in 1 .. Len(s) : s[k] = i
      BY <2>2 DEF Lists
    <3>2. PICK j \in 1 .. Len(t) : t[j] = s[k]
      BY <1>2 DEF SameElements
    <3> QED
      BY <3>1, <3>2
  <2> QED
    BY <1>2, <2>1, <2>2 DEF Lists
<1> QED
  BY <1>2, <1>3 DEF t

Dictionaries == [user : Seq(UserWords!Entries), lists : [UserWords!Readings -> Seq(Nat)]]
AllOf(user) == Builtin \o user

DictionaryOK(d) ==
  /\ d \in Dictionaries
  /\ \A r \in UserWords!Readings :
       Lists(d.lists[r], AllOf(d.user), r) /\ Ranked(d.lists[r], AllOf(d.user))

LEMMA FrequenciesAreNumbers ==
  /\ UserWords!AllFrequencies \in SUBSET Nat
  /\ Typed \in UserWords!AllFrequencies
  /\ Builtin \in Seq(UserWords!Entries)
  /\ \A file \in Files : file \in Seq(UserWords!Entries)
<1> DEFINE F == UNION {UserWords!Range(s) : s \in Files \cup {Builtin}}
<1>1. ASSUME NEW s \in Files \cup {Builtin}
      PROVE  /\ s \in Seq(FileEntries)
             /\ \A i \in DOMAIN s : s[i] \in F
  BY WordsAssumption DEF WordsAssumption, UserWords!Range
<1>2. \A e \in F : e \in FileEntries
  BY <1>1 DEF UserWords!Range
<1>3. UserWords!AllFrequencies = {Typed} \cup {e.frequency : e \in F}
  BY DEF UserWords!AllFrequencies
<1> HIDE DEF F
<1>4. UserWords!AllFrequencies \in SUBSET Nat /\ Typed \in UserWords!AllFrequencies
  BY <1>2, <1>3, WordsAssumption DEF WordsAssumption, FileEntries
<1>5. \A e \in F : e \in UserWords!Entries
  BY <1>2, <1>3 DEF FileEntries, UserWords!Entries
<1>6. ASSUME NEW s \in Files \cup {Builtin} PROVE s \in Seq(UserWords!Entries)
  <2>1. s \in Seq(FileEntries) /\ \A i \in DOMAIN s : s[i] \in UserWords!Entries
    BY <1>1, <1>5
  <2> QED
    BY <2>1
<1> QED
  BY <1>4, <1>6

LEMMA AllTyped ==
  ASSUME NEW user \in Seq(UserWords!Entries)
  PROVE  /\ AllOf(user) \in Seq(UserWords!Entries)
         /\ Len(AllOf(user)) = Len(Builtin) + Len(user)
         /\ \A i \in 1 .. Len(Builtin) : AllOf(user)[i] = Builtin[i]
         /\ \A i \in 1 .. Len(user) : AllOf(user)[Len(Builtin) + i] = user[i]
         /\ \A i \in 1 .. Len(AllOf(user)) :
              AllOf(user)[i].frequency \in Nat /\ AllOf(user)[i].word \in Words
<1>1. Builtin \in Seq(UserWords!Entries)
  BY FrequenciesAreNumbers
<1>2. /\ AllOf(user) \in Seq(UserWords!Entries)
      /\ Len(AllOf(user)) = Len(Builtin) + Len(user)
      /\ \A i \in 1 .. Len(Builtin) : AllOf(user)[i] = Builtin[i]
      /\ \A i \in 1 .. Len(user) : AllOf(user)[Len(Builtin) + i] = user[i]
  BY <1>1 DEF AllOf
<1>3. \A i \in 1 .. Len(AllOf(user)) : AllOf(user)[i] \in UserWords!Entries
  BY <1>2
<1> QED
  BY <1>2, <1>3, FrequenciesAreNumbers DEF UserWords!Entries

LEMMA ReadingKnown ==
  ASSUME NEW w \in Words PROVE ReadingOf[w] \in UserWords!Readings
BY DEF UserWords!Readings

(* One list is sorted again, the others stay.                               *)
LEMMA ResortIs ==
  ASSUME NEW d \in Dictionaries, NEW r \in UserWords!Readings
  PROVE  UserWords!Resort(d, r) =
           [user |-> d.user,
            lists |-> [d.lists EXCEPT ![r] = UserWords!ByFrequency(@, AllOf(d.user))]]
<1>1. PICK u, l : u = d.user /\ l = d.lists /\ d = [user |-> u, lists |-> l]
  BY DEF Dictionaries
<1>2. PICK t : t = UserWords!ByFrequency(l[r], AllOf(u))
  OBVIOUS
<1>3. UserWords!Resort(d, r) = [[user |-> u, lists |-> l] EXCEPT !.lists[r] = t]
  BY <1>1, <1>2 DEF UserWords!Resort, UserWords!AllEntries, AllOf
<1>4. [[user |-> u, lists |-> l] EXCEPT !.lists[r] = t] =
        [user |-> u, lists |-> [l EXCEPT ![r] = t]]
  OBVIOUS
<1> QED
  BY <1>1, <1>2, <1>3, <1>4

LEMMA AddEntryIs ==
  ASSUME NEW d \in Dictionaries, NEW e \in UserWords!Entries
  PROVE  LET r == ReadingOf[e.word]
             user == Append(d.user, e)
         IN  UserWords!AddEntry(d, e) =
               [user |-> user,
                lists |-> [d.lists EXCEPT ![r] =
                             UserWords!ByFrequency(
                               Append(d.lists[r], Len(Builtin) + Len(d.user) + 1),
                               AllOf(user))]]
<1> DEFINE r == ReadingOf[e.word]
           n == Len(Builtin) + Len(d.user) + 1
           longer == [user |-> Append(d.user, e),
                      lists |-> [d.lists EXCEPT ![r] = Append(d.lists[r], n)]]
<1>1. r \in UserWords!Readings
  BY ReadingKnown DEF UserWords!Entries
<1>2. /\ d = [user |-> d.user, lists |-> d.lists]
      /\ d.user \in Seq(UserWords!Entries) /\ d.lists \in [UserWords!Readings -> Seq(Nat)]
      /\ d.lists[r] \in Seq(Nat)
  BY <1>1 DEF Dictionaries
<1>3. n \in Nat
  BY <1>2, FrequenciesAreNumbers
<1>4. longer \in Dictionaries
  <2>1. Append(d.user, e) \in Seq(UserWords!Entries) /\ Append(d.lists[r], n) \in Seq(Nat)
    BY <1>2, <1>3
  <2> HIDE DEF r, n
  <2> QED
    BY <1>2, <2>1 DEF Dictionaries
<1>5. UserWords!AddEntry(d, e) = UserWords!Resort(longer, r)
  BY DEF UserWords!AddEntry, UserWords!UserStart
<1>6. UserWords!Resort(longer, r) =
        [user |-> longer.user,
         lists |-> [longer.lists EXCEPT ![r] = UserWords!ByFrequency(@, AllOf(longer.user))]]
  BY <1>1, <1>4, ResortIs
<1>7. /\ longer.user = Append(d.user, e)
      /\ longer.lists = [d.lists EXCEPT ![r] = Append(d.lists[r], n)]
      /\ longer.lists[r] = Append(d.lists[r], n)
  BY <1>1, <1>2
<1>8. [longer.lists EXCEPT ![r] = UserWords!ByFrequency(@, AllOf(longer.user))] =
        [d.lists EXCEPT ![r] = UserWords!ByFrequency(Append(d.lists[r], n), AllOf(Append(d.user, e)))]
  <2> HIDE DEF longer, n, r
  <2> QED
    BY <1>1, <1>2, <1>7
<1> QED
  BY <1>5, <1>6, <1>7, <1>8

LEMMA AllLonger ==
  ASSUME NEW user \in Seq(UserWords!Entries), NEW e \in UserWords!Entries,
         NEW n, n = Len(Builtin) + Len(user) + 1
  PROVE  /\ n \in Nat \ {0}
         /\ Len(AllOf(user)) = n - 1 /\ Len(AllOf(Append(user, e))) = n
         /\ \A i \in 1 .. n - 1 : AllOf(Append(user, e))[i] = AllOf(user)[i]
         /\ AllOf(Append(user, e))[n] = e
<1> DEFINE longer == Append(user, e)
<1>1. /\ longer \in Seq(UserWords!Entries) /\ Len(longer) = Len(user) + 1
      /\ longer[Len(user) + 1] = e
      /\ \A i \in 1 .. Len(user) : longer[i] = user[i]
  OBVIOUS
<1>2. Len(Builtin) \in Nat /\ Len(user) \in Nat
  BY FrequenciesAreNumbers
<1> HIDE DEF longer
<1>3. /\ Len(AllOf(user)) = Len(Builtin) + Len(user)
      /\ \A i \in 1 .. Len(Builtin) : AllOf(user)[i] = Builtin[i]
      /\ \A i \in 1 .. Len(user) : AllOf(user)[Len(Builtin) + i] = user[i]
  BY AllTyped
<1>4. /\ Len(AllOf(longer)) = Len(Builtin) + Len(longer)
      /\ \A i \in 1 .. Len(Builtin) : AllOf(longer)[i] = Builtin[i]
      /\ \A i \in 1 .. Len(longer) : AllOf(longer)[Len(Builtin) + i] = longer[i]
  BY <1>1, AllTyped
<1>5. ASSUME NEW i \in 1 .. n - 1 PROVE AllOf(longer)[i] = AllOf(user)[i]
  <2>1. CASE i \in 1 .. Len(Builtin)
    BY <1>3, <1>4, <2>1
  <2>2. CASE i \notin 1 .. Len(Builtin)
    <3>1. PICK j \in 1 .. Len(user) : Len(Builtin) + j = i
      <4>1. i - Len(Builtin) \in 1 .. Len(user) /\ Len(Builtin) + (i - Len(Builtin)) = i
        BY <1>2, <2>2
      <4> QED
        BY <4>1
    <3>2. j \in 1 .. Len(longer)
      BY <1>1, <1>2
    <3>3. AllOf(user)[Len(Builtin) + j] = user[j]
      BY <1>3
    <3>4. AllOf(longer)[Len(Builtin) + j] = longer[j]
      BY <1>4, <3>2
    <3> QED
      BY <1>1, <3>1, <3>3, <3>4
  <2> QED
    BY <2>1, <2>2
<1>6. AllOf(longer)[n] = e
  <2>1. PICK j : j = Len(user) + 1
    OBVIOUS
  <2>2. j \in 1 .. Len(longer) /\ Len(Builtin) + j = n
    BY <1>1, <1>2, <2>1
  <2>3. AllOf(longer)[Len(Builtin) + j] = longer[j]
    BY <1>4, <2>2
  <2> QED
    BY <1>1, <2>1, <2>2, <2>3
<1>7. n \in Nat \ {0} /\ Len(AllOf(user)) = n - 1 /\ Len(AllOf(longer)) = n
  BY <1>1, <1>2, <1>3, <1>4
<1> QED
  BY <1>5, <1>6, <1>7 DEF longer

(* A list and the entries, with one entry more of the reading.              *)
LEMMA ListLonger ==
  ASSUME NEW user \in Seq(UserWords!Entries), NEW e \in UserWords!Entries, NEW s,
         Lists(s, AllOf(user), ReadingOf[e.word])
  PROVE  Lists(Append(s, Len(Builtin) + Len(user) + 1), AllOf(Append(user, e)),
               ReadingOf[e.word])
<1> DEFINE r == ReadingOf[e.word]
           n == Len(Builtin) + Len(user) + 1
           t == Append(s, n)
           old == AllOf(user)
           all == AllOf(Append(user, e))
<1>1. PICK m : m = n
  OBVIOUS
<1>2. /\ m \in Nat \ {0} /\ Len(old) = m - 1 /\ Len(all) = m
      /\ \A i \in 1 .. m - 1 : all[i] = old[i]
      /\ all[m] = e
  BY <1>1, AllLonger
<1>3. n \in Nat \ {0} /\ Len(old) = n - 1
  BY <1>1, <1>2
<1>4. Len(all) = n
  BY <1>1, <1>2
<1>5. \A i \in 1 .. n - 1 : all[i] = old[i]
  BY <1>1, <1>2
<1>6. all[n] = e
  BY <1>1, <1>2
<1>7. /\ s \in Seq(Nat) /\ Once(s)
      /\ \A j \in 1 .. Len(s) : s[j] \in 1 .. n - 1 /\ ReadingOf[old[s[j]].word] = r
      /\ \A i \in 1 .. n - 1 : ReadingOf[old[i].word] = r => \E j \in 1 .. Len(s) : s[j] = i
  BY <1>3 DEF Lists
<1>8. /\ t \in Seq(Nat) /\ Len(t) = Len(s) + 1 /\ t[Len(s) + 1] = n
      /\ \A j \in 1 .. Len(s) : t[j] = s[j]
  <2>1. s \in Seq(Nat) /\ n \in Nat
    BY <1>3, <1>7
  <2> HIDE DEF n
  <2> QED
    BY <2>1
<1>9. Len(s) \in Nat /\ \A j \in 1 .. Len(t) : j \in 1 .. Len(s) \/ j = Len(s) + 1
  <2>1. Len(s) \in Nat /\ Len(t) = Len(s) + 1
    BY <1>7, <1>8
  <2> HIDE DEF t
  <2> QED
    BY <2>1
<1> HIDE DEF n, t, old, all, r
<1>10. Once(t)
  <2> SUFFICES ASSUME NEW j \in 1 .. Len(t), NEW k \in 1 .. Len(t), t[j] = t[k]
               PROVE  j = k
    BY DEF Once
  <2>1. n \notin 1 .. n - 1
    BY <1>3
  <2>2. \A i \in 1 .. Len(s) : t[i] # n
    BY <1>7, <1>8, <2>1
  <2>3. CASE j \in 1 .. Len(s) /\ k \in 1 .. Len(s)
    BY <1>7, <1>8, <2>3 DEF Once
  <2>4. CASE ~(j \in 1 .. Len(s) /\ k \in 1 .. Len(s))
    BY <1>8, <1>9, <2>2, <2>4
  <2> QED
    BY <2>3, <2>4
<1>11. ASSUME NEW j \in 1 .. Len(t)
       PROVE  t[j] \in 1 .. Len(all) /\ ReadingOf[all[t[j]].word] = r
  <2>1. CASE j \in 1 .. Len(s)
    <3>1. s[j] \in 1 .. n - 1 /\ ReadingOf[old[s[j]].word] = r /\ t[j] = s[j]
      BY <1>7, <1>8, <2>1
    <3>2. s[j] \in 1 .. n
      BY <1>3, <3>1
    <3> QED
      BY <1>4, <1>5, <3>1, <3>2
  <2>2. CASE j = Len(s) + 1
    <3>1. t[j] = n /\ n \in 1 .. n
      BY <1>3, <1>8, <2>2
    <3> QED
      BY <1>4, <1>6, <3>1 DEF r
  <2> QED
    BY <1>9, <2>1, <2>2
<1>12. ASSUME NEW i \in 1 .. Len(all), ReadingOf[all[i].word] = r
       PROVE  \E j \in 1 .. Len(t) : t[j] = i
  <2>1. CASE i \in 1 .. n - 1
    <3>1. PICK j \in 1 .. Len(s) : s[j] = i
      BY <1>5, <1>7, <1>12, <2>1
    <3>2. j \in 1 .. Len(t) /\ t[j] = i
      BY <1>8, <1>9, <3>1
    <3> QED
      BY <3>2
  <2>2. CASE i \notin 1 .. n - 1
    <3>1. i = n
      BY <1>3, <1>4, <2>2
    <3>2. Len(s) + 1 \in 1 .. Len(t)
      BY <1>8, <1>9
    <3> QED
      BY <1>8, <3>1, <3>2
  <2> QED
    BY <2>1, <2>2
<1>13. Lists(t, all, r)
  BY <1>8, <1>10, <1>11, <1>12 DEF Lists
<1> QED
  BY <1>13 DEF t, n, all, r

(* The list of another reading does not notice.                             *)
LEMMA ListSame ==
  ASSUME NEW user \in Seq(UserWords!Entries), NEW e \in UserWords!Entries, NEW s, NEW r,
         r # ReadingOf[e.word], Lists(s, AllOf(user), r), Ranked(s, AllOf(user))
  PROVE  Lists(s, AllOf(Append(user, e)), r) /\ Ranked(s, AllOf(Append(user, e)))
<1> DEFINE n == Len(Builtin) + Len(user) + 1
           old == AllOf(user)
           all == AllOf(Append(user, e))
<1>1. PICK m : m = n
  OBVIOUS
<1>2. /\ m \in Nat \ {0} /\ Len(old) = m - 1 /\ Len(all) = m
      /\ \A i \in 1 .. m - 1 : all[i] = old[i]
      /\ all[m] = e
  BY <1>1, AllLonger
<1>3. n \in Nat \ {0} /\ Len(old) = n - 1
  BY <1>1, <1>2
<1>4. Len(all) = n
  BY <1>1, <1>2
<1>5. \A i \in 1 .. n - 1 : all[i] = old[i]
  BY <1>1, <1>2
<1>6. all[n] = e
  BY <1>1, <1>2
<1>7. /\ s \in Seq(Nat) /\ Once(s)
      /\ \A j \in 1 .. Len(s) : s[j] \in 1 .. n - 1 /\ ReadingOf[old[s[j]].word] = r
      /\ \A i \in 1 .. n - 1 : ReadingOf[old[i].word] = r => \E j \in 1 .. Len(s) : s[j] = i
  BY <1>3 DEF Lists
<1>8. Ranked(s, all)
  <2>1. \A j \in 1 .. Len(s) : all[s[j]] = old[s[j]]
    BY <1>5, <1>7
  <2> HIDE DEF all, old
  <2> QED
    BY <2>1 DEF Ranked, all, old
<1> HIDE DEF n, old, all
<1>9. \A j \in 1 .. Len(s) : s[j] \in 1 .. Len(all) /\ ReadingOf[all[s[j]].word] = r
  <2>1. \A i \in 1 .. n - 1 : i \in 1 .. n
    BY <1>3
  <2> QED
    BY <1>4, <1>5, <1>7, <2>1
<1>10. ASSUME NEW i \in 1 .. Len(all), ReadingOf[all[i].word] = r
       PROVE  \E j \in 1 .. Len(s) : s[j] = i
  <2>1. i # n
    BY <1>6, <1>10
  <2>2. i \in 1 .. n - 1
    BY <1>3, <1>4, <2>1
  <2> QED
    BY <1>5, <1>7, <1>10, <2>2
<1>11. Lists(s, all, r)
  BY <1>7, <1>9, <1>10 DEF Lists
<1> QED
  BY <1>8, <1>11 DEF all

(* add_entry keeps a dictionary in order.                                   *)
LEMMA AddEntryOK ==
  ASSUME NEW d, DictionaryOK(d), NEW e \in UserWords!Entries
  PROVE  /\ DictionaryOK(UserWords!AddEntry(d, e))
         /\ UserWords!AddEntry(d, e).user = Append(d.user, e)
<1> DEFINE r == ReadingOf[e.word]
           user == Append(d.user, e)
           s == Append(d.lists[r], Len(Builtin) + Len(d.user) + 1)
           t == UserWords!ByFrequency(s, AllOf(user))
           lists == [d.lists EXCEPT ![r] = t]
           a == UserWords!AddEntry(d, e)
<1>1. d \in Dictionaries /\ d.user \in Seq(UserWords!Entries)
      /\ d.lists \in [UserWords!Readings -> Seq(Nat)]
  BY DEF DictionaryOK, Dictionaries
<1>2. r \in UserWords!Readings
  BY ReadingKnown DEF UserWords!Entries
<1>3. a = [user |-> user, lists |-> lists]
  BY <1>1, AddEntryIs
<1>4. user \in Seq(UserWords!Entries)
  BY <1>1
<1>5. Lists(s, AllOf(user), r)
  BY <1>1, <1>2, ListLonger DEF DictionaryOK
<1>6. \A i \in 1 .. Len(AllOf(user)) : AllOf(user)[i].frequency \in Nat
  BY <1>4, AllTyped
<1>7. Lists(t, AllOf(user), r) /\ Ranked(t, AllOf(user))
  BY <1>5, <1>6, ListSorted
<1>8. ASSUME NEW q \in UserWords!Readings, q # r
      PROVE  Lists(d.lists[q], AllOf(user), q) /\ Ranked(d.lists[q], AllOf(user))
  BY <1>1, <1>8, ListSame DEF DictionaryOK
<1> HIDE DEF t, r, user, a, s
<1>9. t \in Seq(Nat)
  BY <1>7 DEF Lists
<1>10. lists \in [UserWords!Readings -> Seq(Nat)]
  BY <1>1, <1>9
<1>11. \A q \in UserWords!Readings : lists[q] = IF q = r THEN t ELSE d.lists[q]
  BY <1>1
<1> HIDE DEF lists
<1>12. a \in Dictionaries /\ a.user = user /\ a.lists = lists
  BY <1>3, <1>4, <1>10 DEF Dictionaries
<1>13. DictionaryOK(a)
  BY <1>7, <1>8, <1>11, <1>12 DEF DictionaryOK
<1> QED
  BY <1>12, <1>13 DEF a, user

LEMMA NatMin ==
  ASSUME NEW T \in SUBSET Nat, T # {}
  PROVE  \E x \in T : \A y \in T : x <= y
<1>1. PICK R : R = {ss \in Nat \X Nat : ss[1] < ss[2]}
  OBVIOUS
<1>2. IsWellFoundedOn(R, Nat)
  BY <1>1, NatLessThanWellFounded DEF OpToRel
<1>3. PICK x \in T : \A y \in T : ~ (<<y, x>> \in R)
  BY <1>2, WFMin
<1>4. ASSUME NEW y \in T PROVE x <= y
  <2>1. x \in Nat /\ y \in Nat
    OBVIOUS
  <2>2. <<y, x>> \in Nat \X Nat /\ <<y, x>>[1] = y /\ <<y, x>>[2] = x
    BY <2>1
  <2>3. ~(y < x)
    BY <1>1, <1>3, <2>2
  <2> QED
    BY <2>1, <2>3
<1> QED
  BY <1>4

(* Induction over the naturals.                                             *)
LEMMA NatSetInduction ==
  ASSUME NEW T, 0 \in T, \A n \in Nat : n \in T => n + 1 \in T
  PROVE  \A n \in Nat : n \in T
<1> SUFFICES ASSUME NEW m \in Nat, m \notin T PROVE FALSE
  OBVIOUS
<1> DEFINE U == {n \in Nat : n \notin T}
<1>1. PICK n \in U : \A k \in U : n <= k
  BY NatMin
<1>2. n # 0 /\ n - 1 \in Nat /\ ~(n <= n - 1)
  OBVIOUS
<1>3. n - 1 \in T
  BY <1>1, <1>2
<1>4. (n - 1) + 1 = n
  BY <1>2
<1> QED
  BY <1>2, <1>3, <1>4

(* Built-in entries are entries without the user's.                         *)
LEMMA NoUser ==
  /\ <<>> \in Seq(UserWords!Entries)
  /\ AllOf(<<>>) = Builtin
<1>1. <<>> \in Seq(UserWords!Entries) /\ Len(<<>>) = 0
  OBVIOUS
<1>2. Builtin \in Seq(UserWords!Entries)
  BY FrequenciesAreNumbers
<1> QED
  BY <1>1, <1>2, ConcatEmptySeq DEF AllOf

(* What is retained of the list of a reading.                               *)
LEMMA ListRetained ==
  ASSUME NEW user \in Seq(UserWords!Entries), NEW r, NEW s,
         Lists(s, AllOf(user), r), Ranked(s, AllOf(user))
  PROVE  LET t == UserWords!Retained(s, 1 .. Len(Builtin))
         IN  Lists(t, Builtin, r) /\ Ranked(t, Builtin)
<1> DEFINE t == UserWords!Retained(s, 1 .. Len(Builtin))
           all == AllOf(user)
<1>1. s \in Seq(Nat) /\ Once(s)
      /\ \A j \in 1 .. Len(s) : s[j] \in 1 .. Len(all) /\ ReadingOf[all[s[j]].word] = r
  BY DEF Lists
<1>0. ASSUME NEW i \in 1 .. Len(all), ReadingOf[all[i].word] = r
      PROVE  \E j \in 1 .. Len(s) : s[j] = i
  BY <1>0 DEF Lists
<1>2. Len(s) \in Nat /\ DOMAIN s = 1 .. Len(s)
  BY <1>1
<1>3. /\ Len(Builtin) \in Nat /\ Len(user) \in Nat /\ Len(all) = Len(Builtin) + Len(user)
      /\ \A i \in 1 .. Len(Builtin) : i \in 1 .. Len(all) /\ all[i] = Builtin[i]
  BY FrequenciesAreNumbers, AllTyped
<1>4. t \in Seq(Nat) /\ \E g : Picks(g, t, s, 1 .. Len(Builtin))
  BY <1>1, WordsRetained, RetainedPicks
<1> HIDE DEF t, all
<1>5. PICK g : Picks(g, t, s, 1 .. Len(Builtin))
  BY <1>4
<1>6. /\ \A n \in 1 .. Len(t) : g[n] \in 1 .. Len(s) /\ t[n] = s[g[n]] /\ t[n] \in 1 .. Len(Builtin)
      /\ \A m, n \in 1 .. Len(t) : m < n => g[m] < g[n]
      /\ \A i \in 1 .. Len(s) : s[i] \in 1 .. Len(Builtin) => \E n \in 1 .. Len(t) : g[n] = i
  BY <1>5 DEF Picks
<1>7. Len(t) \in Nat
  BY <1>4
<1>8. Once(t)
  <2> SUFFICES ASSUME NEW m \in 1 .. Len(t), NEW n \in 1 .. Len(t), t[m] = t[n] PROVE m = n
    BY DEF Once
  <2>1. g[m] = g[n] /\ g[m] \in 1 .. Len(s)
    <3>1. g[m] \in 1 .. Len(s) /\ g[n] \in 1 .. Len(s) /\ s[g[m]] = s[g[n]]
      BY <1>6
    <3>2. \A j, k \in 1 .. Len(s) : s[j] = s[k] => j = k
      BY <1>1 DEF Once
    <3> QED
      BY <3>1, <3>2
  <2>2. ~(m < n) /\ ~(n < m)
    BY <1>2, <1>6, <2>1
  <2> QED
    BY <1>7, <2>2
<1>9. ASSUME NEW n \in 1 .. Len(t)
      PROVE  t[n] \in 1 .. Len(Builtin) /\ ReadingOf[Builtin[t[n]].word] = r
  <2>1. g[n] \in 1 .. Len(s) /\ t[n] = s[g[n]] /\ t[n] \in 1 .. Len(Builtin)
    BY <1>6
  <2>2. ReadingOf[all[t[n]].word] = r
    BY <1>1, <2>1
  <2>3. all[t[n]] = Builtin[t[n]]
    BY <1>3, <2>1
  <2> QED
    BY <2>1, <2>2, <2>3
<1>10. ASSUME NEW i \in 1 .. Len(Builtin), ReadingOf[Builtin[i].word] = r
       PROVE  \E n \in 1 .. Len(t) : t[n] = i
  <2>1. PICK j \in 1 .. Len(s) : s[j] = i
    <3>1. i \in 1 .. Len(all) /\ all[i] = Builtin[i]
      BY <1>3
    <3>2. ReadingOf[all[i].word] = r
      BY <1>10, <3>1
    <3> QED
      BY <1>0, <3>1, <3>2
  <2>2. PICK n \in 1 .. Len(t) : g[n] = j
    BY <1>6, <2>1
  <2> QED
    BY <1>6, <2>1, <2>2
<1>11. Ranked(t, Builtin)
  <2> SUFFICES ASSUME NEW m \in 1 .. Len(t), NEW n \in 1 .. Len(t), m < n
               PROVE  Builtin[t[m]].frequency >= Builtin[t[n]].frequency
    BY DEF Ranked
  <2>1. all[s[g[m]]].frequency >= all[s[g[n]]].frequency
    BY <1>6 DEF Ranked, all
  <2>2. all[s[g[m]]] = Builtin[t[m]] /\ all[s[g[n]]] = Builtin[t[n]]
    BY <1>3, <1>6
  <2> QED
    BY <2>1, <2>2
<1>12. Lists(t, Builtin, r)
  BY <1>4, <1>8, <1>9, <1>10 DEF Lists
<1> QED
  BY <1>11, <1>12 DEF t

LEMMA WithoutUserOK ==
  ASSUME NEW d, DictionaryOK(d)
  PROVE  DictionaryOK(UserWords!WithoutUser(d)) /\ UserWords!WithoutUser(d).user = <<>>
<1> DEFINE lists == [r \in UserWords!Readings |-> UserWords!Retained(d.lists[r], 1 .. Len(Builtin))]
           w == UserWords!WithoutUser(d)
<1>1. w = [user |-> <<>>, lists |-> lists]
  BY DEF UserWords!WithoutUser, UserWords!UserStart
<1>2. \A r \in UserWords!Readings : Lists(lists[r], Builtin, r) /\ Ranked(lists[r], Builtin)
  BY ListRetained DEF DictionaryOK, Dictionaries
<1>3. lists \in [UserWords!Readings -> Seq(Nat)]
  <2>1. \A r \in UserWords!Readings : lists[r] \in Seq(Nat)
    BY <1>2 DEF Lists
  <2> QED
    BY <2>1
<1> HIDE DEF lists, w
<1>4. w \in Dictionaries /\ w.user = <<>> /\ w.lists = lists
  BY <1>1, <1>3, NoUser DEF Dictionaries
<1> QED
  BY <1>2, <1>4, NoUser DEF DictionaryOK, w

LEMMA NewDictionaryOK ==
  DictionaryOK(UserWords!NewDictionary) /\ UserWords!NewDictionary.user = <<>>
<1> DEFINE ixs == [i \in 1 .. Len(Builtin) |-> i]
           mine(r) == {i \in 1 .. Len(Builtin) : ReadingOf[Builtin[i].word] = r}
           s(r) == UserWords!Retained(ixs, mine(r))
           lists == [r \in UserWords!Readings |-> UserWords!ByFrequency(s(r), Builtin)]
           w == UserWords!NewDictionary
<1>0. Len(Builtin) \in Nat /\ Builtin \in Seq(UserWords!Entries)
  BY FrequenciesAreNumbers
<1>1. w = [user |-> <<>>, lists |-> lists]
  BY DEF UserWords!NewDictionary, UserWords!UserStart
<1>2. ASSUME NEW r \in UserWords!Readings
      PROVE  Lists(lists[r], Builtin, r) /\ Ranked(lists[r], Builtin)
  <2>1. ixs \in Seq(Nat) /\ Len(ixs) = Len(Builtin)
        /\ \A i \in 1 .. Len(Builtin) : ixs[i] = i
    BY <1>0
  <2> DEFINE t == s(r)
  <2>2. t \in Seq(Nat) /\ \E g : Picks(g, t, ixs, mine(r))
    <3> HIDE DEF ixs, mine
    <3> QED
      BY <2>1, WordsRetained, RetainedPicks
  <2>3. \A i \in 1 .. Len(Builtin) : i \in mine(r) <=> ReadingOf[Builtin[i].word] = r
    OBVIOUS
  <2>4. lists[r] = UserWords!ByFrequency(t, Builtin)
    OBVIOUS
  <2> HIDE DEF ixs, mine, t, lists
  <2>5. PICK g : Picks(g, t, ixs, mine(r))
    BY <2>2
  <2>6. /\ \A n \in 1 .. Len(t) : t[n] = g[n] /\ g[n] \in 1 .. Len(Builtin) /\ g[n] \in mine(r)
        /\ \A m, n \in 1 .. Len(t) : m < n => g[m] < g[n]
        /\ \A i \in 1 .. Len(Builtin) : i \in mine(r) => \E n \in 1 .. Len(t) : g[n] = i
    BY <2>1, <2>5 DEF Picks
  <2>7. Once(t)
    <3> SUFFICES ASSUME NEW m \in 1 .. Len(t), NEW n \in 1 .. Len(t), t[m] = t[n] PROVE m = n
      BY DEF Once
    <3>1. ~(m < n) /\ ~(n < m)
      BY <1>0, <2>6
    <3> QED
      BY <2>2, <3>1
  <2>8. Lists(t, Builtin, r)
    BY <2>2, <2>3, <2>6, <2>7 DEF Lists
  <2>9. \A i \in 1 .. Len(Builtin) : Builtin[i].frequency \in Nat
    <3>1. \A i \in 1 .. Len(Builtin) : Builtin[i] \in UserWords!Entries
      BY <1>0
    <3> QED
      BY <3>1, FrequenciesAreNumbers DEF UserWords!Entries
  <2> QED
    BY <2>4, <2>8, <2>9, ListSorted
<1>3. lists \in [UserWords!Readings -> Seq(Nat)]
  <2>1. \A r \in UserWords!Readings : lists[r] \in Seq(Nat)
    <3> HIDE DEF lists
    <3> QED
      BY <1>2 DEF Lists
  <2> HIDE DEF s
  <2> QED
    BY <2>1
<1> HIDE DEF lists, w
<1>4. w \in Dictionaries /\ w.user = <<>> /\ w.lists = lists
  BY <1>1, <1>3, NoUser DEF Dictionaries
<1> QED
  BY <1>2, <1>4, NoUser DEF DictionaryOK, w

(* f adds the entries es to d, one after the other, up to n.                *)
Adds(f, d, es, n) ==
  f = [i \in 0 .. n |-> IF i = 0 THEN d ELSE UserWords!AddEntry(f[i - 1], es[i])]

LEMMA AddsExists ==
  ASSUME NEW d, NEW es
  PROVE  \A n \in Nat : \E f : Adds(f, d, es, n)
<1> DEFINE T == {n \in Nat : \E f : Adds(f, d, es, n)}
<1>1. 0 \in T
  <2>1. PICK f : f = [i \in 0 .. 0 |-> d]
    OBVIOUS
  <2>2. f = [i \in 0 .. 0 |-> IF i = 0 THEN d ELSE UserWords!AddEntry(f[i - 1], es[i])]
    BY <2>1
  <2> QED
    BY <2>2 DEF Adds
<1>2. ASSUME NEW n \in Nat, n \in T PROVE n + 1 \in T
  <2>1. PICK g : Adds(g, d, es, n)
    BY <1>2
  <2>2. PICK f : f = [i \in 0 .. n + 1 |-> IF i = n + 1 THEN UserWords!AddEntry(g[n], es[n + 1])
                                           ELSE g[i]]
    OBVIOUS
  <2>3. ASSUME NEW i \in 0 .. n + 1
        PROVE  f[i] = IF i = 0 THEN d ELSE UserWords!AddEntry(f[i - 1], es[i])
    <3>1. CASE i = n + 1
      <4>1. n \in 0 .. n + 1 /\ n # n + 1 /\ i - 1 = n /\ i # 0
        BY <3>1
      <4> QED
        BY <2>2, <3>1, <4>1
    <3>2. CASE i # n + 1
      <4>1. i \in 0 .. n /\ f[i] = g[i]
        BY <2>2, <3>2
      <4>2. g[i] = IF i = 0 THEN d ELSE UserWords!AddEntry(g[i - 1], es[i])
        BY <2>1, <4>1 DEF Adds
      <4>3. i # 0 => i - 1 \in 0 .. n + 1 /\ i - 1 # n + 1
        BY <4>1
      <4>4. i # 0 => f[i - 1] = g[i - 1]
        BY <2>2, <4>3
      <4> QED
        BY <4>1, <4>2, <4>4
    <3> QED
      BY <3>1, <3>2
  <2>4. f = [i \in 0 .. n + 1 |-> IF i = 0 THEN d ELSE UserWords!AddEntry(f[i - 1], es[i])]
    BY <2>2, <2>3
  <2> QED
    BY <2>4 DEF Adds
<1> HIDE DEF T
<1>3. \A n \in Nat : n \in T
  BY <1>1, <1>2, NatSetInduction
<1> QED
  BY <1>3 DEF T

LEMMA AddedIs ==
  ASSUME NEW d, NEW es, Len(es) \in Nat
  PROVE  \E f : Adds(f, d, es, Len(es)) /\ UserWords!Added(d, es) = f[Len(es)]
<1>1. \E f : Adds(f, d, es, Len(es))
  BY AddsExists
<1>2. PICK f : f = CHOOSE g : g = [i \in 0 .. Len(es) |->
                                     IF i = 0 THEN d ELSE UserWords!AddEntry(g[i - 1], es[i])]
  OBVIOUS
<1>3. Adds(f, d, es, Len(es))
  BY <1>1, <1>2 DEF Adds
<1>4. UserWords!Added(d, es) = f[Len(es)]
  BY <1>2 DEF UserWords!Added
<1> QED
  BY <1>3, <1>4

(* u is v and the first n of es.                                            *)
Longer(u, v, es, n) ==
  /\ Len(u) = Len(v) + n
  /\ \A i \in 1 .. Len(v) : u[i] = v[i]
  /\ \A i \in 1 .. n : u[Len(v) + i] = es[i]

LEMMA AddedOK ==
  ASSUME NEW d, DictionaryOK(d), NEW es \in Seq(UserWords!Entries)
  PROVE  /\ DictionaryOK(UserWords!Added(d, es))
         /\ Longer(UserWords!Added(d, es).user, d.user, es, Len(es))
<1> DEFINE N == Len(es)
<1>1. N \in Nat /\ \A i \in 1 .. N : es[i] \in UserWords!Entries
  OBVIOUS
<1> HIDE DEF N
<1>2. PICK f : Adds(f, d, es, N) /\ UserWords!Added(d, es) = f[N]
  BY <1>1, AddedIs DEF N
<1> DEFINE T == {n \in Nat : n \in 0 .. N => DictionaryOK(f[n]) /\ Longer(f[n].user, d.user, es, n)}
<1>3. d.user \in Seq(UserWords!Entries) /\ Len(d.user) \in Nat
  BY DEF DictionaryOK, Dictionaries
<1>4. 0 \in T
  <2>1. f[0] = d
    BY <1>1, <1>2 DEF Adds
  <2>2. Longer(d.user, d.user, es, 0)
    BY <1>3 DEF Longer
  <2> QED
    BY <2>1, <2>2
<1>5. ASSUME NEW n \in Nat, n \in T PROVE n + 1 \in T
  <2> SUFFICES ASSUME n + 1 \in 0 .. N
               PROVE  DictionaryOK(f[n + 1]) /\ Longer(f[n + 1].user, d.user, es, n + 1)
    OBVIOUS
  <2>1. n \in 0 .. N /\ n + 1 \in 1 .. N /\ (n + 1) - 1 = n /\ n + 1 # 0
    BY <1>1
  <2>2. DictionaryOK(f[n]) /\ Longer(f[n].user, d.user, es, n)
    BY <1>5, <2>1
  <2>3. f[n + 1] = UserWords!AddEntry(f[n], es[n + 1])
    BY <1>2, <2>1 DEF Adds
  <2>4. /\ DictionaryOK(f[n + 1])
        /\ f[n + 1].user = Append(f[n].user, es[n + 1])
    BY <1>1, <2>1, <2>2, <2>3, AddEntryOK
  <2>5. PICK u, v, m : u = f[n].user /\ v = f[n + 1].user /\ m = Len(d.user)
    OBVIOUS
  <2>6. u \in Seq(UserWords!Entries) /\ m \in Nat
    BY <1>3, <2>2, <2>5 DEF DictionaryOK, Dictionaries
  <2>7. /\ Len(u) = m + n
        /\ \A i \in 1 .. m : u[i] = d.user[i]
        /\ \A i \in 1 .. n : u[m + i] = es[i]
    BY <2>2, <2>5 DEF Longer
  <2>8. /\ Len(v) = m + (n + 1)
        /\ \A i \in 1 .. m + n : v[i] = u[i]
        /\ v[m + (n + 1)] = es[n + 1]
    <3>1. PICK e : e = es[n + 1]
      OBVIOUS
    <3>2. e \in UserWords!Entries /\ v = Append(u, e)
      BY <1>1, <2>1, <2>4, <2>5, <3>1
    <3>3. /\ Len(v) = Len(u) + 1
          /\ \A i \in 1 .. Len(u) : v[i] = u[i]
          /\ v[Len(u) + 1] = e
      BY <2>6, <3>2
    <3>4. m + n + 1 = m + (n + 1)
      BY <2>6
    <3> QED
      BY <2>7, <3>1, <3>3, <3>4
  <2>9. \A i \in 1 .. m : v[i] = d.user[i]
    BY <2>6, <2>7, <2>8
  <2>10. ASSUME NEW i \in 1 .. n + 1 PROVE v[m + i] = es[i]
    <3>1. CASE i = n + 1
      BY <2>8, <3>1
    <3>2. CASE i # n + 1
      <4>1. i \in 1 .. n /\ m + i \in 1 .. m + n
        BY <2>6, <3>2
      <4> QED
        BY <2>7, <2>8, <4>1
    <3> QED
      BY <3>1, <3>2
  <2>11. Longer(v, d.user, es, n + 1)
    BY <2>5, <2>8, <2>9, <2>10 DEF Longer
  <2> QED
    BY <2>4, <2>5, <2>11
<1> HIDE DEF T
<1>6. N \in T
  BY <1>1, <1>4, <1>5, NatSetInduction
<1>7. DictionaryOK(f[N]) /\ Longer(f[N].user, d.user, es, N)
  BY <1>1, <1>6 DEF T
<1> QED
  BY <1>2, <1>7 DEF N

(* replace_user_entries leaves the user the entries es.                     *)
LEMMA ReplacedOK ==
  ASSUME NEW d, DictionaryOK(d), NEW es \in Seq(UserWords!Entries)
  PROVE  /\ DictionaryOK(UserWords!ReplaceUserEntries(d, es))
         /\ UserWords!ReplaceUserEntries(d, es).user = es
<1> DEFINE w == UserWords!WithoutUser(d)
           a == UserWords!Added(w, es)
<1>1. UserWords!ReplaceUserEntries(d, es) = a
  BY DEF UserWords!ReplaceUserEntries
<1>2. DictionaryOK(w) /\ w.user = <<>>
  BY WithoutUserOK
<1> HIDE DEF w
<1>3. DictionaryOK(a) /\ Longer(a.user, <<>>, es, Len(es))
  BY <1>2, AddedOK
<1> HIDE DEF a
<1>4. a.user \in Seq(UserWords!Entries)
  BY <1>3 DEF DictionaryOK, Dictionaries
<1>5. PICK u : u = a.user
  OBVIOUS
<1>6. Len(u) = Len(es) /\ \A i \in 1 .. Len(es) : u[i] = es[i]
  <2>1. Len(<<>>) = 0 /\ Len(es) \in Nat
    OBVIOUS
  <2>2. \A i \in 1 .. Len(es) : 0 + i = i
    BY <2>1
  <2> QED
    BY <1>3, <1>5, <2>1, <2>2 DEF Longer
<1>7. u = es
  BY <1>4, <1>5, <1>6
<1> QED
  BY <1>1, <1>3, <1>5, <1>7

-----------------------------------------------------------------------------
(* What the user's entries say                                              *)

Says(u, w, f) == \E i \in 1 .. Len(u) : u[i].word = w /\ u[i].frequency = f
Mentions(u, w) == \E i \in 1 .. Len(u) : u[i].word = w
WordsOnce(u) == \A i, j \in 1 .. Len(u) : u[i].word = u[j].word => i = j

(* v has the entry e, and of the other words what u has.                    *)
Puts(v, u, e) ==
  \A w \in Words, f \in Nat :
    Says(v, w, f) <=> IF w = e.word THEN f = e.frequency ELSE Says(u, w, f)

(* v has what u has but for the word old.                                   *)
Drops(v, u, old) ==
  \A w \in Words, f \in Nat : Says(v, w, f) <=> w # old /\ Says(u, w, f)

LEMMA EntryType ==
  ASSUME NEW u \in Seq(UserWords!Entries), NEW i \in 1 .. Len(u)
  PROVE  /\ u[i] \in UserWords!Entries /\ u[i].word \in Words /\ u[i].frequency \in Nat
         /\ u[i].frequency \in UserWords!AllFrequencies
<1>1. u[i] \in UserWords!Entries
  OBVIOUS
<1> QED
  BY <1>1, FrequenciesAreNumbers DEF UserWords!Entries

LEMMA MentionSays ==
  ASSUME NEW u \in Seq(UserWords!Entries), NEW w
  PROVE  Mentions(u, w) <=> \E f \in Nat : Says(u, w, f)
BY EntryType DEF Mentions, Says

LEMMA HasMentions ==
  ASSUME NEW d \in Dictionaries, NEW w
  PROVE  UserWords!HasUserEntry(d, w) <=> Mentions(d.user, w)
<1>1. d.user \in Seq(UserWords!Entries)
  BY DEF Dictionaries
<1>2. DOMAIN d.user = 1 .. Len(d.user)
  BY <1>1
<1> QED
  BY <1>2 DEF UserWords!HasUserEntry, Mentions

LEMMA OverwrittenPuts ==
  ASSUME NEW u \in Seq(UserWords!Entries), WordsOnce(u), NEW e \in UserWords!Entries,
         Mentions(u, e.word)
  PROVE  LET v == UserWords!Overwritten(u, e)
         IN  v \in Seq(UserWords!Entries) /\ WordsOnce(v) /\ Puts(v, u, e)
             /\ Len(v) = Len(u) /\ \A i \in 1 .. Len(u) : v[i].word = u[i].word
<1> DEFINE v == UserWords!Overwritten(u, e)
<1>1. DOMAIN u = 1 .. Len(u) /\ Len(u) \in Nat
      /\ \A i \in 1 .. Len(u) : u[i] \in UserWords!Entries
  OBVIOUS
<1>2. v = [i \in 1 .. Len(u) |-> IF u[i].word = e.word THEN e ELSE u[i]]
  BY <1>1 DEF UserWords!Overwritten
<1> HIDE DEF v
<1>3. /\ \A i \in 1 .. Len(u) : u[i].word = e.word => v[i] = e
      /\ \A i \in 1 .. Len(u) : u[i].word # e.word => v[i] = u[i]
      /\ \A i \in 1 .. Len(u) : v[i].word = u[i].word
  BY <1>2
<1>4. v \in [1 .. Len(u) -> UserWords!Entries]
  BY <1>1, <1>2
<1>5. v \in Seq(UserWords!Entries) /\ Len(v) = Len(u)
  BY <1>1, <1>4
<1>6. WordsOnce(v)
  BY <1>3, <1>5 DEF WordsOnce
<1>7. PICK k \in 1 .. Len(u) : u[k].word = e.word
  BY DEF Mentions
<1>8. ASSUME NEW w \in Words, NEW f \in Nat, w = e.word
      PROVE  Says(v, w, f) <=> f = e.frequency
  BY <1>3, <1>5, <1>7, <1>8 DEF Says
<1>9. ASSUME NEW w \in Words, NEW f \in Nat, w # e.word
      PROVE  Says(v, w, f) <=> Says(u, w, f)
  BY <1>3, <1>5, <1>9 DEF Says
<1>10. Puts(v, u, e)
  BY <1>8, <1>9 DEF Puts
<1> QED
  BY <1>3, <1>5, <1>6, <1>10 DEF v

LEMMA AppendPuts ==
  ASSUME NEW u \in Seq(UserWords!Entries), WordsOnce(u), NEW e \in UserWords!Entries,
         ~Mentions(u, e.word)
  PROVE  LET v == Append(u, e)
         IN  v \in Seq(UserWords!Entries) /\ WordsOnce(v) /\ Puts(v, u, e)
<1> DEFINE v == Append(u, e)
<1>1. /\ v \in Seq(UserWords!Entries) /\ Len(v) = Len(u) + 1 /\ Len(u) \in Nat
      /\ v[Len(u) + 1] = e /\ \A i \in 1 .. Len(u) : v[i] = u[i]
  OBVIOUS
<1> HIDE DEF v
<1>2. /\ \A i \in 1 .. Len(v) : i \in 1 .. Len(u) \/ i = Len(u) + 1
      /\ \A i \in 1 .. Len(u) : i \in 1 .. Len(v)
      /\ Len(u) + 1 \in 1 .. Len(v)
  BY <1>1
<1>3. \A i \in 1 .. Len(u) : u[i].word # e.word
  BY DEF Mentions
<1>4. WordsOnce(v)
  BY <1>1, <1>2, <1>3 DEF WordsOnce
<1>5. ASSUME NEW w \in Words, NEW f \in Nat, w = e.word
      PROVE  Says(v, w, f) <=> f = e.frequency
  <2>1. f = e.frequency => Says(v, w, f)
    BY <1>1, <1>2, <1>5 DEF Says
  <2>2. ASSUME Says(v, w, f) PROVE f = e.frequency
    <3>1. PICK i \in 1 .. Len(v) : v[i].word = w /\ v[i].frequency = f
      BY <2>2 DEF Says
    <3>2. i = Len(u) + 1
      BY <1>1, <1>2, <1>3, <1>5, <3>1
    <3> QED
      BY <1>1, <3>1, <3>2
  <2> QED
    BY <2>1, <2>2
<1>6. ASSUME NEW w \in Words, NEW f \in Nat, w # e.word
      PROVE  Says(v, w, f) <=> Says(u, w, f)
  <2>1. ASSUME Says(v, w, f) PROVE Says(u, w, f)
    <3>1. PICK i \in 1 .. Len(v) : v[i].word = w /\ v[i].frequency = f
      BY <2>1 DEF Says
    <3>2. i \in 1 .. Len(u)
      BY <1>1, <1>2, <1>6, <3>1
    <3> QED
      BY <1>1, <3>1, <3>2 DEF Says
  <2>2. ASSUME Says(u, w, f) PROVE Says(v, w, f)
    <3>1. PICK i \in 1 .. Len(u) : u[i].word = w /\ u[i].frequency = f
      BY <2>2 DEF Says
    <3> QED
      BY <1>1, <1>2, <3>1 DEF Says
  <2> QED
    BY <2>1, <2>2
<1>7. Puts(v, u, e)
  BY <1>5, <1>6 DEF Puts
<1> QED
  BY <1>1, <1>4, <1>7 DEF v

LEMMA WithoutDrops ==
  ASSUME NEW u \in Seq(UserWords!Entries), WordsOnce(u), NEW old
  PROVE  LET v == UserWords!Without(u, old)
         IN  v \in Seq(UserWords!Entries) /\ WordsOnce(v) /\ Drops(v, u, old)
<1> DEFINE S == {e \in UserWords!Range(u) : e.word # old}
           v == UserWords!Without(u, old)
<1>1. v = Retained(u, S)
  BY WordsRetained DEF UserWords!Without
<1>2. DOMAIN u = 1 .. Len(u) /\ Len(u) \in Nat
  OBVIOUS
<1>3. \A i \in 1 .. Len(u) : u[i] \in S <=> u[i].word # old
  BY <1>2 DEF UserWords!Range
<1> HIDE DEF S
<1>4. v \in Seq(UserWords!Entries) /\ \E g : Picks(g, v, u, S)
  BY <1>1, RetainedPicks
<1>5. PICK g : Picks(g, v, u, S)
  BY <1>4
<1> HIDE DEF v
<1>6. /\ \A n \in 1 .. Len(v) : g[n] \in 1 .. Len(u) /\ v[n] = u[g[n]] /\ v[n].word # old
      /\ \A m, n \in 1 .. Len(v) : m < n => g[m] < g[n]
      /\ \A i \in 1 .. Len(u) : u[i].word # old => \E n \in 1 .. Len(v) : g[n] = i
  BY <1>3, <1>5 DEF Picks
<1>7. Len(v) \in Nat
  BY <1>4
<1>8. WordsOnce(v)
  <2> SUFFICES ASSUME NEW m \in 1 .. Len(v), NEW n \in 1 .. Len(v), v[m].word = v[n].word
               PROVE  m = n
    BY DEF WordsOnce
  <2>1. g[m] \in 1 .. Len(u) /\ g[n] \in 1 .. Len(u) /\ u[g[m]].word = u[g[n]].word
    BY <1>6
  <2>2. g[m] = g[n]
    BY <2>1 DEF WordsOnce
  <2>3. ~(m < n) /\ ~(n < m)
    BY <1>2, <1>6, <2>1, <2>2
  <2> QED
    BY <1>7, <2>3
<1>9. ASSUME NEW w \in Words, NEW f \in Nat, Says(v, w, f) PROVE w # old /\ Says(u, w, f)
  <2>1. PICK n \in 1 .. Len(v) : v[n].word = w /\ v[n].frequency = f
    BY <1>9 DEF Says
  <2>2. g[n] \in 1 .. Len(u) /\ v[n] = u[g[n]] /\ v[n].word # old
    BY <1>6
  <2> QED
    BY <2>1, <2>2 DEF Says
<1>10. ASSUME NEW w \in Words, NEW f \in Nat, w # old, Says(u, w, f) PROVE Says(v, w, f)
  <2>1. PICK i \in 1 .. Len(u) : u[i].word = w /\ u[i].frequency = f
    BY <1>10 DEF Says
  <2>2. PICK n \in 1 .. Len(v) : g[n] = i
    BY <1>6, <1>10, <2>1
  <2>3. v[n] = u[i]
    BY <1>6, <2>2
  <2> QED
    BY <2>1, <2>3 DEF Says
<1>11. Drops(v, u, old)
  BY <1>9, <1>10 DEF Drops
<1> QED
  BY <1>4, <1>8, <1>11 DEF v

(* The frequency an entry of u has.                                         *)
LEMMA FrequencyKnown ==
  ASSUME NEW d \in Dictionaries, NEW w \in Words, Mentions(d.user, w)
  PROVE  UserWords!FrequencyOf(d, w) \in UserWords!AllFrequencies
<1>1. d.user \in Seq(UserWords!Entries)
  BY DEF Dictionaries
<1>2. DOMAIN d.user = 1 .. Len(d.user)
  BY <1>1
<1>3. PICK i : i = CHOOSE j \in DOMAIN d.user : d.user[j].word = w
  OBVIOUS
<1>4. i \in 1 .. Len(d.user)
  BY <1>2, <1>3 DEF Mentions
<1>5. UserWords!FrequencyOf(d, w) = d.user[i].frequency
  BY <1>3 DEF UserWords!FrequencyOf
<1> QED
  BY <1>1, <1>4, <1>5, EntryType

-----------------------------------------------------------------------------
(* The operations on a dictionary                                           *)

GoodDictionary(d) == DictionaryOK(d) /\ WordsOnce(d.user)

LEMMA UserOf ==
  ASSUME NEW d, DictionaryOK(d)
  PROVE  d \in Dictionaries /\ d.user \in Seq(UserWords!Entries)
         /\ d.lists \in [UserWords!Readings -> Seq(Nat)]
BY DEF DictionaryOK, Dictionaries

LEMMA UpsertedOK ==
  ASSUME NEW d, GoodDictionary(d), NEW e \in UserWords!Entries
  PROVE  LET v == UserWords!Upserted(d, e)
         IN  GoodDictionary(v) /\ Puts(v.user, d.user, e)
<1> DEFINE v == UserWords!Upserted(d, e)
           r == ReadingOf[e.word]
<1>1. d \in Dictionaries /\ d.user \in Seq(UserWords!Entries) /\ WordsOnce(d.user)
      /\ d.lists \in [UserWords!Readings -> Seq(Nat)]
  BY UserOf DEF GoodDictionary
<1>2. r \in UserWords!Readings
  BY ReadingKnown DEF UserWords!Entries
<1>3. CASE ~Mentions(d.user, e.word)
  <2>1. v = UserWords!AddEntry(d, e)
    BY <1>1, <1>3, HasMentions DEF UserWords!Upserted
  <2>2. DictionaryOK(v) /\ v.user = Append(d.user, e)
    BY <2>1, AddEntryOK DEF GoodDictionary
  <2> QED
    BY <1>1, <1>3, <2>2, AppendPuts DEF GoodDictionary
<1>4. CASE Mentions(d.user, e.word)
  <2> DEFINE user == UserWords!Overwritten(d.user, e)
             t == UserWords!ByFrequency(d.lists[r], AllOf(user))
             over == [user |-> user, lists |-> d.lists]
             lists == [d.lists EXCEPT ![r] = t]
  <2>1. /\ user \in Seq(UserWords!Entries) /\ WordsOnce(user) /\ Puts(user, d.user, e)
        /\ Len(user) = Len(d.user) /\ \A i \in 1 .. Len(d.user) : user[i].word = d.user[i].word
    BY <1>1, <1>4, OverwrittenPuts
  <2>2. v = UserWords!Resort([d EXCEPT !.user = user], r)
    BY <1>1, <1>4, HasMentions DEF UserWords!Upserted
  <2> HIDE DEF user, r, v
  <2>3. [d EXCEPT !.user = user] = over /\ over \in Dictionaries
    BY <1>1, <2>1 DEF Dictionaries
  <2>4. v = [user |-> user, lists |-> lists]
    <3>1. v = [user |-> over.user,
               lists |-> [over.lists EXCEPT ![r] = UserWords!ByFrequency(@, AllOf(over.user))]]
      <4> HIDE DEF over
      <4> QED
        BY <1>2, <2>2, <2>3, ResortIs
    <3> QED
      BY <3>1
  <2>5. /\ Len(AllOf(user)) = Len(AllOf(d.user))
        /\ \A i \in 1 .. Len(AllOf(user)) : AllOf(user)[i].word = AllOf(d.user)[i].word
        /\ \A i \in 1 .. Len(AllOf(user)) : AllOf(user)[i].frequency \in Nat
        /\ \A i \in 1 .. Len(AllOf(user)) :
             AllOf(user)[i] = AllOf(d.user)[i] \/ AllOf(d.user)[i].word = e.word
    <3>1. Len(Builtin) \in Nat /\ Len(user) \in Nat
      BY <2>1, FrequenciesAreNumbers
    <3>2. /\ Len(AllOf(user)) = Len(Builtin) + Len(user)
          /\ \A i \in 1 .. Len(Builtin) : AllOf(user)[i] = Builtin[i]
          /\ \A i \in 1 .. Len(user) : AllOf(user)[Len(Builtin) + i] = user[i]
          /\ \A i \in 1 .. Len(AllOf(user)) : AllOf(user)[i].frequency \in Nat
      BY <2>1, AllTyped
    <3>3. /\ Len(AllOf(d.user)) = Len(Builtin) + Len(d.user)
          /\ \A i \in 1 .. Len(Builtin) : AllOf(d.user)[i] = Builtin[i]
          /\ \A i \in 1 .. Len(d.user) : AllOf(d.user)[Len(Builtin) + i] = d.user[i]
      BY <1>1, AllTyped
    <3>4. \A i \in 1 .. Len(user) : user[i] = d.user[i] \/ d.user[i].word = e.word
      <4>1. \A i \in DOMAIN d.user : user[i] = IF d.user[i].word = e.word THEN e ELSE d.user[i]
        BY DEF user, UserWords!Overwritten
      <4>2. DOMAIN d.user = 1 .. Len(d.user)
        BY <1>1
      <4> QED
        BY <2>1, <4>1, <4>2
    <3>5. ASSUME NEW i \in 1 .. Len(AllOf(user))
          PROVE  /\ AllOf(user)[i].word = AllOf(d.user)[i].word
                 /\ AllOf(user)[i] = AllOf(d.user)[i] \/ AllOf(d.user)[i].word = e.word
      <4>1. CASE i \in 1 .. Len(Builtin)
        BY <3>2, <3>3, <4>1
      <4>2. CASE i \notin 1 .. Len(Builtin)
        <5>1. PICK j \in 1 .. Len(user) : Len(Builtin) + j = i
          <6>1. i - Len(Builtin) \in 1 .. Len(user) /\ Len(Builtin) + (i - Len(Builtin)) = i
            BY <3>1, <3>2, <4>2
          <6> QED
            BY <6>1
        <5>2. AllOf(user)[i] = user[j] /\ AllOf(d.user)[i] = d.user[j]
          BY <2>1, <3>2, <3>3, <5>1
        <5> QED
          BY <2>1, <3>4, <5>2
      <4> QED
        BY <4>1, <4>2
    <3> QED
      BY <2>1, <3>2, <3>3, <3>5
  <2>6. ASSUME NEW q \in UserWords!Readings PROVE Lists(d.lists[q], AllOf(user), q)
    <3>1. Lists(d.lists[q], AllOf(d.user), q)
      BY DEF GoodDictionary, DictionaryOK
    <3> QED
      BY <2>5, <3>1 DEF Lists
  <2>7. Lists(t, AllOf(user), r) /\ Ranked(t, AllOf(user))
    BY <1>2, <2>5, <2>6, ListSorted
  <2>8. ASSUME NEW q \in UserWords!Readings, q # r PROVE Ranked(d.lists[q], AllOf(user))
    <3>1. Lists(d.lists[q], AllOf(d.user), q) /\ Ranked(d.lists[q], AllOf(d.user))
      BY DEF GoodDictionary, DictionaryOK
    <3>2. ASSUME NEW j \in 1 .. Len(d.lists[q])
          PROVE  AllOf(user)[d.lists[q][j]] = AllOf(d.user)[d.lists[q][j]]
      <4>1. /\ d.lists[q][j] \in 1 .. Len(AllOf(d.user))
            /\ ReadingOf[AllOf(d.user)[d.lists[q][j]].word] = q
        BY <3>1 DEF Lists
      <4> QED
        BY <2>5, <2>8, <4>1 DEF r
    <3> QED
      BY <3>1, <3>2 DEF Ranked
  <2> HIDE DEF t
  <2>9. t \in Seq(Nat)
    BY <2>7 DEF Lists
  <2>10. lists \in [UserWords!Readings -> Seq(Nat)]
         /\ \A q \in UserWords!Readings : lists[q] = IF q = r THEN t ELSE d.lists[q]
    BY <1>1, <2>9
  <2> HIDE DEF lists
  <2>11. v \in Dictionaries /\ v.user = user /\ v.lists = lists
    BY <2>1, <2>4, <2>10 DEF Dictionaries
  <2>12. DictionaryOK(v)
    BY <2>6, <2>7, <2>8, <2>10, <2>11 DEF DictionaryOK
  <2> QED
    BY <2>1, <2>11, <2>12 DEF GoodDictionary, v
<1> QED
  BY <1>3, <1>4

LEMMA RemovedOK ==
  ASSUME NEW d, GoodDictionary(d), NEW w
  PROVE  LET v == UserWords!ReplaceUserEntries(d, UserWords!Without(d.user, w))
         IN  GoodDictionary(v) /\ Drops(v.user, d.user, w)
<1> DEFINE kept == UserWords!Without(d.user, w)
           v == UserWords!ReplaceUserEntries(d, kept)
<1>1. kept \in Seq(UserWords!Entries) /\ WordsOnce(kept) /\ Drops(kept, d.user, w)
  BY UserOf, WithoutDrops DEF GoodDictionary
<1> HIDE DEF kept
<1>2. DictionaryOK(v) /\ v.user = kept
  BY <1>1, ReplacedOK DEF GoodDictionary
<1> HIDE DEF v
<1>3. GoodDictionary(v) /\ Drops(v.user, d.user, w)
  BY <1>1, <1>2 DEF GoodDictionary
<1> QED
  BY <1>3 DEF v, kept

LEMMA RenamedOK ==
  ASSUME NEW d, GoodDictionary(d), NEW old \in Words, NEW new \in Words, old # new,
         Mentions(d.user, old)
  PROVE  LET v == UserWords!Renamed(d, old, new)
             g == UserWords!FrequencyOf(d, old)
         IN  /\ GoodDictionary(v)
             /\ g \in UserWords!AllFrequencies
             /\ \A w \in Words, f \in Nat :
                  Says(v.user, w, f) <=> IF w = new THEN f = g
                                         ELSE w # old /\ Says(d.user, w, f)
<1> DEFINE g == UserWords!FrequencyOf(d, old)
           e == UserWords!Entry(new, g)
           kept == UserWords!Without(d.user, old)
           es == IF Mentions(kept, new) THEN UserWords!Overwritten(kept, e) ELSE Append(kept, e)
           v == UserWords!Renamed(d, old, new)
<1>1. g \in UserWords!AllFrequencies
  BY UserOf, FrequencyKnown DEF GoodDictionary
<1>2. kept \in Seq(UserWords!Entries) /\ WordsOnce(kept) /\ Drops(kept, d.user, old)
  BY UserOf, WithoutDrops DEF GoodDictionary
<1>3. v = UserWords!ReplaceUserEntries(d, es)
  <2>1. DOMAIN kept = 1 .. Len(kept)
    BY <1>2
  <2> QED
    BY <2>1 DEF UserWords!Renamed, Mentions
<1> HIDE DEF kept, g, v
<1>4. e \in UserWords!Entries /\ e.word = new /\ e.frequency = g
  BY <1>1 DEF UserWords!Entries, UserWords!Entry
<1> HIDE DEF e
<1>5. es \in Seq(UserWords!Entries) /\ WordsOnce(es) /\ Puts(es, kept, e)
  <2>1. CASE Mentions(kept, new)
    BY <1>2, <1>4, <2>1, OverwrittenPuts
  <2>2. CASE ~Mentions(kept, new)
    BY <1>2, <1>4, <2>2, AppendPuts
  <2> QED
    BY <2>1, <2>2
<1> HIDE DEF es
<1>6. DictionaryOK(v) /\ v.user = es
  BY <1>3, <1>5, ReplacedOK DEF GoodDictionary
<1>7. GoodDictionary(v)
  BY <1>5, <1>6 DEF GoodDictionary
<1>8. ASSUME NEW w \in Words, NEW f \in Nat
      PROVE  Says(v.user, w, f) <=> IF w = new THEN f = g ELSE w # old /\ Says(d.user, w, f)
  <2>1. Says(es, w, f) <=> IF w = new THEN f = g ELSE Says(kept, w, f)
    BY <1>4, <1>5 DEF Puts
  <2>2. Says(kept, w, f) <=> w # old /\ Says(d.user, w, f)
    BY <1>2 DEF Drops
  <2> QED
    BY <1>6, <2>1, <2>2
<1> QED
  BY <1>1, <1>7, <1>8 DEF v, g

-----------------------------------------------------------------------------
(* Imports                                                                  *)

LEMMA EntryKnown ==
  ASSUME NEW d, GoodDictionary(d), NEW w \in Words, Mentions(d.user, w)
  PROVE  UserWords!HasEntry(d, w)
<1>1. d \in Dictionaries /\ d.user \in Seq(UserWords!Entries)
  BY UserOf DEF GoodDictionary
<1>2. PICK i \in 1 .. Len(d.user) : d.user[i].word = w
  BY DEF Mentions
<1>3. PICK n : n = Len(Builtin) + i
  OBVIOUS
<1>4. n \in 1 .. Len(AllOf(d.user)) /\ AllOf(d.user)[n] = d.user[i]
  BY <1>1, <1>3, AllTyped, FrequenciesAreNumbers
<1>5. PICK r : r = ReadingOf[w]
  OBVIOUS
<1>6. Lists(d.lists[r], AllOf(d.user), r)
  BY <1>5, ReadingKnown DEF GoodDictionary, DictionaryOK
<1>7. PICK j \in 1 .. Len(d.lists[r]) : d.lists[r][j] = n
  BY <1>2, <1>4, <1>5, <1>6 DEF Lists
<1>8. DOMAIN d.lists[r] = 1 .. Len(d.lists[r])
  BY <1>6 DEF Lists
<1>9. n \in UserWords!Range(d.lists[r])
  BY <1>7, <1>8 DEF UserWords!Range
<1> QED
  BY <1>2, <1>4, <1>5, <1>9 DEF UserWords!HasEntry, UserWords!AllEntries, AllOf

(* What a file adds: words that are not there, each once.                   *)
LEMMA FreshOK ==
  ASSUME NEW d, GoodDictionary(d), NEW file \in Seq(UserWords!Entries)
  PROVE  LET v == UserWords!Fresh(d, file)
         IN  /\ v \in Seq(UserWords!Entries) /\ WordsOnce(v)
             /\ \A k \in 1 .. Len(v) : ~Mentions(d.user, v[k].word)
<1> DEFINE Known(i) == \/ UserWords!HasEntry(d, file[i].word)
                       \/ \E j \in 1 .. (i - 1) : file[j].word = file[i].word
           ixs == [i \in DOMAIN file |-> i]
           new == {i \in DOMAIN file : ~Known(i)}
           s == UserWords!Retained(ixs, new)
           v == UserWords!Fresh(d, file)
<1>1. DOMAIN file = 1 .. Len(file) /\ Len(file) \in Nat
  OBVIOUS
<1>2. v = [k \in DOMAIN s |-> file[s[k]]]
  BY DEF UserWords!Fresh
<1>3. ixs \in Seq(Nat) /\ Len(ixs) = Len(file) /\ \A i \in 1 .. Len(file) : ixs[i] = i
  BY <1>1
<1>4. \A i \in new : i \in 1 .. Len(file) /\ ~UserWords!HasEntry(d, file[i].word)
                     /\ \A j \in 1 .. (i - 1) : file[j].word # file[i].word
  BY <1>1
<1> HIDE DEF ixs, new
<1>5. s \in Seq(Nat) /\ \E g : Picks(g, s, ixs, new)
  BY <1>3, WordsRetained, RetainedPicks
<1> HIDE DEF s, v
<1>6. PICK g : Picks(g, s, ixs, new)
  BY <1>5
<1>7. /\ \A n \in 1 .. Len(s) : s[n] = g[n] /\ s[n] \in new
      /\ \A m, n \in 1 .. Len(s) : m < n => g[m] < g[n]
  BY <1>3, <1>6 DEF Picks
<1>8. DOMAIN s = 1 .. Len(s) /\ Len(s) \in Nat
  BY <1>5
<1>9. \A n \in 1 .. Len(s) : v[n] = file[s[n]] /\ s[n] \in 1 .. Len(file)
                             /\ v[n] \in UserWords!Entries
  BY <1>1, <1>2, <1>4, <1>7, <1>8
<1>10. v \in Seq(UserWords!Entries) /\ Len(v) = Len(s)
  <2>1. v \in [1 .. Len(s) -> UserWords!Entries]
    BY <1>2, <1>8, <1>9
  <2> QED
    BY <1>8, <2>1
<1>11. ASSUME NEW m \in 1 .. Len(v), NEW n \in 1 .. Len(v), m < n
       PROVE  v[m].word # v[n].word
  <2>1. s[m] \in 1 .. Len(file) /\ s[n] \in 1 .. Len(file) /\ s[m] < s[n] /\ s[n] \in new
    BY <1>7, <1>9, <1>10, <1>11
  <2>2. s[m] \in 1 .. (s[n] - 1)
    BY <1>1, <2>1
  <2>3. file[s[m]].word # file[s[n]].word
    BY <1>4, <2>1, <2>2
  <2> QED
    BY <1>9, <1>10, <2>3
<1>12. WordsOnce(v)
  <2> SUFFICES ASSUME NEW m \in 1 .. Len(v), NEW n \in 1 .. Len(v), v[m].word = v[n].word
               PROVE  m = n
    BY DEF WordsOnce
  <2>1. ~(m < n) /\ ~(n < m)
    BY <1>11
  <2> QED
    BY <1>8, <1>10, <2>1
<1>13. ASSUME NEW k \in 1 .. Len(v) PROVE ~Mentions(d.user, v[k].word)
  <2>1. v[k] = file[s[k]] /\ ~UserWords!HasEntry(d, file[s[k]].word) /\ v[k].word \in Words
    BY <1>4, <1>7, <1>9, <1>10 DEF UserWords!Entries
  <2> QED
    BY <2>1, EntryKnown
<1> QED
  BY <1>10, <1>12, <1>13 DEF v

(* New words are added to what there is.                                    *)
LEMMA ImportedOK ==
  ASSUME NEW d, GoodDictionary(d), NEW es \in Seq(UserWords!Entries), WordsOnce(es),
         \A k \in 1 .. Len(es) : ~Mentions(d.user, es[k].word)
  PROVE  LET v == UserWords!Added(d, es)
         IN  /\ GoodDictionary(v)
             /\ \A w, f : Says(v.user, w, f) <=> Says(es, w, f) \/ Says(d.user, w, f)
<1> DEFINE v == UserWords!Added(d, es)
<1>1. DictionaryOK(v) /\ Longer(v.user, d.user, es, Len(es))
  BY AddedOK DEF GoodDictionary
<1> HIDE DEF v
<1>2. PICK u, m, n : u = d.user /\ m = Len(u) /\ n = Len(es)
  OBVIOUS
<1>3. m \in Nat /\ n \in Nat /\ WordsOnce(u)
  BY <1>2, UserOf DEF GoodDictionary
<1>4. PICK t : t = v.user
  OBVIOUS
<1>5. /\ Len(t) = m + n
      /\ \A i \in 1 .. m : t[i] = u[i]
      /\ \A i \in 1 .. n : t[m + i] = es[i]
  BY <1>1, <1>2, <1>4 DEF Longer
<1>6. ASSUME NEW i \in 1 .. Len(t)
      PROVE  i \in 1 .. m \/ \E j \in 1 .. n : i = m + j
  <2>1. CASE i \notin 1 .. m
    <3>1. i - m \in 1 .. n /\ i = m + (i - m)
      BY <1>3, <1>5, <2>1
    <3> QED
      BY <3>1
  <2> QED
    BY <2>1
<1>7. /\ \A i \in 1 .. m : i \in 1 .. Len(t)
      /\ \A i \in 1 .. n : m + i \in 1 .. Len(t)
  BY <1>3, <1>5
<1>8. \A i \in 1 .. m, j \in 1 .. n : u[i].word # es[j].word
  BY <1>2 DEF Mentions
<1>9. WordsOnce(t)
  <2> SUFFICES ASSUME NEW i \in 1 .. Len(t), NEW j \in 1 .. Len(t), t[i].word = t[j].word
               PROVE  i = j
    BY DEF WordsOnce
  <2>1. CASE i \in 1 .. m /\ j \in 1 .. m
    BY <1>2, <1>3, <1>5, <2>1 DEF WordsOnce
  <2>2. CASE i \in 1 .. m /\ j \notin 1 .. m
    BY <1>5, <1>6, <1>8, <2>2
  <2>3. CASE i \notin 1 .. m /\ j \in 1 .. m
    BY <1>5, <1>6, <1>8, <2>3
  <2>4. CASE i \notin 1 .. m /\ j \notin 1 .. m
    <3>1. PICK a \in 1 .. n, b \in 1 .. n : i = m + a /\ j = m + b
      BY <1>6, <2>4
    <3>2. es[a].word = es[b].word
      BY <1>5, <3>1
    <3> QED
      BY <1>2, <3>1, <3>2 DEF WordsOnce
  <2> QED
    BY <2>1, <2>2, <2>3, <2>4
<1>10. ASSUME NEW w, NEW f PROVE Says(t, w, f) <=> Says(es, w, f) \/ Says(u, w, f)
  <2>1. ASSUME Says(t, w, f) PROVE Says(es, w, f) \/ Says(u, w, f)
    <3>1. PICK i \in 1 .. Len(t) : t[i].word = w /\ t[i].frequency = f
      BY <2>1 DEF Says
    <3>2. CASE i \in 1 .. m
      BY <1>2, <1>5, <3>1, <3>2 DEF Says
    <3>3. CASE i \notin 1 .. m
      BY <1>2, <1>5, <1>6, <3>1, <3>3 DEF Says
    <3> QED
      BY <3>2, <3>3
  <2>2. ASSUME Says(es, w, f) PROVE Says(t, w, f)
    <3>1. PICK i \in 1 .. n : es[i].word = w /\ es[i].frequency = f
      BY <1>2, <2>2 DEF Says
    <3>2. m + i \in 1 .. Len(t) /\ t[m + i] = es[i]
      BY <1>5, <1>7
    <3> QED
      BY <3>1, <3>2 DEF Says
  <2>3. ASSUME Says(u, w, f) PROVE Says(t, w, f)
    <3>1. PICK i \in 1 .. m : u[i].word = w /\ u[i].frequency = f
      BY <1>2, <2>3 DEF Says
    <3>2. i \in 1 .. Len(t) /\ t[i] = u[i]
      BY <1>5, <1>7
    <3> QED
      BY <3>1, <3>2 DEF Says
  <2> QED
    BY <2>1, <2>2, <2>3
<1> QED
  BY <1>1, <1>2, <1>4, <1>9, <1>10 DEF GoodDictionary, v

(* The part of an import that was written before it was cut short.          *)
LEMMA PartOf ==
  ASSUME NEW es \in Seq(UserWords!Entries), WordsOnce(es), NEW n \in 0 .. Len(es)
  PROVE  LET s == SubSeq(es, 1, n)
         IN  /\ s \in Seq(UserWords!Entries) /\ WordsOnce(s)
             /\ Len(s) = n /\ \A i \in 1 .. n : s[i] = es[i]
<1>1. n \in Nat /\ Len(es) \in Nat /\ n \in Int /\ 1 \in Int /\ n - 1 + 1 = n
      /\ \A i \in 1 .. n : i \in 1 .. Len(es) /\ es[i] \in UserWords!Entries /\ 1 + i - 1 = i
  OBVIOUS
<1>2. PICK s : s = SubSeq(es, 1, n)
  OBVIOUS
<1>3. /\ s \in Seq(UserWords!Entries)
      /\ Len(s) = IF 1 <= n THEN n - 1 + 1 ELSE 0
      /\ \A i \in 1 .. n - 1 + 1 : s[i] = es[1 + i - 1]
  BY <1>1, <1>2, SubSeqProperties
<1>4. Len(s) = n /\ \A i \in 1 .. n : s[i] = es[i]
  BY <1>1, <1>3
<1>5. WordsOnce(s)
  BY <1>1, <1>4 DEF WordsOnce
<1> QED
  BY <1>2, <1>3, <1>4, <1>5

-----------------------------------------------------------------------------
(* The table of the user's words                                            *)

Row(table, w, f) == w \in DOMAIN table /\ table[w] = f

TableOK(table) ==
  /\ table \in [DOMAIN table -> UserWords!AllFrequencies]
  /\ DOMAIN table \in SUBSET Words /\ IsFiniteSet(DOMAIN table)

LEMMA UpsertOK ==
  ASSUME NEW table, TableOK(table), NEW e \in UserWords!Entries
  PROVE  LET t == UserWords!Upsert(table, e)
         IN  /\ TableOK(t) /\ DOMAIN t = DOMAIN table \cup {e.word}
             /\ \A w, f : Row(t, w, f) <=> IF w = e.word THEN f = e.frequency ELSE Row(table, w, f)
<1> DEFINE t == UserWords!Upsert(table, e)
           D == DOMAIN table \cup {e.word}
<1>1. t = [w \in D |-> IF w = e.word THEN e.frequency ELSE table[w]]
  BY DEF UserWords!Upsert
<1>2. e.word \in Words /\ e.frequency \in UserWords!AllFrequencies
  BY DEF UserWords!Entries
<1>3. IsFiniteSet(D)
  BY FS_AddElement DEF TableOK
<1>4. \A w \in DOMAIN table : table[w] \in UserWords!AllFrequencies
  BY DEF TableOK
<1> HIDE DEF t
<1>5. TableOK(t) /\ DOMAIN t = D
  BY <1>1, <1>2, <1>3, <1>4 DEF TableOK
<1>6. ASSUME NEW w, NEW f
      PROVE  Row(t, w, f) <=> IF w = e.word THEN f = e.frequency ELSE Row(table, w, f)
  BY <1>1 DEF Row
<1> QED
  BY <1>5, <1>6 DEF t

LEMMA DeleteOK ==
  ASSUME NEW table, TableOK(table), NEW old
  PROVE  LET t == UserWords!Delete(table, old)
         IN  /\ TableOK(t) /\ DOMAIN t = DOMAIN table \ {old}
             /\ \A w, f : Row(t, w, f) <=> w # old /\ Row(table, w, f)
<1> DEFINE t == UserWords!Delete(table, old)
           D == DOMAIN table \ {old}
<1>1. t = [w \in D |-> table[w]]
  BY DEF UserWords!Delete
<1>2. IsFiniteSet(D)
  BY FS_RemoveElement DEF TableOK
<1>3. \A w \in DOMAIN table : table[w] \in UserWords!AllFrequencies
  BY DEF TableOK
<1> HIDE DEF t
<1>4. TableOK(t) /\ DOMAIN t = D
  BY <1>1, <1>2, <1>3 DEF TableOK
<1>5. ASSUME NEW w, NEW f PROVE Row(t, w, f) <=> w # old /\ Row(table, w, f)
  BY <1>1 DEF Row
<1> QED
  BY <1>4, <1>5 DEF t

LEMMA WordsFinite ==
  ASSUME NEW es \in Seq(UserWords!Entries)
  PROVE  /\ IsFiniteSet({es[i].word : i \in DOMAIN es})
         /\ \A w : w \in {es[i].word : i \in DOMAIN es} <=> Mentions(es, w)
<1> DEFINE T == {es[i].word : i \in DOMAIN es}
           g == [i \in 1 .. Len(es) |-> es[i].word]
<1>1. DOMAIN es = 1 .. Len(es) /\ Len(es) \in Nat
  OBVIOUS
<1>2. \A w : w \in T <=> Mentions(es, w)
  BY <1>1 DEF Mentions
<1>3. IsFiniteSet(1 .. Len(es))
  BY <1>1, UpTo
<1>4. g \in Surjection(1 .. Len(es), T)
  <2>1. \A i \in 1 .. Len(es) : g[i] = es[i].word /\ es[i].word \in T
    BY <1>1
  <2>2. \A w \in T : \E i \in 1 .. Len(es) : g[i] = w
    BY <1>1
  <2> HIDE DEF T
  <2>3. g \in [1 .. Len(es) -> T]
    BY <2>1
  <2> HIDE DEF g
  <2> QED
    BY <2>2, <2>3 DEF Surjection
<1> HIDE DEF g, T
<1>5. IsFiniteSet(T)
  BY <1>3, <1>4, FS_Surjection
<1> QED
  BY <1>2, <1>5 DEF T

LEMMA UpsertsOK ==
  ASSUME NEW table, TableOK(table), NEW es \in Seq(UserWords!Entries), WordsOnce(es)
  PROVE  LET t == UserWords!Upserts(table, es)
         IN  /\ TableOK(t) /\ \A w : w \in DOMAIN t <=> w \in DOMAIN table \/ Mentions(es, w)
             /\ \A w, f : Row(t, w, f) <=> IF Mentions(es, w) THEN Says(es, w, f)
                                           ELSE Row(table, w, f)
<1> DEFINE t == UserWords!Upserts(table, es)
           D == DOMAIN table \cup {es[i].word : i \in DOMAIN es}
<1>1. DOMAIN es = 1 .. Len(es)
  OBVIOUS
<1>2. t = [w \in D |-> IF \E i \in DOMAIN es : es[i].word = w
                       THEN es[CHOOSE i \in DOMAIN es : es[i].word = w].frequency ELSE table[w]]
  BY DEF UserWords!Upserts
<1>3. IsFiniteSet(D) /\ \A w : w \in D <=> w \in DOMAIN table \/ Mentions(es, w)
  <2>1. /\ IsFiniteSet({es[i].word : i \in DOMAIN es})
        /\ \A w : w \in {es[i].word : i \in DOMAIN es} <=> Mentions(es, w)
    BY WordsFinite
  <2>2. PICK T : T = {es[i].word : i \in DOMAIN es}
    OBVIOUS
  <2>3. IsFiniteSet(DOMAIN table \cup T)
    BY <2>1, <2>2, FS_Union DEF TableOK
  <2> QED
    BY <2>1, <2>2, <2>3
<1> HIDE DEF t, D
<1>4. ASSUME NEW w, Mentions(es, w)
      PROVE  /\ w \in D /\ w \in Words /\ t[w] \in UserWords!AllFrequencies
             /\ \A f : Says(es, w, f) <=> t[w] = f
  <2>1. PICK k : k = CHOOSE i \in DOMAIN es : es[i].word = w
    OBVIOUS
  <2>2. k \in 1 .. Len(es) /\ es[k].word = w /\ \E i \in DOMAIN es : es[i].word = w
    BY <1>1, <1>4, <2>1 DEF Mentions
  <2>3. w \in D
    BY <1>3, <1>4
  <2>4. t[w] = es[k].frequency
    BY <1>2, <2>1, <2>2, <2>3
  <2>5. ASSUME NEW f PROVE Says(es, w, f) <=> es[k].frequency = f
    BY <2>2 DEF Says, WordsOnce
  <2> QED
    BY <2>2, <2>3, <2>4, <2>5, EntryType
<1>5. ASSUME NEW w \in DOMAIN table, ~Mentions(es, w)
      PROVE  w \in D /\ t[w] = table[w] /\ w \in Words /\ t[w] \in UserWords!AllFrequencies
  <2>1. w \in D
    BY <1>3
  <2>2. ~\E i \in DOMAIN es : es[i].word = w
    BY <1>1, <1>5 DEF Mentions
  <2>3. t[w] = table[w]
    BY <1>2, <2>1, <2>2
  <2> QED
    BY <2>1, <2>3 DEF TableOK
<1>6. DOMAIN t = D
  BY <1>2
<1>7. \A w \in D : w \in Words /\ t[w] \in UserWords!AllFrequencies
  BY <1>3, <1>4, <1>5
<1>8. TableOK(t)
  BY <1>2, <1>3, <1>6, <1>7 DEF TableOK
<1>9. ASSUME NEW w, NEW f
      PROVE  Row(t, w, f) <=> IF Mentions(es, w) THEN Says(es, w, f) ELSE Row(table, w, f)
  BY <1>3, <1>4, <1>5, <1>6 DEF Row
<1> QED
  BY <1>3, <1>6, <1>8, <1>9 DEF t

-----------------------------------------------------------------------------
(* The inductive invariant of the user's words                              *)

Dict(p) == UserWords!DictionaryOf(p)

WordTypes ==
  /\ state \in [Users -> {"down", "attached", "detached"}]
  /\ picked \in [Users -> [Dialogs -> Words \cup {None}]]
  /\ current \in [Users -> SUBSET Words]

Memories ==
  /\ userEntries \in [Users -> Seq(UserWords!Entries)]
  /\ posting \in [Users -> [UserWords!Readings -> Seq(Nat)]]
  /\ \A p \in Users : GoodDictionary(Dict(p))

(* Of the words whose rows nobody else has written, memory says what the    *)
(* table says.                                                              *)
Agreed(p) ==
  state[p] = "attached" =>
    \A w \in current[p], f \in Nat : Says(userEntries[p], w, f) <=> Row(rows, w, f)

WordsInv ==
  /\ TableOK(rows)
  /\ WordTypes
  /\ Memories
  /\ \A p \in Users : Agreed(p)

LEMMA DictIs ==
  ASSUME NEW p PROVE Dict(p) = [user |-> userEntries[p], lists |-> posting[p]]
                     /\ Dict(p).user = userEntries[p] /\ Dict(p).lists = posting[p]
BY DEF Dict, UserWords!DictionaryOf

LEMMA Remembered ==
  ASSUME Memories, NEW p \in Users, NEW d, GoodDictionary(d), UserWords!Remember(p, d)
  PROVE  /\ Memories'
         /\ userEntries'[p] = d.user
         /\ \A q \in Users : q # p => userEntries'[q] = userEntries[q]
<1>1. /\ userEntries' = [userEntries EXCEPT ![p] = d.user]
      /\ posting' = [posting EXCEPT ![p] = d.lists]
  BY DEF UserWords!Remember
<1>2. /\ userEntries \in [Users -> Seq(UserWords!Entries)]
      /\ posting \in [Users -> [UserWords!Readings -> Seq(Nat)]]
  BY DEF Memories
<1>3. /\ d.user \in Seq(UserWords!Entries) /\ d.lists \in [UserWords!Readings -> Seq(Nat)]
      /\ d = [user |-> d.user, lists |-> d.lists]
  BY UserOf DEF GoodDictionary, Dictionaries
<1>4. /\ userEntries' \in [Users -> Seq(UserWords!Entries)]
      /\ posting' \in [Users -> [UserWords!Readings -> Seq(Nat)]]
      /\ userEntries'[p] = d.user /\ posting'[p] = d.lists
      /\ \A q \in Users : q # p => userEntries'[q] = userEntries[q] /\ posting'[q] = posting[q]
  BY <1>1, <1>2, <1>3
<1>5. ASSUME NEW q \in Users PROVE GoodDictionary(Dict(q)')
  <2>1. Dict(q)' = [user |-> userEntries'[q], lists |-> posting'[q]]
    BY DEF Dict, UserWords!DictionaryOf
  <2>2. Dict(q) = [user |-> userEntries[q], lists |-> posting[q]]
    BY DictIs
  <2>3. CASE q = p
    <3>1. Dict(q)' = d
      BY <1>3, <1>4, <2>1, <2>3
    <3> QED
      BY <3>1
  <2>4. CASE q # p
    <3>1. Dict(q)' = Dict(q)
      BY <1>4, <2>1, <2>2, <2>4
    <3> QED
      BY <3>1 DEF Memories
  <2> QED
    BY <2>3, <2>4
<1>6. \A q \in Users : GoodDictionary(Dict(q))'
  BY <1>5 DEF GoodDictionary, DictionaryOK
<1> QED
  BY <1>4, <1>6 DEF Memories

(* p writes the rows of ws, and remembers them.                             *)
LEMMA WrittenAgrees ==
  ASSUME WordsInv, NEW p \in Users, NEW ws \in SUBSET Words, UserWords!Wrote(p, ws),
         state' = state, \A q \in Users : q # p => userEntries'[q] = userEntries[q],
         \A w \in Words, f \in Nat : w \notin ws =>
           /\ Row(rows', w, f) <=> Row(rows, w, f)
           /\ Says(userEntries'[p], w, f) <=> Says(userEntries[p], w, f),
         \A w \in ws, f \in Nat : Says(userEntries'[p], w, f) <=> Row(rows', w, f)
  PROVE  (\A q \in Users : Agreed(q)') /\ current' \in [Users -> SUBSET Words]
<1>1. \A q \in Users : current[q] \in SUBSET Words
  BY DEF WordsInv, WordTypes
<1>2. current' = [q \in Users |-> IF q = p THEN current[q] \cup ws ELSE current[q] \ ws]
  BY DEF UserWords!Wrote
<1>3. current' \in [Users -> SUBSET Words]
  BY <1>1, <1>2
<1>4. ASSUME NEW q \in Users, state'[q] = "attached", NEW w \in current'[q], NEW f \in Nat
      PROVE  Says(userEntries'[q], w, f) <=> Row(rows', w, f)
  <2>1. w \in Words
    BY <1>3
  <2>2. w \in current[q] => (Says(userEntries[q], w, f) <=> Row(rows, w, f))
    BY <1>4 DEF WordsInv, Agreed
  <2>3. CASE q = p
    <3>1. w \in ws \/ w \in current[q]
      BY <1>2, <1>4, <2>3
    <3> QED
      BY <2>1, <2>2, <2>3, <3>1
  <2>4. CASE q # p
    <3>1. w \notin ws /\ w \in current[q]
      BY <1>2, <1>4, <2>4
    <3> QED
      BY <2>1, <2>2, <2>4, <3>1
  <2> QED
    BY <2>3, <2>4
<1>5. \A q \in Users : Agreed(q)'
  BY <1>4 DEF Agreed
<1> QED
  BY <1>3, <1>5

(* The table, and what is current, stay.                                    *)
LEMMA DetachedAgrees ==
  ASSUME WordsInv, NEW p \in Users, state' = state, state[p] # "attached",
         UNCHANGED <<rows, current>>,
         \A q \in Users : q # p => userEntries'[q] = userEntries[q]
  PROVE  \A q \in Users : Agreed(q)'
<1> SUFFICES ASSUME NEW q \in Users, state'[q] = "attached" PROVE Agreed(q)'
  BY DEF Agreed
<1>1. q # p /\ userEntries'[q] = userEntries[q]
  OBVIOUS
<1>2. Agreed(q)
  BY DEF WordsInv
<1> QED
  BY <1>1, <1>2 DEF Agreed

(* p starts or stops.                                                       *)
LEMMA OthersAgree ==
  ASSUME WordsInv, NEW p \in Users, rows' = rows,
         NEW s \in {"down", "attached", "detached"}, state' = [state EXCEPT ![p] = s],
         NEW ws \in SUBSET Words, current' = [current EXCEPT ![p] = ws],
         \A q \in Users : q # p => userEntries'[q] = userEntries[q],
         \A w \in ws, f \in Nat : Says(userEntries'[p], w, f) <=> Row(rows, w, f)
  PROVE  /\ \A q \in Users : Agreed(q)'
         /\ current' \in [Users -> SUBSET Words]
         /\ state' \in [Users -> {"down", "attached", "detached"}]
<1>1. current \in [Users -> SUBSET Words] /\ state \in [Users -> {"down", "attached", "detached"}]
  BY DEF WordsInv, WordTypes
<1>2. ASSUME NEW q \in Users PROVE Agreed(q)'
  <2>1. CASE q = p
    BY <1>1, <2>1 DEF Agreed
  <2>2. CASE q # p
    <3>1. Agreed(q)
      BY DEF WordsInv
    <3> QED
      BY <1>1, <2>2, <3>1 DEF Agreed
  <2> QED
    BY <2>1, <2>2
<1> QED
  BY <1>1, <1>2

LEMMA NothingKnown ==
  GoodDictionary(UserWords!NewDictionary) /\ UserWords!NewDictionary.user = <<>>
<1>1. Len(<<>>) = 0
  OBVIOUS
<1>2. WordsOnce(<<>>)
  BY <1>1 DEF WordsOnce
<1> QED
  BY <1>2, NewDictionaryOK DEF GoodDictionary

LEMMA SaysNothing ==
  ASSUME NEW w, NEW f PROVE ~Says(<<>>, w, f) /\ ~Mentions(<<>>, w)
<1>1. Len(<<>>) = 0
  OBVIOUS
<1> QED
  BY <1>1 DEF Says, Mentions

LEMMA WordsInitially == UserWords!Init => WordsInv
<1> SUFFICES ASSUME UserWords!Init PROVE WordsInv
  OBVIOUS
<1>1. /\ rows = <<>>
      /\ state = [p \in Users |-> "down"]
      /\ userEntries = [p \in Users |-> <<>>]
      /\ posting = [p \in Users |-> UserWords!NewDictionary.lists]
      /\ picked = [p \in Users |-> [d \in Dialogs |-> None]]
      /\ current = [p \in Users |-> {}]
  BY DEF UserWords!Init
<1>2. TableOK(rows)
  <2>1. DOMAIN rows = {}
    BY <1>1
  <2>2. rows = [w \in DOMAIN rows |-> rows[w]]
    BY <1>1
  <2>3. rows \in [DOMAIN rows -> UserWords!AllFrequencies]
    BY <2>1, <2>2
  <2>4. IsFiniteSet({})
    BY FS_EmptySet
  <2> QED
    BY <2>1, <2>3, <2>4 DEF TableOK
<1>3. WordTypes
  BY <1>1 DEF WordTypes
<1>4. PICK n : n = UserWords!NewDictionary
  OBVIOUS
<1>5. /\ GoodDictionary(n) /\ n.user = <<>>
      /\ n.lists \in [UserWords!Readings -> Seq(Nat)]
      /\ n.user \in Seq(UserWords!Entries)
      /\ n = [user |-> n.user, lists |-> n.lists]
  BY <1>4, NothingKnown, UserOf DEF GoodDictionary, Dictionaries
<1>6. ASSUME NEW p \in Users PROVE GoodDictionary(Dict(p))
  <2>1. Dict(p) = n
    BY <1>1, <1>4, <1>5, DictIs
  <2> QED
    BY <1>5, <2>1
<1>7. Memories
  BY <1>1, <1>4, <1>5, <1>6 DEF Memories
<1>8. \A p \in Users : Agreed(p)
  BY <1>1 DEF Agreed
<1> QED
  BY <1>2, <1>3, <1>7, <1>8 DEF WordsInv

LEMMA MyDictionary ==
  ASSUME WordsInv, NEW p \in Users
  PROVE  /\ GoodDictionary(UserWords!DictionaryOf(p))
         /\ UserWords!DictionaryOf(p) \in Dictionaries
         /\ UserWords!DictionaryOf(p).user = userEntries[p]
         /\ userEntries[p] \in Seq(UserWords!Entries)
<1>1. GoodDictionary(UserWords!DictionaryOf(p))
  BY DEF WordsInv, Memories, Dict
<1>2. UserWords!DictionaryOf(p).user = userEntries[p]
  BY DictIs DEF Dict
<1> QED
  BY <1>1, <1>2, UserOf DEF GoodDictionary

LEMMA StartedLoaded ==
  ASSUME WordsInv, NEW p \in Users, UserWords!StartLoaded(p)
  PROVE  WordsInv'
<1> DEFINE n == UserWords!Cardinality(DOMAIN rows)
<1>1. n \in Nat
  BY WordsCardinality, FS_CardinalityType DEF WordsInv, TableOK
<1>2. PICK order \in UserWords!Bijection(1 .. n, DOMAIN rows) :
        UserWords!Remember(p, UserWords!Added(UserWords!NewDictionary,
          [i \in DOMAIN order |-> UserWords!Entry(order[i], rows[order[i]])]))
  BY DEF UserWords!StartLoaded
<1> HIDE DEF n
<1>3. /\ order \in [1 .. n -> DOMAIN rows]
      /\ \A i, j \in 1 .. n : order[i] = order[j] => i = j
      /\ \A w \in DOMAIN rows : \E i \in 1 .. n : order[i] = w
  BY DEF UserWords!Bijection, UserWords!Injection, UserWords!Surjection, UserWords!IsInjective
<1>4. PICK es : es = [i \in DOMAIN order |-> UserWords!Entry(order[i], rows[order[i]])]
  OBVIOUS
<1>5. \A i \in 1 .. n : /\ es[i].word = order[i] /\ es[i].frequency = rows[order[i]]
                        /\ es[i] \in UserWords!Entries /\ order[i] \in DOMAIN rows
  <2>1. ASSUME NEW i \in 1 .. n
        PROVE  /\ order[i] \in DOMAIN rows /\ order[i] \in Words
               /\ rows[order[i]] \in UserWords!AllFrequencies
    BY <1>3 DEF WordsInv, TableOK
  <2>2. \A i \in 1 .. n : es[i] = [word |-> order[i], frequency |-> rows[order[i]]]
    BY <1>3, <1>4 DEF UserWords!Entry
  <2>3. ASSUME NEW i \in 1 .. n
        PROVE  /\ es[i].word = order[i] /\ es[i].frequency = rows[order[i]]
               /\ es[i] \in UserWords!Entries
    <3>1. PICK w, f : w = order[i] /\ f = rows[order[i]]
      OBVIOUS
    <3>2. es[i] = [word |-> w, frequency |-> f]
          /\ w \in Words /\ f \in UserWords!AllFrequencies
      BY <2>1, <2>2, <3>1
    <3> QED
      BY <3>1, <3>2 DEF UserWords!Entries
  <2> QED
    BY <2>1, <2>3
<1>6. es \in Seq(UserWords!Entries) /\ Len(es) = n
  <2>1. es \in [1 .. n -> UserWords!Entries]
    BY <1>3, <1>4, <1>5
  <2> QED
    BY <1>1, <2>1
<1>7. WordsOnce(es)
  BY <1>3, <1>5, <1>6 DEF WordsOnce
<1>8. \A w, f : Says(es, w, f) <=> Row(rows, w, f)
  BY <1>3, <1>5, <1>6 DEF Says, Row
<1>9. PICK d : d = UserWords!Added(UserWords!NewDictionary, es)
  OBVIOUS
<1>10. /\ GoodDictionary(d)
       /\ \A w, f : Says(d.user, w, f) <=> Row(rows, w, f)
  <2>1. PICK u : u = UserWords!NewDictionary
    OBVIOUS
  <2>2. GoodDictionary(u) /\ u.user = <<>>
    BY <2>1, NothingKnown
  <2>3. \A k \in 1 .. Len(es) : ~Mentions(u.user, es[k].word)
    BY <2>2, SaysNothing
  <2>4. /\ GoodDictionary(d)
        /\ \A w, f : Says(d.user, w, f) <=> Says(es, w, f) \/ Says(u.user, w, f)
    BY <1>6, <1>7, <1>9, <2>1, <2>2, <2>3, ImportedOK
  <2> QED
    BY <1>8, <2>2, <2>4, SaysNothing
<1>11. /\ Memories' /\ userEntries'[p] = d.user
       /\ \A q \in Users : q # p => userEntries'[q] = userEntries[q]
  BY <1>2, <1>4, <1>9, <1>10, Remembered DEF WordsInv
<1>12. /\ state' = [state EXCEPT ![p] = "attached"]
       /\ current' = [current EXCEPT ![p] = Words]
       /\ UNCHANGED <<rows, picked>>
  BY DEF UserWords!StartLoaded
<1>13. /\ \A q \in Users : Agreed(q)'
       /\ current' \in [Users -> SUBSET Words]
       /\ state' \in [Users -> {"down", "attached", "detached"}]
  BY <1>10, <1>11, <1>12, OthersAgree
<1> QED
  BY <1>11, <1>12, <1>13 DEF WordsInv, WordTypes, TableOK

LEMMA Restarted ==
  ASSUME WordsInv, NEW p \in Users, UserWords!StartEmpty(p) \/ UserWords!Stop(p)
  PROVE  WordsInv'
<1>1. PICK s \in {"down", "attached", "detached"} : state' = [state EXCEPT ![p] = s]
  BY DEF UserWords!StartEmpty, UserWords!Stop
<1>2. /\ UserWords!Remember(p, UserWords!NewDictionary)
      /\ current' = [current EXCEPT ![p] = {}]
      /\ rows' = rows
      /\ picked' = picked \/ picked' = [picked EXCEPT ![p] = [d \in Dialogs |-> None]]
  BY DEF UserWords!StartEmpty, UserWords!Stop
<1>3. /\ Memories'
      /\ \A q \in Users : q # p => userEntries'[q] = userEntries[q]
  BY <1>2, NothingKnown, Remembered DEF WordsInv
<1>4. /\ \A q \in Users : Agreed(q)'
      /\ current' \in [Users -> SUBSET Words]
      /\ state' \in [Users -> {"down", "attached", "detached"}]
  <2>1. {} \in SUBSET Words
        /\ \A w \in {}, f \in Nat : Says(userEntries'[p], w, f) <=> Row(rows, w, f)
    OBVIOUS
  <2> QED
    BY <1>1, <1>2, <1>3, <2>1, OthersAgree
<1>5. picked' \in [Users -> [Dialogs -> Words \cup {None}]]
  BY <1>2 DEF WordsInv, WordTypes
<1> QED
  BY <1>2, <1>3, <1>4, <1>5 DEF WordsInv, WordTypes, TableOK

LEMMA EntryAdded ==
  ASSUME WordsInv, NEW p \in Users, NEW w \in Words, UserWords!Add(p, w)
  PROVE  WordsInv'
<1> DEFINE old == UserWords!DictionaryOf(p)
           e == UserWords!Entry(w, Typed)
           d == UserWords!Upserted(old, e)
<1>1. e \in UserWords!Entries /\ e.word = w /\ e.frequency \in Nat
  BY FrequenciesAreNumbers DEF UserWords!Entry, UserWords!Entries
<1>2. GoodDictionary(old) /\ old.user = userEntries[p]
  BY MyDictionary
<1>3. /\ UserWords!Remember(p, d)
      /\ state[p] = "attached" => rows' = UserWords!Upsert(rows, e) /\ UserWords!Wrote(p, {w})
      /\ state[p] # "attached" => UNCHANGED <<rows, current>>
      /\ UNCHANGED <<state, picked>>
  BY DEF UserWords!Add
<1> HIDE DEF old, e
<1>4. GoodDictionary(d) /\ Puts(d.user, old.user, e)
  BY <1>1, <1>2, UpsertedOK
<1> HIDE DEF d
<1>5. /\ Memories' /\ userEntries'[p] = d.user
      /\ \A q \in Users : q # p => userEntries'[q] = userEntries[q]
  BY <1>3, <1>4, Remembered DEF WordsInv
<1>6. CASE state[p] = "attached"
  <2>1. /\ TableOK(rows')
        /\ \A v, f : Row(rows', v, f) <=> IF v = w THEN f = e.frequency ELSE Row(rows, v, f)
    <3>1. PICK t : t = UserWords!Upsert(rows, e)
      OBVIOUS
    <3>2. TableOK(t) /\ \A v, f : Row(t, v, f) <=> IF v = e.word THEN f = e.frequency
                                                   ELSE Row(rows, v, f)
      BY <1>1, <3>1, UpsertOK DEF WordsInv
    <3>3. rows' = t
      BY <1>3, <1>6, <3>1
    <3> QED
      BY <1>1, <3>2, <3>3
  <2>2. \A v \in Words, f \in Nat :
          Says(userEntries'[p], v, f) <=> IF v = w THEN f = e.frequency
                                          ELSE Says(userEntries[p], v, f)
    BY <1>1, <1>2, <1>4, <1>5 DEF Puts
  <2>3. {w} \in SUBSET Words
    OBVIOUS
  <2>4. (\A q \in Users : Agreed(q)') /\ current' \in [Users -> SUBSET Words]
    <3>1. \A v \in Words, f \in Nat : v \notin {w} =>
            /\ Row(rows', v, f) <=> Row(rows, v, f)
            /\ Says(userEntries'[p], v, f) <=> Says(userEntries[p], v, f)
      BY <2>1, <2>2
    <3>2. \A v \in {w}, f \in Nat : Says(userEntries'[p], v, f) <=> Row(rows', v, f)
      BY <2>1, <2>2
    <3> QED
      BY <1>3, <1>5, <1>6, <2>3, <3>1, <3>2, WrittenAgrees
  <2>5. TableOK(rows)'
    BY <2>1 DEF TableOK
  <2> QED
    BY <1>3, <1>5, <2>4, <2>5 DEF WordsInv, WordTypes
<1>7. CASE state[p] # "attached"
  <2>1. \A q \in Users : Agreed(q)'
    BY <1>3, <1>5, <1>7, DetachedAgrees
  <2> QED
    BY <1>3, <1>5, <1>7, <2>1 DEF WordsInv, WordTypes, TableOK
<1> QED
  BY <1>6, <1>7

LEMMA WordPicked ==
  ASSUME WordsInv, NEW p \in Users, NEW d \in Dialogs,
         UserWords!Pick(p, d) \/ UserWords!Dismiss(p, d)
  PROVE  WordsInv'
<1>1. UNCHANGED <<rows, state, userEntries, posting, current>>
  BY DEF UserWords!Pick, UserWords!Dismiss
<1>2. picked' \in [Users -> [Dialogs -> Words \cup {None}]]
  <2>1. \E w \in Words \cup {None} : picked' = [picked EXCEPT ![p][d] = w]
    <3>1. CASE UserWords!Dismiss(p, d)
      BY <3>1 DEF UserWords!Dismiss, UserWords!Close
    <3>2. CASE UserWords!Pick(p, d)
      <4>1. PICK e \in UserWords!Range(userEntries[p]) : picked' = [picked EXCEPT ![p][d] = e.word]
        BY <3>2 DEF UserWords!Pick
      <4>2. userEntries[p] \in Seq(UserWords!Entries)
        BY MyDictionary
      <4>3. e \in UserWords!Entries
        BY <4>2 DEF UserWords!Range
      <4> QED
        BY <4>1, <4>3 DEF UserWords!Entries
    <3> QED
      BY <3>1, <3>2
  <2> QED
    BY <2>1 DEF WordsInv, WordTypes
<1>3. Memories'
  BY <1>1 DEF WordsInv, Memories, Dict, UserWords!DictionaryOf, GoodDictionary, DictionaryOK
<1>4. \A q \in Users : Agreed(q)'
  BY <1>1 DEF WordsInv, Agreed
<1> QED
  BY <1>1, <1>2, <1>3, <1>4 DEF WordsInv, WordTypes, TableOK

LEMMA ClosedType ==
  ASSUME WordTypes, NEW p \in Users, NEW d \in Dialogs, UserWords!Close(p, d)
  PROVE  picked' \in [Users -> [Dialogs -> Words \cup {None}]]
BY DEF WordTypes, UserWords!Close

LEMMA EntryRemoved ==
  ASSUME WordsInv, NEW p \in Users, NEW dialog \in Dialogs, UserWords!RemoveEntry(p, dialog)
  PROVE  WordsInv'
<1> DEFINE old == UserWords!DictionaryOf(p)
           w == picked[p][dialog]
           d == UserWords!ReplaceUserEntries(old, UserWords!Without(userEntries[p], w))
<1>1. w \in Words
  BY DEF UserWords!RemoveEntry, WordsInv, WordTypes
<1>2. GoodDictionary(old) /\ old.user = userEntries[p]
  BY MyDictionary
<1>3. /\ UserWords!Remember(p, d)
      /\ state[p] = "attached" => rows' = UserWords!Delete(rows, w) /\ UserWords!Wrote(p, {w})
      /\ state[p] # "attached" => UNCHANGED <<rows, current>>
      /\ UNCHANGED state
      /\ UserWords!Close(p, dialog)
  BY DEF UserWords!RemoveEntry
<1> HIDE DEF old, w
<1>4. GoodDictionary(d) /\ Drops(d.user, userEntries[p], w)
  BY <1>2, RemovedOK
<1> HIDE DEF d
<1>5. /\ Memories' /\ userEntries'[p] = d.user
      /\ \A q \in Users : q # p => userEntries'[q] = userEntries[q]
  BY <1>3, <1>4, Remembered DEF WordsInv
<1>6. picked' \in [Users -> [Dialogs -> Words \cup {None}]]
  BY <1>3, ClosedType DEF WordsInv
<1>7. CASE state[p] = "attached"
  <2>1. /\ TableOK(rows')
        /\ \A v, f : Row(rows', v, f) <=> v # w /\ Row(rows, v, f)
    <3>1. PICK t : t = UserWords!Delete(rows, w)
      OBVIOUS
    <3>2. TableOK(t) /\ \A v, f : Row(t, v, f) <=> v # w /\ Row(rows, v, f)
      BY <3>1, DeleteOK DEF WordsInv
    <3>3. rows' = t
      BY <1>3, <1>7, <3>1
    <3> QED
      BY <3>2, <3>3
  <2>2. \A v \in Words, f \in Nat :
          Says(userEntries'[p], v, f) <=> v # w /\ Says(userEntries[p], v, f)
    BY <1>4, <1>5 DEF Drops
  <2>3. {w} \in SUBSET Words
    BY <1>1
  <2>4. (\A q \in Users : Agreed(q)') /\ current' \in [Users -> SUBSET Words]
    <3>1. \A v \in Words, f \in Nat : v \notin {w} =>
            /\ Row(rows', v, f) <=> Row(rows, v, f)
            /\ Says(userEntries'[p], v, f) <=> Says(userEntries[p], v, f)
      BY <2>1, <2>2
    <3>2. \A v \in {w}, f \in Nat : Says(userEntries'[p], v, f) <=> Row(rows', v, f)
      BY <1>1, <2>1, <2>2
    <3> QED
      BY <1>3, <1>5, <1>7, <2>3, <3>1, <3>2, WrittenAgrees
  <2>5. TableOK(rows)'
    BY <2>1 DEF TableOK
  <2> QED
    BY <1>3, <1>5, <1>6, <2>4, <2>5 DEF WordsInv, WordTypes
<1>8. CASE state[p] # "attached"
  <2>1. \A q \in Users : Agreed(q)'
    BY <1>3, <1>5, <1>8, DetachedAgrees
  <2> QED
    BY <1>3, <1>5, <1>6, <1>8, <2>1 DEF WordsInv, WordTypes, TableOK
<1> QED
  BY <1>7, <1>8

(* What an edit does to memory and, with a store, to the table.             *)
LEMMA Edits ==
  ASSUME WordsInv, NEW p \in Users, NEW dialog \in Dialogs, NEW new \in Words,
         UserWords!UpdateEntry(p, dialog, new)
  PROVE  LET old == picked[p][dialog]
             v == UserWords!Renamed(UserWords!DictionaryOf(p), old, new)
             g == UserWords!FrequencyOf(UserWords!DictionaryOf(p), old)
         IN  /\ old \in Words /\ old # new /\ Mentions(userEntries[p], old)
             /\ GoodDictionary(v) /\ g \in UserWords!AllFrequencies
             /\ UserWords!Remember(p, v)
             /\ \A w \in Words, f \in Nat :
                  Says(v.user, w, f) <=> IF w = new THEN f = g
                                         ELSE w # old /\ Says(userEntries[p], w, f)
             /\ state[p] = "attached" =>
                  /\ rows' = UserWords!Upsert(UserWords!Delete(rows, old), UserWords!Entry(new, g))
                  /\ UserWords!Wrote(p, {old, new})
             /\ state[p] # "attached" => UNCHANGED <<rows, current>>
             /\ UNCHANGED state /\ UserWords!Close(p, dialog)
<1> DEFINE old == picked[p][dialog]
           d == UserWords!DictionaryOf(p)
           v == UserWords!Renamed(d, old, new)
           g == UserWords!FrequencyOf(d, old)
<1>1. old \in Words /\ old # new
  BY DEF UserWords!UpdateEntry, WordsInv, WordTypes
<1>2. GoodDictionary(d) /\ d.user = userEntries[p] /\ d \in Dictionaries
  BY MyDictionary
<1>3. Mentions(userEntries[p], old)
  BY <1>2, HasMentions DEF UserWords!UpdateEntry
<1>4. /\ UserWords!Remember(p, v)
      /\ state[p] = "attached" =>
           /\ rows' = UserWords!Upsert(UserWords!Delete(rows, old), UserWords!Entry(new, g))
           /\ UserWords!Wrote(p, {old, new})
      /\ state[p] # "attached" => UNCHANGED <<rows, current>>
      /\ UNCHANGED state /\ UserWords!Close(p, dialog)
  BY DEF UserWords!UpdateEntry
<1> HIDE DEF old, d
<1>5. /\ GoodDictionary(v) /\ g \in UserWords!AllFrequencies
      /\ \A w \in Words, f \in Nat :
           Says(v.user, w, f) <=> IF w = new THEN f = g ELSE w # old /\ Says(d.user, w, f)
  BY <1>1, <1>2, <1>3, RenamedOK
<1> HIDE DEF v, g
<1>6. \A w \in Words, f \in Nat :
        Says(v.user, w, f) <=> IF w = new THEN f = g ELSE w # old /\ Says(userEntries[p], w, f)
  BY <1>2, <1>5
<1> QED
  BY <1>1, <1>3, <1>4, <1>5, <1>6 DEF v, g, d, old

LEMMA EntryUpdated ==
  ASSUME WordsInv, NEW p \in Users, NEW dialog \in Dialogs, NEW new \in Words,
         UserWords!UpdateEntry(p, dialog, new)
  PROVE  WordsInv'
<1> DEFINE old == picked[p][dialog]
           v == UserWords!Renamed(UserWords!DictionaryOf(p), old, new)
           g == UserWords!FrequencyOf(UserWords!DictionaryOf(p), old)
<1>1. /\ old \in Words /\ old # new
      /\ GoodDictionary(v) /\ g \in UserWords!AllFrequencies
      /\ UserWords!Remember(p, v)
      /\ \A w \in Words, f \in Nat :
           Says(v.user, w, f) <=> IF w = new THEN f = g
                                  ELSE w # old /\ Says(userEntries[p], w, f)
      /\ state[p] = "attached" =>
           /\ rows' = UserWords!Upsert(UserWords!Delete(rows, old), UserWords!Entry(new, g))
           /\ UserWords!Wrote(p, {old, new})
      /\ state[p] # "attached" => UNCHANGED <<rows, current>>
      /\ UNCHANGED state /\ UserWords!Close(p, dialog)
  BY Edits
<1> HIDE DEF old, v, g
<1>2. /\ Memories' /\ userEntries'[p] = v.user
      /\ \A q \in Users : q # p => userEntries'[q] = userEntries[q]
  BY <1>1, Remembered DEF WordsInv
<1>3. picked' \in [Users -> [Dialogs -> Words \cup {None}]]
  BY <1>1, ClosedType DEF WordsInv
<1>4. CASE state[p] = "attached"
  <2>1. PICK e : e = UserWords!Entry(new, g)
    OBVIOUS
  <2>2. e \in UserWords!Entries /\ e.word = new /\ e.frequency = g
    BY <1>1, <2>1 DEF UserWords!Entry, UserWords!Entries
  <2>3. PICK t : t = UserWords!Delete(rows, old)
    OBVIOUS
  <2>4. TableOK(t) /\ \A w, f : Row(t, w, f) <=> w # old /\ Row(rows, w, f)
    BY <2>3, DeleteOK DEF WordsInv
  <2>5. rows' = UserWords!Upsert(t, e)
    BY <1>1, <1>4, <2>1, <2>3
  <2>6. /\ TableOK(rows')
        /\ \A w, f : Row(rows', w, f) <=> IF w = new THEN f = g ELSE Row(t, w, f)
    BY <2>2, <2>4, <2>5, UpsertOK
  <2>7. {old, new} \in SUBSET Words
    BY <1>1
  <2>8. \A w \in Words, f \in Nat : w \notin {old, new} =>
          /\ Row(rows', w, f) <=> Row(rows, w, f)
          /\ Says(userEntries'[p], w, f) <=> Says(userEntries[p], w, f)
    BY <1>1, <1>2, <2>4, <2>6
  <2>9. \A w \in {old, new}, f \in Nat : Says(userEntries'[p], w, f) <=> Row(rows', w, f)
    BY <1>1, <1>2, <2>4, <2>6
  <2>10. (\A q \in Users : Agreed(q)') /\ current' \in [Users -> SUBSET Words]
    BY <1>1, <1>2, <1>4, <2>7, <2>8, <2>9, WrittenAgrees
  <2>11. TableOK(rows)'
    BY <2>6 DEF TableOK
  <2> QED
    BY <1>1, <1>2, <1>3, <2>10, <2>11 DEF WordsInv, WordTypes
<1>5. CASE state[p] # "attached"
  <2>1. \A q \in Users : Agreed(q)'
    BY <1>1, <1>2, <1>5, DetachedAgrees
  <2> QED
    BY <1>1, <1>2, <1>3, <1>5, <2>1 DEF WordsInv, WordTypes, TableOK
<1> QED
  BY <1>4, <1>5

LEMMA FileImported ==
  ASSUME WordsInv, NEW p \in Users, NEW file \in Files, UserWords!Import(p, file)
  PROVE  WordsInv'
<1>1. PICK fresh : fresh = UserWords!Fresh(UserWords!DictionaryOf(p), file)
  OBVIOUS
<1>2. PICK n \in 0 .. Len(fresh) :
        LET done == SubSeq(fresh, 1, n)
        IN  /\ UserWords!Remember(p, UserWords!Added(UserWords!DictionaryOf(p), done))
            /\ state[p] = "attached" =>
                 /\ rows' = UserWords!Upserts(rows, done)
                 /\ UserWords!Wrote(p, {done[i].word : i \in 1 .. n})
            /\ state[p] # "attached" => UNCHANGED <<rows, current>>
  BY <1>1 DEF UserWords!Import
<1>3. UNCHANGED <<state, picked>>
  BY DEF UserWords!Import
<1>4. PICK old : old = UserWords!DictionaryOf(p)
  OBVIOUS
<1>5. GoodDictionary(old) /\ old.user = userEntries[p]
  BY <1>4, MyDictionary
<1>6. /\ fresh \in Seq(UserWords!Entries) /\ WordsOnce(fresh)
      /\ \A k \in 1 .. Len(fresh) : ~Mentions(old.user, fresh[k].word)
  BY <1>1, <1>4, <1>5, FreshOK, FrequenciesAreNumbers
<1>7. PICK done : done = SubSeq(fresh, 1, n)
  OBVIOUS
<1>8. /\ done \in Seq(UserWords!Entries) /\ WordsOnce(done)
      /\ Len(done) = n /\ \A i \in 1 .. n : done[i] = fresh[i]
  BY <1>6, <1>7, PartOf
<1>9. \A k \in 1 .. Len(done) : ~Mentions(old.user, done[k].word)
  <2>1. Len(fresh) \in Nat
    BY <1>6
  <2> QED
    BY <1>6, <1>8, <2>1
<1>10. PICK d : d = UserWords!Added(old, done)
  OBVIOUS
<1>11. /\ GoodDictionary(d)
       /\ \A w, f : Says(d.user, w, f) <=> Says(done, w, f) \/ Says(userEntries[p], w, f)
  BY <1>5, <1>8, <1>9, <1>10, ImportedOK
<1>12. /\ Memories' /\ userEntries'[p] = d.user
       /\ \A q \in Users : q # p => userEntries'[q] = userEntries[q]
  BY <1>2, <1>4, <1>7, <1>10, <1>11, Remembered DEF WordsInv
<1>13. CASE state[p] = "attached"
  <2>1. PICK ws : ws = {done[i].word : i \in 1 .. n}
    OBVIOUS
  <2>2. rows' = UserWords!Upserts(rows, done) /\ UserWords!Wrote(p, ws)
    BY <1>2, <1>7, <1>13, <2>1
  <2>3. \A w : w \in ws <=> Mentions(done, w)
    BY <1>8, <2>1 DEF Mentions
  <2>4. ws \in SUBSET Words
    BY <1>8, <2>3, EntryType DEF Mentions
  <2>5. /\ TableOK(rows')
        /\ \A w, f : Row(rows', w, f) <=> IF Mentions(done, w) THEN Says(done, w, f)
                                          ELSE Row(rows, w, f)
    BY <1>8, <2>2, UpsertsOK DEF WordsInv
  <2>6. ASSUME NEW w \in ws, NEW f \in Nat
        PROVE  Says(userEntries'[p], w, f) <=> Row(rows', w, f)
    <3>1. Mentions(done, w)
      BY <2>3
    <3>2. ~Mentions(userEntries[p], w)
      BY <1>5, <1>9, <3>1 DEF Mentions
    <3>3. ~Says(userEntries[p], w, f)
      BY <3>2 DEF Mentions, Says
    <3> QED
      BY <1>11, <1>12, <2>5, <3>1, <3>3
  <2>7. ASSUME NEW w \in Words, NEW f \in Nat, w \notin ws
        PROVE  /\ Row(rows', w, f) <=> Row(rows, w, f)
               /\ Says(userEntries'[p], w, f) <=> Says(userEntries[p], w, f)
    <3>1. ~Mentions(done, w) /\ ~Says(done, w, f)
      BY <2>3, <2>7 DEF Mentions, Says
    <3> QED
      BY <1>11, <1>12, <2>5, <3>1
  <2>8. (\A q \in Users : Agreed(q)') /\ current' \in [Users -> SUBSET Words]
    BY <1>3, <1>12, <1>13, <2>2, <2>4, <2>6, <2>7, WrittenAgrees
  <2>9. TableOK(rows)'
    BY <2>5 DEF TableOK
  <2> QED
    BY <1>3, <1>12, <2>8, <2>9 DEF WordsInv, WordTypes
<1>14. CASE state[p] # "attached"
  <2>1. UNCHANGED <<rows, current>>
    BY <1>2, <1>14
  <2>2. \A q \in Users : Agreed(q)'
    BY <1>3, <1>12, <1>14, <2>1, DetachedAgrees
  <2> QED
    BY <1>3, <1>12, <2>1, <2>2 DEF WordsInv, WordTypes, TableOK
<1> QED
  BY <1>13, <1>14

LEMMA WordsKept == WordsInv /\ [UserWords!Next]_UserWords!vars => WordsInv'
<1> SUFFICES ASSUME WordsInv, [UserWords!Next]_UserWords!vars PROVE WordsInv'
  OBVIOUS
<1>1. CASE UNCHANGED UserWords!vars
  <2>1. UNCHANGED <<rows, state, userEntries, posting, picked, current>>
    BY <1>1 DEF UserWords!vars
  <2>2. Memories'
    BY <2>1 DEF WordsInv, Memories, Dict, UserWords!DictionaryOf, GoodDictionary, DictionaryOK
  <2>3. \A q \in Users : Agreed(q)'
    BY <2>1 DEF WordsInv, Agreed
  <2> QED
    BY <2>1, <2>2, <2>3 DEF WordsInv, WordTypes, TableOK
<1> QED
  BY <1>1, StartedLoaded, Restarted, EntryAdded, WordPicked, EntryRemoved, EntryUpdated,
     FileImported DEF UserWords!Next

LEMMA WordsInvariance == UserWords!Spec => []WordsInv
<1>1. UserWords!Init => WordsInv
  BY WordsInitially
<1>2. WordsInv /\ [UserWords!Next]_UserWords!vars => WordsInv'
  BY WordsKept
<1> QED
  BY <1>1, <1>2, PTL DEF UserWords!Spec

LEMMA WordsType == WordsInv => UserWords!TypeOK
<1> SUFFICES ASSUME WordsInv PROVE UserWords!TypeOK
  OBVIOUS
<1>1. /\ DOMAIN rows \subseteq Words
      /\ \A w \in DOMAIN rows : rows[w] \in UserWords!AllFrequencies
  BY DEF WordsInv, TableOK
<1>2. ASSUME NEW p \in Users
      PROVE  /\ \A i \in DOMAIN userEntries[p] : userEntries[p][i] \in UserWords!Entries
             /\ \A r \in UserWords!Readings :
                  UserWords!Range(posting[p][r]) \subseteq 1..(UserWords!UserStart + Len(userEntries[p]))
  <2>1. GoodDictionary(Dict(p)) /\ Dict(p).user = userEntries[p] /\ Dict(p).lists = posting[p]
    BY DictIs DEF WordsInv, Memories
  <2>2. userEntries[p] \in Seq(UserWords!Entries)
    BY MyDictionary
  <2>3. ASSUME NEW r \in UserWords!Readings
        PROVE  UserWords!Range(posting[p][r]) \subseteq 1..(UserWords!UserStart + Len(userEntries[p]))
    <3>1. PICK list : list = posting[p][r]
      OBVIOUS
    <3>2. Lists(list, AllOf(userEntries[p]), r)
      BY <2>1, <3>1 DEF GoodDictionary, DictionaryOK
    <3>3. Len(AllOf(userEntries[p])) = UserWords!UserStart + Len(userEntries[p])
      BY <2>2, AllTyped DEF UserWords!UserStart
    <3>4. DOMAIN list = 1 .. Len(list)
          /\ \A j \in 1 .. Len(list) : list[j] \in 1 .. Len(AllOf(userEntries[p]))
      BY <3>2 DEF Lists
    <3> QED
      BY <3>1, <3>3, <3>4 DEF UserWords!Range
  <2> QED
    BY <2>2, <2>3
<1> QED
  BY <1>1, <1>2 DEF UserWords!TypeOK, WordsInv, WordTypes

\* Rows, entries and posting lists keep their types, and no posting list points
\* at an entry that is gone, for any number of processes, words and files.
THEOREM WordsTypeCorrect == UserWords!Spec => []UserWords!TypeOK
BY WordsType, WordsInvariance, PTL

LEMMA LookupRanked == WordsInv => UserWords!LookupByFrequency
<1> SUFFICES ASSUME WordsInv, NEW p \in Users, NEW r \in UserWords!Readings
             PROVE  LET all  == Builtin \o userEntries[p]
                        list == posting[p][r]
                    IN /\ UserWords!IsInjective(list)
                       /\ UserWords!Range(list) = {i \in DOMAIN all : ReadingOf[all[i].word] = r}
                       /\ \A j, k \in DOMAIN list :
                            j < k => all[list[j]].frequency >= all[list[k]].frequency
  BY DEF UserWords!LookupByFrequency
<1>1. PICK all, list : all = Builtin \o userEntries[p] /\ list = posting[p][r]
  OBVIOUS
<1>2. GoodDictionary(Dict(p)) /\ Dict(p).user = userEntries[p] /\ Dict(p).lists = posting[p]
  BY DictIs DEF WordsInv, Memories
<1>3. Lists(list, all, r) /\ Ranked(list, all)
  BY <1>1, <1>2 DEF GoodDictionary, DictionaryOK, AllOf
<1>4. all \in Seq(UserWords!Entries)
  BY <1>1, MyDictionary, AllTyped DEF AllOf
<1>5. DOMAIN all = 1 .. Len(all) /\ DOMAIN list = 1 .. Len(list)
  BY <1>3, <1>4 DEF Lists
<1>6. UserWords!IsInjective(list)
  BY <1>3, <1>5 DEF Lists, Once, UserWords!IsInjective
<1>7. UserWords!Range(list) = {i \in DOMAIN all : ReadingOf[all[i].word] = r}
  <2>1. ASSUME NEW i \in UserWords!Range(list) PROVE i \in DOMAIN all /\ ReadingOf[all[i].word] = r
    <3>1. PICK j \in DOMAIN list : i = list[j]
      BY <2>1 DEF UserWords!Range
    <3> QED
      BY <3>1, <1>3, <1>5 DEF Lists
  <2>2. ASSUME NEW i \in DOMAIN all, ReadingOf[all[i].word] = r PROVE i \in UserWords!Range(list)
    <3>1. PICK j \in DOMAIN list : list[j] = i
      BY <2>2, <1>3, <1>5 DEF Lists
    <3> QED
      BY <3>1 DEF UserWords!Range
  <2> QED
    BY <2>1, <2>2
<1>8. \A j, k \in DOMAIN list : j < k => all[list[j]].frequency >= all[list[k]].frequency
  BY <1>3, <1>5 DEF Ranked
<1> QED
  BY <1>1, <1>6, <1>7, <1>8

\* lookup answers with every entry of the reading, each once and the most
\* frequent first, however the posting lists were appended to, resorted and
\* rebuilt.
THEOREM LookupByFrequencyHolds == UserWords!Spec => []LookupByFrequency
<1>1. WordsInv => LookupByFrequency
  BY LookupRanked DEF LookupByFrequency
<1> QED
  BY <1>1, WordsInvariance, PTL

LEMMA MemoryAgrees == WordsInv => UserWords!MemoryIsStore
<1> SUFFICES ASSUME WordsInv, NEW p \in Users, state[p] = "attached", NEW w \in current[p]
             PROVE  LET here == {i \in DOMAIN userEntries[p] : userEntries[p][i].word = w}
                    IN IF w \in DOMAIN rows
                       THEN /\ UserWords!Cardinality(here) = 1
                            /\ \A i \in here : userEntries[p][i].frequency = rows[w]
                       ELSE here = {}
  BY DEF UserWords!MemoryIsStore
<1>1. PICK u : u = userEntries[p]
  OBVIOUS
<1>2. u \in Seq(UserWords!Entries) /\ WordsOnce(u)
  BY <1>1, MyDictionary DEF GoodDictionary
<1>3. \A f \in Nat : Says(u, w, f) <=> Row(rows, w, f)
  BY <1>1 DEF WordsInv, Agreed
<1>4. PICK here : here = {i \in DOMAIN u : u[i].word = w}
  OBVIOUS
<1>5. \A i : i \in here <=> i \in 1 .. Len(u) /\ u[i].word = w
  BY <1>2, <1>4
<1>6. ASSUME NEW i \in here PROVE w \in DOMAIN rows /\ u[i].frequency = rows[w]
  <2>1. i \in 1 .. Len(u) /\ u[i].word = w /\ u[i].frequency \in Nat
    BY <1>2, <1>5, EntryType
  <2>2. Says(u, w, u[i].frequency)
    BY <2>1 DEF Says
  <2> QED
    BY <1>3, <2>1, <2>2 DEF Row
<1>7. CASE w \in DOMAIN rows
  <2>1. rows[w] \in Nat
    BY <1>7, FrequenciesAreNumbers DEF WordsInv, TableOK
  <2>2. Says(u, w, rows[w])
    BY <1>3, <1>7, <2>1 DEF Row
  <2>3. PICK i \in 1 .. Len(u) : u[i].word = w
    BY <2>2 DEF Says
  <2>4. here = {i}
    BY <1>2, <1>5, <2>3 DEF WordsOnce
  <2>5. UserWords!Cardinality(here) = 1
    BY <2>4, FS_Singleton, WordsCardinality
  <2> QED
    BY <1>1, <1>4, <1>6, <1>7, <2>5
<1>8. CASE w \notin DOMAIN rows
  BY <1>1, <1>4, <1>6, <1>8
<1> QED
  BY <1>7, <1>8

\* Of the words whose rows no other process has written, a process with a store
\* has in memory exactly the rows, with their frequencies.
THEOREM MemoryIsStoreHolds == UserWords!Spec => []MemoryIsStore
<1>1. WordsInv => MemoryIsStore
  BY MemoryAgrees DEF MemoryIsStore
<1> QED
  BY <1>1, WordsInvariance, PTL

(* The two actions that delete a row forget the word.                       *)
Forgets(w) ==
  \E p \in Users : /\ \E i \in DOMAIN userEntries[p] : userEntries[p][i].word = w
                   /\ \A i \in DOMAIN userEntries'[p] : userEntries'[p][i].word # w

LEMMA ForgetsDropped ==
  ASSUME WordsInv, WordsInv', NEW p \in Users, NEW w \in Words,
         Mentions(userEntries[p], w),
         \A f \in Nat : ~Says(userEntries'[p], w, f)
  PROVE  Forgets(w)
<1>1. userEntries[p] \in Seq(UserWords!Entries)
  BY MyDictionary
<1>2. userEntries'[p] \in Seq(UserWords!Entries)
  BY DEF WordsInv, Memories
<1>3. ~Mentions(userEntries'[p], w)
  BY <1>2, MentionSays
<1>4. DOMAIN userEntries[p] = 1 .. Len(userEntries[p])
      /\ DOMAIN userEntries'[p] = 1 .. Len(userEntries'[p])
  BY <1>1, <1>2
<1> QED
  BY <1>3, <1>4 DEF Forgets, Mentions

LEMMA RowsSurvive ==
  ASSUME WordsInv, WordsInv', [UserWords!Next]_UserWords!vars,
         NEW w \in DOMAIN rows, w \notin DOMAIN rows'
  PROVE  Forgets(w)
<1>1. ASSUME NEW p \in Users, NEW dialog \in Dialogs, UserWords!RemoveEntry(p, dialog)
      PROVE  Forgets(w)
  <2>1. state[p] = "attached" /\ rows' = UserWords!Delete(rows, picked[p][dialog])
    BY <1>1 DEF UserWords!RemoveEntry
  <2>2. w = picked[p][dialog]
    BY <2>1 DEF UserWords!Delete
  <2>3. PICK old : old = UserWords!DictionaryOf(p)
    OBVIOUS
  <2>4. GoodDictionary(old) /\ old \in Dictionaries /\ old.user = userEntries[p]
    BY <2>3, MyDictionary
  <2>5. Mentions(userEntries[p], w)
    BY <1>1, <2>2, <2>3, <2>4, HasMentions DEF UserWords!RemoveEntry
  <2>6. PICK d : d = UserWords!ReplaceUserEntries(old, UserWords!Without(old.user, w))
    OBVIOUS
  <2>7. GoodDictionary(d) /\ Drops(d.user, userEntries[p], w)
    BY <2>4, <2>6, RemovedOK
  <2>8. UserWords!Remember(p, d)
    BY <1>1, <2>2, <2>3, <2>4, <2>6 DEF UserWords!RemoveEntry
  <2>9. userEntries'[p] = d.user
    BY <2>7, <2>8, Remembered DEF WordsInv
  <2>10. w \in Words
    BY DEF WordsInv, TableOK
  <2>11. \A f \in Nat : ~Says(userEntries'[p], w, f)
    BY <2>7, <2>9, <2>10 DEF Drops
  <2> QED
    BY <2>5, <2>10, <2>11, ForgetsDropped
<1>2. ASSUME NEW p \in Users, NEW dialog \in Dialogs, NEW new \in Words,
             UserWords!UpdateEntry(p, dialog, new)
      PROVE  Forgets(w)
  <2> DEFINE old == picked[p][dialog]
             v == UserWords!Renamed(UserWords!DictionaryOf(p), old, new)
             g == UserWords!FrequencyOf(UserWords!DictionaryOf(p), old)
  <2>1. /\ old \in Words /\ old # new /\ Mentions(userEntries[p], old)
        /\ GoodDictionary(v) /\ g \in UserWords!AllFrequencies
        /\ UserWords!Remember(p, v)
        /\ \A x \in Words, f \in Nat :
             Says(v.user, x, f) <=> IF x = new THEN f = g
                                    ELSE x # old /\ Says(userEntries[p], x, f)
        /\ state[p] = "attached" =>
             rows' = UserWords!Upsert(UserWords!Delete(rows, old), UserWords!Entry(new, g))
        /\ state[p] # "attached" => UNCHANGED <<rows, current>>
    BY <1>2, Edits
  <2> HIDE DEF old, v, g
  <2>2. state[p] = "attached"
    BY <2>1
  <2>3. w = old
    BY <2>1, <2>2 DEF UserWords!Upsert, UserWords!Delete
  <2>4. userEntries'[p] = v.user
    BY <2>1, Remembered DEF WordsInv
  <2>5. \A f \in Nat : ~Says(userEntries'[p], w, f)
    BY <2>1, <2>3, <2>4
  <2> QED
    BY <2>1, <2>3, <2>5, ForgetsDropped
<1>3. ASSUME NEW p \in Users, NEW v \in Words, UserWords!Add(p, v) PROVE FALSE
  <2>1. rows' = rows \/ rows' = UserWords!Upsert(rows, UserWords!Entry(v, Typed))
    BY <1>3 DEF UserWords!Add
  <2> QED
    BY <2>1 DEF UserWords!Upsert
<1>4. ASSUME NEW p \in Users, NEW file \in Files, UserWords!Import(p, file) PROVE FALSE
  <2>1. rows' = rows \/ \E es : rows' = UserWords!Upserts(rows, es)
    BY <1>4 DEF UserWords!Import
  <2> QED
    BY <2>1 DEF UserWords!Upserts
<1>5. ASSUME rows' = rows PROVE FALSE
  BY <1>5
<1> QED
  BY <1>1, <1>2, <1>3, <1>4, <1>5 DEF UserWords!Next, UserWords!StartLoaded,
     UserWords!StartEmpty, UserWords!Stop, UserWords!Pick, UserWords!Dismiss, UserWords!vars

\* A row goes only in a call that also drops the word from the memory of a
\* process that had it: the words of other processes survive.
THEOREM OthersWordsSurviveHolds == UserWords!Spec => OthersWordsSurvive
<1>1. ASSUME WordsInv, WordsInv', [UserWords!Next]_UserWords!vars
      PROVE  \A w \in DOMAIN rows \ DOMAIN rows' :
               \E p \in Users :
                 /\ \E i \in DOMAIN userEntries[p] : userEntries[p][i].word = w
                 /\ \A i \in DOMAIN userEntries'[p] : userEntries'[p][i].word # w
  BY <1>1, RowsSurvive DEF Forgets
<1> QED
  BY <1>1, WordsInvariance, PTL DEF OthersWordsSurvive, UserWords!OthersWordsSurvive, UserWords!Spec

-----------------------------------------------------------------------------
(* The import of the version 1 files                                         *)

USE MigrationAssumption DEF MigrationAssumption

LEMMA NoCountsType == NoCounts \in [Words -> 0..MaxCount]
BY MigrationAssumption DEF NoCounts

LEMMA MergedType ==
  ASSUME TypeOK, NEW p \in Procs, NEW w \in Words
  PROVE  Merged(p, w) \in 0..MaxCount
BY DEF TypeOK, Merged, Higher

LEMMA InitType ==
  ASSUME Init
  PROVE  TypeOK
<1>1. /\ entries \subseteq Words /\ scores \in [Words -> 0..MaxCount]
      /\ migrated \in BOOLEAN
      /\ dictFile \subseteq Words /\ scoresFile \in [Words -> 0..MaxCount]
  BY NoCountsType, MigrationAssumption DEF Init
<1>2. /\ pc \in [Procs -> Steps] /\ path \in [Procs -> {"first", "stale"}]
      /\ rename \in [Procs -> SUBSET {"dict", "scores"}]
      /\ readWords \in [Procs -> SUBSET Words]
  BY DEF Init, Steps
<1>3. readCounts \in [Procs -> [Words -> 0..MaxCount]]
  BY NoCountsType DEF Init
<1>4. mishaps \in 0..Mishaps /\ v1Writes \in 0..V1Writes
  BY MigrationAssumption DEF Init
<1>5. /\ v1Words \subseteq Words /\ v1Counts \in [Words -> 0..MaxCount]
      /\ deleted \subseteq Words /\ recorded \in [Words -> 0..MaxCount]
  BY NoCountsType, MigrationAssumption DEF Init
<1> QED
  BY <1>1, <1>2, <1>3, <1>4, <1>5 DEF TypeOK

(* The two ways out of the test of the flag.                               *)
FlagSeen(p) ==
  /\ pc' = [pc EXCEPT ![p] = "sample"]
  /\ path' = [path EXCEPT ![p] = "stale"]
  /\ rename' = rename
FlagNotSeen(p) ==
  /\ pc' = [pc EXCEPT ![p] = "readDict"]
  /\ path' = [path EXCEPT ![p] = "first"]
  /\ rename' = [rename EXCEPT ![p] = {"dict", "scores"}]

LEMMA CheckFlagWays ==
  ASSUME NEW p \in Procs, CheckFlag(p)
  PROVE  FlagSeen(p) \/ FlagNotSeen(p)
BY DEF CheckFlag, FlagSeen, FlagNotSeen

(* The tables, the files and what every process has read of them keep      *)
(* their types, wherever a process dies and whatever is refused.           *)
THEOREM MigrationTypeCorrect == Spec => []TypeOK
<1>1. Init => TypeOK
  BY InitType
<1>2. TypeOK /\ [Next]_vars => TypeOK'
  <2> SUFFICES ASSUME TypeOK, [Next]_vars PROVE TypeOK'
    OBVIOUS
  <2>1. ASSUME NEW p \in Procs, Open(p) PROVE TypeOK'
    BY <2>1 DEF TypeOK, Open, Goto, Steps, tables, files, local, v1, history
  <2>2. ASSUME NEW p \in Procs, CheckFlag(p) PROVE TypeOK'
    <3>1. mishaps' \in 0..Mishaps
      BY <2>2 DEF TypeOK, CheckFlag, Mishap
    <3>2. /\ pc' \in [Procs -> Steps] /\ path' \in [Procs -> {"first", "stale"}]
          /\ rename' \in [Procs -> SUBSET {"dict", "scores"}]
      <4>1. CASE FlagSeen(p)
        BY <4>1 DEF TypeOK, FlagSeen, Steps
      <4>2. CASE FlagNotSeen(p)
        BY <4>2 DEF TypeOK, FlagNotSeen, Steps
      <4> QED
        BY <2>2, <4>1, <4>2, CheckFlagWays
    <3> QED
      BY <2>2, <3>1, <3>2 DEF TypeOK, CheckFlag, tables, files, v1, history
  <2>3. ASSUME NEW p \in Procs, Sample(p) PROVE TypeOK'
    BY <2>3 DEF TypeOK, Sample, Goto, Steps, tables, files, v1, history
  <2>4. ASSUME NEW p \in Procs, ReadDict(p) PROVE TypeOK'
    BY <2>4 DEF TypeOK, ReadDict, Goto, Steps, tables, files, v1, history
  <2>5. ASSUME NEW p \in Procs, ReadScores(p) PROVE TypeOK'
    BY <2>5, NoCountsType DEF TypeOK, ReadScores, Goto, Steps, tables, files, v1, history
  <2>6. ASSUME NEW p \in Procs, Commit(p) PROVE TypeOK'
    <3>1. scores' \in [Words -> 0..MaxCount]
      BY <2>6, MergedType DEF Commit
    <3> QED
      BY <2>6, <3>1 DEF TypeOK, Commit, Goto, Steps, files, local, v1, history
  <2>7. ASSUME NEW p \in Procs, RenameDict(p) PROVE TypeOK'
    BY <2>7 DEF TypeOK, RenameDict, Goto, Mishap, Steps, tables, local, v1, history
  <2>8. ASSUME NEW p \in Procs, RenameScores(p) PROVE TypeOK'
    BY <2>8, NoCountsType
    DEF TypeOK, RenameScores, Goto, Mishap, Steps, tables, local, v1, history
  <2>9. ASSUME NEW p \in Procs, GiveUp(p) PROVE TypeOK'
    BY <2>9 DEF TypeOK, GiveUp, Mishap, Steps, tables, files, local, v1, history
  <2>10. ASSUME NEW p \in Procs, Die(p) PROVE TypeOK'
    BY <2>10, NoCountsType DEF TypeOK, Die, Steps, tables, files, v1, history
  <2>11. ASSUME NEW p \in Procs, NEW w \in Words, DeleteWord(p, w) PROVE TypeOK'
    BY <2>11 DEF TypeOK, DeleteWord, files, local, v1
  <2>12. ASSUME NEW p \in Procs, NEW w \in Words, RecordWord(p, w) PROVE TypeOK'
    BY <2>12 DEF TypeOK, RecordWord, files, local, v1
  <2>13. ASSUME NEW w \in Words, V1Register(w) PROVE TypeOK'
    BY <2>13 DEF TypeOK, V1Register, tables, local, history
  <2>14. ASSUME NEW w \in Words, V1Record(w) PROVE TypeOK'
    BY <2>14 DEF TypeOK, V1Record, tables, local, history
  <2>15. CASE UNCHANGED vars
    BY <2>15 DEF TypeOK, vars, tables, files, local, v1, history
  <2> QED
    BY <2>1, <2>2, <2>3, <2>4, <2>5, <2>6, <2>7, <2>8, <2>9, <2>10, <2>11, <2>12,
       <2>13, <2>14, <2>15 DEF Next
<1> QED
  BY <1>1, <1>2, PTL DEF Spec

-----------------------------------------------------------------------------
(* No copy of a count is above the one version 1 has in memory.            *)
CopiesBelow ==
  \A w \in Words :
    /\ scoresFile[w] <= v1Counts[w]
    /\ \A p \in Procs : readCounts[p][w] <= v1Counts[w]

CountInv == TypeOK /\ CopiesBelow /\ NotCountedTwice

LEMMA CommitCounts ==
  ASSUME CountInv, NEW p \in Procs, Commit(p)
  PROVE  CopiesBelow' /\ NotCountedTwice'
<1>1. CopiesBelow'
  BY DEF CountInv, TypeOK, CopiesBelow, Commit, files, local, v1
<1>2. ASSUME NEW w \in Words PROVE scores'[w] <= v1Counts'[w] + recorded'[w]
  <2>1. scores'[w] = Merged(p, w) /\ v1Counts' = v1Counts /\ recorded' = recorded
    BY DEF Commit, v1, history
  <2>2. /\ readCounts[p][w] <= v1Counts[w]
        /\ scores[w] <= v1Counts[w] + recorded[w]
        /\ readCounts[p][w] \in Nat /\ scores[w] \in Nat
        /\ v1Counts[w] \in Nat /\ recorded[w] \in Nat
    BY DEF CountInv, TypeOK, CopiesBelow, NotCountedTwice
  <2> QED
    BY <2>1, <2>2 DEF Merged, Higher
<1> QED
  BY <1>1, <1>2 DEF NotCountedTwice

(* No count ever exceeds what version 1 counted plus what was recorded     *)
(* since the upgrade, however often the files are imported again.          *)
THEOREM NotCountedTwiceHolds == Spec => []NotCountedTwice
<1>1. Init => CountInv
  <2> SUFFICES ASSUME Init PROVE CountInv
    OBVIOUS
  <2>1. TypeOK
    BY InitType
  <2>2. \A w \in Words : LegacyCounts[w] \in Nat /\ NoCounts[w] = 0
    BY DEF NoCounts
  <2> QED
    BY <2>1, <2>2 DEF Init, CountInv, CopiesBelow, NotCountedTwice
<1>2. CountInv /\ TypeOK' /\ [Next]_vars => CountInv'
  <2> SUFFICES ASSUME CountInv, TypeOK', [Next]_vars
               PROVE  CopiesBelow' /\ NotCountedTwice'
    BY DEF CountInv
  <2> USE DEF CountInv, CopiesBelow, NotCountedTwice
  <2>1. ASSUME NEW p \in Procs,
               Open(p) \/ CheckFlag(p) \/ Sample(p) \/ ReadDict(p) \/ RenameDict(p) \/ GiveUp(p)
        PROVE  CopiesBelow' /\ NotCountedTwice'
    BY <2>1 DEF Open, CheckFlag, Sample, ReadDict, RenameDict, GiveUp,
                tables, files, local, v1, history
  <2>2. ASSUME NEW p \in Procs, ReadScores(p) PROVE CopiesBelow' /\ NotCountedTwice'
    BY <2>2, NoCountsType DEF TypeOK, ReadScores, NoCounts, tables, files, v1, history
  <2>3. ASSUME NEW p \in Procs, Commit(p) PROVE CopiesBelow' /\ NotCountedTwice'
    BY <2>3, CommitCounts
  <2>4. ASSUME NEW p \in Procs, RenameScores(p) PROVE CopiesBelow' /\ NotCountedTwice'
    BY <2>4 DEF TypeOK, RenameScores, NoCounts, tables, local, v1, history
  <2>5. ASSUME NEW p \in Procs, Die(p) PROVE CopiesBelow' /\ NotCountedTwice'
    BY <2>5 DEF TypeOK, Die, NoCounts, tables, files, v1, history
  <2>6. ASSUME NEW p \in Procs, NEW w \in Words, DeleteWord(p, w)
        PROVE  CopiesBelow' /\ NotCountedTwice'
    BY <2>6 DEF DeleteWord, files, local, v1
  <2>7. ASSUME NEW p \in Procs, NEW w \in Words, RecordWord(p, w)
        PROVE  CopiesBelow' /\ NotCountedTwice'
    BY <2>7 DEF TypeOK, RecordWord, files, local, v1
  <2>8. ASSUME NEW w \in Words, V1Register(w) PROVE CopiesBelow' /\ NotCountedTwice'
    BY <2>8 DEF V1Register, tables, local, history
  <2>9. ASSUME NEW w \in Words, V1Record(w) PROVE CopiesBelow' /\ NotCountedTwice'
    BY <2>9 DEF TypeOK, V1Record, tables, local, history
  <2>10. CASE UNCHANGED vars
    BY <2>10 DEF vars, tables, files, local, v1, history
  <2> QED
    BY <2>1, <2>2, <2>3, <2>4, <2>5, <2>6, <2>7, <2>8, <2>9, <2>10 DEF Next
<1>3. CountInv => NotCountedTwice
  BY DEF CountInv
<1> QED
  BY <1>1, <1>2, <1>3, MigrationTypeCorrect, PTL DEF Spec

-----------------------------------------------------------------------------
(* Version 1 writes whole files, and none while somebody imports: a file   *)
(* is what version 1 has in memory, or gone; who is about to commit has    *)
(* read all of it; who is about to rename it has it in the tables.         *)

WholeFiles ==
  /\ dictFile = {} \/ dictFile = v1Words
  /\ scoresFile = NoCounts \/ scoresFile = v1Counts

WordsRead ==
  \A p \in Procs :
    (pc[p] \in {"readScores", "commit"} /\ "dict" \in rename[p] /\ dictFile # {})
      => readWords[p] = v1Words

CountsRead ==
  \A p \in Procs : pc[p] = "commit" =>
    /\ readCounts[p] = NoCounts \/ readCounts[p] = v1Counts
    /\ ("scores" \in rename[p] /\ scoresFile # NoCounts) => readCounts[p] = v1Counts

AllWords == v1Words \ deleted \subseteq entries
AllCounts == \A w \in Words : scores[w] >= v1Counts[w]

Imported ==
  \A p \in Procs :
    /\ (pc[p] = "renameDict" /\ "dict" \in rename[p] /\ dictFile # {}) => AllWords
    /\ (pc[p] \in {"renameDict", "renameScores"} /\ "scores" \in rename[p]
          /\ scoresFile # NoCounts) => AllCounts

Kept ==
  /\ dictFile = v1Words \/ AllWords
  /\ scoresFile = v1Counts \/ AllCounts

KeptInv ==
  TypeOK /\ WholeFiles /\ WordsRead /\ CountsRead /\ Imported /\ Kept

LEMMA CommitKeepsCounts ==
  ASSUME KeptInv, NEW p \in Procs, Commit(p), AllCounts
  PROVE  AllCounts'
<1> SUFFICES ASSUME NEW w \in Words PROVE scores'[w] >= v1Counts[w]
  BY DEF AllCounts, Commit, v1
<1>1. scores'[w] = Merged(p, w)
  BY DEF Commit
<1>2. scores[w] >= v1Counts[w] /\ scores[w] \in Nat /\ v1Counts[w] \in Nat
  BY DEF AllCounts, KeptInv, TypeOK
<1>3. readCounts[p] = NoCounts \/ readCounts[p] = v1Counts
  BY DEF KeptInv, CountsRead, Commit, Goto
<1>4. CASE readCounts[p] = NoCounts
  BY <1>1, <1>2, <1>4 DEF Merged, NoCounts
<1>5. CASE readCounts[p] = v1Counts
  BY <1>1, <1>2, <1>5 DEF Merged, Higher
<1> QED
  BY <1>3, <1>4, <1>5

LEMMA CommitImports ==
  ASSUME KeptInv, NEW p \in Procs, Commit(p), readCounts[p] = v1Counts
  PROVE  AllCounts'
<1> SUFFICES ASSUME NEW w \in Words PROVE scores'[w] >= v1Counts[w]
  BY DEF AllCounts, Commit, v1
<1>1. scores'[w] = Merged(p, w)
  BY DEF Commit
<1>2. scores[w] \in Nat /\ v1Counts[w] \in Nat
  BY DEF KeptInv, TypeOK
<1> QED
  BY <1>1, <1>2 DEF Merged, Higher

LEMMA CommitKeeps ==
  ASSUME KeptInv, NEW p \in Procs, Commit(p)
  PROVE  WholeFiles' /\ WordsRead' /\ CountsRead' /\ Imported' /\ Kept'
<1> USE DEF KeptInv
<1>1. /\ UNCHANGED <<dictFile, scoresFile, v1Words, v1Counts, rename, readWords, readCounts, deleted>>
      /\ pc[p] = "commit" /\ pc' = [pc EXCEPT ![p] = "renameDict"]
      /\ entries' = entries \cup readWords[p]
  BY DEF Commit, Goto, files, local, v1, history
<1>2. WholeFiles' /\ WordsRead' /\ CountsRead'
  BY <1>1 DEF TypeOK, WholeFiles, WordsRead, CountsRead, NoCounts
<1>3. AllWords => AllWords'
  BY <1>1 DEF AllWords
<1>4. ("dict" \in rename[p] /\ dictFile # {}) => AllWords'
  BY <1>1 DEF WordsRead, AllWords
<1>5. AllCounts => AllCounts'
  BY CommitKeepsCounts
<1>6. ("scores" \in rename[p] /\ scoresFile # NoCounts) => AllCounts'
  BY <1>1, CommitImports DEF CountsRead
<1>7. Imported'
  BY <1>1, <1>3, <1>4, <1>5, <1>6 DEF Imported, TypeOK, NoCounts
<1>8. Kept'
  BY <1>1, <1>3, <1>5 DEF Kept
<1> QED
  BY <1>2, <1>7, <1>8

LEMMA NobodyImports ==
  ASSUME KeptInv, ~V1Overlaps, V1Quiet, NEW p \in Procs
  PROVE  pc[p] \in {"down", "up"}
BY DEF V1Quiet, Importing

(* While version 1 does not write during an import, no word and no count   *)
(* of its files is ever lost: it is in the table, or in the file that the  *)
(* next start imports, whoever dies where and whatever is refused.         *)
THEOREM LegacyKeptHolds ==
  ASSUME ~V1Overlaps
  PROVE  Spec => []LegacyKept
<1>1. Init => KeptInv
  <2> SUFFICES ASSUME Init PROVE KeptInv
    OBVIOUS
  <2>1. TypeOK
    BY InitType
  <2>2. WholeFiles /\ Kept
    BY DEF Init, WholeFiles, Kept
  <2>3. WordsRead /\ CountsRead /\ Imported
    BY DEF Init, WordsRead, CountsRead, Imported
  <2> QED
    BY <2>1, <2>2, <2>3 DEF KeptInv
<1>2. KeptInv /\ TypeOK' /\ [Next]_vars => KeptInv'
  <2> DEFINE Goal == WholeFiles' /\ WordsRead' /\ CountsRead' /\ Imported' /\ Kept'
  <2> SUFFICES ASSUME KeptInv, TypeOK', [Next]_vars PROVE Goal
    BY DEF KeptInv
  <2> USE DEF KeptInv, TypeOK, WholeFiles, WordsRead, CountsRead, Imported, Kept, AllWords, AllCounts
  <2>1. ASSUME NEW p \in Procs, Open(p) PROVE Goal
    BY <2>1 DEF Open, Goto, NoCounts, tables, files, local, v1, history
  <2>2. ASSUME NEW p \in Procs, CheckFlag(p) PROVE Goal
    <3>1. UNCHANGED <<tables, files, readWords, readCounts, v1, history>>
      BY <2>2 DEF CheckFlag
    <3>2. CASE FlagSeen(p)
      BY <3>1, <3>2 DEF FlagSeen, NoCounts, tables, files, v1, history
    <3>3. CASE FlagNotSeen(p)
      BY <3>1, <3>3 DEF FlagNotSeen, NoCounts, tables, files, v1, history
    <3> QED
      BY <2>2, <3>2, <3>3, CheckFlagWays
  <2>3. ASSUME NEW p \in Procs, Sample(p) PROVE Goal
    BY <2>3 DEF Sample, Goto, NoCounts, tables, files, v1, history
  <2>4. ASSUME NEW p \in Procs, ReadDict(p) PROVE Goal
    BY <2>4 DEF ReadDict, Goto, NoCounts, tables, files, v1, history
  <2>5. ASSUME NEW p \in Procs, ReadScores(p) PROVE Goal
    BY <2>5 DEF ReadScores, Goto, NoCounts, tables, files, v1, history
  <2>6. ASSUME NEW p \in Procs, Commit(p) PROVE Goal
    BY <2>6, CommitKeeps
  <2>7. ASSUME NEW p \in Procs, RenameDict(p) PROVE Goal
    BY <2>7 DEF RenameDict, Goto, NoCounts, tables, local, v1, history
  <2>8. ASSUME NEW p \in Procs, RenameScores(p) PROVE Goal
    BY <2>8 DEF RenameScores, Goto, NoCounts, tables, local, v1, history
  <2>9. ASSUME NEW p \in Procs, GiveUp(p) PROVE Goal
    BY <2>9 DEF GiveUp, NoCounts, tables, files, local, v1, history
  <2>10. ASSUME NEW p \in Procs, Die(p) PROVE Goal
    BY <2>10 DEF Die, NoCounts, tables, files, v1, history
  <2>11. ASSUME NEW p \in Procs, NEW w \in Words, DeleteWord(p, w) PROVE Goal
    BY <2>11 DEF DeleteWord, NoCounts, files, local, v1
  <2>12. ASSUME NEW p \in Procs, NEW w \in Words, RecordWord(p, w) PROVE Goal
    <3>1. /\ scores' = [scores EXCEPT ![w] = @ + 1]
          /\ UNCHANGED <<entries, files, pc, local, v1, deleted>>
      BY <2>12 DEF RecordWord
    <3>2. AllCounts => AllCounts'
      BY <3>1 DEF v1
    <3>3. AllWords => AllWords'
      BY <3>1 DEF v1
    <3>4. UNCHANGED <<dictFile, scoresFile, pc, rename, readWords, readCounts, v1Words, v1Counts>>
      BY <3>1 DEF files, local, v1
    <3>5. WholeFiles' /\ WordsRead' /\ CountsRead'
      BY <3>4
    <3> HIDE DEF AllCounts, AllWords
    <3>6. Imported' /\ Kept'
      BY <3>2, <3>3, <3>4
    <3> QED
      BY <3>5, <3>6
  <2>13. ASSUME NEW w \in Words, V1Register(w) PROVE Goal
    <3>1. \A p \in Procs : pc[p] \in {"down", "up"}
      BY <2>13, NobodyImports DEF V1Register
    <3> QED
      BY <2>13, <3>1 DEF V1Register, NoCounts, tables, local, history
  <2>14. ASSUME NEW w \in Words, V1Record(w) PROVE Goal
    <3>1. \A p \in Procs : pc[p] \in {"down", "up"}
      BY <2>14, NobodyImports DEF V1Record
    <3> QED
      BY <2>14, <3>1 DEF V1Record, NoCounts, tables, local, history
  <2>15. CASE UNCHANGED vars
    BY <2>15 DEF NoCounts, vars, tables, files, local, v1, history
  <2> QED
    BY <2>1, <2>2, <2>3, <2>4, <2>5, <2>6, <2>7, <2>8, <2>9, <2>10, <2>11, <2>12,
       <2>13, <2>14, <2>15 DEF Next
<1>3. KeptInv => LegacyKept
  <2> SUFFICES ASSUME KeptInv PROVE LegacyKept
    OBVIOUS
  <2>1. \A w \in v1Words \ deleted : w \in entries \cup dictFile
    BY DEF KeptInv, Kept, AllWords
  <2>2. \A w \in Words : Higher(scores[w], scoresFile[w]) >= v1Counts[w]
    BY DEF KeptInv, TypeOK, Kept, AllCounts, Higher
  <2> QED
    BY <2>1, <2>2 DEF LegacyKept
<1> QED
  BY <1>1, <1>2, <1>3, MigrationTypeCorrect, PTL DEF Spec
=============================================================================
