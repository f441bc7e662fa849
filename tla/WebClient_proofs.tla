-------------------------- MODULE WebClient_proofs --------------------------
(* Theorems about WebClient, for any tabs, tasks, to-dos, configs and bounds,  *)
(* and whatever fails.                                                        *)
EXTENDS WebClient, FiniteSetTheorems, TLAPS

-----------------------------------------------------------------------------
(* Lists in an order.                                                        *)

LEMMA FunctionsAreLists ==
    ASSUME NEW S, NEW n \in Nat, NEW f \in [1..n -> S]
    PROVE  f \in Seq(S) /\ Len(f) = n
<1>1. f \in Seq(S)
  OBVIOUS
<1>2. DOMAIN f = 1..n /\ DOMAIN f = 1..Len(f) /\ Len(f) \in Nat
  BY <1>1
<1>3. Len(f) = n
  <2>1. CASE n < Len(f)
    BY <1>2, <2>1
  <2>2. CASE Len(f) < n
    BY <1>2, <2>2
  <2> QED
    BY <1>2, <2>1, <2>2
<1> QED
  BY <1>1, <1>3

Rank(x, S, order) == Cardinality({y \in S : Before(y, x, order)})

\* Which of two rows comes first is always decided, and in one way.
LEMMA BeforeIsTotal ==
    ASSUME NEW x \in Int, NEW y \in Int, NEW z \in Int, NEW order,
           order[x] \in Int, order[y] \in Int, order[z] \in Int
    PROVE  /\ ~Before(x, x, order)
           /\ Before(x, y, order) /\ Before(y, z, order) => Before(x, z, order)
           /\ x # y => Before(x, y, order) \/ Before(y, x, order)
           /\ ~(Before(x, y, order) /\ Before(y, x, order))
BY DEF Before

\* What comes before another has fewer before it, and none has all.
LEMMA RanksGrow ==
    ASSUME NEW S \in SUBSET Int, IsFiniteSet(S), NEW order, \A x \in S : order[x] \in Int
    PROVE  /\ \A x \in S : Rank(x, S, order) \in 0..Cardinality(S) - 1
           /\ \A x, y \in S : Before(x, y, order) => Rank(x, S, order) < Rank(y, S, order)
<1> DEFINE Lower(x) == {y \in S : Before(y, x, order)}
<1>1. \A x \in S : Rank(x, S, order) = Cardinality(Lower(x)) /\ Lower(x) \in SUBSET S
  BY DEF Rank
<1>2. \A x \in S : x \notin Lower(x)
  BY BeforeIsTotal
<1>3. \A x, y \in S : Before(x, y, order) => Lower(x) \subseteq Lower(y) /\ x \in Lower(y)
  BY BeforeIsTotal
<1>4. \A T \in SUBSET S : IsFiniteSet(T) /\ Cardinality(T) \in Nat
  BY FS_Subset, FS_CardinalityType
<1> HIDE DEF Lower
<1>5. ASSUME NEW x \in S PROVE Rank(x, S, order) \in 0..Cardinality(S) - 1
  <2>1. Lower(x) \in SUBSET S /\ Lower(x) # S
    BY <1>1, <1>2
  <2>2. Cardinality(Lower(x)) <= Cardinality(S) /\ Cardinality(Lower(x)) # Cardinality(S)
    BY <2>1, FS_Subset
  <2> QED
    BY <1>1, <1>4, <2>1, <2>2
<1>6. ASSUME NEW x \in S, NEW y \in S, Before(x, y, order)
      PROVE  Rank(x, S, order) < Rank(y, S, order)
  <2>1. Lower(x) \in SUBSET Lower(y) /\ Lower(x) # Lower(y)
    BY <1>2, <1>3, <1>6
  <2>2. IsFiniteSet(Lower(y))
    BY <1>1, <1>4
  <2>3. Cardinality(Lower(x)) <= Cardinality(Lower(y)) /\ Cardinality(Lower(x)) # Cardinality(Lower(y))
    BY <2>1, <2>2, FS_Subset
  <2> QED
    BY <1>1, <1>4, <2>3
<1> QED
  BY <1>5, <1>6

\* As many ranks as rows: each rank is that of a row.
LEMMA RanksAreTaken ==
    ASSUME NEW S \in SUBSET Int, IsFiniteSet(S), NEW order, \A x \in S : order[x] \in Int
    PROVE  /\ Cardinality(S) \in Nat
           /\ \A x, y \in S : Rank(x, S, order) = Rank(y, S, order) => x = y
           /\ \A n \in 1..Cardinality(S) : \E x \in S : Rank(x, S, order) = n - 1
<1>1. Cardinality(S) \in Nat
  BY FS_CardinalityType
<1>2. \A x, y \in S : Rank(x, S, order) = Rank(y, S, order) => x = y
  <2> SUFFICES ASSUME NEW x \in S, NEW y \in S, Rank(x, S, order) = Rank(y, S, order), x # y
               PROVE  FALSE
    OBVIOUS
  <2>1. Before(x, y, order) \/ Before(y, x, order)
    BY BeforeIsTotal
  <2>2. Rank(x, S, order) \in Int /\ Rank(y, S, order) \in Int
    BY <1>1, RanksGrow
  <2> QED
    BY <2>1, <2>2, RanksGrow
<1> DEFINE T == 1..Cardinality(S)
           f == [x \in S |-> Rank(x, S, order) + 1]
<1>3. IsFiniteSet(T) /\ Cardinality(T) = Cardinality(S)
  BY <1>1, FS_Interval
<1>4. f \in [S -> T]
  BY <1>1, RanksGrow
<1>5. f \in Injection(S, T)
  <2>1. \A x, y \in S : f[x] = f[y] => x = y
    BY <1>1, <1>2, RanksGrow
  <2> HIDE DEF f, T
  <2> QED
    BY <1>4, <2>1 DEF Injection, IsInjective
<1>6. f \in Surjection(S, T)
  <2> HIDE DEF f, T
  <2> QED
    BY <1>3, <1>5, FS_Injection
<1>7. \A n \in T : \E x \in S : f[x] = n
  <2> HIDE DEF f, T
  <2> QED
    BY <1>6 DEF Surjection
<1>8. ASSUME NEW n \in T PROVE \E x \in S : Rank(x, S, order) = n - 1
  <2>1. PICK x \in S : f[x] = n
    BY <1>7
  <2>2. Rank(x, S, order) + 1 = n /\ Rank(x, S, order) \in Int
    BY <1>1, <2>1, RanksGrow
  <2> QED
    BY <2>2
<1> QED
  BY <1>1, <1>2, <1>8

\* The list holds each row once, and those that come before in front.
LEMMA ListIsSorted ==
    ASSUME NEW S \in SUBSET Int, IsFiniteSet(S), NEW order, \A x \in S : order[x] \in Int,
           NEW list, list = InOrder(S, order)
    PROVE  /\ list \in Seq(S) /\ Len(list) = Cardinality(S) /\ Len(list) \in Nat
           /\ ToSet(list) = S
           /\ \A i, j \in DOMAIN list : i < j => Before(list[i], list[j], order)
           /\ \A i, j \in DOMAIN list : i # j => list[i] # list[j]
<1> DEFINE N == Cardinality(S)
<1>1. N \in Nat /\ list = [n \in 1..N |-> CHOOSE x \in S : Rank(x, S, order) = n - 1]
  BY RanksAreTaken, Zenon DEF InOrder, Rank
<1>2. \A n \in 1..N : list[n] \in S /\ Rank(list[n], S, order) = n - 1
  <2> SUFFICES ASSUME NEW n \in 1..N PROVE list[n] \in S /\ Rank(list[n], S, order) = n - 1
    OBVIOUS
  <2>1. \E x \in S : Rank(x, S, order) = n - 1
    BY RanksAreTaken
  <2>2. list[n] = CHOOSE x \in S : Rank(x, S, order) = n - 1
    BY <1>1
  <2> QED
    BY <2>1, <2>2, Zenon
<1>3. list \in [1..N -> S] /\ DOMAIN list = 1..N
  BY <1>1, <1>2
<1>4. list \in Seq(S) /\ Len(list) = N
  BY <1>1, <1>3, FunctionsAreLists
<1>5. ToSet(list) = S
  <2>1. ToSet(list) \subseteq S
    BY <1>3 DEF ToSet
  <2>2. ASSUME NEW x \in S PROVE x \in ToSet(list)
    <3>1. Rank(x, S, order) \in 0..N - 1
      BY RanksGrow
    <3>2. PICK n \in 1..N : n = Rank(x, S, order) + 1
      BY <1>1, <3>1
    <3>3. list[n] \in S /\ Rank(list[n], S, order) = Rank(x, S, order)
      BY <1>2, <3>1, <3>2
    <3>4. list[n] = x
      BY <3>3, RanksAreTaken
    <3> QED
      BY <1>3, <3>4 DEF ToSet
  <2> QED
    BY <2>1, <2>2
<1>6. ASSUME NEW i \in 1..N, NEW j \in 1..N, i < j PROVE Before(list[i], list[j], order)
  <2>1. list[i] \in S /\ list[j] \in S
    BY <1>2
  <2>2. Rank(list[i], S, order) = i - 1 /\ Rank(list[j], S, order) = j - 1
    BY <1>2
  <2>3. list[i] # list[j]
    BY <1>6, <2>2
  <2>4. ~Before(list[j], list[i], order)
    <3>1. Before(list[j], list[i], order) => j - 1 < i - 1
      BY <2>1, <2>2, RanksGrow
    <3> QED
      BY <1>6, <3>1
  <2> QED
    BY <2>1, <2>3, <2>4, BeforeIsTotal
<1>7. ASSUME NEW i \in 1..N, NEW j \in 1..N, i # j PROVE list[i] # list[j]
  BY <1>2, <1>7
<1> QED
  BY <1>1, <1>3, <1>4, <1>5, <1>6, <1>7

-----------------------------------------------------------------------------
(* Sequences.                                                                *)

IsList(s) == s \in Seq(ToSet(s))

LEMMA ListsAreLists ==
    ASSUME NEW S, NEW s \in Seq(S)
    PROVE  /\ IsList(s) /\ ToSet(s) \subseteq S /\ IsFiniteSet(ToSet(s))
           /\ Len(s) \in Nat /\ DOMAIN s = 1..Len(s)
<1>1. Len(s) \in Nat /\ DOMAIN s = 1..Len(s) /\ s \in [1..Len(s) -> S]
  OBVIOUS
<1>2. ToSet(s) \subseteq S /\ s \in [1..Len(s) -> ToSet(s)]
  BY <1>1 DEF ToSet
<1>3. IsList(s)
  BY <1>1, <1>2, FunctionsAreLists DEF IsList
<1>4. s \in Surjection(1..Len(s), ToSet(s))
  BY <1>1, <1>2 DEF Surjection, ToSet
<1>5. IsFiniteSet(1..Len(s))
  BY <1>1, FS_Interval
<1>6. IsFiniteSet(ToSet(s))
  BY <1>4, <1>5, FS_Surjection
<1> QED
  BY <1>1, <1>2, <1>3, <1>6

LEMMA ListsGrow ==
    ASSUME NEW S, NEW T, S \subseteq T, NEW s \in Seq(S)
    PROVE  s \in Seq(T)
OBVIOUS

LEMMA MembersAreInSet ==
    ASSUME NEW s, NEW i \in DOMAIN s
    PROVE  s[i] \in ToSet(s)
BY DEF ToSet

LEMMA OneMore ==
    ASSUME NEW s, IsList(s), NEW e
    PROVE  IsList(Append(s, e)) /\ \A x \in ToSet(Append(s, e)) : x \in ToSet(s) \/ x = e
<1>1. Append(s, e) \in Seq(ToSet(s) \cup {e})
  <2> DEFINE S == ToSet(s) \cup {e}
  <2>1. s \in Seq(S) /\ e \in S
    BY DEF IsList
  <2> HIDE DEF S
  <2>2. Append(s, e) \in Seq(S)
    BY <2>1
  <2> QED
    BY <2>2 DEF S
<1> DEFINE t == Append(s, e)
<1> HIDE DEF t
<1>2. IsList(t) /\ ToSet(t) \subseteq ToSet(s) \cup {e}
  BY <1>1, ListsAreLists DEF t
<1> QED
  BY <1>2 DEF t

LEMMA Joined ==
    ASSUME NEW S, NEW s \in Seq(S), NEW t \in Seq(S), NEW k \in 1..Len(s) + Len(t), k > Len(s)
    PROVE  (s \o t)[k] = t[k - Len(s)]
OBVIOUS

\* RemoveAt and InsertAt, element by element.
LEMMA OneLess ==
    ASSUME NEW S, NEW s \in Seq(S), NEW i \in DOMAIN s, NEW r, r = RemoveAt(s, i)
    PROVE  /\ r \in Seq(S) /\ Len(r) = Len(s) - 1
           /\ \A k \in 1..Len(s) - 1 : r[k] = IF k < i THEN s[k] ELSE s[k + 1]
<1>1. Len(s) \in Nat /\ i \in 1..Len(s)
  OBVIOUS
<1> DEFINE a == SubSeq(s, 1, i - 1)
           b == SubSeq(s, i + 1, Len(s))
<1>2. /\ a \in Seq(S) /\ Len(a) = i - 1
      /\ \A k \in 1..i - 1 : a[k] = s[k]
  BY <1>1
<1>3. /\ b \in Seq(S) /\ Len(b) = Len(s) - i
      /\ \A k \in 1..Len(s) - i : b[k] = s[k + i]
  BY <1>1
<1>4. r = a \o b
  BY DEF RemoveAt
<1> HIDE DEF a, b
<1>5. r \in Seq(S) /\ Len(r) = Len(s) - 1
  BY <1>1, <1>2, <1>3, <1>4
<1>6. ASSUME NEW k \in 1..Len(s) - 1 PROVE r[k] = IF k < i THEN s[k] ELSE s[k + 1]
  <2>1. CASE k < i
    BY <1>1, <1>2, <1>3, <1>4, <2>1
  <2>2. CASE k >= i
    <3>1. r[k] = b[k - (i - 1)]
      <4>1. k \in 1..Len(a) + Len(b) /\ k > Len(a)
        BY <1>1, <1>2, <1>3, <2>2
      <4>2. r[k] = b[k - Len(a)]
        BY <1>2, <1>3, <1>4, <4>1, Joined, SMTT(30)
      <4> QED
        BY <1>2, <4>2
    <3>2. k - (i - 1) \in 1..Len(s) - i
      BY <1>1, <2>2
    <3>3. b[k - (i - 1)] = s[(k - (i - 1)) + i]
      BY <1>3, <3>2
    <3>4. (k - (i - 1)) + i = k + 1
      BY <1>1
    <3> QED
      BY <1>1, <2>2, <3>1, <3>3, <3>4
  <2> QED
    BY <1>1, <2>1, <2>2
<1> QED
  BY <1>5, <1>6

LEMMA OneGone ==
    ASSUME NEW s, IsList(s), NEW i \in DOMAIN s
    PROVE  IsList(RemoveAt(s, i)) /\ ToSet(RemoveAt(s, i)) \subseteq ToSet(s)
<1>1. RemoveAt(s, i) \in Seq(ToSet(s))
  BY OneLess DEF IsList
<1> QED
  BY <1>1, ListsAreLists

LEMMA OneInserted ==
    ASSUME NEW S, NEW r \in Seq(S), NEW e \in S, NEW j \in 1..Len(r) + 1,
           NEW t, t = InsertAt(r, j, e)
    PROVE  /\ t \in Seq(S) /\ Len(t) = Len(r) + 1
           /\ \A k \in 1..Len(r) : k < j => t[k] = r[k]
           /\ t[j] = e
           /\ \A k \in j..Len(r) : t[k + 1] = r[k]
<1>1. Len(r) \in Nat
  OBVIOUS
<1> DEFINE a == SubSeq(r, 1, j - 1)
           b == SubSeq(r, j, Len(r))
           c == a \o <<e>>
<1>2. /\ a \in Seq(S) /\ Len(a) = j - 1
      /\ \A k \in 1..j - 1 : a[k] = r[k]
  BY <1>1
<1>3. /\ b \in Seq(S) /\ Len(b) = Len(r) - j + 1
      /\ \A k \in 1..Len(r) - j + 1 : b[k] = r[k + (j - 1)]
  BY <1>1
<1>4. t = c \o b
  BY DEF InsertAt
<1> HIDE DEF a, b
<1>5. /\ c \in Seq(S) /\ Len(c) = j
      /\ \A k \in 1..j : c[k] = IF k < j THEN r[k] ELSE e
  BY <1>1, <1>2
<1> HIDE DEF c
<1>6. t \in Seq(S) /\ Len(t) = Len(r) + 1
  <2>1. c \in Seq(S) /\ b \in Seq(S)
    BY <1>3, <1>5
  <2>2. c \o b \in Seq(S) /\ Len(c \o b) = Len(c) + Len(b)
    BY <2>1
  <2>3. Len(c) + Len(b) = Len(r) + 1
    BY <1>1, <1>3, <1>5
  <2> QED
    BY <1>4, <2>2, <2>3
<1>7. ASSUME NEW k \in 1..Len(r) + 1
      PROVE  t[k] = IF k < j THEN r[k] ELSE IF k = j THEN e ELSE r[k - 1]
  <2>1. CASE k <= j
    <3>1. t[k] = c[k]
      BY <1>1, <1>3, <1>4, <1>5, <2>1
    <3> QED
      BY <1>5, <2>1, <3>1
  <2>2. CASE k > j
    <3>1. t[k] = b[k - j]
      BY <1>1, <1>3, <1>4, <1>5, <2>2
    <3>2. k - j \in 1..Len(r) - j + 1
      BY <1>1, <2>2
    <3>3. b[k - j] = r[(k - j) + (j - 1)]
      BY <1>3, <3>2
    <3>4. (k - j) + (j - 1) = k - 1
      BY <1>1
    <3> QED
      BY <1>1, <2>2, <3>1, <3>3, <3>4
  <2> QED
    BY <1>1, <2>1, <2>2
<1> QED
  BY <1>6, <1>7

\* Dragging an element elsewhere keeps the elements, and each as often.
Source(i, j, k) ==
    IF k = j THEN i
    ELSE LET m == IF k < j THEN k ELSE k - 1 IN IF m < i THEN m ELSE m + 1

LEMMA MovedIsPermuted ==
    ASSUME NEW S, NEW list \in Seq(S), NEW order \in Moved(list)
    PROVE  /\ order \in Seq(S) /\ Len(order) = Len(list)
           /\ ToSet(order) = ToSet(list)
           /\ (\A m, n \in DOMAIN list : m # n => list[m] # list[n])
                => \A m, n \in DOMAIN order : m # n => order[m] # order[n]
<1>1. PICK i \in DOMAIN list, j \in DOMAIN list : order = InsertAt(RemoveAt(list, i), j, list[i])
  BY DEF Moved
<1> DEFINE L == Len(list)
<1>2. L \in Nat /\ DOMAIN list = 1..L /\ i \in 1..L /\ j \in 1..L /\ list[i] \in S
  OBVIOUS
<1>3. PICK r : r = RemoveAt(list, i)
  OBVIOUS
<1>31. /\ r \in Seq(S) /\ Len(r) = L - 1
      /\ \A k \in 1..L - 1 : r[k] = IF k < i THEN list[k] ELSE list[k + 1]
  BY <1>3, OneLess, SMTT(30)
<1> HIDE DEF L
<1>4. j \in 1..Len(r) + 1
  BY <1>2, <1>31
<1>5. PICK e : e = list[i] /\ e \in S /\ order = InsertAt(r, j, e)
  BY <1>1, <1>2, <1>3
<1>6. /\ order \in Seq(S) /\ Len(order) = Len(r) + 1
      /\ \A k \in 1..Len(r) : k < j => order[k] = r[k]
      /\ order[j] = e
      /\ \A k \in j..Len(r) : order[k + 1] = r[k]
  <2>1. r \in Seq(S) /\ e \in S /\ j \in 1..Len(r) + 1 /\ order = InsertAt(r, j, e)
    BY <1>31, <1>4, <1>5
  <2>2. order \in Seq(S)
    BY ONLY <2>1, OneInserted
  <2>3. Len(order) = Len(r) + 1
    BY ONLY <2>1, OneInserted
  <2>4. \A k \in 1..Len(r) : k < j => order[k] = r[k]
    BY ONLY <2>1, OneInserted, SMTT(30)
  <2>5. order[j] = e
    BY ONLY <2>1, OneInserted
  <2>6. \A k \in j..Len(r) : order[k + 1] = r[k]
    BY ONLY <2>1, OneInserted, SMTT(30)
  <2> QED
    BY <2>2, <2>3, <2>4, <2>5, <2>6
<1>7. Len(order) = L /\ DOMAIN order = 1..L
  BY <1>2, <1>31, <1>5, <1>6
<1>8. ASSUME NEW k \in 1..L PROVE Source(i, j, k) \in 1..L /\ order[k] = list[Source(i, j, k)]
  <2>1. CASE k < j
    <3>1. k \in 1..L - 1 /\ order[k] = r[k]
      BY <1>2, <1>31, <1>5, <1>6, <2>1
    <3> QED
      BY <1>2, <1>31, <2>1, <3>1 DEF Source
  <2>2. CASE k = j
    BY <1>2, <1>31, <1>5, <1>6, <2>2 DEF Source
  <2>3. CASE k > j
    <3>1. k - 1 \in j..L - 1 /\ order[(k - 1) + 1] = r[k - 1] /\ (k - 1) + 1 = k
      BY <1>2, <1>31, <1>5, <1>6, <2>3
    <3>2. r[k - 1] = IF k - 1 < i THEN list[k - 1] ELSE list[(k - 1) + 1]
      BY <1>31, <3>1
    <3> QED
      BY <1>2, <2>3, <3>1, <3>2 DEF Source
  <2> QED
    BY <1>2, <2>1, <2>2, <2>3
<1>9. \A k, m \in 1..L : k # m => Source(i, j, k) # Source(i, j, m)
  BY <1>2 DEF Source
<1>10. ASSUME NEW n \in 1..L PROVE \E k \in 1..L : Source(i, j, k) = n
  <2> DEFINE m == IF n < i THEN n ELSE n - 1
  <2>1. CASE n = i
    BY <1>2, <2>1 DEF Source
  <2>2. CASE n # i /\ m < j
    <3>1. m \in 1..L /\ Source(i, j, m) = n
      BY <1>2, <2>2 DEF Source
    <3> QED
      BY <3>1
  <2>3. CASE n # i /\ m >= j
    <3>1. m + 1 \in 1..L /\ Source(i, j, m + 1) = n
      BY <1>2, <2>3 DEF Source
    <3> QED
      BY <3>1
  <2> QED
    BY <1>2, <2>1, <2>2, <2>3
<1>11. ToSet(order) = ToSet(list)
  <2>1. ToSet(order) \subseteq ToSet(list)
    BY <1>2, <1>7, <1>8 DEF ToSet
  <2>2. ASSUME NEW n \in 1..L PROVE list[n] \in ToSet(order)
    <3>1. PICK k \in 1..L : Source(i, j, k) = n
      BY <1>10
    <3>2. order[k] = list[n]
      BY <1>8, <3>1
    <3> QED
      BY <1>7, <3>2 DEF ToSet
  <2> QED
    BY <1>2, <2>1, <2>2 DEF ToSet
<1>12. ASSUME \A m, n \in DOMAIN list : m # n => list[m] # list[n]
       PROVE  \A m, n \in DOMAIN order : m # n => order[m] # order[n]
  <2> SUFFICES ASSUME NEW m \in 1..L, NEW n \in 1..L, m # n PROVE order[m] # order[n]
    BY <1>7
  <2>1. Source(i, j, m) # Source(i, j, n)
    BY <1>9
  <2> QED
    BY <1>2, <1>8, <1>12, <2>1
<1> QED
  BY <1>6, <1>7, <1>11, <1>12 DEF L

\* An order that names each row of a set once names none twice.
LEMMA OrdersAreInjective ==
    ASSUME NEW T, NEW order \in Seq(T), NEW S, IsFiniteSet(S), IsOrderOf(order, S)
    PROVE  \A m, n \in DOMAIN order : m # n => order[m] # order[n]
<1>1. Len(order) \in Nat /\ DOMAIN order = 1..Len(order) /\ Len(order) = Cardinality(S)
      /\ ToSet(order) = S
  BY DEF IsOrderOf
<1>2. order \in Surjection(1..Len(order), S)
  <2>1. order \in [1..Len(order) -> S]
    BY <1>1 DEF ToSet
  <2>2. \A x \in S : \E n \in 1..Len(order) : order[n] = x
    BY <1>1 DEF ToSet
  <2> QED
    BY <2>1, <2>2 DEF Surjection
<1>3. IsFiniteSet(1..Len(order)) /\ Cardinality(1..Len(order)) = Cardinality(S)
  BY <1>1, FS_Interval
<1>4. order \in Injection(1..Len(order), S)
  BY <1>2, <1>3, FS_SurjSameCardinalityImpliesInj
<1> QED
  BY <1>1, <1>4 DEF Injection, IsInjective

\* Where an order has an element.
LEMMA PlacesAreThere ==
    ASSUME NEW T, NEW order \in Seq(T)
    PROVE  /\ DOMAIN Place(order) = ToSet(order)
           /\ \A x \in ToSet(order) : Place(order)[x] \in DOMAIN order
                                      /\ order[Place(order)[x]] = x
           /\ (\A m, n \in DOMAIN order : m # n => order[m] # order[n])
                => \A n \in DOMAIN order : Place(order)[order[n]] = n
<1>1. ASSUME NEW x \in ToSet(order)
      PROVE  Place(order)[x] \in DOMAIN order /\ order[Place(order)[x]] = x
  <2>1. Place(order)[x] = CHOOSE n \in DOMAIN order : order[n] = x
    BY DEF Place
  <2>2. \E n \in DOMAIN order : order[n] = x
    BY DEF ToSet
  <2> QED
    BY <2>1, <2>2, Zenon
<1>2. \A n \in DOMAIN order : order[n] \in ToSet(order)
  BY DEF ToSet
<1> QED
  BY <1>1, <1>2 DEF Place

\* The next sortOrder is one.
LEMMA NextOrderIsNatural ==
    ASSUME NEW orders \in SUBSET Nat, IsFiniteSet(orders)
    PROVE  NextOrder(orders) \in Nat /\ \A n \in orders : n < NextOrder(orders)
<1>1. CASE orders = {}
  BY <1>1 DEF NextOrder
<1>2. CASE orders # {}
  <2> DEFINE same == [n \in orders |-> n]
             list == InOrder(orders, same)
  <2>1. /\ list \in Seq(orders) /\ Len(list) = Cardinality(orders) /\ Len(list) \in Nat
        /\ ToSet(list) = orders
        /\ \A i, j \in DOMAIN list : i < j => Before(list[i], list[j], same)
    <3>1. orders \in SUBSET Int /\ \A x \in orders : same[x] \in Int
      OBVIOUS
    <3> HIDE DEF same
    <3> QED
      BY <3>1, ListIsSorted
  <2>2. Len(list) # 0
    <3>1. Cardinality(orders) # 0
      BY <1>2, FS_EmptySet
    <3> QED
      BY <2>1, <3>1
  <2>3. DOMAIN list = 1..Len(list) /\ Len(list) \in DOMAIN list
    <3> HIDE DEF list
    <3> QED
      BY <2>1, <2>2
  <2> DEFINE top == list[Len(list)]
  <2>4. top \in orders /\ \A n \in orders : n <= top
    <3>1. top \in orders
      BY <2>1, <2>3 DEF ToSet
    <3>2. ASSUME NEW n \in orders PROVE n <= top
      <4>1. PICK k \in DOMAIN list : list[k] = n
        BY <2>1 DEF ToSet
      <4>2. CASE k = Len(list)
        BY <3>1, <4>1, <4>2
      <4>3. CASE k # Len(list)
        <5>1. k < Len(list)
          <6> HIDE DEF list
          <6> QED
            BY <2>1, <2>3, <4>3
        <5>2. Before(n, top, same)
          BY <2>1, <2>3, <4>1, <5>1
        <5>3. same[n] = n /\ same[top] = top
          BY <3>1
        <5> HIDE DEF same, top
        <5> QED
          BY <3>1, <5>2, <5>3 DEF Before
      <4> QED
        BY <4>2, <4>3
    <3> QED
      BY <3>1, <3>2
  <2> HIDE DEF top
  <2>5. \E m \in orders : \A n \in orders : n <= m
    BY <2>4
  <2> DEFINE last == CHOOSE m \in orders : \A n \in orders : n <= m
  <2>6. last \in orders /\ \A n \in orders : n <= last
    BY <2>5, Zenon
  <2>7. NextOrder(orders) = 1 + last
    BY <1>2, Zenon DEF NextOrder
  <2> HIDE DEF last
  <2> QED
    BY <2>6, <2>7
<1> QED
  BY <1>1, <1>2

-----------------------------------------------------------------------------
(* Types.                                                                    *)

Response == [tasks : Seq(Task), unviewed : SUBSET Task, todos : Seq(Todo), config : Config]

Page == [cache : Response \cup {Nil}, mounted : BOOLEAN, local : Config, cached : BOOLEAN,
         synced : Config, timer : BOOLEAN, poll : Response \cup {Nil}]

\* A page that is mounted, or has a config to send, has a response to show.
PageOK(p) == p \in Page /\ (p.mounted \/ p.timer => p.cache \in Response)

Shape(o) ==
    o = [tab |-> o.tab, screen |-> o.screen, kind |-> o.kind, arg |-> o.arg,
         previous |-> o.previous, stage |-> o.stage, read |-> o.read, alone |-> o.alone,
         fresh |-> o.fresh]

OpOK(o) ==
    /\ Shape(o)
    /\ o.previous \in Response \cup {Nil}
    /\ o.kind \in {"config", "reset"} => o.arg \in Config
    /\ o.kind = "retention" => o.arg \in Retention
    /\ o.kind = "reorder" => o.arg \in Seq(Task)
    /\ o.kind = "todo_reorder" => o.arg \in Seq(Todo)
    /\ o.kind = "view" /\ o.stage = "read" => o.read \in SUBSET Task

\* A request was sent by a page that had a response, unless the page is gone.
Attached(o, pages) ==
    o.tab # Nil => o.tab \in DOMAIN pages /\ pages[o.tab].cache \in Response

Ids == Cardinality(DOMAIN tasks) \in Nat /\ DOMAIN tasks = 1..Cardinality(DOMAIN tasks)

Rows ==
    /\ DOMAIN tasks \subseteq Task /\ archived \subseteq DOMAIN tasks /\ Ids
    /\ tasks = [t \in DOMAIN tasks |-> tasks[t]] /\ \A t \in DOMAIN tasks : tasks[t] \in Nat
    /\ born \in 0..Cardinality(Todo) /\ DOMAIN todos \subseteq 1..born
    /\ todos = [d \in DOMAIN todos |-> todos[d]] /\ \A d \in DOMAIN todos : todos[d] \in TodoRow
    /\ viewed \subseteq Task /\ retention \in Retention /\ config \in Config

Pages == DOMAIN tab \subseteq Tab /\ tab \in [DOMAIN tab -> Page] /\ \A b \in DOMAIN tab : PageOK(tab[b])

Requests == IsList(ops) /\ \A o \in ToSet(ops) : OpOK(o) /\ Attached(o, tab)

TypeInv == Rows /\ Pages /\ Requests

-----------------------------------------------------------------------------
(* The order of the tasks.                                                   *)

\* A reorder that is alone has read what the tasks still are.
ReadOK(o) ==
    o.kind = "reorder" /\ o.stage = "read" =>
        /\ \A m, n \in DOMAIN o.arg : m # n => o.arg[m] # o.arg[n]
        /\ ToSet(o.arg) \subseteq DOMAIN tasks
        /\ o.alone => \A t \in ToSet(o.arg) : o.read[t] = tasks[t]

\* The tasks of the drop have their places in it.
DropOK ==
    /\ dropped \in Seq(Task)
    /\ \A n \in DOMAIN dropped : dropped[n] \in DOMAIN tasks /\ tasks[dropped[n]] = n - 1

OrderInv == DropOK /\ \A o \in ToSet(ops) : ReadOK(o)

-----------------------------------------------------------------------------
(* What becomes of the requests.                                             *)

\* A request that stays, answered or not; what it has read, and that no other
\* reorder overtook it, is not made up.
Continues(x, o) ==
    /\ Shape(x) /\ x.tab \in {o.tab, Nil}
    /\ x.kind = o.kind /\ x.arg = o.arg /\ x.previous = o.previous
    /\ x.stage = "read" /\ x.kind \in {"reorder", "view"} =>
            o.stage = "read" /\ x.read = o.read /\ (x.alone => o.alone)

OpsContinue ==
    IsList(ops') /\ \A x \in ToSet(ops') : \E o \in ToSet(ops) : Continues(x, o)

LEMMA OpsAreRequests ==
    ASSUME Requests, NEW k \in DOMAIN ops
    PROVE  /\ Len(ops) \in Nat /\ DOMAIN ops = 1..Len(ops) /\ ops \in [1..Len(ops) -> ToSet(ops)]
           /\ ops[k] \in ToSet(ops) /\ OpOK(ops[k]) /\ Attached(ops[k], tab)
<1>1. ops \in Seq(ToSet(ops))
  BY DEF Requests, IsList
<1>2. Len(ops) \in Nat /\ DOMAIN ops = 1..Len(ops) /\ ops \in [1..Len(ops) -> ToSet(ops)]
  BY <1>1
<1>3. ops[k] \in ToSet(ops)
  BY MembersAreInSet
<1> QED
  BY <1>2, <1>3 DEF Requests

LEMMA StayingContinues ==
    ASSUME NEW o, OpOK(o)
    PROVE  Continues(o, o)
BY DEF OpOK, Continues

LEMMA SameRequests ==
    ASSUME Requests, ops' = ops
    PROVE  OpsContinue
BY StayingContinues DEF Requests, OpsContinue, IsList

LEMMA EachContinues ==
    ASSUME Requests, DOMAIN ops' = DOMAIN ops, ops' = [k \in DOMAIN ops |-> ops'[k]],
           \A k \in DOMAIN ops : Continues(ops'[k], ops[k])
    PROVE  OpsContinue
<1>1. ops \in Seq(ToSet(ops))
  BY DEF Requests, IsList
<1>2. Len(ops) \in Nat /\ DOMAIN ops = 1..Len(ops)
  BY <1>1
<1>3. ops' \in [1..Len(ops) -> ToSet(ops')]
  <2>1. \A k \in DOMAIN ops' : ops'[k] \in ToSet(ops')
    BY DEF ToSet
  <2> QED
    BY <1>2, <2>1
<1>4. IsList(ops')
  BY <1>2, <1>3, FunctionsAreLists DEF IsList
<1>5. ASSUME NEW x \in ToSet(ops') PROVE \E o \in ToSet(ops) : Continues(x, o)
  <2>1. PICK k \in DOMAIN ops : x = ops'[k]
    BY DEF ToSet
  <2>2. ops[k] \in ToSet(ops)
    BY MembersAreInSet
  <2> QED
    BY <2>1, <2>2
<1> QED
  BY <1>4, <1>5 DEF OpsContinue

\* A request whose turn ends.
LEMMA TurnContinues ==
    ASSUME Requests, NEW i \in DOMAIN ops, NEW stage \in {"ok", "error"}, Turn(i, stage)
    PROVE  OpsContinue
<1>1. Shape(ops[i]) /\ ops \in [DOMAIN ops -> ToSet(ops)]
  BY OpsAreRequests DEF OpOK
<1>2. ops' = [ops EXCEPT ![i] =
                [[[[@ EXCEPT !.stage = stage] EXCEPT !.read = Nil] EXCEPT !.fresh = {}]
                  EXCEPT !.alone = TRUE]]
  BY <1>1 DEF Turn
<1>3. DOMAIN ops' = DOMAIN ops /\ ops' = [k \in DOMAIN ops |-> ops'[k]]
  BY <1>1, <1>2
<1>4. ASSUME NEW k \in DOMAIN ops PROVE Continues(ops'[k], ops[k])
  <2>1. CASE k # i
    <3>1. ops'[k] = ops[k] /\ OpOK(ops[k])
      BY <1>1, <1>2, <2>1, OpsAreRequests
    <3> QED
      BY <3>1, StayingContinues
  <2>2. CASE k = i
    <3>1. ops'[i] = [[[[ops[i] EXCEPT !.stage = stage] EXCEPT !.read = Nil] EXCEPT !.fresh = {}]
                  EXCEPT !.alone = TRUE]
      BY <1>1, <1>2
    <3> DEFINE o == ops[i]
               x == ops'[i]
    <3>2. Shape(o) /\ x = [[[[o EXCEPT !.stage = stage] EXCEPT !.read = Nil] EXCEPT !.fresh = {}]
                  EXCEPT !.alone = TRUE]
      BY <1>1, <3>1
    <3> HIDE DEF o, x
    <3>3. Continues(x, o)
      BY <3>2 DEF Continues, Shape
    <3> QED
      BY <2>2, <3>3 DEF o, x
  <2> QED
    BY <2>1, <2>2
<1> QED
  BY <1>3, <1>4, EachContinues

LEMMA AnsweredContinues ==
    ASSUME Requests, NEW i \in DOMAIN ops, Answered(i)
    PROVE  OpsContinue
<1>1. IsList(ops)
  BY DEF Requests
<1>2. IsList(ops') /\ ToSet(ops') \subseteq ToSet(ops)
  <2> DEFINE r == RemoveAt(ops, i)
  <2>1. IsList(r) /\ ToSet(r) \subseteq ToSet(ops)
    BY <1>1, OneGone
  <2>2. ops' = r
    BY DEF Answered
  <2> QED
    BY <2>1, <2>2, Zenon DEF IsList, ToSet
<1> QED
  BY <1>2, StayingContinues DEF Requests, OpsContinue

LEMMA PollFailsContinues ==
    ASSUME Requests, NEW b, PollFails(b)
    PROVE  OpsContinue
<1>1. ops' = [i \in DOMAIN ops |->
                IF ops[i].tab = b THEN [ops[i] EXCEPT !.screen = FALSE] ELSE ops[i]]
  BY DEF PollFails
<1>2. ASSUME NEW k \in DOMAIN ops PROVE Continues(ops'[k], ops[k])
  <2>1. OpOK(ops[k])
    BY OpsAreRequests
  <2>2. ops'[k] = IF ops[k].tab = b THEN [ops[k] EXCEPT !.screen = FALSE] ELSE ops[k]
    BY <1>1
  <2> QED
    BY <2>1, <2>2 DEF OpOK, Continues, Shape
<1>3. DOMAIN ops' = DOMAIN ops /\ ops' = [k \in DOMAIN ops |-> ops'[k]]
  BY <1>1
<1> QED
  BY <1>2, <1>3, EachContinues

LEMMA ReloadContinues ==
    ASSUME Requests, NEW b, Reload(b)
    PROVE  OpsContinue /\ \A x \in ToSet(ops') : x.tab = b => x.tab = Nil
<1>1. ops' = [i \in DOMAIN ops |-> IF ops[i].tab = b THEN [ops[i] EXCEPT !.tab = Nil] ELSE ops[i]]
  BY DEF Reload
<1>2. ASSUME NEW k \in DOMAIN ops
      PROVE  Continues(ops'[k], ops[k]) /\ (ops'[k].tab = b => ops'[k].tab = Nil)
  <2>1. OpOK(ops[k])
    BY OpsAreRequests
  <2>2. ops'[k] = IF ops[k].tab = b THEN [ops[k] EXCEPT !.tab = Nil] ELSE ops[k]
    BY <1>1
  <2> QED
    BY <2>1, <2>2 DEF OpOK, Continues, Shape
<1>3. DOMAIN ops' = DOMAIN ops /\ ops' = [k \in DOMAIN ops |-> ops'[k]]
  BY <1>1
<1>4. OpsContinue
  BY <1>2, <1>3, EachContinues
<1> QED
  BY <1>2, <1>3, <1>4 DEF ToSet

LEMMA OvertakenContinues ==
    ASSUME NEW o, OpOK(o), NEW S
    PROVE  /\ Continues(Overtaken(o), o) /\ Continues(Unseen(S, o), o)
           /\ Continues(Overtaken(Unseen(S, o)), o)
           /\ \A x \in {Overtaken(o), Overtaken(Unseen(S, o))} :
                x.kind = "reorder" /\ x.stage = "read" => ~x.alone
<1>1. /\ Overtaken(o) = [o EXCEPT !.alone = o.alone /\ ~(o.kind = "reorder" /\ o.stage = "read")]
      /\ Unseen(S, o) = [o EXCEPT !.fresh = o.fresh \ S]
  BY DEF Overtaken, Unseen, OpOK, Shape
<1> DEFINE u == Unseen(S, o)
<1>2. Shape(u) /\ \A f \in {"kind", "arg", "previous", "stage", "read", "alone", "tab"} : u[f] = o[f]
  BY <1>1 DEF OpOK, Shape
<1>3. Overtaken(u) = [u EXCEPT !.alone = u.alone /\ ~(u.kind = "reorder" /\ u.stage = "read")]
  BY <1>2 DEF Overtaken, Shape
<1> HIDE DEF u
<1>4. Continues(u, o)
  BY <1>2 DEF Continues
<1>5. Continues(Overtaken(o), o)
      /\ (Overtaken(o).kind = "reorder" /\ Overtaken(o).stage = "read" => ~Overtaken(o).alone)
  BY <1>1 DEF Continues, OpOK, Shape
<1>6. Continues(Overtaken(u), o)
      /\ (Overtaken(u).kind = "reorder" /\ Overtaken(u).stage = "read" => ~Overtaken(u).alone)
  BY <1>2, <1>3 DEF Continues, Shape
<1> QED
  BY <1>4, <1>5, <1>6 DEF u

LEMMA ColleaguesContinue ==
    ASSUME Requests, ColleagueEdits \/ ColleagueReorders
    PROVE  OpsContinue
<1>1. CASE ColleagueEdits
  <2>1. PICK S : ops' = [i \in DOMAIN ops |-> Unseen(S, ops[i])]
    BY <1>1 DEF ColleagueEdits
  <2> QED
    BY <2>1, OpsAreRequests, OvertakenContinues, EachContinues
<1>2. CASE ColleagueReorders
  <2>1. PICK S : ops' = [i \in DOMAIN ops |-> Overtaken(Unseen(S, ops[i]))]
    BY <1>2, Zenon DEF ColleagueReorders
  <2> QED
    BY <2>1, OpsAreRequests, OvertakenContinues, EachContinues
<1> QED
  BY <1>1, <1>2

LEMMA FailContinues ==
    ASSUME Requests, NEW i \in DOMAIN ops, Fail(i)
    PROVE  OpsContinue
BY TurnContinues DEF Fail

LEMMA ServedContinues ==
    ASSUME Requests, NEW i \in DOMAIN ops,
           \/ MarkProjectViewed(i) \/ EditTask(i) \/ EditSettings(i)
           \/ ReorderPersonalTodos(i) \/ EditTodo(i)
    PROVE  OpsContinue
<1>1. Turn(i, "ok") \/ Turn(i, "error")
  <2>1. CASE MarkProjectViewed(i)
    BY <2>1 DEF MarkProjectViewed
  <2>2. CASE EditTask(i)
    BY <2>2 DEF EditTask
  <2>3. CASE EditSettings(i)
    BY <2>3 DEF EditSettings
  <2>4. CASE ReorderPersonalTodos(i)
    BY <2>4 DEF ReorderPersonalTodos
  <2>5. CASE EditTodo(i)
    BY <2>5 DEF EditTodo
  <2> QED
    BY <2>1, <2>2, <2>3, <2>4, <2>5
<1> QED
  BY <1>1, TurnContinues

LEMMA ReorderContinues ==
    ASSUME Requests, NEW i \in DOMAIN ops, ReorderProjectTasks(i)
    PROVE  OpsContinue
<1>1. ops \in [DOMAIN ops -> ToSet(ops)] /\ OpOK(ops[i])
  BY OpsAreRequests
<1>2. \/ Turn(i, "ok")
      \/ ops' = [j \in DOMAIN ops |-> IF j = i THEN [ops[i] EXCEPT !.stage = "ok", !.read = Nil]
                                      ELSE Overtaken(ops[j])]
  BY Zenon DEF ReorderProjectTasks
<1>3. CASE Turn(i, "ok")
  BY <1>3, TurnContinues
<1>4. CASE ops' = [j \in DOMAIN ops |-> IF j = i THEN [ops[i] EXCEPT !.stage = "ok", !.read = Nil]
                                      ELSE Overtaken(ops[j])]
  <2>1. Continues([ops[i] EXCEPT !.stage = "ok", !.read = Nil], ops[i])
    <3> DEFINE o == ops[i]
               x == [o EXCEPT !.stage = "ok", !.read = Nil]
    <3>1. Shape(o) /\ x = [[o EXCEPT !.stage = "ok"] EXCEPT !.read = Nil]
      BY <1>1 DEF OpOK
    <3> HIDE DEF o, x
    <3>2. Continues(x, o)
      BY <3>1 DEF Shape, Continues
    <3> QED
      BY <3>2 DEF o, x
  <2>2. ASSUME NEW k \in DOMAIN ops PROVE Continues(ops'[k], ops[k])
    BY <1>4, <2>1, OpsAreRequests, OvertakenContinues
  <2>3. DOMAIN ops' = DOMAIN ops /\ ops' = [k \in DOMAIN ops |-> ops'[k]]
    BY <1>4
  <2> QED
    BY <2>2, <2>3, EachContinues
<1> QED
  BY <1>2, <1>3, <1>4

\* A request that has just been read.
LEMMA ReadingKeepsTheRest ==
    ASSUME NEW o, Shape(o), NEW v, NEW x, x = [[o EXCEPT !.stage = "read"] EXCEPT !.read = v]
    PROVE  /\ Shape(x) /\ x.tab = o.tab /\ x.previous = o.previous
           /\ x.kind = o.kind /\ x.arg = o.arg /\ x.read = v
BY DEF Shape

LEMMA FreshKeepsTheRest ==
    ASSUME NEW o, Shape(o), NEW v, NEW x, x = [o EXCEPT !.fresh = v]
    PROVE  /\ Shape(x) /\ x.tab = o.tab /\ x.previous = o.previous
           /\ x.kind = o.kind /\ x.arg = o.arg /\ x.read = o.read
BY DEF Shape

LEMMA ReadTasksReads ==
    ASSUME Requests, NEW i \in DOMAIN ops, ReadTasks(i)
    PROVE  /\ IsList(ops')
           /\ \A x \in ToSet(ops') :
                \/ \E o \in ToSet(ops) : Continues(x, o)
                \/ /\ Shape(x) /\ x.tab = ops[i].tab /\ x.previous = ops[i].previous
                   /\ x.kind = "reorder" /\ x.arg = ops[i].arg
                   /\ x.read = tasks /\ IsOrderOf(x.arg, ActiveTasks)
<1>1. ops \in [DOMAIN ops -> ToSet(ops)] /\ Shape(ops[i]) /\ DOMAIN ops = 1..Len(ops) /\ Len(ops) \in Nat
  BY OpsAreRequests DEF OpOK
<1>2. ops[i].kind = "reorder"
  BY DEF ReadTasks, Active
<1> DEFINE o == ops[i]
           error == [o EXCEPT !.stage = "error"]
           read == [[o EXCEPT !.stage = "read"] EXCEPT !.read = tasks]
<1>3. PICK e \in {error, read} : /\ e = read => IsOrderOf(o.arg, ActiveTasks)
                                 /\ ops' = [k \in DOMAIN ops |-> IF k = i THEN e ELSE ops[k]]
  <2>1. CASE IsOrderOf(o.arg, ActiveTasks)
    <3>1. ops' = [k \in DOMAIN ops |-> IF k = i THEN read ELSE ops[k]]
      BY <1>1, <2>1 DEF ReadTasks
    <3> QED
      BY <2>1, <3>1
  <2>2. CASE ~IsOrderOf(o.arg, ActiveTasks)
    <3>1. ops' = [k \in DOMAIN ops |-> IF k = i THEN error ELSE ops[k]]
      BY <1>1, <2>2 DEF ReadTasks
    <3>2. error # read
      <4>1. error.stage = "error" /\ read.stage = "read"
        BY <1>1 DEF Shape
      <4> QED
        BY <4>1
    <3> QED
      BY <3>1, <3>2
  <2> QED
    BY <2>1, <2>2
<1>4. Shape(o) /\ o.kind = "reorder"
  BY <1>1, <1>2
<1> HIDE DEF o
<1>5. Continues(error, o)
  BY <1>4 DEF Continues, Shape
<1>6. /\ Shape(read) /\ read.tab = o.tab /\ read.previous = o.previous
      /\ read.kind = "reorder" /\ read.arg = o.arg /\ read.read = tasks
  <2>1. \A v, x : x = [[o EXCEPT !.stage = "read"] EXCEPT !.read = v] =>
            /\ Shape(x) /\ x.tab = o.tab /\ x.previous = o.previous
            /\ x.kind = o.kind /\ x.arg = o.arg /\ x.read = v
    BY <1>4, ReadingKeepsTheRest, Zenon
  <2> QED
    BY <1>4, <2>1, Zenon
<1> HIDE DEF error, read
<1>7. IsList(ops')
  <2>1. ops' \in [1..Len(ops) -> ToSet(ops) \cup {e}]
    BY <1>1, <1>3
  <2>2. ops' \in Seq(ToSet(ops) \cup {e})
    BY <1>1, <2>1, FunctionsAreLists
  <2> DEFINE t == ops'
             S == ToSet(ops) \cup {e}
  <2>3. t \in Seq(S)
    BY <2>2
  <2> HIDE DEF t, S
  <2>4. IsList(t)
    BY <2>3, ListsAreLists
  <2> QED
    BY <2>4, Zenon DEF t, IsList, ToSet
<1>8. ASSUME NEW x \in ToSet(ops')
      PROVE  \/ \E p \in ToSet(ops) : Continues(x, p)
             \/ /\ Shape(x) /\ x.tab = o.tab /\ x.previous = o.previous
                /\ x.kind = "reorder" /\ x.arg = o.arg
                /\ x.read = tasks /\ IsOrderOf(x.arg, ActiveTasks)
  <2>1. PICK k \in DOMAIN ops : x = ops'[k]
    BY <1>3 DEF ToSet
  <2>2. CASE k # i
    <3>1. x = ops[k] /\ ops[k] \in ToSet(ops) /\ OpOK(ops[k])
      BY <1>3, <2>1, <2>2, OpsAreRequests
    <3> QED
      BY <3>1, StayingContinues
  <2>3. CASE k = i
    <3>1. x = e /\ o \in ToSet(ops)
      BY <1>3, <2>1, <2>3, OpsAreRequests DEF o
    <3> QED
      BY <1>3, <1>5, <1>6, <3>1
  <2> QED
    BY <2>2, <2>3
<1> QED
  BY <1>7, <1>8 DEF o

LEMMA ReadViewedReads ==
    ASSUME Requests, NEW i \in DOMAIN ops, ReadViewed(i)
    PROVE  /\ IsList(ops')
           /\ \A x \in ToSet(ops') :
                \/ \E o \in ToSet(ops) : Continues(x, o)
                \/ /\ Shape(x) /\ x.tab = ops[i].tab /\ x.previous = ops[i].previous
                   /\ x.kind = "view" /\ x.read = ActiveTasks
<1>1. ops \in [DOMAIN ops -> ToSet(ops)] /\ Shape(ops[i]) /\ DOMAIN ops = 1..Len(ops) /\ Len(ops) \in Nat
  BY OpsAreRequests DEF OpOK
<1>2. ops[i].kind = "view"
  BY DEF ReadViewed, Active
<1> DEFINE o == ops[i]
           e == [[[o EXCEPT !.stage = "read"] EXCEPT !.read = ActiveTasks] EXCEPT !.fresh = ActiveTasks]
<1>3. ops' = [k \in DOMAIN ops |-> IF k = i THEN e ELSE ops[k]]
  BY <1>1 DEF ReadViewed
<1>4. Shape(o) /\ o.kind = "view"
  BY <1>1, <1>2
<1> HIDE DEF o
<1>6. /\ Shape(e) /\ e.tab = o.tab /\ e.previous = o.previous
      /\ e.kind = "view" /\ e.read = ActiveTasks
  <2> DEFINE r == [[o EXCEPT !.stage = "read"] EXCEPT !.read = ActiveTasks]
  <2>1. /\ Shape(r) /\ r.tab = o.tab /\ r.previous = o.previous
        /\ r.kind = o.kind /\ r.read = ActiveTasks
    <3>1. \A v, x : x = [[o EXCEPT !.stage = "read"] EXCEPT !.read = v] =>
              /\ Shape(x) /\ x.tab = o.tab /\ x.previous = o.previous
              /\ x.kind = o.kind /\ x.arg = o.arg /\ x.read = v
      BY <1>4, ReadingKeepsTheRest, Zenon
    <3> QED
      BY <3>1, ZenonT(40)
  <2>2. e = [r EXCEPT !.fresh = ActiveTasks]
    OBVIOUS
  <2> HIDE DEF r, e
  <2>3. /\ Shape(e) /\ e.tab = r.tab /\ e.previous = r.previous
        /\ e.kind = r.kind /\ e.read = r.read
    <3>1. \A v, x : x = [r EXCEPT !.fresh = v] =>
              /\ Shape(x) /\ x.tab = r.tab /\ x.previous = r.previous
              /\ x.kind = r.kind /\ x.arg = r.arg /\ x.read = r.read
      BY <2>1, FreshKeepsTheRest, Zenon
    <3> QED
      BY <2>2, <3>1, Zenon
  <2> QED
    BY <1>4, <2>1, <2>3
<1> HIDE DEF e
<1>7. IsList(ops')
  <2>1. ops' \in [1..Len(ops) -> ToSet(ops) \cup {e}]
    BY <1>1, <1>3
  <2>2. ops' \in Seq(ToSet(ops) \cup {e})
    BY <1>1, <2>1, FunctionsAreLists
  <2> DEFINE t == ops'
             S == ToSet(ops) \cup {e}
  <2>3. t \in Seq(S)
    BY <2>2
  <2> HIDE DEF t, S
  <2>4. IsList(t)
    BY <2>3, ListsAreLists
  <2> QED
    BY <2>4, Zenon DEF t, IsList, ToSet
<1>8. ASSUME NEW x \in ToSet(ops')
      PROVE  \/ \E p \in ToSet(ops) : Continues(x, p)
             \/ /\ Shape(x) /\ x.tab = o.tab /\ x.previous = o.previous
                /\ x.kind = "view" /\ x.read = ActiveTasks
  <2>1. PICK k \in DOMAIN ops : x = ops'[k]
    BY <1>3 DEF ToSet
  <2>2. CASE k # i
    <3>1. x = ops[k] /\ ops[k] \in ToSet(ops) /\ OpOK(ops[k])
      BY <1>3, <2>1, <2>2, OpsAreRequests
    <3> QED
      BY <3>1, StayingContinues
  <2>3. CASE k = i
    BY <1>3, <1>6, <2>1, <2>3
  <2> QED
    BY <2>2, <2>3
<1> QED
  BY <1>7, <1>8 DEF o

LEMMA ReadTodosContinues ==
    ASSUME Requests, NEW i \in DOMAIN ops, ReadTodos(i)
    PROVE  OpsContinue
<1>1. ops \in [DOMAIN ops -> ToSet(ops)] /\ Shape(ops[i])
  BY OpsAreRequests DEF OpOK
<1>2. ops[i].kind = "todo_reorder"
  BY DEF ReadTodos, Active
<1> DEFINE o == ops[i]
           error == [o EXCEPT !.stage = "error"]
           read == [[o EXCEPT !.stage = "read"] EXCEPT !.read = todos]
<1>3. PICK e \in {error, read} : ops' = [k \in DOMAIN ops |-> IF k = i THEN e ELSE ops[k]]
  BY <1>1 DEF ReadTodos
<1>4. Shape(o) /\ o.kind = "todo_reorder"
  BY <1>1, <1>2
<1> HIDE DEF o
<1>5. Continues(error, o) /\ Continues(read, o)
  <2>1. Continues(error, o)
    BY <1>4 DEF Continues, Shape
  <2>2. \A v, x : x = [[o EXCEPT !.stage = "read"] EXCEPT !.read = v] =>
            /\ Shape(x) /\ x.tab = o.tab /\ x.previous = o.previous
            /\ x.kind = o.kind /\ x.arg = o.arg /\ x.read = v
    BY <1>4, ReadingKeepsTheRest, Zenon
  <2>3. /\ Shape(read) /\ read.tab = o.tab /\ read.previous = o.previous
        /\ read.kind = o.kind /\ read.arg = o.arg
    BY <2>2, Zenon
  <2> HIDE DEF read
  <2>4. Continues(read, o)
    BY <1>4, <2>3 DEF Continues
  <2> QED
    BY <2>1, <2>4
<1> HIDE DEF error, read
<1>6. ASSUME NEW k \in DOMAIN ops PROVE Continues(ops'[k], ops[k])
  <2>1. CASE k # i
    <3>1. ops'[k] = ops[k] /\ OpOK(ops[k])
      BY <1>3, <2>1, OpsAreRequests
    <3> QED
      BY <3>1, StayingContinues
  <2>2. CASE k = i
    BY <1>3, <1>5, <2>2 DEF o
  <2> QED
    BY <2>1, <2>2
<1>7. DOMAIN ops' = DOMAIN ops /\ ops' = [k \in DOMAIN ops |-> ops'[k]]
  BY <1>3
<1> QED
  BY <1>6, <1>7, EachContinues

\* One request more, which has not been served yet.
Sent(x, b, kind, arg, previous) ==
    /\ Shape(x) /\ x.tab = b /\ x.kind = kind /\ x.arg = arg /\ x.previous = previous
    /\ x.stage = "sent"

LEMMA SendsOneMore ==
    ASSUME Requests, NEW b, NEW kind, NEW arg, NEW previous, Sends(b, kind, arg, previous)
    PROVE  /\ IsList(ops')
           /\ \A x \in ToSet(ops') :
                (\E o \in ToSet(ops) : Continues(x, o)) \/ Sent(x, b, kind, arg, previous)
<1> DEFINE e == [tab |-> b, screen |-> TRUE, kind |-> kind, arg |-> arg, previous |-> previous,
                 stage |-> "sent", read |-> Nil, alone |-> TRUE, fresh |-> {}]
           t == Append(ops, e)
<1>1. Sent(e, b, kind, arg, previous)
  BY DEF Sent, Shape
<1>2. ops' = t
  BY DEF Sends
<1> HIDE DEF e
<1>3. IsList(t) /\ \A x \in ToSet(t) : x \in ToSet(ops) \/ x = e
  BY OneMore DEF Requests
<1>4. IsList(ops') /\ \A x \in ToSet(ops') : x \in ToSet(ops) \/ x = e
  BY <1>2, <1>3, Zenon DEF IsList, ToSet
<1> QED
  BY <1>1, <1>4, StayingContinues DEF Requests

-----------------------------------------------------------------------------
(* Lists that are read and shown.                                            *)

LEMMA IdsAreNumbers ==
    /\ Task \in SUBSET Nat /\ Task \in SUBSET Int /\ Task = 1..Cardinality(Task)
    /\ Todo \in SUBSET Nat /\ Todo \in SUBSET Int /\ Todo = 1..Cardinality(Todo)
    /\ Cardinality(Task) \in Nat /\ Cardinality(Todo) \in Nat
<1>1. Cardinality(Task) \in Nat /\ Cardinality(Todo) \in Nat
  BY ConstantsAssumption, FS_CardinalityType
<1> QED
  BY <1>1, ConstantsAssumption

LEMMA TaskListIsSorted ==
    ASSUME Rows
    PROVE  /\ TaskList \in Seq(ActiveTasks) /\ TaskList \in Seq(Task)
           /\ ToSet(TaskList) = ActiveTasks /\ IsFiniteSet(ActiveTasks) /\ IsFiniteSet(DOMAIN tasks)
           /\ ActiveTasks \in SUBSET Task /\ ActiveTasks \in SUBSET DOMAIN tasks
           /\ \A i, j \in DOMAIN TaskList : i < j => Before(TaskList[i], TaskList[j], tasks)
           /\ \A i, j \in DOMAIN TaskList : i # j => TaskList[i] # TaskList[j]
<1>1. IsFiniteSet(DOMAIN tasks)
  <2>1. 1 \in Int /\ Cardinality(DOMAIN tasks) \in Int
    BY DEF Rows, Ids
  <2> QED
    BY <2>1, FS_Interval DEF Rows, Ids
<1>2. ActiveTasks \in SUBSET DOMAIN tasks /\ ActiveTasks \in SUBSET Task /\ ActiveTasks \in SUBSET Int
  BY IdsAreNumbers DEF Rows, ActiveTasks
<1>3. IsFiniteSet(ActiveTasks)
  BY <1>1, <1>2, FS_Subset
<1>4. \A x \in ActiveTasks : tasks[x] \in Int
  BY <1>2 DEF Rows
<1> DEFINE list == InOrder(ActiveTasks, tasks)
<1>5. /\ list \in Seq(ActiveTasks) /\ ToSet(list) = ActiveTasks
      /\ \A i, j \in DOMAIN list : i < j => Before(list[i], list[j], tasks)
      /\ \A i, j \in DOMAIN list : i # j => list[i] # list[j]
  BY <1>2, <1>3, <1>4, ListIsSorted
<1> HIDE DEF list
<1>6. list \in Seq(Task)
  BY <1>2, <1>5
<1>7. list = TaskList
  BY DEF list, TaskList
<1> QED
  BY <1>1, <1>2, <1>3, <1>5, <1>6, <1>7, Zenon

LEMMA TodoListsAreLists ==
    ASSUME Rows, NEW S \in SUBSET DOMAIN todos
    PROVE  InOrder(S, TodoOrder) \in Seq(Todo)
<1>1. born \in Int /\ born <= Cardinality(Todo)
  BY DEF Rows
<1>2. IsFiniteSet(1..born)
  BY <1>1, FS_Interval
<1>3. S \in SUBSET (1..born) /\ S \in SUBSET Int
  BY <1>1 DEF Rows
<1>4. IsFiniteSet(S)
  BY <1>2, <1>3, FS_Subset
<1>5. \A d \in S : TodoOrder[d] \in Int
  BY DEF Rows, TodoOrder, TodoRow
<1> DEFINE list == InOrder(S, TodoOrder)
<1>6. list \in Seq(S)
  BY <1>3, <1>4, <1>5, ListIsSorted
<1>7. S \subseteq Todo
  <2>1. \A d \in 1..born : d \in 1..Cardinality(Todo)
    BY <1>1, IdsAreNumbers
  <2> QED
    BY <1>3, <2>1, IdsAreNumbers
<1> HIDE DEF list
<1>8. list \in Seq(Todo)
  BY <1>6, <1>7
<1> QED
  BY <1>8 DEF list

LEMMA AdvanceIsList ==
    ASSUME NEW T \in SUBSET Int, NEW list \in Seq(T), NEW order \in Seq(T)
    PROVE  ReorderInAdvance(list, order) \in Seq(T)
<1> DEFINE S == ToSet(list) \cap ToSet(order)
           places == Place(order)
           shown == InOrder(S, places)
<1>1. S \subseteq T /\ S \in SUBSET Int
  BY ListsAreLists
<1>2. IsFiniteSet(S)
  <2>1. IsFiniteSet(ToSet(list)) /\ S \in SUBSET ToSet(list)
    BY ListsAreLists
  <2> QED
    BY <2>1, FS_Subset
<1>3. \A x \in S : places[x] \in Int
  <2>1. \A x \in ToSet(order) : Place(order)[x] \in DOMAIN order
    BY PlacesAreThere
  <2>2. DOMAIN order = 1..Len(order) /\ Len(order) \in Nat
    OBVIOUS
  <2> QED
    BY <2>1, <2>2
<1> HIDE DEF S, places
<1>4. shown \in Seq(S)
  BY <1>1, <1>2, <1>3, ListIsSorted
<1> HIDE DEF shown
<1>5. shown \in Seq(T)
  BY <1>1, <1>4, ListsGrow
<1> QED
  BY <1>5, Zenon DEF ReorderInAdvance, shown, places, S

-----------------------------------------------------------------------------
(* Pages.                                                                    *)

LEMMA ShowingShows ==
    ASSUME NEW old \in Page, NEW response \in Response
    PROVE  /\ PageOK(Showing(old, response))
           /\ Showing(old, response).cache = response /\ Showing(old, response).mounted
<1>1. response.config \in Config
  BY DEF Response
<1> DEFINE new == [[old EXCEPT !.cache = response] EXCEPT !.mounted = TRUE]
<1>2. new \in Page /\ new.cache = response /\ new.mounted
  BY DEF Page
<1>3. Showing(old, response) \in
        {new, [[[new EXCEPT !.local = response.config] EXCEPT !.synced = response.config]
                EXCEPT !.timer = FALSE],
         [[new EXCEPT !.synced = response.config] EXCEPT !.timer = old.local # response.config]}
  BY DEF Showing
<1> HIDE DEF new
<1>4. ASSUME NEW x \in
        {new, [[[new EXCEPT !.local = response.config] EXCEPT !.synced = response.config]
                EXCEPT !.timer = FALSE],
         [[new EXCEPT !.synced = response.config] EXCEPT !.timer = old.local # response.config]}
      PROVE  x \in Page /\ x.cache = response /\ x.mounted
  BY <1>1, <1>2 DEF Page
<1>5. /\ Showing(old, response) \in Page /\ Showing(old, response).cache = response
      /\ Showing(old, response).mounted
  BY <1>3, <1>4
<1> QED
  BY <1>5 DEF PageOK

LEMMA CanceledIsPage ==
    ASSUME NEW p, PageOK(p)
    PROVE  PageOK(Canceled(p)) /\ Canceled(p).cache = p.cache
BY DEF PageOK, Page, Canceled, NoPoll

LEMMA FreshIsPage ==
    ASSUME NEW c \in Config, NEW r \in Response \cup {Nil}
    PROVE  PageOK(Fresh(c)) /\ PageOK([Fresh(c) EXCEPT !.cache = r])
           /\ [Fresh(c) EXCEPT !.cache = r].cache = r
<1>1. Fresh(c) \in Page /\ ~Fresh(c).mounted /\ ~Fresh(c).timer
  BY ConstantsAssumption DEF Fresh, Page, NoPoll
<1> DEFINE p == Fresh(c)
<1> HIDE DEF p
<1>2. p \in Page /\ ~p.mounted /\ ~p.timer
  BY <1>1 DEF p
<1>3. [p EXCEPT !.cache = r] \in Page /\ ~[p EXCEPT !.cache = r].mounted
      /\ ~[p EXCEPT !.cache = r].timer
      /\ [p EXCEPT !.cache = r].cache = r
  BY <1>2 DEF Page
<1>4. PageOK(p) /\ PageOK([p EXCEPT !.cache = r])
  BY <1>2, <1>3 DEF PageOK
<1> QED
  BY <1>3, <1>4 DEF p

\* The tabs are the same, and what has something to show keeps it.
PagesGrow ==
    /\ DOMAIN tab' = DOMAIN tab
    /\ \A b \in DOMAIN tab : tab[b].cache \in Response => tab'[b].cache \in Response

LEMMA PageIsSet ==
    ASSUME Pages, NEW b, NEW new, SetTab(b, new),
           b \in DOMAIN tab => PageOK(new)
    PROVE  /\ Pages' /\ DOMAIN tab' = DOMAIN tab
           /\ \A c \in DOMAIN tab : c # b => tab'[c] = tab[c]
           /\ b \in DOMAIN tab => tab'[b] = new
<1>1. tab' = [tab EXCEPT ![b] = new] /\ tab \in [DOMAIN tab -> Page]
  BY DEF SetTab, Pages
<1>2. /\ DOMAIN tab' = DOMAIN tab
      /\ \A c \in DOMAIN tab : c # b => tab'[c] = tab[c]
      /\ b \in DOMAIN tab => tab'[b] = new
  BY <1>1
<1>3. \A c \in DOMAIN tab : PageOK(tab'[c])
  BY <1>2 DEF Pages
<1>4. tab' \in [DOMAIN tab -> Page]
  BY <1>1, <1>2, <1>3 DEF PageOK
<1> QED
  BY <1>2, <1>3, <1>4 DEF Pages

LEMMA PageGrows ==
    ASSUME Pages, NEW b, NEW new, SetTab(b, new),
           b \in DOMAIN tab => PageOK(new) /\ (tab[b].cache \in Response => new.cache \in Response)
    PROVE  Pages' /\ PagesGrow
BY PageIsSet DEF PagesGrow

LEMMA SamePages ==
    ASSUME Pages, UNCHANGED tab
    PROVE  Pages' /\ PagesGrow
BY DEF Pages, PagesGrow

LEMMA RequestsGrow ==
    ASSUME Requests, PagesGrow, OpsContinue
    PROVE  Requests'
<1> SUFFICES ASSUME NEW x \in ToSet(ops') PROVE OpOK(x) /\ Attached(x, tab')
  BY DEF Requests, OpsContinue
<1>1. PICK o \in ToSet(ops) : Continues(x, o)
  BY DEF OpsContinue
<1>2. OpOK(o) /\ Attached(o, tab)
  BY DEF Requests
<1>3. OpOK(x)
  BY <1>1, <1>2 DEF OpOK, Continues
<1>4. Attached(x, tab')
  BY <1>1, <1>2 DEF Attached, Continues, PagesGrow
<1> QED
  BY <1>3, <1>4

LEMMA SentRequestsGrow ==
    ASSUME Requests, PagesGrow, NEW b \in DOMAIN tab, tab[b].cache \in Response,
           NEW kind, NEW arg, NEW previous \in Response \cup {Nil}, Sends(b, kind, arg, previous),
           kind \in {"config", "reset"} => arg \in Config,
           kind = "retention" => arg \in Retention,
           kind = "reorder" => arg \in Seq(Task),
           kind = "todo_reorder" => arg \in Seq(Todo)
    PROVE  Requests'
<1>1. IsList(ops') /\ \A x \in ToSet(ops') :
        (\E o \in ToSet(ops) : Continues(x, o)) \/ Sent(x, b, kind, arg, previous)
  BY SendsOneMore
<1> SUFFICES ASSUME NEW x \in ToSet(ops') PROVE OpOK(x) /\ Attached(x, tab')
  BY <1>1 DEF Requests
<1>2. CASE \E o \in ToSet(ops) : Continues(x, o)
  <2>1. PICK o \in ToSet(ops) : Continues(x, o)
    BY <1>2
  <2>2. OpOK(o) /\ Attached(o, tab)
    BY DEF Requests
  <2> QED
    BY <2>1, <2>2 DEF OpOK, Continues, Attached, PagesGrow
<1>3. CASE Sent(x, b, kind, arg, previous)
  <2>1. OpOK(x)
    BY <1>3 DEF Sent, OpOK
  <2>2. Attached(x, tab')
    BY <1>3 DEF Sent, Attached, PagesGrow
  <2> QED
    BY <2>1, <2>2
<1> QED
  BY <1>1, <1>2, <1>3

-----------------------------------------------------------------------------
(* Types are kept, action by action.                                         *)

LEMMA SameRows ==
    ASSUME Rows, UNCHANGED rows
    PROVE  Rows'
<1> USE DEF rows
<1> QED
  BY DEF Rows, Ids

LEMMA PageOf ==
    ASSUME Pages, NEW b \in DOMAIN tab
    PROVE  /\ tab[b] \in Page /\ PageOK(tab[b])
           /\ Mounted(b) \/ tab[b].timer => tab[b].cache \in Response
BY DEF Pages, PageOK, Mounted

LEMMA TypePollRows ==
    ASSUME TypeInv, NEW b \in DOMAIN tab, PollRows(b)
    PROVE  TypeInv'
<1>1. PICK gone \in Pruned :
        /\ todos' = Without(todos, gone)
        /\ SetTab(b, [tab[b] EXCEPT !.poll =
                [tasks |-> TaskList, unviewed |-> ActiveTasks \ viewed,
                 todos |-> InOrder(DOMAIN todos \ gone, TodoOrder), config |-> config]])
  BY Zenon DEF PollRows
<1>2. UNCHANGED <<tasks, archived, born, viewed, retention, config, ops>>
  BY DEF PollRows
<1>3. Rows'
  BY <1>1, <1>2 DEF TypeInv, Rows, Ids, Without
<1> DEFINE r == [tasks |-> TaskList, unviewed |-> ActiveTasks \ viewed,
                 todos |-> InOrder(DOMAIN todos \ gone, TodoOrder), config |-> config]
           new == [tab[b] EXCEPT !.poll = r]
<1>4. r \in Response
  <2>1. TaskList \in Seq(Task) /\ ActiveTasks \ viewed \in SUBSET Task
    BY TaskListIsSorted DEF TypeInv
  <2>2. InOrder(DOMAIN todos \ gone, TodoOrder) \in Seq(Todo)
    BY TodoListsAreLists DEF TypeInv
  <2>3. config \in Config
    BY DEF TypeInv, Rows
  <2> QED
    BY <2>1, <2>2, <2>3 DEF Response
<1>5. SetTab(b, new)
  BY <1>1
<1> HIDE DEF r
<1>6. PageOK(new) /\ new.cache = tab[b].cache
  BY <1>4, PageOf DEF TypeInv, PageOK, Page
<1> HIDE DEF new
<1>7. Pages' /\ PagesGrow
  BY <1>5, <1>6, PageGrows DEF TypeInv
<1>8. Requests'
  BY <1>2, <1>7, SameRequests, RequestsGrow DEF TypeInv
<1> QED
  BY <1>3, <1>7, <1>8 DEF TypeInv

LEMMA TypePollAnswer ==
    ASSUME TypeInv, NEW b \in DOMAIN tab, PollAnswer(b)
    PROVE  TypeInv'
<1>1. tab[b].poll # Nil /\ SetTab(b, Canceled(Showing(tab[b], tab[b].poll)))
      /\ UNCHANGED rows /\ ops' = ops
  BY DEF PollAnswer, NoPoll
<1>2. tab[b] \in Page /\ tab[b].poll \in Response
  BY <1>1, PageOf DEF TypeInv, Page
<1> DEFINE shown == Showing(tab[b], tab[b].poll)
           new == Canceled(shown)
<1>3. PageOK(shown) /\ shown.cache \in Response
  BY <1>2, ShowingShows
<1> HIDE DEF shown
<1>4. PageOK(new) /\ new.cache \in Response
  BY <1>3, CanceledIsPage
<1>5. SetTab(b, new)
  BY <1>1 DEF shown
<1> HIDE DEF new
<1>6. Pages' /\ PagesGrow
  BY <1>4, <1>5, PageGrows DEF TypeInv
<1>7. Requests'
  BY <1>1, <1>6, SameRequests, RequestsGrow DEF TypeInv
<1> QED
  BY <1>1, <1>6, <1>7, SameRows DEF TypeInv

LEMMA TypePollFails ==
    ASSUME TypeInv, NEW b \in DOMAIN tab, PollFails(b)
    PROVE  TypeInv'
<1> DEFINE p == Fresh(tab[b].local)
           new == [p EXCEPT !.cache = tab[b].cache]
<1>1. SetTab(b, new) /\ UNCHANGED rows
  BY DEF PollFails
<1>2. tab[b].local \in Config /\ tab[b].cache \in Response \cup {Nil}
  BY PageOf DEF TypeInv, Page
<1>3. PageOK(new) /\ new.cache = tab[b].cache
  BY <1>2, FreshIsPage
<1> HIDE DEF p, new
<1>4. Pages' /\ PagesGrow
  BY <1>1, <1>3, PageGrows DEF TypeInv
<1>5. Requests'
  BY <1>4, PollFailsContinues, RequestsGrow DEF TypeInv
<1> QED
  BY <1>1, <1>4, <1>5, SameRows DEF TypeInv

LEMMA TypeChoose ==
    ASSUME TypeInv, NEW b \in DOMAIN tab, NEW c \in Config, Choose(b, c)
    PROVE  TypeInv'
<1> DEFINE new == [[tab[b] EXCEPT !.local = c] EXCEPT !.timer = c # tab[b].synced]
<1>1. SetTab(b, new) /\ UNCHANGED rows /\ ops' = ops /\ Mounted(b)
  BY DEF Choose, Acts
<1>2. PageOK(new) /\ new.cache = tab[b].cache
  BY <1>1, PageOf DEF TypeInv, Page, PageOK
<1> HIDE DEF new
<1>3. Pages' /\ PagesGrow
  BY <1>1, <1>2, PageGrows DEF TypeInv
<1>4. Requests'
  BY <1>1, <1>3, SameRequests, RequestsGrow DEF TypeInv
<1> QED
  BY <1>1, <1>3, <1>4, SameRows DEF TypeInv

LEMMA TypeSyncUserConfig ==
    ASSUME TypeInv, NEW b \in DOMAIN tab, SyncUserConfig(b)
    PROVE  TypeInv'
<1> DEFINE new == [tab[b] EXCEPT !.timer = FALSE]
<1>1. SetTab(b, new) /\ UNCHANGED rows /\ Sends(b, "config", tab[b].local, Nil) /\ tab[b].timer
  BY DEF SyncUserConfig
<1>2. PageOK(new) /\ new.cache = tab[b].cache /\ tab[b].local \in Config
  BY PageOf DEF TypeInv, Page, PageOK
<1> HIDE DEF new
<1>3. Pages' /\ PagesGrow
  BY <1>1, <1>2, PageGrows DEF TypeInv
<1>4. tab[b].cache \in Response
  BY <1>1, PageOf DEF TypeInv
<1>5. Requests'
  BY <1>1, <1>2, <1>3, <1>4, SentRequestsGrow DEF TypeInv
<1> QED
  BY <1>1, <1>3, <1>5, SameRows DEF TypeInv

LEMMA TypeReorder ==
    ASSUME TypeInv, NEW b \in DOMAIN tab, Reorder(b)
    PROVE  TypeInv'
<1>1. Mounted(b) /\ UNCHANGED rows
  BY DEF Reorder, Acts
<1>2. tab[b] \in Page /\ tab[b].cache \in Response /\ tab[b].cache.tasks \in Seq(Task)
  BY <1>1, PageOf DEF TypeInv, Response
<1>3. PICK order \in Moved(tab[b].cache.tasks) :
        /\ Sends(b, "reorder", order, tab[b].cache)
        /\ SetTab(b, Canceled([tab[b] EXCEPT !.cache.tasks = ReorderInAdvance(@, order)]))
  BY Zenon DEF Reorder
<1>4. order \in Seq(Task)
  BY <1>2, MovedIsPermuted
<1> DEFINE list == ReorderInAdvance(tab[b].cache.tasks, order)
           p == [tab[b] EXCEPT !.cache.tasks = list]
           new == Canceled(p)
<1>5. list \in Seq(Task)
  BY <1>2, <1>4, AdvanceIsList, IdsAreNumbers
<1>6. SetTab(b, new)
  BY <1>2, <1>3 DEF Page
<1> HIDE DEF list
<1>7. PageOK(p) /\ p.cache \in Response
  BY <1>2, <1>5 DEF PageOK, Page, Response
<1> HIDE DEF p
<1>8. PageOK(new) /\ new.cache \in Response
  BY <1>7, CanceledIsPage
<1> HIDE DEF new
<1>9. Pages' /\ PagesGrow
  BY <1>6, <1>8, PageGrows DEF TypeInv
<1>10. Requests'
  BY <1>2, <1>3, <1>4, <1>9, SentRequestsGrow DEF TypeInv
<1> QED
  BY <1>1, <1>9, <1>10, SameRows DEF TypeInv

LEMMA TypeReorderTodos ==
    ASSUME TypeInv, NEW b \in DOMAIN tab, ReorderTodos(b)
    PROVE  TypeInv'
<1>1. Mounted(b) /\ UNCHANGED rows
  BY DEF ReorderTodos, Acts
<1>2. tab[b] \in Page /\ tab[b].cache \in Response /\ tab[b].cache.todos \in Seq(Todo)
  BY <1>1, PageOf DEF TypeInv, Response
<1>3. PICK order \in Moved(tab[b].cache.todos) :
        /\ Sends(b, "todo_reorder", order, tab[b].cache)
        /\ SetTab(b, Canceled([tab[b] EXCEPT !.cache.todos = ReorderInAdvance(@, order)]))
  BY Zenon DEF ReorderTodos
<1>4. order \in Seq(Todo)
  BY <1>2, MovedIsPermuted
<1> DEFINE list == ReorderInAdvance(tab[b].cache.todos, order)
           p == [tab[b] EXCEPT !.cache.todos = list]
           new == Canceled(p)
<1>5. list \in Seq(Todo)
  BY <1>2, <1>4, AdvanceIsList, IdsAreNumbers
<1>6. SetTab(b, new)
  BY <1>2, <1>3 DEF Page
<1> HIDE DEF list
<1>7. PageOK(p) /\ p.cache \in Response
  BY <1>2, <1>5 DEF PageOK, Page, Response
<1> HIDE DEF p
<1>8. PageOK(new) /\ new.cache \in Response
  BY <1>7, CanceledIsPage
<1> HIDE DEF new
<1>9. Pages' /\ PagesGrow
  BY <1>6, <1>8, PageGrows DEF TypeInv
<1>10. Requests'
  BY <1>2, <1>3, <1>4, <1>9, SentRequestsGrow DEF TypeInv
<1> QED
  BY <1>1, <1>9, <1>10, SameRows DEF TypeInv

LEMMA TypeMarkViewed ==
    ASSUME TypeInv, NEW b \in DOMAIN tab, MarkViewed(b)
    PROVE  TypeInv'
<1> DEFINE p == [tab[b] EXCEPT !.cache.unviewed = {}]
           new == Canceled(p)
<1>1. Mounted(b) /\ UNCHANGED rows /\ Sends(b, "view", Nil, tab[b].cache) /\ SetTab(b, new)
  BY DEF MarkViewed, Acts
<1>2. tab[b] \in Page /\ tab[b].cache \in Response
  BY <1>1, PageOf DEF TypeInv
<1>3. PageOK(p) /\ p.cache \in Response
  BY <1>2 DEF PageOK, Page, Response
<1> HIDE DEF p
<1>4. PageOK(new) /\ new.cache \in Response
  BY <1>3, CanceledIsPage
<1> HIDE DEF new
<1>5. Pages' /\ PagesGrow
  BY <1>1, <1>4, PageGrows DEF TypeInv
<1>6. Requests'
  BY <1>1, <1>2, <1>5, SentRequestsGrow DEF TypeInv
<1> QED
  BY <1>1, <1>5, <1>6, SameRows DEF TypeInv

LEMMA TypeRequest ==
    ASSUME TypeInv, NEW b \in DOMAIN tab, Request(b)
    PROVE  TypeInv'
<1>1. Mounted(b) /\ UNCHANGED rows /\ UNCHANGED tab
  BY DEF Request, Acts
<1>2. PICK kind, arg :
        /\ Sends(b, kind, arg, Nil)
        /\ kind \notin {"config", "reorder", "todo_reorder"}
        /\ kind = "retention" => arg \in Retention
        /\ kind = "reset" => arg = Default
  BY DEF Request
<1>3. Pages' /\ PagesGrow
  BY <1>1, SamePages DEF TypeInv
<1>4. tab[b].cache \in Response
  BY <1>1, PageOf DEF TypeInv
<1>5. Requests'
  BY <1>2, <1>3, <1>4, SentRequestsGrow, ConstantsAssumption DEF TypeInv
<1> QED
  BY <1>1, <1>3, <1>5, SameRows DEF TypeInv

LEMMA TypeReload ==
    ASSUME TypeInv, NEW b \in DOMAIN tab, Reload(b)
    PROVE  TypeInv'
<1> DEFINE new == Fresh(tab[b].local)
<1>1. SetTab(b, new) /\ UNCHANGED rows
  BY DEF Reload
<1>2. PageOK(new)
  BY PageOf, FreshIsPage DEF TypeInv, Page
<1> HIDE DEF new
<1>3. Pages' /\ DOMAIN tab' = DOMAIN tab /\ \A c \in DOMAIN tab : c # b => tab'[c] = tab[c]
  BY <1>1, <1>2, PageIsSet DEF TypeInv
<1>4. OpsContinue /\ \A x \in ToSet(ops') : x.tab = b => x.tab = Nil
  BY ReloadContinues DEF TypeInv
<1>5. Requests'
  <2> SUFFICES ASSUME NEW x \in ToSet(ops') PROVE OpOK(x) /\ Attached(x, tab')
    BY <1>4 DEF Requests, OpsContinue
  <2>1. PICK o \in ToSet(ops) : Continues(x, o)
    BY <1>4 DEF OpsContinue
  <2>2. OpOK(o) /\ Attached(o, tab)
    BY DEF TypeInv, Requests
  <2>3. OpOK(x)
    BY <2>1, <2>2 DEF OpOK, Continues
  <2>4. Attached(x, tab')
    BY <1>3, <1>4, <2>1, <2>2 DEF Attached, Continues
  <2> QED
    BY <2>3, <2>4
<1> QED
  BY <1>1, <1>3, <1>5, SameRows DEF TypeInv

LEMMA TypeSucceed ==
    ASSUME TypeInv, NEW i \in DOMAIN ops, Succeed(i)
    PROVE  TypeInv'
<1> DEFINE o == ops[i]
           b == o.tab
           old == tab[b]
           new == OnSuccess(b, o)
<1>1. UNCHANGED rows /\ Answered(i) /\ IF b = Nil THEN UNCHANGED tab ELSE SetTab(b, new)
  BY Zenon DEF Succeed
<1>2. OpOK(o) /\ Attached(o, tab)
  BY OpsAreRequests DEF TypeInv
<1>3. ASSUME b # Nil PROVE PageOK(new) /\ new.cache \in Response
  <2>1. old \in Page /\ PageOK(old) /\ old.cache \in Response
    BY <1>2, <1>3, PageOf DEF TypeInv, Attached
  <2> DEFINE asked == [old.cache EXCEPT !.config = o.arg]
             shown == Showing(old, asked)
             seen == [old.cache EXCEPT !.unviewed = {}]
  <2>2. o.kind \in {"config", "reset"} => asked \in Response
    BY <1>2, <2>1 DEF OpOK, Response
  <2>3. o.kind \in {"config", "reset"} =>
            shown \in Page /\ PageOK(shown) /\ shown.cache \in Response
    BY <2>1, <2>2, ShowingShows DEF PageOK
  <2>4. seen \in Response
    BY <2>1 DEF Response
  <2>5. CASE o.kind = "config"
    <3>1. new = IF o.screen THEN [shown EXCEPT !.synced = o.arg] ELSE shown
      BY <2>5, Zenon DEF OnSuccess
    <3>2. o.arg \in Config
      BY <1>2, <2>5 DEF OpOK
    <3> HIDE DEF shown, new
    <3> QED
      BY <2>3, <2>5, <3>1, <3>2 DEF PageOK, Page
  <2>6. CASE o.kind = "reset"
    <3> DEFINE blank == [[old EXCEPT !.local = Default] EXCEPT !.cached = FALSE]
               reshown == Showing(blank, shown.cache)
    <3>1. new = IF o.screen
                THEN [[[shown EXCEPT !.local = Default] EXCEPT !.synced = Default]
                        EXCEPT !.timer = FALSE]
                ELSE IF old.mounted THEN shown ELSE reshown
      BY <2>6 DEF OnSuccess
    <3>2. blank \in Page
      BY <2>1, ConstantsAssumption DEF Page
    <3> HIDE DEF blank, shown
    <3>3. PageOK(reshown) /\ reshown.cache \in Response
      BY <2>3, <2>6, <3>2, ShowingShows
    <3> HIDE DEF reshown, new
    <3>4. CASE o.screen
      <4>1. new = [[[shown EXCEPT !.local = Default] EXCEPT !.synced = Default]
                        EXCEPT !.timer = FALSE]
        BY <3>1, <3>4
      <4> QED
        BY <2>3, <2>6, <4>1, ConstantsAssumption DEF PageOK, Page
    <3>5. CASE ~o.screen
      BY <2>3, <2>6, <3>1, <3>3, <3>5
    <3> QED
      BY <3>4, <3>5
  <2>7. CASE o.kind = "view"
    <3>1. new = Showing(old, seen)
      BY <2>7, Zenon DEF OnSuccess
    <3> HIDE DEF seen, new
    <3> QED
      BY <2>1, <2>4, <3>1, ShowingShows
  <2>8. CASE o.kind = "retention"
    <3>1. new = old
      BY <2>8, Zenon DEF OnSuccess
    <3> QED
      BY <2>1, <3>1
  <2>9. CASE o.kind \notin {"config", "reset", "view", "retention"}
    <3>1. new = Canceled(old)
      BY <2>9 DEF OnSuccess
    <3> QED
      BY <2>1, <3>1, CanceledIsPage
  <2> QED
    BY <2>5, <2>6, <2>7, <2>8, <2>9
<1> HIDE DEF new, b
<1>4. Pages' /\ PagesGrow
  BY <1>1, <1>3, SamePages, PageGrows DEF TypeInv
<1>5. Requests'
  BY <1>1, <1>4, AnsweredContinues, RequestsGrow DEF TypeInv
<1> QED
  BY <1>1, <1>4, <1>5, SameRows DEF TypeInv

LEMMA TypeRefuse ==
    ASSUME TypeInv, NEW i \in DOMAIN ops, Refuse(i)
    PROVE  TypeInv'
<1> DEFINE o == ops[i]
           b == o.tab
           new == Showing(tab[b], o.previous)
<1>1. UNCHANGED rows /\ Answered(i)
      /\ IF b = Nil \/ o.previous = Nil THEN UNCHANGED tab ELSE SetTab(b, new)
  BY Zenon DEF Refuse
<1>2. OpOK(o) /\ Attached(o, tab)
  BY OpsAreRequests DEF TypeInv
<1>3. ASSUME b # Nil, o.previous # Nil PROVE PageOK(new) /\ new.cache \in Response
  <2>1. tab[b] \in Page
    BY <1>2, <1>3, PageOf DEF TypeInv, Attached
  <2>2. o.previous \in Response
    BY <1>2, <1>3 DEF OpOK
  <2> QED
    BY <2>1, <2>2, ShowingShows
<1> HIDE DEF new, b
<1>4. Pages' /\ PagesGrow
  BY <1>1, <1>3, SamePages, PageGrows DEF TypeInv
<1>5. Requests'
  BY <1>1, <1>4, AnsweredContinues, RequestsGrow DEF TypeInv
<1> QED
  BY <1>1, <1>4, <1>5, SameRows DEF TypeInv

LEMMA TypeReads ==
    ASSUME TypeInv, NEW i \in DOMAIN ops, ReadTasks(i) \/ ReadViewed(i) \/ ReadTodos(i)
    PROVE  TypeInv'
<1>1. UNCHANGED rows /\ UNCHANGED tab
  BY DEF ReadTasks, ReadViewed, ReadTodos
<1>2. OpOK(ops[i]) /\ Attached(ops[i], tab)
  BY OpsAreRequests DEF TypeInv
<1>3. Pages' /\ PagesGrow
  BY <1>1, SamePages DEF TypeInv
<1>4. CASE ReadTodos(i)
  BY <1>1, <1>3, <1>4, ReadTodosContinues, RequestsGrow, SameRows DEF TypeInv
<1>5. CASE ReadTasks(i) \/ ReadViewed(i)
  <2>1. /\ IsList(ops')
        /\ \A x \in ToSet(ops') :
             \/ \E o \in ToSet(ops) : Continues(x, o)
             \/ /\ Shape(x) /\ x.tab = ops[i].tab /\ x.previous = ops[i].previous
                /\ \/ x.kind = "reorder" /\ x.arg = ops[i].arg /\ ops[i].kind = "reorder"
                   \/ x.kind = "view" /\ x.read = ActiveTasks
    BY <1>5, ReadTasksReads, ReadViewedReads DEF TypeInv, ReadTasks, Active
  <2>2. ActiveTasks \in SUBSET Task
    BY TaskListIsSorted DEF TypeInv
  <2>3. ASSUME NEW x \in ToSet(ops') PROVE OpOK(x) /\ Attached(x, tab')
    <3>1. CASE \E o \in ToSet(ops) : Continues(x, o)
      <4>1. PICK o \in ToSet(ops) : Continues(x, o)
        BY <3>1
      <4>2. OpOK(o) /\ Attached(o, tab)
        BY DEF TypeInv, Requests
      <4> QED
        BY <1>1, <4>1, <4>2 DEF OpOK, Continues, Attached
    <3>2. CASE /\ Shape(x) /\ x.tab = ops[i].tab /\ x.previous = ops[i].previous
               /\ \/ x.kind = "reorder" /\ x.arg = ops[i].arg /\ ops[i].kind = "reorder"
                  \/ x.kind = "view" /\ x.read = ActiveTasks
      BY <1>1, <1>2, <2>2, <3>2 DEF OpOK, Attached
    <3> QED
      BY <2>1, <3>1, <3>2
  <2>4. Requests'
    BY <2>1, <2>3 DEF Requests
  <2> QED
    BY <1>1, <1>3, <2>4, SameRows DEF TypeInv
<1> QED
  BY <1>4, <1>5

LEMMA TypeFail ==
    ASSUME TypeInv, NEW i \in DOMAIN ops, Fail(i)
    PROVE  TypeInv'
BY SameRows, SamePages, FailContinues, RequestsGrow DEF TypeInv, Fail

\* Steps that change only rows, once their requests are known to continue.
LEMMA RowsAlone ==
    ASSUME TypeInv, UNCHANGED tab, OpsContinue, Rows'
    PROVE  TypeInv'
BY SamePages, RequestsGrow DEF TypeInv

LEMMA TypeReorderProjectTasks ==
    ASSUME TypeInv, NEW i \in DOMAIN ops, ReorderProjectTasks(i)
    PROVE  TypeInv'
<1> DEFINE order == ops[i].arg
           changed == Renumbered(i)
<1>1. /\ tasks' = [t \in DOMAIN tasks |-> IF t \in changed THEN Place(order)[t] - 1 ELSE tasks[t]]
      /\ OwnChange(changed)
      /\ UNCHANGED <<archived, born, todos, retention, config, tab>>
  BY Zenon DEF ReorderProjectTasks
<1>2. order \in Seq(Task)
  <2>1. OpOK(ops[i]) /\ ops[i].kind = "reorder"
    BY OpsAreRequests DEF TypeInv, ReorderProjectTasks, Active
  <2> QED
    BY <2>1 DEF OpOK
<1>3. changed \subseteq ToSet(order)
  BY DEF Renumbered, ToSet
<1> HIDE DEF order, changed
<1>4. ASSUME NEW t \in changed PROVE Place(order)[t] - 1 \in Nat /\ t \in Task
  <2>1. Place(order)[t] \in DOMAIN order /\ DOMAIN order = 1..Len(order) /\ Len(order) \in Nat
    BY <1>2, <1>3, PlacesAreThere
  <2>2. ToSet(order) \subseteq Task
    BY <1>2, ListsAreLists
  <2> QED
    BY <1>3, <2>1, <2>2
<1>5. viewed' \subseteq Task
  BY <1>1, <1>4 DEF OwnChange, TypeInv, Rows
<1>6. /\ DOMAIN tasks' = DOMAIN tasks /\ tasks' = [t \in DOMAIN tasks' |-> tasks'[t]]
      /\ \A t \in DOMAIN tasks' : tasks'[t] \in Nat
  BY <1>1, <1>4 DEF TypeInv, Rows
<1>7. Rows'
  BY <1>1, <1>5, <1>6 DEF TypeInv, Rows, Ids
<1> QED
  BY <1>1, <1>7, ReorderContinues, RowsAlone DEF TypeInv

LEMMA TypeMarkProjectViewed ==
    ASSUME TypeInv, NEW i \in DOMAIN ops, MarkProjectViewed(i)
    PROVE  TypeInv'
<1>1. viewed' = viewed \cup ops[i].read
      /\ UNCHANGED <<tasks, archived, born, todos, retention, config, tab>>
  BY DEF MarkProjectViewed
<1>2. ops[i].read \in SUBSET Task
  BY OpsAreRequests DEF TypeInv, MarkProjectViewed, Active, OpOK
<1>3. Rows'
  BY <1>1, <1>2 DEF TypeInv, Rows, Ids
<1> QED
  BY <1>1, <1>3, ServedContinues, RowsAlone DEF TypeInv

\* A task more, with the next id and the next sortOrder.
LEMMA CreatedTask ==
    ASSUME Rows, NextTask \in Task, tasks' = With(tasks, NextTask, NextTaskOrder)
    PROVE  /\ DOMAIN tasks' = DOMAIN tasks \cup {NextTask} /\ DOMAIN tasks' \subseteq Task
           /\ NextTask \notin DOMAIN tasks
           /\ \A t \in DOMAIN tasks : tasks'[t] = tasks[t]
           /\ tasks' = [t \in DOMAIN tasks' |-> tasks'[t]]
           /\ \A t \in DOMAIN tasks' : tasks'[t] \in Nat
           /\ Ids'
<1> DEFINE n == Cardinality(DOMAIN tasks)
<1>1. n \in Nat /\ DOMAIN tasks = 1..n /\ NextTask = n + 1
  BY DEF Rows, Ids, NextTask
<1> HIDE DEF n
<1>2. NextTask \notin DOMAIN tasks /\ DOMAIN tasks \cup {NextTask} = 1..n + 1
  BY <1>1
<1>3. NextTaskOrder \in Nat
  <2> DEFINE orders == {tasks[t] : t \in DOMAIN tasks}
  <2>1. orders \in SUBSET Nat
    BY DEF Rows
  <2>2. IsFiniteSet(DOMAIN tasks)
    BY TaskListIsSorted
  <2>3. IsFiniteSet(orders)
    <3>1. tasks \in Surjection(DOMAIN tasks, orders)
      BY DEF Rows, Surjection
    <3> HIDE DEF orders
    <3> QED
      BY <2>2, <3>1, FS_Surjection
  <2> HIDE DEF orders
  <2>4. NextOrder(orders) \in Nat
    BY <2>1, <2>3, NextOrderIsNatural
  <2> QED
    BY <2>4 DEF NextTaskOrder, orders
<1>4. /\ DOMAIN tasks' = DOMAIN tasks \cup {NextTask}
      /\ tasks'[NextTask] = NextTaskOrder
      /\ \A t \in DOMAIN tasks : tasks'[t] = tasks[t]
      /\ tasks' = [t \in DOMAIN tasks' |-> tasks'[t]]
  BY <1>2 DEF With
<1>5. Cardinality(DOMAIN tasks') = n + 1
  <2>1. 1 \in Int /\ n + 1 \in Int /\ n + 1 >= 1
    BY <1>1
  <2>2. Cardinality(1..n + 1) = n + 1
    BY <1>1, <2>1, FS_Interval
  <2> QED
    BY <1>2, <1>4, <2>2
<1>6. Ids'
  <2> DEFINE D == DOMAIN tasks'
             c == Cardinality(D)
  <2>0. D = 1..n + 1
    BY <1>2, <1>4, Zenon
  <2>1. D = 1..n + 1 /\ c = n + 1 /\ c \in Nat
    BY <1>1, <1>5, <2>0
  <2> HIDE DEF D, c
  <2>2. D = 1..c /\ c \in Nat
    BY <2>1
  <2> QED
    BY <2>2, Zenon DEF Ids, D, c
<1>7. \A t \in DOMAIN tasks' : tasks'[t] \in Nat
  BY <1>3, <1>4 DEF Rows
<1> QED
  BY <1>2, <1>4, <1>6, <1>7 DEF Rows

LEMMA TypeEditTask ==
    ASSUME TypeInv, NEW i \in DOMAIN ops, EditTask(i)
    PROVE  TypeInv'
<1>1. UNCHANGED <<born, todos, retention, config, tab>>
  BY DEF EditTask
<1>2. ActiveTasks \subseteq Task /\ ActiveTasks \subseteq DOMAIN tasks
  BY TaskListIsSorted DEF TypeInv
<1>3. CASE /\ NextTask \in Task /\ tasks' = With(tasks, NextTask, NextTaskOrder)
           /\ OwnChange({NextTask}) /\ UNCHANGED archived
  <2>1. viewed' \subseteq Task
    BY <1>3 DEF OwnChange, TypeInv, Rows
  <2> QED
    BY <1>1, <1>3, <2>1, CreatedTask, ServedContinues, RowsAlone DEF TypeInv, Rows
<1>4. CASE /\ ops[i].arg \in ActiveTasks /\ archived' \in {archived, archived \cup {ops[i].arg}}
           /\ OwnChange({ops[i].arg}) /\ UNCHANGED tasks
  <2>1. viewed' \subseteq Task /\ archived' \subseteq DOMAIN tasks
    BY <1>2, <1>4 DEF OwnChange, TypeInv, Rows
  <2>2. Rows'
    BY <1>1, <1>4, <2>1 DEF TypeInv, Rows, Ids
  <2> QED
    BY <1>1, <2>2, ServedContinues, RowsAlone DEF TypeInv
<1>5. CASE UNCHANGED <<tasks, archived, viewed>>
  <2>1. Rows'
    BY <1>1, <1>5, SameRows DEF TypeInv, rows
  <2> QED
    BY <1>1, <2>1, ServedContinues, RowsAlone DEF TypeInv
<1> QED
  BY <1>3, <1>4, <1>5 DEF EditTask

LEMMA TypeEditSettings ==
    ASSUME TypeInv, NEW i \in DOMAIN ops, EditSettings(i)
    PROVE  TypeInv'
<1>1. UNCHANGED <<tasks, archived, born, viewed, todos, tab>>
  BY DEF EditSettings
<1>2. OpOK(ops[i])
  BY OpsAreRequests DEF TypeInv
<1>3. config' \in Config /\ retention' \in Retention
  BY <1>2, ConstantsAssumption DEF EditSettings, OpOK, TypeInv, Rows, Retention
<1>4. Rows'
  BY <1>1, <1>3 DEF TypeInv, Rows, Ids
<1> QED
  BY <1>1, <1>4, ServedContinues, RowsAlone DEF TypeInv

LEMMA TypeReorderPersonalTodos ==
    ASSUME TypeInv, NEW i \in DOMAIN ops, ReorderPersonalTodos(i)
    PROVE  TypeInv'
<1> DEFINE order == ops[i].arg
           changed == {n \in DOMAIN order : ops[i].read[order[n]].order # n - 1}
<1>1. /\ UNCHANGED <<tasks, archived, born, viewed, retention, config, tab>>
      /\ \/ UNCHANGED todos
         \/ todos' = [d \in DOMAIN todos |->
                        [todos[d] EXCEPT !.order =
                            IF \E n \in changed : order[n] = d
                            THEN (CHOOSE n \in changed : order[n] = d) - 1 ELSE @]]
  BY Zenon DEF ReorderPersonalTodos
<1>2. order \in Seq(Todo)
  <2>1. OpOK(ops[i]) /\ ops[i].kind = "todo_reorder"
    BY OpsAreRequests DEF TypeInv, ReorderPersonalTodos, Active
  <2> QED
    BY <2>1 DEF OpOK
<1>3. \A n \in changed : n - 1 \in Nat
  BY <1>2
<1> HIDE DEF order, changed
<1>4. CASE UNCHANGED todos
  <2>1. Rows'
    BY <1>1, <1>4, SameRows DEF TypeInv, rows
  <2> QED
    BY <1>1, <2>1, ServedContinues, RowsAlone DEF TypeInv
<1>5. CASE todos' = [d \in DOMAIN todos |->
                        [todos[d] EXCEPT !.order =
                            IF \E n \in changed : order[n] = d
                            THEN (CHOOSE n \in changed : order[n] = d) - 1 ELSE @]]
  <2>1. ASSUME NEW d \in DOMAIN todos PROVE todos'[d] \in TodoRow
    <3> DEFINE place == IF \E n \in changed : order[n] = d
                        THEN (CHOOSE n \in changed : order[n] = d) - 1 ELSE todos[d].order
    <3>1. todos[d] \in TodoRow
      BY DEF TypeInv, Rows
    <3>2. place \in Nat
      BY <1>3, <3>1, Zenon DEF TodoRow
    <3>3. todos'[d] = [todos[d] EXCEPT !.order = place]
      BY <1>5, <3>1 DEF TodoRow
    <3> HIDE DEF place
    <3> QED
      BY <3>1, <3>2, <3>3 DEF TodoRow
  <2>2. DOMAIN todos' = DOMAIN todos /\ todos' = [d \in DOMAIN todos' |-> todos'[d]]
    BY <1>5
  <2>3. Rows'
    BY <1>1, <2>1, <2>2 DEF TypeInv, Rows, Ids
  <2> QED
    BY <1>1, <2>3, ServedContinues, RowsAlone DEF TypeInv
<1> QED
  BY <1>1, <1>4, <1>5

LEMMA TypeEditTodo ==
    ASSUME TypeInv, NEW i \in DOMAIN ops, EditTodo(i)
    PROVE  TypeInv'
<1> DEFINE d == ops[i].arg
<1>1. UNCHANGED <<tasks, archived, viewed, retention, config, tab>>
  BY DEF EditTodo
<1>2. born + 1 \in Todo => born + 1 \in 0..Cardinality(Todo)
  BY IdsAreNumbers
<1>3. NextTodoOrder \in Nat
  <2> DEFINE orders == {todos[x].order : x \in DOMAIN todos}
  <2>1. orders \in SUBSET Nat
    BY DEF TypeInv, Rows, TodoRow
  <2>2. IsFiniteSet(DOMAIN todos)
    <3>1. born \in Int /\ DOMAIN todos \in SUBSET (1..born)
      BY DEF TypeInv, Rows
    <3> QED
      <4>1. IsFiniteSet(1..born)
        BY <3>1, FS_Interval
      <4> QED
        BY <3>1, <4>1, FS_Subset
  <2>3. IsFiniteSet(orders)
    <3> DEFINE f == [x \in DOMAIN todos |-> todos[x].order]
    <3>1. f \in Surjection(DOMAIN todos, orders)
      BY DEF Surjection
    <3> HIDE DEF orders, f
    <3> QED
      BY <2>2, <3>1, FS_Surjection
  <2> HIDE DEF orders
  <2>4. NextOrder(orders) \in Nat
    BY <2>1, <2>3, NextOrderIsNatural
  <2> QED
    BY <2>4 DEF NextTodoOrder, orders
<1> HIDE DEF d
<1>4. \/ born + 1 \in Todo /\ born' = born + 1
         /\ todos' = With(todos, born + 1, [order |-> NextTodoOrder, done |-> FALSE])
      \/ born + 1 \in Todo /\ born' = born + 1
         /\ \E done \in BOOLEAN : todos' = [x \in {born + 1} |-> [order |-> 0, done |-> done]]
      \/ born' = born /\ todos' = [x \in {} |-> Nil]
      \/ born' = born /\ todos' = todos
      \/ born' = born /\ todos' = Without(todos, {d})
      \/ /\ born' = born /\ d \in DOMAIN todos
         /\ todos' = [todos EXCEPT ![d].done = ops[i].kind = "todo_check"]
  BY DEF EditTodo, d
<1>5. /\ born' \in 0..Cardinality(Todo) /\ DOMAIN todos' \subseteq 1..born'
      /\ todos' = [x \in DOMAIN todos' |-> todos'[x]]
      /\ \A x \in DOMAIN todos' : todos'[x] \in TodoRow
  <2>1. born \in 0..Cardinality(Todo) /\ DOMAIN todos \subseteq 1..born /\ Cardinality(Todo) \in Nat
        /\ todos = [x \in DOMAIN todos |-> todos[x]] /\ \A x \in DOMAIN todos : todos[x] \in TodoRow
    BY IdsAreNumbers DEF TypeInv, Rows
  <2>2. CASE born + 1 \in Todo /\ born' = born + 1
             /\ todos' = With(todos, born + 1, [order |-> NextTodoOrder, done |-> FALSE])
    BY <1>2, <1>3, <2>1, <2>2 DEF With, TodoRow
  <2>3. CASE born + 1 \in Todo /\ born' = born + 1
             /\ \E done \in BOOLEAN : todos' = [x \in {born + 1} |-> [order |-> 0, done |-> done]]
    BY <1>2, <2>1, <2>3 DEF TodoRow
  <2>4. CASE born' = born /\ todos' = [x \in {} |-> Nil]
    BY <2>1, <2>4
  <2>5. CASE born' = born /\ todos' = todos
    BY <2>1, <2>5
  <2>6. CASE born' = born /\ todos' = Without(todos, {d})
    BY <2>1, <2>6 DEF Without
  <2>7. CASE /\ born' = born /\ d \in DOMAIN todos
             /\ todos' = [todos EXCEPT ![d].done = ops[i].kind = "todo_check"]
    <3>1. todos[d] \in TodoRow
      BY <2>1, <2>7
    <3> DEFINE done == ops[i].kind = "todo_check"
    <3>2. done \in BOOLEAN
      OBVIOUS
    <3>3. todos' = [todos EXCEPT ![d] = [todos[d] EXCEPT !.done = done]]
      BY <2>7, <3>1
    <3> HIDE DEF done
    <3>4. [todos[d] EXCEPT !.done = done] \in TodoRow
      BY <3>1, <3>2 DEF TodoRow
    <3> QED
      BY <2>1, <2>7, <3>3, <3>4
  <2> QED
    BY <1>4, <2>2, <2>3, <2>4, <2>5, <2>6, <2>7
<1>6. Rows'
  BY <1>1, <1>5 DEF TypeInv, Rows, Ids
<1> QED
  BY <1>1, <1>6, ServedContinues, RowsAlone DEF TypeInv

LEMMA TypeColleagues ==
    ASSUME TypeInv, ColleagueEdits \/ ColleagueReorders
    PROVE  TypeInv'
<1>1. OpsContinue
  BY ColleaguesContinue DEF TypeInv
<1>2. UNCHANGED <<born, todos, retention, config, tab>>
  BY DEF ColleagueEdits, ColleagueReorders
<1>3. viewed' \subseteq Task
  BY DEF ColleagueEdits, ColleagueReorders, TheirChange, TypeInv, Rows
<1>4. CASE ColleagueEdits
  <2>1. PICK t \in Task :
            \/ t \in ActiveTasks /\ archived' \in {archived, archived \cup {t}} /\ UNCHANGED tasks
            \/ t = NextTask /\ tasks' = With(tasks, t, NextTaskOrder) /\ UNCHANGED archived
    BY <1>4 DEF ColleagueEdits
  <2>2. CASE t \in ActiveTasks /\ archived' \in {archived, archived \cup {t}} /\ UNCHANGED tasks
    <3>1. archived' \subseteq DOMAIN tasks
      BY <2>2, TaskListIsSorted DEF TypeInv, Rows
    <3>2. Rows'
      BY <1>2, <1>3, <2>2, <3>1 DEF TypeInv, Rows, Ids
    <3> QED
      BY <1>1, <1>2, <3>2, RowsAlone
  <2>3. CASE t = NextTask /\ tasks' = With(tasks, t, NextTaskOrder) /\ UNCHANGED archived
    <3>1. Rows'
      BY <1>2, <1>3, <2>3, CreatedTask DEF TypeInv, Rows
    <3> QED
      BY <1>1, <1>2, <3>1, RowsAlone
  <2> QED
    BY <2>1, <2>2, <2>3
<1>5. CASE ColleagueReorders
  <2>1. PICK order \in Moved(TaskList) :
            tasks' = [t \in DOMAIN tasks |-> IF t \in ActiveTasks THEN Place(order)[t] - 1 ELSE tasks[t]]
    BY <1>5, Zenon DEF ColleagueReorders
  <2>2. TaskList \in Seq(Task) /\ ToSet(TaskList) = ActiveTasks
    BY TaskListIsSorted DEF TypeInv
  <2>3. order \in Seq(Task) /\ ToSet(order) = ActiveTasks
    BY <2>2, MovedIsPermuted
  <2>4. ASSUME NEW t \in ActiveTasks PROVE Place(order)[t] - 1 \in Nat
    BY <2>3, PlacesAreThere
  <2>5. /\ DOMAIN tasks' = DOMAIN tasks /\ tasks' = [t \in DOMAIN tasks' |-> tasks'[t]]
        /\ \A t \in DOMAIN tasks' : tasks'[t] \in Nat
    BY <2>1, <2>4 DEF TypeInv, Rows
  <2>6. UNCHANGED archived
    BY <1>5 DEF ColleagueReorders
  <2>7. Rows'
    BY <1>2, <1>3, <2>5, <2>6 DEF TypeInv, Rows, Ids
  <2> QED
    BY <1>1, <1>2, <2>7, RowsAlone
<1> QED
  BY <1>4, <1>5

LEMMA InitTypes == Init => TypeInv
<1> SUFFICES ASSUME Init PROVE TypeInv
  OBVIOUS
<1>1. FirstTasks \in Nat /\ FirstTasks \in 1..Cardinality(Task)
      /\ FirstTodos \in Nat /\ FirstTodos \in 1..Cardinality(Todo)
  BY ConstantsAssumption, IdsAreNumbers
<1>2. 1..FirstTasks \subseteq Task /\ Cardinality(1..FirstTasks) = FirstTasks
  <2>1. Cardinality(1..FirstTasks) = FirstTasks
    BY <1>1, FS_Interval
  <2>2. \A t \in 1..FirstTasks : t \in 1..Cardinality(Task)
    BY <1>1, IdsAreNumbers
  <2> QED
    BY <2>1, <2>2, IdsAreNumbers
<1>3. DOMAIN tasks = 1..FirstTasks /\ tasks = [t \in 1..FirstTasks |-> t - 1]
  BY DEF Init
<1>4. Ids
  BY <1>1, <1>2, <1>3 DEF Ids
<1>5. Rows
  BY <1>1, <1>2, <1>3, <1>4, ConstantsAssumption, IdsAreNumbers DEF Init, Rows, TodoRow, Retention
<1>6. Pages
  <2>1. PICK open \in SUBSET Tab : tab \in [open -> {Fresh(local) : local \in Config}]
    BY DEF Init
  <2>2. ASSUME NEW b \in open PROVE PageOK(tab[b])
    <3>1. PICK local \in Config : tab[b] = Fresh(local)
      BY <2>1
    <3> QED
      BY <3>1, FreshIsPage
  <2> QED
    BY <2>1, <2>2 DEF Pages, PageOK
<1>7. Requests
  <2>1. ops = <<>>
    BY DEF Init
  <2>2. ToSet(ops) = {} /\ IsList(ops)
    BY <2>1 DEF ToSet, IsList
  <2> QED
    BY <2>2 DEF Requests
<1> QED
  BY <1>5, <1>6, <1>7 DEF TypeInv

LEMMA TypesAreInductive == TypeInv /\ [Next]_vars => TypeInv'
<1> SUFFICES ASSUME TypeInv, [Next]_vars PROVE TypeInv'
  OBVIOUS
<1>1. CASE UNCHANGED vars
  BY <1>1, SameRows, SamePages, SameRequests, RequestsGrow DEF vars, TypeInv
<1>2. ASSUME NEW b \in DOMAIN tab, PollStep(b) \/ PollFails(b) \/ UserStep(b) \/ SyncUserConfig(b)
      PROVE  TypeInv'
  BY <1>2, TypePollRows, TypePollAnswer, TypePollFails, TypeChoose, TypeReorder, TypeMarkViewed,
     TypeReorderTodos, TypeRequest, TypeReload, TypeSyncUserConfig DEF PollStep, UserStep
<1>3. ASSUME NEW i \in DOMAIN ops, Serve(i) \/ Succeed(i) \/ Refuse(i) \/ Fail(i)
      PROVE  TypeInv'
  BY <1>3, TypeReads, TypeReorderProjectTasks, TypeMarkProjectViewed, TypeEditTask, TypeEditSettings,
     TypeReorderPersonalTodos, TypeEditTodo, TypeSucceed, TypeRefuse, TypeFail DEF Serve
<1> QED
  BY <1>1, <1>2, <1>3, TypeColleagues DEF Next, RequestStep

(* The tables of tasks and to-dos, the marks, the settings and what every     *)
(* tab believes stay what they are declared as, whatever crosses what: a row  *)
(* is never written from a response, a request or an order of another kind.   *)
THEOREM ClientTypes == Spec => []TypeOK
<1>1. TypeInv => TypeOK
  BY DEF TypeInv, Rows, Pages, PageOK, Page, TypeOK
<1> QED
  BY <1>1, InitTypes, TypesAreInductive, PTL DEF Spec

-----------------------------------------------------------------------------
(* The order of the tasks.                                                   *)

\* Requests that go on while no task they have read changes.
LEMMA OrdersStay ==
    ASSUME TypeInv, OrderInv, OpsContinue, UNCHANGED dropped,
           DOMAIN tasks \subseteq DOMAIN tasks', \A t \in DOMAIN tasks : tasks'[t] = tasks[t]
    PROVE  OrderInv'
<1>1. DropOK'
  BY DEF OrderInv, DropOK
<1>2. ASSUME NEW x \in ToSet(ops') PROVE ReadOK(x)'
  <2>1. PICK o \in ToSet(ops) : Continues(x, o)
    BY DEF OpsContinue
  <2>2. ReadOK(o)
    BY DEF OrderInv
  <2> QED
    BY <2>1, <2>2 DEF ReadOK, Continues
<1> QED
  BY <1>1, <1>2 DEF OrderInv

LEMMA OrderSends ==
    ASSUME TypeInv, OrderInv, NEW b, NEW kind, NEW arg, NEW previous,
           Sends(b, kind, arg, previous), UNCHANGED <<tasks, dropped>>
    PROVE  OrderInv'
<1>1. DropOK'
  BY DEF OrderInv, DropOK
<1>2. ASSUME NEW x \in ToSet(ops') PROVE ReadOK(x)'
  <2>1. (\E o \in ToSet(ops) : Continues(x, o)) \/ Sent(x, b, kind, arg, previous)
    BY SendsOneMore DEF TypeInv
  <2>2. CASE \E o \in ToSet(ops) : Continues(x, o)
    <3>1. PICK o \in ToSet(ops) : Continues(x, o)
      BY <2>2
    <3>2. ReadOK(o)
      BY DEF OrderInv
    <3> QED
      BY <3>1, <3>2 DEF ReadOK, Continues
  <2>3. CASE Sent(x, b, kind, arg, previous)
    BY <2>3 DEF ReadOK, Sent
  <2> QED
    BY <2>1, <2>2, <2>3
<1> QED
  BY <1>1, <1>2 DEF OrderInv

LEMMA OrderPage ==
    ASSUME TypeInv, OrderInv, NEW b \in DOMAIN tab,
           PollStep(b) \/ PollFails(b) \/ UserStep(b) \/ SyncUserConfig(b)
    PROVE  OrderInv'
<1>1. CASE PollRows(b) \/ PollAnswer(b) \/ \E c \in Config : Choose(b, c)
  <2>1. ops' = ops /\ UNCHANGED <<tasks, dropped>>
    BY <1>1 DEF PollRows, PollAnswer, Choose, rows, history
  <2> QED
    BY <2>1, SameRequests, OrdersStay DEF TypeInv
<1>2. CASE PollFails(b) \/ Reload(b)
  <2>1. UNCHANGED <<tasks, dropped>>
    BY <1>2 DEF PollFails, Reload, rows, history
  <2> QED
    BY <1>2, <2>1, PollFailsContinues, ReloadContinues, OrdersStay DEF TypeInv
<1>3. CASE Reorder(b) \/ MarkViewed(b) \/ ReorderTodos(b) \/ Request(b) \/ SyncUserConfig(b)
  <2>1. UNCHANGED <<tasks, dropped>>
    BY <1>3 DEF Reorder, MarkViewed, ReorderTodos, Request, SyncUserConfig, rows, history
  <2>2. \E kind, arg, previous : Sends(b, kind, arg, previous)
    <3>1. CASE Reorder(b)
      BY <3>1, Zenon DEF Reorder
    <3>2. CASE MarkViewed(b)
      BY <3>2 DEF MarkViewed
    <3>3. CASE ReorderTodos(b)
      BY <3>3, Zenon DEF ReorderTodos
    <3>4. CASE Request(b)
      BY <3>4 DEF Request
    <3>5. CASE SyncUserConfig(b)
      BY <3>5 DEF SyncUserConfig
    <3> QED
      BY <1>3, <3>1, <3>2, <3>3, <3>4, <3>5
  <2> QED
    BY <2>1, <2>2, OrderSends
<1> QED
  BY <1>1, <1>2, <1>3 DEF PollStep, UserStep

LEMMA OrderRequest ==
    ASSUME TypeInv, OrderInv, NEW i \in DOMAIN ops,
           \/ ReadViewed(i) \/ MarkProjectViewed(i) \/ EditTask(i) \/ EditSettings(i)
           \/ ReadTodos(i) \/ ReorderPersonalTodos(i) \/ EditTodo(i)
           \/ Succeed(i) \/ Refuse(i) \/ Fail(i)
    PROVE  OrderInv'
<1>1. UNCHANGED dropped
  BY DEF ReadViewed, MarkProjectViewed, EditTask, EditSettings, ReadTodos, ReorderPersonalTodos,
         EditTodo, Succeed, Refuse, Fail, history
<1>2. CASE ReadViewed(i)
  <2>1. UNCHANGED tasks
    BY <1>2 DEF ReadViewed, rows
  <2>2. DropOK'
    BY <1>1, <2>1 DEF OrderInv, DropOK
  <2>3. ASSUME NEW x \in ToSet(ops') PROVE ReadOK(x)'
    <3>1. (\E o \in ToSet(ops) : Continues(x, o)) \/ x.kind = "view"
      BY <1>2, ReadViewedReads DEF TypeInv
    <3>2. CASE \E o \in ToSet(ops) : Continues(x, o)
      <4>1. PICK o \in ToSet(ops) : Continues(x, o)
        BY <3>2
      <4>2. ReadOK(o)
        BY DEF OrderInv
      <4> QED
        BY <2>1, <4>1, <4>2 DEF ReadOK, Continues
    <3>3. CASE x.kind = "view"
      BY <3>3 DEF ReadOK
    <3> QED
      BY <3>1, <3>2, <3>3
  <2> QED
    BY <2>2, <2>3 DEF OrderInv
<1>3. CASE EditTask(i)
  <2>1. \/ NextTask \in Task /\ tasks' = With(tasks, NextTask, NextTaskOrder)
        \/ UNCHANGED tasks
    BY <1>3 DEF EditTask
  <2>2. DOMAIN tasks \subseteq DOMAIN tasks' /\ \A t \in DOMAIN tasks : tasks'[t] = tasks[t]
    BY <2>1, CreatedTask DEF TypeInv
  <2> QED
    BY <1>1, <1>3, <2>2, ServedContinues, OrdersStay DEF TypeInv
<1>4. CASE ~ReadViewed(i) /\ ~EditTask(i)
  <2>1. UNCHANGED tasks
    BY <1>4 DEF MarkProjectViewed, EditSettings, ReadTodos, ReorderPersonalTodos,
                EditTodo, Succeed, Refuse, Fail, rows
  <2>2. OpsContinue
    BY <1>4, ServedContinues, ReadTodosContinues, AnsweredContinues, FailContinues
       DEF TypeInv, Succeed, Refuse
  <2> QED
    BY <1>1, <2>1, <2>2, OrdersStay
<1> QED
  BY <1>2, <1>3, <1>4

\* A reorder has read the tasks, each of which it names once.
LEMMA OrderReadTasks ==
    ASSUME TypeInv, OrderInv, NEW i \in DOMAIN ops, ReadTasks(i)
    PROVE  OrderInv'
<1>1. UNCHANGED <<tasks, dropped>>
  BY DEF ReadTasks, rows, history
<1>2. DropOK'
  BY <1>1 DEF OrderInv, DropOK
<1>3. ops[i].arg \in Seq(Task)
  BY OpsAreRequests DEF TypeInv, ReadTasks, Active, OpOK
<1>4. ASSUME NEW x \in ToSet(ops') PROVE ReadOK(x)'
  <2>1. \/ \E o \in ToSet(ops) : Continues(x, o)
        \/ x.arg = ops[i].arg /\ x.read = tasks /\ IsOrderOf(x.arg, ActiveTasks)
    BY ReadTasksReads DEF TypeInv
  <2>2. CASE \E o \in ToSet(ops) : Continues(x, o)
    <3>1. PICK o \in ToSet(ops) : Continues(x, o)
      BY <2>2
    <3>2. ReadOK(o)
      BY DEF OrderInv
    <3> QED
      BY <1>1, <3>1, <3>2 DEF ReadOK, Continues
  <2>3. CASE x.arg = ops[i].arg /\ x.read = tasks /\ IsOrderOf(x.arg, ActiveTasks)
    <3>1. IsFiniteSet(ActiveTasks) /\ ActiveTasks \in SUBSET DOMAIN tasks
      BY TaskListIsSorted DEF TypeInv
    <3>2. \A m, n \in DOMAIN x.arg : m # n => x.arg[m] # x.arg[n]
      BY <1>3, <2>3, <3>1, OrdersAreInjective
    <3>3. ToSet(x.arg) = ActiveTasks
      BY <2>3 DEF IsOrderOf
    <3> QED
      BY <1>1, <2>3, <3>1, <3>2, <3>3 DEF ReadOK
  <2> QED
    BY <2>1, <2>2, <2>3
<1> QED
  BY <1>2, <1>4 DEF OrderInv

\* What a reorder writes puts the tasks in their places, if nothing has changed
\* the tasks since it read them.
LEMMA ReorderPlaces ==
    ASSUME TypeInv, NEW i \in DOMAIN ops, ReadOK(ops[i]), Active(i, "reorder", "read"),
           ops[i].alone, NEW n \in DOMAIN ops[i].arg,
           tasks' = [t \in DOMAIN tasks |->
                        IF t \in Renumbered(i) THEN Place(ops[i].arg)[t] - 1 ELSE tasks[t]]
    PROVE  ops[i].arg[n] \in DOMAIN tasks' /\ tasks'[ops[i].arg[n]] = n - 1
<1> DEFINE order == ops[i].arg
           read == ops[i].read
           t == order[n]
<1>1. order \in Seq(Task)
  BY OpsAreRequests DEF TypeInv, OpOK, Active
<1>2. /\ \A k, m \in DOMAIN order : k # m => order[k] # order[m]
      /\ ToSet(order) \subseteq DOMAIN tasks
      /\ \A x \in ToSet(order) : read[x] = tasks[x]
  BY DEF ReadOK, Active
<1>3. t \in ToSet(order)
  BY DEF ToSet
<1>4. Place(order)[t] = n
  BY <1>1, <1>2, PlacesAreThere
<1>5. t \in Renumbered(i) <=> read[t] # n - 1
  BY <1>2 DEF Renumbered
<1> HIDE DEF order, read, t
<1>6. t \in DOMAIN tasks /\ read[t] = tasks[t]
  BY <1>2, <1>3
<1>7. tasks'[t] = n - 1 /\ t \in DOMAIN tasks'
  <2>1. tasks' = [x \in DOMAIN tasks |->
                        IF x \in Renumbered(i) THEN Place(order)[x] - 1 ELSE tasks[x]]
    BY DEF order
  <2>2. CASE t \in Renumbered(i)
    BY <1>4, <1>6, <2>1, <2>2
  <2>3. CASE t \notin Renumbered(i)
    BY <1>5, <1>6, <2>1, <2>3
  <2> QED
    BY <2>2, <2>3
<1> QED
  BY <1>7 DEF t, order

LEMMA OrderReorder ==
    ASSUME TypeInv, OrderInv, NEW i \in DOMAIN ops, ReorderProjectTasks(i)
    PROVE  OrderInv'
<1> DEFINE changed == Renumbered(i)
           first == [ops[i] EXCEPT !.stage = "ok", !.read = Nil]
<1>1. /\ tasks' = [t \in DOMAIN tasks |->
                        IF t \in changed THEN Place(ops[i].arg)[t] - 1 ELSE tasks[t]]
      /\ Active(i, "reorder", "read")
      /\ IF changed = {} THEN Turn(i, "ok") /\ UNCHANGED dropped
         ELSE /\ ops' = [j \in DOMAIN ops |-> IF j = i THEN first ELSE Overtaken(ops[j])]
              /\ dropped' = IF ops[i].alone THEN ops[i].arg ELSE <<>>
  BY Zenon DEF ReorderProjectTasks
<1>2. OpsContinue
  BY ReorderContinues DEF TypeInv
<1>3. ops[i] \in ToSet(ops) /\ OpOK(ops[i]) /\ ReadOK(ops[i])
  BY OpsAreRequests DEF TypeInv, OrderInv
<1>4. DOMAIN tasks' = DOMAIN tasks
  BY <1>1
<1>5. CASE changed = {}
  <2>1. \A t \in DOMAIN tasks : tasks'[t] = tasks[t]
    BY <1>1, <1>5
  <2> HIDE DEF changed, first
  <2> QED
    BY <1>1, <1>2, <1>4, <1>5, <2>1, OrdersStay
<1>6. CASE changed # {}
  <2>1. /\ ops' = [j \in DOMAIN ops |-> IF j = i THEN first ELSE Overtaken(ops[j])]
        /\ dropped' = IF ops[i].alone THEN ops[i].arg ELSE <<>>
    BY <1>1, <1>6
  <2>2. DropOK'
    <3>1. CASE ops[i].alone
      <4>1. dropped' = ops[i].arg
        BY <2>1, <3>1
      <4>2. dropped' \in Seq(Task)
        BY <1>1, <1>3, <4>1 DEF OpOK, Active
      <4>3. ASSUME NEW n \in DOMAIN ops[i].arg
            PROVE  ops[i].arg[n] \in DOMAIN tasks' /\ tasks'[ops[i].arg[n]] = n - 1
        BY <1>1, <1>3, <3>1, ReorderPlaces
      <4> QED
        BY <4>1, <4>2, <4>3 DEF DropOK
    <3>2. CASE ~ops[i].alone
      <4>1. dropped' = <<>>
        BY <2>1, <3>2
      <4> QED
        BY <4>1 DEF DropOK
    <3> QED
      BY <3>1, <3>2
  <2>3. ASSUME NEW x \in ToSet(ops') PROVE ReadOK(x)'
    <3>1. PICK j \in DOMAIN ops : x = ops'[j]
      BY <2>1 DEF ToSet
    <3>2. CASE j = i
      <4>1. x = first
        BY <2>1, <3>1, <3>2
      <4>2. first.stage = "ok"
        BY <1>3 DEF OpOK, Shape
      <4> HIDE DEF first
      <4> QED
        BY <4>1, <4>2 DEF ReadOK
    <3>3. CASE j # i
      <4>1. x = Overtaken(ops[j])
        BY <2>1, <3>1, <3>3
      <4>2. OpOK(ops[j]) /\ ops[j] \in ToSet(ops)
        BY OpsAreRequests DEF TypeInv
      <4>3. /\ Continues(x, ops[j])
            /\ x.kind = "reorder" /\ x.stage = "read" => ~x.alone
        BY <4>1, <4>2, OvertakenContinues
      <4>4. ReadOK(ops[j])
        BY <4>2 DEF OrderInv
      <4> QED
        BY <1>4, <4>3, <4>4 DEF ReadOK, Continues
    <3> QED
      BY <3>2, <3>3
  <2> QED
    BY <2>2, <2>3 DEF OrderInv
<1> QED
  BY <1>5, <1>6

LEMMA OrderColleagueEdits ==
    ASSUME TypeInv, OrderInv, ColleagueEdits
    PROVE  OrderInv'
<1>1. OpsContinue /\ UNCHANGED dropped
  BY ColleaguesContinue DEF TypeInv, ColleagueEdits
<1>2. \/ NextTask \in Task /\ tasks' = With(tasks, NextTask, NextTaskOrder)
      \/ UNCHANGED tasks
  BY DEF ColleagueEdits
<1>3. DOMAIN tasks \subseteq DOMAIN tasks' /\ \A t \in DOMAIN tasks : tasks'[t] = tasks[t]
  BY <1>2, CreatedTask DEF TypeInv
<1> QED
  BY <1>1, <1>3, OrdersStay

LEMMA OrderColleagueReorders ==
    ASSUME TypeInv, OrderInv, ColleagueReorders
    PROVE  OrderInv'
<1>1. PICK order, S :
        /\ order \in Moved(TaskList)
        /\ tasks' = [t \in DOMAIN tasks |-> IF t \in ActiveTasks THEN Place(order)[t] - 1 ELSE tasks[t]]
        /\ dropped' = order
        /\ ops' = [i \in DOMAIN ops |-> Overtaken(Unseen(S, ops[i]))]
  BY Zenon DEF ColleagueReorders
<1>2. /\ TaskList \in Seq(Task) /\ ToSet(TaskList) = ActiveTasks
      /\ ActiveTasks \in SUBSET DOMAIN tasks
      /\ \A i, j \in DOMAIN TaskList : i # j => TaskList[i] # TaskList[j]
  BY TaskListIsSorted DEF TypeInv
<1>3. /\ order \in Seq(Task) /\ ToSet(order) = ActiveTasks
      /\ \A m, n \in DOMAIN order : m # n => order[m] # order[n]
  BY <1>1, <1>2, MovedIsPermuted
<1>4. DOMAIN tasks' = DOMAIN tasks
  BY <1>1
<1>5. ASSUME NEW n \in DOMAIN order
      PROVE  order[n] \in DOMAIN tasks' /\ tasks'[order[n]] = n - 1
  <2>1. order[n] \in ActiveTasks
    BY <1>3 DEF ToSet
  <2>2. Place(order)[order[n]] = n
    BY <1>3, PlacesAreThere
  <2> QED
    BY <1>1, <1>2, <2>1, <2>2
<1>6. DropOK'
  BY <1>1, <1>3, <1>5 DEF DropOK
<1>7. ASSUME NEW x \in ToSet(ops') PROVE ReadOK(x)'
  <2>1. PICK j \in DOMAIN ops : x = ops'[j]
    BY <1>1 DEF ToSet
  <2>2. x = Overtaken(Unseen(S, ops[j]))
    BY <1>1, <2>1
  <2>3. OpOK(ops[j]) /\ ops[j] \in ToSet(ops)
    BY OpsAreRequests DEF TypeInv
  <2>4. /\ Continues(x, ops[j])
        /\ x.kind = "reorder" /\ x.stage = "read" => ~x.alone
    BY <2>2, <2>3, OvertakenContinues
  <2>5. ReadOK(ops[j])
    BY <2>3 DEF OrderInv
  <2> QED
    BY <1>4, <2>4, <2>5 DEF ReadOK, Continues
<1> QED
  BY <1>6, <1>7 DEF OrderInv

LEMMA InitOrder == Init => OrderInv
<1> SUFFICES ASSUME Init PROVE OrderInv
  OBVIOUS
<1>1. ops = <<>> /\ dropped = <<>>
  BY DEF Init
<1>2. ToSet(ops) = {}
  BY <1>1 DEF ToSet
<1> QED
  BY <1>1, <1>2 DEF OrderInv, DropOK

LEMMA OrderIsInductive == TypeInv /\ OrderInv /\ [Next]_vars => OrderInv'
<1> SUFFICES ASSUME TypeInv, OrderInv, [Next]_vars PROVE OrderInv'
  OBVIOUS
<1>1. CASE UNCHANGED vars
  BY <1>1, SameRequests, OrdersStay DEF vars, rows, history, TypeInv
<1>2. ASSUME NEW i \in DOMAIN ops, Serve(i) \/ Succeed(i) \/ Refuse(i) \/ Fail(i)
      PROVE  OrderInv'
  BY <1>2, OrderRequest, OrderReadTasks, OrderReorder DEF Serve
<1> QED
  BY <1>1, <1>2, OrderPage, OrderColleagueEdits, OrderColleagueReorders DEF Next, RequestStep

\* Two tasks of the drop are listed as their places say.
LEMMA PlacesOrderTheList == TypeInv /\ OrderInv => OrderIsAsDropped
<1> SUFFICES ASSUME TypeInv, OrderInv,
                    NEW i \in DOMAIN TaskList, NEW j \in DOMAIN TaskList,
                    NEW m \in DOMAIN dropped, NEW n \in DOMAIN dropped,
                    TaskList[i] = dropped[m], TaskList[j] = dropped[n]
             PROVE  i < j <=> m < n
  BY DEF OrderIsAsDropped
<1> DEFINE s == TaskList[i]
           t == TaskList[j]
<1>1. tasks[s] = m - 1 /\ tasks[t] = n - 1
  BY DEF OrderInv, DropOK
<1>2. m \in Nat /\ n \in Nat
  BY DEF OrderInv, DropOK
<1>3. /\ TaskList \in Seq(Task) /\ i \in Nat /\ j \in Nat
      /\ i < j => Before(s, t, tasks)
      /\ j < i => Before(t, s, tasks)
  <2>1. TaskList \in Seq(Task)
    BY TaskListIsSorted DEF TypeInv
  <2>2. i \in Nat /\ j \in Nat
    BY <2>1
  <2> QED
    BY <2>1, <2>2, TaskListIsSorted DEF TypeInv
<1>4. s \in Int /\ t \in Int
  BY <1>3, IdsAreNumbers
<1>5. m = n => s = t
  OBVIOUS
<1>6. i = j => m = n
  BY <1>1, <1>2
<1> HIDE DEF s, t
<1>7. i < j => m < n
  BY <1>1, <1>2, <1>3, <1>4, <1>5 DEF Before
<1>8. j < i => n < m
  BY <1>1, <1>2, <1>3, <1>4, <1>5 DEF Before
<1> QED
  BY <1>2, <1>3, <1>6, <1>7, <1>8

(* The order of a project is that of the last reorder that no other           *)
(* overlapped, for every number of tabs, tasks and colleagues: what is        *)
(* created, changed or deleted between the read and the write of a reorder,   *)
(* or after it, does not change which of two tasks comes first.               *)
THEOREM OrdersAreAsDropped == Spec => []OrderIsAsDropped
<1>1. Init => TypeInv /\ OrderInv
  BY InitTypes, InitOrder
<1>2. TypeInv /\ OrderInv /\ [Next]_vars => (TypeInv /\ OrderInv)'
  BY TypesAreInductive, OrderIsInductive
<1> QED
  BY <1>1, <1>2, PlacesOrderTheList, PTL DEF Spec

-----------------------------------------------------------------------------
(* The highlights.                                                           *)

\* Marks and changes of a step: nobody's, the user's, a colleague's, a mark's.
LEMMA HighlightsStay ==
    ASSUME ChangesAreHighlighted,
           \/ UNCHANGED <<viewed, overlooked, raced>>
           \/ \E S : OwnChange(S)
           \/ \E S : TheirChange(S)
           \/ \E i : MarkProjectViewed(i)
    PROVE  ChangesAreHighlighted'
<1>1. CASE UNCHANGED <<viewed, overlooked, raced>>
  BY <1>1 DEF ChangesAreHighlighted
<1>2. CASE \E S : OwnChange(S)
  BY <1>2 DEF ChangesAreHighlighted, OwnChange
<1>3. CASE \E S : TheirChange(S)
  BY <1>3 DEF ChangesAreHighlighted, TheirChange
<1>4. ASSUME NEW i, MarkProjectViewed(i) PROVE ChangesAreHighlighted'
  <2> DEFINE seen == ops[i].read
             fresh == ops[i].fresh
  <2>1. /\ viewed' = viewed \cup seen
        /\ raced' = (raced \ fresh) \cup (overlooked \cap (seen \ fresh))
        /\ overlooked' = overlooked \ fresh
    BY <1>4 DEF MarkProjectViewed
  <2> HIDE DEF seen, fresh
  <2> QED
    BY <2>1 DEF ChangesAreHighlighted
<1> QED
  BY <1>1, <1>2, <1>3, <1>4

LEMMA HighlightsAreInductive == ChangesAreHighlighted /\ [Next]_vars => ChangesAreHighlighted'
<1> SUFFICES ASSUME ChangesAreHighlighted, [Next]_vars PROVE ChangesAreHighlighted'
  OBVIOUS
<1>1. CASE UNCHANGED vars
  BY <1>1, HighlightsStay DEF vars, rows, history
<1>2. ASSUME NEW b \in DOMAIN tab, PollStep(b) \/ PollFails(b) \/ UserStep(b) \/ SyncUserConfig(b)
      PROVE  ChangesAreHighlighted'
  <2>1. UNCHANGED <<viewed, overlooked, raced>>
    <3>1. CASE PollStep(b) \/ PollFails(b) \/ SyncUserConfig(b)
      BY <3>1 DEF PollStep, PollRows, PollAnswer, PollFails, SyncUserConfig, rows, history
    <3>2. CASE UserStep(b)
      BY <3>2 DEF UserStep, Choose, Reorder, MarkViewed, ReorderTodos, Request, Reload, rows, history
    <3> QED
      BY <1>2, <3>1, <3>2
  <2> QED
    BY <2>1, HighlightsStay
<1>3. ASSUME NEW i \in DOMAIN ops, Serve(i) \/ Succeed(i) \/ Refuse(i) \/ Fail(i)
      PROVE  ChangesAreHighlighted'
  <2>1. CASE ReorderProjectTasks(i)
    <3>1. OwnChange(Renumbered(i))
      BY <2>1, Zenon DEF ReorderProjectTasks
    <3> QED
      BY <3>1, HighlightsStay
  <2>2. CASE EditTask(i)
    <3>1. UNCHANGED <<viewed, overlooked, raced>> \/ \E S : OwnChange(S)
      BY <2>2 DEF EditTask
    <3> QED
      BY <3>1, HighlightsStay
  <2>3. CASE MarkProjectViewed(i)
    BY <2>3, HighlightsStay
  <2>4. CASE ~ReorderProjectTasks(i) /\ ~EditTask(i) /\ ~MarkProjectViewed(i)
    <3>1. UNCHANGED <<viewed, overlooked, raced>>
      BY <1>3, <2>4 DEF Serve, ReadTasks, ReadViewed, EditSettings, ReadTodos, ReorderPersonalTodos,
                        EditTodo, Succeed, Refuse, Fail, rows, history
    <3> QED
      BY <3>1, HighlightsStay
  <2> QED
    BY <2>1, <2>2, <2>3, <2>4
<1>4. CASE ColleagueEdits \/ ColleagueReorders
  <2>1. \E S : TheirChange(S)
    BY <1>4, Zenon DEF ColleagueEdits, ColleagueReorders
  <2> QED
    BY <2>1, HighlightsStay
<1> QED
  BY <1>1, <1>2, <1>3, <1>4 DEF Next, RequestStep

(* No change of a colleague loses its highlight unless the user has changed   *)
(* the task as well or asked for it to be marked; what a mark covers that the *)
(* user cannot have meant came while the mark was being served.               *)
THEOREM HighlightsHold == Spec => []ChangesAreHighlighted
<1>1. Init => ChangesAreHighlighted
  BY DEF Init, ChangesAreHighlighted
<1> QED
  BY <1>1, HighlightsAreInductive, PTL DEF Spec
=============================================================================
