------------------------- MODULE EventListTheorems -------------------------
(***************************************************************************)
(* What the operations on event lists do to the set of the tasks that      *)
(* wait, for lists of any length, and facts about sizes of sets of tasks.  *)
(***************************************************************************)
EXTENDS EventLists, FiniteSetTheorems, TLAPS

\* No task is on the list twice.
OnceEach(list) == \A i, j \in DOMAIN list : list[i] = list[j] => i = j

\* A function on 1 .. n is a list of its values.
LEMMA IsList ==
  ASSUME NEW S, NEW n \in Nat, NEW f \in [1 .. n -> S]
  PROVE  f \in Seq(S) /\ Len(f) = n /\ DOMAIN f = 1 .. n
  OBVIOUS

\* A list is a function on 1 .. Len.
LEMMA ListType ==
  ASSUME NEW S, NEW list \in Seq(S)
  PROVE  /\ Len(list) \in Nat /\ DOMAIN list = 1 .. Len(list)
         /\ list \in [1 .. Len(list) -> S]
         /\ Waiters(list) \subseteq S
         /\ list = <<>> <=> Waiters(list) = {}
         /\ list = <<>> <=> Len(list) = 0
PROOF
<1>1. Len(list) \in Nat /\ DOMAIN list = 1 .. Len(list) /\ list \in [1 .. Len(list) -> S]
  OBVIOUS
<1>2. Waiters(list) \subseteq S
  BY <1>1 DEF Waiters
<1>3. list = <<>> <=> Len(list) = 0
  OBVIOUS
<1>4. Len(list) = 0 <=> Waiters(list) = {}
  <2>1. Len(list) # 0 => list[1] \in Waiters(list)
    BY <1>1 DEF Waiters
  <2>2. Len(list) = 0 => Waiters(list) = {}
    BY <1>1 DEF Waiters
  <2> QED
    BY <2>1, <2>2
<1> QED
  BY <1>1, <1>2, <1>3, <1>4

\* The empty list has no waiters.
LEMMA EmptyList ==
  ASSUME NEW S
  PROVE  <<>> \in Seq(S) /\ Waiters(<<>>) = {} /\ OnceEach(<<>>)
  BY DEF Waiters, OnceEach

\* The first n waiters go, the others stay as they were.
LEMMA AfterFirstWaits ==
  ASSUME NEW S, NEW list \in Seq(S), NEW n \in 0 .. Len(list), OnceEach(list)
  PROVE  /\ AfterFirst(list, n) \in Seq(S) /\ OnceEach(AfterFirst(list, n))
         /\ Waiters(AfterFirst(list, n)) = Waiters(list) \ FirstOf(list, n)
         /\ FirstOf(list, n) \subseteq Waiters(list)
         /\ AfterFirst(list, n) # <<>> <=> n < Len(list)
PROOF
<1> DEFINE f == AfterFirst(list, n)
           m == Len(list) - n
<1>1. Len(list) \in Nat /\ DOMAIN list = 1 .. Len(list)
      /\ \A i \in 1 .. Len(list) : list[i] \in S
  BY ListType
<1>2. m \in Nat
  BY <1>1
<1>3. f \in [1 .. m -> S]
  BY <1>1, <1>2 DEF AfterFirst
<1>4. f \in Seq(S) /\ Len(f) = m /\ DOMAIN f = 1 .. m
  BY <1>2, <1>3, IsList
<1>5. \A i \in 1 .. m : f[i] = list[i + n] /\ i + n \in 1 .. Len(list)
  BY <1>1, <1>2 DEF AfterFirst
<1> HIDE DEF f
<1>6. OnceEach(f)
  <2>1. \A i, j \in 1 .. Len(list) : list[i] = list[j] => i = j
    BY <1>1 DEF OnceEach
  <2>2. \A i, j \in 1 .. m : f[i] = f[j] => i + n = j + n
    BY <1>5, <2>1
  <2> QED
    BY <1>1, <1>2, <1>4, <2>2 DEF OnceEach
<1>7. ASSUME NEW x \in Waiters(f)
      PROVE  x \in Waiters(list) \ FirstOf(list, n)
  <2>1. PICK i \in 1 .. m : x = f[i]
    BY <1>4, <1>7 DEF Waiters
  <2>2. x = list[i + n] /\ i + n \in 1 .. Len(list)
    BY <1>5, <2>1
  <2>3. \A j \in 1 .. n : list[j] # x
    BY <1>1, <1>2, <2>1, <2>2 DEF OnceEach
  <2> QED
    BY <1>1, <2>2, <2>3 DEF Waiters, FirstOf
<1>8. ASSUME NEW x \in Waiters(list) \ FirstOf(list, n)
      PROVE  x \in Waiters(f)
  <2>1. PICK i \in 1 .. Len(list) : x = list[i]
    BY <1>1 DEF Waiters
  <2>2. i > n
    BY <1>1, <2>1 DEF FirstOf
  <2>3. i - n \in 1 .. m /\ (i - n) + n = i
    BY <1>1, <2>2
  <2> QED
    BY <1>4, <1>5, <2>1, <2>3 DEF Waiters
<1>9. FirstOf(list, n) \subseteq Waiters(list)
  BY <1>1 DEF Waiters, FirstOf
<1>10. f # <<>> <=> n < Len(list)
  BY <1>1, <1>4, ListType
<1> QED
  BY <1>4, <1>6, <1>7, <1>8, <1>9, <1>10 DEF f

\* The first n waiters are n tasks.
LEMMA FirstOfSize ==
  ASSUME NEW S, NEW list \in Seq(S), NEW n \in 0 .. Len(list), OnceEach(list)
  PROVE  IsFiniteSet(FirstOf(list, n)) /\ Cardinality(FirstOf(list, n)) = n
PROOF
<1> DEFINE g == [i \in 1 .. n |-> list[i]]
<1>1. Len(list) \in Nat /\ DOMAIN list = 1 .. Len(list)
  BY ListType
<1>2. g \in [1 .. n -> FirstOf(list, n)]
  BY <1>1 DEF FirstOf
<1>3. \A i, j \in 1 .. n : g[i] = g[j] => i = j
  BY <1>1 DEF OnceEach
<1>4. \A x \in FirstOf(list, n) : \E i \in 1 .. n : g[i] = x
  BY <1>1 DEF FirstOf
<1>5. g \in Bijection(1 .. n, FirstOf(list, n))
  BY <1>2, <1>3, <1>4 DEF Bijection, Injection, Surjection, IsInjective
<1>6. ExistsBijection(1 .. n, FirstOf(list, n))
  BY <1>5 DEF ExistsBijection
<1> QED
  BY <1>1, <1>6, FS_CountingElements, FS_NatBijection

\* As many tasks wait as the list is long.
LEMMA WaitersSize ==
  ASSUME NEW S, NEW list \in Seq(S), OnceEach(list)
  PROVE  IsFiniteSet(Waiters(list)) /\ Cardinality(Waiters(list)) = Len(list)
PROOF
<1>1. Len(list) \in Nat /\ DOMAIN list = 1 .. Len(list)
  BY ListType
<1>2. Waiters(list) = FirstOf(list, Len(list))
  BY <1>1 DEF Waiters, FirstOf
<1> QED
  BY <1>1, <1>2, FirstOfSize

\* vListInsert adds the task, and nothing else changes but the order.
LEMMA InsertWaits ==
  ASSUME NEW S, NEW list \in Seq(S), NEW t \in S, NEW uxPriority,
         OnceEach(list), t \notin Waiters(list)
  PROVE  LET new == vListInsert(list, t, uxPriority) IN
         new \in Seq(S) /\ OnceEach(new) /\ Waiters(new) = Waiters(list) \cup {t}
PROOF
<1> DEFINE ahead == {i \in DOMAIN list :
                       \A j \in 1 .. i : uxPriority[list[j]] >= uxPriority[t]}
           n == Len(list)
           k == Cardinality(ahead)
           new == vListInsert(list, t, uxPriority)
<1>1. n \in Nat /\ DOMAIN list = 1 .. n /\ \A i \in 1 .. n : list[i] \in S
  BY ListType
<1>2. k \in 0 .. n
  <2>1. IsFiniteSet(1 .. n) /\ Cardinality(1 .. n) = n
    <3>1. \A a, b \in Int : IsFiniteSet(a .. b)
                           /\ Cardinality(a .. b) = IF a > b THEN 0 ELSE b - a + 1
      BY FS_Interval
    <3> HIDE DEF n
    <3> QED
      BY <1>1, <3>1
  <2>2. ahead \in SUBSET (1 .. n)
    BY <1>1
  <2>3. IsFiniteSet(ahead) /\ Cardinality(ahead) <= n
    BY <2>1, <2>2, FS_Subset
  <2> QED
    BY <1>1, <2>3, FS_CardinalityType
<1>3. new = [i \in 1 .. n + 1 |->
               IF i <= k THEN list[i] ELSE IF i = k + 1 THEN t ELSE list[i - 1]]
  BY DEF vListInsert
<1> HIDE DEF k
<1>4. new \in [1 .. n + 1 -> S]
  BY <1>1, <1>2, <1>3
<1>5. new \in Seq(S) /\ Len(new) = n + 1 /\ DOMAIN new = 1 .. n + 1
  BY <1>1, <1>4, IsList
<1>6. /\ \A i \in 1 .. k : new[i] = list[i] /\ i \in 1 .. n
      /\ new[k + 1] = t
      /\ \A i \in k + 2 .. n + 1 : new[i] = list[i - 1] /\ i - 1 \in 1 .. n
  BY <1>1, <1>2, <1>3
<1> HIDE DEF new
<1>7. \A i \in 1 .. n : list[i] # t
  BY <1>1 DEF Waiters
<1>8. ASSUME NEW i \in 1 .. n + 1, NEW j \in 1 .. n + 1, new[i] = new[j]
      PROVE  i = j
  <2>1. \A a, b \in 1 .. n : list[a] = list[b] => a = b
    BY <1>1 DEF OnceEach
  <2>2. CASE i = k + 1 \/ j = k + 1
    BY <1>1, <1>2, <1>6, <1>7, <1>8, <2>2
  <2>3. CASE i # k + 1 /\ j # k + 1
    <3>1. i \in 1 .. k \/ i \in k + 2 .. n + 1
      BY <1>1, <1>2, <2>3
    <3>2. j \in 1 .. k \/ j \in k + 2 .. n + 1
      BY <1>1, <1>2, <2>3
    <3> QED
      BY <1>1, <1>2, <1>6, <1>8, <2>1, <3>1, <3>2
  <2> QED
    BY <2>2, <2>3
<1>9. OnceEach(new)
  BY <1>5, <1>8 DEF OnceEach
<1>10. ASSUME NEW x \in Waiters(new)
       PROVE  x \in Waiters(list) \cup {t}
  <2>1. PICK i \in 1 .. n + 1 : x = new[i]
    BY <1>5, <1>10 DEF Waiters
  <2>2. i \in 1 .. k \/ i = k + 1 \/ i \in k + 2 .. n + 1
    BY <1>1, <1>2
  <2> QED
    BY <1>1, <1>6, <2>1, <2>2 DEF Waiters
<1>11. ASSUME NEW x \in Waiters(list) \cup {t}
       PROVE  x \in Waiters(new)
  <2>1. CASE x = t
    BY <1>1, <1>2, <1>5, <1>6, <2>1 DEF Waiters
  <2>2. CASE x # t
    <3>1. PICK i \in 1 .. n : x = list[i]
      BY <1>1, <1>11, <2>2 DEF Waiters
    <3>2. CASE i <= k
      BY <1>1, <1>2, <1>5, <1>6, <3>1, <3>2 DEF Waiters
    <3>3. CASE i > k
      <4>1. i + 1 \in k + 2 .. n + 1 /\ (i + 1) - 1 = i
        BY <1>1, <1>2, <3>3
      <4>2. i + 1 \in 1 .. n + 1
        BY <1>1
      <4> QED
        BY <1>5, <1>6, <3>1, <4>1, <4>2 DEF Waiters
    <3> QED
      BY <1>1, <1>2, <3>2, <3>3
  <2> QED
    BY <2>1, <2>2
<1> QED
  BY <1>5, <1>9, <1>10, <1>11 DEF new

\* uxListRemove takes the task off the list, and nothing else changes.
LEMMA RemoveWaits ==
  ASSUME NEW S, NEW list \in Seq(S), NEW t, OnceEach(list)
  PROVE  LET new == uxListRemove(list, t) IN
         new \in Seq(S) /\ OnceEach(new) /\ Waiters(new) = Waiters(list) \ {t}
PROOF
<1> DEFINE n == Len(list)
           new == uxListRemove(list, t)
<1>1. n \in Nat /\ DOMAIN list = 1 .. n /\ \A i \in 1 .. n : list[i] \in S
  BY ListType
<1>2. CASE t \notin Waiters(list)
  BY <1>2 DEF uxListRemove
<1>3. CASE t \in Waiters(list)
  <2> DEFINE k == CHOOSE i \in DOMAIN list : list[i] = t
  <2>1. k \in 1 .. n /\ list[k] = t
    BY <1>1, <1>3 DEF Waiters
  <2>2. new = [i \in 1 .. n - 1 |-> IF i < k THEN list[i] ELSE list[i + 1]]
    BY <1>3 DEF uxListRemove
  <2> HIDE DEF k, new
  <2>3. n - 1 \in Nat
    BY <1>1, <2>1
  <2>4. new \in [1 .. n - 1 -> S]
    BY <1>1, <2>1, <2>2
  <2>5. new \in Seq(S) /\ Len(new) = n - 1 /\ DOMAIN new = 1 .. n - 1
    BY <2>3, <2>4, IsList
  <2>6. \A i \in 1 .. n - 1 :
          /\ i < k => new[i] = list[i]
          /\ i >= k => new[i] = list[i + 1]
          /\ i \in 1 .. n /\ i + 1 \in 1 .. n
    BY <1>1, <2>1, <2>2
  <2>7. \A a, b \in 1 .. n : list[a] = list[b] => a = b
    BY <1>1 DEF OnceEach
  <2>8. ASSUME NEW i \in 1 .. n - 1, NEW j \in 1 .. n - 1, new[i] = new[j]
        PROVE  i = j
    BY <1>1, <2>1, <2>6, <2>7, <2>8
  <2>9. OnceEach(new)
    BY <2>5, <2>8 DEF OnceEach
  <2>10. ASSUME NEW x \in Waiters(new)
         PROVE  x \in Waiters(list) \ {t}
    <3>1. PICK i \in 1 .. n - 1 : x = new[i]
      BY <2>5, <2>10 DEF Waiters
    <3>2. PICK j \in 1 .. n : j # k /\ x = list[j]
      BY <1>1, <2>1, <2>6, <3>1
    <3>3. x # t
      BY <2>1, <2>7, <3>2
    <3> QED
      BY <1>1, <3>2, <3>3 DEF Waiters
  <2>11. ASSUME NEW x \in Waiters(list) \ {t}
         PROVE  x \in Waiters(new)
    <3>1. PICK i \in 1 .. n : x = list[i]
      BY <1>1, <2>11 DEF Waiters
    <3>2. i # k
      BY <2>1, <2>11, <3>1
    <3>3. CASE i < k
      <4>1. i \in 1 .. n - 1
        BY <1>1, <2>1, <3>3
      <4> QED
        BY <2>5, <2>6, <3>1, <3>3, <4>1 DEF Waiters
    <3>4. CASE i > k
      <4>1. i - 1 \in 1 .. n - 1 /\ i - 1 >= k /\ (i - 1) + 1 = i
        BY <1>1, <2>1, <3>4
      <4> QED
        BY <2>5, <2>6, <3>1, <4>1 DEF Waiters
    <3> QED
      BY <1>1, <2>1, <3>2, <3>3, <3>4
  <2> QED
    BY <2>5, <2>9, <2>10, <2>11 DEF new
<1> QED
  BY <1>2, <1>3

-----------------------------------------------------------------------------
(* The order of a list: no waiter stands behind a less urgent one.          *)

IsOrdered(list, f) == \A i, j \in DOMAIN list : i < j => f[list[i]] >= f[list[j]]

\* A set of the first positions is as large as its last one.
LEMMA FirstPositions ==
  ASSUME NEW n \in Nat, NEW D \in SUBSET (1 .. n),
         \A i \in D : \A j \in 1 .. i : j \in D
  PROVE  Cardinality(D) \in Nat /\ D = 1 .. Cardinality(D)
PROOF
<1> DEFINE c == Cardinality(D)
<1>1. \A a, b \in Int : /\ IsFiniteSet(a .. b)
                        /\ Cardinality(a .. b) = IF a > b THEN 0 ELSE b - a + 1
  BY FS_Interval
<1>2. \A m \in Nat : IsFiniteSet(1 .. m) /\ Cardinality(1 .. m) = m
  BY <1>1
<1>3. IsFiniteSet(D)
  BY <1>2, FS_Subset
<1>4. c \in Nat
  BY <1>3, FS_CardinalityType
<1> HIDE DEF c
<1>5. ASSUME NEW i \in D
      PROVE  i \in 1 .. c
  <2>1. i \in Nat /\ i >= 1 /\ (1 .. i) \in SUBSET D
    BY <1>5
  <2>2. Cardinality(1 .. i) <= Cardinality(D)
    BY <1>3, <2>1, FS_Subset
  <2>3. Cardinality(1 .. i) = i
    BY <1>2, <2>1
  <2> QED
    BY <1>4, <2>1, <2>2, <2>3 DEF c
<1>6. D \in SUBSET (1 .. c)
  BY <1>5
<1>7. IsFiniteSet(1 .. c) /\ Cardinality(1 .. c) = Cardinality(D)
  BY <1>2, <1>4 DEF c
<1>8. 1 .. c = D
  BY <1>6, <1>7, FS_Subset
<1> QED
  BY <1>4, <1>8 DEF c

\* Only the values of the waiters count.
LEMMA OrderSame ==
  ASSUME NEW list, NEW f, NEW g, IsOrdered(list, f),
         \A t \in Waiters(list) : g[t] = f[t]
  PROVE  IsOrdered(list, g)
  BY DEF IsOrdered, Waiters

\* A list with no waiter is in order.
LEMMA EmptyOrdered ==
  ASSUME NEW f
  PROVE  IsOrdered(<<>>, f)
  BY DEF IsOrdered

\* vListInsert finds the place that keeps the order.
LEMMA InsertOrdered ==
  ASSUME NEW S, NEW list \in Seq(S), NEW t \in S, NEW f, \A s \in S : f[s] \in Int,
         IsOrdered(list, f)
  PROVE  IsOrdered(vListInsert(list, t, f), f)
PROOF
<1> DEFINE n == Len(list)
           ahead == {i \in DOMAIN list : \A j \in 1 .. i : f[list[j]] >= f[t]}
           k == Cardinality(ahead)
           new == vListInsert(list, t, f)
<1>1. n \in Nat /\ DOMAIN list = 1 .. n /\ \A i \in 1 .. n : list[i] \in S /\ f[list[i]] \in Int
  BY ListType
<1>2. k \in Nat /\ ahead = 1 .. k
  <2>1. ahead \in SUBSET (1 .. n)
    BY <1>1
  <2>2. \A i \in ahead : \A j \in 1 .. i : j \in ahead
    BY <1>1
  <2> HIDE DEF ahead, n
  <2> QED
    BY <1>1, <2>1, <2>2, FirstPositions
<1>3. new = [i \in 1 .. n + 1 |->
               IF i <= k THEN list[i] ELSE IF i = k + 1 THEN t ELSE list[i - 1]]
  BY DEF vListInsert
<1>4. k <= n /\ \A i \in 1 .. k : f[list[i]] >= f[t]
  <2>1. \A i \in 1 .. k : i \in DOMAIN list /\ \A j \in 1 .. i : f[list[j]] >= f[t]
    BY <1>2
  <2> HIDE DEF k, ahead, n
  <2>2. \A i \in 1 .. k : i \in 1 .. n /\ f[list[i]] >= f[t]
    BY <1>1, <1>2, <2>1
  <2>3. k = 0 \/ k \in 1 .. k
    BY <1>2
  <2> QED
    BY <1>1, <1>2, <2>2, <2>3
<1>5. ASSUME NEW i \in 1 .. n, i > k
      PROVE  f[t] > f[list[i]]
  <2>1. i \notin ahead
    <3> HIDE DEF k, ahead, n
    <3> QED
      BY <1>1, <1>2, <1>5
  <2>2. PICK j \in 1 .. i : ~ f[list[j]] >= f[t]
    BY <1>1, <2>1
  <2> HIDE DEF k, ahead, n
  <2>3. j \in 1 .. n /\ f[list[j]] >= f[list[i]]
    BY <1>1, <2>2 DEF IsOrdered
  <2> QED
    BY <1>1, <2>2, <2>3
<1> HIDE DEF k, ahead, n, new
<1>6. DOMAIN new = 1 .. n + 1
  BY <1>3
<1>7. /\ \A i \in 1 .. n + 1 : i <= k => new[i] = list[i] /\ i \in 1 .. n
      /\ new[k + 1] = t
      /\ \A i \in 1 .. n + 1 : i > k + 1 => new[i] = list[i - 1] /\ i - 1 \in 1 .. n /\ i - 1 > k
  BY <1>1, <1>2, <1>3, <1>4
<1>8. \A i, j \in 1 .. n : i < j => f[list[i]] >= f[list[j]]
  BY <1>1 DEF IsOrdered
<1>9. ASSUME NEW i \in 1 .. n + 1, NEW j \in 1 .. n + 1, i < j
      PROVE  f[new[i]] >= f[new[j]]
  <2>1. f[t] \in Int
    OBVIOUS
  <2>2. CASE j <= k
    <3>1. i <= k
      BY <1>1, <1>2, <1>9, <2>2
    <3> QED
      BY <1>1, <1>7, <1>8, <1>9, <2>2, <3>1
  <2>3. CASE j = k + 1
    <3>1. i <= k /\ i \in 1 .. k
      BY <1>1, <1>2, <1>9, <2>3
    <3> QED
      BY <1>4, <1>7, <2>3, <3>1
  <2>4. CASE j > k + 1 /\ i <= k
    <3>1. i < j - 1
      BY <1>1, <1>2, <2>4
    <3> QED
      BY <1>7, <1>8, <2>4, <3>1
  <2>5. CASE j > k + 1 /\ i = k + 1
    <3>1. f[new[i]] > f[new[j]]
      BY <1>5, <1>7, <2>5
    <3>2. new[i] = t /\ f[new[j]] \in Int
      BY <1>1, <1>7, <2>5
    <3> QED
      BY <2>1, <3>1, <3>2
  <2>6. CASE j > k + 1 /\ i > k + 1
    <3>1. i - 1 < j - 1
      BY <1>1, <1>9
    <3> QED
      BY <1>7, <1>8, <2>6, <3>1
  <2> QED
    BY <1>1, <1>2, <2>2, <2>3, <2>4, <2>5, <2>6
<1>10. IsOrdered(new, f)
  BY <1>6, <1>9 DEF IsOrdered
<1> QED
  BY <1>10 DEF new

\* What stays after a removal keeps its order.
LEMMA RemoveOrdered ==
  ASSUME NEW S, NEW list \in Seq(S), NEW t, NEW f, IsOrdered(list, f)
  PROVE  IsOrdered(uxListRemove(list, t), f)
PROOF
<1> DEFINE n == Len(list)
           k == CHOOSE i \in DOMAIN list : list[i] = t
           new == [i \in 1 .. n - 1 |-> IF i < k THEN list[i] ELSE list[i + 1]]
<1>1. n \in Nat /\ DOMAIN list = 1 .. n
  BY ListType
<1>2. CASE t \notin Waiters(list)
  BY <1>2 DEF uxListRemove
<1>3. CASE t \in Waiters(list)
  <2>1. k \in 1 .. n
    BY <1>1, <1>3 DEF Waiters
  <2>2. uxListRemove(list, t) = new
    BY <1>3 DEF uxListRemove
  <2> HIDE DEF k, n
  <2>3. \A i, j \in 1 .. n : i < j => f[list[i]] >= f[list[j]]
    BY <1>1 DEF IsOrdered
  <2>4. DOMAIN new = 1 .. n - 1
    OBVIOUS
  <2>5. \A i \in 1 .. n - 1 : /\ i \in 1 .. n /\ i + 1 \in 1 .. n
                              /\ new[i] = IF i < k THEN list[i] ELSE list[i + 1]
    BY <1>1
  <2> HIDE DEF new
  <2>6. ASSUME NEW i \in 1 .. n - 1, NEW j \in 1 .. n - 1, i < j
        PROVE  f[new[i]] >= f[new[j]]
    <3>1. i < j + 1 /\ i + 1 < j + 1 /\ (j < k => i < k)
      BY <1>1, <2>1, <2>6
    <3> QED
      BY <2>3, <2>5, <2>6, <3>1
  <2>7. IsOrdered(new, f)
    BY <2>4, <2>6 DEF IsOrdered
  <2> QED
    BY <2>2, <2>7
<1> QED
  BY <1>2, <1>3

\* The first waiter is as urgent as any, and the others keep their order.
LEMMA FirstIsUrgent ==
  ASSUME NEW S, NEW list \in Seq(S), list # <<>>, NEW f, \A s \in S : f[s] \in Int,
         IsOrdered(list, f)
  PROVE  /\ Head(list) = list[1] /\ FirstOf(list, 1) = {list[1]}
         /\ 1 \in DOMAIN list /\ list[1] \in Waiters(list) /\ 1 \in 0 .. Len(list)
         /\ \A t \in Waiters(list) : f[list[1]] >= f[t]
         /\ IsOrdered(AfterFirst(list, 1), f)
PROOF
<1> DEFINE n == Len(list)
<1>1. n \in Nat /\ n # 0 /\ DOMAIN list = 1 .. n /\ \A i \in 1 .. n : f[list[i]] \in Int
  BY ListType
<1>2. Head(list) = list[1]
  OBVIOUS
<1>3. 1 \in 1 .. n /\ 1 \in 0 .. n
  BY <1>1
<1>4. list[1] \in Waiters(list)
  BY <1>1, <1>3 DEF Waiters
<1>5. FirstOf(list, 1) = {list[1]}
  BY DEF FirstOf
<1>6. \A i, j \in 1 .. n : i < j => f[list[i]] >= f[list[j]]
  BY <1>1 DEF IsOrdered
<1>7. ASSUME NEW t \in Waiters(list)
      PROVE  f[list[1]] >= f[t]
  <2>1. PICK i \in 1 .. n : t = list[i]
    BY <1>1 DEF Waiters
  <2>2. i = 1 \/ 1 < i
    BY <1>1
  <2> QED
    BY <1>1, <1>3, <1>6, <2>1, <2>2
<1>8. IsOrdered(AfterFirst(list, 1), f)
  <2>1. AfterFirst(list, 1) = [i \in 1 .. n - 1 |-> list[i + 1]]
    BY DEF AfterFirst
  <2> HIDE DEF n
  <2>2. \A i \in 1 .. n - 1 : i + 1 \in 1 .. n
    BY <1>1
  <2>3. \A i, j \in 1 .. n - 1 : i < j => i + 1 < j + 1
    BY <1>1
  <2> QED
    BY <1>6, <2>1, <2>2, <2>3 DEF IsOrdered
<1> QED
  BY <1>1, <1>2, <1>3, <1>4, <1>5, <1>7, <1>8

-----------------------------------------------------------------------------
(* Sizes of sets of tasks.                                                  *)

\* A set that keeps C and gains W is larger by the size of W.
LEMMA Grows ==
  ASSUME NEW D, IsFiniteSet(D), NEW C, NEW W, C \cup W \subseteq D, C \cap W = {}
  PROVE  /\ Cardinality(C) + Cardinality(W) <= Cardinality(D)
         /\ Cardinality(C) \in Nat /\ Cardinality(W) \in Nat /\ Cardinality(D) \in Nat
PROOF
<1>1. IsFiniteSet(C) /\ IsFiniteSet(W)
  BY FS_Subset
<1>2. Cardinality(C) \in Nat /\ Cardinality(W) \in Nat /\ Cardinality(D) \in Nat
  BY <1>1, FS_CardinalityType
<1>3. Cardinality(C \cup W) = Cardinality(C) + Cardinality(W) - Cardinality(C \cap W)
  BY <1>1, FS_Union
<1>4. Cardinality(C \cap W) = 0
  BY FS_EmptySet
<1>5. Cardinality(C \cup W) <= Cardinality(D)
  BY FS_Subset
<1> QED
  BY <1>2, <1>3, <1>4, <1>5

\* The same with one task t that may have left.
LEMMA GrowsButOne ==
  ASSUME NEW D, IsFiniteSet(D), NEW C, IsFiniteSet(C), NEW W, NEW t,
         (C \ {t}) \cup W \subseteq D, C \cap W = {}
  PROVE  /\ Cardinality(C) + Cardinality(W) <= Cardinality(D) + 1
         /\ Cardinality(C) \in Nat /\ Cardinality(W) \in Nat /\ Cardinality(D) \in Nat
PROOF
<1>1. Cardinality(C) \in Nat
  BY FS_CardinalityType
<1>2. Cardinality(C \ {t}) >= Cardinality(C) - 1 /\ Cardinality(C \ {t}) \in Nat
  <2>1. /\ IsFiniteSet(C \ {t})
        /\ Cardinality(C \ {t}) = IF t \in C THEN Cardinality(C) - 1 ELSE Cardinality(C)
    BY FS_RemoveElement
  <2>2. Cardinality(C \ {t}) \in Nat
    BY <2>1, FS_CardinalityType
  <2> QED
    BY <1>1, <2>1, <2>2
<1>3. /\ Cardinality(C \ {t}) + Cardinality(W) <= Cardinality(D)
      /\ Cardinality(W) \in Nat /\ Cardinality(D) \in Nat
  <2>1. (C \ {t}) \cap W = {}
    OBVIOUS
  <2> QED
    BY <2>1, Grows
<1> QED
  BY <1>1, <1>2, <1>3
=============================================================================
