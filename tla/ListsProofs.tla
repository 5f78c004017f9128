----------------------------- MODULE ListsProofs -----------------------------
(***************************************************************************)
(* Proofs about Lists for any items, cores, wake times and walks: whatever *)
(* is done to them the lists stay rings, the delayed list ascends, and     *)
(* ready and delayed tasks keep the orders of TaskOrder.                   *)
(***************************************************************************)
EXTENDS Lists, Sequences, FiniteSetTheorems, WellFoundedInduction, TLAPS

\* s gives the nodes of the ring of l with its n items, from the end marker on.
Chain(next, prev, l, n, s) ==
  /\ n \in Nat /\ s \in [0 .. n -> Nodes] /\ s[0] = l
  /\ \A k \in 1 .. n : s[k] \in Items
  /\ \A j, k \in 0 .. n : s[j] = s[k] => j = k
  /\ \A k \in 0 .. n - 1 : next[s[k]] = s[k + 1] /\ prev[s[k + 1]] = s[k]
  /\ next[s[n]] = l /\ prev[l] = s[n]

\* The ring with x after its i-th node, and without its i-th node.
WithNode(n, s, i, x) ==
  [k \in 0 .. n + 1 |-> IF k <= i THEN s[k] ELSE IF k = i + 1 THEN x ELSE s[k - 1]]
WithoutNode(n, s, i) == [k \in 0 .. n - 1 |-> IF k < i THEN s[k] ELSE s[k + 1]]

-----------------------------------------------------------------------------
(* Rings.                                                                  *)

\* The node after the i-th.
After(n, s, i) == IF i < n THEN s[i + 1] ELSE s[0]

LEMMA NextInChain ==
  ASSUME NEW next, NEW prev, NEW l, NEW n, NEW s, Chain(next, prev, l, n, s), NEW i \in 0 .. n
  PROVE  /\ next[s[i]] = After(n, s, i) /\ prev[After(n, s, i)] = s[i]
         /\ s[i] \in Nodes /\ After(n, s, i) \in {s[k] : k \in 0 .. n}
<1>1. n \in Nat /\ i \in Nat /\ i <= n
  BY DEF Chain
<1>2. CASE i < n
  <2>1. i \in 0 .. n - 1 /\ i + 1 \in 0 .. n /\ i + 1 \in 1 .. n
    BY <1>1, <1>2
  <2> QED
    BY <1>2, <2>1 DEF Chain, After
<1>3. CASE ~(i < n)
  <2>1. i = n /\ 0 \in 0 .. n
    BY <1>1, <1>3
  <2> QED
    BY <1>3, <2>1 DEF Chain, After
<1> QED
  BY <1>2, <1>3

\* Linking a node that is not in the ring behind a node of the ring.
LEMMA ChainInsert ==
  ASSUME NEW next \in [Nodes -> Nodes \cup {NoNode}], NEW prev \in [Nodes -> Nodes \cup {NoNode}],
         NEW l, NEW n, NEW s, Chain(next, prev, l, n, s), NEW i \in 0 .. n, NEW x \in Items,
         \A k \in 0 .. n : s[k] # x, NEW p, NEW q, p = s[i], q = next[p]
  PROVE  Chain([next EXCEPT ![x] = q, ![p] = x], [prev EXCEPT ![x] = p, ![q] = x],
               l, n + 1, WithNode(n, s, i, x))
<1>1. PICK f, next2, prev2 : /\ f = WithNode(n, s, i, x)
                             /\ next2 = [next EXCEPT ![x] = q, ![p] = x]
                             /\ prev2 = [prev EXCEPT ![x] = p, ![q] = x]
  OBVIOUS
<1>2. /\ n \in Nat /\ i \in Nat /\ i <= n /\ Items \subseteq Nodes /\ x \in Nodes
      /\ s \in [0 .. n -> Nodes] /\ s[0] = l /\ next[s[n]] = l /\ prev[l] = s[n]
      /\ \A j, k \in 0 .. n : s[j] = s[k] => j = k
  BY DEF Chain, Nodes
<1>3. /\ q = IF i < n THEN s[i + 1] ELSE s[0]
      /\ p \in Nodes /\ q \in Nodes /\ p # x /\ q # x
  <2>1. q = After(n, s, i) /\ p \in Nodes /\ q \in {s[k] : k \in 0 .. n}
    BY NextInChain
  <2> QED
    BY <1>2, <2>1 DEF After
<1>4. /\ next2[x] = q /\ prev2[x] = p
      /\ \A k \in 0 .. n : next2[s[k]] = IF k = i THEN x ELSE next[s[k]]
      /\ \A k \in 0 .. n : prev2[s[k]] = IF s[k] = q THEN x ELSE prev[s[k]]
  BY <1>1, <1>2, <1>3
<1>5. /\ \A k \in 0 .. i : f[k] = s[k]
      /\ f[i + 1] = x
      /\ \A k \in i + 2 .. n + 1 : f[k] = s[k - 1]
  BY <1>1, <1>2 DEF WithNode
<1>6. f \in [0 .. n + 1 -> Nodes] /\ n + 1 \in Nat /\ f[0] = l
  BY <1>1, <1>2 DEF WithNode
<1>7. \A k \in 1 .. n + 1 : f[k] \in Items
  <2>1. \A k \in 1 .. n : s[k] \in Items
    BY DEF Chain
  <2>2. ASSUME NEW k \in 1 .. n + 1 PROVE f[k] \in Items
    <3>1. \/ k \in 0 .. i /\ k \in 1 .. n
          \/ k = i + 1
          \/ k \in i + 2 .. n + 1 /\ k - 1 \in 1 .. n
      BY <1>2
    <3> QED
      BY <1>5, <2>1, <3>1
  <2> QED
    BY <2>2
<1>8. ASSUME NEW j \in 0 .. n + 1, NEW k \in 0 .. n + 1, f[j] = f[k] PROVE j = k
  <2>1. \/ j \in 0 .. i /\ j \in 0 .. n
        \/ j = i + 1
        \/ j \in i + 2 .. n + 1 /\ j - 1 \in 0 .. n
    BY <1>2
  <2>2. \/ k \in 0 .. i /\ k \in 0 .. n
        \/ k = i + 1
        \/ k \in i + 2 .. n + 1 /\ k - 1 \in 0 .. n
    BY <1>2
  <2> QED
    BY <1>2, <1>5, <1>8, <2>1, <2>2
<1>9. ASSUME NEW k \in 0 .. n PROVE next2[f[k]] = f[k + 1] /\ prev2[f[k + 1]] = f[k]
  <2>1. \A h \in 0 .. n - 1 : next[s[h]] = s[h + 1] /\ prev[s[h + 1]] = s[h]
    BY DEF Chain
  <2>2. CASE k < i
    <3>1. k \in 0 .. i /\ k + 1 \in 0 .. i /\ k \in 0 .. n - 1 /\ k + 1 \in 0 .. n /\ k # i
      BY <1>2, <2>2
    <3>2. s[k + 1] # q
      BY <1>2, <1>3, <2>2, <3>1
    <3> QED
      BY <1>4, <1>5, <2>1, <3>1, <3>2
  <2>3. CASE k = i
    BY <1>2, <1>4, <1>5, <2>3
  <2>4. CASE k = i + 1
    <3>1. i < n /\ k + 1 \in i + 2 .. n + 1 /\ k \in 0 .. n
      BY <1>2, <2>4
    <3> QED
      BY <1>2, <1>3, <1>4, <1>5, <2>4, <3>1
  <2>5. CASE k > i + 1
    <3>1. /\ k \in i + 2 .. n + 1 /\ k + 1 \in i + 2 .. n + 1 /\ k - 1 \in 0 .. n - 1
          /\ k - 1 \in 0 .. n /\ k - 1 # i /\ (k - 1) + 1 = k /\ (k + 1) - 1 = k /\ i < n
      BY <1>2, <2>5
    <3>2. s[k] # q
      BY <1>2, <1>3, <2>5, <3>1
    <3>3. f[k] = s[k - 1] /\ f[k + 1] = s[k]
      BY <1>5, <3>1
    <3> QED
      BY <1>4, <2>1, <3>1, <3>2, <3>3
  <2> QED
    BY <1>2, <2>2, <2>3, <2>4, <2>5
<1>10. next2[f[n + 1]] = l /\ prev2[l] = f[n + 1]
  <2>1. CASE i = n
    BY <1>2, <1>3, <1>4, <1>5, <2>1
  <2>2. CASE i < n
    <3>1. n + 1 \in i + 2 .. n + 1 /\ (n + 1) - 1 = n /\ n # i /\ n \in 0 .. n /\ 0 \in 0 .. n
          /\ i + 1 \in 0 .. n /\ i + 1 # 0
      BY <1>2, <2>2
    <3>2. f[n + 1] = s[n] /\ l # q
      BY <1>2, <1>3, <1>5, <2>2, <3>1
    <3> QED
      BY <1>2, <1>4, <3>1, <3>2
  <2> QED
    BY <1>2, <2>1, <2>2
<1>11. (n + 1) - 1 = n
  BY <1>2
<1>12. Chain(next2, prev2, l, n + 1, f)
  BY <1>6, <1>7, <1>8, <1>9, <1>10, <1>11 DEF Chain
<1> QED
  BY <1>1, <1>12

\* Unlinking an item of the ring.
LEMMA ChainRemove ==
  ASSUME NEW next \in [Nodes -> Nodes \cup {NoNode}], NEW prev \in [Nodes -> Nodes \cup {NoNode}],
         NEW l, NEW n, NEW s, Chain(next, prev, l, n, s), NEW i \in 1 .. n,
         NEW p, NEW q, p = prev[s[i]], q = next[s[i]]
  PROVE  /\ Chain([next EXCEPT ![p] = q], [prev EXCEPT ![q] = p], l, n - 1, WithoutNode(n, s, i))
         /\ p = s[i - 1] /\ p \in Nodes /\ q \in Nodes /\ q = After(n, s, i)
<1>1. PICK f, next2, prev2 : /\ f = WithoutNode(n, s, i)
                             /\ next2 = [next EXCEPT ![p] = q]
                             /\ prev2 = [prev EXCEPT ![q] = p]
  OBVIOUS
<1>2. /\ n \in Nat /\ i \in Nat /\ i <= n /\ i >= 1 /\ i - 1 \in 0 .. n /\ i - 1 \in 0 .. n - 1
      /\ i \in 0 .. n /\ (i - 1) + 1 = i
      /\ s \in [0 .. n -> Nodes] /\ s[0] = l /\ next[s[n]] = l /\ prev[l] = s[n]
      /\ \A j, k \in 0 .. n : s[j] = s[k] => j = k
  BY DEF Chain
<1>3. /\ q = IF i < n THEN s[i + 1] ELSE s[0]
      /\ p \in Nodes /\ q \in Nodes /\ p = s[i - 1] /\ q = After(n, s, i)
  <2>0. i \in 0 .. n
    BY <1>2
  <2>1. q = After(n, s, i) /\ q \in {s[k] : k \in 0 .. n}
    BY <2>0, NextInChain
  <2>2. prev[s[(i - 1) + 1]] = s[i - 1]
    BY <1>2 DEF Chain
  <2>3. p = s[i - 1]
    BY <1>2, <2>2
  <2> QED
    BY <1>2, <2>1, <2>3 DEF After
<1>4. /\ \A k \in 0 .. n : next2[s[k]] = IF k = i - 1 THEN q ELSE next[s[k]]
      /\ \A k \in 0 .. n : prev2[s[k]] = IF s[k] = q THEN p ELSE prev[s[k]]
  BY <1>1, <1>2, <1>3
<1>5. /\ \A k \in 0 .. i - 1 : f[k] = s[k]
      /\ \A k \in i .. n - 1 : f[k] = s[k + 1]
  BY <1>1, <1>2 DEF WithoutNode
<1>6. f \in [0 .. n - 1 -> Nodes] /\ n - 1 \in Nat /\ f[0] = l
  BY <1>1, <1>2 DEF WithoutNode
<1>7. \A k \in 1 .. n - 1 : f[k] \in Items
  <2>1. \A k \in 1 .. n : s[k] \in Items
    BY DEF Chain
  <2>2. ASSUME NEW k \in 1 .. n - 1 PROVE f[k] \in Items
    <3>1. \/ k \in 0 .. i - 1 /\ k \in 1 .. n
          \/ k \in i .. n - 1 /\ k + 1 \in 1 .. n
      BY <1>2
    <3> QED
      BY <1>5, <2>1, <3>1
  <2> QED
    BY <2>2
<1>8. ASSUME NEW j \in 0 .. n - 1, NEW k \in 0 .. n - 1, f[j] = f[k] PROVE j = k
  <2>1. \/ j \in 0 .. i - 1 /\ j \in 0 .. n
        \/ j \in i .. n - 1 /\ j + 1 \in 0 .. n
    BY <1>2
  <2>2. \/ k \in 0 .. i - 1 /\ k \in 0 .. n
        \/ k \in i .. n - 1 /\ k + 1 \in 0 .. n
    BY <1>2
  <2> QED
    BY <1>2, <1>5, <1>8, <2>1, <2>2
<1>9. ASSUME NEW k \in 0 .. (n - 1) - 1 PROVE next2[f[k]] = f[k + 1] /\ prev2[f[k + 1]] = f[k]
  <2>1. \A h \in 0 .. n - 1 : next[s[h]] = s[h + 1] /\ prev[s[h + 1]] = s[h]
    BY DEF Chain
  <2>2. CASE k < i - 1
    <3>1. k \in 0 .. i - 1 /\ k + 1 \in 0 .. i - 1 /\ k \in 0 .. n - 1 /\ k + 1 \in 0 .. n /\ k # i - 1
          /\ k \in 0 .. n
      BY <1>2, <2>2
    <3>2. s[k + 1] # q
      BY <1>2, <1>3, <2>2, <3>1
    <3> QED
      BY <1>4, <1>5, <2>1, <3>1, <3>2
  <2>3. CASE k = i - 1
    <3>1. i < n /\ k + 1 \in i .. n - 1 /\ i + 1 \in 0 .. n /\ k + 1 = i /\ k \in 0 .. i - 1 /\ k \in 0 .. n
      BY <1>2, <2>3
    <3>2. f[k] = s[k] /\ f[k + 1] = s[i + 1] /\ q = s[i + 1] /\ p = s[k]
      BY <1>3, <1>5, <2>3, <3>1
    <3> QED
      BY <1>4, <2>3, <3>1, <3>2
  <2>4. CASE k > i - 1
    <3>1. /\ k \in i .. n - 1 /\ k + 1 \in i .. n - 1 /\ k + 1 \in 0 .. n - 1 /\ k + 1 \in 0 .. n
          /\ k + 1 # i - 1 /\ (k + 1) + 1 \in 0 .. n /\ i < n /\ i + 1 \in 0 .. n
          /\ (k + 1) + 1 # i + 1
      BY <1>2, <2>4
    <3>2. s[(k + 1) + 1] # q
      BY <1>2, <1>3, <3>1
    <3>3. f[k] = s[k + 1] /\ f[k + 1] = s[(k + 1) + 1]
      BY <1>5, <3>1
    <3> QED
      BY <1>4, <2>1, <3>1, <3>2, <3>3
  <2> QED
    BY <1>2, <2>2, <2>3, <2>4
<1>10. next2[f[n - 1]] = l /\ prev2[l] = f[n - 1]
  <2>1. CASE i = n
    <3>1. n - 1 \in 0 .. i - 1 /\ n - 1 = i - 1 /\ n - 1 \in 0 .. n /\ 0 \in 0 .. n
      BY <1>2, <2>1
    <3>2. f[n - 1] = s[i - 1] /\ q = l
      BY <1>2, <1>3, <1>5, <2>1, <3>1
    <3> QED
      BY <1>2, <1>3, <1>4, <3>1, <3>2
  <2>2. CASE i < n
    <3>1. n - 1 \in i .. n - 1 /\ (n - 1) + 1 = n /\ n # i - 1 /\ n \in 0 .. n /\ 0 \in 0 .. n
          /\ i + 1 \in 0 .. n /\ i + 1 # 0
      BY <1>2, <2>2
    <3>2. f[n - 1] = s[n] /\ l # q
      BY <1>2, <1>3, <1>5, <2>2, <3>1
    <3> QED
      BY <1>2, <1>4, <3>1, <3>2
  <2> QED
    BY <1>2, <2>1, <2>2
<1>11. Chain(next2, prev2, l, n - 1, f)
  BY <1>6, <1>7, <1>8, <1>9, <1>10 DEF Chain
<1> QED
  BY <1>1, <1>3, <1>11

\* What is done to nodes outside the ring leaves it alone.
LEMMA ChainElsewhere ==
  ASSUME NEW next, NEW prev, NEW l, NEW n, NEW s, Chain(next, prev, l, n, s),
         NEW next2, NEW prev2,
         \A k \in 0 .. n : next2[s[k]] = next[s[k]] /\ prev2[s[k]] = prev[s[k]]
  PROVE  Chain(next2, prev2, l, n, s)
<1>1. n \in Nat /\ 0 \in 0 .. n /\ n \in 0 .. n /\ s[0] = l
      /\ \A k \in 0 .. n - 1 : k \in 0 .. n /\ k + 1 \in 0 .. n
  BY DEF Chain
<1> QED
  BY <1>1 DEF Chain

-----------------------------------------------------------------------------
(* The order From gives.                                                   *)

\* A nonempty set of numbers has a least one.
LEMMA LeastOne ==
  ASSUME NEW T \in SUBSET Nat, T # {}
  PROVE  \E x \in T : \A y \in T : x <= y
<1> DEFINE R == {r \in Nat \X Nat : r[1] < r[2]}
<1>1. IsWellFoundedOn(R, Nat)
  BY NatLessThanWellFounded DEF OpToRel
<1>2. \A x, y \in Nat : y < x => <<y, x>> \in R
  OBVIOUS
<1> HIDE DEF R
<1>3. PICK x \in T : \A y \in T : ~(<<y, x>> \in R)
  BY <1>1, WFMin
<1>4. ASSUME NEW y \in T PROVE x <= y
  <2>1. x \in Nat /\ y \in Nat
    OBVIOUS
  <2>2. ~(y < x)
    BY <1>2, <1>3, <2>1
  <2> QED
    BY <2>1, <2>2
<1> QED
  BY <1>4

\* The ring of list l in memory m, and the list itself.
Holds(container, l, n, s) ==
  \A x \in Items : container[x] = l <=> \E k \in 1 .. n : s[k] = x

IsList(m, l, n, s) ==
  /\ Chain(m.pxNext, m.pxPrevious, l, n, s)
  /\ Holds(m.pxContainer, l, n, s)
  /\ m.uxNumberOfItems[l] = n

\* The ring from its i-th node on.
Turned(n, s, i) == [k \in 0 .. n |-> IF i + k <= n THEN s[i + k] ELSE s[i + k - n - 1]]

\* The links, followed from any node of a list, give its ring.
LEMMA FromIsTurned ==
  ASSUME NEW m, NEW l, NEW n, NEW s, IsList(m, l, n, s), NEW i \in 0 .. n
  PROVE  From(m, l, s[i]) = Turned(n, s, i)
<1>1. PICK next, a, t : next = m.pxNext /\ a = From(m, l, s[i]) /\ t = Turned(n, s, i)
  OBVIOUS
<1>2. n \in Nat /\ i \in Nat /\ i <= n /\ m.uxNumberOfItems[l] = n
      /\ s[0] = l /\ next[s[n]] = l
      /\ \A k \in 0 .. n - 1 : next[s[k]] = s[k + 1]
  BY <1>1 DEF IsList, Chain
<1>3. DOMAIN t = 0 .. n /\ t[0] = s[i] /\ \A k \in 1 .. n : t[k] = next[t[k - 1]]
  <2>1. \A k \in 0 .. n : t[k] = IF i + k <= n THEN s[i + k] ELSE s[i + k - n - 1]
    BY <1>1 DEF Turned
  <2>2. ASSUME NEW k \in 1 .. n PROVE t[k] = next[t[k - 1]]
    <3>1. k \in 0 .. n /\ k - 1 \in 0 .. n /\ k \in Nat /\ i + (k - 1) = i + k - 1
      BY <1>2
    <3>2. CASE i + k <= n
      <4>1. i + k - 1 \in 0 .. n - 1 /\ (i + k - 1) + 1 = i + k /\ i + (k - 1) <= n
        BY <1>2, <3>1, <3>2
      <4>2. t[k] = s[i + k] /\ t[k - 1] = s[i + k - 1]
        BY <2>1, <3>1, <3>2, <4>1
      <4> QED
        BY <1>2, <4>1, <4>2
    <3>3. CASE i + k = n + 1
      <4>1. i + (k - 1) <= n /\ i + (k - 1) = n /\ ~(i + k <= n) /\ i + k - n - 1 = 0
        BY <1>2, <3>1, <3>3
      <4>2. t[k] = s[0] /\ t[k - 1] = s[n]
        BY <2>1, <3>1, <4>1
      <4> QED
        BY <1>2, <4>2
    <3>4. CASE i + k > n + 1
      <4>1. /\ ~(i + k <= n) /\ ~(i + (k - 1) <= n) /\ i + (k - 1) - n - 1 = i + k - n - 2
            /\ i + k - n - 2 \in 0 .. n - 1 /\ (i + k - n - 2) + 1 = i + k - n - 1
        BY <1>2, <3>1, <3>4
      <4>2. t[k] = s[i + k - n - 1] /\ t[k - 1] = s[i + k - n - 2]
        BY <2>1, <3>1, <4>1
      <4> QED
        BY <1>2, <4>1, <4>2
    <3> QED
      BY <1>2, <3>1, <3>2, <3>3, <3>4
  <2>3. t[0] = s[i] /\ DOMAIN t = 0 .. n
    BY <1>1, <1>2, <2>1 DEF Turned
  <2> QED
    BY <2>2, <2>3
<1>4. t = [k \in 0 .. n |-> IF k = 0 THEN s[i] ELSE next[t[k - 1]]]
  <2>1. \E f : f = [k \in 0 .. n |-> t[k]]
    OBVIOUS
  <2>2. t = [k \in 0 .. n |-> t[k]]
    BY <1>1 DEF Turned
  <2>3. \A k \in 0 .. n : t[k] = IF k = 0 THEN s[i] ELSE next[t[k - 1]]
    BY <1>2, <1>3
  <2> QED
    BY <2>2, <2>3, Zenon
<1>5. a = [k \in 0 .. n |-> IF k = 0 THEN s[i] ELSE next[a[k - 1]]]
  <2>1. \E f : f = [k \in 0 .. n |-> IF k = 0 THEN s[i] ELSE next[f[k - 1]]]
    BY <1>4
  <2>2. a = CHOOSE f : f = [k \in 0 .. m.uxNumberOfItems[l] |->
                              IF k = 0 THEN s[i] ELSE m.pxNext[f[k - 1]]]
    BY <1>1 DEF From
  <2>3. a = CHOOSE f : f = [k \in 0 .. n |-> IF k = 0 THEN s[i] ELSE next[f[k - 1]]]
    <3>1. m.uxNumberOfItems[l] = n /\ m.pxNext = next
      BY <1>1, <1>2
    <3> QED
      BY <2>2, <3>1, Zenon
  <2> QED
    BY <2>1, <2>3, Zenon
<1>6. \A k \in 0 .. n : a[k] = t[k]
  <2> SUFFICES ASSUME NEW h \in 0 .. n, a[h] # t[h] PROVE FALSE
    OBVIOUS
  <2> DEFINE T == {k \in 0 .. n : a[k] # t[k]}
  <2>1. T \in SUBSET Nat /\ T # {}
    BY <1>2
  <2> HIDE DEF T
  <2>2. PICK k \in T : \A y \in T : k <= y
    BY <2>1, LeastOne
  <2>3. k \in 0 .. n /\ a[k] # t[k]
    BY DEF T
  <2>4. k # 0
    BY <1>3, <1>5, <2>3
  <2>5. k - 1 \in 0 .. n /\ k \in 1 .. n /\ ~(k <= k - 1)
    BY <1>2, <2>3, <2>4
  <2>6. a[k - 1] = t[k - 1]
    BY <2>2, <2>5 DEF T
  <2>7. a[k] = next[a[k - 1]]
    BY <1>5, <2>3, <2>4
  <2> QED
    BY <1>3, <2>3, <2>5, <2>6, <2>7
<1>7. a = [k \in 0 .. n |-> a[k]] /\ t = [k \in 0 .. n |-> t[k]]
  BY <1>4, <1>5
<1>8. a = t
  BY <1>6, <1>7, Zenon
<1> QED
  BY <1>1, <1>8

\* From the end marker they give it in order.
LEMMA FromIsOrder ==
  ASSUME NEW m, NEW l, NEW n, NEW s, IsList(m, l, n, s)
  PROVE  From(m, l, l) = s
<1>1. n \in Nat /\ s \in [0 .. n -> Nodes] /\ s[0] = l /\ 0 \in 0 .. n
  BY DEF IsList, Chain
<1>2. From(m, l, s[0]) = Turned(n, s, 0)
  BY <1>1, FromIsTurned
<1>3. Turned(n, s, 0) = [k \in 0 .. n |-> s[k]]
  BY <1>1 DEF Turned
<1> QED
  BY <1>1, <1>2, <1>3

-----------------------------------------------------------------------------
(* Memories all of whose lists are rings.                                  *)

Sorted(value, n, s) == \A j, k \in 1 .. n : j <= k => value[s[j]] <= value[s[k]]

ListOK(m, l) ==
  \E n, s : IsList(m, l, n, s) /\ (l = DelayedList => Sorted(m.xItemValue, n, s))

RingIn(m, l) == {x \in Items : m.pxContainer[x] = l} \cup {l}

\* Each list is a ring with its index inside, and the delayed list ascends.
MemOK(m) ==
  /\ m \in Memory
  /\ \A l \in AllLists : ListOK(m, l) /\ m.pxIndex[l] \in RingIn(m, l)

LEMMA FieldTypes ==
  ASSUME NEW m \in Memory
  PROVE  /\ m.pxNext \in [Nodes -> Nodes \cup {NoNode}]
         /\ m.pxPrevious \in [Nodes -> Nodes \cup {NoNode}]
         /\ m.pxContainer \in [Items -> AllLists \cup {NoNode}]
         /\ m.xItemValue \in [Items -> 0 .. MaxWakeTime]
         /\ m.pxIndex \in [AllLists -> Nodes]
         /\ m.uxNumberOfItems \in [AllLists -> Nat]
BY DEF Memory

LEMMA NodeFacts ==
  /\ Items \subseteq Nodes /\ AllLists \subseteq Nodes /\ Items \cap AllLists = {}
  /\ NoNode \notin AllLists /\ NoNode \notin Items
  /\ ReadyList \in AllLists /\ DelayedList \in AllLists /\ ReadyList # DelayedList
BY ListsAssumption DEF Nodes, AllLists

LEMMA RingIsOrder ==
  ASSUME NEW m, NEW l \in AllLists, NEW n, NEW s, IsList(m, l, n, s)
  PROVE  RingIn(m, l) = {s[k] : k \in 0 .. n} /\ n \in Nat /\ s \in [0 .. n -> Nodes]
<1>1. n \in Nat /\ s \in [0 .. n -> Nodes] /\ s[0] = l /\ \A k \in 1 .. n : s[k] \in Items
  BY DEF IsList, Chain
<1>2. \A x \in Items : m.pxContainer[x] = l <=> \E k \in 1 .. n : s[k] = x
  BY DEF IsList, Holds
<1>3. 0 \in 0 .. n /\ 1 .. n \subseteq 0 .. n /\ \A k \in 0 .. n : k = 0 \/ k \in 1 .. n
  BY <1>1
<1>4. ASSUME NEW x \in RingIn(m, l) PROVE x \in {s[k] : k \in 0 .. n}
  BY <1>1, <1>2, <1>3 DEF RingIn
<1>5. ASSUME NEW k \in 0 .. n PROVE s[k] \in RingIn(m, l)
  BY <1>1, <1>2, <1>3 DEF RingIn
<1> QED
  BY <1>1, <1>4, <1>5

\* A list is as it was when nothing of its own has changed.
LEMMA SameOrder ==
  ASSUME NEW m, NEW mm, NEW l \in AllLists, NEW n, NEW s, IsList(m, l, n, s),
         \A y \in RingIn(m, l) : mm.pxNext[y] = m.pxNext[y] /\ mm.pxPrevious[y] = m.pxPrevious[y],
         \A y \in Items : mm.pxContainer[y] = l <=> m.pxContainer[y] = l,
         mm.uxNumberOfItems[l] = m.uxNumberOfItems[l]
  PROVE  IsList(mm, l, n, s)
<1>1. RingIn(m, l) = {s[k] : k \in 0 .. n}
  BY RingIsOrder
<1>2. Chain(mm.pxNext, mm.pxPrevious, l, n, s)
  BY <1>1, ChainElsewhere DEF IsList
<1> QED
  BY <1>2 DEF IsList, Holds

LEMMA SameList ==
  ASSUME NEW m, NEW mm, NEW l \in AllLists, ListOK(m, l),
         \A y \in RingIn(m, l) : mm.pxNext[y] = m.pxNext[y] /\ mm.pxPrevious[y] = m.pxPrevious[y],
         \A y \in Items : mm.pxContainer[y] = l <=> m.pxContainer[y] = l,
         \A y \in RingIn(m, l) \cap Items : mm.xItemValue[y] = m.xItemValue[y],
         mm.uxNumberOfItems[l] = m.uxNumberOfItems[l]
  PROVE  ListOK(mm, l) /\ RingIn(mm, l) = RingIn(m, l)
<1>1. PICK n, s :
        IsList(m, l, n, s) /\ (l = DelayedList => Sorted(m.xItemValue, n, s))
  BY DEF ListOK
<1>2. /\ RingIn(m, l) = {s[k] : k \in 0 .. n}
      /\ \A k \in 1 .. n : s[k] \in Items /\ k \in 0 .. n
  <2>1. RingIn(m, l) = {s[k] : k \in 0 .. n} /\ n \in Nat
    BY <1>1, RingIsOrder
  <2>2. \A k \in 1 .. n : s[k] \in Items
    BY <1>1 DEF IsList, Chain
  <2> QED
    BY <2>1, <2>2
<1>3. IsList(mm, l, n, s)
  BY <1>1, SameOrder
<1>4. l = DelayedList => Sorted(mm.xItemValue, n, s)
  BY <1>1, <1>2 DEF Sorted
<1> QED
  BY <1>3, <1>4 DEF ListOK, RingIn

\* The order of each list but l is as it was.
OthersKept(m, mm, l) ==
  \A l2 \in AllLists \ {l} : \A n, s : IsList(m, l2, n, s) => IsList(mm, l2, n, s)

\* An item that is on no list is linked into l behind node p.
LEMMA LinkKeeps ==
  ASSUME NEW m, MemOK(m), NEW l \in AllLists, NEW x \in Items, m.pxContainer[x] = NoNode,
         NEW n, NEW s, IsList(m, l, n, s), NEW i \in 0 .. n,
         l = DelayedList => Sorted(m.xItemValue, n + 1, WithNode(n, s, i, x)),
         NEW p, NEW q, p = s[i], q = m.pxNext[p],
         NEW mm, mm = Linked(m, l, x, p, q)
  PROVE  /\ MemOK(mm)
         /\ mm.pxContainer = [m.pxContainer EXCEPT ![x] = l]
         /\ mm.xItemValue = m.xItemValue /\ mm.pxIndex = m.pxIndex
         /\ IsList(mm, l, n + 1, WithNode(n, s, i, x)) /\ OthersKept(m, mm, l)
<1>1. /\ mm.pxNext = [m.pxNext EXCEPT ![x] = q, ![p] = x]
      /\ mm.pxPrevious = [m.pxPrevious EXCEPT ![x] = p, ![q] = x]
      /\ mm.pxContainer = [m.pxContainer EXCEPT ![x] = l]
      /\ mm.xItemValue = m.xItemValue
      /\ mm.pxIndex = m.pxIndex
      /\ mm.uxNumberOfItems = [m.uxNumberOfItems EXCEPT ![l] = @ + 1]
  BY DEF Linked
<1>2. /\ m.pxNext \in [Nodes -> Nodes \cup {NoNode}]
      /\ m.pxPrevious \in [Nodes -> Nodes \cup {NoNode}]
      /\ m.pxContainer \in [Items -> AllLists \cup {NoNode}]
      /\ m.xItemValue \in [Items -> 0 .. MaxWakeTime]
      /\ m.pxIndex \in [AllLists -> Nodes]
      /\ m.uxNumberOfItems \in [AllLists -> Nat]
  BY FieldTypes DEF MemOK
<1>3. /\ RingIn(m, l) = {s[k] : k \in 0 .. n} /\ n \in Nat /\ s \in [0 .. n -> Nodes]
      /\ Chain(m.pxNext, m.pxPrevious, l, n, s) /\ m.uxNumberOfItems[l] = n
      /\ \A y \in Items : m.pxContainer[y] = l <=> \E k \in 1 .. n : s[k] = y
      /\ \A k \in 1 .. n : s[k] \in Items
  <2>1. RingIn(m, l) = {s[k] : k \in 0 .. n} /\ n \in Nat /\ s \in [0 .. n -> Nodes]
    BY RingIsOrder
  <2>2. /\ Chain(m.pxNext, m.pxPrevious, l, n, s) /\ m.uxNumberOfItems[l] = n
        /\ \A y \in Items : m.pxContainer[y] = l <=> \E k \in 1 .. n : s[k] = y
    BY DEF IsList, Holds
  <2>3. \A k \in 1 .. n : s[k] \in Items
    BY <2>2 DEF Chain
  <2> QED
    BY <2>1, <2>2, <2>3
<1>4. p \in RingIn(m, l) /\ q \in RingIn(m, l) /\ x \notin RingIn(m, l) /\ q \in Nodes /\ p \in Nodes
  <2>0. Chain(m.pxNext, m.pxPrevious, l, n, s)
    BY <1>3
  <2>1. q = After(n, s, i) /\ q \in {s[k] : k \in 0 .. n}
    BY <2>0, NextInChain
  <2> QED
    BY <1>3, <2>1, NodeFacts DEF RingIn
<1>5. mm \in Memory
  <2>1. /\ mm.pxNext \in [Nodes -> Nodes \cup {NoNode}]
        /\ mm.pxPrevious \in [Nodes -> Nodes \cup {NoNode}]
        /\ mm.pxContainer \in [Items -> AllLists \cup {NoNode}]
        /\ mm.xItemValue \in [Items -> 0 .. MaxWakeTime]
        /\ mm.pxIndex \in [AllLists -> Nodes]
        /\ mm.uxNumberOfItems \in [AllLists -> Nat]
    BY <1>1, <1>2, <1>4, NodeFacts
  <2> QED
    BY <2>1 DEF Linked, Memory
<1>6. ListOK(mm, l) /\ IsList(mm, l, n + 1, WithNode(n, s, i, x))
  <2>1. Chain(mm.pxNext, mm.pxPrevious, l, n + 1, WithNode(n, s, i, x))
    <3>1. \A k \in 0 .. n : s[k] # x
      BY <1>3, <1>4
    <3>2. Chain([m.pxNext EXCEPT ![x] = q, ![p] = x], [m.pxPrevious EXCEPT ![x] = p, ![q] = x],
                l, n + 1, WithNode(n, s, i, x))
      <4>1. /\ m.pxNext \in [Nodes -> Nodes \cup {NoNode}]
            /\ m.pxPrevious \in [Nodes -> Nodes \cup {NoNode}]
            /\ Chain(m.pxNext, m.pxPrevious, l, n, s)
        BY <1>2, <1>3
      <4> QED
        BY <3>1, <4>1, ChainInsert
    <3> QED
      BY <1>1, <3>2
  <2>2. Holds(mm.pxContainer, l, n + 1, WithNode(n, s, i, x))
    <3> DEFINE f == WithNode(n, s, i, x)
    <3>1. /\ \A k \in 1 .. i : f[k] = s[k] /\ k \in 1 .. n + 1
          /\ f[i + 1] = x /\ i + 1 \in 1 .. n + 1
          /\ \A k \in i + 1 .. n : f[k + 1] = s[k] /\ k + 1 \in 1 .. n + 1
          /\ \A k \in 1 .. n : k \in 1 .. i \/ k \in i + 1 .. n
          /\ \A k \in 1 .. n + 1 : \/ k \in 1 .. n /\ f[k] = s[k]
                                   \/ f[k] = x
                                   \/ k - 1 \in 1 .. n /\ f[k] = s[k - 1]
      BY <1>3 DEF WithNode
    <3>2. \A y \in Items : mm.pxContainer[y] = l <=> y = x \/ m.pxContainer[y] = l
      BY <1>1, <1>2
    <3> HIDE DEF f
    <3>3. ASSUME NEW y \in Items
          PROVE  (\E k \in 1 .. n + 1 : f[k] = y) <=> y = x \/ \E k \in 1 .. n : s[k] = y
      BY <3>1
    <3>4. Holds(mm.pxContainer, l, n + 1, f)
      BY <1>3, <3>2, <3>3 DEF Holds
    <3> QED
      BY <3>4 DEF f
  <2>3. mm.uxNumberOfItems[l] = n + 1
    BY <1>1, <1>2, <1>3
  <2>4. IsList(mm, l, n + 1, WithNode(n, s, i, x))
    BY <2>1, <2>2, <2>3 DEF IsList
  <2>5. n + 1 \in Nat /\ WithNode(n, s, i, x) \in [0 .. n + 1 -> Nodes]
    BY <2>1 DEF Chain
  <2> QED
    BY <1>1, <2>4, <2>5 DEF ListOK
<1>7. ASSUME NEW l2 \in AllLists \ {l}
      PROVE  /\ ListOK(mm, l2) /\ RingIn(mm, l2) = RingIn(m, l2)
             /\ \A n2, s2 : IsList(m, l2, n2, s2) => IsList(mm, l2, n2, s2)
  <2>1. \A y \in RingIn(m, l2) : y # x /\ y # p /\ y # q /\ y \in Nodes
    BY <1>2, <1>4, NodeFacts DEF RingIn
  <2>2. \A y \in RingIn(m, l2) : mm.pxNext[y] = m.pxNext[y] /\ mm.pxPrevious[y] = m.pxPrevious[y]
    BY <1>1, <1>2, <2>1
  <2>3. \A y \in Items : mm.pxContainer[y] = l2 <=> m.pxContainer[y] = l2
    BY <1>1, <1>2, NodeFacts
  <2>4. mm.uxNumberOfItems[l2] = m.uxNumberOfItems[l2]
    BY <1>1, <1>2
  <2>5. ListOK(m, l2)
    BY DEF MemOK
  <2>6. \A y \in RingIn(m, l2) \cap Items : mm.xItemValue[y] = m.xItemValue[y]
    BY <1>1
  <2>7. ListOK(mm, l2) /\ RingIn(mm, l2) = RingIn(m, l2)
    BY <2>2, <2>3, <2>4, <2>5, <2>6, SameList
  <2>8. ASSUME NEW n2, NEW s2, IsList(m, l2, n2, s2) PROVE IsList(mm, l2, n2, s2)
    BY <2>2, <2>3, <2>4, <2>8, SameOrder
  <2> QED
    BY <2>7, <2>8
<1>8. \A l2 \in AllLists : mm.pxIndex[l2] \in RingIn(mm, l2)
  <2>1. RingIn(m, l) \subseteq RingIn(mm, l)
    BY <1>1, <1>2 DEF RingIn
  <2> QED
    BY <1>1, <1>7, <2>1 DEF MemOK
<1>9. OthersKept(m, mm, l)
  BY <1>7 DEF OthersKept
<1> QED
  BY <1>1, <1>5, <1>6, <1>7, <1>8, <1>9 DEF MemOK

\* The i-th item is taken off the list it is on.
LEMMA UnlinkKeeps ==
  ASSUME NEW m, MemOK(m), NEW l \in AllLists, NEW x \in Items, m.pxContainer[x] = l,
         NEW n, NEW s, IsList(m, l, n, s), NEW i \in 1 .. n, s[i] = x,
         NEW mm, mm = uxListRemove(m, x)
  PROVE  /\ MemOK(mm)
         /\ mm.pxContainer = [m.pxContainer EXCEPT ![x] = NoNode]
         /\ mm.xItemValue = m.xItemValue
         /\ mm.pxIndex = IF m.pxIndex[l] = x THEN [m.pxIndex EXCEPT ![l] = s[i - 1]] ELSE m.pxIndex
         /\ IsList(mm, l, n - 1, WithoutNode(n, s, i)) /\ OthersKept(m, mm, l)
<1>0. PICK p, q : l = m.pxContainer[x] /\ p = m.pxPrevious[x] /\ q = m.pxNext[x]
  OBVIOUS
<1>1. /\ mm.pxNext = [m.pxNext EXCEPT ![p] = q]
      /\ mm.pxPrevious = [m.pxPrevious EXCEPT ![q] = p]
      /\ mm.pxContainer = [m.pxContainer EXCEPT ![x] = NoNode]
      /\ mm.xItemValue = m.xItemValue
      /\ mm.pxIndex = IF m.pxIndex[l] = x THEN [m.pxIndex EXCEPT ![l] = p] ELSE m.pxIndex
      /\ mm.uxNumberOfItems = [m.uxNumberOfItems EXCEPT ![l] = @ - 1]
  BY <1>0 DEF uxListRemove
<1>2. /\ m.pxNext \in [Nodes -> Nodes \cup {NoNode}]
      /\ m.pxPrevious \in [Nodes -> Nodes \cup {NoNode}]
      /\ m.pxContainer \in [Items -> AllLists \cup {NoNode}]
      /\ m.xItemValue \in [Items -> 0 .. MaxWakeTime]
      /\ m.pxIndex \in [AllLists -> Nodes]
      /\ m.uxNumberOfItems \in [AllLists -> Nat]
      /\ l \in AllLists
  BY <1>0, FieldTypes DEF MemOK
<1>3. IsList(m, l, n, s) /\ (l = DelayedList => Sorted(m.xItemValue, n, s))
  <2>1. PICK n2, s2 :
          IsList(m, l, n2, s2) /\ (l = DelayedList => Sorted(m.xItemValue, n2, s2))
    BY DEF MemOK, ListOK
  <2>2. n2 = n /\ s2 = s
    BY <2>1, FromIsOrder DEF IsList
  <2> QED
    BY <2>1, <2>2
<1>4. /\ RingIn(m, l) = {s[k] : k \in 0 .. n} /\ n \in Nat /\ s \in [0 .. n -> Nodes]
      /\ Chain(m.pxNext, m.pxPrevious, l, n, s) /\ m.uxNumberOfItems[l] = n
      /\ \A y \in Items : m.pxContainer[y] = l <=> \E k \in 1 .. n : s[k] = y
      /\ \A k \in 1 .. n : s[k] \in Items
      /\ \A j, k \in 0 .. n : s[j] = s[k] => j = k
  <2>1. RingIn(m, l) = {s[k] : k \in 0 .. n} /\ n \in Nat /\ s \in [0 .. n -> Nodes]
    BY <1>2, <1>3, RingIsOrder
  <2>2. /\ Chain(m.pxNext, m.pxPrevious, l, n, s) /\ m.uxNumberOfItems[l] = n
        /\ \A y \in Items : m.pxContainer[y] = l <=> \E k \in 1 .. n : s[k] = y
    BY <1>3 DEF IsList, Holds
  <2>3. /\ \A k \in 1 .. n : s[k] \in Items
        /\ \A j, k \in 0 .. n : s[j] = s[k] => j = k
    BY <2>2 DEF Chain
  <2> QED
    BY <2>1, <2>2, <2>3
<1>5. i \in 1 .. n /\ s[i] = x
  OBVIOUS
<1>6. /\ Chain(mm.pxNext, mm.pxPrevious, l, n - 1, WithoutNode(n, s, i))
      /\ p = s[i - 1] /\ p \in Nodes /\ q \in Nodes /\ q = After(n, s, i)
  <2>1. /\ m.pxNext \in [Nodes -> Nodes \cup {NoNode}]
        /\ m.pxPrevious \in [Nodes -> Nodes \cup {NoNode}]
        /\ Chain(m.pxNext, m.pxPrevious, l, n, s)
        /\ p = m.pxPrevious[s[i]] /\ q = m.pxNext[s[i]]
    BY <1>0, <1>2, <1>4, <1>5
  <2>0. PICK next, prev : next = m.pxNext /\ prev = m.pxPrevious
    OBVIOUS
  <2>3. /\ next \in [Nodes -> Nodes \cup {NoNode}] /\ prev \in [Nodes -> Nodes \cup {NoNode}]
        /\ Chain(next, prev, l, n, s) /\ i \in 1 .. n /\ p = prev[s[i]] /\ q = next[s[i]]
    BY <2>0, <2>1
  <2>4. Chain([next EXCEPT ![p] = q], [prev EXCEPT ![q] = p], l, n - 1, WithoutNode(n, s, i))
    BY <2>3, ChainRemove
  <2>6. n \in Nat /\ i \in 0 .. n /\ i - 1 \in 0 .. n - 1 /\ i - 1 \in 0 .. n /\ (i - 1) + 1 = i
    BY <2>3 DEF Chain
  <2>7. next[s[i]] = After(n, s, i) /\ After(n, s, i) \in {s[k] : k \in 0 .. n}
    BY <2>3, <2>6, NextInChain
  <2>8. prev[s[(i - 1) + 1]] = s[i - 1] /\ s \in [0 .. n -> Nodes]
    BY <2>3, <2>6 DEF Chain
  <2>5. p = s[i - 1] /\ p \in Nodes /\ q \in Nodes /\ q = After(n, s, i)
    BY <2>3, <2>6, <2>7, <2>8
  <2>2. /\ Chain([m.pxNext EXCEPT ![p] = q], [m.pxPrevious EXCEPT ![q] = p],
                 l, n - 1, WithoutNode(n, s, i))
        /\ p = s[i - 1] /\ p \in Nodes /\ q \in Nodes /\ q = After(n, s, i)
    BY <2>0, <2>4, <2>5
  <2> QED
    BY <1>1, <2>2
<1>7. /\ p \in RingIn(m, l) /\ q \in RingIn(m, l) /\ p # x /\ n - 1 \in Nat
      /\ i \in 0 .. n /\ i - 1 \in 0 .. n
  <2>1. i - 1 \in 0 .. n /\ i \in 0 .. n /\ i - 1 # i /\ n - 1 \in Nat
    BY <1>4, <1>5
  <2>2. q \in {s[k] : k \in 0 .. n}
    BY <1>4, <1>6, <2>1, NextInChain
  <2> QED
    BY <1>4, <1>5, <1>6, <2>1, <2>2
<1>8. mm \in Memory
  <2>1. /\ mm.pxNext \in [Nodes -> Nodes \cup {NoNode}]
        /\ mm.pxPrevious \in [Nodes -> Nodes \cup {NoNode}]
        /\ mm.pxContainer \in [Items -> AllLists \cup {NoNode}]
        /\ mm.xItemValue \in [Items -> 0 .. MaxWakeTime]
        /\ mm.pxIndex \in [AllLists -> Nodes]
    BY <1>1, <1>2, <1>6, NodeFacts
  <2>2. mm.uxNumberOfItems \in [AllLists -> Nat]
    BY <1>1, <1>2, <1>4, <1>7
  <2> QED
    BY <2>1, <2>2 DEF uxListRemove, Memory
<1>9. ListOK(mm, l) /\ IsList(mm, l, n - 1, WithoutNode(n, s, i))
  <2> DEFINE f == WithoutNode(n, s, i)
  <2>1. /\ \A k \in 1 .. i - 1 : f[k] = s[k] /\ k \in 1 .. n - 1
        /\ \A k \in i + 1 .. n : f[k - 1] = s[k] /\ k - 1 \in 1 .. n - 1
        /\ \A k \in 1 .. n : k \in 1 .. i - 1 \/ k = i \/ k \in i + 1 .. n
        /\ \A k \in 1 .. n - 1 : \/ k < i /\ k \in 1 .. n /\ k # i /\ f[k] = s[k]
                                 \/ k >= i /\ k + 1 \in 1 .. n /\ k + 1 # i /\ f[k] = s[k + 1]
    BY <1>4, <1>5 DEF WithoutNode
  <2> HIDE DEF f
  <2>2. Holds(mm.pxContainer, l, n - 1, f)
    <3>1. \A y \in Items : mm.pxContainer[y] = l <=> y # x /\ m.pxContainer[y] = l
      BY <1>1, <1>2, NodeFacts
    <3>2. ASSUME NEW y \in Items
          PROVE  (\E k \in 1 .. n - 1 : f[k] = y) <=> y # x /\ \E k \in 1 .. n : s[k] = y
      <4>1. \A k \in 1 .. n : k \in 0 .. n
        OBVIOUS
      <4>2. ASSUME NEW k \in 1 .. n - 1, f[k] = y PROVE y # x /\ \E h \in 1 .. n : s[h] = y
        BY <1>4, <1>5, <1>7, <2>1, <4>1, <4>2
      <4>3. ASSUME y # x, NEW k \in 1 .. n, s[k] = y PROVE \E h \in 1 .. n - 1 : f[h] = y
        BY <1>5, <2>1, <4>3
      <4> QED
        BY <4>2, <4>3
    <3> QED
      BY <1>4, <3>1, <3>2 DEF Holds
  <2>3. mm.uxNumberOfItems[l] = n - 1
    BY <1>1, <1>2, <1>4
  <2>4. IsList(mm, l, n - 1, f)
    BY <1>6, <2>2, <2>3 DEF IsList, f
  <2>5. f \in [0 .. n - 1 -> Nodes]
    BY <1>6 DEF Chain, f
  <2>6. l = DelayedList => Sorted(mm.xItemValue, n - 1, f)
    <3> SUFFICES ASSUME l = DelayedList, NEW j \in 1 .. n - 1, NEW k \in 1 .. n - 1, j <= k
                 PROVE  m.xItemValue[f[j]] <= m.xItemValue[f[k]]
      BY <1>1 DEF Sorted
    <3>1. PICK a \in 1 .. n, b \in 1 .. n : f[j] = s[a] /\ f[k] = s[b] /\ a <= b
      <4>1. CASE k < i
        BY <1>4, <1>5, <2>1, <4>1
      <4>2. CASE j >= i
        BY <1>4, <1>5, <2>1, <4>2
      <4>3. CASE j < i /\ k >= i
        BY <1>4, <1>5, <2>1, <4>3
      <4> QED
        BY <1>4, <1>5, <4>1, <4>2, <4>3
    <3> QED
      BY <1>3, <3>1 DEF Sorted
  <2> QED
    BY <1>7, <2>4, <2>5, <2>6 DEF ListOK, f
<1>10. ASSUME NEW l2 \in AllLists \ {l}
       PROVE  /\ ListOK(mm, l2) /\ RingIn(mm, l2) = RingIn(m, l2)
              /\ \A n2, s2 : IsList(m, l2, n2, s2) => IsList(mm, l2, n2, s2)
  <2>1. \A y \in RingIn(m, l2) : y # x /\ y # p /\ y # q /\ y \in Nodes
    BY <1>0, <1>2, <1>7, NodeFacts DEF RingIn
  <2>2. \A y \in RingIn(m, l2) : mm.pxNext[y] = m.pxNext[y] /\ mm.pxPrevious[y] = m.pxPrevious[y]
    BY <1>1, <1>2, <2>1
  <2>3. \A y \in Items : mm.pxContainer[y] = l2 <=> m.pxContainer[y] = l2
    BY <1>0, <1>1, <1>2, NodeFacts
  <2>4. mm.uxNumberOfItems[l2] = m.uxNumberOfItems[l2]
    BY <1>1, <1>2
  <2>5. ListOK(m, l2)
    BY DEF MemOK
  <2>6. \A y \in RingIn(m, l2) \cap Items : mm.xItemValue[y] = m.xItemValue[y]
    BY <1>1
  <2>7. ListOK(mm, l2) /\ RingIn(mm, l2) = RingIn(m, l2)
    BY <2>2, <2>3, <2>4, <2>5, <2>6, SameList
  <2>8. ASSUME NEW n2, NEW s2, IsList(m, l2, n2, s2) PROVE IsList(mm, l2, n2, s2)
    BY <2>2, <2>3, <2>4, <2>8, SameOrder
  <2> QED
    BY <2>7, <2>8
<1>11. \A l2 \in AllLists : mm.pxIndex[l2] \in RingIn(mm, l2)
  <2>1. \A y \in RingIn(m, l) : y # x => y \in RingIn(mm, l)
    BY <1>1, <1>2 DEF RingIn
  <2>2. \A l2 \in AllLists : m.pxIndex[l2] \in RingIn(m, l2)
    BY DEF MemOK
  <2>3. ASSUME NEW l2 \in AllLists \ {l} PROVE mm.pxIndex[l2] \in RingIn(mm, l2)
    BY <1>1, <1>2, <1>10, <2>2
  <2>4. mm.pxIndex[l] \in RingIn(mm, l)
    BY <1>1, <1>2, <1>7, <2>1, <2>2
  <2> QED
    BY <2>3, <2>4
<1>12. OthersKept(m, mm, l)
  BY <1>10 DEF OthersKept
<1> QED
  BY <1>1, <1>6, <1>8, <1>9, <1>10, <1>11, <1>12 DEF MemOK

LEMMA RemoveKeeps ==
  ASSUME NEW m, MemOK(m), NEW x \in Items, m.pxContainer[x] \in AllLists,
         NEW mm, mm = uxListRemove(m, x)
  PROVE  /\ MemOK(mm)
         /\ mm.pxContainer = [m.pxContainer EXCEPT ![x] = NoNode]
         /\ mm.xItemValue = m.xItemValue
<1>1. PICK l \in AllLists : m.pxContainer[x] = l
  OBVIOUS
<1>2. PICK n, s : IsList(m, l, n, s)
  BY DEF MemOK, ListOK
<1>3. PICK i \in 1 .. n : s[i] = x
  BY <1>1, <1>2 DEF IsList, Holds
<1>4. MemOK(mm)
  BY <1>1, <1>2, <1>3, UnlinkKeeps
<1>5. mm.pxContainer = [m.pxContainer EXCEPT ![x] = NoNode] /\ mm.xItemValue = m.xItemValue
  BY DEF uxListRemove
<1> QED
  BY <1>4, <1>5

\* vListInsertEnd of an item that is on no list.
LEMMA InsertEndKeeps ==
  ASSUME NEW m, MemOK(m), NEW x \in Items, m.pxContainer[x] = NoNode,
         NEW mm, mm = vListInsertEnd(m, ReadyList, x)
  PROVE  /\ MemOK(mm)
         /\ mm.pxContainer = [m.pxContainer EXCEPT ![x] = ReadyList]
         /\ mm.xItemValue = m.xItemValue
<1>1. PICK l, q, p, next, prev :
        /\ l = ReadyList /\ q = m.pxIndex[l] /\ p = m.pxPrevious[q]
        /\ next = m.pxNext /\ prev = m.pxPrevious
  OBVIOUS
<1>2. l \in AllLists /\ l # DelayedList
  BY <1>1, NodeFacts
<1>3. PICK n, s : IsList(m, l, n, s)
  BY <1>2 DEF MemOK, ListOK
<1>4. q \in {s[k] : k \in 0 .. n} /\ Chain(next, prev, l, n, s)
  <2>1. RingIn(m, l) = {s[k] : k \in 0 .. n}
    BY <1>2, <1>3, RingIsOrder
  <2> QED
    BY <1>1, <1>2, <1>3, <2>1 DEF MemOK, IsList
<1>5. PICK i \in 0 .. n : s[i] = p /\ next[p] = q
  <2>1. PICK h \in 0 .. n : s[h] = q
    BY <1>4
  <2>2. CASE h = 0
    <3>1. n \in 0 .. n /\ next[s[n]] = l /\ prev[l] = s[n] /\ s[0] = l
      BY <1>4 DEF Chain
    <3> QED
      BY <1>1, <2>1, <2>2, <3>1
  <2>3. CASE h # 0
    <3>1. n \in Nat /\ h - 1 \in 0 .. n - 1 /\ h - 1 \in 0 .. n /\ (h - 1) + 1 = h
      BY <1>4, <2>3 DEF Chain
    <3>2. next[s[h - 1]] = s[h] /\ prev[s[h]] = s[h - 1]
      BY <1>4, <3>1 DEF Chain
    <3> QED
      BY <1>1, <2>1, <3>1, <3>2
  <2> QED
    BY <2>2, <2>3
<1>6. mm = Linked(m, l, x, p, q) /\ p = s[i] /\ q = m.pxNext[p]
  BY <1>1, <1>5 DEF vListInsertEnd
<1>7. /\ MemOK(mm)
      /\ mm.pxContainer = [m.pxContainer EXCEPT ![x] = l]
      /\ mm.xItemValue = m.xItemValue
  BY <1>2, <1>3, <1>6, LinkKeeps
<1> QED
  BY <1>1, <1>7

\* The place vListInsert finds: no larger value before it, only larger ones behind.
FitsAt(value, n, s, i, x) ==
  /\ \A j \in 1 .. i : value[s[j]] <= value[x]
  /\ \A j \in i + 1 .. n : value[x] < value[s[j]]

LEMMA InsertsInOrder ==
  ASSUME NEW m \in Memory, NEW x \in Items, NEW n, NEW s, IsList(m, DelayedList, n, s),
         Sorted(m.xItemValue, n, s)
  PROVE  \E i \in 0 .. n :
           /\ InsertsAfter(m, DelayedList, x) = s[i]
           /\ FitsAt(m.xItemValue, n, s, i, x)
<1>1. PICK value, v, p : /\ value = m.xItemValue /\ v = value[x]
                         /\ p = InsertsAfter(m, DelayedList, x)
  OBVIOUS
<1>2. /\ n \in Nat /\ \A k \in 1 .. n : value[s[k]] \in 0 .. MaxWakeTime
      /\ v \in 0 .. MaxWakeTime /\ MaxWakeTime \in Nat
      /\ \A j, k \in 1 .. n : j <= k => value[s[j]] <= value[s[k]]
      /\ m.pxPrevious[DelayedList] = s[n]
      /\ m.uxNumberOfItems[DelayedList] = n
  <2>1. /\ n \in Nat /\ \A k \in 1 .. n : s[k] \in Items
        /\ m.pxPrevious[DelayedList] = s[n] /\ m.uxNumberOfItems[DelayedList] = n
    BY DEF IsList, Chain
  <2>2. value \in [Items -> 0 .. MaxWakeTime] /\ MaxWakeTime \in Nat
    BY <1>1, FieldTypes, ListsAssumption
  <2>3. \A j, k \in 1 .. n : j <= k => value[s[j]] <= value[s[k]]
    BY <1>1 DEF Sorted
  <2> QED
    BY <1>1, <2>1, <2>2, <2>3
<1>3. From(m, DelayedList, DelayedList) = s
  BY FromIsOrder
<1> DEFINE Place(k) == /\ k = n \/ value[s[k + 1]] > v
                       /\ \A j \in 1 .. k : value[s[j]] <= v
<1>4. CASE v = MaxWakeTime
  <2>1. p = s[n]
    BY <1>1, <1>2, <1>4 DEF InsertsAfter
  <2>2. \A j \in 1 .. n : value[s[j]] <= v
    BY <1>2, <1>4
  <2>3. n \in 0 .. n /\ \A j \in n + 1 .. n : FALSE
    BY <1>2
  <2> QED
    BY <1>1, <2>1, <2>2, <2>3 DEF FitsAt
<1>5. CASE v # MaxWakeTime
  <2>1. \E k \in 0 .. n : Place(k)
    <3> DEFINE T == {k \in 0 .. n : k = n \/ value[s[k + 1]] > v}
    <3>1. T \in SUBSET Nat /\ T # {}
      <4>1. n \in T
        BY <1>2
      <4> QED
        BY <1>2, <4>1
    <3> HIDE DEF T
    <3>2. PICK k \in T : \A y \in T : k <= y
      BY <3>1, LeastOne
    <3>3. k \in 0 .. n /\ (k = n \/ value[s[k + 1]] > v)
      BY <3>2 DEF T
    <3>4. ASSUME NEW j \in 1 .. k PROVE value[s[j]] <= v
      <4>1. j - 1 \in 0 .. n /\ j \in 1 .. n /\ ~(k <= j - 1) /\ (j - 1) + 1 = j /\ j - 1 # n
        BY <1>2, <3>3
      <4>2. j - 1 \notin T
        BY <3>2, <4>1
      <4>3. ~(value[s[(j - 1) + 1]] > v)
        BY <4>1, <4>2 DEF T
      <4> QED
        BY <1>2, <4>1, <4>3
    <3> QED
      BY <3>3, <3>4
  <2>2. p = s[CHOOSE k \in 0 .. n : Place(k)]
    BY <1>1, <1>2, <1>3, <1>5, Zenon DEF InsertsAfter
  <2> HIDE DEF Place
  <2>3. PICK i : i = CHOOSE k \in 0 .. n : Place(k)
    OBVIOUS
  <2>4. i \in 0 .. n /\ Place(i)
    BY <2>1, <2>3, Zenon
  <2>5. ASSUME NEW j \in i + 1 .. n PROVE v < value[s[j]]
    <3>1. i # n /\ i + 1 \in 1 .. n /\ j \in 1 .. n /\ i + 1 <= j
      BY <1>2, <2>4
    <3>2. value[s[i + 1]] > v
      BY <2>4, <3>1 DEF Place
    <3>3. value[s[i + 1]] <= value[s[j]]
      BY <1>2, <3>1
    <3> QED
      BY <1>2, <3>1, <3>2, <3>3
  <2>6. \A j \in 1 .. i : value[s[j]] <= v
    BY <2>4 DEF Place
  <2> QED
    BY <1>1, <2>2, <2>3, <2>4, <2>5, <2>6 DEF FitsAt
<1> QED
  BY <1>4, <1>5

\* With a value put there the list still ascends.
LEMMA StaysSorted ==
  ASSUME NEW m \in Memory, NEW x \in Items, NEW n, NEW s, IsList(m, DelayedList, n, s),
         Sorted(m.xItemValue, n, s), NEW i \in 0 .. n, FitsAt(m.xItemValue, n, s, i, x)
  PROVE  Sorted(m.xItemValue, n + 1, WithNode(n, s, i, x))
<1>1. PICK value, f : value = m.xItemValue /\ f = WithNode(n, s, i, x)
  OBVIOUS
<1>2. /\ n \in Nat /\ i \in 0 .. n
      /\ \A k \in 1 .. n : value[s[k]] \in Nat
      /\ value[x] \in Nat
  <2>1. n \in Nat /\ \A k \in 1 .. n : s[k] \in Items
    BY DEF IsList, Chain
  <2>2. value \in [Items -> 0 .. MaxWakeTime] /\ MaxWakeTime \in Nat
    BY <1>1, FieldTypes, ListsAssumption
  <2> QED
    BY <2>1, <2>2
<1>3. \A k \in 1 .. n + 1 : \/ k <= i /\ k \in 1 .. n /\ f[k] = s[k]
                            \/ k = i + 1 /\ f[k] = x
                            \/ k > i + 1 /\ k - 1 \in i + 1 .. n /\ k - 1 \in 1 .. n /\ f[k] = s[k - 1]
  BY <1>1, <1>2 DEF WithNode
<1>4. /\ \A j \in 1 .. i : value[s[j]] <= value[x]
      /\ \A j \in i + 1 .. n : value[x] <= value[s[j]]
      /\ \A j, k \in 1 .. n : j <= k => value[s[j]] <= value[s[k]]
  <2>1. \A j \in i + 1 .. n : j \in 1 .. n
    BY <1>2
  <2> QED
    BY <1>1, <1>2, <2>1 DEF Sorted, FitsAt
<1>5. ASSUME NEW j \in 1 .. n + 1, NEW k \in 1 .. n + 1, j <= k
      PROVE  value[f[j]] <= value[f[k]]
  <2>1. CASE j <= i /\ k <= i
    BY <1>2, <1>3, <1>4, <1>5, <2>1
  <2>2. CASE j <= i /\ k = i + 1
    <3>1. j \in 1 .. i
      BY <1>2, <2>2
    <3> QED
      BY <1>2, <1>3, <1>4, <2>2, <3>1
  <2>3. CASE j <= i /\ k > i + 1
    <3>1. j \in 1 .. n /\ k - 1 \in 1 .. n /\ j <= k - 1 /\ f[j] = s[j] /\ f[k] = s[k - 1]
      BY <1>2, <1>3, <2>3
    <3> QED
      BY <1>4, <3>1
  <2>4. CASE j = i + 1 /\ k = i + 1
    BY <1>2, <1>3, <2>4
  <2>5. CASE j = i + 1 /\ k > i + 1
    <3>1. k - 1 \in i + 1 .. n /\ f[j] = x /\ f[k] = s[k - 1]
      BY <1>2, <1>3, <2>5
    <3> QED
      BY <1>4, <3>1
  <2>6. CASE j > i + 1 /\ k > i + 1
    <3>1. j - 1 \in 1 .. n /\ k - 1 \in 1 .. n /\ j - 1 <= k - 1
          /\ f[j] = s[j - 1] /\ f[k] = s[k - 1]
      BY <1>2, <1>3, <1>5, <2>6
    <3> QED
      BY <1>4, <3>1
  <2> QED
    BY <1>2, <1>5, <2>1, <2>2, <2>3, <2>4, <2>5, <2>6
<1> QED
  BY <1>1, <1>5 DEF Sorted

\* vListInsert of an item that is on no list.
LEMMA InsertKeeps ==
  ASSUME NEW m, MemOK(m), NEW x \in Items, m.pxContainer[x] = NoNode,
         NEW mm, mm = vListInsert(m, DelayedList, x)
  PROVE  /\ MemOK(mm)
         /\ mm.pxContainer = [m.pxContainer EXCEPT ![x] = DelayedList]
         /\ mm.xItemValue = m.xItemValue
<1>1. PICK l, p, q :
        l = DelayedList /\ p = InsertsAfter(m, DelayedList, x) /\ q = m.pxNext[p]
  OBVIOUS
<1>2. l \in AllLists /\ m \in Memory
  BY <1>1, NodeFacts DEF MemOK
<1>3. PICK n, s : IsList(m, l, n, s) /\ Sorted(m.xItemValue, n, s)
  BY <1>1, <1>2 DEF MemOK, ListOK
<1>4. PICK i \in 0 .. n :
        p = s[i] /\ FitsAt(m.xItemValue, n, s, i, x)
  BY <1>1, <1>2, <1>3, InsertsInOrder
<1>5. Sorted(m.xItemValue, n + 1, WithNode(n, s, i, x))
  BY <1>1, <1>2, <1>3, <1>4, StaysSorted
<1>6. mm = Linked(m, l, x, p, q) /\ q = m.pxNext[p]
  BY <1>1 DEF vListInsert
<1>7. /\ MemOK(mm)
      /\ mm.pxContainer = [m.pxContainer EXCEPT ![x] = l]
      /\ mm.xItemValue = m.xItemValue
  BY <1>2, <1>3, <1>4, <1>5, <1>6, LinkKeeps
<1> QED
  BY <1>1, <1>7

\* What changes in an item that is on no list.
OnlyLooseDiffers(m, mm, x) ==
  /\ mm.pxContainer = m.pxContainer /\ mm.pxIndex = m.pxIndex
  /\ mm.uxNumberOfItems = m.uxNumberOfItems
  /\ \A y \in Nodes \ {x} : mm.pxNext[y] = m.pxNext[y] /\ mm.pxPrevious[y] = m.pxPrevious[y]
  /\ \A y \in Items \ {x} : mm.xItemValue[y] = m.xItemValue[y]

LEMMA LooseKeeps ==
  ASSUME NEW m, MemOK(m), NEW x \in Items, m.pxContainer[x] = NoNode, NEW mm \in Memory,
         OnlyLooseDiffers(m, mm, x)
  PROVE  MemOK(mm)
<1>1. ASSUME NEW l \in AllLists PROVE ListOK(mm, l) /\ mm.pxIndex[l] \in RingIn(mm, l)
  <2>1. x \notin RingIn(m, l) /\ RingIn(m, l) \subseteq Nodes
    BY NodeFacts DEF RingIn
  <2>2. ListOK(m, l) /\ m.pxIndex[l] \in RingIn(m, l)
    BY DEF MemOK
  <2>3. /\ \A y \in RingIn(m, l) : mm.pxNext[y] = m.pxNext[y] /\ mm.pxPrevious[y] = m.pxPrevious[y]
        /\ \A y \in RingIn(m, l) \cap Items : mm.xItemValue[y] = m.xItemValue[y]
        /\ \A y \in Items : mm.pxContainer[y] = l <=> m.pxContainer[y] = l
        /\ mm.uxNumberOfItems[l] = m.uxNumberOfItems[l]
    BY <2>1 DEF OnlyLooseDiffers
  <2>4. ListOK(mm, l) /\ RingIn(mm, l) = RingIn(m, l)
    BY <2>2, <2>3, SameList
  <2> QED
    BY <2>2, <2>4 DEF OnlyLooseDiffers
<1> QED
  BY <1>1 DEF MemOK

\* The indexes are moved along their rings.
LEMMA IndexMoves ==
  ASSUME NEW m, MemOK(m), NEW mm \in Memory,
         mm.pxNext = m.pxNext, mm.pxPrevious = m.pxPrevious, mm.pxContainer = m.pxContainer,
         mm.xItemValue = m.xItemValue, mm.uxNumberOfItems = m.uxNumberOfItems,
         \A l \in AllLists : mm.pxIndex[l] \in RingIn(m, l)
  PROVE  MemOK(mm)
<1>1. ASSUME NEW l \in AllLists PROVE ListOK(mm, l) /\ mm.pxIndex[l] \in RingIn(mm, l)
  <2>1. ListOK(m, l)
    BY DEF MemOK
  <2>2. /\ \A y \in RingIn(m, l) : mm.pxNext[y] = m.pxNext[y] /\ mm.pxPrevious[y] = m.pxPrevious[y]
        /\ \A y \in RingIn(m, l) \cap Items : mm.xItemValue[y] = m.xItemValue[y]
        /\ \A y \in Items : mm.pxContainer[y] = l <=> m.pxContainer[y] = l
        /\ mm.uxNumberOfItems[l] = m.uxNumberOfItems[l]
    OBVIOUS
  <2>3. ListOK(mm, l) /\ RingIn(mm, l) = RingIn(m, l)
    BY <2>1, <2>2, SameList
  <2> QED
    BY <2>3
<1> QED
  BY <1>1 DEF MemOK

LEMMA IndexKeeps ==
  ASSUME NEW m, MemOK(m), NEW index, \A l \in AllLists : index[l] \in RingIn(m, l),
         index \in [AllLists -> Nodes], NEW mm, mm = [m EXCEPT !.pxIndex = index]
  PROVE  MemOK(mm) /\ mm.pxContainer = m.pxContainer
<1>1. /\ mm \in Memory
      /\ mm.pxNext = m.pxNext /\ mm.pxPrevious = m.pxPrevious /\ mm.pxContainer = m.pxContainer
      /\ mm.xItemValue = m.xItemValue /\ mm.pxIndex = index
      /\ mm.uxNumberOfItems = m.uxNumberOfItems
  BY DEF MemOK, Memory
<1> QED
  BY <1>1, IndexMoves

\* The node after one of a ring is one of the ring.
LEMMA NextInRing ==
  ASSUME NEW m, MemOK(m), NEW l \in AllLists, NEW y \in RingIn(m, l)
  PROVE  m.pxNext[y] \in RingIn(m, l)
<1>1. PICK n, s : IsList(m, l, n, s)
  BY DEF MemOK, ListOK
<1>2. RingIn(m, l) = {s[k] : k \in 0 .. n} /\ Chain(m.pxNext, m.pxPrevious, l, n, s)
  BY <1>1, RingIsOrder DEF IsList
<1>3. PICK k \in 0 .. n : y = s[k]
  BY <1>2
<1>4. m.pxNext[s[k]] = After(n, s, k) /\ After(n, s, k) \in {s[j] : j \in 0 .. n}
  BY <1>2, NextInChain
<1> QED
  BY <1>2, <1>3, <1>4

\* A walk of some lists.
LEMMA WalkedKeeps ==
  ASSUME NEW m, MemOK(m), NEW ls \in SUBSET AllLists, NEW mm, mm = Walked(m, ls)
  PROVE  MemOK(mm) /\ mm.pxContainer = m.pxContainer
<1>1. PICK index : index = [l \in AllLists |->
                              IF l \in ls THEN WalkedIndex(m, l) ELSE m.pxIndex[l]]
  OBVIOUS
<1>2. ASSUME NEW l \in AllLists PROVE index[l] \in RingIn(m, l)
  <2>1. m.pxIndex[l] \in RingIn(m, l) /\ l \in RingIn(m, l)
    BY DEF MemOK, RingIn
  <2>2. m.pxNext[m.pxIndex[l]] \in RingIn(m, l) /\ m.pxNext[l] \in RingIn(m, l)
    BY <2>1, NextInRing
  <2> QED
    BY <1>1, <2>1, <2>2 DEF WalkedIndex, NextEntry
<1>3. index \in [AllLists -> Nodes]
  <2>1. \A l \in AllLists : RingIn(m, l) \subseteq Nodes
    BY NodeFacts DEF RingIn
  <2> QED
    BY <1>1, <1>2, <2>1
<1>4. mm = [m EXCEPT !.pxIndex = index]
  BY <1>1 DEF Walked
<1> QED
  BY <1>2, <1>3, <1>4, IndexKeeps

\* An item goes from one of the lists to the end of the ready list.
LEMMA MoveToReady ==
  ASSUME NEW m, MemOK(m), NEW x \in Items, m.pxContainer[x] \in AllLists,
         NEW mm, mm = vListInsertEnd(uxListRemove(m, x), ReadyList, x)
  PROVE  MemOK(mm) /\ mm.pxContainer = [m.pxContainer EXCEPT ![x] = ReadyList]
<1>1. PICK r : r = uxListRemove(m, x)
  OBVIOUS
<1>2. MemOK(r) /\ r.pxContainer = [m.pxContainer EXCEPT ![x] = NoNode]
  BY <1>1, RemoveKeeps
<1>3. m.pxContainer \in [Items -> AllLists \cup {NoNode}]
  BY FieldTypes DEF MemOK
<1>4. mm = vListInsertEnd(r, ReadyList, x) /\ r.pxContainer[x] = NoNode
  BY <1>1, <1>2, <1>3
<1>5. MemOK(mm) /\ mm.pxContainer = [r.pxContainer EXCEPT ![x] = ReadyList]
  BY <1>2, <1>4, InsertEndKeeps
<1> QED
  BY <1>2, <1>3, <1>5

-----------------------------------------------------------------------------
(* The orders of a memory, and what list.c does to them.                   *)

\* The turns of the ready list with ring s whose next one is the i-th node, and
\* the delayed items of one with their wake times.
TurnsOf(n, s, i) ==
  [k \in 1 .. n + 1 |-> IF i + k - 1 <= n THEN s[i + k - 1] ELSE s[i + k - n - 2]]
WakesOf(value, n, s) == [k \in 1 .. n |-> [item |-> s[k], value |-> value[s[k]]]]

\* The ready list of m has ring s, and its index is on the i-th node.
InTurn(m, n, s, i) ==
  IsList(m, ReadyList, n, s) /\ i \in 0 .. n /\ m.pxIndex[ReadyList] = s[i]

LEMMA TurnsAre ==
  ASSUME NEW m, NEW n, NEW s, NEW i, InTurn(m, n, s, i)
  PROVE  TurnsIn(m) = TurnsOf(n, s, i)
<1>1. From(m, ReadyList, s[i]) = Turned(n, s, i) /\ m.uxNumberOfItems[ReadyList] = n /\ n \in Nat
  <2>1. IsList(m, ReadyList, n, s) /\ i \in 0 .. n
    BY DEF InTurn
  <2>2. From(m, ReadyList, s[i]) = Turned(n, s, i)
    BY <2>1, FromIsTurned
  <2> QED
    BY <2>1, <2>2 DEF IsList, Chain
<1>2. TurnsIn(m) = [k \in 1 .. n + 1 |-> Turned(n, s, i)[k - 1]]
  BY <1>1 DEF TurnsIn, InTurn
<1>3. ASSUME NEW k \in 1 .. n + 1
      PROVE  Turned(n, s, i)[k - 1] = IF i + k - 1 <= n THEN s[i + k - 1] ELSE s[i + k - n - 2]
  <2>1. /\ k - 1 \in 0 .. n /\ i \in Nat /\ k \in Nat /\ i + (k - 1) = i + k - 1
        /\ i + (k - 1) - n - 1 = i + k - n - 2
    BY <1>1 DEF InTurn
  <2> QED
    BY <2>1 DEF Turned
<1> QED
  BY <1>2, <1>3 DEF TurnsOf

LEMMA WakesAre ==
  ASSUME NEW m, NEW n, NEW s, IsList(m, DelayedList, n, s)
  PROVE  WakesIn(m) = WakesOf(m.xItemValue, n, s)
<1>1. From(m, DelayedList, DelayedList) = s /\ m.uxNumberOfItems[DelayedList] = n
  BY FromIsOrder DEF IsList
<1> QED
  BY <1>1 DEF WakesIn, WakesOf

LEMMA HasTurns ==
  ASSUME NEW m, MemOK(m)
  PROVE  \E n, s, i : InTurn(m, n, s, i)
<1>1. PICK n, s : IsList(m, ReadyList, n, s)
  BY NodeFacts DEF MemOK, ListOK
<1>2. RingIn(m, ReadyList) = {s[k] : k \in 0 .. n}
  BY <1>1, NodeFacts, RingIsOrder
<1>3. m.pxIndex[ReadyList] \in RingIn(m, ReadyList)
  BY NodeFacts DEF MemOK
<1> QED
  BY <1>1, <1>2, <1>3 DEF InTurn

LEMMA TurnsType ==
  ASSUME NEW n \in Nat, NEW s \in [0 .. n -> Nodes], NEW i \in 0 .. n
  PROVE  /\ TurnsOf(n, s, i) \in [1 .. n + 1 -> Nodes]
         /\ TurnsOf(n, s, i) \in Seq(Nodes) /\ Len(TurnsOf(n, s, i)) = n + 1
<1>1. TurnsOf(n, s, i) \in [1 .. n + 1 -> Nodes]
  BY DEF TurnsOf
<1> QED
  BY <1>1

LEMMA AppendIs ==
  ASSUME NEW S, NEW n \in Nat, NEW f \in [1 .. n -> S], NEW x \in S,
         NEW g \in [1 .. n + 1 -> S], \A k \in 1 .. n : g[k] = f[k], g[n + 1] = x
  PROVE  g = Append(f, x)
  OBVIOUS

\* An item inserted before the i-th node has the last turn.
LEMMA TurnAtEnd ==
  ASSUME NEW n \in Nat, NEW s \in [0 .. n -> Nodes], NEW i \in 0 .. n, NEW x \in Nodes,
         NEW j, NEW h, j = (IF i = 0 THEN n ELSE i - 1), h = (IF i = 0 THEN 0 ELSE i + 1)
  PROVE  TurnsOf(n + 1, WithNode(n, s, j, x), h) = Append(TurnsOf(n, s, i), x)
<1>1. PICK w, f, g : /\ w = WithNode(n, s, j, x) /\ f = TurnsOf(n, s, i)
                     /\ g = TurnsOf(n + 1, w, h)
  OBVIOUS
<1>2. w \in [0 .. n + 1 -> Nodes] /\ h \in 0 .. n + 1 /\ n + 1 \in Nat
  BY <1>1 DEF WithNode
<1>3. f \in [1 .. n + 1 -> Nodes] /\ g \in [1 .. (n + 1) + 1 -> Nodes]
  BY <1>1, <1>2, TurnsType
<1>4. \A k \in 0 .. n + 1 : w[k] = IF k <= j THEN s[k] ELSE IF k = j + 1 THEN x ELSE s[k - 1]
  BY <1>1 DEF WithNode
<1>5. \A k \in 1 .. n + 1 : f[k] = IF i + k - 1 <= n THEN s[i + k - 1] ELSE s[i + k - n - 2]
  BY <1>1 DEF TurnsOf
<1>6. \A k \in 1 .. (n + 1) + 1 :
         g[k] = IF h + k - 1 <= n + 1 THEN w[h + k - 1] ELSE w[h + k - (n + 1) - 2]
  BY <1>1 DEF TurnsOf
<1>7. \A k \in 1 .. n + 1 : g[k] = f[k]
  <2> SUFFICES ASSUME NEW k \in 1 .. n + 1 PROVE g[k] = f[k]
    OBVIOUS
  <2>1. CASE i = 0
    <3>1. /\ h + k - 1 = k - 1 /\ k - 1 <= n /\ k - 1 <= n + 1 /\ k - 1 \in 0 .. n + 1
          /\ i + k - 1 = k - 1 /\ k \in 1 .. (n + 1) + 1 /\ j = n
      BY <2>1
    <3> QED
      BY <1>4, <1>5, <1>6, <3>1
  <2>2. CASE i # 0 /\ i + k - 1 <= n
    <3>1. /\ h + k - 1 = i + k /\ i + k <= n + 1 /\ i + k \in 0 .. n + 1 /\ ~(i + k <= j)
          /\ i + k # j + 1 /\ k \in 1 .. (n + 1) + 1 /\ (i + k) - 1 = i + k - 1
      BY <2>2
    <3> QED
      BY <1>4, <1>5, <1>6, <2>2, <3>1
  <2>3. CASE i # 0 /\ ~(i + k - 1 <= n)
    <3>1. /\ h + k - 1 = i + k /\ ~(i + k <= n + 1) /\ h + k - (n + 1) - 2 = i + k - n - 2
          /\ i + k - n - 2 \in 0 .. n + 1 /\ i + k - n - 2 <= j
          /\ k \in 1 .. (n + 1) + 1
      BY <2>3
    <3> QED
      BY <1>4, <1>5, <1>6, <2>3, <3>1
  <2> QED
    BY <2>1, <2>2, <2>3
<1>8. g[(n + 1) + 1] = x
  <2>0. (n + 1) + 1 \in 1 .. (n + 1) + 1
    OBVIOUS
  <2>1. CASE i = 0
    <3>1. h + ((n + 1) + 1) - 1 = n + 1 /\ n + 1 <= n + 1 /\ n + 1 \in 0 .. n + 1
          /\ ~(n + 1 <= j) /\ n + 1 = j + 1
      BY <2>1
    <3> QED
      BY <1>4, <1>6, <2>0, <3>1
  <2>2. CASE i # 0
    <3>1. /\ ~(h + ((n + 1) + 1) - 1 <= n + 1) /\ h + ((n + 1) + 1) - (n + 1) - 2 = i
          /\ i \in 0 .. n + 1 /\ ~(i <= j) /\ i = j + 1
      BY <2>2
    <3> QED
      BY <1>4, <1>6, <2>0, <3>1
  <2> QED
    BY <2>1, <2>2
<1>9. g = Append(f, x)
  BY <1>2, <1>3, <1>7, <1>8, AppendIs
<1> QED
  BY <1>1, <1>9

\* The turn of the j-th node, and the turns without it.
TurnOf(n, i, j) == IF j >= i THEN j - i + 1 ELSE j - i + n + 2

LEMMA TurnGone ==
  ASSUME NEW n \in Nat, NEW s \in [0 .. n -> Nodes], NEW i \in 0 .. n, NEW j \in 1 .. n,
         NEW h, NEW i2, h = TurnOf(n, i, j), i2 = (IF i >= j THEN i - 1 ELSE i)
  PROVE  TurnsOf(n - 1, WithoutNode(n, s, j), i2) = Order!Leaves(TurnsOf(n, s, i), h)
<1>1. PICK w, f, g : /\ w = WithoutNode(n, s, j) /\ f = TurnsOf(n, s, i)
                     /\ g = TurnsOf(n - 1, w, i2)
  OBVIOUS
<1>2. Len(f) = n + 1
  BY <1>1, TurnsType
<1>3. \A k \in 0 .. n - 1 : w[k] = IF k < j THEN s[k] ELSE s[k + 1]
  BY <1>1 DEF WithoutNode
<1>4. \A k \in 1 .. n + 1 : f[k] = IF i + k - 1 <= n THEN s[i + k - 1] ELSE s[i + k - n - 2]
  BY <1>1 DEF TurnsOf
<1>5. /\ g = [k \in 1 .. n |-> g[k]]
      /\ \A k \in 1 .. n :
           g[k] = IF i2 + k - 1 <= n - 1 THEN w[i2 + k - 1] ELSE w[i2 + k - n - 1]
  <2>1. (n - 1) + 1 = n /\ \A k \in 1 .. n : i2 + k - (n - 1) - 2 = i2 + k - n - 1
    OBVIOUS
  <2> QED
    BY <1>1, <2>1 DEF TurnsOf
<1>6. CASE h > 1
  <2>1. i # j
    BY <1>6 DEF TurnOf
  <2>2. ASSUME NEW k \in 1 .. n PROVE g[k] = IF k < h THEN f[k] ELSE f[k + 1]
    <3>1. k \in 1 .. n + 1 /\ k + 1 \in 1 .. n + 1 /\ i + (k + 1) - 1 = i + k
          /\ i + (k + 1) - n - 2 = i + k - n - 1
      OBVIOUS
    <3>2. /\ f[k] = IF i + k - 1 <= n THEN s[i + k - 1] ELSE s[i + k - n - 2]
          /\ f[k + 1] = IF i + k <= n THEN s[i + k] ELSE s[i + k - n - 1]
      BY <1>4, <3>1
    <3>3. CASE i < j
      <4>1. i2 = i /\ h = j - i + 1
        BY <3>3 DEF TurnOf
      <4>2. CASE i + k - 1 < j
        <5>1. /\ k < h /\ i + k - 1 <= n /\ i2 + k - 1 <= n - 1 /\ i + k - 1 \in 0 .. n - 1
              /\ i2 + k - 1 = i + k - 1
          BY <3>3, <4>1, <4>2
        <5>2. g[k] = w[i + k - 1] /\ w[i + k - 1] = s[i + k - 1]
          BY <1>3, <1>5, <4>2, <5>1
        <5> QED
          BY <3>2, <5>1, <5>2
      <4>3. CASE i + k - 1 >= j /\ i + k - 1 <= n - 1
        <5>1. /\ ~(k < h) /\ i + k <= n /\ i + k - 1 \in 0 .. n - 1 /\ ~(i + k - 1 < j)
              /\ i2 + k - 1 = i + k - 1 /\ (i + k - 1) + 1 = i + k
          BY <3>3, <4>1, <4>3
        <5>2. g[k] = w[i + k - 1] /\ w[i + k - 1] = s[i + k]
          BY <1>3, <1>5, <4>3, <5>1
        <5> QED
          BY <3>2, <5>1, <5>2
      <4>4. CASE i + k - 1 > n - 1
        <5>1. /\ ~(k < h) /\ ~(i + k <= n) /\ ~(i2 + k - 1 <= n - 1)
              /\ i + k - n - 1 \in 0 .. n - 1 /\ i + k - n - 1 < j
              /\ i2 + k - n - 1 = i + k - n - 1
          BY <3>3, <4>1, <4>4
        <5>2. g[k] = w[i + k - n - 1] /\ w[i + k - n - 1] = s[i + k - n - 1]
          BY <1>3, <1>5, <5>1
        <5> QED
          BY <3>2, <5>1, <5>2
      <4> QED
        BY <4>2, <4>3, <4>4
    <3>4. CASE i > j
      <4>1. i2 = i - 1 /\ h = j - i + n + 2
        BY <3>4 DEF TurnOf
      <4>2. CASE i + k - 1 <= n
        <5>1. /\ k < h /\ i2 + k - 1 <= n - 1 /\ i + k - 2 \in 0 .. n - 1
              /\ i2 + k - 1 = i + k - 2 /\ ~(i + k - 2 < j) /\ (i + k - 2) + 1 = i + k - 1
          BY <3>4, <4>1, <4>2
        <5>2. g[k] = w[i + k - 2] /\ w[i + k - 2] = s[i + k - 1]
          BY <1>3, <1>5, <5>1
        <5> QED
          BY <3>2, <4>2, <5>1, <5>2
      <4>3. CASE i + k - 1 > n /\ i + k - n - 2 < j
        <5>1. /\ k < h /\ ~(i + k - 1 <= n) /\ ~(i2 + k - 1 <= n - 1)
              /\ i2 + k - n - 1 = i + k - n - 2
              /\ i + k - n - 2 \in 0 .. n - 1
          BY <3>4, <4>1, <4>3
        <5>2. g[k] = w[i + k - n - 2] /\ w[i + k - n - 2] = s[i + k - n - 2]
          BY <1>3, <1>5, <4>3, <5>1
        <5> QED
          BY <3>2, <5>1, <5>2
      <4>4. CASE i + k - 1 > n /\ i + k - n - 2 >= j
        <5>1. /\ ~(k < h) /\ ~(i + k <= n) /\ ~(i2 + k - 1 <= n - 1)
              /\ i2 + k - n - 1 = i + k - n - 2 /\ ~(i + k - n - 2 < j)
              /\ i + k - n - 2 \in 0 .. n - 1 /\ (i + k - n - 2) + 1 = i + k - n - 1
          BY <3>4, <4>1, <4>4
        <5>2. g[k] = w[i + k - n - 2] /\ w[i + k - n - 2] = s[i + k - n - 1]
          BY <1>3, <1>5, <5>1
        <5> QED
          BY <3>2, <5>1, <5>2
      <4> QED
        BY <4>2, <4>3, <4>4
    <3> QED
      BY <2>1, <3>3, <3>4
  <2>3. Order!Leaves(f, h) = [k \in 1 .. n |-> IF k < h THEN f[k] ELSE f[k + 1]]
    <3>1. (n + 1) - 1 = n
      OBVIOUS
    <3> QED
      BY <1>2, <1>6, <3>1 DEF Order!Leaves, Order!Without
  <2> QED
    BY <1>1, <1>5, <2>2, <2>3
<1>7. CASE ~(h > 1)
  <2>1. i = j /\ i2 = i - 1 /\ i \in 1 .. n
    BY <1>7 DEF TurnOf
  <2>2. ASSUME NEW k \in 1 .. n PROVE g[k] = IF k = 1 THEN f[n + 1] ELSE f[k]
    <3>1. CASE k = 1
      <4>1. /\ i2 + k - 1 = i - 1 /\ i - 1 <= n - 1 /\ i - 1 \in 0 .. n - 1 /\ i - 1 < j
            /\ ~(i + (n + 1) - 1 <= n) /\ i + (n + 1) - n - 2 = i - 1 /\ n + 1 \in 1 .. n + 1
        BY <2>1, <3>1
      <4>2. g[k] = w[i - 1] /\ w[i - 1] = s[i - 1]
        BY <1>3, <1>5, <4>1
      <4>3. f[n + 1] = s[i - 1]
        BY <1>4, <4>1
      <4> QED
        BY <3>1, <4>2, <4>3
    <3>2. CASE k # 1 /\ i + k - 1 <= n
      <4>1. /\ i2 + k - 1 = i + k - 2 /\ i + k - 2 <= n - 1 /\ i + k - 2 \in 0 .. n - 1
            /\ ~(i + k - 2 < j) /\ (i + k - 2) + 1 = i + k - 1 /\ k \in 1 .. n + 1
        BY <2>1, <3>2
      <4> QED
        BY <1>3, <1>4, <1>5, <3>2, <4>1
    <3>3. CASE k # 1 /\ i + k - 1 > n
      <4>1. /\ ~(i2 + k - 1 <= n - 1) /\ i2 + k - n - 1 = i + k - n - 2
            /\ i + k - n - 2 \in 0 .. n - 1 /\ i + k - n - 2 < j /\ ~(i + k - 1 <= n)
            /\ k \in 1 .. n + 1
        BY <2>1, <3>3
      <4> QED
        BY <1>3, <1>4, <1>5, <3>3, <4>1
    <3> QED
      BY <2>1, <3>1, <3>2, <3>3
  <2>3. Order!Leaves(f, h) = [k \in 1 .. n |-> IF k = 1 THEN f[n + 1] ELSE f[k]]
    <3>1. (n + 1) - 1 = n
      OBVIOUS
    <3> QED
      BY <1>2, <1>7, <3>1 DEF Order!Leaves
  <2> QED
    BY <1>1, <1>5, <2>2, <2>3
<1> QED
  BY <1>6, <1>7 DEF TurnOf

\* Each node has one turn.
Distinct(n, s) == \A j, k \in 0 .. n : s[j] = s[k] => j = k

LEMMA OneTurn ==
  ASSUME NEW n \in Nat, NEW s, Distinct(n, s),
         NEW i \in 0 .. n, NEW j \in 0 .. n, NEW h \in 1 .. n + 1
  PROVE  TurnsOf(n, s, i)[h] = s[j] <=> h = TurnOf(n, i, j)
<1>1. TurnsOf(n, s, i)[h] = IF i + h - 1 <= n THEN s[i + h - 1] ELSE s[i + h - n - 2]
  BY DEF TurnsOf
<1>2. CASE i + h - 1 <= n
  <2>1. i + h - 1 \in 0 .. n /\ (i + h - 1 = j <=> h = TurnOf(n, i, j))
    BY <1>2 DEF TurnOf
  <2> QED
    BY <1>1, <1>2, <2>1 DEF Distinct
<1>3. CASE ~(i + h - 1 <= n)
  <2>1. i + h - n - 2 \in 0 .. n /\ (i + h - n - 2 = j <=> h = TurnOf(n, i, j))
    BY <1>3 DEF TurnOf
  <2> QED
    BY <1>1, <1>3, <2>1 DEF Distinct
<1> QED
  BY <1>2, <1>3

\* The turns u are the turns t, rotated.
IsRotated(t, u) ==
  \E r \in 0 .. Len(t) - 1 :
    u = [k \in 1 .. Len(t) |-> t[IF k + r <= Len(t) THEN k + r ELSE k + r - Len(t)]]

\* When the index moves from the i-th node to the j-th the turns rotate.
LEMMA TurnsRotate ==
  ASSUME NEW n \in Nat, NEW s \in [0 .. n -> Nodes], NEW i \in 0 .. n, NEW j \in 0 .. n
  PROVE  IsRotated(TurnsOf(n, s, i), TurnsOf(n, s, j))
<1>1. PICK r, t : r = (IF j >= i THEN j - i ELSE j - i + n + 1) /\ t = TurnsOf(n, s, i)
  OBVIOUS
<1>2. Len(t) = n + 1 /\ r \in 0 .. (n + 1) - 1
  BY <1>1, TurnsType
<1>3. \A k \in 1 .. n + 1 : t[k] = IF i + k - 1 <= n THEN s[i + k - 1] ELSE s[i + k - n - 2]
  BY <1>1 DEF TurnsOf
<1>4. ASSUME NEW k \in 1 .. n + 1
      PROVE  (IF j + k - 1 <= n THEN s[j + k - 1] ELSE s[j + k - n - 2])
               = t[IF k + r <= n + 1 THEN k + r ELSE k + r - (n + 1)]
  <2>1. CASE k + r <= n + 1
    <3>1. k + r \in 1 .. n + 1
      BY <1>2, <2>1
    <3>2. t[k + r] = IF i + (k + r) - 1 <= n THEN s[i + (k + r) - 1] ELSE s[i + (k + r) - n - 2]
      BY <1>3, <3>1
    <3>3. CASE j >= i
      <4>1. i + (k + r) - 1 = j + k - 1 /\ i + (k + r) - n - 2 = j + k - n - 2
        BY <1>1, <3>3
      <4> QED
        BY <2>1, <3>2, <4>1
    <3>4. CASE ~(j >= i)
      <4>1. ~(i + (k + r) - 1 <= n) /\ i + (k + r) - n - 2 = j + k - 1 /\ j + k - 1 <= n
        BY <1>1, <2>1, <3>4
      <4> QED
        BY <2>1, <3>2, <4>1
    <3> QED
      BY <3>3, <3>4
  <2>2. CASE ~(k + r <= n + 1)
    <3>1. k + r - (n + 1) \in 1 .. n + 1
      BY <1>2, <2>2
    <3>2. t[k + r - (n + 1)] = IF i + (k + r - (n + 1)) - 1 <= n
                               THEN s[i + (k + r - (n + 1)) - 1]
                               ELSE s[i + (k + r - (n + 1)) - n - 2]
      BY <1>3, <3>1
    <3>3. CASE j >= i
      <4>1. /\ i + (k + r - (n + 1)) - 1 = j + k - n - 2 /\ ~(j + k - 1 <= n)
            /\ i + (k + r - (n + 1)) - 1 <= n
        BY <1>1, <2>2, <3>3
      <4> QED
        BY <2>2, <3>2, <4>1
    <3>4. CASE ~(j >= i)
      <4>1. /\ i + (k + r - (n + 1)) - 1 = j + k - 1
            /\ i + (k + r - (n + 1)) - n - 2 = j + k - n - 2
        BY <1>1, <3>4
      <4> QED
        BY <2>2, <3>2, <4>1
    <3> QED
      BY <3>3, <3>4
  <2> QED
    BY <2>1, <2>2
<1>5. TurnsOf(n, s, j) = [k \in 1 .. n + 1 |->
                            t[IF k + r <= n + 1 THEN k + r ELSE k + r - (n + 1)]]
  BY <1>4 DEF TurnsOf
<1> QED
  BY <1>1, <1>2, <1>5 DEF IsRotated

\* The orders are as they were when the lists that show them are.
LEMMA WakesKept ==
  ASSUME NEW m, MemOK(m), NEW mm, OthersKept(m, mm, ReadyList), mm.xItemValue = m.xItemValue
  PROVE  WakesIn(mm) = WakesIn(m)
<1>1. PICK n, s : IsList(m, DelayedList, n, s)
  BY NodeFacts DEF MemOK, ListOK
<1>2. IsList(mm, DelayedList, n, s)
  BY <1>1, NodeFacts DEF OthersKept
<1> QED
  BY <1>1, <1>2, WakesAre

LEMMA TurnsKept ==
  ASSUME NEW m, MemOK(m), NEW mm, OthersKept(m, mm, DelayedList),
         mm.pxIndex[ReadyList] = m.pxIndex[ReadyList]
  PROVE  TurnsIn(mm) = TurnsIn(m)
<1>1. PICK n, s, i : InTurn(m, n, s, i)
  BY HasTurns
<1>2. InTurn(mm, n, s, i)
  BY <1>1, NodeFacts DEF InTurn, OthersKept
<1> QED
  BY <1>1, <1>2, TurnsAre

\* vListInsertEnd gives the last turn.
LEMMA EndInserted ==
  ASSUME NEW m, MemOK(m), NEW x \in Items, m.pxContainer[x] = NoNode
  PROVE  /\ TurnsIn(vListInsertEnd(m, ReadyList, x)) = Append(TurnsIn(m), x)
         /\ WakesIn(vListInsertEnd(m, ReadyList, x)) = WakesIn(m)
<1>0. PICK mm : mm = vListInsertEnd(m, ReadyList, x)
  OBVIOUS
<1>1. PICK n, s, i : InTurn(m, n, s, i)
  BY HasTurns
<1>2. PICK l, p, q, j, h, w :
        /\ l = ReadyList /\ q = m.pxIndex[l] /\ p = m.pxPrevious[q]
        /\ j = (IF i = 0 THEN n ELSE i - 1) /\ h = (IF i = 0 THEN 0 ELSE i + 1)
        /\ w = WithNode(n, s, j, x)
  OBVIOUS
<1>3. /\ l \in AllLists /\ l # DelayedList /\ IsList(m, l, n, s) /\ i \in 0 .. n /\ q = s[i]
      /\ x \in Nodes
  BY <1>1, <1>2, NodeFacts DEF InTurn
<1>4. /\ n \in Nat /\ s \in [0 .. n -> Nodes] /\ s[0] = l
      /\ \A k \in 0 .. n - 1 : m.pxNext[s[k]] = s[k + 1] /\ m.pxPrevious[s[k + 1]] = s[k]
      /\ m.pxNext[s[n]] = l /\ m.pxPrevious[l] = s[n]
  BY <1>3 DEF IsList, Chain
<1>5. j \in 0 .. n /\ p = s[j] /\ q = m.pxNext[p]
  <2>1. CASE i = 0
    BY <1>2, <1>3, <1>4, <2>1
  <2>2. CASE i # 0
    <3>1. i - 1 \in 0 .. n - 1 /\ (i - 1) + 1 = i /\ j = i - 1 /\ j \in 0 .. n
      BY <1>2, <1>3, <1>4, <2>2
    <3>2. m.pxNext[s[i - 1]] = s[(i - 1) + 1] /\ m.pxPrevious[s[(i - 1) + 1]] = s[i - 1]
      BY <1>4, <3>1
    <3> QED
      BY <1>2, <1>3, <3>1, <3>2
  <2> QED
    BY <2>1, <2>2
<1>6. mm = Linked(m, l, x, p, q)
  BY <1>0, <1>2 DEF vListInsertEnd
<1>7. /\ mm.pxIndex = m.pxIndex /\ mm.xItemValue = m.xItemValue
      /\ IsList(mm, l, n + 1, w) /\ OthersKept(m, mm, l)
  <2>1. /\ IsList(m, l, n, s) /\ j \in 0 .. n /\ l \in AllLists
        /\ l = DelayedList => Sorted(m.xItemValue, n + 1, WithNode(n, s, j, x))
        /\ p = s[j] /\ q = m.pxNext[p] /\ mm = Linked(m, l, x, p, q)
    BY <1>3, <1>5, <1>6
  <2>2. IsList(mm, l, n + 1, WithNode(n, s, j, x)) /\ OthersKept(m, mm, l)
    BY <2>1, LinkKeeps
  <2>3. mm.pxIndex = m.pxIndex /\ mm.xItemValue = m.xItemValue
    BY <1>6 DEF Linked
  <2> QED
    BY <1>2, <2>2, <2>3
<1>8. InTurn(mm, n + 1, w, h)
  <2>1. w[h] = s[i] /\ h \in 0 .. n + 1
    BY <1>2, <1>3, <1>4 DEF WithNode
  <2> QED
    BY <1>2, <1>3, <1>7, <2>1 DEF InTurn
<1>9. TurnsOf(n + 1, w, h) = Append(TurnsOf(n, s, i), x)
  BY <1>2, <1>3, <1>4, TurnAtEnd
<1>10. TurnsIn(mm) = Append(TurnsIn(m), x)
  BY <1>1, <1>8, <1>9, TurnsAre
<1>11. WakesIn(mm) = WakesIn(m)
  BY <1>2, <1>7, WakesKept
<1> QED
  BY <1>0, <1>10, <1>11

\* The h-th turn is that of x, and the h-th to wake is x.
IsTurn(m, h, x) == h \in 1 .. Len(TurnsIn(m)) /\ TurnsIn(m)[h] = x
IsWake(m, h, x) == h \in 1 .. Len(WakesIn(m)) /\ WakesIn(m)[h].item = x

\* A ready item has a turn, and only a ready one has.
LEMMA ReadyHasTurn ==
  ASSUME NEW m, MemOK(m), NEW x \in Items
  PROVE  /\ Len(TurnsIn(m)) \in Nat
         /\ m.pxContainer[x] = ReadyList <=> \E h : IsTurn(m, h, x)
<1>1. PICK n, s, i : InTurn(m, n, s, i)
  BY HasTurns
<1>2. IsList(m, ReadyList, n, s) /\ i \in 0 .. n
  BY <1>1 DEF InTurn
<1>3. /\ n \in Nat /\ s \in [0 .. n -> Nodes] /\ s[0] = ReadyList
      /\ Distinct(n, s)
      /\ m.pxContainer[x] = ReadyList <=> \E k \in 1 .. n : s[k] = x
  BY <1>2 DEF IsList, Chain, Holds, Distinct
<1>4. TurnsIn(m) = TurnsOf(n, s, i) /\ Len(TurnsIn(m)) = n + 1
  BY <1>1, <1>2, <1>3, TurnsAre, TurnsType
<1>5. ASSUME NEW k \in 1 .. n, s[k] = x PROVE \E h \in 1 .. n + 1 : TurnsOf(n, s, i)[h] = x
  <2>1. PICK h : h = TurnOf(n, i, k)
    OBVIOUS
  <2>2. h \in 1 .. n + 1 /\ k \in 0 .. n
    BY <1>2, <1>3, <2>1 DEF TurnOf
  <2>3. TurnsOf(n, s, i)[h] = s[k]
    BY <1>2, <1>3, <2>1, <2>2, OneTurn
  <2> QED
    BY <1>5, <2>2, <2>3
<1>6. ASSUME NEW h \in 1 .. n + 1, TurnsOf(n, s, i)[h] = x PROVE \E k \in 1 .. n : s[k] = x
  <2>1. PICK k : k = IF i + h - 1 <= n THEN i + h - 1 ELSE i + h - n - 2
    OBVIOUS
  <2>2. k \in 0 .. n /\ TurnsOf(n, s, i)[h] = s[k]
    BY <1>2, <1>3, <2>1 DEF TurnsOf
  <2>3. k # 0
    BY <1>3, <1>6, <2>2, NodeFacts
  <2> QED
    BY <1>3, <1>6, <2>2, <2>3
<1> QED
  BY <1>3, <1>4, <1>5, <1>6 DEF IsTurn

\* uxListRemove of a ready item takes its turn away.
LEMMA TurnRemoved ==
  ASSUME NEW m, MemOK(m), NEW x \in Items, NEW h, IsTurn(m, h, x)
  PROVE  /\ TurnsIn(uxListRemove(m, x)) = Order!Leaves(TurnsIn(m), h)
         /\ WakesIn(uxListRemove(m, x)) = WakesIn(m)
<1>0. PICK mm : mm = uxListRemove(m, x)
  OBVIOUS
<1>1. PICK n, s, i : InTurn(m, n, s, i)
  BY HasTurns
<1>2. PICK l : l = ReadyList
  OBVIOUS
<1>3. IsList(m, l, n, s) /\ i \in 0 .. n /\ m.pxIndex[l] = s[i] /\ l \in AllLists /\ l # DelayedList
  BY <1>1, <1>2, NodeFacts DEF InTurn
<1>4. m.pxContainer[x] = l
  BY <1>2, ReadyHasTurn
<1>5. /\ n \in Nat /\ s \in [0 .. n -> Nodes] /\ s[0] = l
      /\ Distinct(n, s)
  BY <1>3 DEF IsList, Chain, Distinct
<1>6. PICK j \in 1 .. n : s[j] = x
  BY <1>3, <1>4 DEF IsList, Holds
<1>7. PICK w, i2 : w = WithoutNode(n, s, j) /\ i2 = (IF i >= j THEN i - 1 ELSE i)
  OBVIOUS
<1>8. /\ mm.xItemValue = m.xItemValue
      /\ mm.pxIndex = IF m.pxIndex[l] = x THEN [m.pxIndex EXCEPT ![l] = s[j - 1]] ELSE m.pxIndex
      /\ IsList(mm, l, n - 1, w) /\ OthersKept(m, mm, l)
  <2>1. /\ l \in AllLists /\ m.pxContainer[x] = l /\ IsList(m, l, n, s)
        /\ j \in 1 .. n /\ s[j] = x
    BY <1>3, <1>4, <1>6
  <2>2. IsList(mm, l, n - 1, WithoutNode(n, s, j)) /\ OthersKept(m, mm, l)
    BY <1>0, <2>1, UnlinkKeeps
  <2>3. mm.xItemValue = m.xItemValue
    BY <1>0 DEF uxListRemove
  <2>4. mm.pxIndex = IF m.pxIndex[l] = x THEN [m.pxIndex EXCEPT ![l] = s[j - 1]] ELSE m.pxIndex
    <3>1. m.pxPrevious[x] = s[j - 1]
      <4>1. n \in Nat /\ j - 1 \in 0 .. n - 1 /\ (j - 1) + 1 = j
        BY <1>5, <2>1
      <4>2. m.pxPrevious[s[(j - 1) + 1]] = s[j - 1]
        BY <2>1, <4>1 DEF IsList, Chain
      <4> QED
        BY <2>1, <4>1, <4>2
    <3> QED
      BY <1>0, <2>1, <3>1 DEF uxListRemove
  <2> QED
    BY <1>7, <2>2, <2>3, <2>4
<1>9. InTurn(mm, n - 1, w, i2)
  <2>1. m.pxIndex \in [AllLists -> Nodes]
    BY FieldTypes DEF MemOK
  <2>2. /\ \A k \in 0 .. n - 1 : w[k] = IF k < j THEN s[k] ELSE s[k + 1]
        /\ j \in 0 .. n /\ j - 1 \in 0 .. n
    BY <1>5, <1>7 DEF WithoutNode
  <2>3. CASE i = j
    <3>1. mm.pxIndex[l] = s[j - 1]
      BY <1>3, <1>6, <1>8, <2>1, <2>3
    <3>2. i2 = j - 1 /\ i2 \in 0 .. n - 1 /\ i2 < j
      BY <1>3, <1>5, <1>7, <2>3
    <3> QED
      BY <1>2, <1>8, <2>2, <3>1, <3>2 DEF InTurn
  <2>4. CASE i # j
    <3>1. mm.pxIndex[l] = s[i]
      <4>1. s[i] # x
        BY <1>3, <1>5, <1>6, <2>2, <2>4 DEF Distinct
      <4> QED
        BY <1>3, <1>8, <4>1
    <3>2. i2 \in 0 .. n - 1 /\ w[i2] = s[i]
      <4>1. CASE i < j
        BY <1>3, <1>5, <1>7, <2>2, <4>1
      <4>2. CASE i > j
        <5>1. i2 = i - 1 /\ ~(i - 1 < j) /\ i - 1 \in 0 .. n - 1 /\ (i - 1) + 1 = i
          BY <1>3, <1>5, <1>7, <4>2
        <5> QED
          BY <2>2, <5>1
      <4> QED
        BY <1>3, <1>5, <2>4, <4>1, <4>2
    <3> QED
      BY <1>2, <1>8, <3>1, <3>2 DEF InTurn
  <2> QED
    BY <2>3, <2>4
<1>10. h = TurnOf(n, i, j)
  <2>1. TurnsIn(m) = TurnsOf(n, s, i) /\ Len(TurnsIn(m)) = n + 1
    BY <1>1, <1>3, <1>5, TurnsAre, TurnsType
  <2>2. h \in 1 .. n + 1 /\ j \in 0 .. n /\ TurnsOf(n, s, i)[h] = s[j]
    BY <1>5, <1>6, <2>1 DEF IsTurn
  <2> QED
    BY <1>3, <1>5, <2>2, OneTurn
<1>11. TurnsOf(n - 1, w, i2) = Order!Leaves(TurnsOf(n, s, i), h)
  BY <1>3, <1>5, <1>7, <1>10, TurnGone
<1>12. TurnsIn(mm) = Order!Leaves(TurnsIn(m), h)
  <2>1. TurnsIn(m) = TurnsOf(n, s, i)
    BY <1>1, TurnsAre
  <2>2. TurnsIn(mm) = TurnsOf(n - 1, w, i2)
    BY <1>9, TurnsAre
  <2> QED
    BY <1>11, <2>1, <2>2
<1>13. WakesIn(mm) = WakesIn(m)
  BY <1>2, <1>8, WakesKept
<1> QED
  BY <1>0, <1>12, <1>13

LEMMA LenIs ==
  ASSUME NEW n \in Nat, NEW f, f = [k \in 1 .. n |-> f[k]]
  PROVE  Len(f) = n
<1>1. PICK S : S = {f[k] : k \in 1 .. n}
  OBVIOUS
<1>2. f \in [1 .. n -> S]
  BY <1>1
<1> QED
  BY <1>2

LEMMA WakeGone ==
  ASSUME NEW n \in Nat, NEW value, NEW s, NEW j \in 1 .. n
  PROVE  WakesOf(value, n - 1, WithoutNode(n, s, j)) = Order!Without(WakesOf(value, n, s), j)
<1>1. PICK w, f : w = WithoutNode(n, s, j) /\ f = WakesOf(value, n, s)
  OBVIOUS
<1>2. /\ \A k \in 0 .. n - 1 : w[k] = IF k < j THEN s[k] ELSE s[k + 1]
      /\ \A k \in 1 .. n : f[k] = [item |-> s[k], value |-> value[s[k]]]
      /\ f = [k \in 1 .. n |-> f[k]]
  BY <1>1 DEF WithoutNode, WakesOf
<1>3. Len(f) = n
  BY <1>2, LenIs
<1>4. ASSUME NEW k \in 1 .. n - 1
      PROVE  [item |-> w[k], value |-> value[w[k]]] = IF k < j THEN f[k] ELSE f[k + 1]
  <2>1. k \in 0 .. n - 1 /\ k \in 1 .. n /\ k + 1 \in 1 .. n
    OBVIOUS
  <2> QED
    BY <1>2, <2>1
<1> QED
  BY <1>1, <1>3, <1>4 DEF WakesOf, Order!Without

LEMMA WakeCome ==
  ASSUME NEW n \in Nat, NEW value, NEW s, NEW i \in 0 .. n, NEW x
  PROVE  WakesOf(value, n + 1, WithNode(n, s, i, x))
           = Order!With(WakesOf(value, n, s), i, [item |-> x, value |-> value[x]])
<1>1. PICK w, f, e : /\ w = WithNode(n, s, i, x) /\ f = WakesOf(value, n, s)
                     /\ e = [item |-> x, value |-> value[x]]
  OBVIOUS
<1>2. /\ \A k \in 0 .. n + 1 : w[k] = IF k <= i THEN s[k] ELSE IF k = i + 1 THEN x ELSE s[k - 1]
      /\ \A k \in 1 .. n : f[k] = [item |-> s[k], value |-> value[s[k]]]
      /\ f = [k \in 1 .. n |-> f[k]]
  BY <1>1 DEF WithNode, WakesOf
<1>3. Len(f) = n
  BY <1>2, LenIs
<1>4. ASSUME NEW k \in 1 .. n + 1
      PROVE  [item |-> w[k], value |-> value[w[k]]]
               = IF k <= i THEN f[k] ELSE IF k = i + 1 THEN e ELSE f[k - 1]
  <2>1. /\ k \in 0 .. n + 1 /\ (k <= i => k \in 1 .. n)
        /\ ~(k <= i) /\ k # i + 1 => k - 1 \in 1 .. n
    OBVIOUS
  <2>2. CASE k <= i
    BY <1>2, <2>1, <2>2
  <2>3. CASE k = i + 1
    BY <1>1, <1>2, <2>1, <2>3
  <2>4. CASE ~(k <= i) /\ k # i + 1
    BY <1>2, <2>1, <2>4
  <2> QED
    BY <2>2, <2>3, <2>4
<1> QED
  BY <1>1, <1>3, <1>4 DEF WakesOf, Order!With

\* A delayed item has its place among those to wake, and only a delayed one has.
LEMMA DelayedHasPlace ==
  ASSUME NEW m, MemOK(m), NEW x \in Items
  PROVE  /\ Len(WakesIn(m)) \in Nat
         /\ m.pxContainer[x] = DelayedList <=> \E h : IsWake(m, h, x)
<1>1. PICK n, s : IsList(m, DelayedList, n, s)
  BY NodeFacts DEF MemOK, ListOK
<1>2. /\ n \in Nat
      /\ m.pxContainer[x] = DelayedList <=> \E k \in 1 .. n : s[k] = x
  BY <1>1 DEF IsList, Chain, Holds
<1>3. WakesIn(m) = WakesOf(m.xItemValue, n, s)
  BY <1>1, WakesAre
<1>4. /\ WakesIn(m) = [k \in 1 .. n |-> WakesIn(m)[k]]
      /\ \A k \in 1 .. n : WakesIn(m)[k].item = s[k]
  BY <1>3 DEF WakesOf
<1>5. Len(WakesIn(m)) = n
  BY <1>2, <1>4, LenIs
<1> QED
  BY <1>2, <1>4, <1>5 DEF IsWake

\* uxListRemove of a delayed item takes its place away.
LEMMA WakeRemoved ==
  ASSUME NEW m, MemOK(m), NEW x \in Items, NEW h, IsWake(m, h, x)
  PROVE  /\ WakesIn(uxListRemove(m, x)) = Order!Without(WakesIn(m), h)
         /\ TurnsIn(uxListRemove(m, x)) = TurnsIn(m)
<1>0. PICK mm, l : mm = uxListRemove(m, x) /\ l = DelayedList
  OBVIOUS
<1>1. PICK n, s : IsList(m, l, n, s)
  BY <1>0, NodeFacts DEF MemOK, ListOK
<1>2. n \in Nat
  BY <1>1 DEF IsList, Chain
<1>3. WakesIn(m) = WakesOf(m.xItemValue, n, s)
  BY <1>0, <1>1, WakesAre
<1>4. /\ WakesIn(m) = [k \in 1 .. n |-> WakesIn(m)[k]]
      /\ \A k \in 1 .. n : WakesIn(m)[k].item = s[k]
  BY <1>3 DEF WakesOf
<1>5. h \in 1 .. n /\ s[h] = x
  <2>1. Len(WakesIn(m)) = n
    BY <1>2, <1>4, LenIs
  <2> QED
    BY <1>4, <2>1 DEF IsWake
<1>6. m.pxContainer[x] = l /\ l \in AllLists /\ l # ReadyList
  BY <1>0, DelayedHasPlace, NodeFacts
<1>7. IsList(mm, l, n - 1, WithoutNode(n, s, h)) /\ OthersKept(m, mm, l)
  BY <1>0, <1>1, <1>5, <1>6, UnlinkKeeps
<1>8. mm.xItemValue = m.xItemValue /\ mm.pxIndex[ReadyList] = m.pxIndex[ReadyList]
  <2>1. m.pxIndex \in [AllLists -> Nodes]
    BY FieldTypes DEF MemOK
  <2> QED
    BY <1>0, <1>6, <2>1, NodeFacts DEF uxListRemove
<1>9. WakesIn(mm) = WakesOf(m.xItemValue, n - 1, WithoutNode(n, s, h))
  BY <1>0, <1>7, <1>8, WakesAre
<1>10. WakesIn(mm) = Order!Without(WakesIn(m), h)
  BY <1>2, <1>3, <1>5, <1>9, WakeGone
<1>11. TurnsIn(mm) = TurnsIn(m)
  BY <1>0, <1>7, <1>8, TurnsKept
<1> QED
  BY <1>0, <1>10, <1>11

\* ww is w with x put behind those that wake no later than v.
Placed(w, ww, x, v) ==
  \E i \in 0 .. Len(w) :
    /\ \A j \in 1 .. i : w[j].value <= v
    /\ \A j \in i + 1 .. Len(w) : w[j].value > v
    /\ ww = Order!With(w, i, [item |-> x, value |-> v])

\* vListInsert finds the place of the wake time.
LEMMA WakeInserted ==
  ASSUME NEW m, MemOK(m), NEW x \in Items, m.pxContainer[x] = NoNode
  PROVE  /\ Placed(WakesIn(m), WakesIn(vListInsert(m, DelayedList, x)), x, m.xItemValue[x])
         /\ TurnsIn(vListInsert(m, DelayedList, x)) = TurnsIn(m)
<1>0. PICK mm, l, p, q, v :
        /\ mm = vListInsert(m, DelayedList, x) /\ l = DelayedList
        /\ p = InsertsAfter(m, DelayedList, x) /\ q = m.pxNext[p] /\ v = m.xItemValue[x]
  OBVIOUS
<1>1. l \in AllLists /\ l # ReadyList /\ m \in Memory
  BY <1>0, NodeFacts DEF MemOK
<1>2. PICK n, s : IsList(m, l, n, s) /\ Sorted(m.xItemValue, n, s)
  BY <1>0, <1>1 DEF MemOK, ListOK
<1>3. PICK i \in 0 .. n :
        p = s[i] /\ FitsAt(m.xItemValue, n, s, i, x)
  BY <1>0, <1>1, <1>2, InsertsInOrder
<1>4. mm = Linked(m, l, x, p, q)
  BY <1>0 DEF vListInsert
<1>5. Sorted(m.xItemValue, n + 1, WithNode(n, s, i, x))
  BY <1>0, <1>1, <1>2, <1>3, StaysSorted
<1>6. IsList(mm, l, n + 1, WithNode(n, s, i, x)) /\ OthersKept(m, mm, l)
  <2>1. /\ l \in AllLists /\ IsList(m, l, n, s) /\ p = s[i] /\ q = m.pxNext[p]
        /\ Sorted(m.xItemValue, n + 1, WithNode(n, s, i, x))
    BY <1>0, <1>1, <1>2, <1>3, <1>5
  <2> QED
    BY <1>4, <2>1, LinkKeeps
<1>7. mm.pxIndex = m.pxIndex /\ mm.xItemValue = m.xItemValue
  BY <1>4 DEF Linked
<1>8. n \in Nat /\ WakesIn(m) = WakesOf(m.xItemValue, n, s)
      /\ WakesIn(mm) = WakesOf(m.xItemValue, n + 1, WithNode(n, s, i, x))
  <2>1. n \in Nat
    BY <1>2 DEF IsList, Chain
  <2>2. IsList(m, DelayedList, n, s) /\ IsList(mm, DelayedList, n + 1, WithNode(n, s, i, x))
    BY <1>0, <1>2, <1>6
  <2> QED
    BY <1>7, <2>1, <2>2, WakesAre
<1>9. Placed(WakesIn(m), WakesIn(mm), x, v)
  <2>1. PICK w : w = WakesIn(m)
    OBVIOUS
  <2>2. w = [k \in 1 .. n |-> w[k]] /\ \A k \in 1 .. n : w[k].value = m.xItemValue[s[k]]
    BY <1>8, <2>1 DEF WakesOf
  <2>3. Len(w) = n
    BY <1>8, <2>2, LenIs
  <2>4. WakesIn(mm) = Order!With(w, i, [item |-> x, value |-> v])
    BY <1>0, <1>8, <2>1, WakeCome
  <2>5. /\ \A j \in 1 .. i : w[j].value <= v
        /\ \A j \in i + 1 .. n : w[j].value > v
    <3>1. v \in Int /\ \A k \in 1 .. n : m.xItemValue[s[k]] \in Int
      BY <1>0, <1>1, <1>2, FieldTypes DEF IsList, Chain
    <3>2. (\A j \in 1 .. i : j \in 1 .. n) /\ \A j \in i + 1 .. n : j \in 1 .. n
      BY <1>8
    <3> QED
      BY <1>0, <1>3, <2>2, <3>1, <3>2 DEF FitsAt
  <2> QED
    BY <2>1, <2>3, <2>4, <2>5 DEF Placed
<1>10. TurnsIn(mm) = TurnsIn(m)
  BY <1>0, <1>6, <1>7, TurnsKept
<1> QED
  BY <1>0, <1>9, <1>10

\* What changes in an item that is on no list does not show.
LEMMA LooseOrders ==
  ASSUME NEW m, MemOK(m), NEW x \in Items, m.pxContainer[x] = NoNode, NEW mm,
         OnlyLooseDiffers(m, mm, x)
  PROVE  TurnsIn(mm) = TurnsIn(m) /\ WakesIn(mm) = WakesIn(m)
<1>1. ASSUME NEW l \in AllLists, NEW n, NEW s, IsList(m, l, n, s)
      PROVE  /\ IsList(mm, l, n, s)
             /\ \A k \in 1 .. n : mm.xItemValue[s[k]] = m.xItemValue[s[k]]
  <2>1. x \notin RingIn(m, l) /\ RingIn(m, l) \subseteq Nodes
    BY NodeFacts DEF RingIn
  <2>2. /\ \A y \in RingIn(m, l) : mm.pxNext[y] = m.pxNext[y] /\ mm.pxPrevious[y] = m.pxPrevious[y]
        /\ \A y \in Items : mm.pxContainer[y] = l <=> m.pxContainer[y] = l
        /\ mm.uxNumberOfItems[l] = m.uxNumberOfItems[l]
    BY <2>1 DEF OnlyLooseDiffers
  <2>3. IsList(mm, l, n, s)
    BY <1>1, <2>2, SameOrder
  <2>4. \A k \in 1 .. n : s[k] \in Items /\ m.pxContainer[s[k]] = l
    BY <1>1 DEF IsList, Chain, Holds
  <2>5. \A k \in 1 .. n : s[k] \in Items \ {x}
    BY <2>1, <2>4 DEF RingIn
  <2> QED
    BY <2>3, <2>5 DEF OnlyLooseDiffers
<1>2. PICK n, s, i : InTurn(m, n, s, i)
  BY HasTurns
<1>3. InTurn(mm, n, s, i)
  BY <1>1, <1>2, NodeFacts DEF InTurn, OnlyLooseDiffers
<1>4. PICK n2, s2 : IsList(m, DelayedList, n2, s2)
  BY NodeFacts DEF MemOK, ListOK
<1>5. /\ IsList(mm, DelayedList, n2, s2)
      /\ \A k \in 1 .. n2 : mm.xItemValue[s2[k]] = m.xItemValue[s2[k]]
  BY <1>1, <1>4, NodeFacts
<1>6. WakesOf(mm.xItemValue, n2, s2) = WakesOf(m.xItemValue, n2, s2)
  BY <1>5 DEF WakesOf
<1>7. WakesIn(mm) = WakesIn(m)
  <2>1. WakesIn(m) = WakesOf(m.xItemValue, n2, s2)
    BY <1>4, WakesAre
  <2>2. WakesIn(mm) = WakesOf(mm.xItemValue, n2, s2)
    BY <1>5, WakesAre
  <2> QED
    BY <1>6, <2>1, <2>2
<1>8. TurnsIn(mm) = TurnsIn(m)
  BY <1>2, <1>3, TurnsAre
<1> QED
  BY <1>7, <1>8

\* When indexes move, the turns rotate.
LEMMA IndexRotates ==
  ASSUME NEW m, MemOK(m), NEW index, index[ReadyList] \in RingIn(m, ReadyList)
  PROVE  /\ IsRotated(TurnsIn(m), TurnsIn([m EXCEPT !.pxIndex = index]))
         /\ WakesIn([m EXCEPT !.pxIndex = index]) = WakesIn(m)
<1>0. PICK mm : mm = [m EXCEPT !.pxIndex = index]
  OBVIOUS
<1>1. /\ mm.pxNext = m.pxNext /\ mm.pxPrevious = m.pxPrevious /\ mm.pxContainer = m.pxContainer
      /\ mm.xItemValue = m.xItemValue /\ mm.pxIndex = index
      /\ mm.uxNumberOfItems = m.uxNumberOfItems
  BY <1>0 DEF MemOK, Memory
<1>2. \A l, n, s : IsList(m, l, n, s) => IsList(mm, l, n, s)
  BY <1>1 DEF IsList
<1>3. PICK n, s, i : InTurn(m, n, s, i)
  BY HasTurns
<1>4. /\ IsList(m, ReadyList, n, s) /\ i \in 0 .. n
      /\ RingIn(m, ReadyList) = {s[k] : k \in 0 .. n} /\ n \in Nat /\ s \in [0 .. n -> Nodes]
  BY <1>3, NodeFacts, RingIsOrder DEF InTurn
<1>5. PICK j \in 0 .. n : index[ReadyList] = s[j]
  BY <1>4
<1>6. InTurn(mm, n, s, j)
  BY <1>1, <1>2, <1>4, <1>5 DEF InTurn
<1>7. TurnsIn(m) = TurnsOf(n, s, i) /\ TurnsIn(mm) = TurnsOf(n, s, j)
  BY <1>3, <1>6, TurnsAre
<1>8. IsRotated(TurnsOf(n, s, i), TurnsOf(n, s, j))
  BY <1>4, TurnsRotate
<1>9. PICK n2, s2 : IsList(m, DelayedList, n2, s2)
  BY NodeFacts DEF MemOK, ListOK
<1>10. WakesIn(mm) = WakesIn(m)
  BY <1>1, <1>2, <1>9, WakesAre
<1> QED
  BY <1>0, <1>7, <1>8, <1>10

-----------------------------------------------------------------------------
(* The scheduler.                                                          *)

\* No two cores run the same item, and what they run is ready.
Running(m, cs) ==
  /\ \A c \in cs : current[c] # NoNode => m.pxContainer[current[c]] = ReadyList
  /\ \A c, d \in cs : c # d /\ current[c] # NoNode => current[c] # current[d]

CurrentOK == current \in [Cores -> Items \cup {NoNode}] /\ Running(mem, Cores)

LInv == MemOK(mem) /\ CurrentOK

\* A core selects an item from the memory it has made.
LEMMA SelectFromKeeps ==
  ASSUME NEW m, MemOK(m), NEW c \in Cores, current \in [Cores -> Items \cup {NoNode}],
         Running(m, Cores \ {c}), SelectFrom(m, c)
  PROVE  LInv'
<1>1. PICK order, fit :
        /\ order = From(m, ReadyList, m.pxIndex[ReadyList])
        /\ fit = {k \in DOMAIN order : order[k] \in Eligible(c)}
  OBVIOUS
<1>2. /\ ReadyList \in AllLists /\ NoNode \notin Items /\ NoNode \notin AllLists
      /\ m.pxContainer \in [Items -> AllLists \cup {NoNode}]
  BY NodeFacts, FieldTypes DEF MemOK
<1>3. CASE fit = {}
  <2>1. mem' = m /\ current' = [current EXCEPT ![c] = NoNode]
    BY <1>1, <1>3 DEF SelectFrom
  <2>2. MemOK(mem')
    BY <2>1
  <2>3. current' \in [Cores -> Items \cup {NoNode}]
    BY <2>1
  <2>4. Running(m, Cores)'
    BY <2>1 DEF Running
  <2> QED
    BY <2>1, <2>2, <2>3, <2>4 DEF LInv, CurrentOK, Running, MemOK, ListOK, RingIn, IsList
<1>4. CASE fit # {}
  <2>1. PICK h : h = CHOOSE k \in fit : \A j \in fit : k <= j
    OBVIOUS
  <2>2. PICK x : x = order[h]
    OBVIOUS
  <2>3. /\ mem' = vListInsertEnd(uxListRemove(m, x), ReadyList, x)
        /\ current' = [current EXCEPT ![c] = x]
    BY <1>1, <1>4, <2>1, <2>2, Zenon DEF SelectFrom
  <2>4. PICK n, s : IsList(m, ReadyList, n, s)
    BY <1>2 DEF MemOK, ListOK
  <2>5. RingIn(m, ReadyList) = {s[k] : k \in 0 .. n} /\ n \in Nat
    BY <1>2, <2>4, RingIsOrder
  <2>6. PICK i \in 0 .. n : m.pxIndex[ReadyList] = s[i]
    BY <1>2, <2>5 DEF MemOK
  <2>7. order = Turned(n, s, i)
    BY <1>1, <2>4, <2>6, FromIsTurned
  <2>8. DOMAIN order = 0 .. n /\ \A k \in 0 .. n : order[k] \in RingIn(m, ReadyList)
    BY <2>5, <2>7 DEF Turned
  <2>9. fit \in SUBSET Nat
    BY <1>1, <2>5, <2>8
  <2>10. \E k \in fit : \A j \in fit : k <= j
    BY <1>4, <2>9, LeastOne
  <2>11. h \in fit
    BY <2>1, <2>10, Zenon
  <2>12. x \in Eligible(c) /\ x \in RingIn(m, ReadyList)
    BY <1>1, <2>2, <2>8, <2>11
  <2>13. /\ x \in Items /\ m.pxContainer[x] = ReadyList
         /\ \A d \in Cores \ {c} : current[d] # x
    BY <1>2, <2>12, NodeFacts DEF Eligible, RingIn
  <2>14. MemOK(mem') /\ mem'.pxContainer = [m.pxContainer EXCEPT ![x] = ReadyList]
    <3>1. PICK t : t = mem'
      OBVIOUS
    <3>2. t = vListInsertEnd(uxListRemove(m, x), ReadyList, x)
      BY <2>3, <3>1
    <3>3. m.pxContainer[x] \in AllLists
      BY <1>2, <2>13
    <3>4. MemOK(t) /\ t.pxContainer = [m.pxContainer EXCEPT ![x] = ReadyList]
      BY <2>13, <3>2, <3>3, MoveToReady
    <3> QED
      BY <3>1, <3>4
  <2>15. current' \in [Cores -> Items \cup {NoNode}]
    BY <2>3, <2>13
  <2>16. Running(mem, Cores)'
    BY <1>2, <2>3, <2>13, <2>14 DEF Running
  <2> QED
    BY <2>14, <2>15, <2>16 DEF LInv, CurrentOK
<1> QED
  BY <1>3, <1>4

\* It takes the next turn of that memory.
LEMMA SelectFromTakesTurn ==
  ASSUME NEW m, MemOK(m), NEW c \in Cores, SelectFrom(m, c)
  PROVE  Order!TakeTurn(c, TurnsIn(m)) /\ WakesIn(mem)' = WakesIn(m)
<1>1. PICK order, fit, t :
        /\ order = From(m, ReadyList, m.pxIndex[ReadyList])
        /\ fit = {k \in DOMAIN order : order[k] \in Eligible(c)}
        /\ t = TurnsIn(m)
  OBVIOUS
<1>2. PICK n, s, i : InTurn(m, n, s, i)
  BY HasTurns
<1>3. IsList(m, ReadyList, n, s) /\ i \in 0 .. n /\ m.pxIndex[ReadyList] = s[i]
      /\ m.uxNumberOfItems[ReadyList] = n
  BY <1>2 DEF InTurn, IsList
<1>4. n \in Nat /\ order = Turned(n, s, i) /\ DOMAIN order = 0 .. n
  <2>1. n \in Nat
    BY <1>3 DEF IsList, Chain
  <2>2. order = Turned(n, s, i)
    BY <1>1, <1>3, FromIsTurned
  <2> QED
    BY <2>1, <2>2 DEF Turned
<1>5. t = [k \in 1 .. n + 1 |-> t[k]] /\ \A k \in 1 .. n + 1 : t[k] = order[k - 1]
  BY <1>1, <1>3 DEF TurnsIn
<1>6. Len(t) = n + 1
  BY <1>4, <1>5, LenIs
<1>7. \A x : Order!Fits(c, x) <=> x \in Eligible(c)
  BY DEF Order!Fits, Eligible
<1>8. \A k \in 1 .. n + 1 : Order!Fits(c, t[k]) <=> k - 1 \in fit
  <2>1. \A k \in 1 .. n + 1 : k - 1 \in 0 .. n
    BY <1>4
  <2> QED
    BY <1>1, <1>4, <1>5, <1>7, <2>1
<1>9. CASE fit = {}
  <2>1. mem' = m /\ current' = [current EXCEPT ![c] = NoNode]
    BY <1>1, <1>9 DEF SelectFrom
  <2>2. TurnsIn(mem)' = t /\ WakesIn(mem)' = WakesIn(m)
    BY <1>1, <2>1 DEF TurnsIn, WakesIn, From
  <2>3. \A k \in 1 .. Len(t) : ~Order!Fits(c, t[k])
    BY <1>6, <1>8, <1>9
  <2> QED
    BY <1>1, <2>1, <2>2, <2>3 DEF Order!TakeTurn
<1>10. CASE fit # {}
  <2>1. PICK h, x, g :
          h = (CHOOSE k \in fit : \A j \in fit : k <= j) /\ x = order[h] /\ g = h + 1
    OBVIOUS
  <2>2. /\ mem' = vListInsertEnd(uxListRemove(m, x), ReadyList, x)
        /\ current' = [current EXCEPT ![c] = x]
    BY <1>1, <1>10, <2>1, Zenon DEF SelectFrom
  <2>3. h \in fit /\ \A j \in fit : h <= j
    <3>1. fit \in SUBSET Nat
      BY <1>1, <1>4
    <3>2. \E k \in fit : \A j \in fit : k <= j
      BY <1>10, <3>1, LeastOne
    <3> QED
      BY <2>1, <3>2, Zenon
  <2>4. h \in 0 .. n /\ g \in 1 .. n + 1 /\ g - 1 = h
    <3>1. h \in 0 .. n /\ g = h + 1
      BY <1>1, <1>4, <2>1, <2>3
    <3> QED
      BY <1>4, <3>1
  <2>5. t[g] = x /\ Order!Fits(c, t[g]) /\ x \in Items
    BY <1>5, <1>8, <2>1, <2>3, <2>4 DEF Order!Fits
  <2>6. \A j \in 1 .. g - 1 : ~Order!Fits(c, t[j])
    <3> SUFFICES ASSUME NEW j \in 1 .. g - 1 PROVE ~Order!Fits(c, t[j])
      OBVIOUS
    <3>1. j \in 1 .. n + 1 /\ ~(h <= j - 1)
      BY <1>4, <2>4
    <3> QED
      BY <1>8, <2>3, <3>1
  <2>7. IsTurn(m, g, x)
    BY <1>1, <1>6, <2>4, <2>5 DEF IsTurn
  <2>8. PICK r : r = uxListRemove(m, x)
    OBVIOUS
  <2>9. TurnsIn(r) = Order!Leaves(t, g) /\ WakesIn(r) = WakesIn(m)
    BY <1>1, <2>5, <2>7, <2>8, TurnRemoved
  <2>10. MemOK(r) /\ r.pxContainer[x] = NoNode
    <3>1. m.pxContainer[x] = ReadyList
      BY <2>5, <2>7, ReadyHasTurn
    <3>2. m.pxContainer[x] \in AllLists /\ m.pxContainer \in [Items -> AllLists \cup {NoNode}]
      BY <3>1, NodeFacts, FieldTypes DEF MemOK
    <3>3. MemOK(r)
      BY <2>5, <2>8, <3>2, RemoveKeeps
    <3>4. r.pxContainer = [m.pxContainer EXCEPT ![x] = NoNode]
      BY <2>8 DEF uxListRemove
    <3> QED
      BY <2>5, <3>2, <3>3, <3>4
  <2>11. PICK u : u = mem'
    OBVIOUS
  <2>12. u = vListInsertEnd(r, ReadyList, x)
    BY <2>2, <2>8, <2>11
  <2>13. TurnsIn(u) = Append(Order!Leaves(t, g), x) /\ WakesIn(u) = WakesIn(m)
    BY <2>5, <2>9, <2>10, <2>12, EndInserted
  <2>14. TurnsIn(mem)' = Append(Order!Leaves(t, g), t[g]) /\ WakesIn(mem)' = WakesIn(m)
    BY <2>5, <2>11, <2>13
  <2> QED
    BY <1>1, <1>6, <2>2, <2>4, <2>5, <2>6, <2>14 DEF Order!TakeTurn
<1> QED
  BY <1>9, <1>10

LEMMA InvInit == ListsInit => LInv
<1> SUFFICES ASSUME ListsInit PROVE LInv
  OBVIOUS
<1>1. PICK m : m = mem
  OBVIOUS
<1>2. m = vListInitialise
  BY <1>1 DEF ListsInit
<1>3. /\ m \in Memory
      /\ \A l \in AllLists : /\ m.pxNext[l] = l /\ m.pxPrevious[l] = l
                             /\ m.pxIndex[l] = l /\ m.uxNumberOfItems[l] = 0
      /\ \A x \in Items : m.pxContainer[x] = NoNode
  BY <1>2, NodeFacts, ListsAssumption DEF vListInitialise, Memory
<1>4. ASSUME NEW l \in AllLists PROVE ListOK(m, l) /\ m.pxIndex[l] \in RingIn(m, l)
  <2>1. PICK s : s = [k \in 0 .. 0 |-> l]
    OBVIOUS
  <2>2. Chain(m.pxNext, m.pxPrevious, l, 0, s)
    BY <1>3, <2>1, NodeFacts DEF Chain
  <2>3. Holds(m.pxContainer, l, 0, s)
    BY <1>3, NodeFacts DEF Holds
  <2>4. IsList(m, l, 0, s) /\ Sorted(m.xItemValue, 0, s)
    BY <1>3, <2>2, <2>3 DEF IsList, Sorted
  <2> QED
    BY <1>3, <2>4 DEF ListOK, RingIn
<1>5. MemOK(m)
  BY <1>3, <1>4 DEF MemOK
<1>6. CurrentOK
  BY DEF ListsInit, CurrentOK, Running
<1> QED
  BY <1>1, <1>5, <1>6 DEF LInv

\* A task that delays leaves the ready list for its place in the delayed list.
LEMMA BlockCurrentKeeps ==
  ASSUME LInv, NEW c \in Cores, NEW v \in 0 .. MaxWakeTime, BlockCurrent(c, v)
  PROVE  LInv' /\ Order!Delay(c, v)
<1>1. PICK m, x : m = mem /\ x = current[c]
  OBVIOUS
<1>2. PICK r, m1, m2 :
        /\ r = uxListRemove(m, x)
        /\ m1 = [r EXCEPT !.xItemValue[x] = v]
        /\ m2 = vListInsert(m1, DelayedList, x)
        /\ SelectFrom(m2, c) /\ x # NoNode
  BY <1>1 DEF BlockCurrent
<1>3. /\ MemOK(m) /\ x \in Items /\ m.pxContainer[x] = ReadyList /\ ReadyList \in AllLists
      /\ \A d \in Cores \ {c} : current[d] # x
      /\ current \in [Cores -> Items \cup {NoNode}]
      /\ ReadyList # NoNode /\ DelayedList # NoNode
  BY <1>1, <1>2, NodeFacts DEF LInv, CurrentOK, Running
<1>4. MemOK(r) /\ r.pxContainer = [m.pxContainer EXCEPT ![x] = NoNode]
  <2>1. m.pxContainer[x] \in AllLists
    BY <1>3
  <2> QED
    BY <1>2, <1>3, <2>1, RemoveKeeps
<1>5. m.pxContainer \in [Items -> AllLists \cup {NoNode}]
  BY <1>3, FieldTypes DEF MemOK
<1>6. /\ MemOK(m1) /\ m1.pxContainer = r.pxContainer /\ m1.xItemValue[x] = v
      /\ TurnsIn(m1) = TurnsIn(r) /\ WakesIn(m1) = WakesIn(r)
  <2>1. /\ m1 \in Memory
        /\ m1.pxNext = r.pxNext /\ m1.pxPrevious = r.pxPrevious
        /\ m1.pxContainer = r.pxContainer /\ m1.pxIndex = r.pxIndex
        /\ m1.uxNumberOfItems = r.uxNumberOfItems
        /\ m1.xItemValue = [r.xItemValue EXCEPT ![x] = v]
    BY <1>2, <1>4 DEF MemOK, Memory
  <2>2. r.xItemValue \in [Items -> 0 .. MaxWakeTime]
    BY <1>4, FieldTypes DEF MemOK
  <2>3. r.pxContainer[x] = NoNode
    BY <1>3, <1>4, <1>5
  <2>4. \A y \in Items \ {x} : m1.xItemValue[y] = r.xItemValue[y]
    BY <2>1, <2>2
  <2>5. \A y \in Nodes \ {x} : m1.pxNext[y] = r.pxNext[y] /\ m1.pxPrevious[y] = r.pxPrevious[y]
    BY <2>1
  <2>6. OnlyLooseDiffers(r, m1, x)
    BY <2>1, <2>4, <2>5 DEF OnlyLooseDiffers
  <2>7. MemOK(m1)
    BY <1>3, <1>4, <2>1, <2>3, <2>6, LooseKeeps
  <2>8. TurnsIn(m1) = TurnsIn(r) /\ WakesIn(m1) = WakesIn(r)
    BY <1>3, <1>4, <2>3, <2>6, LooseOrders
  <2> QED
    BY <1>3, <2>1, <2>2, <2>7, <2>8
<1>7. MemOK(m2) /\ m2.pxContainer = [m1.pxContainer EXCEPT ![x] = DelayedList]
  <2>1. m1.pxContainer[x] = NoNode
    BY <1>3, <1>4, <1>5, <1>6
  <2>2. m2 = vListInsert(m1, DelayedList, x)
    BY <1>2
  <2> QED
    BY <1>3, <1>6, <2>1, <2>2, InsertKeeps
<1>8. Running(m2, Cores \ {c})
  <2>1. \A y \in Items \ {x} : m2.pxContainer[y] = m.pxContainer[y]
    BY <1>3, <1>4, <1>5, <1>6, <1>7
  <2> QED
    BY <1>1, <1>3, <2>1 DEF LInv, CurrentOK, Running
<1>9. LInv'
  BY <1>2, <1>3, <1>7, <1>8, SelectFromKeeps
<1>10. PICK h : IsTurn(m, h, x)
  BY <1>3, ReadyHasTurn
<1>11. TurnsIn(r) = Order!Leaves(TurnsIn(m), h) /\ WakesIn(r) = WakesIn(m)
  BY <1>2, <1>3, <1>10, TurnRemoved
<1>12. Placed(WakesIn(m1), WakesIn(m2), x, v) /\ TurnsIn(m2) = TurnsIn(m1)
  <2>1. MemOK(m1) /\ x \in Items /\ m1.pxContainer[x] = NoNode
    BY <1>3, <1>4, <1>5, <1>6
  <2>2. /\ Placed(WakesIn(m1), WakesIn(vListInsert(m1, DelayedList, x)), x, m1.xItemValue[x])
        /\ TurnsIn(vListInsert(m1, DelayedList, x)) = TurnsIn(m1)
    BY <2>1, WakeInserted
  <2>3. m2 = vListInsert(m1, DelayedList, x) /\ m1.xItemValue[x] = v
    BY <1>2, <1>6
  <2> QED
    BY <2>2, <2>3, Zenon
<1>13. Order!TakeTurn(c, TurnsIn(m2)) /\ WakesIn(mem)' = WakesIn(m2)
  BY <1>2, <1>7, SelectFromTakesTurn
<1>14. Order!Delay(c, v)
  <2>1. Order!TakeTurn(c, Order!Leaves(TurnsIn(m), h))
    BY <1>6, <1>11, <1>12, <1>13
  <2>2. Placed(WakesIn(m), WakesIn(mem)', x, v)
    BY <1>6, <1>11, <1>12, <1>13
  <2>3. h \in 1 .. Len(TurnsIn(m)) /\ TurnsIn(m)[h] = x
    BY <1>10 DEF IsTurn
  <2>4. \E i \in 1 .. Len(TurnsIn(mem)) :
           TurnsIn(mem)[i] = current[c] /\ Order!TakeTurn(c, Order!Leaves(TurnsIn(mem), i))
    BY <1>1, <2>1, <2>3
  <2>5. \E i \in 0 .. Len(WakesIn(mem)) :
           /\ \A j \in 1 .. i : WakesIn(mem)[j].value <= v
           /\ \A j \in i + 1 .. Len(WakesIn(mem)) : WakesIn(mem)[j].value > v
           /\ WakesIn(mem)' = Order!With(WakesIn(mem), i, [item |-> current[c], value |-> v])
    BY <1>1, <2>2 DEF Placed
  <2> QED
    BY <1>1, <1>2, <2>4, <2>5 DEF Order!Delay
<1> QED
  BY <1>9, <1>14

\* What leaves the items that run on the ready list.
LEMMA RunningKept ==
  ASSUME CurrentOK, UNCHANGED current,
         \A c \in Cores : current[c] # NoNode => \/ mem'.pxContainer[current[c]] = ReadyList
                                                 \/ mem'.pxContainer[current[c]] = mem.pxContainer[current[c]]
  PROVE  CurrentOK'
BY DEF CurrentOK, Running

\* An item is moved to the end of the ready list, whichever list it is on.
LEMMA ReadiedKeeps ==
  ASSUME LInv, NEW x \in Items, mem.pxContainer[x] \in AllLists,
         mem' = vListInsertEnd(uxListRemove(mem, x), ReadyList, x), UNCHANGED current
  PROVE  LInv'
<1>1. PICK m, t : m = mem /\ t = mem'
  OBVIOUS
<1>2. MemOK(m) /\ m.pxContainer[x] \in AllLists
      /\ t = vListInsertEnd(uxListRemove(m, x), ReadyList, x)
  BY <1>1 DEF LInv
<1>3. MemOK(t) /\ t.pxContainer = [m.pxContainer EXCEPT ![x] = ReadyList]
  BY <1>2, MoveToReady
<1>4. m.pxContainer \in [Items -> AllLists \cup {NoNode}]
  BY <1>2, FieldTypes DEF MemOK
<1>5. \A y \in Items : t.pxContainer[y] = ReadyList \/ t.pxContainer[y] = m.pxContainer[y]
  BY <1>3, <1>4
<1>6. CurrentOK'
  <2>1. \A c \in Cores : current[c] # NoNode => current[c] \in Items
    BY DEF LInv, CurrentOK
  <2> QED
    BY <1>1, <1>5, <2>1, RunningKept DEF LInv
<1> QED
  BY <1>1, <1>3, <1>6 DEF LInv

LEMMA HeadIsItem ==
  ASSUME NEW m, MemOK(m), NEW l \in AllLists, m.uxNumberOfItems[l] > 0
  PROVE  m.pxNext[l] \in Items /\ m.pxContainer[m.pxNext[l]] = l
<1>1. PICK n, s : IsList(m, l, n, s)
  BY DEF MemOK, ListOK
<1>2. /\ n \in Nat /\ n > 0 /\ s[0] = l /\ \A k \in 1 .. n : s[k] \in Items
      /\ \A k \in 0 .. n - 1 : m.pxNext[s[k]] = s[k + 1]
      /\ \A y \in Items : m.pxContainer[y] = l <=> \E k \in 1 .. n : s[k] = y
  BY <1>1 DEF IsList, Chain, Holds
<1>3. 0 \in 0 .. n - 1 /\ 1 \in 1 .. n
  BY <1>2
<1>4. m.pxNext[s[0]] = s[0 + 1] /\ 0 + 1 = 1
  BY <1>2, <1>3
<1> QED
  BY <1>2, <1>3, <1>4

LEMMA UnblockHeadKeeps == LInv /\ UnblockHead => LInv'
<1> SUFFICES ASSUME LInv, UnblockHead PROVE LInv'
  OBVIOUS
<1>1. PICK m, x : m = mem /\ x = mem.pxNext[DelayedList]
  OBVIOUS
<1>2. MemOK(m) /\ m.uxNumberOfItems[DelayedList] > 0 /\ x = m.pxNext[DelayedList]
      /\ DelayedList \in AllLists
  BY <1>1, NodeFacts DEF LInv, UnblockHead
<1>3. x \in Items /\ m.pxContainer[x] = DelayedList
  BY <1>2, HeadIsItem
<1>4. /\ mem.pxContainer[x] \in AllLists /\ UNCHANGED current
      /\ mem' = vListInsertEnd(uxListRemove(mem, x), ReadyList, x)
  BY <1>1, <1>2, <1>3 DEF UnblockHead
<1> QED
  BY <1>3, <1>4, ReadiedKeeps

LEMMA UnblockKeeps ==
  ASSUME LInv, NEW x \in Items, Unblock(x) PROVE LInv'
<1>1. /\ mem.pxContainer[x] \in AllLists /\ UNCHANGED current
      /\ mem' = vListInsertEnd(uxListRemove(mem, x), ReadyList, x)
  BY NodeFacts DEF Unblock
<1> QED
  BY <1>1, ReadiedKeeps

LEMMA AddItemKeeps ==
  ASSUME LInv, NEW x \in Items, AddItem(x) PROVE LInv'
<1>1. PICK m, t : m = mem /\ t = mem'
  OBVIOUS
<1>2. MemOK(m) /\ m.pxContainer[x] = NoNode /\ t = vListInsertEnd(m, ReadyList, x)
  BY <1>1 DEF LInv, AddItem
<1>3. MemOK(t) /\ t.pxContainer = [m.pxContainer EXCEPT ![x] = ReadyList]
  BY <1>2, InsertEndKeeps
<1>4. m.pxContainer \in [Items -> AllLists \cup {NoNode}]
  BY <1>2, FieldTypes DEF MemOK
<1>5. \A y \in Items : t.pxContainer[y] = ReadyList \/ t.pxContainer[y] = m.pxContainer[y]
  BY <1>3, <1>4
<1>6. CurrentOK'
  <2>1. \A c \in Cores : current[c] # NoNode => current[c] \in Items
    BY DEF LInv, CurrentOK
  <2>2. UNCHANGED current
    BY DEF AddItem
  <2> QED
    BY <1>1, <1>5, <2>1, <2>2, RunningKept DEF LInv
<1> QED
  BY <1>1, <1>3, <1>6 DEF LInv

LEMMA DropItemKeeps ==
  ASSUME LInv, NEW x \in Items, DropItem(x) PROVE LInv'
<1>1. PICK m, t, r : m = mem /\ t = mem' /\ r = uxListRemove(m, x)
  OBVIOUS
<1>2. /\ MemOK(m) /\ m.pxContainer[x] # NoNode
      /\ t = [r EXCEPT !.pxNext[x] = NoNode, !.pxPrevious[x] = NoNode, !.xItemValue[x] = 0]
  BY <1>1 DEF LInv, DropItem
<1>3. m.pxContainer \in [Items -> AllLists \cup {NoNode}] /\ MaxWakeTime \in Nat
  BY <1>2, FieldTypes, ListsAssumption DEF MemOK
<1>4. MemOK(r) /\ r.pxContainer = [m.pxContainer EXCEPT ![x] = NoNode]
  <2>1. m.pxContainer[x] \in AllLists
    BY <1>2, <1>3
  <2> QED
    BY <1>1, <1>2, <2>1, RemoveKeeps
<1>5. /\ t \in Memory
      /\ t.pxNext = [r.pxNext EXCEPT ![x] = NoNode]
      /\ t.pxPrevious = [r.pxPrevious EXCEPT ![x] = NoNode]
      /\ t.pxContainer = r.pxContainer /\ t.pxIndex = r.pxIndex
      /\ t.uxNumberOfItems = r.uxNumberOfItems
      /\ t.xItemValue = [r.xItemValue EXCEPT ![x] = 0]
  <2>1. r \in Memory
    BY <1>4 DEF MemOK
  <2>2. PICK a, b, d : /\ a = [r.pxNext EXCEPT ![x] = NoNode]
                       /\ b = [r.pxPrevious EXCEPT ![x] = NoNode]
                       /\ d = [r.xItemValue EXCEPT ![x] = 0]
    OBVIOUS
  <2>3. /\ a \in [Nodes -> Nodes \cup {NoNode}] /\ b \in [Nodes -> Nodes \cup {NoNode}]
        /\ d \in [Items -> 0 .. MaxWakeTime]
    <3>1. /\ r.pxNext \in [Nodes -> Nodes \cup {NoNode}]
          /\ r.pxPrevious \in [Nodes -> Nodes \cup {NoNode}]
          /\ r.xItemValue \in [Items -> 0 .. MaxWakeTime]
      BY <2>1, FieldTypes
    <3>2. 0 \in 0 .. MaxWakeTime
      BY <1>3
    <3> QED
      BY <2>2, <3>1, <3>2
  <2>4. t = [r EXCEPT !.pxNext = a, !.pxPrevious = b, !.xItemValue = d]
    BY <1>2, <2>2
  <2>5. /\ t \in Memory
        /\ t.pxNext = a /\ t.pxPrevious = b /\ t.xItemValue = d
        /\ t.pxContainer = r.pxContainer /\ t.pxIndex = r.pxIndex
        /\ t.uxNumberOfItems = r.uxNumberOfItems
    BY <2>1, <2>3, <2>4 DEF Memory
  <2> QED
    BY <2>2, <2>5
<1>6. MemOK(t)
  <2>1. /\ r.pxNext \in [Nodes -> Nodes \cup {NoNode}]
        /\ r.pxPrevious \in [Nodes -> Nodes \cup {NoNode}]
        /\ r.xItemValue \in [Items -> 0 .. MaxWakeTime]
    BY <1>4, FieldTypes DEF MemOK
  <2>2. r.pxContainer[x] = NoNode
    BY <1>3, <1>4
  <2>3. \A y \in Nodes \ {x} : t.pxNext[y] = r.pxNext[y] /\ t.pxPrevious[y] = r.pxPrevious[y]
    BY <1>5, <2>1
  <2>4. \A y \in Items \ {x} : t.xItemValue[y] = r.xItemValue[y]
    BY <1>5, <2>1
  <2>5. OnlyLooseDiffers(r, t, x)
    BY <1>5, <2>3, <2>4 DEF OnlyLooseDiffers
  <2> QED
    BY <1>4, <1>5, <2>2, <2>5, LooseKeeps
<1>7. \A y \in Items \ {x} : t.pxContainer[y] = m.pxContainer[y]
  BY <1>3, <1>4, <1>5
<1>8. CurrentOK'
  <2>1. \A c \in Cores : current[c] # NoNode => current[c] \in Items \ {x}
    BY DEF LInv, CurrentOK, DropItem
  <2>2. UNCHANGED current
    BY DEF DropItem
  <2> QED
    BY <1>1, <1>7, <2>1, <2>2, RunningKept DEF LInv
<1> QED
  BY <1>1, <1>6, <1>8 DEF LInv

\* A walk moves nothing but indexes.
LEMMA WalkStep ==
  ASSUME LInv, UNCHANGED current, MemOK(mem'), mem'.pxContainer = mem.pxContainer
  PROVE  LInv'
<1>1. CurrentOK'
  BY RunningKept DEF LInv
<1> QED
  BY <1>1 DEF LInv

\* The index of a list is left on one of its items.
LEMMA IndexOnItem ==
  ASSUME NEW m, MemOK(m), NEW l \in AllLists, NEW x \in Items, m.pxContainer[x] = l,
         NEW mm, mm = [m EXCEPT !.pxIndex[l] = x]
  PROVE  MemOK(mm) /\ mm.pxContainer = m.pxContainer
<1>1. PICK index : index = [m.pxIndex EXCEPT ![l] = x]
  OBVIOUS
<1>2. m.pxIndex \in [AllLists -> Nodes] /\ m \in Memory
  BY FieldTypes DEF MemOK
<1>3. index \in [AllLists -> Nodes]
  BY <1>1, <1>2, NodeFacts
<1>4. x \in RingIn(m, l) /\ \A k \in AllLists : m.pxIndex[k] \in RingIn(m, k)
  BY DEF RingIn, MemOK
<1>5. \A k \in AllLists : index[k] \in RingIn(m, k)
  BY <1>1, <1>2, <1>4
<1>6. mm = [m EXCEPT !.pxIndex = index]
  BY <1>1
<1> QED
  BY <1>3, <1>5, <1>6, IndexKeeps

\* A walk of all lists is a move of their indexes.
LEMMA AllWalked ==
  ASSUME NEW m, MemOK(m)
  PROVE  \E index : /\ Walked(m, AllLists) = [m EXCEPT !.pxIndex = index]
                    /\ index[ReadyList] \in RingIn(m, ReadyList)
<1>1. PICK w, index : w = Walked(m, AllLists) /\ index = w.pxIndex
  OBVIOUS
<1>2. MemOK(w) /\ w.pxContainer = m.pxContainer
  BY <1>1, WalkedKeeps
<1>3. index[ReadyList] \in RingIn(m, ReadyList)
  BY <1>1, <1>2, NodeFacts DEF MemOK, RingIn
<1>4. w = [m EXCEPT !.pxIndex = index]
  <2>1. m \in Memory
    BY DEF MemOK
  <2> QED
    BY <1>1, <2>1 DEF Walked, Memory
<1> QED
  BY <1>1, <1>3, <1>4

LEMMA GetHandleKeeps ==
  ASSUME LInv, NEW x \in Items, xTaskGetHandle(x) PROVE LInv'
<1>1. PICK m, t : m = mem /\ t = mem'
  OBVIOUS
<1>2. MemOK(m) /\ UNCHANGED current
  BY <1>1 DEF LInv, xTaskGetHandle
<1>3. m.pxContainer \in [Items -> AllLists \cup {NoNode}]
  BY <1>2, FieldTypes DEF MemOK
<1>4. MemOK(t) /\ t.pxContainer = m.pxContainer
  <2>1. CASE m.pxContainer[x] = ReadyList
    <3>1. t = [m EXCEPT !.pxIndex[ReadyList] = x]
      BY <1>1, <2>1, NodeFacts DEF xTaskGetHandle
    <3> QED
      BY <1>2, <2>1, <3>1, NodeFacts, IndexOnItem
  <2>2. CASE m.pxContainer[x] = DelayedList
    <3>1. PICK w : w = Walked(m, {ReadyList})
      OBVIOUS
    <3>2. MemOK(w) /\ w.pxContainer = m.pxContainer
      BY <1>2, <3>1, NodeFacts, WalkedKeeps
    <3>3. t = [w EXCEPT !.pxIndex[DelayedList] = x]
      BY <1>1, <2>2, <3>1, NodeFacts DEF xTaskGetHandle
    <3>4. w.pxContainer[x] = DelayedList /\ DelayedList \in AllLists
      BY <2>2, <3>2, NodeFacts
    <3>5. MemOK(t) /\ t.pxContainer = w.pxContainer
      BY <3>2, <3>3, <3>4, IndexOnItem
    <3> QED
      BY <3>2, <3>5
  <2>3. CASE m.pxContainer[x] # ReadyList /\ m.pxContainer[x] # DelayedList
    <3>1. t = Walked(m, AllLists)
      BY <1>1, <2>3 DEF xTaskGetHandle
    <3> QED
      BY <1>2, <3>1, WalkedKeeps
  <2> QED
    BY <2>1, <2>2, <2>3
<1> QED
  BY <1>1, <1>2, <1>4, WalkStep

LEMMA SystemStateKeeps == LInv /\ uxTaskGetSystemState => LInv'
<1> SUFFICES ASSUME LInv, uxTaskGetSystemState PROVE LInv'
  OBVIOUS
<1>1. PICK m, t : m = mem /\ t = mem'
  OBVIOUS
<1>2. MemOK(m) /\ t = Walked(m, AllLists) /\ UNCHANGED current
  BY <1>1 DEF LInv, uxTaskGetSystemState
<1>3. MemOK(t) /\ t.pxContainer = m.pxContainer
  BY <1>2, WalkedKeeps
<1> QED
  BY <1>1, <1>2, <1>3, WalkStep

\* A delayed item that is moved to the ready list takes the last turn.
LEMMA WokenWakes ==
  ASSUME LInv, NEW x \in Items, mem.pxContainer[x] = DelayedList,
         mem' = vListInsertEnd(uxListRemove(mem, x), ReadyList, x), UNCHANGED current
  PROVE  \E h \in 1 .. Len(WakesIn(mem)) : Order!Wake(h)
<1>1. PICK m, t, r : m = mem /\ t = mem' /\ r = uxListRemove(m, x)
  OBVIOUS
<1>2. MemOK(m) /\ m.pxContainer[x] = DelayedList
  BY <1>1 DEF LInv
<1>3. PICK h : IsWake(m, h, x)
  BY <1>2, DelayedHasPlace
<1>4. MemOK(r) /\ r.pxContainer[x] = NoNode
  <2>1. m.pxContainer[x] \in AllLists /\ m.pxContainer \in [Items -> AllLists \cup {NoNode}]
    BY <1>2, NodeFacts, FieldTypes DEF MemOK
  <2>2. MemOK(uxListRemove(m, x))
        /\ uxListRemove(m, x).pxContainer = [m.pxContainer EXCEPT ![x] = NoNode]
    BY <1>2, <2>1, RemoveKeeps
  <2> QED
    BY <1>1, <2>1, <2>2
<1>5. WakesIn(r) = Order!Without(WakesIn(m), h) /\ TurnsIn(r) = TurnsIn(m)
  BY <1>1, <1>2, <1>3, WakeRemoved
<1>6. /\ TurnsIn(vListInsertEnd(r, ReadyList, x)) = Append(TurnsIn(r), x)
      /\ WakesIn(vListInsertEnd(r, ReadyList, x)) = WakesIn(r)
  BY <1>4, EndInserted
<1>7. t = vListInsertEnd(r, ReadyList, x)
  BY <1>1
<1>8. TurnsIn(t) = Append(TurnsIn(m), x) /\ WakesIn(t) = Order!Without(WakesIn(m), h)
  BY <1>5, <1>6, <1>7
<1>9. h \in 1 .. Len(WakesIn(m)) /\ WakesIn(m)[h].item = x
  BY <1>3 DEF IsWake
<1> QED
  BY <1>1, <1>8, <1>9 DEF Order!Wake

LEMMA UnblockHeadWakes ==
  ASSUME LInv, UnblockHead
  PROVE  \E h \in 1 .. Len(WakesIn(mem)) : Order!Wake(h)
<1>1. PICK m, x : m = mem /\ x = mem.pxNext[DelayedList]
  OBVIOUS
<1>2. MemOK(m) /\ m.uxNumberOfItems[DelayedList] > 0 /\ x = m.pxNext[DelayedList]
      /\ DelayedList \in AllLists
  BY <1>1, NodeFacts DEF LInv, UnblockHead
<1>3. x \in Items /\ m.pxContainer[x] = DelayedList
  BY <1>2, HeadIsItem
<1>4. /\ mem.pxContainer[x] = DelayedList /\ UNCHANGED current
      /\ mem' = vListInsertEnd(uxListRemove(mem, x), ReadyList, x)
  BY <1>1, <1>2, <1>3 DEF UnblockHead
<1> QED
  BY <1>3, <1>4, WokenWakes

LEMMA AddItemAdds ==
  ASSUME LInv, NEW x \in Items, AddItem(x)
  PROVE  Order!Add(x)
<1>1. PICK m, t : m = mem /\ t = mem'
  OBVIOUS
<1>2. MemOK(m) /\ x \in Items /\ m.pxContainer[x] = NoNode
  BY <1>1 DEF LInv, AddItem
<1>3. /\ TurnsIn(vListInsertEnd(m, ReadyList, x)) = Append(TurnsIn(m), x)
      /\ WakesIn(vListInsertEnd(m, ReadyList, x)) = WakesIn(m)
  BY <1>2, EndInserted
<1>4. t = vListInsertEnd(m, ReadyList, x)
  BY <1>1 DEF AddItem
<1>5. m.pxContainer[x] # ReadyList /\ m.pxContainer[x] # DelayedList
  BY <1>2, NodeFacts
<1>6. ~ (\E h : IsTurn(m, h, x)) /\ ~ (\E h : IsWake(m, h, x))
  BY <1>2, <1>5, ReadyHasTurn, DelayedHasPlace
<1>7. /\ \A h \in 1 .. Len(TurnsIn(m)) : TurnsIn(m)[h] # x
      /\ \A h \in 1 .. Len(WakesIn(m)) : WakesIn(m)[h].item # x
  BY <1>6 DEF IsTurn, IsWake
<1>8. TurnsIn(t) = Append(TurnsIn(m), x) /\ WakesIn(t) = WakesIn(m)
  BY <1>3, <1>4
<1> QED
  BY <1>1, <1>7, <1>8 DEF Order!Add, AddItem

\* What is removed from its list leaves the order of that list.
LEMMA DropItemDrops ==
  ASSUME LInv, NEW x \in Items, DropItem(x)
  PROVE  Order!Drop(x)
<1>1. PICK m, t, r : m = mem /\ t = mem' /\ r = uxListRemove(m, x)
  OBVIOUS
<1>2. /\ MemOK(m) /\ m.pxContainer[x] # NoNode
      /\ t = [r EXCEPT !.pxNext[x] = NoNode, !.pxPrevious[x] = NoNode, !.xItemValue[x] = 0]
      /\ m.pxContainer \in [Items -> AllLists \cup {NoNode}]
  BY <1>1, FieldTypes DEF LInv, DropItem, MemOK
<1>3. MemOK(r) /\ r.pxContainer[x] = NoNode
  <2>1. m.pxContainer[x] \in AllLists
    BY <1>2
  <2>2. MemOK(uxListRemove(m, x))
        /\ uxListRemove(m, x).pxContainer = [m.pxContainer EXCEPT ![x] = NoNode]
    BY <1>2, <2>1, RemoveKeeps
  <2> QED
    BY <1>1, <1>2, <2>2
<1>4. OnlyLooseDiffers(r, t, x)
  <2>1. PICK a, b, d : /\ a = [r.pxNext EXCEPT ![x] = NoNode]
                       /\ b = [r.pxPrevious EXCEPT ![x] = NoNode]
                       /\ d = [r.xItemValue EXCEPT ![x] = 0]
    OBVIOUS
  <2>2. r \in Memory
    BY <1>3 DEF MemOK
  <2>3. /\ r.pxNext \in [Nodes -> Nodes \cup {NoNode}]
        /\ r.pxPrevious \in [Nodes -> Nodes \cup {NoNode}]
        /\ r.xItemValue \in [Items -> 0 .. MaxWakeTime]
    BY <2>2, FieldTypes
  <2>4. t = [r EXCEPT !.pxNext = a, !.pxPrevious = b, !.xItemValue = d]
    BY <1>2, <2>1
  <2>5. /\ t.pxNext = a /\ t.pxPrevious = b /\ t.xItemValue = d
        /\ t.pxContainer = r.pxContainer /\ t.pxIndex = r.pxIndex
        /\ t.uxNumberOfItems = r.uxNumberOfItems
    BY <2>2, <2>4 DEF Memory
  <2>6. /\ \A y \in Nodes \ {x} : a[y] = r.pxNext[y] /\ b[y] = r.pxPrevious[y]
        /\ \A y \in Items \ {x} : d[y] = r.xItemValue[y]
    BY <2>1, <2>3
  <2> QED
    BY <2>5, <2>6 DEF OnlyLooseDiffers
<1>5. TurnsIn(t) = TurnsIn(r) /\ WakesIn(t) = WakesIn(r)
  BY <1>3, <1>4, LooseOrders
<1>6. CASE m.pxContainer[x] = ReadyList
  <2>1. PICK h : IsTurn(m, h, x)
    BY <1>2, <1>6, ReadyHasTurn
  <2>2. TurnsIn(r) = Order!Leaves(TurnsIn(m), h) /\ WakesIn(r) = WakesIn(m)
    BY <1>1, <1>2, <2>1, TurnRemoved
  <2>3. h \in 1 .. Len(TurnsIn(m)) /\ TurnsIn(m)[h] = x
    BY <2>1 DEF IsTurn
  <2> QED
    BY <1>1, <1>5, <2>2, <2>3 DEF Order!Drop, DropItem
<1>7. CASE m.pxContainer[x] = DelayedList
  <2>1. PICK h : IsWake(m, h, x)
    BY <1>2, <1>7, DelayedHasPlace
  <2>2. WakesIn(r) = Order!Without(WakesIn(m), h) /\ TurnsIn(r) = TurnsIn(m)
    BY <1>1, <1>2, <2>1, WakeRemoved
  <2>3. h \in 1 .. Len(WakesIn(m)) /\ WakesIn(m)[h].item = x
    BY <2>1 DEF IsWake
  <2> QED
    BY <1>1, <1>5, <2>2, <2>3 DEF Order!Drop, DropItem
<1> QED
  BY <1>2, <1>6, <1>7 DEF AllLists

\* A walk leaves each index on a node of its list, and so it rotates the turns.
LEMMA WalkRotates ==
  ASSUME LInv, NEW index, mem' = [mem EXCEPT !.pxIndex = index],
         index[ReadyList] \in RingIn(mem, ReadyList), UNCHANGED current
  PROVE  \E i \in 0 .. Len(TurnsIn(mem)) - 1 : Order!Rotate(i)
<1>1. PICK m, t : m = mem /\ t = mem'
  OBVIOUS
<1>2. MemOK(m) /\ index[ReadyList] \in RingIn(m, ReadyList)
  BY <1>1 DEF LInv
<1>3. /\ IsRotated(TurnsIn(m), TurnsIn([m EXCEPT !.pxIndex = index]))
      /\ WakesIn([m EXCEPT !.pxIndex = index]) = WakesIn(m)
  BY <1>2, IndexRotates
<1>4. t = [m EXCEPT !.pxIndex = index]
  BY <1>1
<1>5. IsRotated(TurnsIn(m), TurnsIn(t)) /\ WakesIn(t) = WakesIn(m)
  BY <1>3, <1>4
<1> QED
  BY <1>1, <1>5 DEF IsRotated, Order!Rotate

LEMMA GetHandleRotates ==
  ASSUME LInv, NEW x \in Items, xTaskGetHandle(x)
  PROVE  \E i \in 0 .. Len(TurnsIn(mem)) - 1 : Order!Rotate(i)
<1>1. PICK m, t : m = mem /\ t = mem'
  OBVIOUS
<1>2. MemOK(m) /\ UNCHANGED current
  BY <1>1 DEF LInv, xTaskGetHandle
<1>3. m \in Memory /\ m.pxIndex \in [AllLists -> Nodes] /\ ReadyList # DelayedList
      /\ ReadyList \in AllLists /\ DelayedList \in AllLists
  BY <1>2, FieldTypes, NodeFacts DEF MemOK
<1>4. \E index : t = [m EXCEPT !.pxIndex = index] /\ index[ReadyList] \in RingIn(m, ReadyList)
  <2>1. CASE m.pxContainer[x] = ReadyList
    <3>1. PICK index : index = [m.pxIndex EXCEPT ![ReadyList] = x]
      OBVIOUS
    <3>2. t = [m EXCEPT !.pxIndex = index]
      BY <1>1, <2>1, <3>1, NodeFacts DEF xTaskGetHandle
    <3>3. index[ReadyList] \in RingIn(m, ReadyList)
      BY <1>3, <2>1, <3>1 DEF RingIn
    <3> QED
      BY <3>2, <3>3
  <2>2. CASE m.pxContainer[x] = DelayedList
    <3>1. PICK w, index : w = Walked(m, {ReadyList}) /\ index = [w.pxIndex EXCEPT ![DelayedList] = x]
      OBVIOUS
    <3>2. MemOK(w) /\ w.pxContainer = m.pxContainer
      BY <1>2, <1>3, <3>1, WalkedKeeps
    <3>3. t = [w EXCEPT !.pxIndex[DelayedList] = x]
      BY <1>1, <2>2, <3>1, NodeFacts DEF xTaskGetHandle
    <3>4. t = [m EXCEPT !.pxIndex = index]
      BY <1>3, <3>1, <3>3 DEF Walked, Memory
    <3>5. w.pxIndex[ReadyList] \in RingIn(w, ReadyList) /\ w.pxIndex \in [AllLists -> Nodes]
      BY <1>3, <3>2, FieldTypes DEF MemOK
    <3>6. index[ReadyList] \in RingIn(m, ReadyList)
      BY <1>3, <3>1, <3>2, <3>5 DEF RingIn
    <3> QED
      BY <3>4, <3>6
  <2>3. CASE m.pxContainer[x] # ReadyList /\ m.pxContainer[x] # DelayedList
    <3>1. t = Walked(m, AllLists)
      BY <1>1, <2>3 DEF xTaskGetHandle
    <3> QED
      BY <1>2, <1>3, <3>1, AllWalked
  <2> QED
    BY <2>1, <2>2, <2>3
<1> QED
  BY <1>1, <1>2, <1>4, WalkRotates

LEMMA SystemStateRotates ==
  ASSUME LInv, uxTaskGetSystemState
  PROVE  \E i \in 0 .. Len(TurnsIn(mem)) - 1 : Order!Rotate(i)
<1>1. PICK m, t : m = mem /\ t = mem'
  OBVIOUS
<1>2. MemOK(m) /\ t = Walked(m, AllLists) /\ UNCHANGED current
  BY <1>1 DEF LInv, uxTaskGetSystemState
<1>3. \E index : t = [m EXCEPT !.pxIndex = index] /\ index[ReadyList] \in RingIn(m, ReadyList)
  BY <1>2, AllWalked
<1> QED
  BY <1>1, <1>2, <1>3, WalkRotates

LEMMA OrderInit == ListsInit => Order!Init
<1> SUFFICES ASSUME ListsInit PROVE Order!Init
  OBVIOUS
<1>1. PICK m : m = mem
  OBVIOUS
<1>2. /\ MemOK(m) /\ \A x \in Items : m.pxContainer[x] = NoNode
      /\ m.uxNumberOfItems[ReadyList] = 0 /\ m.uxNumberOfItems[DelayedList] = 0
      /\ m.pxIndex[ReadyList] = ReadyList
  BY <1>1, InvInit, NodeFacts DEF LInv, ListsInit, vListInitialise
<1>3. TurnsIn(m) = <<ReadyList>>
  <2>1. PICK n, s, i : InTurn(m, n, s, i)
    BY <1>2, HasTurns
  <2>2. n = 0 /\ i = 0 /\ s[0] = ReadyList
    BY <1>2, <2>1 DEF InTurn, IsList, Chain
  <2>3. TurnsIn(m) = TurnsOf(n, s, i)
    BY <2>1, TurnsAre
  <2>4. TurnsOf(0, s, 0) = [k \in 1 .. 1 |-> ReadyList]
    BY <2>2 DEF TurnsOf
  <2>5. <<ReadyList>> = [k \in 1 .. 1 |-> ReadyList]
    OBVIOUS
  <2> QED
    BY <2>2, <2>3, <2>4, <2>5
<1>4. WakesIn(m) = << >>
  <2>1. PICK n, s : IsList(m, DelayedList, n, s)
    BY <1>2, NodeFacts DEF MemOK, ListOK
  <2>2. n = 0
    BY <1>2, <2>1 DEF IsList, Chain
  <2>3. WakesIn(m) = WakesOf(m.xItemValue, n, s)
    BY <2>1, WakesAre
  <2>4. WakesOf(m.xItemValue, 0, s) = << >>
    BY DEF WakesOf
  <2> QED
    BY <2>2, <2>3, <2>4
<1> QED
  BY <1>1, <1>3, <1>4 DEF Order!Init, ListsInit

-----------------------------------------------------------------------------
(* Theorems.                                                               *)

\* Whatever tasks do and whichever functions walk the lists, each list is a ring
\* of its items with its index inside, the delayed list ascends, and what runs
\* is ready and runs on one core (list.c, prvSelectHighestPriorityTask).
THEOREM ListsInvariance == ListsSpec => []LInv
<1>1. LInv /\ [ListsNext]_lvars => LInv'
  <2> SUFFICES ASSUME LInv, [ListsNext]_lvars PROVE LInv'
    OBVIOUS
  <2>1. ASSUME NEW c \in Cores, Select(c) PROVE LInv'
    <3>1. PICK m : m = mem
      OBVIOUS
    <3>2. /\ MemOK(m) /\ current \in [Cores -> Items \cup {NoNode}]
          /\ Running(m, Cores \ {c})
      BY <3>1 DEF LInv, CurrentOK, Running
    <3>3. SelectFrom(m, c)
      BY <2>1, <3>1 DEF Select
    <3> QED
      BY <3>2, <3>3, SelectFromKeeps
  <2>2. ASSUME NEW c \in Cores, NEW v \in 0 .. MaxWakeTime, BlockCurrent(c, v) PROVE LInv'
    BY <2>2, BlockCurrentKeeps
  <2>3. ASSUME UnblockHead PROVE LInv'
    BY <2>3, UnblockHeadKeeps
  <2>4. ASSUME NEW x \in Items, Unblock(x) PROVE LInv'
    BY <2>4, UnblockKeeps
  <2>5. ASSUME NEW x \in Items, AddItem(x) PROVE LInv'
    BY <2>5, AddItemKeeps
  <2>6. ASSUME NEW x \in Items, DropItem(x) PROVE LInv'
    BY <2>6, DropItemKeeps
  <2>7. ASSUME NEW x \in Items, xTaskGetHandle(x) PROVE LInv'
    BY <2>7, GetHandleKeeps
  <2>8. ASSUME uxTaskGetSystemState PROVE LInv'
    BY <2>8, SystemStateKeeps
  <2>9. ASSUME UNCHANGED lvars PROVE LInv'
    <3>1. mem' = mem /\ current' = current
      BY <2>9 DEF lvars
    <3>2. MemOK(mem')
      BY <3>1 DEF LInv
    <3>3. mem'.pxContainer = mem.pxContainer
      BY <3>1
    <3> QED
      BY <3>1, <3>2, <3>3, WalkStep
  <2> QED
    BY <2>1, <2>2, <2>3, <2>4, <2>5, <2>6, <2>7, <2>8, <2>9
    DEF ListsNext, ListStep, Walk
<1> QED
  BY <1>1, InvInit, PTL DEF ListsSpec

\* Whatever tasks do and whichever functions walk the lists, a core gets the first
\* task no other core runs in the order of the ready list from its index on, and a
\* task that delays wakes behind those that wake no later and before the others:
\* each function of list.c does to the rings what the scheduler means for the two
\* orders (prvSelectHighestPriorityTask, vListInsert).
THEOREM OrderKept == ListsSpec => ListsKeepOrder
<1>1. LInv /\ [ListsNext]_lvars => [Order!Next]_(Order!vars)
  <2> SUFFICES ASSUME LInv, [ListsNext]_lvars PROVE [Order!Next]_(Order!vars)
    OBVIOUS
  <2>1. ASSUME NEW c \in Cores, Select(c) PROVE Order!Switch(c)
    <3>1. PICK m : m = mem
      OBVIOUS
    <3>2. MemOK(m) /\ SelectFrom(m, c)
      BY <2>1, <3>1 DEF LInv, Select
    <3>3. Order!TakeTurn(c, TurnsIn(m)) /\ WakesIn(mem)' = WakesIn(m)
      BY <3>2, SelectFromTakesTurn
    <3> QED
      BY <3>1, <3>3 DEF Order!Switch
  <2>2. ASSUME NEW c \in Cores, NEW v \in 0 .. MaxWakeTime, BlockCurrent(c, v)
        PROVE  Order!Delay(c, v)
    BY <2>2, BlockCurrentKeeps
  <2>3. ASSUME UnblockHead PROVE \E h \in 1 .. Len(WakesIn(mem)) : Order!Wake(h)
    BY <2>3, UnblockHeadWakes
  <2>4. ASSUME NEW x \in Items, Unblock(x)
        PROVE  \E h \in 1 .. Len(WakesIn(mem)) : Order!Wake(h)
    BY <2>4, WokenWakes DEF Unblock
  <2>5. ASSUME NEW x \in Items, AddItem(x) PROVE Order!Add(x)
    BY <2>5, AddItemAdds
  <2>6. ASSUME NEW x \in Items, DropItem(x) PROVE Order!Drop(x)
    BY <2>6, DropItemDrops
  <2>7. ASSUME NEW x \in Items, xTaskGetHandle(x)
        PROVE  \E i \in 0 .. Len(TurnsIn(mem)) - 1 : Order!Rotate(i)
    BY <2>7, GetHandleRotates
  <2>8. ASSUME uxTaskGetSystemState
        PROVE  \E i \in 0 .. Len(TurnsIn(mem)) - 1 : Order!Rotate(i)
    BY <2>8, SystemStateRotates
  <2>9. ASSUME UNCHANGED lvars PROVE UNCHANGED Order!vars
    BY <2>9 DEF lvars, Order!vars
  <2>10. ASSUME ListsNext PROVE Order!Next
    BY <2>10, <2>1, <2>2, <2>3, <2>4, <2>5, <2>6, <2>7, <2>8
    DEF ListsNext, ListStep, Walk, Order!Next
  <2> QED
    BY <2>9, <2>10
<1> QED
  BY <1>1, OrderInit, ListsInvariance, PTL DEF ListsSpec, ListsKeepOrder, Order!Spec

LEMMA CountOfList ==
  ASSUME NEW m, NEW l \in AllLists, NEW n, NEW s, IsList(m, l, n, s)
  PROVE  Cardinality({x \in Items : m.pxContainer[x] = l}) = n
<1>1. PICK S, f : S = {x \in Items : m.pxContainer[x] = l} /\ f = [k \in 1 .. n |-> s[k]]
  OBVIOUS
<1>2. /\ n \in Nat /\ \A k \in 1 .. n : s[k] \in Items /\ k \in 0 .. n
      /\ \A y \in Items : m.pxContainer[y] = l <=> \E k \in 1 .. n : s[k] = y
      /\ \A j, k \in 0 .. n : s[j] = s[k] => j = k
  <2>1. /\ n \in Nat /\ \A k \in 1 .. n : s[k] \in Items
        /\ \A j, k \in 0 .. n : s[j] = s[k] => j = k
    BY DEF IsList, Chain
  <2> QED
    BY <2>1 DEF IsList, Holds
<1>3. f \in [1 .. n -> S] /\ \A j, k \in 1 .. n : f[j] = f[k] => j = k
  BY <1>1, <1>2
<1>4. \A y \in S : \E k \in 1 .. n : f[k] = y
  BY <1>1, <1>2
<1>5. f \in Bijection(1 .. n, S)
  BY <1>3, <1>4 DEF Bijection, Injection, Surjection, IsInjective
<1>6. ExistsBijection(1 .. n, S)
  BY <1>5 DEF ExistsBijection
<1> QED
  BY <1>1, <1>2, <1>6, FS_CountingElements

\* In a list both links of a node lead to its neighbours.
LEMMA LinksAgree ==
  ASSUME NEW m, NEW l \in AllLists, NEW n, NEW s, IsList(m, l, n, s), NEW y \in RingIn(m, l)
  PROVE  /\ m.pxNext[y] \in RingIn(m, l) /\ m.pxPrevious[m.pxNext[y]] = y
         /\ m.pxPrevious[y] \in RingIn(m, l) /\ m.pxNext[m.pxPrevious[y]] = y
<1>1. PICK next, prev : next = m.pxNext /\ prev = m.pxPrevious
  OBVIOUS
<1>2. RingIn(m, l) = {s[k] : k \in 0 .. n} /\ Chain(next, prev, l, n, s) /\ n \in Nat
  BY <1>1, RingIsOrder DEF IsList
<1>3. PICK k \in 0 .. n : y = s[k]
  BY <1>2
<1>4. next[y] \in RingIn(m, l) /\ prev[next[y]] = y
  <2>1. /\ next[s[k]] = After(n, s, k) /\ prev[After(n, s, k)] = s[k]
        /\ After(n, s, k) \in {s[j] : j \in 0 .. n}
    BY <1>2, NextInChain
  <2> QED
    BY <1>2, <1>3, <2>1
<1>5. prev[y] \in RingIn(m, l) /\ next[prev[y]] = y
  <2>1. CASE k = 0
    <3>1. prev[l] = s[n] /\ next[s[n]] = l /\ s[0] = l /\ n \in 0 .. n
      BY <1>2 DEF Chain
    <3> QED
      BY <1>2, <1>3, <2>1, <3>1
  <2>2. CASE k # 0
    <3>1. k - 1 \in 0 .. n - 1 /\ k - 1 \in 0 .. n /\ (k - 1) + 1 = k
      BY <1>2, <2>2
    <3>2. next[s[k - 1]] = s[(k - 1) + 1] /\ prev[s[(k - 1) + 1]] = s[k - 1]
      BY <1>2, <3>1 DEF Chain
    <3> QED
      BY <1>2, <1>3, <3>1, <3>2
  <2> QED
    BY <2>1, <2>2
<1> QED
  BY <1>1, <1>4, <1>5

\* Every field of the lists and of the items has its type (list.h).
THEOREM ListsTypeCorrect == ListsSpec => []LTypeOK
<1>1. LInv => LTypeOK
  BY DEF LInv, MemOK, CurrentOK, LTypeOK
<1> QED
  BY <1>1, ListsInvariance, PTL

\* Whatever is done to a list, both links of each node agree and lead from its
\* end marker through each of its items, once, and back; its index never points
\* outside and its count is right (vListInsert, vListInsertEnd, uxListRemove).
THEOREM RingsCorrect == ListsSpec => []ListsAreRings
<1>1. LInv => ListsAreRings
  <2> SUFFICES ASSUME LInv, NEW l \in AllLists
               PROVE  /\ \A y \in Ring(l) :
                           /\ mem.pxNext[y] \in Ring(l) /\ mem.pxPrevious[mem.pxNext[y]] = y
                           /\ mem.pxPrevious[y] \in Ring(l)
                           /\ mem.pxNext[mem.pxPrevious[y]] = y
                      /\ mem.pxIndex[l] \in Ring(l)
                      /\ mem.uxNumberOfItems[l] = Cardinality(Members(l))
                      /\ {From(mem, l, l)[k] : k \in 1 .. mem.uxNumberOfItems[l]} = Members(l)
                      /\ mem.pxNext[From(mem, l, l)[mem.uxNumberOfItems[l]]] = l
    BY DEF ListsAreRings, LinksMatch, RingIsWhole
  <2>1. PICK m : m = mem
    OBVIOUS
  <2>2. PICK n, s : IsList(m, l, n, s)
    BY <2>1 DEF LInv, MemOK, ListOK
  <2>3. Ring(l) = RingIn(m, l) /\ Members(l) = {x \in Items : m.pxContainer[x] = l}
    BY <2>1 DEF Ring, Members, RingIn
  <2>4. \A y \in Ring(l) :
           /\ m.pxNext[y] \in Ring(l) /\ m.pxPrevious[m.pxNext[y]] = y
           /\ m.pxPrevious[y] \in Ring(l) /\ m.pxNext[m.pxPrevious[y]] = y
    BY <2>2, <2>3, LinksAgree
  <2>5. m.pxIndex[l] \in Ring(l)
    BY <2>1, <2>3 DEF LInv, MemOK
  <2>6. m.uxNumberOfItems[l] = n /\ Cardinality(Members(l)) = n
    BY <2>2, <2>3, CountOfList DEF IsList
  <2>7. From(m, l, l) = s
    BY <2>2, FromIsOrder
  <2>8. {s[k] : k \in 1 .. n} = Members(l)
    <3>1. /\ \A k \in 1 .. n : s[k] \in Items
          /\ \A y \in Items : m.pxContainer[y] = l <=> \E k \in 1 .. n : s[k] = y
      BY <2>2 DEF IsList, Chain, Holds
    <3> QED
      BY <2>3, <3>1
  <2>9. m.pxNext[s[n]] = l
    BY <2>2 DEF IsList, Chain
  <2> QED
    BY <2>1, <2>4, <2>5, <2>6, <2>7, <2>8, <2>9
<1> QED
  BY <1>1, ListsInvariance, PTL

\* The delayed list ascends, so that the tick, which looks at its head only,
\* misses no task that is due (vListInsert, xTaskIncrementTick).
THEOREM DelayedListCorrect == ListsSpec => []DelayedListAscends
<1>1. LInv => DelayedListAscends
  <2> SUFFICES ASSUME LInv PROVE DelayedListAscends
    OBVIOUS
  <2>1. PICK m : m = mem
    OBVIOUS
  <2>2. PICK n, s : IsList(m, DelayedList, n, s) /\ Sorted(m.xItemValue, n, s)
    BY <2>1, NodeFacts DEF LInv, MemOK, ListOK
  <2>3. From(m, DelayedList, DelayedList) = s /\ m.uxNumberOfItems[DelayedList] = n
    BY <2>2, FromIsOrder DEF IsList
  <2> QED
    BY <2>1, <2>2, <2>3 DEF DelayedListAscends, Sorted
<1> QED
  BY <1>1, ListsInvariance, PTL
==============================================================================
