-------------------------- MODULE ContainerLemmas ---------------------------
(***************************************************************************)
(* What the operators of the containers come to, for every size.           *)
(*                                                                         *)
(* Linked lists: what Push, Pop and a write to a node outside do to a list *)
(* of any finite set of nodes.  A list that ends is a chain, from its end  *)
(* to its top; Push prolongs the chain and Pop shortens it, without a      *)
(* shift of its indexes.  Walking along a chain needs induction.           *)
(*                                                                         *)
(* Ring buffers: the two-piece computations of CRingBuffer.  The size of   *)
(* an operation is what fits, the index after it is the index before it    *)
(* plus that size around the end of the array, and the bytes copied are    *)
(* the ones behind the index, in order.                                    *)
(***************************************************************************)
EXTENDS LinkedList, CRingBuffer, FiniteSetTheorems, NaturalsInduction,
        WellFoundedInduction, TLAPS

(* induction, for a set of numbers *)
LEMMA SetInduction ==
    ASSUME NEW T, 0 \in T, \A n \in Nat : n \in T => n + 1 \in T
    PROVE  Nat \subseteq T
<1> SUFFICES ASSUME ~(Nat \subseteq T) PROVE FALSE
  OBVIOUS
<1> DEFINE U == Nat \ T
<1>1. U \subseteq Nat /\ U # {}
  OBVIOUS
<1>2. IsWellFoundedOn(OpToRel(<, Nat), Nat)
  BY NatLessThanWellFounded
<1> HIDE DEF U
<1>3. PICK m \in U : \A y \in U : ~(<<y, m>> \in OpToRel(<, Nat))
  BY <1>1, <1>2, WFMin, Zenon
<1>4. \A y \in U : ~(y < m)
  BY <1>1, <1>3 DEF OpToRel
<1>5. m \in Nat /\ m # 0 /\ m - 1 \in Nat
  <2>1. m \in Nat /\ m \notin T
    BY <1>3 DEF U
  <2> QED
    BY <2>1
<1>6. m - 1 \in T
  BY <1>4, <1>5 DEF U
<1>7. (m - 1) + 1 \in T
  BY <1>5, <1>6
<1>8. (m - 1) + 1 = m
  BY <1>5
<1>9. m \notin T
  BY <1>3 DEF U
<1> QED
  BY <1>7, <1>8, <1>9

(* the nodes of a chain *)
Members(L, n) == {L[i] : i \in 1 .. n}

(* the walk along a chain *)
LEMMA WalkOfChain ==
    ASSUME NEW nodes, IsFiniteSet(nodes), NEW end, end \notin nodes, NEW f, NEW b,
           NEW n \in 0 .. Cardinality(nodes), NEW L, IsChain(L, n, b, f, nodes, end)
    PROVE  Walk(b, f, nodes, end) =
             [i \in 0 .. Cardinality(nodes) |-> IF i <= n THEN L[n - i] ELSE end]
<1> DEFINE N == Cardinality(nodes)
           w[i \in 0 .. N] == IF i = 0 THEN b
                              ELSE IF w[i - 1] \in nodes THEN f[w[i - 1]] ELSE end
           v == [i \in 0 .. N |-> IF i <= n THEN L[n - i] ELSE end]
<1>1. N \in Nat /\ n \in 0 .. N
  BY FS_CardinalityType
<1>2. Walk(b, f, nodes, end) = w
  BY DEF Walk
<1>3. /\ L[0] = end /\ L[n] = b
      /\ \A i \in 1 .. n : L[i] \in nodes /\ f[L[i]] = L[i - 1]
  BY DEF IsChain
<1> HIDE DEF N
<1>4. \A i \in 0 .. N : v[i] = IF i <= n THEN L[n - i] ELSE end
  OBVIOUS
<1>5. ASSUME NEW i \in 0 .. N
      PROVE  v[i] = IF i = 0 THEN b
                    ELSE IF v[i - 1] \in nodes THEN f[v[i - 1]] ELSE end
  <2> HIDE DEF v
  <2>1. CASE i = 0
    <3>1. v[0] = L[n - 0] /\ n - 0 = n
      BY <1>1, <1>4
    <3> QED
      BY <1>3, <2>1, <3>1
  <2>2. CASE i # 0 /\ i <= n
    <3>1. i - 1 \in 0 .. N /\ i - 1 <= n /\ n - (i - 1) \in 1 .. n
          /\ n - (i - 1) - 1 = n - i
      BY <1>1, <1>5, <2>2
    <3>2. v[i - 1] = L[n - (i - 1)] /\ v[i] = L[n - i]
      BY <1>4, <1>5, <2>2, <3>1
    <3>3. L[n - (i - 1)] \in nodes /\ f[L[n - (i - 1)]] = L[n - i]
      BY <1>3, <3>1
    <3> QED
      BY <2>2, <3>2, <3>3
  <2>3. CASE i # 0 /\ ~(i <= n)
    <3>1. i - 1 \in 0 .. N /\ (i - 1 <= n => i - 1 = n)
      BY <1>1, <1>5, <2>3
    <3>2. v[i - 1] = end
      <4>1. CASE i - 1 <= n
        <5>1. v[i - 1] = L[n - n] /\ n - n = 0
          BY <1>1, <1>4, <3>1, <4>1
        <5> QED
          BY <1>3, <5>1
      <4>2. CASE ~(i - 1 <= n)
        BY <1>4, <3>1, <4>2
      <4> QED
        BY <4>1, <4>2
    <3>3. v[i] = end
      BY <1>4, <1>5, <2>3
    <3> QED
      BY <2>3, <3>2, <3>3
  <2> QED
    BY <2>1, <2>2, <2>3
<1>6. v = [i \in 0 .. N |-> IF i = 0 THEN b
                            ELSE IF v[i - 1] \in nodes THEN f[v[i - 1]] ELSE end]
  BY <1>5
<1>7. w = [i \in 0 .. N |-> IF i = 0 THEN b
                            ELSE IF w[i - 1] \in nodes THEN f[w[i - 1]] ELSE end]
  <2> HIDE DEF v
  <2> QED
    BY <1>6 DEF w
<1> HIDE DEF w, v
<1>8. ASSUME NEW i \in 0 .. N
      PROVE  w[i] = IF i = 0 THEN b
                    ELSE IF w[i - 1] \in nodes THEN f[w[i - 1]] ELSE end
  BY <1>7, <1>8
<1> DEFINE T == {i \in Nat : i <= N => w[i] = v[i]}
<1>9. 0 \in T
  BY <1>1, <1>5, <1>8
<1>10. ASSUME NEW i \in Nat, i \in T
       PROVE  i + 1 \in T
  <2>1. CASE i + 1 <= N
    <3>1. i + 1 \in 0 .. N /\ i + 1 # 0 /\ (i + 1) - 1 = i /\ w[i] = v[i]
      BY <1>1, <1>10, <2>1
    <3>2. w[i + 1] = v[i + 1]
      BY <1>5, <1>8, <3>1
    <3> QED
      BY <3>2, <1>10
  <2> QED
    BY <2>1, <1>10
<1> HIDE DEF T
<1>11. Nat \subseteq T
  BY <1>9, <1>10, SetInduction
<1>12. \A i \in 0 .. N : w[i] = v[i]
  BY <1>1, <1>11 DEF T
<1>13. w = v
  BY <1>6, <1>7, <1>12
<1> QED
  BY <1>2, <1>13 DEF v, N

(* a chain has no more nodes than there are *)
LEMMA ChainShort ==
    ASSUME NEW nodes, IsFiniteSet(nodes), NEW end, NEW f, NEW b,
           NEW n \in Nat, NEW L, IsChain(L, n, b, f, nodes, end)
    PROVE  n <= Cardinality(nodes) /\ Cardinality(Members(L, n)) = n
<1> DEFINE h == [i \in 1 .. n |-> L[i]]
<1>1. h \in Injection(1 .. n, nodes)
  BY DEF IsChain, Injection, IsInjective
<1>2. h \in Bijection(1 .. n, Members(L, n))
  <2>1. h \in Surjection(1 .. n, Members(L, n))
    BY DEF Surjection, Members
  <2>2. h \in Injection(1 .. n, Members(L, n))
    BY <1>1, <2>1 DEF Injection, Surjection
  <2> QED
    BY <2>1, <2>2 DEF Bijection
<1>3. IsFiniteSet(1 .. n) /\ Cardinality(1 .. n) = n
  BY FS_Interval
<1>4. n <= Cardinality(nodes)
  BY <1>1, <1>3, FS_Injection
<1>5. Cardinality(Members(L, n)) = n
  <2>1. ExistsBijection(1 .. n, Members(L, n))
    BY <1>2 DEF ExistsBijection
  <2> QED
    BY <1>3, <2>1, FS_Bijection
<1> QED
  BY <1>4, <1>5

(* what a walk along a chain meets *)
LEMMA ListOfChain ==
    ASSUME NEW nodes, IsFiniteSet(nodes), NEW end, end \notin nodes, NEW f, NEW b,
           NEW n \in 0 .. Cardinality(nodes), NEW L, IsChain(L, n, b, f, nodes, end)
    PROVE  /\ Listed(Walk(b, f, nodes, end), nodes) = Members(L, n)
           /\ Length(Walk(b, f, nodes, end), nodes) = n
<1> DEFINE N == Cardinality(nodes)
           w == Walk(b, f, nodes, end)
<1>1. N \in Nat /\ n \in 0 .. N
  BY FS_CardinalityType
<1>2. w = [i \in 0 .. N |-> IF i <= n THEN L[n - i] ELSE end]
  BY WalkOfChain
<1>3. L[0] = end /\ \A i \in 1 .. n : L[i] \in nodes
  BY DEF IsChain
<1> HIDE DEF w, N
<1>4. DOMAIN w = 0 .. N
  BY <1>2
<1>5. ASSUME NEW i \in 0 .. N
      PROVE  w[i] \in nodes <=> i < n
  <2>1. CASE i < n
    <3>1. n - i \in 1 .. n /\ w[i] = L[n - i]
      BY <1>1, <1>2, <1>5, <2>1
    <3> QED
      BY <1>3, <2>1, <3>1
  <2>2. CASE ~(i < n)
    <3>1. CASE i = n
      <4>1. w[i] = L[n - n] /\ n - n = 0
        BY <1>1, <1>2, <1>5, <3>1
      <4> QED
        BY <1>3, <2>2, <4>1
    <3>2. CASE i # n
      <4>1. w[i] = end
        BY <1>1, <1>2, <1>5, <2>2, <3>2
      <4> QED
        BY <2>2, <4>1
    <3> QED
      BY <3>1, <3>2
  <2> QED
    BY <2>1, <2>2
<1>6. ASSUME NEW x
      PROVE  x \in Listed(w, nodes) <=> x \in Members(L, n)
  <2>1. ASSUME x \in Listed(w, nodes)
        PROVE  x \in Members(L, n)
    <3>1. PICK i \in 0 .. N : x = w[i] /\ w[i] \in nodes
      BY <1>4, <2>1 DEF Listed
    <3>2. i < n /\ n - i \in 1 .. n
      BY <1>1, <1>5, <3>1
    <3>3. w[i] = L[n - i]
      BY <1>1, <1>2, <3>2
    <3> QED
      BY <3>1, <3>2, <3>3 DEF Members
  <2>2. ASSUME x \in Members(L, n)
        PROVE  x \in Listed(w, nodes)
    <3>1. PICK j \in 1 .. n : x = L[j]
      BY <2>2 DEF Members
    <3>2. n - j \in 0 .. N /\ n - j <= n /\ n - (n - j) = j
      BY <1>1
    <3>3. w[n - j] = L[j]
      BY <1>2, <3>2
    <3> QED
      BY <1>3, <1>4, <3>1, <3>2, <3>3 DEF Listed
  <2> QED
    BY <2>1, <2>2
<1>7. Listed(w, nodes) = Members(L, n)
  BY <1>6
<1>8. {i \in DOMAIN w : w[i] \in nodes} = 0 .. n - 1
  BY <1>1, <1>4, <1>5
<1>9. Length(w, nodes) = n
  <2>1. Cardinality(0 .. n - 1) = n
    BY <1>1, FS_Interval
  <2> QED
    BY <1>8, <2>1 DEF Length
<1> QED
  BY <1>7, <1>9 DEF w

-----------------------------------------------------------------------------
(* Every node of a list that ends is met once. *)
LEMMA ListCounted ==
    ASSUME NEW nodes, IsFiniteSet(nodes), NEW end, end \notin nodes, NEW f, NEW b,
           HasChain(b, f, nodes, end)
    PROVE  /\ Length(Walk(b, f, nodes, end), nodes) =
                 Cardinality(Listed(Walk(b, f, nodes, end), nodes))
           /\ Listed(Walk(b, f, nodes, end), nodes) \subseteq nodes
           /\ b \in nodes => b \in Listed(Walk(b, f, nodes, end), nodes)
           /\ b \notin nodes => b = end /\ Listed(Walk(b, f, nodes, end), nodes) = {}
<1>1. PICK n \in 0 .. Cardinality(nodes) : \E L \in [0 .. n -> nodes \cup {end}] :
         IsChain(L, n, b, f, nodes, end)
  BY DEF HasChain
<1>2. PICK L \in [0 .. n -> nodes \cup {end}] : IsChain(L, n, b, f, nodes, end)
  BY <1>1
<1>3. n \in Nat
  BY FS_CardinalityType
<1>4. /\ Listed(Walk(b, f, nodes, end), nodes) = Members(L, n)
      /\ Length(Walk(b, f, nodes, end), nodes) = n
  BY <1>2, ListOfChain
<1>5. Cardinality(Members(L, n)) = n
  BY <1>2, <1>3, ChainShort
<1>6. L[0] = end /\ L[n] = b /\ \A i \in 1 .. n : L[i] \in nodes
  BY <1>2 DEF IsChain
<1>7. b \in nodes => b \in Members(L, n)
  <2>1. b \in nodes => n # 0
    BY <1>6
  <2> QED
    BY <1>3, <1>6, <2>1 DEF Members
<1>8. b \notin nodes => n = 0
  BY <1>3, <1>6
<1>9. n = 0 => b = end /\ Members(L, n) = {}
  BY <1>6 DEF Members
<1> QED
  BY <1>4, <1>5, <1>7, <1>8, <1>9 DEF Listed

(* The list of the end has no nodes. *)
LEMMA EmptyList ==
    ASSUME NEW nodes, IsFiniteSet(nodes), NEW end, end \notin nodes, NEW f
    PROVE  HasChain(end, f, nodes, end)
<1> DEFINE L == [i \in 0 .. 0 |-> end]
<1>1. 0 \in 0 .. Cardinality(nodes)
  BY FS_CardinalityType
<1>2. L \in [0 .. 0 -> nodes \cup {end}]
  OBVIOUS
<1>3. IsChain(L, 0, end, f, nodes, end)
  BY DEF IsChain
<1> QED
  BY <1>1, <1>2, <1>3 DEF HasChain

(* the chain L of n nodes with x behind its last *)
Prolonged(L, n, x) == [i \in 0 .. n + 1 |-> IF i = n + 1 THEN x ELSE L[i]]

LEMMA PushedChain ==
    ASSUME NEW nodes, NEW end, NEW f, NEW b, NEW n \in Nat,
           NEW L \in [0 .. n -> nodes \cup {end}], IsChain(L, n, b, f, nodes, end),
           NEW x \in nodes, x \notin Members(L, n), f[x] = b
    PROVE  /\ Prolonged(L, n, x) \in [0 .. n + 1 -> nodes \cup {end}]
           /\ Prolonged(L, n, x)[n + 1] = x
           /\ \A i \in 0 .. n : Prolonged(L, n, x)[i] = L[i]
           /\ IsChain(Prolonged(L, n, x), n + 1, x, f, nodes, end)
<1> DEFINE M == Prolonged(L, n, x)
<1>1. n \in Nat /\ n + 1 \in Nat
  OBVIOUS
<1>2. /\ L[0] = end /\ L[n] = b
      /\ \A i \in 1 .. n : L[i] \in nodes /\ f[L[i]] = L[i - 1]
      /\ \A i, j \in 1 .. n : L[i] = L[j] => i = j
  BY DEF IsChain
<1>3. M \in [0 .. n + 1 -> nodes \cup {end}]
  BY <1>1 DEF Prolonged
<1>4. M[n + 1] = x /\ \A i \in 0 .. n : M[i] = L[i]
  BY <1>1 DEF Prolonged
<1> HIDE DEF M
<1>5. M[0] = end
  BY <1>1, <1>2, <1>4
<1>6. ASSUME NEW i \in 1 .. n + 1
      PROVE  M[i] \in nodes /\ f[M[i]] = M[i - 1]
  <2>1. CASE i = n + 1
    <3>1. i - 1 = n /\ n \in 0 .. n
      BY <1>1, <2>1
    <3> QED
      BY <1>2, <1>4, <2>1, <3>1
  <2>2. CASE i # n + 1
    <3>1. i \in 1 .. n /\ i \in 0 .. n /\ i - 1 \in 0 .. n
      BY <1>1, <1>6, <2>2
    <3> QED
      BY <1>2, <1>4, <3>1
  <2> QED
    BY <2>1, <2>2
<1>7. \A i \in 1 .. n : M[i] # x
  BY <1>1, <1>4 DEF Members
<1>8. ASSUME NEW i \in 1 .. n + 1, NEW j \in 1 .. n + 1, M[i] = M[j]
       PROVE  i = j
  <2>1. (i = n + 1 \/ i \in 1 .. n) /\ (j = n + 1 \/ j \in 1 .. n)
    BY <1>1, <1>8
  <2>2. CASE i \in 1 .. n /\ j \in 1 .. n
    <3>1. i \in 0 .. n /\ j \in 0 .. n
      BY <2>2
    <3>2. L[i] = L[j]
      BY <1>4, <1>8, <3>1
    <3> QED
      BY <1>2, <2>2, <3>2
  <2> QED
    BY <1>4, <1>7, <1>8, <2>1, <2>2
<1>9. IsChain(M, n + 1, x, f, nodes, end)
  BY <1>4, <1>5, <1>6, <1>8 DEF IsChain
<1> QED
  BY <1>3, <1>4, <1>9 DEF M

(* A node outside the list that points to its top is the top of a longer     *)
(* one.                                                                      *)
LEMMA PushedList ==
    ASSUME NEW nodes, IsFiniteSet(nodes), NEW end, end \notin nodes, NEW f, NEW b,
           HasChain(b, f, nodes, end),
           NEW x \in nodes, x \notin Listed(Walk(b, f, nodes, end), nodes), f[x] = b
    PROVE  /\ HasChain(x, f, nodes, end)
           /\ Listed(Walk(x, f, nodes, end), nodes) =
                 Listed(Walk(b, f, nodes, end), nodes) \cup {x}
<1>1. PICK n \in 0 .. Cardinality(nodes) : \E L \in [0 .. n -> nodes \cup {end}] :
         IsChain(L, n, b, f, nodes, end)
  BY DEF HasChain
<1>2. PICK L \in [0 .. n -> nodes \cup {end}] : IsChain(L, n, b, f, nodes, end)
  BY <1>1
<1>3. n \in Nat /\ n + 1 \in Nat
  BY FS_CardinalityType
<1> DEFINE M == Prolonged(L, n, x)
<1>4. Listed(Walk(b, f, nodes, end), nodes) = Members(L, n)
  BY <1>2, ListOfChain
<1>5. x \notin Members(L, n)
  BY <1>4
<1>6. M \in [0 .. n + 1 -> nodes \cup {end}]
  BY <1>2, <1>3, <1>5, PushedChain
<1>7. M[n + 1] = x /\ \A i \in 0 .. n : M[i] = L[i]
  BY <1>2, <1>3, <1>5, PushedChain
<1>8. IsChain(M, n + 1, x, f, nodes, end)
  BY <1>2, <1>3, <1>5, PushedChain
<1> HIDE DEF M
<1>9. n + 1 \in 0 .. Cardinality(nodes)
  BY <1>3, <1>8, ChainShort, FS_CardinalityType
<1>10. HasChain(x, f, nodes, end)
  BY <1>6, <1>8, <1>9 DEF HasChain
<1>11. Listed(Walk(x, f, nodes, end), nodes) = Members(M, n + 1)
  BY <1>8, <1>9, ListOfChain
<1>12. Members(M, n + 1) = Members(L, n) \cup {x}
  <2>1. ASSUME NEW y \in Members(M, n + 1)
        PROVE  y \in Members(L, n) \cup {x}
    <3>1. PICK i \in 1 .. n + 1 : y = M[i]
      BY <2>1 DEF Members
    <3>2. CASE i = n + 1
      BY <1>7, <3>1, <3>2
    <3>3. CASE i # n + 1
      <4>1. i \in 1 .. n /\ i \in 0 .. n
        BY <1>3, <3>1, <3>3
      <4> QED
        BY <1>7, <3>1, <4>1 DEF Members
    <3> QED
      BY <3>2, <3>3
  <2>2. ASSUME NEW y \in Members(L, n)
        PROVE  y \in Members(M, n + 1)
    <3>1. PICK i \in 1 .. n : y = L[i]
      BY <2>2 DEF Members
    <3>2. i \in 1 .. n + 1 /\ i \in 0 .. n
      BY <1>3
    <3> QED
      BY <1>7, <3>1, <3>2 DEF Members
  <2>3. x \in Members(M, n + 1)
    <3>1. n + 1 \in 1 .. n + 1
      BY <1>3
    <3> QED
      BY <1>7, <3>1 DEF Members
  <2> QED
    BY <2>1, <2>2, <2>3
<1> QED
  BY <1>4, <1>10, <1>11, <1>12

(* ... and a walk meets the new top first, then what it met before. *)
LEMMA PushedWalk ==
    ASSUME NEW nodes, IsFiniteSet(nodes), NEW end, end \notin nodes, NEW f, NEW b,
           HasChain(b, f, nodes, end),
           NEW x \in nodes, x \notin Listed(Walk(b, f, nodes, end), nodes), f[x] = b
    PROVE  /\ Length(Walk(b, f, nodes, end), nodes) \in Nat
           /\ Length(Walk(x, f, nodes, end), nodes) = Length(Walk(b, f, nodes, end), nodes) + 1
           /\ Walk(x, f, nodes, end)[0] = x
           /\ \A i \in 1 .. Length(Walk(b, f, nodes, end), nodes) :
                 Walk(x, f, nodes, end)[i] = Walk(b, f, nodes, end)[i - 1]
<1>1. PICK n \in 0 .. Cardinality(nodes) : \E L \in [0 .. n -> nodes \cup {end}] :
         IsChain(L, n, b, f, nodes, end)
  BY DEF HasChain
<1>2. PICK L \in [0 .. n -> nodes \cup {end}] : IsChain(L, n, b, f, nodes, end)
  BY <1>1
<1>3. n \in Nat /\ n + 1 \in Nat /\ Cardinality(nodes) \in Nat /\ n <= Cardinality(nodes)
  BY FS_CardinalityType
<1> DEFINE M == Prolonged(L, n, x)
           N == Cardinality(nodes)
           v == Walk(b, f, nodes, end)
           w == Walk(x, f, nodes, end)
<1>4. /\ Listed(v, nodes) = Members(L, n)
      /\ Length(v, nodes) = n
  BY <1>2, ListOfChain
<1>5. x \notin Members(L, n)
  BY <1>4
<1>6. /\ M[n + 1] = x /\ \A i \in 0 .. n : M[i] = L[i]
      /\ IsChain(M, n + 1, x, f, nodes, end)
  <2>1. M[n + 1] = x /\ \A i \in 0 .. n : M[i] = L[i]
    BY <1>2, <1>3, <1>5, PushedChain
  <2>2. IsChain(M, n + 1, x, f, nodes, end)
    BY <1>2, <1>3, <1>5, PushedChain
  <2> QED
    BY <2>1, <2>2
<1> HIDE DEF M
<1>7. n + 1 \in 0 .. N
  BY <1>3, <1>6, ChainShort
<1>8. Length(w, nodes) = n + 1
  BY <1>6, <1>7, ListOfChain
<1>9. v = [i \in 0 .. N |-> IF i <= n THEN L[n - i] ELSE end]
  BY <1>2, WalkOfChain
<1>10. w = [i \in 0 .. N |-> IF i <= n + 1 THEN M[(n + 1) - i] ELSE end]
  BY <1>6, <1>7, WalkOfChain
<1> HIDE DEF v, w, N
<1>11. w[0] = x
  <2>1. 0 \in 0 .. N /\ 0 <= n + 1 /\ (n + 1) - 0 = n + 1
    BY <1>3 DEF N
  <2> QED
    BY <1>6, <1>10, <2>1
<1>12. ASSUME NEW i \in 1 .. n
       PROVE  w[i] = v[i - 1]
  <2>1. /\ i \in 0 .. N /\ i - 1 \in 0 .. N /\ i <= n + 1 /\ i - 1 <= n
        /\ n - (i - 1) = (n + 1) - i /\ (n + 1) - i \in 0 .. n
    <3>1. N \in Nat /\ n + 1 <= N
      BY <1>3, <1>7 DEF N
    <3> QED
      BY <1>3, <1>12, <3>1
  <2> QED
    BY <1>6, <1>9, <1>10, <2>1
<1> QED
  BY <1>3, <1>4, <1>8, <1>11, <1>12 DEF v, w

(* The first steps of a walk, as many as the list has nodes, meet its nodes. *)
LEMMA WalkListed ==
    ASSUME NEW nodes, IsFiniteSet(nodes), NEW end, end \notin nodes, NEW f, NEW b,
           HasChain(b, f, nodes, end)
    PROVE  /\ Length(Walk(b, f, nodes, end), nodes) \in Nat
           /\ \A i \in 1 .. Length(Walk(b, f, nodes, end), nodes) :
                 Walk(b, f, nodes, end)[i - 1] \in Listed(Walk(b, f, nodes, end), nodes)
<1>1. PICK n \in 0 .. Cardinality(nodes) : \E L \in [0 .. n -> nodes \cup {end}] :
         IsChain(L, n, b, f, nodes, end)
  BY DEF HasChain
<1>2. PICK L \in [0 .. n -> nodes \cup {end}] : IsChain(L, n, b, f, nodes, end)
  BY <1>1
<1> DEFINE N == Cardinality(nodes)
           w == Walk(b, f, nodes, end)
<1>3. N \in Nat /\ n \in Nat /\ n <= N
  BY FS_CardinalityType
<1>4. Listed(w, nodes) = Members(L, n) /\ Length(w, nodes) = n
  BY <1>2, ListOfChain
<1>5. w = [i \in 0 .. N |-> IF i <= n THEN L[n - i] ELSE end]
  BY <1>2, WalkOfChain
<1> HIDE DEF w, N
<1>6. ASSUME NEW i \in 1 .. n
      PROVE  w[i - 1] \in Members(L, n)
  <2>1. i - 1 \in 0 .. N /\ i - 1 <= n /\ n - (i - 1) \in 1 .. n
    BY <1>3, <1>6
  <2>2. w[i - 1] = L[n - (i - 1)]
    BY <1>5, <2>1
  <2> QED
    BY <2>1, <2>2 DEF Members
<1> QED
  BY <1>3, <1>4, <1>6 DEF w

(* Without its top, the list is that of the node behind it. *)
LEMMA PoppedList ==
    ASSUME NEW nodes, IsFiniteSet(nodes), NEW end, end \notin nodes, NEW f,
           NEW b \in nodes, HasChain(b, f, nodes, end)
    PROVE  /\ HasChain(f[b], f, nodes, end)
           /\ Listed(Walk(f[b], f, nodes, end), nodes) =
                 Listed(Walk(b, f, nodes, end), nodes) \ {b}
<1>1. PICK n \in 0 .. Cardinality(nodes) : \E L \in [0 .. n -> nodes \cup {end}] :
         IsChain(L, n, b, f, nodes, end)
  BY DEF HasChain
<1>2. PICK L \in [0 .. n -> nodes \cup {end}] : IsChain(L, n, b, f, nodes, end)
  BY <1>1
<1>3. n \in Nat /\ Cardinality(nodes) \in Nat
  BY FS_CardinalityType
<1>4. Listed(Walk(b, f, nodes, end), nodes) = Members(L, n)
  BY <1>2, ListOfChain
<1>5. /\ L[0] = end /\ L[n] = b
      /\ \A i \in 1 .. n : L[i] \in nodes /\ f[L[i]] = L[i - 1]
      /\ \A i, j \in 1 .. n : L[i] = L[j] => i = j
  BY <1>2 DEF IsChain
<1>6. n # 0
  BY <1>5
<1>7. n \in 1 .. n /\ n - 1 \in 0 .. Cardinality(nodes) /\ n - 1 \in Nat
  BY <1>1, <1>3, <1>6
<1>8. f[b] = L[n - 1]
  BY <1>5, <1>7
<1> DEFINE M == [i \in 0 .. n - 1 |-> L[i]]
<1>9. M \in [0 .. n - 1 -> nodes \cup {end}]
  BY <1>2, <1>7
<1>10. \A i \in 0 .. n - 1 : M[i] = L[i]
  OBVIOUS
<1> HIDE DEF M
<1>11. IsChain(M, n - 1, f[b], f, nodes, end)
  <2>1. M[0] = end /\ M[n - 1] = f[b]
    BY <1>5, <1>7, <1>8, <1>10
  <2>2. ASSUME NEW i \in 1 .. n - 1
        PROVE  M[i] \in nodes /\ f[M[i]] = M[i - 1]
    <3>1. i \in 1 .. n /\ i \in 0 .. n - 1 /\ i - 1 \in 0 .. n - 1
      BY <1>7, <2>2
    <3> QED
      BY <1>5, <1>10, <3>1
  <2>3. ASSUME NEW i \in 1 .. n - 1, NEW j \in 1 .. n - 1, M[i] = M[j]
        PROVE  i = j
    <3>1. i \in 1 .. n /\ i \in 0 .. n - 1 /\ j \in 1 .. n /\ j \in 0 .. n - 1
      BY <1>7, <2>3
    <3>2. L[i] = L[j]
      BY <1>10, <2>3, <3>1
    <3> QED
      BY <1>5, <3>1, <3>2
  <2> QED
    BY <2>1, <2>2, <2>3 DEF IsChain
<1>12. HasChain(f[b], f, nodes, end)
  BY <1>7, <1>9, <1>11 DEF HasChain
<1>13. Listed(Walk(f[b], f, nodes, end), nodes) = Members(M, n - 1)
  BY <1>7, <1>11, ListOfChain
<1>14. Members(M, n - 1) = Members(L, n) \ {b}
  <2>1. ASSUME NEW y \in Members(M, n - 1)
        PROVE  y \in Members(L, n) \ {b}
    <3>1. PICK i \in 1 .. n - 1 : y = M[i]
      BY <2>1 DEF Members
    <3>2. i \in 1 .. n /\ i \in 0 .. n - 1 /\ i # n
      BY <1>7, <3>1
    <3>3. y = L[i] /\ L[i] # L[n]
      BY <1>5, <1>7, <1>10, <3>1, <3>2
    <3> QED
      BY <1>5, <3>2, <3>3 DEF Members
  <2>2. ASSUME NEW y \in Members(L, n), y # b
        PROVE  y \in Members(M, n - 1)
    <3>1. PICK i \in 1 .. n : y = L[i]
      BY <2>2 DEF Members
    <3>2. i # n
      BY <1>5, <2>2, <3>1
    <3>3. i \in 1 .. n - 1 /\ i \in 0 .. n - 1
      BY <1>7, <3>1, <3>2
    <3> QED
      BY <1>10, <3>1, <3>3 DEF Members
  <2> QED
    BY <2>1, <2>2
<1> QED
  BY <1>4, <1>12, <1>13, <1>14

(* A write to a node outside leaves the list as it is. *)
LEMMA SameList ==
    ASSUME NEW nodes, IsFiniteSet(nodes), NEW end, end \notin nodes, NEW f, NEW b,
           HasChain(b, f, nodes, end),
           NEW g, \A x \in Listed(Walk(b, f, nodes, end), nodes) : g[x] = f[x]
    PROVE  /\ HasChain(b, g, nodes, end)
           /\ Walk(b, g, nodes, end) = Walk(b, f, nodes, end)
<1>1. PICK n \in 0 .. Cardinality(nodes) : \E L \in [0 .. n -> nodes \cup {end}] :
         IsChain(L, n, b, f, nodes, end)
  BY DEF HasChain
<1>2. PICK L \in [0 .. n -> nodes \cup {end}] : IsChain(L, n, b, f, nodes, end)
  BY <1>1
<1>3. \A i \in 1 .. n : g[L[i]] = f[L[i]]
  <2>1. Listed(Walk(b, f, nodes, end), nodes) = Members(L, n)
    BY <1>2, ListOfChain
  <2> QED
    BY <2>1 DEF Members
<1>4. IsChain(L, n, b, g, nodes, end)
  BY <1>2, <1>3 DEF IsChain
<1>5. HasChain(b, g, nodes, end)
  BY <1>2, <1>4 DEF HasChain
<1>6. Walk(b, g, nodes, end) = Walk(b, f, nodes, end)
  <2>1. Walk(b, f, nodes, end) =
          [i \in 0 .. Cardinality(nodes) |-> IF i <= n THEN L[n - i] ELSE end]
    BY <1>2, WalkOfChain
  <2>2. Walk(b, g, nodes, end) =
          [i \in 0 .. Cardinality(nodes) |-> IF i <= n THEN L[n - i] ELSE end]
    BY <1>4, WalkOfChain
  <2> QED
    BY <2>1, <2>2
<1> QED
  BY <1>5, <1>6

-----------------------------------------------------------------------------
(* Behind a node of the list comes another one, which is not the first, or   *)
(* the end.                                                                  *)
LEMMA Successor ==
    ASSUME NEW nodes, IsFiniteSet(nodes), NEW end, end \notin nodes, NEW f, NEW b,
           HasChain(b, f, nodes, end), NEW x \in Listed(Walk(b, f, nodes, end), nodes)
    PROVE  /\ f[x] # end => f[x] \in Listed(Walk(b, f, nodes, end), nodes)
           /\ f[x] # b
           /\ b \in nodes
<1>1. PICK n \in 0 .. Cardinality(nodes) : \E L \in [0 .. n -> nodes \cup {end}] :
         IsChain(L, n, b, f, nodes, end)
  BY DEF HasChain
<1>2. PICK L \in [0 .. n -> nodes \cup {end}] : IsChain(L, n, b, f, nodes, end)
  BY <1>1
<1>3. n \in Nat
  BY FS_CardinalityType
<1>4. Listed(Walk(b, f, nodes, end), nodes) = Members(L, n)
  BY <1>2, ListOfChain
<1>5. PICK j \in 1 .. n : x = L[j]
  BY <1>4 DEF Members
<1>6. /\ L[0] = end /\ L[n] = b
      /\ \A i \in 1 .. n : L[i] \in nodes /\ f[L[i]] = L[i - 1]
      /\ \A i, k \in 1 .. n : L[i] = L[k] => i = k
  BY <1>2 DEF IsChain
<1>7. f[x] = L[j - 1] /\ b \in nodes /\ n \in 1 .. n
  BY <1>3, <1>5, <1>6
<1>8. CASE j = 1
  BY <1>6, <1>7, <1>8
<1>9. CASE j # 1
  <2>1. j - 1 \in 1 .. n /\ j - 1 # n
    BY <1>3, <1>5, <1>9
  <2>2. L[j - 1] \in Members(L, n) /\ L[j - 1] # L[n]
    BY <1>6, <1>7, <2>1 DEF Members
  <2> QED
    BY <1>4, <1>6, <1>7, <2>2
<1> QED
  BY <1>8, <1>9

(* Before a node of the list other than the first comes another one. *)
LEMMA Predecessor ==
    ASSUME NEW nodes, IsFiniteSet(nodes), NEW end, end \notin nodes, NEW f, NEW b,
           HasChain(b, f, nodes, end), NEW x \in Listed(Walk(b, f, nodes, end), nodes), x # b
    PROVE  \E y \in Listed(Walk(b, f, nodes, end), nodes) : f[y] = x
<1>1. PICK n \in 0 .. Cardinality(nodes) : \E L \in [0 .. n -> nodes \cup {end}] :
         IsChain(L, n, b, f, nodes, end)
  BY DEF HasChain
<1>2. PICK L \in [0 .. n -> nodes \cup {end}] : IsChain(L, n, b, f, nodes, end)
  BY <1>1
<1>3. n \in Nat
  BY FS_CardinalityType
<1>4. Listed(Walk(b, f, nodes, end), nodes) = Members(L, n)
  BY <1>2, ListOfChain
<1>5. PICK j \in 1 .. n : x = L[j]
  BY <1>4 DEF Members
<1>6. L[n] = b /\ \A i \in 1 .. n : f[L[i]] = L[i - 1]
  BY <1>2 DEF IsChain
<1>7. j + 1 \in 1 .. n /\ (j + 1) - 1 = j
  BY <1>3, <1>5, <1>6
<1>8. L[j + 1] \in Members(L, n) /\ f[L[j + 1]] = x
  BY <1>5, <1>6, <1>7 DEF Members
<1> QED
  BY <1>4, <1>8

(* A node with nothing behind it is the whole list. *)
LEMMA SingleNode ==
    ASSUME NEW nodes, IsFiniteSet(nodes), NEW end, end \notin nodes, NEW f,
           NEW b \in nodes, HasChain(b, f, nodes, end), f[b] = end
    PROVE  Length(Walk(b, f, nodes, end), nodes) = 1
<1> DEFINE S == Listed(Walk(b, f, nodes, end), nodes)
<1>1. /\ Length(Walk(b, f, nodes, end), nodes) = Cardinality(S)
      /\ b \in S
  BY ListCounted
<1>2. HasChain(end, f, nodes, end) /\ Listed(Walk(end, f, nodes, end), nodes) = S \ {b}
  BY PoppedList
<1>3. Listed(Walk(end, f, nodes, end), nodes) = {}
  BY <1>2, ListCounted
<1> HIDE DEF S
<1>4. S = {b}
  BY <1>1, <1>2, <1>3
<1> QED
  BY <1>1, <1>4, FS_Singleton

(* A chain with a node put behind its last one: y is the new last node. *)
Appended(L, n, y, end) ==
    [i \in 0 .. n + 1 |-> IF i = 0 THEN end ELSE IF i = 1 THEN y ELSE L[i - 1]]

LEMMA AppendedChain ==
    ASSUME NEW nodes, NEW end, end \notin nodes, NEW f, NEW b, NEW n \in Nat,
           NEW L \in [0 .. n -> nodes \cup {end}], IsChain(L, n, b, f, nodes, end),
           NEW x \in Members(L, n), f[x] = end,
           NEW y \in nodes, y \notin Members(L, n),
           NEW g, g[x] = y, g[y] = end, \A z \in Members(L, n) \ {x} : g[z] = f[z]
    PROVE  IsChain(Appended(L, n, y, end), n + 1, b, g, nodes, end)
<1> DEFINE M == Appended(L, n, y, end)
<1>1. /\ L[0] = end /\ L[n] = b
      /\ \A i \in 1 .. n : L[i] \in nodes /\ f[L[i]] = L[i - 1]
      /\ \A i, j \in 1 .. n : L[i] = L[j] => i = j
  BY DEF IsChain
<1>2. PICK k \in 1 .. n : x = L[k]
  BY DEF Members
<1>3. k = 1
  <2>1. L[k - 1] = end
    BY <1>1, <1>2
  <2>2. ASSUME k # 1
        PROVE  FALSE
    <3>1. k - 1 \in 1 .. n
      BY <1>2, <2>2
    <3> QED
      BY <1>1, <2>1, <3>1
  <2> QED
    BY <2>2
<1>4. n >= 1 /\ L[1] = x /\ n \in Nat /\ n + 1 \in Nat
  BY <1>2, <1>3
<1>6. M[0] = end /\ M[1] = y
  <2>1. 0 \in 0 .. n + 1 /\ 1 \in 0 .. n + 1
    BY <1>4
  <2> QED
    BY <2>1 DEF Appended
<1>7. ASSUME NEW i \in 1 .. n
      PROVE  M[i + 1] = L[i]
  <2>1. i + 1 \in 0 .. n + 1 /\ i + 1 # 0 /\ i + 1 # 1 /\ (i + 1) - 1 = i
    BY <1>4, <1>7
  <2> QED
    BY <2>1 DEF Appended
<1> HIDE DEF M
<1>8. ASSUME NEW i \in 2 .. n + 1
      PROVE  i - 1 \in 1 .. n /\ M[i] = L[i - 1]
  <2>1. i - 1 \in 1 .. n /\ (i - 1) + 1 = i
    BY <1>4, <1>8
  <2> QED
    BY <1>7, <2>1
<1>9. ASSUME NEW i \in 1 .. n + 1
      PROVE  M[i] \in nodes /\ g[M[i]] = M[i - 1]
  <2>1. CASE i = 1
    BY <1>6, <2>1
  <2>2. CASE i = 2
    <3>1. M[2] = L[1]
      <4>1. 2 \in 2 .. n + 1 /\ 2 - 1 = 1
        BY <1>4
      <4> QED
        BY <1>8, <4>1
    <3>2. 2 - 1 = 1 /\ x \in nodes
      BY <1>1, <1>2
    <3> QED
      BY <1>4, <1>6, <2>2, <3>1, <3>2
  <2>3. CASE i > 2
    <3>1. i \in 2 .. n + 1 /\ i - 1 \in 2 .. n + 1 /\ i - 1 # 1
      BY <1>4, <1>9, <2>3
    <3>2. /\ i - 1 \in 1 .. n /\ M[i] = L[i - 1]
          /\ (i - 1) - 1 \in 1 .. n /\ M[i - 1] = L[(i - 1) - 1]
      BY <1>8, <3>1
    <3>3. L[i - 1] \in nodes /\ f[L[i - 1]] = L[(i - 1) - 1]
      BY <1>1, <3>2
    <3>4. L[i - 1] \in Members(L, n) /\ L[i - 1] # x
      <4>1. 1 \in 1 .. n
        BY <1>4
      <4> QED
        BY <1>1, <1>4, <3>1, <3>2, <4>1 DEF Members
    <3> QED
      BY <3>2, <3>3, <3>4
  <2> QED
    BY <1>9, <2>1, <2>2, <2>3
<1>10. ASSUME NEW i \in 1 .. n + 1, i # 1
       PROVE  M[i] # M[1] /\ i \in 2 .. n + 1
  <2>1. i \in 2 .. n + 1
    BY <1>4, <1>10
  <2>2. M[i] \in Members(L, n)
    BY <1>8, <2>1 DEF Members
  <2> QED
    BY <1>6, <2>1, <2>2
<1>11. ASSUME NEW i \in 1 .. n + 1, NEW j \in 1 .. n + 1, M[i] = M[j]
       PROVE  i = j
  <2>1. CASE i = 1 \/ j = 1
    BY <1>10, <1>11, <2>1
  <2>2. CASE i # 1 /\ j # 1
    <3>1. /\ i - 1 \in 1 .. n /\ M[i] = L[i - 1]
          /\ j - 1 \in 1 .. n /\ M[j] = L[j - 1]
      BY <1>8, <1>10, <2>2
    <3>2. i - 1 = j - 1
      BY <1>1, <1>11, <3>1
    <3> QED
      BY <1>4, <1>11, <3>2
  <2> QED
    BY <2>1, <2>2
<1>12. M[n + 1] = b
  <2>1. n \in 1 .. n
    BY <1>4
  <2> QED
    BY <1>1, <1>7, <2>1
<1>13. IsChain(M, n + 1, b, g, nodes, end)
  BY <1>6, <1>9, <1>11, <1>12 DEF IsChain
<1> QED
  BY <1>13 DEF M

(* The list with a node put behind its last one: it has one more, and a walk *)
(* meets what it met before and then the new node.                           *)
LEMMA AppendedList ==
    ASSUME NEW nodes, IsFiniteSet(nodes), NEW end, end \notin nodes, NEW f, NEW b,
           HasChain(b, f, nodes, end),
           NEW x \in Listed(Walk(b, f, nodes, end), nodes), f[x] = end,
           NEW y \in nodes, y \notin Listed(Walk(b, f, nodes, end), nodes),
           NEW g, g[x] = y, g[y] = end,
           \A z \in Listed(Walk(b, f, nodes, end), nodes) \ {x} : g[z] = f[z]
    PROVE  /\ HasChain(b, g, nodes, end)
           /\ Listed(Walk(b, g, nodes, end), nodes) =
                 Listed(Walk(b, f, nodes, end), nodes) \cup {y}
           /\ Length(Walk(b, f, nodes, end), nodes) \in Nat \ {0}
           /\ Length(Walk(b, g, nodes, end), nodes) = Length(Walk(b, f, nodes, end), nodes) + 1
           /\ \A i \in 1 .. Length(Walk(b, f, nodes, end), nodes) :
                 Walk(b, g, nodes, end)[i - 1] = Walk(b, f, nodes, end)[i - 1]
           /\ Walk(b, g, nodes, end)[Length(Walk(b, f, nodes, end), nodes)] = y
<1>1. PICK n \in 0 .. Cardinality(nodes) : \E L \in [0 .. n -> nodes \cup {end}] :
         IsChain(L, n, b, f, nodes, end)
  BY DEF HasChain
<1>2. PICK L \in [0 .. n -> nodes \cup {end}] : IsChain(L, n, b, f, nodes, end)
  BY <1>1
<1>3. n \in Nat /\ n + 1 \in Nat /\ Cardinality(nodes) \in Nat /\ n <= Cardinality(nodes)
  BY FS_CardinalityType
<1> DEFINE M == Appended(L, n, y, end)
           N == Cardinality(nodes)
           v == Walk(b, f, nodes, end)
           w == Walk(b, g, nodes, end)
<1>4. Listed(v, nodes) = Members(L, n) /\ Length(v, nodes) = n
  BY <1>2, ListOfChain
<1>5. x \in Members(L, n) /\ y \notin Members(L, n) /\ \A z \in Members(L, n) \ {x} : g[z] = f[z]
  BY <1>4
<1>6. /\ M \in [0 .. n + 1 -> nodes \cup {end}]
      /\ M[1] = y /\ \A i \in 1 .. n : M[i + 1] = L[i]
      /\ n >= 1
  <2>1. n >= 1
    BY <1>3, <1>5 DEF Members
  <2>2. ASSUME NEW i \in 0 .. n + 1, i # 0
        PROVE  L[i - 1] \in nodes \cup {end}
    <3>1. i - 1 \in 0 .. n
      BY <1>3, <2>2
    <3> QED
      BY <1>2, <3>1
  <2>3. M \in [0 .. n + 1 -> nodes \cup {end}]
    BY <2>2 DEF Appended
  <2>4. M[1] = y
    <3>1. 1 \in 0 .. n + 1
      BY <1>3
    <3> QED
      BY <3>1 DEF Appended
  <2>5. ASSUME NEW i \in 1 .. n
        PROVE  M[i + 1] = L[i]
    <3>1. i + 1 \in 0 .. n + 1 /\ i + 1 # 0 /\ i + 1 # 1 /\ (i + 1) - 1 = i
      BY <1>3, <2>5
    <3> QED
      BY <3>1 DEF Appended
  <2> QED
    BY <2>1, <2>3, <2>4, <2>5
<1>7. IsChain(M, n + 1, b, g, nodes, end)
  BY <1>2, <1>3, <1>5, AppendedChain
<1> HIDE DEF M
<1>8. n + 1 \in 0 .. N
  BY <1>3, <1>7, ChainShort
<1>9. HasChain(b, g, nodes, end)
  BY <1>6, <1>7, <1>8 DEF HasChain
<1>10. Listed(w, nodes) = Members(M, n + 1) /\ Length(w, nodes) = n + 1
  BY <1>7, <1>8, ListOfChain
<1>11. v = [i \in 0 .. N |-> IF i <= n THEN L[n - i] ELSE end]
  BY <1>2, WalkOfChain
<1>12. w = [i \in 0 .. N |-> IF i <= n + 1 THEN M[(n + 1) - i] ELSE end]
  BY <1>7, <1>8, WalkOfChain
<1> HIDE DEF v, w, N
<1>13. Members(M, n + 1) = Members(L, n) \cup {y}
  <2>1. ASSUME NEW i \in 1 .. n + 1
        PROVE  M[i] \in Members(L, n) \cup {y}
    <3>1. CASE i = 1
      BY <1>6, <3>1
    <3>2. CASE i # 1
      <4>1. i - 1 \in 1 .. n /\ (i - 1) + 1 = i
        BY <1>3, <2>1, <3>2
      <4>2. M[(i - 1) + 1] = L[i - 1]
        BY <1>6, <4>1
      <4> QED
        BY <4>1, <4>2 DEF Members
    <3> QED
      BY <3>1, <3>2
  <2>2. ASSUME NEW i \in 1 .. n
        PROVE  L[i] \in Members(M, n + 1)
    <3>1. i + 1 \in 1 .. n + 1
      BY <1>3, <2>2
    <3>2. M[i + 1] = L[i]
      BY <1>6, <2>2
    <3> QED
      BY <3>1, <3>2 DEF Members
  <2>3. y \in Members(M, n + 1)
    <3>1. 1 \in 1 .. n + 1
      BY <1>3
    <3> QED
      BY <1>6, <3>1 DEF Members
  <2> QED
    BY <2>1, <2>2, <2>3 DEF Members
<1>14. ASSUME NEW i \in 1 .. n
       PROVE  w[i - 1] = v[i - 1]
  <2>1. /\ i - 1 \in 0 .. N /\ i - 1 <= n /\ i - 1 <= n + 1
        /\ n - (i - 1) \in 1 .. n /\ (n + 1) - (i - 1) = (n - (i - 1)) + 1
    <3>1. N \in Nat /\ n + 1 <= N
      BY <1>3, <1>8 DEF N
    <3> QED
      BY <1>3, <1>14, <3>1
  <2>2. v[i - 1] = L[n - (i - 1)] /\ w[i - 1] = M[(n - (i - 1)) + 1]
    BY <1>11, <1>12, <2>1
  <2> QED
    BY <1>6, <2>1, <2>2
<1>15. w[n] = y
  <2>1. n \in 0 .. N /\ n <= n + 1 /\ (n + 1) - n = 1
    BY <1>3, <1>8 DEF N
  <2> QED
    BY <1>6, <1>12, <2>1
<1>16. n \in Nat \ {0}
  BY <1>3, <1>6
<1> QED
  BY <1>4, <1>9, <1>10, <1>13, <1>14, <1>15, <1>16 DEF v, w

(* Without its first node a list is one shorter, and a walk meets the rest. *)
LEMMA PoppedWalk ==
    ASSUME NEW nodes, IsFiniteSet(nodes), NEW end, end \notin nodes, NEW f,
           NEW b \in nodes, HasChain(b, f, nodes, end)
    PROVE  /\ Length(Walk(f[b], f, nodes, end), nodes) \in Nat
           /\ Length(Walk(b, f, nodes, end), nodes) =
                 Length(Walk(f[b], f, nodes, end), nodes) + 1
           /\ Walk(b, f, nodes, end)[0] = b
           /\ \A i \in 1 .. Length(Walk(f[b], f, nodes, end), nodes) :
                 Walk(b, f, nodes, end)[i] = Walk(f[b], f, nodes, end)[i - 1]
<1> DEFINE c == f[b]
<1>1. /\ HasChain(c, f, nodes, end)
      /\ Listed(Walk(c, f, nodes, end), nodes) = Listed(Walk(b, f, nodes, end), nodes) \ {b}
  BY PoppedList
<1>2. f[b] = c /\ b \notin Listed(Walk(c, f, nodes, end), nodes)
  BY <1>1
<1> HIDE DEF c
<1>3. /\ Length(Walk(c, f, nodes, end), nodes) \in Nat
      /\ Length(Walk(b, f, nodes, end), nodes) = Length(Walk(c, f, nodes, end), nodes) + 1
      /\ Walk(b, f, nodes, end)[0] = b
  BY <1>1, <1>2, PushedWalk
<1>4. \A i \in 1 .. Length(Walk(c, f, nodes, end), nodes) :
         Walk(b, f, nodes, end)[i] = Walk(c, f, nodes, end)[i - 1]
  BY <1>1, <1>2, PushedWalk
<1> QED
  BY <1>3, <1>4 DEF c

-----------------------------------------------------------------------------
(* ring buffers *)

(* the index after another one, % iTotalSize written out *)
LEMMA NextIndex ==
    ASSUME NEW i \in Indexes
    PROVE  (i + 1) % iTotalSize = IF i = iTotalSize - 1 THEN 0 ELSE i + 1
<1>1. CASE i = iTotalSize - 1
  BY <1>1, SizeAssumption, SMT DEF Indexes
<1>2. CASE i # iTotalSize - 1
  BY <1>2, SizeAssumption, SMT DEF Indexes
<1> QED
  BY <1>1, <1>2

(* an index that is at most iTotalSize, % iTotalSize written out *)
LEMMA WrapIndex ==
    ASSUME NEW i \in 0 .. iTotalSize
    PROVE  i % iTotalSize = IF i = iTotalSize THEN 0 ELSE i
<1>1. CASE i = iTotalSize
  BY <1>1, SizeAssumption, SMT
<1>2. CASE i # iTotalSize
  BY <1>2, SizeAssumption, SMT
<1> QED
  BY <1>1, <1>2

(* DirectEnqueueSize never reaches past the end of the array *)
LEMMA DirectEnqueueBounds ==
    ASSUME NEW f \in Indexes, NEW r \in Indexes
    PROVE  /\ GetRearBufferPtr(r) \in Indexes
           /\ DirectEnqueueSize(f, r) \in Nat
           /\ GetRearBufferPtr(r) + DirectEnqueueSize(f, r) \in 0 .. iTotalSize
           /\ GetRearBufferPtr(r) # f => DirectEnqueueSize(f, r) > 0
  BY NextIndex, SizeAssumption
     DEF GetRearBufferPtr, DirectEnqueueSize, FreePiece, Indexes

(* nor does DirectDequeueSize *)
LEMMA DirectDequeueBounds ==
    ASSUME NEW f \in Indexes, NEW r \in Indexes
    PROVE  /\ GetFrontBufferPtr(f) \in Indexes
           /\ DirectDequeueSize(f, r) \in Nat
           /\ GetFrontBufferPtr(f) + DirectDequeueSize(f, r) \in 0 .. iTotalSize
           /\ f # r => DirectDequeueSize(f, r) > 0
  BY NextIndex, SizeAssumption
     DEF GetFrontBufferPtr, DirectDequeueSize, UsedPiece, Indexes

(* Enqueue and MoveRear leave iRear inside the array *)
LEMMA EnqRearIndex ==
    ASSUME NEW f \in Indexes, NEW r \in Indexes, NEW n \in Nat \ {0}
    PROVE  EnqRear(f, r, n) \in Indexes
<1> DEFINE b == GetRearBufferPtr(r)
           d == DirectEnqueueSize(f, r)
<1>1. /\ b \in Indexes /\ d \in Nat /\ b + d \in 0 .. iTotalSize
      /\ b # f => d > 0
  BY DirectEnqueueBounds
<1>2. EnqWrap(f, r) = IF b + d = iTotalSize THEN 0 ELSE b + d
  BY <1>1, WrapIndex DEF EnqWrap
<1>3. CASE b = f
  BY <1>3 DEF EnqRear
<1>4. CASE b # f /\ EnqSecond(f, r, n) > 0
  <2>1. EnqSecond(f, r, n) = Lesser(n - d, FreePiece(f, EnqWrap(f, r)))
    BY <1>4 DEF EnqSecond
  <2>2. EnqSecond(f, r, n) \in Nat /\ EnqWrap(f, r) + EnqSecond(f, r, n) <= iTotalSize
    BY <1>1, <1>2, <1>4, <2>1, SizeAssumption DEF Lesser, FreePiece, Indexes
  <2> QED
    BY <1>1, <1>2, <1>4, <2>2, SizeAssumption DEF EnqRear, Indexes
<1>5. CASE b # f /\ ~(EnqSecond(f, r, n) > 0)
  BY <1>1, <1>5, SizeAssumption DEF EnqRear, EnqFirst, Lesser, Indexes
<1> QED
  BY <1>3, <1>4, <1>5

(* Dequeue and MoveFront leave iFront inside the array *)
LEMMA DeqFrontIndex ==
    ASSUME NEW f \in Indexes, NEW r \in Indexes, NEW n \in Nat \ {0}
    PROVE  DeqFront(f, r, n) \in Indexes
<1> DEFINE b == GetFrontBufferPtr(f)
           d == DirectDequeueSize(f, r)
<1>1. /\ b \in Indexes /\ d \in Nat /\ b + d \in 0 .. iTotalSize
      /\ f # r => d > 0
  BY DirectDequeueBounds
<1>2. DeqWrap(f, r) = IF b + d = iTotalSize THEN 0 ELSE b + d
  BY <1>1, WrapIndex DEF DeqWrap
<1>3. CASE f = r
  BY <1>3 DEF DeqFront
<1>4. CASE f # r /\ DeqSecond(f, r, n) > 0
  <2>1. DeqSecond(f, r, n) = Lesser(n - d, UsedPiece(DeqWrap(f, r), r))
    BY <1>4 DEF DeqSecond
  <2>2. DeqSecond(f, r, n) \in Nat /\ DeqWrap(f, r) + DeqSecond(f, r, n) <= iTotalSize
    BY <1>1, <1>2, <1>4, <2>1, SizeAssumption DEF Lesser, UsedPiece, Indexes
  <2> QED
    BY <1>1, <1>2, <1>4, <2>2, SizeAssumption DEF DeqFront, Indexes
<1>5. CASE f # r /\ ~(DeqSecond(f, r, n) > 0)
  BY <1>1, <1>5, SizeAssumption DEF DeqFront, DeqFirst, Lesser, Indexes
<1> QED
  BY <1>3, <1>4, <1>5

-----------------------------------------------------------------------------
(* an index that may have run over the end of the array once *)
Wrapped(i) == IF i >= iTotalSize THEN i - iTotalSize ELSE i

LEMMA ModIsWrapped ==
    ASSUME NEW i \in 0 .. 2 * iTotalSize - 1
    PROVE  i % iTotalSize = Wrapped(i)
<1>1. CASE i >= iTotalSize
  <2>1. i - iTotalSize \in 0 .. iTotalSize - 1
    BY <1>1, SizeAssumption
  <2>2. i = iTotalSize * 1 + (i - iTotalSize)
    BY <1>1, SizeAssumption
  <2> QED
    BY <1>1, <2>1, <2>2, SizeAssumption, SMT DEF Wrapped
<1>2. CASE i < iTotalSize
  BY <1>2, SizeAssumption, SMT DEF Wrapped
<1> QED
  BY <1>1, <1>2, SizeAssumption

(* the two sizes add up to the capacity *)
LEMMA UseAndFree ==
    ASSUME NEW f \in Indexes, NEW r \in Indexes
    PROVE  /\ GetUseSize(f, r) \in 0 .. GetBufferSize
           /\ GetFreeSize(f, r) = GetBufferSize - GetUseSize(f, r)
           /\ r = Wrapped(f + GetUseSize(f, r))
  BY SizeAssumption DEF GetUseSize, GetFreeSize, GetBufferSize, Indexes, Wrapped

(* Enqueue and MoveRear take as much as there is room for, and move iRear    *)
(* that far.                                                                 *)
LEMMA EnqResult ==
    ASSUME NEW f \in Indexes, NEW r \in Indexes, NEW n \in Nat \ {0}
    PROVE  /\ EnqSize(f, r, n) = Lesser(n, GetFreeSize(f, r))
           /\ EnqRear(f, r, n) = Wrapped(r + EnqSize(f, r, n))
<1> DEFINE b == GetRearBufferPtr(r)
           d == DirectEnqueueSize(f, r)
<1>1. /\ b \in Indexes /\ d \in Nat /\ b + d \in 0 .. iTotalSize
      /\ b # f => d > 0
  BY DirectEnqueueBounds
<1>2. EnqWrap(f, r) = IF b + d = iTotalSize THEN 0 ELSE b + d
  BY <1>1, WrapIndex DEF EnqWrap
<1>3. b = IF r = iTotalSize - 1 THEN 0 ELSE r + 1
  BY NextIndex DEF GetRearBufferPtr
<1>4. d = IF f < b THEN iTotalSize - b ELSE f - b
  BY DEF DirectEnqueueSize, FreePiece
<1>5. EnqSecond(f, r, n) = IF b = f \/ n <= d \/ EnqWrap(f, r) = f THEN 0
                          ELSE Lesser(n - d, FreePiece(f, EnqWrap(f, r)))
  BY DEF EnqSecond
<1>6. EnqSize(f, r, n) = Lesser(n, d) + EnqSecond(f, r, n)
  BY DEF EnqSize, EnqFirst
<1>7. EnqRear(f, r, n) = IF b = f THEN r
                        ELSE IF EnqSecond(f, r, n) > 0
                        THEN EnqWrap(f, r) + EnqSecond(f, r, n) - 1
                        ELSE b + Lesser(n, d) - 1
  BY DEF EnqRear, EnqFirst
<1> HIDE DEF b, d
<1>8. EnqSize(f, r, n) = Lesser(n, GetFreeSize(f, r))
  BY <1>1, <1>2, <1>3, <1>4, <1>5, <1>6, SizeAssumption
     DEF Lesser, FreePiece, GetFreeSize, Indexes
<1>9. EnqRear(f, r, n) = Wrapped(r + EnqSize(f, r, n))
  BY <1>1, <1>2, <1>3, <1>4, <1>5, <1>6, <1>7, SizeAssumption
     DEF Lesser, FreePiece, Wrapped, Indexes
<1> QED
  BY <1>8, <1>9

(* Dequeue, Peek and MoveFront take as much as there is, and the first and   *)
(* the last move iFront that far.                                            *)
LEMMA DeqResult ==
    ASSUME NEW f \in Indexes, NEW r \in Indexes, NEW n \in Nat \ {0}
    PROVE  /\ DeqSize(f, r, n) = Lesser(n, GetUseSize(f, r))
           /\ DeqFront(f, r, n) = Wrapped(f + DeqSize(f, r, n))
<1> DEFINE b == GetFrontBufferPtr(f)
           d == DirectDequeueSize(f, r)
<1>1. /\ b \in Indexes /\ d \in Nat /\ b + d \in 0 .. iTotalSize
      /\ f # r => d > 0
  BY DirectDequeueBounds
<1>2. DeqWrap(f, r) = IF b + d = iTotalSize THEN 0 ELSE b + d
  BY <1>1, WrapIndex DEF DeqWrap
<1>3. b = IF f = iTotalSize - 1 THEN 0 ELSE f + 1
  BY NextIndex DEF GetFrontBufferPtr
<1>4. d = IF f = r THEN 0 ELSE IF b > r THEN iTotalSize - b ELSE r - b + 1
  BY DEF DirectDequeueSize, UsedPiece
<1>5. DeqSecond(f, r, n) = IF f = r \/ n <= d \/ b + d - 1 = r THEN 0
                          ELSE Lesser(n - d, UsedPiece(DeqWrap(f, r), r))
  BY DEF DeqSecond
<1>6. DeqSize(f, r, n) = Lesser(n, d) + DeqSecond(f, r, n)
  BY DEF DeqSize, DeqFirst
<1>7. DeqFront(f, r, n) = IF f = r THEN f
                         ELSE IF DeqSecond(f, r, n) > 0
                         THEN DeqWrap(f, r) + DeqSecond(f, r, n) - 1
                         ELSE b + Lesser(n, d) - 1
  BY DEF DeqFront, DeqFirst
<1> HIDE DEF b, d
<1>8. DeqSize(f, r, n) = Lesser(n, GetUseSize(f, r))
  BY <1>1, <1>2, <1>3, <1>4, <1>5, <1>6, SizeAssumption
     DEF Lesser, UsedPiece, GetUseSize, Indexes
<1>9. DeqFront(f, r, n) = Wrapped(f + DeqSize(f, r, n))
  BY <1>1, <1>2, <1>3, <1>4, <1>5, <1>6, <1>7, SizeAssumption
     DEF Lesser, UsedPiece, Wrapped, Indexes
<1> QED
  BY <1>8, <1>9

(* the index u bytes behind f has u bytes in use *)
LEMMA UseOfWrapped ==
    ASSUME NEW f \in Indexes, NEW u \in 0 .. iTotalSize - 1
    PROVE  Wrapped(f + u) \in Indexes /\ GetUseSize(f, Wrapped(f + u)) = u
  BY SizeAssumption DEF GetUseSize, Wrapped, Indexes

(* so GetUseSize grows and shrinks by what was taken *)
LEMMA EnqUse ==
    ASSUME NEW f \in Indexes, NEW r \in Indexes, NEW n \in Nat \ {0}
    PROVE  GetUseSize(f, EnqRear(f, r, n)) = GetUseSize(f, r) + EnqSize(f, r, n)
<1> DEFINE s == EnqSize(f, r, n)
<1>1. s = Lesser(n, GetFreeSize(f, r)) /\ EnqRear(f, r, n) = Wrapped(r + s)
  BY EnqResult
<1>2. GetUseSize(f, r) \in Nat /\ r = Wrapped(f + GetUseSize(f, r))
  BY UseAndFree DEF GetBufferSize
<1>3. s \in Nat /\ GetUseSize(f, r) + s < iTotalSize
  BY <1>1, UseAndFree, SizeAssumption DEF Lesser, GetBufferSize
<1> DEFINE u == GetUseSize(f, r)
<1> HIDE DEF s, u
<1>4. Wrapped(r + s) = Wrapped(f + (u + s))
  BY <1>2, <1>3, SizeAssumption DEF Wrapped, Indexes, u
<1>5. u + s \in 0 .. iTotalSize - 1
  BY <1>2, <1>3, SizeAssumption DEF u
<1>6. GetUseSize(f, EnqRear(f, r, n)) = u + s
  BY <1>1, <1>4, <1>5, UseOfWrapped
<1> QED
  BY <1>6 DEF u, s

LEMMA DeqUse ==
    ASSUME NEW f \in Indexes, NEW r \in Indexes, NEW n \in Nat \ {0}
    PROVE  GetUseSize(DeqFront(f, r, n), r) = GetUseSize(f, r) - DeqSize(f, r, n)
<1> DEFINE s == DeqSize(f, r, n)
<1>1. s = Lesser(n, GetUseSize(f, r)) /\ DeqFront(f, r, n) = Wrapped(f + s)
  BY DeqResult
<1>2. GetUseSize(f, r) \in Nat /\ r = Wrapped(f + GetUseSize(f, r))
  BY UseAndFree DEF GetBufferSize
<1>3. s \in Nat /\ s <= GetUseSize(f, r)
  BY <1>1, <1>2 DEF Lesser
<1> DEFINE u == GetUseSize(f, r)
           g == Wrapped(f + s)
<1>4. u \in 0 .. iTotalSize - 1
  BY UseAndFree DEF GetBufferSize
<1> HIDE DEF s, u
<1>5. g \in Indexes /\ r = Wrapped(g + (u - s)) /\ u - s \in 0 .. iTotalSize - 1
  BY <1>2, <1>3, <1>4, SizeAssumption DEF Wrapped, Indexes, u
<1>6. GetUseSize(g, r) = u - s
  BY <1>5, UseOfWrapped
<1> QED
  BY <1>1, <1>6 DEF u, s

(* an index behind the new iFront, counted from the old one *)
LEMMA ShiftedIndex ==
    ASSUME NEW f \in Indexes, NEW s \in Nat, NEW i \in Nat, s + i < iTotalSize
    PROVE  (Wrapped(f + s) + i) % iTotalSize = (f + (s + i)) % iTotalSize
<1>1. f + (s + i) \in 0 .. 2 * iTotalSize - 1
  BY SizeAssumption DEF Indexes
<1>2. Wrapped(f + s) + i \in 0 .. 2 * iTotalSize - 1
  BY SizeAssumption DEF Indexes, Wrapped
<1>3. Wrapped(Wrapped(f + s) + i) = Wrapped(f + (s + i))
  BY SizeAssumption DEF Indexes, Wrapped
<1> QED
  BY <1>1, <1>2, <1>3, ModIsWrapped

(* Dequeue and Peek copy out the bytes behind iFront, in order. *)
LEMMA DeqCopies ==
    ASSUME NEW f \in Indexes, NEW r \in Indexes, NEW n \in Nat \ {0}, NEW buf
    PROVE  DeqData(buf, f, r, n) =
             [i \in 1 .. Lesser(n, GetUseSize(f, r)) |-> buf[(f + i) % iTotalSize]]
<1> DEFINE b == GetFrontBufferPtr(f)
           d == DirectDequeueSize(f, r)
           w == DeqWrap(f, r)
           x == DeqFirst(f, r, n)
           y == DeqSecond(f, r, n)
           s == Load(buf, b, x)
           t == Load(buf, w, y)
<1>1. /\ b \in Indexes /\ d \in Nat /\ b + d \in 0 .. iTotalSize
      /\ f # r => d > 0
  BY DirectDequeueBounds
<1>2. w = IF b + d = iTotalSize THEN 0 ELSE b + d
  BY <1>1, WrapIndex DEF DeqWrap
<1>3. b = IF f = iTotalSize - 1 THEN 0 ELSE f + 1
  BY NextIndex DEF GetFrontBufferPtr
<1>4. d = IF f = r THEN 0 ELSE IF b > r THEN iTotalSize - b ELSE r - b + 1
  BY DEF DirectDequeueSize, UsedPiece
<1>5. y = IF f = r \/ n <= d \/ b + d - 1 = r THEN 0 ELSE Lesser(n - d, UsedPiece(w, r))
  BY DEF DeqSecond
<1>6. x = Lesser(n, d)
  BY DEF DeqFirst
<1>7. x + y = Lesser(n, GetUseSize(f, r))
  BY DeqResult DEF DeqSize
<1>8. DeqData(buf, f, r, n) = s \o t
  BY DEF DeqData
<1> HIDE DEF b, d, w, x, y
<1>9. x \in Nat /\ y \in Nat
  BY <1>1, <1>2, <1>3, <1>4, <1>5, <1>6, SizeAssumption DEF Lesser, UsedPiece, Indexes
<1>10. s = [i \in 1 .. x |-> buf[b + i - 1]] /\ t = [i \in 1 .. y |-> buf[w + i - 1]]
  BY DEF Load
<1> HIDE DEF s, t
<1>11. ASSUME NEW i \in 1 .. x
       PROVE  b + i - 1 = (f + i) % iTotalSize
  <2>1. (f + i) % iTotalSize = Wrapped(f + i)
    BY <1>1, <1>4, <1>6, <1>11, ModIsWrapped, SizeAssumption DEF Lesser, Indexes
  <2> QED
    BY <2>1, <1>1, <1>3, <1>4, <1>6, <1>11, SizeAssumption DEF Lesser, Indexes, Wrapped
<1>12. ASSUME NEW i \in 1 .. y
       PROVE  w + i - 1 = (f + x + i) % iTotalSize
  <2>1. f + x + i \in 0 .. 2 * iTotalSize - 1
    BY <1>1, <1>2, <1>3, <1>4, <1>5, <1>6, <1>12, SizeAssumption
       DEF Lesser, UsedPiece, Indexes
  <2>2. (f + x + i) % iTotalSize = Wrapped(f + x + i)
    BY <2>1, ModIsWrapped
  <2> QED
    BY <2>2, <1>1, <1>2, <1>3, <1>4, <1>5, <1>6, <1>12, SizeAssumption
       DEF Lesser, UsedPiece, Indexes, Wrapped
<1>13. s \o t = [i \in 1 .. x + y |-> IF i <= x THEN s[i] ELSE t[i - x]]
  BY <1>9, <1>10, SMT
<1>14. ASSUME NEW i \in 1 .. x + y
       PROVE  (IF i <= x THEN s[i] ELSE t[i - x]) = buf[(f + i) % iTotalSize]
  <2>1. CASE i <= x
    <3>1. i \in 1 .. x /\ b + i - 1 = (f + i) % iTotalSize
      BY <1>9, <1>11, <1>14, <2>1
    <3> QED
      BY <3>1, <2>1, <1>10
  <2>2. CASE ~(i <= x)
    <3>1. i - x \in 1 .. y
      BY <1>9, <1>14, <2>2
    <3>2. w + (i - x) - 1 = (f + x + (i - x)) % iTotalSize
      BY <3>1, <1>12
    <3>3. f + x + (i - x) = f + i
      BY <1>9, <1>14, SizeAssumption DEF Indexes
    <3> QED
      BY <3>1, <3>2, <3>3, <2>2, <1>10
  <2> QED
    BY <2>1, <2>2
<1> QED
  BY <1>7, <1>8, <1>13, <1>14

(* the byte at x when data's bytes up to k are stored at b, up to m at w *)
ByteAt(buf, b, k, w, m, data, x) ==
    IF x \in w .. w + (m - k) - 1 THEN data[k + (x - w + 1)]
    ELSE IF x \in b .. b + k - 1 THEN data[x - b + 1]
    ELSE buf[x]

(* new has the bytes of buf that are in use, and the ones of data that fit   *)
(* behind them                                                               *)
HasBehind(new, buf, f, r, n, data) ==
    LET use == GetUseSize(f, r) IN
    /\ \A i \in 1 .. use : new[(f + i) % iTotalSize] = buf[(f + i) % iTotalSize]
    /\ \A i \in use + 1 .. use + EnqSize(f, r, n) :
          new[(f + i) % iTotalSize] = data[i - use]

(* Enqueue puts the bytes that fit behind the ones in use and keeps those.   *)
LEMMA EnqCopies ==
    ASSUME NEW f \in Indexes, NEW r \in Indexes, NEW B,
           NEW buf \in [Indexes -> B],
           NEW n \in Nat \ {0}, NEW data \in [1 .. n -> B]
    PROVE  /\ EnqBuffer(buf, f, r, data) \in [Indexes -> B]
           /\ HasBehind(EnqBuffer(buf, f, r, data), buf, f, r, n, data)
<1> DEFINE b == GetRearBufferPtr(r)
           d == DirectEnqueueSize(f, r)
           k == EnqFirst(f, r, n)
           m == EnqSize(f, r, n)
           w == EnqWrap(f, r)
           use == GetUseSize(f, r)
           free == GetFreeSize(f, r)
           new == EnqBuffer(buf, f, r, data)
           At(x) == ByteAt(buf, b, k, w, m, data, x)
<1>1. \A x \in Indexes : new[x] = At(x)
  <2> DEFINE trunc == SubSeq(data, 1, m)
             s == SubSeq(trunc, 1, k)
             t == SubSeq(trunc, k + 1, Len(trunc))
             mid == Store(buf, b, s)
  <2>1. b \in Indexes /\ d \in Nat
    BY DirectEnqueueBounds
  <2>2. k = Lesser(n, d) /\ m = k + EnqSecond(f, r, n)
    BY DEF EnqFirst, EnqSize
  <2>3. m = Lesser(n, GetFreeSize(f, r)) /\ GetFreeSize(f, r) \in Nat
    BY EnqResult, UseAndFree, SizeAssumption DEF GetBufferSize
  <2>4. w \in Indexes
    <3>1. b + d \in 0 .. iTotalSize
      BY DirectEnqueueBounds
    <3> HIDE DEF b, d
    <3>2. (b + d) % iTotalSize = IF b + d = iTotalSize THEN 0 ELSE b + d
      BY <3>1, WrapIndex
    <3>3. (b + d) % iTotalSize \in Indexes
      BY <3>1, <3>2, SizeAssumption DEF Indexes
    <3> QED
      BY <3>3 DEF EnqWrap, b, d
  <2>5. EnqSecond(f, r, n) \in Nat
    BY <2>1, <2>2, <2>4, SizeAssumption DEF EnqSecond, Lesser, FreePiece, Indexes
  <2>6. EnqBuffer(buf, f, r, data) = Store(mid, w, t)
    <3>1. Len(data) = n
      OBVIOUS
    <3> QED
      BY <3>1 DEF EnqBuffer, StorePieces
  <2>7. k \in Nat /\ m \in Nat /\ k <= m /\ m <= n
    BY <2>1, <2>2, <2>3, <2>5 DEF Lesser
  <2> HIDE DEF b, d, k, m, w
  <2>8. Len(trunc) = m /\ \A i \in 1 .. m : trunc[i] = data[i]
    BY <2>7
  <2>13. trunc \in Seq(B)
    BY <2>7
  <2> HIDE DEF trunc
  <2>9. Len(s) = k /\ \A i \in 1 .. k : s[i] = data[i]
    BY <2>7, <2>8, <2>13
  <2>10. Len(t) = m - k /\ \A i \in 1 .. m - k : t[i] = data[k + i]
    BY <2>7, <2>8, <2>13
  <2> HIDE DEF s, t
  <2>11. ASSUME NEW x \in Indexes
         PROVE  mid[x] = IF x \in b .. b + k - 1 THEN data[x - b + 1] ELSE buf[x]
    <3>1. mid[x] = IF x \in b .. b + k - 1 THEN s[x - b + 1] ELSE buf[x]
      BY <2>9, <2>11 DEF Store
    <3>2. CASE x \in b .. b + k - 1
      <4>1. x - b + 1 \in 1 .. k
        BY <3>2, <2>1, <2>7 DEF Indexes
      <4> QED
        BY <2>9, <3>1, <3>2, <4>1
    <3> QED
      BY <3>1, <3>2
  <2> HIDE DEF mid
  <2>12. ASSUME NEW x \in Indexes
         PROVE  (IF x \in w .. w + Len(t) - 1 THEN t[x - w + 1] ELSE mid[x]) =
                   ByteAt(buf, b, k, w, m, data, x)
    <3>1. CASE x \in w .. w + (m - k) - 1
      <4>1. x - w + 1 \in 1 .. m - k
        BY <3>1, <2>4, <2>7 DEF Indexes
      <4>2. t[x - w + 1] = data[k + (x - w + 1)]
        BY <4>1, <2>10
      <4> QED
        BY <2>10, <3>1, <4>2 DEF ByteAt
    <3>2. CASE x \notin w .. w + (m - k) - 1
      BY <2>10, <2>11, <2>12, <3>2 DEF ByteAt
    <3> QED
      BY <3>1, <3>2
  <2> QED
    BY <2>6, <2>12 DEF Store, b, k, m, w
<1>16. new = [x \in Indexes |-> new[x]]
  BY DEF EnqBuffer, StorePieces, Store
<1>2. b = IF r = iTotalSize - 1 THEN 0 ELSE r + 1
  BY NextIndex DEF GetRearBufferPtr
<1>3. d = IF f < b THEN iTotalSize - b ELSE f - b
  BY DEF DirectEnqueueSize, FreePiece
<1>4. k = IF n > d THEN d ELSE n
  BY DEF EnqFirst, Lesser
<1>5. /\ use \in 0 .. iTotalSize - 1 /\ free = iTotalSize - 1 - use
      /\ r = Wrapped(f + use)
  BY UseAndFree, SizeAssumption DEF GetBufferSize
<1>6. m = IF n > free THEN free ELSE n
  BY EnqResult DEF Lesser
<1>7. w = IF b + d = iTotalSize THEN 0 ELSE b + d
  BY DirectEnqueueBounds, WrapIndex DEF EnqWrap
<1> HIDE DEF b, d, k, m, w, use, free, new
<1>8. b \in Nat /\ d \in Nat /\ k \in Nat /\ m \in Nat /\ w \in Nat /\ k <= m /\ m <= n
  BY <1>2, <1>3, <1>4, <1>5, <1>6, <1>7, SizeAssumption DEF Wrapped, Indexes
<1>9. ASSUME NEW i \in 1 .. use + m
      PROVE  /\ (f + i) % iTotalSize = Wrapped(f + i)
             /\ Wrapped(f + i) \in Indexes
  <2>1. f + i \in 0 .. 2 * iTotalSize - 1
    BY <1>5, <1>6, <1>9, SizeAssumption DEF Indexes
  <2>2. (f + i) % iTotalSize = Wrapped(f + i)
    BY <2>1, ModIsWrapped
  <2> QED
    BY <2>1, <2>2, SizeAssumption DEF Wrapped, Indexes
<1>10. ASSUME NEW i \in 1 .. use
       PROVE  At(Wrapped(f + i)) = buf[Wrapped(f + i)]
  <2>1. Wrapped(f + i) \notin w .. w + (m - k) - 1
    BY <1>2, <1>3, <1>4, <1>5, <1>6, <1>7, <1>10, SizeAssumption DEF Wrapped, Indexes
  <2>2. Wrapped(f + i) \notin b .. b + k - 1
    BY <1>2, <1>3, <1>4, <1>5, <1>6, <1>10, SizeAssumption DEF Wrapped, Indexes
  <2> QED
    BY <2>1, <2>2 DEF ByteAt
<1>11. ASSUME NEW i \in use + 1 .. use + m
       PROVE  At(Wrapped(f + i)) = data[i - use]
  <2> DEFINE x == Wrapped(f + i)
  <2>0. i \in Nat /\ use \in Nat
    BY <1>5, <1>11
  <2>1. CASE i - use <= k
    <3>1. x = b + (i - use) - 1 /\ x \notin w .. w + (m - k) - 1
      BY <1>2, <1>3, <1>4, <1>5, <1>6, <1>7, <1>11, <2>1, SizeAssumption
         DEF Wrapped, Indexes
    <3> HIDE DEF x
    <3>2. i - use \in 1 .. k
      BY <1>5, <1>8, <1>11, <2>0, <2>1
    <3>3. x \in b .. b + k - 1 /\ x - b + 1 = i - use
      BY ONLY <1>8, <2>0, <3>1, <3>2
    <3>4. At(x) = data[i - use]
      BY <3>1, <3>3 DEF ByteAt
    <3> QED
      BY <3>4 DEF x
  <2>2. CASE ~(i - use <= k)
    <3>1. x = w + (i - use) - k - 1
      BY <1>2, <1>3, <1>4, <1>5, <1>6, <1>7, <1>11, <2>2, SizeAssumption
         DEF Wrapped, Indexes
    <3> HIDE DEF x
    <3>2. i - use \in k + 1 .. m
      BY <1>5, <1>8, <1>11, <2>0, <2>2
    <3>3. x \in w .. w + (m - k) - 1 /\ k + (x - w + 1) = i - use
      BY ONLY <1>8, <2>0, <3>1, <3>2
    <3>4. At(x) = data[i - use]
      BY <3>3 DEF ByteAt
    <3> QED
      BY <3>4 DEF x
  <2> QED
    BY <2>1, <2>2
<1>12. ASSUME NEW x \in Indexes
       PROVE  At(x) \in B
  <2>1. CASE x \in w .. w + (m - k) - 1
    <3>1. k + (x - w + 1) \in 1 .. n
      BY <1>8, <2>1
    <3> QED
      BY <2>1, <3>1 DEF ByteAt
  <2>2. CASE x \notin w .. w + (m - k) - 1 /\ x \in b .. b + k - 1
    <3>1. x - b + 1 \in 1 .. n
      BY <1>8, <2>2
    <3> QED
      BY <2>2, <3>1 DEF ByteAt
  <2>3. CASE x \notin w .. w + (m - k) - 1 /\ x \notin b .. b + k - 1
    BY <2>3, <1>12 DEF ByteAt
  <2> QED
    BY <2>1, <2>2, <2>3
<1> HIDE DEF At
<1>13. new \in [Indexes -> B]
  BY <1>1, <1>16, <1>12
<1>14. \A i \in 1 .. use : new[(f + i) % iTotalSize] = buf[(f + i) % iTotalSize]
  BY <1>1, <1>5, <1>8, <1>9, <1>10
<1>15. \A i \in use + 1 .. use + m : new[(f + i) % iTotalSize] = data[i - use]
  BY <1>1, <1>5, <1>8, <1>9, <1>11
<1> QED
  BY <1>13, <1>14, <1>15 DEF use, m, new, HasBehind

=============================================================================
