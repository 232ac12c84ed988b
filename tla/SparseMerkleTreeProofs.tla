----------------------- MODULE SparseMerkleTreeProofs -----------------------
(***************************************************************************)
(* Proofs about SparseMerkleTree.                                          *)
(*                                                                         *)
(* All of it rests on one description of a stored tree: every node of the  *)
(* Merkle tree of a map is in the store, under its own hash.  A descent    *)
(* then goes through the nodes on its path and an update writes the nodes  *)
(* that differ; because different data have different digests, a write    *)
(* never takes the place of anything.                                      *)
(***************************************************************************)
EXTENDS SparseMerkleTree, FiniteSetTheorems, WellFoundedInduction, TLAPS

-----------------------------------------------------------------------------
(* Induction, with a set in the place of the predicate                     *)

(* Every set of naturals that is not empty has a least element.            *)
LEMMA LeastElement ==
    ASSUME NEW S, S \subseteq Nat, S # {}
    PROVE  \E n \in S : \A m \in S : n <= m
<1>1. PICK n \in S : \A m \in S : ~(<<m, n>> \in OpToRel(<, Nat))
  BY NatLessThanWellFounded, WFMin
<1>2. \A m \in S : ~(m < n)
  BY <1>1 DEF OpToRel
<1>3. \A m \in S : n <= m
  BY <1>2
<1>. QED  BY <1>3

(* Induction up to a bound, over a set instead of a predicate.             *)
LEMMA InductionTo ==
    ASSUME NEW N \in Nat, NEW S, 0 \in S, \A n \in 0..(N - 1) : n \in S => n + 1 \in S
    PROVE  \A n \in 0..N : n \in S
<1> SUFFICES ASSUME NEW k \in 0..N, k \notin S PROVE FALSE
  OBVIOUS
<1> DEFINE T == { n \in 0..N : n \notin S }
<1>0. T \subseteq Nat /\ T # {}
  OBVIOUS
<1>1. \E n \in T : \A m \in T : n <= m
  <2> HIDE DEF T
  <2>. QED  BY <1>0, LeastElement
<1>2. PICK n \in T : \A m \in T : n <= m
  BY <1>1
<1>3. n # 0 /\ n - 1 \in 0..(N - 1)
  OBVIOUS
<1>4. n - 1 \in S
  <2>1. n - 1 \notin T
    BY <1>2, <1>3
  <2>. QED  BY <2>1, <1>3
<1>5. (n - 1) + 1 \in S
  BY <1>3, <1>4
<1>. QED  BY <1>3, <1>5

(* The same from the bound down to 0: a tree is built from its leaves.     *)
LEMMA InductionDown ==
    ASSUME NEW N \in Nat, NEW S, N \in S, \A n \in 0..(N - 1) : n + 1 \in S => n \in S
    PROVE  \A n \in 0..N : n \in S
<1> DEFINE T == { m \in 0..N : N - m \in S }
<1>1. 0 \in T
    OBVIOUS
<1>2. ASSUME NEW m \in 0..(N - 1), m \in T
      PROVE  m + 1 \in T
  <2>1. N - (m + 1) \in 0..(N - 1) /\ (N - (m + 1)) + 1 = N - m
      OBVIOUS
  <2>2. N - (m + 1) \in S
      BY <1>2, <2>1
  <2> QED  BY <2>2
<1>3. \A m \in 0..N : m \in T
  <2> HIDE DEF T
  <2> QED  BY <1>1, <1>2, InductionTo
<1>4. ASSUME NEW n \in 0..N
      PROVE  n \in S
  <2>1. N - n \in 0..N /\ N - (N - n) = n
      OBVIOUS
  <2>2. N - n \in T
      BY <1>3, <2>1
  <2> QED  BY <2>1, <2>2
<1> QED  BY <1>4

-----------------------------------------------------------------------------
(* Data and digests                                                        *)

(* What is hashed and stored: a leaf or an inner node.                     *)
IsData(x) == IF IsLeaf(x) THEN x = Leaf(x.value) ELSE x = Inner(x.left, x.right)

(* A height between 2 and the bits of a hash.                              *)
LEMMA Sizes ==
    /\ Height \in Nat /\ Height >= 2 /\ Height - 1 \in Nat /\ Height - 1 >= 1
    /\ HashBits \in Nat /\ HashBits >= Height
    /\ Depths = 0..(Height - 1 - 1)
<1>1. HashSize \in Nat /\ HashBits = HashSize * 8
    BY TreeAssumption DEF HashBits
<1>2. HashBits \in Nat
    BY <1>1
<1>3. Height \in 2..HashBits
    BY TreeAssumption
<1>4. Height - 2 = Height - 1 - 1
    BY <1>2, <1>3
<1> QED  BY <1>2, <1>3, <1>4 DEF Depths

(* Leaves and inner nodes are data, and differ from each other and from    *)
(* the default nodes.                                                      *)
LEMMA Shapes ==
    ASSUME NEW v, NEW l, NEW r, NEW n
    PROVE  /\ IsData(Leaf(v)) /\ IsLeaf(Leaf(v))
           /\ IsData(Inner(l, r)) /\ ~IsLeaf(Inner(l, r))
           /\ Leaf(v) # DefaultNode(n)
           /\ Inner(l, r) # DefaultNode(n)
           /\ DOMAIN Inner(l, r) = {"left", "right"}
           /\ Inner(l, r).left = l /\ Inner(l, r).right = r
           /\ Leaf(v).value = v
           /\ DefaultNode(n).default = n
<1>1. DOMAIN Leaf(v) = {"value"} /\ DOMAIN Inner(l, r) = {"left", "right"}
      /\ DOMAIN DefaultNode(n) = {"default"}
    BY DEF Leaf, Inner, DefaultNode
<1>2. "value" \notin {"left", "right"} /\ "default" \notin {"left", "right"} /\ "value" # "default"
    OBVIOUS
<1>3. Leaf(v) # DefaultNode(n) /\ Inner(l, r) # DefaultNode(n)
    BY <1>1, <1>2
<1>4. Inner(l, r).left = l /\ Inner(l, r).right = r /\ Leaf(v).value = v
      /\ DefaultNode(n).default = n
    BY DEF Leaf, Inner, DefaultNode
<1>5. IsLeaf(Leaf(v)) /\ ~IsLeaf(Inner(l, r))
    BY <1>1, <1>2 DEF IsLeaf
<1> QED  BY <1>1, <1>3, <1>4, <1>5 DEF IsData

(* A digest is a default node, or the data itself.                         *)
DigestKind(d) ==
    \/ d = Leaf(DefaultValue) /\ Digest(d) = DefaultNode(HashBits - 1)
    \/ \E n \in 1..(HashBits - 1) :
          d = Inner(DefaultNode(n), DefaultNode(n)) /\ Digest(d) = DefaultNode(n - 1)
    \/ Digest(d) = d

(* The three kinds of digest are all there are.                            *)
LEMMA DigestCases ==
    ASSUME NEW d, IsData(d)
    PROVE  DigestKind(d)
<1>1. CASE d = Leaf(DefaultValue)
  <2>1. ~DefaultPair(d)
      BY <1>1, Shapes DEF DefaultPair
  <2> QED  BY <1>1, <2>1 DEF Digest, DigestKind
<1>2. CASE d # Leaf(DefaultValue) /\ DefaultPair(d)
  <2>1. PICK n \in 1..(HashBits - 1) : d = Inner(DefaultNode(n), DefaultNode(n))
      BY <1>2 DEF DefaultPair
  <2>2. d.left.default = n
      BY <2>1, Shapes
  <2> QED  BY <1>2, <2>1, <2>2 DEF Digest, DigestKind
<1>3. CASE d # Leaf(DefaultValue) /\ ~DefaultPair(d)
    BY <1>3 DEF Digest, DigestKind
<1> QED  BY <1>1, <1>2, <1>3

(* The hashes of empty subtrees, level by level.                           *)
LEMMA DigestDefault ==
    /\ Digest(Leaf(DefaultValue)) = DefaultNode(HashBits - 1)
    /\ \A n \in 1..(HashBits - 1) :
          Digest(Inner(DefaultNode(n), DefaultNode(n))) = DefaultNode(n - 1)
<1>1. ~DefaultPair(Leaf(DefaultValue))
    BY Shapes DEF DefaultPair
<1>2. ASSUME NEW n \in 1..(HashBits - 1)
      PROVE  Digest(Inner(DefaultNode(n), DefaultNode(n))) = DefaultNode(n - 1)
  <2> DEFINE d == Inner(DefaultNode(n), DefaultNode(n))
  <2>1. d.left.default = n /\ d # Leaf(DefaultValue)
      BY Shapes
  <2>2. DefaultPair(d)
      BY DEF DefaultPair
  <2> HIDE DEF d
  <2>3. Digest(d) = DefaultNode(n - 1)
      BY <2>1, <2>2 DEF Digest
  <2> QED  BY <2>3 DEF d
<1> QED  BY <1>1, <1>2 DEF Digest

(* Data of one digest is one: the default nodes of different levels are    *)
(* different, and so are they from everything else.                        *)
LEMMA DigestInjective ==
    ASSUME NEW x, NEW y, IsData(x), IsData(y), Digest(x) = Digest(y)
    PROVE  x = y
<1>1. ASSUME NEW d, IsData(d), NEW n
      PROVE  d # DefaultNode(n)
  <2>1. d = Leaf(d.value) \/ d = Inner(d.left, d.right)
      BY <1>1 DEF IsData
  <2> QED  BY <2>1, Shapes
<1>2. \A m, n : DefaultNode(m) = DefaultNode(n) => m = n
    BY Shapes
<1>3. HashBits \in Nat
    BY Sizes
<1>4. DigestKind(x) /\ DigestKind(y)
    BY DigestCases
<1>5. \A n \in 1..(HashBits - 1) : n - 1 # HashBits - 1
    BY <1>3
<1>6. \A m, n \in 1..(HashBits - 1) : m - 1 = n - 1 => m = n
    BY <1>3
<1> QED  BY <1>1, <1>2, <1>4, <1>5, <1>6 DEF DigestKind

-----------------------------------------------------------------------------
(* Stores: tables of nodes under their hashes                              *)

(* Every node is data, stored under its own hash.                          *)
NodesHashed(nodes) == \A h \in DOMAIN nodes : IsData(nodes[h]) /\ Digest(nodes[h]) = h

(* This data is in the store.                                              *)
Has(nodes, x) == Digest(x) \in DOMAIN nodes /\ nodes[Digest(x)] = x

(* A flush adds what it is given and takes nothing away.                   *)
LEMMA StoredKeeps ==
    ASSUME NEW nodes, NodesHashed(nodes), NEW W, \A x \in W : IsData(x)
    PROVE  /\ NodesHashed(Stored(nodes, W))
           /\ \A x \in W : Has(Stored(nodes, W), x)
           /\ \A x : Has(nodes, x) => Has(Stored(nodes, W), x)
<1> DEFINE S == Stored(nodes, W)
           new == { Digest(x) : x \in W }
           pick(h) == CHOOSE x \in W : Digest(x) = h
<1>1. /\ DOMAIN S = DOMAIN nodes \cup new
      /\ \A h \in DOMAIN S : S[h] = IF h \in new THEN pick(h) ELSE nodes[h]
    BY DEF Stored
<1>2. ASSUME NEW h \in new
      PROVE  pick(h) \in W /\ Digest(pick(h)) = h
    OBVIOUS
<1> HIDE DEF S, pick
<1>3. NodesHashed(S)
  <2>1. ASSUME NEW h \in DOMAIN S
        PROVE  IsData(S[h]) /\ Digest(S[h]) = h
    <3>1. CASE h \in new
        BY <1>1, <1>2, <3>1
    <3>2. CASE h \notin new
        BY <1>1, <3>2 DEF NodesHashed
    <3> QED  BY <3>1, <3>2
  <2> QED  BY <2>1 DEF NodesHashed
<1>4. ASSUME NEW x \in W
      PROVE  Has(S, x)
  <2>1. Digest(x) \in new
      OBVIOUS
  <2>2. pick(Digest(x)) = x
      BY <1>2, <2>1, DigestInjective
  <2> QED  BY <1>1, <2>1, <2>2 DEF Has
<1>5. ASSUME NEW x, Has(nodes, x)
      PROVE  Has(S, x)
  <2>1. Digest(x) \in DOMAIN nodes /\ nodes[Digest(x)] = x /\ IsData(x)
      BY <1>5 DEF Has, NodesHashed
  <2>2. CASE Digest(x) \in new
    <3>1. pick(Digest(x)) = x
        BY <1>2, <2>1, <2>2, DigestInjective
    <3> QED  BY <1>1, <2>2, <3>1 DEF Has
  <2>3. CASE Digest(x) \notin new
      BY <1>1, <2>1, <2>3 DEF Has
  <2> QED  BY <2>2, <2>3
<1> QED  BY <1>3, <1>4, <1>5 DEF S

(* What a store has is what a lookup of its hash yields.                   *)
LEMMA LookupHas ==
    ASSUME NEW nodes, NEW x, Has(nodes, x)
    PROVE  Lookup(nodes, Digest(x)) = x
BY DEF Has, Lookup

-----------------------------------------------------------------------------
(* The recursive functions exist, and satisfy their equations              *)

(* A descent starts at the root and takes one turn at a time.              *)
LEMMA DescendDef ==
    ASSUME NEW nodes, NEW r, NEW path
    PROVE  /\ Descend(nodes, r, path)[0] = r
           /\ \A d \in Depths :
                 Descend(nodes, r, path)[d + 1]
                   = Child(Lookup(nodes, Descend(nodes, r, path)[d]), IsLeft(path, d))
<1> DEFINE N == Height - 1
           next(h, d) == Child(Lookup(nodes, h), IsLeft(path, d))
           Is(f, k) == f = [d \in 0..k |-> IF d = 0 THEN r ELSE next(f[d - 1], d - 1)]
           S == { k \in 0..N : \E f : Is(f, k) }
<1>1. N \in Nat
    BY Sizes
<1> HIDE DEF N, next
<1>2. 0 \in S
  <2> DEFINE g == [d \in 0..0 |-> r]
  <2>1. Is(g, 0)
      OBVIOUS
  <2> HIDE DEF g, Is
  <2> QED  BY <1>1, <2>1
<1>3. ASSUME NEW k \in 0..(N - 1), k \in S
      PROVE  k + 1 \in S
  <2>1. PICK f : Is(f, k)
      BY <1>3
  <2> DEFINE g == [d \in 0..(k + 1) |-> IF d = k + 1 THEN next(f[k], k) ELSE f[d]]
  <2>2. ASSUME NEW d \in 0..(k + 1)
        PROVE  g[d] = IF d = 0 THEN r ELSE next(g[d - 1], d - 1)
    <3>1. CASE d = 0
        BY <1>1, <2>1, <3>1
    <3>2. CASE d = k + 1
      <4>1. d - 1 = k /\ k \in 0..(k + 1) /\ k # k + 1 /\ d # 0
          BY <1>1, <3>2
      <4>2. g[d - 1] = f[k]
          BY <4>1
      <4> QED  BY <3>2, <4>1, <4>2
    <3>3. CASE d # 0 /\ d # k + 1
      <4>1. d \in 0..k /\ d - 1 \in 0..(k + 1) /\ d - 1 # k + 1
          BY <1>1, <3>3
      <4>2. g[d] = f[d] /\ g[d - 1] = f[d - 1]
          BY <3>3, <4>1
      <4> HIDE DEF g
      <4> QED  BY <2>1, <3>3, <4>1, <4>2
    <3> QED  BY <3>1, <3>2, <3>3
  <2>3. Is(g, k + 1)
    <3>1. g = [d \in 0..(k + 1) |-> g[d]]
        OBVIOUS
    <3> HIDE DEF g
    <3> QED  BY <2>2, <3>1
  <2>4. k + 1 \in 0..N
      BY <1>1
  <2> HIDE DEF g, Is
  <2> QED  BY <2>3, <2>4
<1>4. N \in S
  <2> HIDE DEF S
  <2>1. \A k \in 0..N : k \in S
      BY <1>1, <1>2, <1>3, InductionTo
  <2> QED  BY <1>1, <2>1
<1> DEFINE at == CHOOSE f : Is(f, N)
<1>5. Descend(nodes, r, path) = at
    BY DEF Descend, N, next
<1>6. Is(at, N)
  <2>1. \E f : Is(f, N)
      BY <1>4
  <2> HIDE DEF Is
  <2> QED  BY <2>1
<1> HIDE DEF at
<1>7. at[0] = r
    BY <1>1, <1>6
<1>8. ASSUME NEW d \in Depths
      PROVE  at[d + 1] = next(at[d], d)
  <2>1. d + 1 \in 0..N /\ d + 1 # 0 /\ (d + 1) - 1 = d
      BY Sizes DEF N
  <2> QED  BY <1>6, <2>1
<1> QED  BY <1>5, <1>7, <1>8 DEF next

(* The data of an update goes from the leaf up.                            *)
LEMMA UpdateDef ==
    ASSUME NEW path, NEW v, NEW side
    PROVE  LET data == UpdateWithSideNodes(path, v, side)
           IN  /\ DOMAIN data = 0..(Height - 1)
               /\ data[Height - 1] = Leaf(v)
               /\ \A d \in Depths : data[d] = Join(path, d, Digest(data[d + 1]), side[d])
<1> DEFINE N == Height - 1
           next(x, d) == Join(path, d, Digest(x), side[d])
           Is(f, k) == f = [d \in k..N |-> IF d = N THEN Leaf(v) ELSE next(f[d + 1], d)]
           S == { k \in 0..N : \E f : Is(f, k) }
<1>1. N \in Nat
    BY Sizes
<1> HIDE DEF N, next
<1>2. N \in S
  <2> DEFINE g == [d \in N..N |-> Leaf(v)]
  <2>1. Is(g, N)
      BY <1>1
  <2> HIDE DEF g, Is
  <2> QED  BY <1>1, <2>1
<1>3. ASSUME NEW k \in 0..(N - 1), k + 1 \in S
      PROVE  k \in S
  <2>1. PICK f : Is(f, k + 1)
      BY <1>3
  <2> DEFINE g == [d \in k..N |-> IF d = k THEN next(f[k + 1], k) ELSE f[d]]
  <2>2. ASSUME NEW d \in k..N
        PROVE  g[d] = IF d = N THEN Leaf(v) ELSE next(g[d + 1], d)
    <3>1. CASE d = N
      <4>1. d # k /\ d \in (k + 1)..N
          BY <1>1, <3>1
      <4>2. g[d] = f[d]
          BY <4>1
      <4> HIDE DEF g
      <4> QED  BY <2>1, <3>1, <4>1, <4>2
    <3>2. CASE d # N
      <4>1. d + 1 \in k..N /\ d + 1 # k
          BY <1>1, <3>2
      <4>2. g[d + 1] = f[d + 1]
          BY <4>1
      <4>3. CASE d = k
          BY <3>2, <4>2, <4>3
      <4>4. CASE d # k
        <5>1. d \in (k + 1)..N
            BY <1>1, <4>4
        <5>2. g[d] = f[d]
            BY <4>4
        <5> HIDE DEF g
        <5> QED  BY <2>1, <3>2, <4>2, <5>1, <5>2
      <4> QED  BY <4>3, <4>4
    <3> QED  BY <3>1, <3>2
  <2>3. Is(g, k)
    <3>1. g = [d \in k..N |-> g[d]]
        OBVIOUS
    <3> HIDE DEF g
    <3> QED  BY <2>2, <3>1
  <2>4. k \in 0..N
      BY <1>1
  <2> HIDE DEF g, Is
  <2> QED  BY <2>3, <2>4
<1>4. 0 \in S
  <2> HIDE DEF S
  <2>1. \A k \in 0..N : k \in S
      BY <1>1, <1>2, <1>3, InductionDown
  <2> QED  BY <1>1, <2>1
<1> DEFINE data == CHOOSE f : Is(f, 0)
<1>5. UpdateWithSideNodes(path, v, side) = data
    BY DEF UpdateWithSideNodes, N, next
<1>6. Is(data, 0)
  <2>1. \E f : Is(f, 0)
      BY <1>4
  <2> HIDE DEF Is
  <2> QED  BY <2>1
<1> HIDE DEF data
<1>7. DOMAIN data = 0..N /\ data[N] = Leaf(v)
    BY <1>1, <1>6
<1>8. ASSUME NEW d \in Depths
      PROVE  data[d] = next(data[d + 1], d)
  <2>1. d \in 0..N /\ d # N
      BY Sizes DEF N
  <2> QED  BY <1>6, <2>1
<1> QED  BY <1>5, <1>7, <1>8 DEF next, N

(* The data of a node of the Merkle tree of a map.                         *)
NodeData(paths, map, d, t) ==
    IF d = Height - 1 THEN Leaf(ValueAt(paths, map, t))
    ELSE Inner(MerkleTree(paths, map)[d + 1][Turn(t, d, TRUE)],
               MerkleTree(paths, map)[d + 1][Turn(t, d, FALSE)])

(* The places of the nodes of a level: all the turns there are.            *)
Places(d) == [0..(d - 1) -> BOOLEAN]

(* A node of the Merkle tree is the digest of its data.                    *)
LEMMA TreeDef ==
    ASSUME NEW paths, NEW map, NEW d \in 0..(Height - 1), NEW t \in Places(d)
    PROVE  MerkleTree(paths, map)[d][t] = Digest(NodeData(paths, map, d, t))
<1> DEFINE N == Height - 1
           make(above, e, u) == Digest(IF e = N THEN Leaf(ValueAt(paths, map, u))
                                       ELSE Inner(above[Turn(u, e, TRUE)], above[Turn(u, e, FALSE)]))
           next(above, e) == [u \in Places(e) |-> make(above, e, u)]
           Is(f, k) == f = [e \in k..N |-> next(f[e + 1], e)]
           S == { k \in 0..N : \E f : Is(f, k) }
<1>1. N \in Nat
    BY Sizes
<1>0. ASSUME NEW x, NEW y
      PROVE  next(x, N) = next(y, N)
    OBVIOUS
<1> HIDE DEF N, next
<1>2. N \in S
  <2> DEFINE g == [e \in N..N |-> next(N, N)]
  <2>1. Is(g, N)
    <3>1. \A e \in N..N : e = N /\ next(g[e + 1], e) = next(N, N)
      <4>1. \A e \in N..N : e = N
          BY <1>1
      <4> HIDE DEF g
      <4>2. next(g[N + 1], N) = next(N, N)
          BY <1>0
      <4> QED  BY <4>1, <4>2
    <3> QED  BY <3>1
  <2> HIDE DEF g, Is
  <2> QED  BY <1>1, <2>1
<1>3. ASSUME NEW k \in 0..(N - 1), k + 1 \in S
      PROVE  k \in S
  <2>1. PICK f : Is(f, k + 1)
      BY <1>3
  <2> DEFINE g == [e \in k..N |-> IF e = k THEN next(f[k + 1], k) ELSE f[e]]
  <2>2. ASSUME NEW e \in k..N
        PROVE  g[e] = next(g[e + 1], e)
    <3>1. CASE e = N
      <4>1. e # k /\ e \in (k + 1)..N
          BY <1>1, <3>1
      <4>2. g[e] = f[e]
          BY <4>1
      <4> HIDE DEF g
      <4>3. f[e] = next(f[e + 1], e)
          BY <2>1, <4>1
      <4> QED  BY <1>0, <3>1, <4>2, <4>3
    <3>2. CASE e # N
      <4>1. e + 1 \in k..N /\ e + 1 # k
          BY <1>1, <3>2
      <4>2. g[e + 1] = f[e + 1]
          BY <4>1
      <4>3. CASE e = k
          BY <4>2, <4>3
      <4>4. CASE e # k
        <5>1. e \in (k + 1)..N
            BY <1>1, <4>4
        <5>2. g[e] = f[e]
            BY <4>4
        <5> HIDE DEF g
        <5> QED  BY <2>1, <4>2, <5>1, <5>2
      <4> QED  BY <4>3, <4>4
    <3> QED  BY <3>1, <3>2
  <2>3. Is(g, k)
    <3>1. g = [e \in k..N |-> g[e]]
        OBVIOUS
    <3> HIDE DEF g
    <3> QED  BY <2>2, <3>1
  <2>4. k \in 0..N
      BY <1>1
  <2> HIDE DEF g, Is
  <2> QED  BY <2>3, <2>4
<1>4. 0 \in S
  <2> HIDE DEF S
  <2>1. \A k \in 0..N : k \in S
      BY <1>1, <1>2, <1>3, InductionDown
  <2> QED  BY <1>1, <2>1
<1> DEFINE level == CHOOSE f : Is(f, 0)
<1>5. MerkleTree(paths, map) = level
    BY DEF MerkleTree, N, next, Places
<1>6. Is(level, 0)
  <2>1. \E f : Is(f, 0)
      BY <1>4
  <2> HIDE DEF Is
  <2> QED  BY <2>1
<1> HIDE DEF level
<1>7. d \in 0..N
    BY DEF N
<1>8. level[d] = next(level[d + 1], d)
    BY <1>6, <1>7
<1>9. level[d][t] = make(level[d + 1], d, t)
    BY <1>8 DEF next
<1> QED  BY <1>5, <1>9 DEF NodeData, N

-----------------------------------------------------------------------------
(* Turns                                                                   *)

(* Turns are places.                                                       *)
LEMMA TurnsTyped ==
    ASSUME NEW path, NEW d \in Nat
    PROVE  Turns(path, d) \in Places(d)
<1>1. \A e : IsLeft(path, e) \in BOOLEAN
    BY DEF IsLeft
<1> QED  BY <1>1 DEF Turns, Places

(* One turn leads from a place to a place a level below.                   *)
LEMMA TurnTyped ==
    ASSUME NEW d \in Nat, NEW t \in Places(d), NEW left \in BOOLEAN
    PROVE  Turn(t, d, left) \in Places(d + 1)
<1>1. 0..((d + 1) - 1) = 0..d /\ \A e \in 0..d : e # d => e \in 0..(d - 1)
    OBVIOUS
<1> QED  BY <1>1 DEF Turn, Places

(* A place is on a path when the place above it is and the turn is right.  *)
LEMMA TurnOnPath ==
    ASSUME NEW path, NEW d \in Nat, NEW t \in Places(d), NEW left \in BOOLEAN
    PROVE  Turn(t, d, left) = Turns(path, d + 1) <=> t = Turns(path, d) /\ left = IsLeft(path, d)
<1>1. 0..((d + 1) - 1) = 0..d /\ \A e \in 0..(d - 1) : e \in 0..d /\ e # d
    OBVIOUS
<1>2. t = [e \in 0..(d - 1) |-> t[e]]
    BY DEF Places
<1>3. ASSUME Turn(t, d, left) = Turns(path, d + 1)
      PROVE  t = Turns(path, d) /\ left = IsLeft(path, d)
  <2>1. ASSUME NEW e \in 0..d
        PROVE  (IF e = d THEN left ELSE t[e]) = IsLeft(path, e)
    <3>1. Turn(t, d, left)[e] = IF e = d THEN left ELSE t[e]
        BY DEF Turn
    <3>2. Turns(path, d + 1)[e] = IsLeft(path, e)
        BY <1>1 DEF Turns
    <3> QED  BY <1>3, <3>1, <3>2
  <2>2. left = IsLeft(path, d)
      BY <2>1
  <2>3. \A e \in 0..(d - 1) : t[e] = IsLeft(path, e)
      BY <1>1, <2>1
  <2> QED  BY <1>2, <2>2, <2>3 DEF Turns
<1>4. ASSUME t = Turns(path, d), left = IsLeft(path, d)
      PROVE  Turn(t, d, left) = Turns(path, d + 1)
  <2>1. ASSUME NEW e \in 0..d
        PROVE  (IF e = d THEN left ELSE t[e]) = IsLeft(path, e)
    <3>1. CASE e = d
        BY <1>4, <3>1
    <3>2. CASE e # d
      <4>1. e \in 0..(d - 1)
          BY <3>2
      <4> QED  BY <1>4, <3>2, <4>1 DEF Turns
    <3> QED  BY <3>1, <3>2
  <2> QED  BY <1>1, <2>1 DEF Turn, Turns
<1> QED  BY <1>3, <1>4

(* Before the first turn all paths are at the root.                        *)
LEMMA NoTurns ==
    ASSUME NEW p, NEW q
    PROVE  Turns(p, 0) = Turns(q, 0)
<1>1. 0..(0 - 1) = {}
    OBVIOUS
<1> QED  BY <1>1 DEF Turns

-----------------------------------------------------------------------------
(* The nodes of a Merkle tree                                              *)

(* A leaf holds the value at its place, an inner node the hashes of the    *)
(* two nodes below it.                                                     *)
LEMMA NodeShape ==
    ASSUME NEW paths, NEW map
    PROVE  /\ \A t : NodeData(paths, map, Height - 1, t) = Leaf(ValueAt(paths, map, t))
           /\ \A d \in Depths : \A t \in Places(d) :
                 NodeData(paths, map, d, t)
                   = Inner(Digest(NodeData(paths, map, d + 1, Turn(t, d, TRUE))),
                           Digest(NodeData(paths, map, d + 1, Turn(t, d, FALSE))))
           /\ \A d, t : IsData(NodeData(paths, map, d, t))
<1>1. ASSUME NEW d \in Depths, NEW t \in Places(d)
      PROVE  NodeData(paths, map, d, t)
                = Inner(Digest(NodeData(paths, map, d + 1, Turn(t, d, TRUE))),
                        Digest(NodeData(paths, map, d + 1, Turn(t, d, FALSE))))
  <2>1. d \in Nat /\ d # Height - 1 /\ d + 1 \in 0..(Height - 1)
      BY Sizes
  <2>2. Turn(t, d, TRUE) \in Places(d + 1) /\ Turn(t, d, FALSE) \in Places(d + 1)
      BY <2>1, TurnTyped
  <2>3. NodeData(paths, map, d, t) = Inner(MerkleTree(paths, map)[d + 1][Turn(t, d, TRUE)],
                                           MerkleTree(paths, map)[d + 1][Turn(t, d, FALSE)])
      BY <2>1 DEF NodeData
  <2> QED  BY <2>1, <2>2, <2>3, TreeDef
<1>2. \A d, t : IsData(NodeData(paths, map, d, t))
    BY Shapes DEF NodeData
<1>3. \A t : NodeData(paths, map, Height - 1, t) = Leaf(ValueAt(paths, map, t))
    BY DEF NodeData
<1> QED  BY <1>1, <1>2, <1>3

(* The child of a node is the hash of the node one turn on.                *)
LEMMA ChildOfNode ==
    ASSUME NEW paths, NEW map, NEW d \in Depths, NEW t \in Places(d), NEW left \in BOOLEAN
    PROVE  Child(NodeData(paths, map, d, t), left)
             = Digest(NodeData(paths, map, d + 1, Turn(t, d, left)))
<1>1. NodeData(paths, map, d, t)
        = Inner(Digest(NodeData(paths, map, d + 1, Turn(t, d, TRUE))),
                Digest(NodeData(paths, map, d + 1, Turn(t, d, FALSE))))
    BY NodeShape
<1> DEFINE l == Digest(NodeData(paths, map, d + 1, Turn(t, d, TRUE)))
           r == Digest(NodeData(paths, map, d + 1, Turn(t, d, FALSE)))
<1>2. Child(NodeData(paths, map, d, t), left) = IF left THEN l ELSE r
  <2> HIDE DEF l, r
  <2>1. /\ DOMAIN Inner(l, r) = {"left", "right"}
        /\ Inner(l, r).left = l /\ Inner(l, r).right = r
      BY Shapes
  <2>2. Child(Inner(l, r), left) = IF left THEN l ELSE r
      BY <2>1 DEF Child
  <2>3. NodeData(paths, map, d, t) = Inner(l, r)
      BY <1>1 DEF l, r
  <2> QED  BY <2>2, <2>3
<1>3. CASE left = TRUE
    BY <1>2, <1>3
<1>4. CASE left = FALSE
    BY <1>2, <1>4
<1> QED  BY <1>3, <1>4

(* The root.                                                               *)
RootOf(paths, map) == MerkleTree(paths, map)[0][Turns(0, 0)]

(* It is where every path begins.                                          *)
LEMMA RootNode ==
    ASSUME NEW paths, NEW map, NEW path
    PROVE  RootOf(paths, map) = Digest(NodeData(paths, map, 0, Turns(path, 0)))
<1>1. 0 \in 0..(Height - 1) /\ Turns(path, 0) \in Places(0) /\ Turns(0, 0) = Turns(path, 0)
    BY Sizes, TurnsTyped, NoTurns
<1> QED  BY <1>1, TreeDef DEF RootOf

(* The nodes of a path are in a store.                                     *)
PathStored(nodes, paths, map, path) ==
    \A d \in 0..(Height - 1) : Has(nodes, NodeData(paths, map, d, Turns(path, d)))

(* One step along a path: the child in the direction of the turn is the    *)
(* next node of the path, the other one its sibling.                       *)
LEMMA NextOnPath ==
    ASSUME NEW paths, NEW map, NEW path, NEW d \in Depths
    PROVE  /\ Child(NodeData(paths, map, d, Turns(path, d)), IsLeft(path, d))
                = Digest(NodeData(paths, map, d + 1, Turns(path, d + 1)))
           /\ Child(NodeData(paths, map, d, Turns(path, d)), ~IsLeft(path, d))
                = Digest(NodeData(paths, map, d + 1, Turn(Turns(path, d), d, ~IsLeft(path, d))))
<1>1. d \in Nat
    BY Sizes
<1>2. Turns(path, d) \in Places(d) /\ IsLeft(path, d) \in BOOLEAN /\ (~IsLeft(path, d)) \in BOOLEAN
    BY <1>1, TurnsTyped DEF IsLeft
<1>3. Turn(Turns(path, d), d, IsLeft(path, d)) = Turns(path, d + 1)
    BY <1>1, <1>2, TurnOnPath
<1>4. Child(NodeData(paths, map, d, Turns(path, d)), IsLeft(path, d))
        = Digest(NodeData(paths, map, d + 1, Turn(Turns(path, d), d, IsLeft(path, d))))
    BY <1>2, ChildOfNode
<1>5. Child(NodeData(paths, map, d, Turns(path, d)), ~IsLeft(path, d))
        = Digest(NodeData(paths, map, d + 1, Turn(Turns(path, d), d, ~IsLeft(path, d))))
    BY <1>2, ChildOfNode
<1> QED  BY <1>3, <1>4, <1>5

(* A descent from the root of a stored path goes along it.                 *)
LEMMA DescentFollows ==
    ASSUME NEW nodes, NEW paths, NEW map, NEW path, PathStored(nodes, paths, map, path)
    PROVE  \A d \in 0..(Height - 1) :
              Lookup(nodes, Descend(nodes, RootOf(paths, map), path)[d])
                = NodeData(paths, map, d, Turns(path, d))
<1> DEFINE at == Descend(nodes, RootOf(paths, map), path)
           node(d) == NodeData(paths, map, d, Turns(path, d))
           S == { d \in 0..(Height - 1) : at[d] = Digest(node(d)) }
<1>1. at[0] = RootOf(paths, map)
    BY DescendDef
<1>2. ASSUME NEW d \in Depths
      PROVE  at[d + 1] = Child(Lookup(nodes, at[d]), IsLeft(path, d))
    BY DescendDef
<1>3. ASSUME NEW d \in 0..(Height - 1)
      PROVE  Lookup(nodes, Digest(node(d))) = node(d)
    BY LookupHas DEF PathStored
<1>4. ASSUME NEW d \in Depths
      PROVE  Child(node(d), IsLeft(path, d)) = Digest(node(d + 1))
    BY NextOnPath
<1>5. RootOf(paths, map) = Digest(node(0))
    BY RootNode
<1> HIDE DEF at, node
<1>6. \A d \in 0..(Height - 1) : d \in S
  <2>1. 0 \in S
      BY <1>1, <1>5, Sizes
  <2>2. ASSUME NEW d \in 0..(Height - 1 - 1), d \in S
        PROVE  d + 1 \in S
    <3>1. d \in Depths /\ d \in 0..(Height - 1) /\ d + 1 \in 0..(Height - 1)
        BY Sizes
    <3> QED  BY <1>2, <1>3, <1>4, <2>2, <3>1
  <2>3. Height - 1 \in Nat
      BY Sizes
  <2> HIDE DEF S
  <2> QED  BY <2>1, <2>2, <2>3, InductionTo
<1>7. ASSUME NEW d \in 0..(Height - 1)
      PROVE  Lookup(nodes, at[d]) = node(d)
    BY <1>3, <1>6
<1> QED  BY <1>7 DEF at, node

(* The sibling hashes of a path.                                           *)
Sibling(paths, map, path, d) ==
    Digest(NodeData(paths, map, d + 1, Turn(Turns(path, d), d, ~IsLeft(path, d))))

Siblings(paths, map, path) == [d \in Depths |-> Sibling(paths, map, path, d)]

(* They are what sideNodesForRoot collects.                                *)
LEMMA SidesOfPath ==
    ASSUME NEW nodes, NEW paths, NEW map, NEW path, PathStored(nodes, paths, map, path)
    PROVE  SideNodesForRoot(nodes, path, RootOf(paths, map)) = Siblings(paths, map, path)
<1> DEFINE at == Descend(nodes, RootOf(paths, map), path)
<1>1. ASSUME NEW d \in Depths
      PROVE  Child(Lookup(nodes, at[d]), ~IsLeft(path, d)) = Sibling(paths, map, path, d)
  <2>1. d \in 0..(Height - 1)
      BY Sizes
  <2>2. Lookup(nodes, at[d]) = NodeData(paths, map, d, Turns(path, d))
      BY <2>1, DescentFollows
  <2> QED  BY <2>2, NextOnPath DEF Sibling
<1> QED  BY <1>1 DEF SideNodesForRoot, Siblings

(* The paths of no two keys are the same.                                  *)
KeysApart(paths) ==
    \A k1, k2 \in Keys : k1 # k2 => \E d \in Depths : IsLeft(paths[k1], d) # IsLeft(paths[k2], d)

(* The place at the end of the path of a key is that of its value.         *)
LEMMA ValueOfKey ==
    ASSUME NEW paths, KeysApart(paths), NEW map, NEW k \in Keys
    PROVE  ValueAt(paths, map, Turns(paths[k], Height - 1)) = map[k]
<1> DEFINE N == Height - 1
           here == { j \in Keys : Turns(paths[j], N) = Turns(paths[k], N) }
<1>1. ASSUME NEW j \in Keys, Turns(paths[j], N) = Turns(paths[k], N)
      PROVE  j = k
  <2>1. ASSUME NEW d \in Depths
        PROVE  IsLeft(paths[j], d) = IsLeft(paths[k], d)
    <3>1. d \in 0..(N - 1)
        BY Sizes
    <3>2. Turns(paths[j], N)[d] = IsLeft(paths[j], d) /\ Turns(paths[k], N)[d] = IsLeft(paths[k], d)
        BY <3>1 DEF Turns
    <3> QED  BY <1>1, <3>2
  <2> QED  BY <2>1 DEF KeysApart
<1>2. here = {k}
    BY <1>1
<1>3. (CHOOSE j \in here : TRUE) = k
    BY <1>2
<1>4. ValueAt(paths, map, Turns(paths[k], N))
        = IF here = {} THEN DefaultValue ELSE map[CHOOSE j \in here : TRUE]
    BY DEF ValueAt
<1> QED  BY <1>2, <1>3, <1>4

(* A read at the root of a stored path yields the value of the map.        *)
LEMMA ReadOfPath ==
    ASSUME NEW nodes, NEW paths, KeysApart(paths), NEW map, NEW k \in Keys,
           PathStored(nodes, paths, map, paths[k])
    PROVE  GetForRoot(nodes, paths[k], RootOf(paths, map)) = Leaf(map[k])
<1>1. Height - 1 \in 0..(Height - 1)
    BY Sizes
<1>2. GetForRoot(nodes, paths[k], RootOf(paths, map))
        = NodeData(paths, map, Height - 1, Turns(paths[k], Height - 1))
    BY <1>1, DescentFollows DEF GetForRoot
<1>3. NodeData(paths, map, Height - 1, Turns(paths[k], Height - 1))
        = Leaf(ValueAt(paths, map, Turns(paths[k], Height - 1)))
    BY NodeShape
<1>4. ValueAt(paths, map, Turns(paths[k], Height - 1)) = map[k]
    BY ValueOfKey
<1> QED  BY <1>2, <1>3, <1>4

-----------------------------------------------------------------------------
(* Updates and verification                                                *)

(* The halves of a joined node can be told apart.                          *)
LEMMA JoinInjective ==
    ASSUME NEW path, NEW d, NEW h, NEW side, NEW h2, NEW side2,
           Join(path, d, h, side) = Join(path, d, h2, side2)
    PROVE  h = h2 /\ side = side2
<1>1. CASE IsLeft(path, d)
  <2>1. Inner(h, side) = Inner(h2, side2)
      BY <1>1 DEF Join
  <2>2. /\ Inner(h, side).left = h /\ Inner(h, side).right = side
        /\ Inner(h2, side2).left = h2 /\ Inner(h2, side2).right = side2
      BY Shapes
  <2> QED  BY <2>1, <2>2
<1>2. CASE ~IsLeft(path, d)
  <2>1. Inner(side, h) = Inner(side2, h2)
      BY <1>2 DEF Join
  <2>2. /\ Inner(side, h).left = side /\ Inner(side, h).right = h
        /\ Inner(side2, h2).left = side2 /\ Inner(side2, h2).right = h2
      BY Shapes
  <2> QED  BY <2>1, <2>2
<1> QED  BY <1>1, <1>2

(* A node on a path joins the next node of the path and its sibling.       *)
LEMMA NodeJoin ==
    ASSUME NEW paths, NEW map, NEW path, NEW d \in Depths
    PROVE  NodeData(paths, map, d, Turns(path, d))
             = Join(path, d, Digest(NodeData(paths, map, d + 1, Turns(path, d + 1))),
                    Sibling(paths, map, path, d))
<1> DEFINE t == Turns(path, d)
           below(left) == Digest(NodeData(paths, map, d + 1, Turn(t, d, left)))
<1>1. d \in Nat
    BY Sizes
<1>2. t \in Places(d) /\ IsLeft(path, d) \in BOOLEAN
    BY <1>1, TurnsTyped DEF IsLeft
<1>3. Turn(t, d, IsLeft(path, d)) = Turns(path, d + 1)
    BY <1>1, <1>2, TurnOnPath
<1>4. NodeData(paths, map, d, t) = Inner(below(TRUE), below(FALSE))
    BY <1>2, NodeShape
<1>5. /\ Digest(NodeData(paths, map, d + 1, Turns(path, d + 1))) = below(IsLeft(path, d))
      /\ Sibling(paths, map, path, d) = below(~IsLeft(path, d))
    BY <1>3 DEF Sibling
<1> HIDE DEF t, below
<1>6. CASE IsLeft(path, d) = TRUE
  <2>1. (~IsLeft(path, d)) = FALSE
      BY <1>6
  <2>2. below(IsLeft(path, d)) = below(TRUE) /\ below(~IsLeft(path, d)) = below(FALSE)
      BY <1>6, <2>1
  <2> QED  BY <1>4, <1>5, <1>6, <2>2 DEF Join, t
<1>7. CASE IsLeft(path, d) = FALSE
  <2>1. (~IsLeft(path, d)) = TRUE
      BY <1>7
  <2>2. below(IsLeft(path, d)) = below(FALSE) /\ below(~IsLeft(path, d)) = below(TRUE)
      BY <1>7, <2>1
  <2> QED  BY <1>4, <1>5, <1>7, <2>2 DEF Join, t
<1> QED  BY <1>2, <1>6, <1>7

(* Two maps that differ at one key at most.                                *)
SameButFor(map, map2, k) == \A j \in Keys : j # k => map2[j] = map[j]

(* Their trees differ along the path of that key at most.                  *)
LEMMA OffPath ==
    ASSUME NEW paths, NEW map, NEW map2, NEW k \in Keys, SameButFor(map, map2, k)
    PROVE  \A d \in 0..(Height - 1) : \A t \in Places(d) :
              t # Turns(paths[k], d) => NodeData(paths, map2, d, t) = NodeData(paths, map, d, t)
<1> DEFINE N == Height - 1
           Same(d) == \A t \in Places(d) : t # Turns(paths[k], d) =>
                         NodeData(paths, map2, d, t) = NodeData(paths, map, d, t)
           S == { d \in 0..N : Same(d) }
<1>1. N \in S
  <2>1. ASSUME NEW t \in Places(N), t # Turns(paths[k], N)
        PROVE  NodeData(paths, map2, N, t) = NodeData(paths, map, N, t)
    <3> DEFINE here == { j \in Keys : Turns(paths[j], N) = t }
               one == CHOOSE j \in here : TRUE
    <3>1. ValueAt(paths, map2, t) = (IF here = {} THEN DefaultValue ELSE map2[one])
          /\ ValueAt(paths, map, t) = (IF here = {} THEN DefaultValue ELSE map[one])
        BY DEF ValueAt
    <3>2. ASSUME here # {} PROVE map2[one] = map[one]
      <4>1. one \in here
          BY <3>2
      <4>2. one \in Keys /\ one # k
          BY <2>1, <4>1
      <4> QED  BY <4>2 DEF SameButFor
    <3>3. ValueAt(paths, map2, t) = ValueAt(paths, map, t)
        BY <3>1, <3>2
    <3>4. NodeData(paths, map2, N, t) = Leaf(ValueAt(paths, map2, t))
          /\ NodeData(paths, map, N, t) = Leaf(ValueAt(paths, map, t))
        BY NodeShape
    <3> QED  BY <3>3, <3>4
  <2>2. N \in 0..N
      BY Sizes
  <2> QED  BY <2>1, <2>2
<1>2. ASSUME NEW d \in 0..(N - 1), d + 1 \in S
      PROVE  d \in S
  <2>1. d \in Depths /\ d \in Nat /\ d \in 0..N
      BY Sizes
  <2>2. ASSUME NEW t \in Places(d), t # Turns(paths[k], d)
        PROVE  NodeData(paths, map2, d, t) = NodeData(paths, map, d, t)
    <3>1. ASSUME NEW left \in BOOLEAN
          PROVE  NodeData(paths, map2, d + 1, Turn(t, d, left))
                   = NodeData(paths, map, d + 1, Turn(t, d, left))
      <4>1. Turn(t, d, left) \in Places(d + 1)
          BY <2>1, TurnTyped
      <4>2. Turn(t, d, left) # Turns(paths[k], d + 1)
          BY <2>1, <2>2, TurnOnPath
      <4>3. Same(d + 1)
          BY <1>2
      <4> QED  BY <4>1, <4>2, <4>3
    <3>2. /\ NodeData(paths, map2, d + 1, Turn(t, d, TRUE))
               = NodeData(paths, map, d + 1, Turn(t, d, TRUE))
          /\ NodeData(paths, map2, d + 1, Turn(t, d, FALSE))
               = NodeData(paths, map, d + 1, Turn(t, d, FALSE))
        BY <3>1
    <3>3. NodeData(paths, map2, d, t)
            = Inner(Digest(NodeData(paths, map2, d + 1, Turn(t, d, TRUE))),
                    Digest(NodeData(paths, map2, d + 1, Turn(t, d, FALSE))))
        BY <2>1, NodeShape
    <3>4. NodeData(paths, map, d, t)
            = Inner(Digest(NodeData(paths, map, d + 1, Turn(t, d, TRUE))),
                    Digest(NodeData(paths, map, d + 1, Turn(t, d, FALSE))))
        BY <2>1, NodeShape
    <3> QED  BY <3>2, <3>3, <3>4
  <2> QED  BY <2>1, <2>2
<1>3. \A d \in 0..N : d \in S
  <2>1. N \in Nat
      BY Sizes
  <2> HIDE DEF S, N
  <2> QED  BY <1>1, <1>2, <2>1, InductionDown
<1> QED  BY <1>3

(* The siblings along that path are the same.                              *)
LEMMA SiblingsKept ==
    ASSUME NEW paths, NEW map, NEW map2, NEW k \in Keys, SameButFor(map, map2, k),
           NEW d \in Depths
    PROVE  Sibling(paths, map2, paths[k], d) = Sibling(paths, map, paths[k], d)
<1> DEFINE path == paths[k]
           t == Turn(Turns(path, d), d, ~IsLeft(path, d))
<1>1. d \in Nat /\ d + 1 \in 0..(Height - 1)
    BY Sizes
<1>2. Turns(path, d) \in Places(d) /\ (~IsLeft(path, d)) \in BOOLEAN
    BY <1>1, TurnsTyped DEF IsLeft
<1>3. t \in Places(d + 1)
    BY <1>1, <1>2, TurnTyped
<1>4. t # Turns(path, d + 1)
  <2>1. (~IsLeft(path, d)) # IsLeft(path, d)
      BY DEF IsLeft
  <2> QED  BY <1>1, <1>2, <2>1, TurnOnPath
<1> HIDE DEF t
<1>5. NodeData(paths, map2, d + 1, t) = NodeData(paths, map, d + 1, t)
    BY <1>1, <1>3, <1>4, OffPath
<1> QED  BY <1>5 DEF Sibling, t

(* The data that an update writes are the nodes of the path of the key in  *)
(* the Merkle tree of the new map.                                         *)
LEMMA UpdateOnPath ==
    ASSUME NEW paths, KeysApart(paths), NEW map, NEW map2, NEW k \in Keys,
           SameButFor(map, map2, k), NEW v, map2[k] = v
    PROVE  \A d \in 0..(Height - 1) :
              UpdateWithSideNodes(paths[k], v, Siblings(paths, map, paths[k]))[d]
                = NodeData(paths, map2, d, Turns(paths[k], d))
<1> DEFINE N == Height - 1
           path == paths[k]
           side == Siblings(paths, map, path)
           data == UpdateWithSideNodes(path, v, side)
           node(d) == NodeData(paths, map2, d, Turns(path, d))
           S == { d \in 0..N : data[d] = node(d) }
<1>1. data[N] = Leaf(v) /\ \A d \in Depths : data[d] = Join(path, d, Digest(data[d + 1]), side[d])
    BY UpdateDef
<1>2. N \in S
  <2>1. node(N) = Leaf(ValueAt(paths, map2, Turns(path, N)))
      BY NodeShape
  <2>2. ValueAt(paths, map2, Turns(path, N)) = v
      BY ValueOfKey
  <2>3. N \in 0..N
      BY Sizes
  <2> QED  BY <1>1, <2>1, <2>2, <2>3
<1>3. ASSUME NEW d \in 0..(N - 1), d + 1 \in S
      PROVE  d \in S
  <2>1. d \in Depths /\ d \in 0..N
      BY Sizes
  <2>2. side[d] = Sibling(paths, map, path, d)
      BY <2>1 DEF Siblings
  <2>3. side[d] = Sibling(paths, map2, path, d)
      BY <2>1, <2>2, SiblingsKept
  <2>4. node(d) = Join(path, d, Digest(node(d + 1)), Sibling(paths, map2, path, d))
      BY <2>1, NodeJoin
  <2> HIDE DEF data, node, side
  <2> QED  BY <1>1, <1>3, <2>1, <2>3, <2>4
<1>4. \A d \in 0..N : d \in S
  <2>1. N \in Nat
      BY Sizes
  <2> HIDE DEF S, N
  <2> QED  BY <1>2, <1>3, <2>1, InductionDown
<1> QED  BY <1>4

(* Whatever the siblings: data that lead to a root of a tree are the nodes *)
(* of a path in it.                                                        *)
LEMMA Rebuilt ==
    ASSUME NEW paths, NEW map, NEW path, NEW v, NEW side,
           NewRoot(UpdateWithSideNodes(path, v, side)) = RootOf(paths, map)
    PROVE  \A d \in 0..(Height - 1) :
              UpdateWithSideNodes(path, v, side)[d] = NodeData(paths, map, d, Turns(path, d))
<1> DEFINE N == Height - 1
           data == UpdateWithSideNodes(path, v, side)
           node(d) == NodeData(paths, map, d, Turns(path, d))
           S == { d \in 0..N : data[d] = node(d) }
<1>1. data[N] = Leaf(v) /\ \A d \in Depths : data[d] = Join(path, d, Digest(data[d + 1]), side[d])
    BY UpdateDef
<1>2. \A d \in 0..N : IsData(data[d])
  <2>1. \A d \in 0..N : d = N \/ d \in Depths
      BY Sizes
  <2>2. \A d, h, s : IsData(Join(path, d, h, s))
      BY Shapes DEF Join
  <2>3. IsData(Leaf(v))
      BY Shapes
  <2> HIDE DEF data
  <2> QED  BY <1>1, <2>1, <2>2, <2>3
<1>3. \A d : IsData(node(d))
    BY NodeShape
<1>4. 0 \in S
  <2>1. 0 \in 0..N
      BY Sizes
  <2>2. Digest(data[0]) = Digest(node(0))
      BY RootNode DEF NewRoot
  <2> HIDE DEF data, node
  <2> QED  BY <1>2, <1>3, <2>1, <2>2, DigestInjective
<1>5. ASSUME NEW d \in 0..(N - 1), d \in S
      PROVE  d + 1 \in S
  <2>1. d \in Depths /\ d + 1 \in 0..N
      BY Sizes
  <2>2. node(d) = Join(path, d, Digest(node(d + 1)), Sibling(paths, map, path, d))
      BY <2>1, NodeJoin
  <2>3. data[d] = Join(path, d, Digest(data[d + 1]), side[d])
      BY <1>1, <2>1
  <2> HIDE DEF data, node
  <2>4. Join(path, d, Digest(data[d + 1]), side[d])
          = Join(path, d, Digest(node(d + 1)), Sibling(paths, map, path, d))
      BY <1>5, <2>2, <2>3
  <2>5. Digest(data[d + 1]) = Digest(node(d + 1))
      BY <2>4, JoinInjective
  <2>6. data[d + 1] = node(d + 1)
      BY <1>2, <1>3, <2>1, <2>5, DigestInjective
  <2> QED  BY <2>1, <2>6
<1>6. \A d \in 0..N : d \in S
  <2>1. N \in Nat
      BY Sizes
  <2> HIDE DEF S, N
  <2> QED  BY <1>4, <1>5, <2>1, InductionTo
<1> QED  BY <1>6

(* Trees of the same root are of maps that agree about every key.          *)
LEMMA SameRoot ==
    ASSUME NEW paths, KeysApart(paths), NEW map, NEW map2,
           RootOf(paths, map) = RootOf(paths, map2), NEW k \in Keys
    PROVE  map[k] = map2[k]
<1> DEFINE path == paths[k]
           data == UpdateWithSideNodes(path, map[k], Siblings(paths, map, path))
<1>1. SameButFor(map, map, k)
    BY DEF SameButFor
<1>2. \A d \in 0..(Height - 1) : data[d] = NodeData(paths, map, d, Turns(path, d))
    BY <1>1, UpdateOnPath
<1>3. 0 \in 0..(Height - 1) /\ Height - 1 \in 0..(Height - 1)
    BY Sizes
<1>4. NewRoot(data) = RootOf(paths, map)
    BY <1>2, <1>3, RootNode DEF NewRoot
<1>5. \A d \in 0..(Height - 1) : data[d] = NodeData(paths, map2, d, Turns(path, d))
    BY <1>4, Rebuilt
<1>6. NodeData(paths, map, Height - 1, Turns(path, Height - 1))
        = NodeData(paths, map2, Height - 1, Turns(path, Height - 1))
    BY <1>2, <1>3, <1>5
<1>7. Leaf(ValueAt(paths, map, Turns(path, Height - 1)))
        = Leaf(ValueAt(paths, map2, Turns(path, Height - 1)))
    BY <1>6, NodeShape
<1>8. Leaf(map[k]) = Leaf(map2[k])
    BY <1>7, ValueOfKey
<1>9. Leaf(map[k]).value = map[k] /\ Leaf(map2[k]).value = map2[k]
    BY Shapes
<1> QED  BY <1>8, <1>9

-----------------------------------------------------------------------------
(* Default nodes                                                           *)

(* The level in the default nodes of a node at some depth.                 *)
DefaultLevel(d) == HashBits - Height + d

(* The levels of the depths are levels of default nodes, the last one that *)
(* of the leaf.                                                            *)
LEMMA Levels ==
    /\ DefaultLevel(Height - 1) = HashBits - 1
    /\ \A d \in 0..(Height - 1) : DefaultLevel(d) \in Int
    /\ \A d \in Depths : /\ DefaultLevel(d + 1) \in 1..(HashBits - 1)
                         /\ DefaultLevel(d + 1) \in (HashBits - Height + 1)..(HashBits - 1)
                         /\ DefaultLevel(d + 1) - 1 = DefaultLevel(d)
BY Sizes DEF DefaultLevel

(* The nodes of the tree of the empty map.                                 *)
LEMMA EmptyTree ==
    ASSUME NEW paths
    PROVE  \A d \in 0..(Height - 1) : \A t \in Places(d) :
              /\ NodeData(paths, EmptyMap, d, t)
                   = (IF d = Height - 1 THEN Leaf(DefaultValue)
                      ELSE Inner(DefaultNode(DefaultLevel(d + 1)), DefaultNode(DefaultLevel(d + 1))))
              /\ Digest(NodeData(paths, EmptyMap, d, t)) = DefaultNode(DefaultLevel(d))
<1> DEFINE N == Height - 1
           node(d, t) == NodeData(paths, EmptyMap, d, t)
           pair(d) == Inner(DefaultNode(DefaultLevel(d + 1)), DefaultNode(DefaultLevel(d + 1)))
           Good(d) == \A t \in Places(d) :
                         /\ node(d, t) = IF d = N THEN Leaf(DefaultValue) ELSE pair(d)
                         /\ Digest(node(d, t)) = DefaultNode(DefaultLevel(d))
           S == { d \in 0..N : Good(d) }
<1>1. N \in S
  <2>1. ASSUME NEW t \in Places(N)
        PROVE  node(N, t) = Leaf(DefaultValue)
    <3> DEFINE here == { j \in Keys : Turns(paths[j], N) = t }
               one == CHOOSE j \in here : TRUE
    <3>1. ValueAt(paths, EmptyMap, t) = IF here = {} THEN DefaultValue ELSE EmptyMap[one]
        BY DEF ValueAt
    <3>2. here # {} => one \in Keys
      <4>1. here # {} => one \in here
          OBVIOUS
      <4> QED  BY <4>1
    <3>3. ValueAt(paths, EmptyMap, t) = DefaultValue
      <4> HIDE DEF here, one
      <4> QED  BY <3>1, <3>2 DEF EmptyMap
    <3> QED  BY <3>3, NodeShape
  <2>2. N \in 0..N
      BY Sizes
  <2> HIDE DEF node
  <2> QED  BY <2>1, <2>2, DigestDefault, Levels
<1>2. ASSUME NEW d \in 0..(N - 1), d + 1 \in S
      PROVE  d \in S
  <2>1. d \in Depths /\ d \in Nat /\ d \in 0..N /\ d # N
      BY Sizes
  <2>2. ASSUME NEW t \in Places(d)
        PROVE  node(d, t) = pair(d) /\ Digest(node(d, t)) = DefaultNode(DefaultLevel(d))
    <3>1. Turn(t, d, TRUE) \in Places(d + 1) /\ Turn(t, d, FALSE) \in Places(d + 1)
        BY <2>1, TurnTyped
    <3>2. node(d, t) = Inner(Digest(node(d + 1, Turn(t, d, TRUE))),
                             Digest(node(d + 1, Turn(t, d, FALSE))))
        BY <2>1, NodeShape
    <3>3. Good(d + 1)
        BY <1>2
    <3> HIDE DEF node
    <3>4. node(d, t) = pair(d)
        BY <3>1, <3>2, <3>3
    <3>5. Digest(pair(d)) = DefaultNode(DefaultLevel(d + 1) - 1)
        BY <2>1, Levels, DigestDefault
    <3>6. DefaultLevel(d + 1) - 1 = DefaultLevel(d)
        BY <2>1, Levels
    <3> QED  BY <3>4, <3>5, <3>6
  <2> HIDE DEF node, pair
  <2> QED  BY <2>1, <2>2
<1>3. \A d \in 0..N : d \in S
  <2>1. N \in Nat
      BY Sizes
  <2> HIDE DEF S, N
  <2> QED  BY <1>1, <1>2, <2>1, InductionDown
<1> QED  BY <1>3

(* A node of any tree that is a default node is that of its own level.     *)
LEMMA OwnLevel ==
    ASSUME NEW paths, NEW map
    PROVE  \A d \in 0..(Height - 1) : \A t \in Places(d) : \A l :
              Digest(NodeData(paths, map, d, t)) = DefaultNode(l) => l = DefaultLevel(d)
<1> DEFINE N == Height - 1
           node(d, t) == NodeData(paths, map, d, t)
           Good(d) == \A t \in Places(d) : \A l :
                         Digest(node(d, t)) = DefaultNode(l) => l = DefaultLevel(d)
           S == { d \in 0..N : Good(d) }
<1>1. \A m, n : DefaultNode(m) = DefaultNode(n) => m = n
    BY Shapes
<1>2. N \in S
  <2>1. ASSUME NEW t \in Places(N), NEW l, Digest(node(N, t)) = DefaultNode(l)
        PROVE  l = DefaultLevel(N)
    <3> DEFINE x == ValueAt(paths, map, t)
    <3>1. node(N, t) = Leaf(x)
        BY NodeShape
    <3> HIDE DEF node, x
    <3>2. DigestKind(Leaf(x))
        BY DigestCases, Shapes
    <3>3. Digest(Leaf(x)) # Leaf(x)
        BY <2>1, <3>1, Shapes
    <3>4. \A n : Leaf(x) # Inner(DefaultNode(n), DefaultNode(n))
        BY Shapes
    <3>5. Digest(Leaf(x)) = DefaultNode(HashBits - 1)
        BY <3>2, <3>3, <3>4 DEF DigestKind
    <3> QED  BY <1>1, <2>1, <3>1, <3>5, Levels
  <2>2. N \in 0..N
      BY Sizes
  <2> HIDE DEF node
  <2> QED  BY <2>1, <2>2
<1>3. ASSUME NEW d \in 0..(N - 1), d + 1 \in S
      PROVE  d \in S
  <2>1. d \in Depths /\ d \in Nat /\ d \in 0..N
      BY Sizes
  <2>2. ASSUME NEW t \in Places(d), NEW l, Digest(node(d, t)) = DefaultNode(l)
        PROVE  l = DefaultLevel(d)
    <3> DEFINE a == Digest(node(d + 1, Turn(t, d, TRUE)))
               b == Digest(node(d + 1, Turn(t, d, FALSE)))
    <3>1. Turn(t, d, TRUE) \in Places(d + 1)
        BY <2>1, TurnTyped
    <3>2. node(d, t) = Inner(a, b)
        BY <2>1, NodeShape
    <3>3. \A n : a = DefaultNode(n) => n = DefaultLevel(d + 1)
        BY <1>3, <3>1
    <3> HIDE DEF node, a, b
    <3>4. DigestKind(Inner(a, b))
        BY DigestCases, Shapes
    <3>5. Digest(Inner(a, b)) # Inner(a, b)
        BY <2>2, <3>2, Shapes
    <3>6. Inner(a, b) # Leaf(DefaultValue)
        BY Shapes
    <3>7. \E n \in 1..(HashBits - 1) :
             /\ Inner(a, b) = Inner(DefaultNode(n), DefaultNode(n))
             /\ Digest(Inner(a, b)) = DefaultNode(n - 1)
        BY <3>4, <3>5, <3>6 DEF DigestKind
    <3>8. PICK n \in 1..(HashBits - 1) :
             /\ Inner(a, b) = Inner(DefaultNode(n), DefaultNode(n))
             /\ Digest(Inner(a, b)) = DefaultNode(n - 1)
        BY <3>7
    <3>9. a = DefaultNode(n)
        BY <3>8, Shapes
    <3>10. n = DefaultLevel(d + 1)
        BY <3>3, <3>9
    <3>11. l = n - 1
        BY <1>1, <2>2, <3>2, <3>8
    <3> QED  BY <2>1, <3>10, <3>11, Levels
  <2> HIDE DEF node
  <2> QED  BY <2>1, <2>2
<1>4. \A d \in 0..N : d \in S
  <2>1. N \in Nat
      BY Sizes
  <2> HIDE DEF S, N
  <2> QED  BY <1>2, <1>3, <2>1, InductionDown
<1> QED  BY <1>4

-----------------------------------------------------------------------------
(* Proofs                                                                  *)

(* ProveForRoot at the root of a stored path gives the siblings of the     *)
(* path, the one next to the leaf first.                                   *)
LEMMA ProofOfPath ==
    ASSUME NEW nodes, NEW paths, NEW map, NEW path, PathStored(nodes, paths, map, path)
    PROVE  /\ ProveForRoot(nodes, path, RootOf(paths, map))
                = [i \in 1..(Height - 1) |-> Sibling(paths, map, path, Height - 1 - i)]
           /\ [d \in Depths |-> ProveForRoot(nodes, path, RootOf(paths, map))[Height - 1 - d]]
                = Siblings(paths, map, path)
<1> DEFINE N == Height - 1
           side == SideNodesForRoot(nodes, path, RootOf(paths, map))
           proof == ProveForRoot(nodes, path, RootOf(paths, map))
           sib(d) == Sibling(paths, map, path, d)
<1>1. side = [d \in Depths |-> sib(d)]
    BY SidesOfPath DEF Siblings
<1>2. proof = [i \in 1..N |-> side[N - i]]
    BY DEF ProveForRoot
<1>3. /\ \A i \in 1..N : N - i \in Depths
      /\ \A d \in Depths : N - d \in 1..N /\ N - (N - d) = d
    BY Sizes
<1> HIDE DEF N, side, proof, sib
<1>4. proof = [i \in 1..N |-> sib(N - i)]
    BY <1>1, <1>2, <1>3
<1>5. [d \in Depths |-> proof[N - d]] = [d \in Depths |-> sib(d)]
    BY <1>3, <1>4
<1> QED  BY <1>4, <1>5 DEF N, proof, sib, Siblings

(* The siblings and the value of a path give the root back.                *)
LEMMA OwnProof ==
    ASSUME NEW paths, KeysApart(paths), NEW map, NEW k \in Keys
    PROVE  NewRoot(UpdateWithSideNodes(paths[k], map[k], Siblings(paths, map, paths[k])))
             = RootOf(paths, map)
<1>1. SameButFor(map, map, k)
    BY DEF SameButFor
<1>2. 0 \in 0..(Height - 1)
    BY Sizes
<1>3. UpdateWithSideNodes(paths[k], map[k], Siblings(paths, map, paths[k]))[0]
        = NodeData(paths, map, 0, Turns(paths[k], 0))
    BY <1>1, <1>2, UpdateOnPath
<1> QED  BY <1>3, RootNode DEF NewRoot

(* Only the value of the map gives the root, whatever the siblings.        *)
LEMMA OtherProof ==
    ASSUME NEW paths, KeysApart(paths), NEW map, NEW k \in Keys, NEW v, NEW side,
           NewRoot(UpdateWithSideNodes(paths[k], v, side)) = RootOf(paths, map)
    PROVE  v = map[k]
<1> DEFINE data == UpdateWithSideNodes(paths[k], v, side)
           t == Turns(paths[k], Height - 1)
<1>1. Height - 1 \in 0..(Height - 1)
    BY Sizes
<1>2. data[Height - 1] = NodeData(paths, map, Height - 1, t)
    BY <1>1, Rebuilt
<1>3. data[Height - 1] = Leaf(v)
    BY UpdateDef
<1>4. NodeData(paths, map, Height - 1, t) = Leaf(ValueAt(paths, map, t))
    BY NodeShape
<1>5. ValueAt(paths, map, t) = map[k]
    BY ValueOfKey
<1>6. Leaf(v) = Leaf(map[k])
    BY <1>2, <1>3, <1>4, <1>5
<1>7. Leaf(v).value = v /\ Leaf(map[k]).value = map[k]
    BY Shapes
<1> QED  BY <1>6, <1>7

(* No sibling is ever the default node that CompactProof compares it with: *)
(* place i, counted from the leaf, is level HashBits - 1 - i, and the two  *)
(* numbers cannot be the same, for HashBits is even.                       *)
LEMMA NeverDropped ==
    ASSUME NEW paths, NEW map, NEW path, NEW i \in Depths
    PROVE  Sibling(paths, map, path, Height - 1 - (i + 1)) # DefaultNode(i)
<1> DEFINE d == Height - 1 - (i + 1)
           t == Turn(Turns(path, d), d, ~IsLeft(path, d))
<1>1. d \in Nat /\ d + 1 \in 0..(Height - 1) /\ i \in Nat
    BY Sizes
<1>2. Turns(path, d) \in Places(d) /\ (~IsLeft(path, d)) \in BOOLEAN
    BY <1>1, TurnsTyped DEF IsLeft
<1>3. t \in Places(d + 1)
    BY <1>1, <1>2, TurnTyped
<1>4. DefaultLevel(d + 1) # i
  <2>1. DefaultLevel(d + 1) = HashBits - Height + (Height - 1 - (i + 1) + 1)
      BY DEF DefaultLevel
  <2>2. HashBits = HashSize * 8 /\ HashSize \in Nat /\ Height \in Nat
      BY TreeAssumption, Sizes DEF HashBits
  <2>3. DefaultLevel(d + 1) = HashSize * 8 - 1 - i
      BY <1>1, <2>1, <2>2
  <2> HIDE DEF d
  <2> QED  BY <1>1, <2>2, <2>3
<1> HIDE DEF d, t
<1>5. Digest(NodeData(paths, map, d + 1, t)) # DefaultNode(i)
    BY <1>1, <1>3, <1>4, OwnLevel
<1> QED  BY <1>5 DEF Sibling, d, t

(* A proof no sibling of which is dropped comes back as it was.            *)
LEMMA Compaction ==
    ASSUME NEW side, \A i \in Depths : side[i + 1] # DefaultNode(i)
    PROVE  LET proof   == [n \in 1..(Height - 1) |-> side[n]]
               compact == CompactProof(proof)
           IN  Decompactable(compact) /\ DecompactProof(compact) = proof
<1> DEFINE N == Height - 1
           proof == [n \in 1..N |-> side[n]]
           compact == CompactProof(proof)
           kept == { i \in Depths : ~(proof[i + 1] = DefaultNode(i)) }
           place(n) == CHOOSE i \in kept : Cardinality({ j \in kept : j <= i }) = n
<1>1. N \in Nat /\ Depths = 0..(N - 1)
    BY Sizes
<1>2. \A i \in Depths : i + 1 \in 1..N /\ i \in Nat /\ i \in Int
    BY <1>1
<1>3. kept = Depths
    BY <1>2
<1>4. ASSUME NEW i \in Depths
      PROVE  Cardinality({ j \in Depths : j <= i }) = i + 1
  <2>1. { j \in Depths : j <= i } = 0..i
      BY <1>1
  <2>2. Cardinality(0..i) = IF 0 > i THEN 0 ELSE i - 0 + 1
      BY <1>2, FS_Interval
  <2>3. (IF 0 > i THEN 0 ELSE i - 0 + 1) = i + 1
      BY <1>2
  <2> QED  BY <2>1, <2>2, <2>3
<1>5. Cardinality(Depths) = N
  <2>1. Cardinality(0..(N - 1)) = IF 0 > N - 1 THEN 0 ELSE (N - 1) - 0 + 1
      BY <1>1, FS_Interval
  <2>2. N >= 1
      BY Sizes
  <2> HIDE DEF N
  <2> QED  BY <1>1, <2>1, <2>2
<1>6. ASSUME NEW n \in 1..N
      PROVE  place(n) = n - 1
  <2>1. n - 1 \in Depths /\ (n - 1) + 1 = n
      BY <1>1
  <2>2. \A i \in Depths : Cardinality({ j \in Depths : j <= i }) = n <=> i = n - 1
      BY <1>2, <1>4, <2>1
  <2> HIDE DEF kept
  <2>3. \A i \in kept : Cardinality({ j \in kept : j <= i }) = n <=> i = n - 1
      BY <1>3, <2>2
  <2>4. n - 1 \in kept
      BY <1>3, <2>1
  <2> QED  BY <2>3, <2>4
<1>7. /\ compact.bits = { BitSet(i) : i \in Depths \ kept }
      /\ compact.nodes = [n \in 1..Cardinality(kept) |-> proof[place(n) + 1]]
    BY DEF CompactProof
<1>8. compact.bits = {}
    BY <1>3, <1>7
<1> HIDE DEF kept, place, compact
<1>9. compact.nodes = proof
  <2>1. compact.nodes = [n \in 1..N |-> proof[place(n) + 1]]
      BY <1>3, <1>5, <1>7
  <2>2. \A n \in 1..N : proof[place(n) + 1] = proof[n]
    <3>1. \A n \in 1..N : (n - 1) + 1 = n
        BY <1>1
    <3> HIDE DEF proof
    <3> QED  BY <1>6, <3>1
  <2> QED  BY <2>1, <2>2
<1>10. Decompactable(compact)
  <2>1. Len(compact.nodes) = N
      BY <1>1, <1>9
  <2>2. Cardinality(compact.bits) = 0
      BY <1>8, FS_EmptySet
  <2> QED  BY <1>1, <2>1, <2>2 DEF Decompactable
<1>11. DecompactProof(compact) = proof
  <2> DEFINE given == { i \in Depths : BitRead(i) \notin compact.bits }
             position(i) == Cardinality({ j \in given : j <= i })
  <2>1. given = Depths
      BY <1>8
  <2>2. DecompactProof(compact)
          = [n \in 1..N |-> IF n - 1 \in given THEN compact.nodes[position(n - 1)]
                            ELSE DefaultNode(n - 1)]
      BY DEF DecompactProof
  <2>3. ASSUME NEW n \in 1..N
        PROVE  n - 1 \in given /\ position(n - 1) = n
    <3>1. n - 1 \in Depths /\ (n - 1) + 1 = n
        BY <1>1
    <3> QED  BY <1>4, <2>1, <3>1
  <2> HIDE DEF given, position
  <2>4. DecompactProof(compact) = [n \in 1..N |-> proof[n]]
      BY <1>9, <2>2, <2>3
  <2> QED  BY <2>4
<1> QED  BY <1>10, <1>11 DEF compact

-----------------------------------------------------------------------------
(* What an update does to a store                                          *)

(* All nodes of the Merkle tree of a map are in a store.                   *)
TreeStored(nodes, paths, map) ==
    \A d \in 0..(Height - 1) : \A t \in Places(d) : Has(nodes, NodeData(paths, map, d, t))

(* A store has all that another one has.                                   *)
Wider(nodes, nodes2) == \A x : Has(nodes, x) => Has(nodes2, x)

(* A whole tree has every path.                                            *)
LEMMA TreeHasPaths ==
    ASSUME NEW nodes, NEW paths, NEW map, TreeStored(nodes, paths, map), NEW path
    PROVE  PathStored(nodes, paths, map, path)
<1>1. ASSUME NEW d \in 0..(Height - 1)
      PROVE  Has(nodes, NodeData(paths, map, d, Turns(path, d)))
  <2>1. Turns(path, d) \in Places(d)
      BY Sizes, TurnsTyped
  <2> QED  BY <2>1 DEF TreeStored
<1> QED  BY <1>1 DEF PathStored

(* What is stored stays stored.                                            *)
LEMMA StaysStored ==
    ASSUME NEW nodes, NEW nodes2, Wider(nodes, nodes2), NEW paths, NEW map
    PROVE  /\ TreeStored(nodes, paths, map) => TreeStored(nodes2, paths, map)
           /\ \A path : PathStored(nodes, paths, map, path) => PathStored(nodes2, paths, map, path)
BY DEF Wider, TreeStored, PathStored

(* Whatever the siblings, what is written is data.                         *)
LEMMA WrittenData ==
    ASSUME NEW path, NEW v, NEW side
    PROVE  \A x \in Written(UpdateWithSideNodes(path, v, side)) : IsData(x)
<1> DEFINE data == UpdateWithSideNodes(path, v, side)
<1>1. /\ DOMAIN data = 0..(Height - 1) /\ data[Height - 1] = Leaf(v)
      /\ \A d \in Depths : data[d] = Join(path, d, Digest(data[d + 1]), side[d])
    BY UpdateDef
<1>2. \A d \in 0..(Height - 1) : d = Height - 1 \/ d \in Depths
    BY Sizes
<1>3. \A d, h, s : IsData(Join(path, d, h, s))
    BY Shapes DEF Join
<1>4. IsData(Leaf(v))
    BY Shapes
<1> HIDE DEF data
<1>5. \A d \in DOMAIN data : IsData(data[d])
    BY <1>1, <1>2, <1>3, <1>4
<1> QED  BY <1>5 DEF Written, data

(* An update at the root of a stored path has the root of the new map, and *)
(* writes the nodes on that path of the tree of the new map.               *)
LEMMA UpdateWrites ==
    ASSUME NEW nodes, NEW paths, KeysApart(paths), NEW map, NEW k \in Keys, NEW v, NEW map2,
           SameButFor(map, map2, k), map2[k] = v, PathStored(nodes, paths, map, paths[k])
    PROVE  /\ NewRoot(DataWritten(nodes, paths[k], v, RootOf(paths, map))) = RootOf(paths, map2)
           /\ \A d \in 0..(Height - 1) :
                 NodeData(paths, map2, d, Turns(paths[k], d))
                   \in Written(DataWritten(nodes, paths[k], v, RootOf(paths, map)))
<1> DEFINE side == Siblings(paths, map, paths[k])
           data == UpdateWithSideNodes(paths[k], v, side)
<1>1. DataWritten(nodes, paths[k], v, RootOf(paths, map)) = data
    BY SidesOfPath DEF DataWritten
<1>2. \A d \in 0..(Height - 1) : data[d] = NodeData(paths, map2, d, Turns(paths[k], d))
    BY UpdateOnPath
<1>3. DOMAIN data = 0..(Height - 1) /\ 0 \in 0..(Height - 1)
    BY UpdateDef, Sizes
<1>4. RootOf(paths, map2) = Digest(NodeData(paths, map2, 0, Turns(paths[k], 0)))
    BY RootNode
<1> HIDE DEF data
<1>5. NewRoot(data) = RootOf(paths, map2)
    BY <1>2, <1>3, <1>4 DEF NewRoot
<1>6. \A d \in 0..(Height - 1) : NodeData(paths, map2, d, Turns(paths[k], d)) \in Written(data)
    BY <1>2, <1>3 DEF Written
<1> QED  BY <1>1, <1>5, <1>6

(* The root alone.                                                         *)
LEMMA UpdateRoots ==
    ASSUME NEW nodes, NEW paths, KeysApart(paths), NEW map, NEW k \in Keys, NEW map2,
           SameButFor(map, map2, k), PathStored(nodes, paths, map, paths[k])
    PROVE  NewRoot(DataWritten(nodes, paths[k], map2[k], RootOf(paths, map))) = RootOf(paths, map2)
<1> DEFINE v == map2[k]
<1>1. map2[k] = v
    OBVIOUS
<1> HIDE DEF v
<1>2. NewRoot(DataWritten(nodes, paths[k], v, RootOf(paths, map))) = RootOf(paths, map2)
    BY <1>1, UpdateWrites
<1> QED  BY <1>1, <1>2

(* After the flush the whole tree of the new map is stored, when the whole *)
(* old one was, and of every path that was stored the new one is.          *)
LEMMA UpdateStores ==
    ASSUME NEW nodes, NodesHashed(nodes), NEW paths, KeysApart(paths), NEW map, NEW k \in Keys,
           NEW v, NEW map2, SameButFor(map, map2, k), map2[k] = v,
           PathStored(nodes, paths, map, paths[k]),
           NEW W, W = Written(DataWritten(nodes, paths[k], v, RootOf(paths, map)))
    PROVE  /\ NodesHashed(Stored(nodes, W))
           /\ Wider(nodes, Stored(nodes, W))
           /\ TreeStored(nodes, paths, map) => TreeStored(Stored(nodes, W), paths, map2)
           /\ \A path : PathStored(nodes, paths, map, path)
                           => PathStored(Stored(nodes, W), paths, map2, path)
<1> DEFINE S == Stored(nodes, W)
<1>1. \A x \in W : IsData(x)
    BY WrittenData DEF DataWritten
<1>2. NodesHashed(S) /\ (\A x \in W : Has(S, x)) /\ \A x : Has(nodes, x) => Has(S, x)
    BY <1>1, StoredKeeps
<1> HIDE DEF S
<1>3. ASSUME NEW d \in 0..(Height - 1), NEW t \in Places(d), Has(nodes, NodeData(paths, map, d, t))
      PROVE  Has(S, NodeData(paths, map2, d, t))
  <2>1. CASE t = Turns(paths[k], d)
    <3>1. NodeData(paths, map2, d, t) \in W
        BY <2>1, UpdateWrites
    <3> QED  BY <1>2, <3>1
  <2>2. CASE t # Turns(paths[k], d)
    <3>1. NodeData(paths, map2, d, t) = NodeData(paths, map, d, t)
        BY <2>2, OffPath
    <3> QED  BY <1>2, <1>3, <3>1
  <2> QED  BY <2>1, <2>2
<1>4. ASSUME TreeStored(nodes, paths, map)
      PROVE  TreeStored(S, paths, map2)
    BY <1>3, <1>4 DEF TreeStored
<1>5. ASSUME NEW path, PathStored(nodes, paths, map, path)
      PROVE  PathStored(S, paths, map2, path)
  <2>1. ASSUME NEW d \in 0..(Height - 1)
        PROVE  Has(S, NodeData(paths, map2, d, Turns(path, d)))
    <3>1. Turns(path, d) \in Places(d)
        BY Sizes, TurnsTyped
    <3>2. Has(nodes, NodeData(paths, map, d, Turns(path, d)))
        BY <1>5 DEF PathStored
    <3> QED  BY <1>3, <3>1, <3>2
  <2> QED  BY <2>1 DEF PathStored
<1> QED  BY <1>2, <1>4, <1>5 DEF Wider, S

(* A branch of a tree, flushed into another store.                         *)
LEMMA BranchStored ==
    ASSUME NEW nodes, NodesHashed(nodes), NEW paths, KeysApart(paths), NEW map, NEW k \in Keys,
           NEW W, W = Written(UpdateWithSideNodes(paths[k], map[k], Siblings(paths, map, paths[k])))
    PROVE  PathStored(Stored(nodes, W), paths, map, paths[k])
<1> DEFINE data == UpdateWithSideNodes(paths[k], map[k], Siblings(paths, map, paths[k]))
<1>1. \A x \in W : Has(Stored(nodes, W), x)
    BY WrittenData, StoredKeeps
<1>2. SameButFor(map, map, k)
    BY DEF SameButFor
<1>3. \A d \in 0..(Height - 1) : data[d] = NodeData(paths, map, d, Turns(paths[k], d))
    BY <1>2, UpdateOnPath
<1>4. DOMAIN data = 0..(Height - 1)
    BY UpdateDef
<1>5. W = Written(data)
    OBVIOUS
<1> HIDE DEF data
<1>6. \A d \in 0..(Height - 1) : NodeData(paths, map, d, Turns(paths[k], d)) \in W
    BY <1>3, <1>4, <1>5 DEF Written
<1> QED  BY <1>1, <1>6 DEF PathStored

(* The store of the empty tree.                                            *)
LEMMA EmptyStored ==
    ASSUME NEW paths
    PROVE  /\ NodesHashed(EmptyNodes)
           /\ TreeStored(EmptyNodes, paths, EmptyMap)
           /\ EmptyRoot = RootOf(paths, EmptyMap)
<1> DEFINE none == [h \in {} |-> Corrupt]
           levels == (HashBits - Height + 1)..(HashBits - 1)
           W == { Inner(DefaultNode(l), DefaultNode(l)) : l \in levels } \cup {Leaf(DefaultValue)}
<1>1. EmptyNodes = Stored(none, W)
    BY DEF EmptyNodes
<1>2. NodesHashed(none)
    BY DEF NodesHashed
<1>3. \A x \in W : IsData(x)
    BY Shapes
<1> HIDE DEF none, W
<1>4. NodesHashed(EmptyNodes) /\ \A x \in W : Has(EmptyNodes, x)
    BY <1>1, <1>2, <1>3, StoredKeeps
<1>5. ASSUME NEW d \in 0..(Height - 1), NEW t \in Places(d)
      PROVE  Has(EmptyNodes, NodeData(paths, EmptyMap, d, t))
  <2> DEFINE l == DefaultLevel(d + 1)
  <2>1. NodeData(paths, EmptyMap, d, t)
          = IF d = Height - 1 THEN Leaf(DefaultValue) ELSE Inner(DefaultNode(l), DefaultNode(l))
      BY EmptyTree
  <2>2. d # Height - 1 => l \in levels
    <3>1. d # Height - 1 => d \in Depths
        BY Sizes
    <3> QED  BY <3>1, Levels
  <2> HIDE DEF l, levels
  <2>3. NodeData(paths, EmptyMap, d, t) \in W
      BY <2>1, <2>2 DEF W
  <2> QED  BY <1>4, <2>3
<1>6. EmptyRoot = RootOf(paths, EmptyMap)
  <2>1. 0 \in 0..(Height - 1) /\ Turns(0, 0) \in Places(0)
      BY Sizes, TurnsTyped
  <2>2. Digest(NodeData(paths, EmptyMap, 0, Turns(0, 0))) = DefaultNode(DefaultLevel(0))
      BY <2>1, EmptyTree
  <2>3. DefaultLevel(0) = HashBits - Height
      BY Sizes DEF DefaultLevel
  <2>4. RootOf(paths, EmptyMap) = Digest(NodeData(paths, EmptyMap, 0, Turns(0, 0)))
      BY RootNode
  <2> QED  BY <2>2, <2>3, <2>4 DEF EmptyRoot
<1> QED  BY <1>4, <1>5, <1>6 DEF TreeStored

-----------------------------------------------------------------------------
(* The inductive invariant                                                 *)

(* Every version the tree returned is in the store as a whole.             *)
VersionsStored(versions, nodes, paths) ==
    \A s \in versions : /\ s.map \in [Keys -> AllValues]
                        /\ s.root = RootOf(paths, s.map)
                        /\ TreeStored(nodes, paths, s.map)

(* Of every branch the nodes on the path of its key are in the store.      *)
BranchSound(b, nodes, paths) ==
    /\ b = [key |-> b.key, root |-> b.root, map |-> b.map]
    /\ b.key \in Keys
    /\ b.map \in [Keys -> AllValues]
    /\ b.root = RootOf(paths, b.map)
    /\ PathStored(nodes, paths, b.map, paths[b.key])

BranchesStored(known, nodes, paths) == \A b \in known : BranchSound(b, nodes, paths)

IInv ==
    /\ hashKey \in BOOLEAN
    /\ updates \in Nat
    /\ NodesHashed(db)
    /\ NodesHashed(sub.nodes)
    /\ VersionsStored(saved, db, Paths)
    /\ hashKey => BranchesStored(branches, sub.nodes, Paths)

(* The paths of the keys of a tree are apart, hashed or not.               *)
LEMMA PathsApart ==
    ASSUME hashKey \in BOOLEAN
    PROVE  /\ KeysApart(Paths)
           /\ \A k \in Keys : Paths[k] = GetPath(k)
           /\ hashKey => \A k \in Keys : Paths[k] = HashedKey[k]
<1>1. \A k \in Keys : Paths[k] = IF hashKey THEN HashedKey[k] ELSE k
    BY DEF Paths, GetPath
<1>2. \A k \in Keys : Paths[k] = GetPath(k)
    BY DEF Paths
<1>3. KeysApart(Paths)
  <2>1. CASE hashKey = TRUE
    <3>1. \A k \in Keys : Paths[k] = HashedKey[k]
        BY <1>1, <2>1
    <3> QED  BY <3>1, PathsAssumption DEF KeysApart
  <2>2. CASE hashKey = FALSE
    <3>1. \A k \in Keys : Paths[k] = k
        BY <1>1, <2>2
    <3> QED  BY <3>1, PathsAssumption DEF KeysApart
  <2> QED  BY <2>1, <2>2
<1> QED  BY <1>1, <1>2, <1>3

(* The flag of a tree never changes, and neither do the paths.             *)
LEMMA PathsKept ==
    ASSUME hashKey' = hashKey
    PROVE  Paths' = Paths
BY DEF Paths, GetPath

(* A changed map is a map, and differs at the key.                         *)
LEMMA MapChanged ==
    ASSUME NEW map \in [Keys -> AllValues], NEW k \in Keys, NEW v \in AllValues,
           NEW map2, map2 = [map EXCEPT ![k] = v]
    PROVE  map2 \in [Keys -> AllValues] /\ SameButFor(map, map2, k) /\ map2[k] = v
BY DEF SameButFor

(* Versions stay stored when the store gets wider.                         *)
LEMMA VersionsStay ==
    ASSUME NEW versions, NEW nodes, NEW nodes2, NEW paths, Wider(nodes, nodes2),
           VersionsStored(versions, nodes, paths)
    PROVE  VersionsStored(versions, nodes2, paths)
BY StaysStored DEF VersionsStored

(* And so do branches.                                                     *)
LEMMA BranchesStay ==
    ASSUME NEW known, NEW nodes, NEW nodes2, NEW paths, Wider(nodes, nodes2),
           BranchesStored(known, nodes, paths)
    PROVE  BranchesStored(known, nodes2, paths)
BY StaysStored DEF BranchesStored, BranchSound

(* It holds at first: the empty tree is in the store.                      *)
LEMMA InitIInv == Init => IInv
<1> SUFFICES ASSUME Init PROVE IInv
    OBVIOUS
<1>1. NodesHashed(db) /\ TreeStored(db, Paths, EmptyMap) /\ EmptyRoot = RootOf(Paths, EmptyMap)
    BY EmptyStored DEF Init
<1>2. EmptyMap \in [Keys -> AllValues]
    BY DEF EmptyMap, AllValues
<1>3. VersionsStored(saved, db, Paths)
  <2>1. ASSUME NEW s \in saved
        PROVE  s.root = EmptyRoot /\ s.map = EmptyMap
      BY DEF Init
  <2> QED  BY <1>1, <1>2, <2>1 DEF VersionsStored
<1>4. NodesHashed(sub.nodes) /\ BranchesStored(branches, sub.nodes, Paths)
  <2>1. sub.nodes = [h \in {} |-> Corrupt] /\ branches = {}
      BY DEF Init
  <2> QED  BY <2>1 DEF NodesHashed, BranchesStored
<1>5. hashKey \in BOOLEAN /\ updates \in Nat
    BY DEF Init
<1> QED  BY <1>1, <1>3, <1>4, <1>5 DEF IInv

(* An update of the tree at any version.                                   *)
LEMMA UpdateAtIInv ==
    ASSUME IInv, NEW k \in Keys, NEW v \in AllValues, NEW s \in saved, NEW current \in BOOLEAN,
           UpdateAt(k, v, s, current)
    PROVE  IInv'
<1> DEFINE path == GetPath(k)
           data == DataWritten(db, path, v, s.root)
           W == Written(data)
           map2 == [s.map EXCEPT ![k] = v]
           new == [root |-> NewRoot(data), map |-> map2]
<1>1. /\ hashKey' = hashKey /\ updates' = updates + 1
      /\ db' = Stored(db, W) /\ sub' = sub /\ branches' = branches
      /\ saved' = saved \cup {new}
    BY DEF UpdateAt
<1>2. Paths' = Paths
    BY <1>1, PathsKept
<1>3. KeysApart(Paths) /\ Paths[k] = path
    BY PathsApart DEF IInv
<1>4. /\ s.map \in [Keys -> AllValues] /\ s.root = RootOf(Paths, s.map)
      /\ TreeStored(db, Paths, s.map) /\ NodesHashed(db)
    BY DEF IInv, VersionsStored
<1>5. map2 \in [Keys -> AllValues] /\ SameButFor(s.map, map2, k) /\ map2[k] = v
    BY <1>4, MapChanged
<1> HIDE DEF map2
<1>6. PathStored(db, Paths, s.map, Paths[k])
    BY <1>4, TreeHasPaths
<1>7. data = DataWritten(db, Paths[k], v, RootOf(Paths, s.map))
    BY <1>3, <1>4
<1> HIDE DEF data, path
<1>8. NewRoot(data) = RootOf(Paths, map2)
  <2> DEFINE map == s.map
  <2>1. /\ SameButFor(map, map2, k) /\ PathStored(db, Paths, map, Paths[k])
        /\ map2[k] = v /\ KeysApart(Paths)
      BY <1>3, <1>5, <1>6
  <2>2. data = DataWritten(db, Paths[k], v, RootOf(Paths, map))
      BY <1>7
  <2> HIDE DEF map
  <2>3. NewRoot(DataWritten(db, Paths[k], map2[k], RootOf(Paths, map))) = RootOf(Paths, map2)
      BY <2>1, UpdateRoots
  <2> QED  BY <2>1, <2>2, <2>3
<1>9. /\ NodesHashed(Stored(db, W)) /\ Wider(db, Stored(db, W))
      /\ TreeStored(Stored(db, W), Paths, map2)
    BY <1>3, <1>4, <1>5, <1>6, <1>7, UpdateStores
<1>10. VersionsStored(saved \cup {new}, Stored(db, W), Paths)
  <2>1. VersionsStored(saved, Stored(db, W), Paths)
    <3>1. VersionsStored(saved, db, Paths)
        BY DEF IInv
    <3> QED  BY <1>9, <3>1, VersionsStay
  <2>2. new.map = map2 /\ new.root = RootOf(Paths, map2)
      BY <1>8
  <2> HIDE DEF new, W
  <2> QED  BY <1>5, <1>9, <2>1, <2>2 DEF VersionsStored
<1> HIDE DEF new, W
<1>11. VersionsStored(saved, db, Paths)'
    BY <1>1, <1>2, <1>10
<1>12. (NodesHashed(db) /\ NodesHashed(sub.nodes) /\ hashKey \in BOOLEAN /\ updates \in Nat)'
    BY <1>1, <1>9 DEF IInv
<1>13. (hashKey => BranchesStored(branches, sub.nodes, Paths))'
    BY <1>1, <1>2 DEF IInv
<1> QED  BY <1>11, <1>12, <1>13 DEF IInv

(* A branch of any version is added to the subtree.                        *)
LEMMA AddBranchesIInv ==
    ASSUME IInv, NEW k \in Keys, NEW s \in saved, NEW updateRoot \in BOOLEAN,
           AddBranches(k, s, updateRoot)
    PROVE  IInv'
<1> DEFINE proof == ProveForRoot(db, GetPath(k), s.root)
           data == UpdateWithSideNodes(HashedKey[k], s.map[k],
                                       [d \in Depths |-> proof[Height - 1 - d]])
           W == Written(data)
           new == [key |-> k, root |-> s.root, map |-> s.map]
           S == Stored(sub.nodes, W)
<1>1. /\ hashKey' = hashKey /\ updates' = updates /\ db' = db /\ saved' = saved
      /\ sub'.nodes = S
      /\ branches' = branches \cup {new}
    BY DEF AddBranches
<1>2. Paths' = Paths
    BY <1>1, PathsKept
<1>3. NodesHashed(S) /\ Wider(sub.nodes, S)
  <2>1. \A x \in W : IsData(x)
      BY WrittenData
  <2>2. NodesHashed(sub.nodes)
      BY DEF IInv
  <2> HIDE DEF W
  <2> QED  BY <2>1, <2>2, StoredKeeps DEF Wider
<1>4. ASSUME hashKey
      PROVE  BranchesStored(branches \cup {new}, S, Paths)
  <2>1. KeysApart(Paths) /\ Paths[k] = GetPath(k) /\ Paths[k] = HashedKey[k]
      BY <1>4, PathsApart DEF IInv
  <2>2. /\ s.map \in [Keys -> AllValues] /\ s.root = RootOf(Paths, s.map)
        /\ TreeStored(db, Paths, s.map) /\ NodesHashed(sub.nodes)
      BY DEF IInv, VersionsStored
  <2>3. PathStored(db, Paths, s.map, Paths[k])
      BY <2>2, TreeHasPaths
  <2>4. [d \in Depths |-> proof[Height - 1 - d]] = Siblings(Paths, s.map, Paths[k])
      BY <2>1, <2>2, <2>3, ProofOfPath
  <2>5. W = Written(UpdateWithSideNodes(Paths[k], s.map[k], Siblings(Paths, s.map, Paths[k])))
      BY <2>1, <2>4
  <2> HIDE DEF W
  <2>6. PathStored(S, Paths, s.map, Paths[k])
      BY <2>1, <2>2, <2>5, BranchStored
  <2>7. BranchSound(new, S, Paths)
    <3>1. new = [key |-> new.key, root |-> new.root, map |-> new.map]
          /\ new.key = k /\ new.root = s.root /\ new.map = s.map
        OBVIOUS
    <3> HIDE DEF new, S
    <3> QED  BY <2>2, <2>6, <3>1 DEF BranchSound
  <2>8. BranchesStored(branches, S, Paths)
    <3>1. BranchesStored(branches, sub.nodes, Paths)
        BY <1>4 DEF IInv
    <3> HIDE DEF S
    <3> QED  BY <1>3, <3>1, BranchesStay
  <2> HIDE DEF new, S
  <2> QED  BY <2>7, <2>8 DEF BranchesStored
<1> HIDE DEF new, S
<1>5. (NodesHashed(db) /\ NodesHashed(sub.nodes) /\ hashKey \in BOOLEAN /\ updates \in Nat)'
    BY <1>1, <1>3 DEF IInv
<1>6. VersionsStored(saved, db, Paths)'
    BY <1>1, <1>2 DEF IInv
<1>7. (hashKey => BranchesStored(branches, sub.nodes, Paths))'
    BY <1>1, <1>2, <1>4
<1> QED  BY <1>5, <1>6, <1>7 DEF IInv

(* What an update of the subtree makes of a branch.                        *)
LEMMA Renewed ==
    ASSUME NEW b, b = [key |-> b.key, root |-> b.root, map |-> b.map],
           NEW r, NEW k, NEW v, NEW c, c = [b EXCEPT !.root = r, !.map[k] = v]
    PROVE  /\ c = [key |-> c.key, root |-> c.root, map |-> c.map]
           /\ c.key = b.key /\ c.root = r /\ c.map = [b.map EXCEPT ![k] = v]
OBVIOUS

(* Branches of one root are of one map.                                    *)
LEMMA SameMap ==
    ASSUME NEW paths, KeysApart(paths), NEW nodes, NEW b, BranchSound(b, nodes, paths),
           NEW c, BranchSound(c, nodes, paths), b.root = c.root
    PROVE  b.map = c.map
<1>1. \A j \in Keys : b.map[j] = c.map[j]
  <2> DEFINE m == b.map
             n == c.map
  <2>1. RootOf(paths, m) = RootOf(paths, n)
      BY DEF BranchSound
  <2> HIDE DEF m, n
  <2>2. \A j \in Keys : m[j] = n[j]
      BY <2>1, SameRoot
  <2> QED  BY <2>2 DEF m, n
<1>2. b.map = [j \in Keys |-> b.map[j]] /\ c.map = [j \in Keys |-> c.map[j]]
    BY DEF BranchSound
<1> QED  BY <1>1, <1>2

(* An update of the subtree.                                               *)
LEMMA UpdateSubtreeIInv ==
    ASSUME IInv, NEW k \in Keys, NEW v \in AllValues, UpdateSubtree(k, v)
    PROVE  IInv'
<1> DEFINE data == DataWritten(sub.nodes, GetPath(k), v, sub.root)
           known == { b \in branches : b.root = sub.root }
           W == Written(data)
           S == Stored(sub.nodes, W)
           renewed(b) == [b EXCEPT !.root = NewRoot(data), !.map[k] = v]
<1>1. /\ hashKey' = hashKey /\ updates' = updates + 1 /\ db' = db /\ saved' = saved
      /\ sub'.nodes = S
      /\ branches' = branches \cup { renewed(b) : b \in known }
      /\ \E b \in known : b.key = k
    BY DEF UpdateSubtree
<1>2. Paths' = Paths
    BY <1>1, PathsKept
<1>3. NodesHashed(S) /\ Wider(sub.nodes, S)
  <2>1. \A x \in W : IsData(x)
      BY WrittenData DEF DataWritten
  <2>2. NodesHashed(sub.nodes)
      BY DEF IInv
  <2> HIDE DEF W
  <2> QED  BY <2>1, <2>2, StoredKeeps DEF Wider
<1>4. ASSUME hashKey
      PROVE  BranchesStored(branches \cup { renewed(b) : b \in known }, S, Paths)
  <2>1. KeysApart(Paths) /\ Paths[k] = GetPath(k) /\ NodesHashed(sub.nodes)
      BY <1>4, PathsApart DEF IInv
  <2>2. BranchesStored(branches, sub.nodes, Paths)
      BY <1>4 DEF IInv
  <2>3. PICK own \in known : own.key = k
      BY <1>1
  <2>4. \A b \in known : b \in branches /\ b.root = sub.root
      OBVIOUS
  <2>5. BranchSound(own, sub.nodes, Paths) /\ own.root = sub.root
      BY <2>2, <2>4 DEF BranchesStored
  <2> DEFINE map == own.map
             map2 == [map EXCEPT ![k] = v]
  <2>6. /\ map \in [Keys -> AllValues] /\ sub.root = RootOf(Paths, map)
        /\ PathStored(sub.nodes, Paths, map, Paths[k])
      BY <2>3, <2>5 DEF BranchSound
  <2>7. map2 \in [Keys -> AllValues] /\ SameButFor(map, map2, k) /\ map2[k] = v
      BY <2>6, MapChanged
  <2>8. data = DataWritten(sub.nodes, Paths[k], v, RootOf(Paths, map))
      BY <2>1, <2>6
  <2> HIDE DEF data, map2
  <2>9. NewRoot(data) = RootOf(Paths, map2)
      BY <2>1, <2>6, <2>7, <2>8, UpdateWrites
  <2>10. \A path : PathStored(sub.nodes, Paths, map, path) => PathStored(S, Paths, map2, path)
      BY <2>1, <2>6, <2>7, <2>8, UpdateStores
  <2> HIDE DEF S, W
  <2>11. ASSUME NEW b \in known
         PROVE  BranchSound(renewed(b), S, Paths)
    <3> DEFINE c == renewed(b)
    <3>1. BranchSound(b, sub.nodes, Paths) /\ b.root = own.root
        BY <2>2, <2>4, <2>5 DEF BranchesStored
    <3>2. b.map = map
        BY <2>1, <2>5, <3>1, SameMap
    <3>3. b = [key |-> b.key, root |-> b.root, map |-> b.map] /\ b.key \in Keys
        BY <3>1 DEF BranchSound
    <3>4. /\ c = [key |-> c.key, root |-> c.root, map |-> c.map]
          /\ c.key = b.key /\ c.root = NewRoot(data) /\ c.map = [b.map EXCEPT ![k] = v]
      <4> DEFINE r == NewRoot(data)
      <4> HIDE DEF r
      <4>1. c = [b EXCEPT !.root = r, !.map[k] = v]
          BY DEF r
      <4> HIDE DEF c
      <4>2. /\ c = [key |-> c.key, root |-> c.root, map |-> c.map]
            /\ c.key = b.key /\ c.root = r /\ c.map = [b.map EXCEPT ![k] = v]
          BY <3>3, <4>1, Renewed
      <4> QED  BY <4>2 DEF r
    <3> HIDE DEF c
    <3>5. c.map = map2
        BY <3>2, <3>4 DEF map2
    <3>6. PathStored(sub.nodes, Paths, map, Paths[b.key])
        BY <3>1, <3>2 DEF BranchSound
    <3>7. PathStored(S, Paths, map2, Paths[b.key])
        BY <2>10, <3>6
    <3>8. BranchSound(c, S, Paths)
        BY <2>7, <2>9, <3>3, <3>4, <3>5, <3>7 DEF BranchSound
    <3> QED  BY <3>8 DEF c
  <2>12. BranchesStored(branches, S, Paths)
      BY <1>3, <2>2, BranchesStay
  <2> HIDE DEF renewed, known
  <2> QED  BY <2>11, <2>12 DEF BranchesStored
<1> HIDE DEF S, known, renewed
<1>5. (NodesHashed(db) /\ NodesHashed(sub.nodes) /\ hashKey \in BOOLEAN /\ updates \in Nat)'
    BY <1>1, <1>3 DEF IInv
<1>6. VersionsStored(saved, db, Paths)'
    BY <1>1, <1>2 DEF IInv
<1>7. (hashKey => BranchesStored(branches, sub.nodes, Paths))'
    BY <1>1, <1>2, <1>4
<1> QED  BY <1>5, <1>6, <1>7 DEF IInv

(* Every step keeps the invariant.                                         *)
LEMMA NextIInv == IInv /\ [Next]_vars => IInv'
<1> SUFFICES ASSUME IInv, [Next]_vars PROVE IInv'
    OBVIOUS
<1>1. ASSUME NEW k \in Keys, NEW v \in AllValues, UpdateSubtree(k, v)
      PROVE  IInv'
    BY <1>1, UpdateSubtreeIInv
<1>2. ASSUME NEW s \in saved, NEW k \in Keys, NEW v \in AllValues, NEW current \in BOOLEAN,
             UpdateAt(k, v, s, current)
      PROVE  IInv'
    BY <1>2, UpdateAtIInv
<1>3. ASSUME NEW s \in saved, NEW k \in Keys, NEW updateRoot \in BOOLEAN,
             AddBranches(k, s, updateRoot)
      PROVE  IInv'
    BY <1>3, AddBranchesIInv
<1>4. ASSUME NEW s \in saved, SetRoot(s)
      PROVE  IInv'
  <2>1. /\ hashKey' = hashKey /\ updates' = updates /\ db' = db /\ saved' = saved
        /\ sub' = sub /\ branches' = branches
      BY <1>4 DEF SetRoot
  <2>2. Paths' = Paths
      BY <2>1, PathsKept
  <2> QED  BY <2>1, <2>2 DEF IInv
<1>5. CASE UNCHANGED vars
  <2>1. /\ hashKey' = hashKey /\ updates' = updates /\ db' = db /\ saved' = saved
        /\ sub' = sub /\ branches' = branches
      BY <1>5 DEF vars
  <2>2. Paths' = Paths
      BY <2>1, PathsKept
  <2> QED  BY <2>1, <2>2 DEF IInv
<1> QED  BY <1>1, <1>2, <1>3, <1>4, <1>5 DEF Next

-----------------------------------------------------------------------------
(* Theorems                                                                *)

(* What the store holds, in every reachable state: of every version the    *)
(* whole tree, of every branch its path.                                   *)
THEOREM Invariant == Spec => []IInv
BY InitIInv, NextIInv, PTL DEF Spec

(* Nodes stay under their own hashes: no flush stores a node in the place  *)
(* of another.                                                             *)
THEOREM OwnHash == Spec => []TypeOK
<1>1. IInv => TypeOK
    BY DEF IInv, TypeOK, NodesHashed
<1> QED  BY <1>1, Invariant, PTL

(* The root by the definition in SparseMerkleTree.                         *)
LEMMA RootByDefinition ==
    ASSUME NEW map
    PROVE  MerkleRoot(map) = RootOf(Paths, map)
BY DEF MerkleRoot, RootOf

(* GetForRoot reads at every root the tree ever returned what was set on   *)
(* the way to it.                                                          *)
THEOREM Readable == Spec => []OldRootsReadable
<1>1. ASSUME IInv, NEW s \in saved, NEW k \in Keys
      PROVE  GetForRoot(db, GetPath(k), s.root) = Leaf(s.map[k])
  <2>1. KeysApart(Paths) /\ Paths[k] = GetPath(k)
      BY <1>1, PathsApart DEF IInv
  <2>2. s.root = RootOf(Paths, s.map) /\ TreeStored(db, Paths, s.map)
      BY <1>1 DEF IInv, VersionsStored
  <2> DEFINE map == s.map
  <2>3. TreeStored(db, Paths, map)
      BY <2>2
  <2> HIDE DEF map
  <2>4. PathStored(db, Paths, map, Paths[k])
      BY <2>3, TreeHasPaths
  <2>5. GetForRoot(db, Paths[k], RootOf(Paths, map)) = Leaf(map[k])
      BY <2>1, <2>4, ReadOfPath
  <2> QED  BY <2>1, <2>2, <2>5 DEF map
<1>2. IInv => OldRootsReadable
    BY <1>1 DEF OldRootsReadable
<1> QED  BY <1>2, Invariant, PTL

(* The roots that Update returns are Merkle roots of the contents, however *)
(* the contents came about.                                                *)
THEOREM Canonical == Spec => []RootsCanonical
<1>1. IInv => RootsCanonical
    BY RootByDefinition DEF IInv, VersionsStored, RootsCanonical
<1> QED  BY <1>1, Invariant, PTL

(* VerifyProof accepts, of a key, the value a version has for it and no    *)
(* other, whatever proof comes along.                                      *)
THEOREM ProofDecides == Spec => []ProofsDecide
<1>1. ASSUME IInv, hashKey, NEW s \in saved, NEW u \in saved, NEW k1 \in Keys, NEW k2 \in Keys,
             NEW v \in AllValues, NEW proof, proof = ProveForRoot(db, GetPath(k2), u.root)
      PROVE  /\ VerifyProof(proof, s.root, k1, v) => v = s.map[k1]
             /\ s = u /\ k1 = k2 /\ v = s.map[k1] => VerifyProof(proof, s.root, k1, v)
  <2> DEFINE side == [d \in Depths |-> proof[Height - 1 - d]]
             map == s.map
  <2>1. /\ KeysApart(Paths) /\ Paths[k1] = GetPath(k1) /\ Paths[k2] = GetPath(k2)
        /\ Paths[k1] = HashedKey[k1]
      BY <1>1, PathsApart DEF IInv
  <2>2. s.root = RootOf(Paths, map) /\ TreeStored(db, Paths, map)
      BY <1>1 DEF IInv, VersionsStored
  <2>3. \A x : VerifyProof(proof, s.root, k1, x)
                  <=> /\ Len(proof) = Height - 1
                      /\ NewRoot(UpdateWithSideNodes(Paths[k1], x, side)) = RootOf(Paths, map)
      BY <2>1, <2>2 DEF VerifyProof
  <2>4. ASSUME VerifyProof(proof, s.root, k1, v)
        PROVE  v = s.map[k1]
    <3>1. NewRoot(UpdateWithSideNodes(Paths[k1], v, side)) = RootOf(Paths, map)
        BY <2>3, <2>4
    <3> HIDE DEF side, map
    <3>2. v = map[k1]
        BY <2>1, <3>1, OtherProof
    <3> QED  BY <3>2 DEF map
  <2>5. ASSUME s = u, k1 = k2, v = s.map[k1]
        PROVE  VerifyProof(proof, s.root, k1, v)
    <3>1. PathStored(db, Paths, map, Paths[k1])
        BY <2>2, TreeHasPaths
    <3>2. proof = ProveForRoot(db, Paths[k1], RootOf(Paths, map))
        BY <1>1, <2>1, <2>2, <2>5
    <3> DEFINE path == Paths[k1]
               sibs == [i \in 1..(Height - 1) |-> Sibling(Paths, map, path, Height - 1 - i)]
    <3> HIDE DEF map, path
    <3>3. /\ proof = sibs
          /\ side = Siblings(Paths, map, Paths[k1])
      <4>1. PathStored(db, Paths, map, path) /\ proof = ProveForRoot(db, path, RootOf(Paths, map))
          BY <3>1, <3>2 DEF path
      <4>2. /\ ProveForRoot(db, path, RootOf(Paths, map)) = sibs
            /\ [d \in Depths |-> ProveForRoot(db, path, RootOf(Paths, map))[Height - 1 - d]]
                 = Siblings(Paths, map, path)
          BY <4>1, ProofOfPath
      <4> HIDE DEF sibs
      <4> QED  BY <4>1, <4>2 DEF path
    <3>4. Len(proof) = Height - 1
        BY <3>3, Sizes
    <3> HIDE DEF side
    <3>5. NewRoot(UpdateWithSideNodes(Paths[k1], map[k1], side)) = RootOf(Paths, map)
        BY <2>1, <3>3, OwnProof
    <3> QED  BY <2>3, <2>5, <3>4, <3>5 DEF map
  <2> QED  BY <2>4, <2>5
<1>2. IInv => ProofsDecide
    BY <1>1 DEF ProofsDecide
<1> QED  BY <1>2, Invariant, PTL

(* DecompactProof gives back what CompactProof was given.                  *)
THEOREM Lossless == Spec => []CompactionLossless
<1>1. ASSUME IInv, NEW s \in saved, NEW k \in Keys, NEW proof,
             proof = ProveForRoot(db, GetPath(k), s.root)
      PROVE  Decompactable(CompactProof(proof)) /\ DecompactProof(CompactProof(proof)) = proof
  <2> DEFINE N == Height - 1
             map == s.map
             path == Paths[k]
             side == [i \in 1..N |-> Sibling(Paths, map, path, N - i)]
  <2>1. Paths[k] = GetPath(k)
      BY <1>1, PathsApart DEF IInv
  <2>2. s.root = RootOf(Paths, map) /\ TreeStored(db, Paths, map)
      BY <1>1 DEF IInv, VersionsStored
  <2>3. PathStored(db, Paths, map, path)
      BY <2>2, TreeHasPaths
  <2>4. proof = ProveForRoot(db, path, RootOf(Paths, map))
      BY <1>1, <2>1, <2>2
  <2> HIDE DEF map, path
  <2>5. proof = side
      BY <2>3, <2>4, ProofOfPath
  <2>6. ASSUME NEW i \in Depths
        PROVE  side[i + 1] # DefaultNode(i)
    <3>1. i + 1 \in 1..N
        BY Sizes
    <3>2. side[i + 1] = Sibling(Paths, map, path, N - (i + 1))
        BY <3>1
    <3> QED  BY <3>2, NeverDropped
  <2> HIDE DEF side
  <2>7. proof = [n \in 1..N |-> side[n]]
      BY <2>5 DEF side
  <2>8. /\ Decompactable(CompactProof([n \in 1..N |-> side[n]]))
        /\ DecompactProof(CompactProof([n \in 1..N |-> side[n]])) = [n \in 1..N |-> side[n]]
      BY <2>6, Compaction
  <2> QED  BY <2>7, <2>8
<1>2. IInv => CompactionLossless
    BY <1>1 DEF CompactionLossless
<1> QED  BY <1>2, Invariant, PTL

(* A DeepSparseMerkleSubTree reads and updates the keys it has branches of *)
(* as the whole tree would.                                                *)
THEOREM Faithful == Spec => []SubtreeFaithful
<1>1. ASSUME IInv, hashKey, NEW b \in branches
      PROVE  /\ GetForRoot(sub.nodes, GetPath(b.key), b.root) = Leaf(b.map[b.key])
             /\ \A v \in AllValues :
                   NewRoot(DataWritten(sub.nodes, GetPath(b.key), v, b.root))
                     = MerkleRoot([b.map EXCEPT ![b.key] = v])
  <2> DEFINE k == b.key
             map == b.map
  <2>1. BranchSound(b, sub.nodes, Paths)
      BY <1>1 DEF IInv, BranchesStored
  <2>2. /\ k \in Keys /\ map \in [Keys -> AllValues] /\ b.root = RootOf(Paths, map)
        /\ PathStored(sub.nodes, Paths, map, Paths[k])
      BY <2>1 DEF BranchSound
  <2>3. KeysApart(Paths) /\ Paths[k] = GetPath(k)
      BY <1>1, <2>2, PathsApart DEF IInv
  <2> HIDE DEF k, map
  <2>4. GetForRoot(sub.nodes, Paths[k], RootOf(Paths, map)) = Leaf(map[k])
      BY <2>2, <2>3, ReadOfPath
  <2>5. ASSUME NEW v \in AllValues
        PROVE  NewRoot(DataWritten(sub.nodes, Paths[k], v, RootOf(Paths, map)))
                 = MerkleRoot([map EXCEPT ![k] = v])
    <3> DEFINE map2 == [map EXCEPT ![k] = v]
    <3>1. SameButFor(map, map2, k) /\ map2[k] = v
        BY <2>2, MapChanged
    <3> HIDE DEF map2
    <3>2. NewRoot(DataWritten(sub.nodes, Paths[k], map2[k], RootOf(Paths, map)))
            = RootOf(Paths, map2)
        BY <2>2, <2>3, <3>1, UpdateRoots
    <3>3. MerkleRoot(map2) = RootOf(Paths, map2)
        BY RootByDefinition
    <3> QED  BY <3>1, <3>2, <3>3 DEF map2
  <2>6. GetForRoot(sub.nodes, GetPath(k), b.root) = Leaf(map[k])
      BY <2>2, <2>3, <2>4
  <2>7. ASSUME NEW v \in AllValues
        PROVE  NewRoot(DataWritten(sub.nodes, GetPath(k), v, b.root))
                 = MerkleRoot([map EXCEPT ![k] = v])
    <3>1. DataWritten(sub.nodes, GetPath(k), v, b.root)
            = DataWritten(sub.nodes, Paths[k], v, RootOf(Paths, map))
        BY <2>2, <2>3
    <3> QED  BY <2>5, <3>1
  <2> QED  BY <2>6, <2>7 DEF k, map
<1>2. IInv => SubtreeFaithful
    BY <1>1 DEF SubtreeFaithful
<1> QED  BY <1>2, Invariant, PTL
=============================================================================
