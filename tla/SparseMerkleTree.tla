-------------------------- MODULE SparseMerkleTree --------------------------
(***************************************************************************)
(* smt.SparseMerkleTree: a tree of fixed height kept in a key/value store  *)
(* under the hashes of its nodes, so that every root it ever had can still *)
(* be read, proved against and updated; and DeepSparseMerkleSubTree, which *)
(* works on the branches that proofs carried over from such a tree.        *)
(*                                                                         *)
(* The hash function is taken to be injective: a hash is the term it was   *)
(* made of, except that the default nodes, the hashes of empty subtrees,   *)
(* are written as their level.  Data is what is hashed and stored: a value *)
(* or the hashes of two children.                                          *)
(***************************************************************************)
EXTENDS Integers, Sequences, FiniteSets

CONSTANTS
    Keys,          \* keys, as numbers
    Values,        \* values other than the default
    DefaultValue,  \* what an empty leaf holds
    Height,        \* levels of the tree; a path takes Height - 1 turns
    HashSize,      \* hasher.Size(), in bytes
    HashedKey,     \* the digest of a key, as a number
    MaxUpdates,    \* bound on the updates of the tree
    MaxBranches    \* bound on the branches added to the subtree

AllValues == Values \cup {DefaultValue}

HashBits == HashSize * 8

ASSUME TreeAssumption ==
    /\ HashSize \in Nat \ {0}
    /\ Height \in 2..HashBits
    /\ Keys \subseteq Nat
    /\ HashedKey \in [Keys -> Nat]
    /\ DefaultValue \notin Values
    /\ MaxUpdates \in Nat /\ MaxBranches \in Nat

VARIABLES
    hashKey,    \* the flag of the tree: a key is hashed to give its path
    db,         \* nodes: hash -> data
    root,       \* the current root
    sub,        \* the subtree: its nodes and its current root
    saved,      \* history: the roots returned so far and what they stand for
    branches,   \* history: the branches added to the subtree, and their roots
    updates     \* number of updates

vars == <<hashKey, db, root, sub, saved, branches, updates>>

-----------------------------------------------------------------------------
(* Hashes and data *)

DefaultNode(level) == [default |-> level]

Leaf(v) == [value |-> v]

Inner(l, r) == [left |-> l, right |-> r]

IsLeaf(data) == DOMAIN data = {"value"}

DefaultPair(data) ==
    \E level \in 1..(HashBits - 1) : data = Inner(DefaultNode(level), DefaultNode(level))

Digest(data) ==
    CASE data = Leaf(DefaultValue) -> DefaultNode(HashBits - 1)
      [] DefaultPair(data)         -> DefaultNode(data.left.default - 1)
      [] OTHER                     -> data

(* What a lookup of an absent node yields: the operation returns "Corrupt  *)
(* db".                                                                    *)
Corrupt == [corrupt |-> TRUE]

Lookup(nodes, h) == IF h \in DOMAIN nodes THEN nodes[h] ELSE Corrupt

(* One flush of a bulk: all the data at once, each under its hash.         *)
Stored(nodes, written) ==
    [h \in DOMAIN nodes \cup { Digest(d) : d \in written } |->
        IF h \in { Digest(d) : d \in written }
        THEN CHOOSE d \in written : Digest(d) = h
        ELSE nodes[h]]

(* The nodes of the empty tree of this height.                             *)
EmptyNodes ==
    Stored([h \in {} |-> Corrupt],
           { Inner(DefaultNode(l), DefaultNode(l)) :
                l \in (HashBits - Height + 1)..(HashBits - 1) }
           \cup {Leaf(DefaultValue)})

EmptyRoot == DefaultNode(HashBits - Height)

-----------------------------------------------------------------------------
(* Paths *)

Depths == 0..(Height - 2)

IsLeft(path, depth) == (path \div 2^(Height - 2 - depth)) % 2 = 0

(* Within the height of the tree no two keys meet, hashed or not.          *)
ASSUME PathsAssumption ==
    \A k1, k2 \in Keys : k1 # k2 =>
        /\ \E d \in Depths : IsLeft(k1, d) # IsLeft(k2, d)
        /\ \E d \in Depths : IsLeft(HashedKey[k1], d) # IsLeft(HashedKey[k2], d)

GetPath(k) == IF hashKey THEN HashedKey[k] ELSE k

Child(data, left) ==
    IF DOMAIN data # {"left", "right"} THEN Corrupt
    ELSE IF left THEN data.left ELSE data.right

(* The hash reached after so many turns.                                   *)
Descend(nodes, r, path) ==
    LET at[d \in 0..(Height - 1)] ==
            IF d = 0 THEN r ELSE Child(Lookup(nodes, at[d - 1]), IsLeft(path, d - 1))
    IN  at

GetForRoot(nodes, path, r) == Lookup(nodes, Descend(nodes, r, path)[Height - 1])

(* The siblings of the path; indexes are those of the code.                *)
SideNodesForRoot(nodes, path, r) ==
    LET at == Descend(nodes, r, path)
    IN  [d \in Depths |-> Child(Lookup(nodes, at[d]), ~IsLeft(path, d))]

(* Variant: the sides of a node are not told apart.                        *)
JoinUnordered(path, depth, h, side) == Inner(h, side)

Join(path, depth, h, side) == IF IsLeft(path, depth) THEN Inner(h, side) ELSE Inner(side, h)

(* The data from the leaf up to the root.                                  *)
UpdateWithSideNodes(path, v, side) ==
    LET data[d \in 0..(Height - 1)] ==
            IF d = Height - 1 THEN Leaf(v)
            ELSE Join(path, d, Digest(data[d + 1]), side[d])
    IN  data

DataWritten(nodes, path, v, r) ==
    UpdateWithSideNodes(path, v, SideNodesForRoot(nodes, path, r))

Written(data) == { data[d] : d \in DOMAIN data }

NewRoot(data) == Digest(data[0])

-----------------------------------------------------------------------------
(* Proofs: siblings from the leaf to the root *)

(* Variant: from the root to the leaf, as sideNodesForRoot returns them.   *)
ProveUnreversed(nodes, path, r) ==
    LET side == SideNodesForRoot(nodes, path, r)
    IN  [i \in 1..(Height - 1) |-> side[i - 1]]

ProveForRoot(nodes, path, r) ==
    LET side == SideNodesForRoot(nodes, path, r)
    IN  [i \in 1..(Height - 1) |-> side[Height - 1 - i]]

(* The key is hashed, whatever kind of tree the proof is from.             *)
VerifyProof(proof, r, k, v) ==
    LET data == UpdateWithSideNodes(HashedKey[k], v,
                                    [d \in Depths |-> proof[Height - 1 - d]])
    IN  Len(proof) = Height - 1 /\ NewRoot(data) = r

(* setBit numbers the bits of a byte from the least significant one,       *)
(* isLeft reads the bytes as one big-endian number.                        *)
BitSet(i) == 8 * (HashSize - 1 - (i \div 8)) + (i % 8)

BitRead(i) == Height - 2 - i

(* Variant: a sibling is compared with the default node of its own level.  *)
CompactProofByLevel(proof) ==
    LET isDefault(i) == proof[i + 1] = DefaultNode(HashBits - 1 - i)
    IN  [bits |-> { BitSet(i) : i \in { j \in Depths : isDefault(j) } },
         nodes |-> SelectSeq(proof, LAMBDA n :
                        \A i \in Depths : proof[i + 1] = n => ~isDefault(i))]

(* The sibling at place i, counted from the leaf, is compared with default *)
(* node i, counted from the top of a tree as deep as the hash is long.     *)
CompactProof(proof) ==
    LET isDefault(i) == proof[i + 1] = DefaultNode(i)
        kept         == { i \in Depths : ~isDefault(i) }
        place(n)     == CHOOSE i \in kept : Cardinality({ j \in kept : j <= i }) = n
    IN  [bits |-> { BitSet(i) : i \in Depths \ kept },
         nodes |-> [n \in 1..Cardinality(kept) |-> proof[place(n) + 1]]]

(* DecompactProof returns an error when the sizes do not add up.           *)
Decompactable(compact) == Len(compact.nodes) = Height - 1 - Cardinality(compact.bits)

DecompactProof(compact) ==
    LET given        == { i \in Depths : BitRead(i) \notin compact.bits }
        position(i)  == Cardinality({ j \in given : j <= i })
    IN  [n \in 1..(Height - 1) |->
            IF n - 1 \in given THEN compact.nodes[position(n - 1)] ELSE DefaultNode(n - 1)]

-----------------------------------------------------------------------------
(* Behaviour *)

EmptyMap == [k \in Keys |-> DefaultValue]

Init ==
    /\ hashKey \in BOOLEAN
    /\ db = EmptyNodes
    /\ root = EmptyRoot
    /\ sub = [nodes |-> [h \in {} |-> Corrupt], root |-> Corrupt]
    /\ saved = {[root |-> EmptyRoot, map |-> EmptyMap]}
    /\ branches = {}
    /\ updates = 0

(* Variant: the new root node is stored in the place of the old one.       *)
UpdateAtOverwriting(k, v, s, current) ==
    LET data == DataWritten(db, GetPath(k), v, s.root)
    IN  /\ updates < MaxUpdates
        /\ current => s.root = root
        /\ db' = [Stored(db, Written(data)) EXCEPT ![s.root] = data[0]]
        /\ root' = IF current THEN NewRoot(data) ELSE root
        /\ saved' = saved \cup {[root |-> NewRoot(data), map |-> [s.map EXCEPT ![k] = v]]}
        /\ updates' = updates + 1
        /\ UNCHANGED <<hashKey, sub, branches>>

(* Variant: the leaf that is replaced is deleted.                          *)
UpdateAtPruning(k, v, s, current) ==
    LET data == DataWritten(db, GetPath(k), v, s.root)
        old  == Descend(db, s.root, GetPath(k))[Height - 1]
    IN  /\ updates < MaxUpdates
        /\ current => s.root = root
        /\ db' = [h \in DOMAIN Stored(db, Written(data)) \ ({old} \ {Digest(Leaf(v))}) |->
                    Stored(db, Written(data))[h]]
        /\ root' = IF current THEN NewRoot(data) ELSE root
        /\ saved' = saved \cup {[root |-> NewRoot(data), map |-> [s.map EXCEPT ![k] = v]]}
        /\ updates' = updates + 1
        /\ UNCHANGED <<hashKey, sub, branches>>

(* UpdateForRoot at any root returned so far; Update is the case of the    *)
(* current root, and makes the new root current.                           *)
UpdateAt(k, v, s, current) ==
    LET data == DataWritten(db, GetPath(k), v, s.root)
    IN  /\ updates < MaxUpdates
        /\ current => s.root = root
        /\ db' = Stored(db, Written(data))
        /\ root' = IF current THEN NewRoot(data) ELSE root
        /\ saved' = saved \cup {[root |-> NewRoot(data), map |-> [s.map EXCEPT ![k] = v]]}
        /\ updates' = updates + 1
        /\ UNCHANGED <<hashKey, sub, branches>>

(* SetRoot, or NewSparseMerkleTree on a store that was used: with a root,  *)
(* or with none, which gives the empty root to every state machine that is *)
(* restarted.                                                              *)
SetRoot(s) ==
    /\ root' = s.root
    /\ UNCHANGED <<hashKey, db, sub, saved, branches, updates>>

(* Variant: the proof is not turned round.                                 *)
AddBranchesUnreversed(k, s, updateRoot) ==
    LET proof == ProveForRoot(db, GetPath(k), s.root)
        data  == UpdateWithSideNodes(HashedKey[k], s.map[k],
                                     [d \in Depths |-> proof[d + 1]])
    IN  /\ Cardinality(branches) < MaxBranches
        /\ sub' = [nodes |-> Stored(sub.nodes, Written(data)),
                   root  |-> IF updateRoot THEN NewRoot(data) ELSE sub.root]
        /\ branches' = branches \cup {[key |-> k, root |-> s.root, map |-> s.map]}
        /\ UNCHANGED <<hashKey, db, root, saved, updates>>

(* AddBranches with a proof made by ProveForRoot.  The path is the hash of *)
(* the key, whatever hashKey says.                                         *)
AddBranches(k, s, updateRoot) ==
    LET proof == ProveForRoot(db, GetPath(k), s.root)
        data  == UpdateWithSideNodes(HashedKey[k], s.map[k],
                                     [d \in Depths |-> proof[Height - 1 - d]])
    IN  /\ Cardinality(branches) < MaxBranches
        /\ sub' = [nodes |-> Stored(sub.nodes, Written(data)),
                   root  |-> IF updateRoot THEN NewRoot(data) ELSE sub.root]
        /\ branches' = branches \cup {[key |-> k, root |-> s.root, map |-> s.map]}
        /\ UNCHANGED <<hashKey, db, root, saved, updates>>

(* Update of the subtree, at its current root, for a key it has a branch    *)
(* of.  The other branches of that root are branches of the new one.       *)
UpdateSubtree(k, v) ==
    LET data  == DataWritten(sub.nodes, GetPath(k), v, sub.root)
        known == { b \in branches : b.root = sub.root }
    IN  /\ updates < MaxUpdates
        /\ \E b \in known : b.key = k
        /\ sub' = [nodes |-> Stored(sub.nodes, Written(data)), root |-> NewRoot(data)]
        /\ branches' = branches \cup
               { [b EXCEPT !.root = NewRoot(data), !.map[k] = v] : b \in known }
        /\ updates' = updates + 1
        /\ UNCHANGED <<hashKey, db, root, saved>>

Next ==
    \/ \E k \in Keys, v \in AllValues : UpdateSubtree(k, v)
    \/ \E s \in saved, k \in Keys :
          \/ \E v \in AllValues, current \in BOOLEAN : UpdateAt(k, v, s, current)
          \/ \E updateRoot \in BOOLEAN : AddBranches(k, s, updateRoot)
    \/ \E s \in saved : SetRoot(s)

Spec == Init /\ [][Next]_vars
-----------------------------------------------------------------------------
(* Properties *)

(* Every node is stored under its own hash.                                *)
TypeOK ==
    /\ hashKey \in BOOLEAN
    /\ \A h \in DOMAIN db : Digest(db[h]) = h
    /\ \A h \in DOMAIN sub.nodes : Digest(sub.nodes[h]) = h
    /\ updates \in Nat

(* Every root the tree ever returned can still be read, and gives for each *)
(* key the value that was last set on the way to that root: later updates, *)
(* of this root or of another, of the key or of its neighbours, restarts   *)
(* included, never reach back.                                             *)
OldRootsReadable ==
    \A s \in saved, k \in Keys : GetForRoot(db, GetPath(k), s.root) = Leaf(s.map[k])

(* The first n turns of a path.                                            *)
Turns(path, n) == [e \in 0..(n - 1) |-> IsLeft(path, e)]

(* One turn more.                                                          *)
Turn(turns, n, left) == [e \in 0..n |-> IF e = n THEN left ELSE turns[e]]

(* The value of the only key, if any, that all these turns lead to.        *)
ValueAt(paths, map, turns) ==
    LET here == { k \in Keys : Turns(paths[k], Height - 1) = turns }
    IN  IF here = {} THEN DefaultValue ELSE map[CHOOSE k \in here : TRUE]

(* The Merkle tree of a map by definition: the hashes of all the leaves,   *)
(* joined pairwise, level by level.  A node is named by the turns that     *)
(* lead to it from the root, a key has the turns of its path.              *)
MerkleTree(paths, map) ==
    LET level[d \in 0..(Height - 1)] ==
            [t \in [0..(d - 1) -> BOOLEAN] |->
                Digest(IF d = Height - 1 THEN Leaf(ValueAt(paths, map, t))
                       ELSE Inner(level[d + 1][Turn(t, d, TRUE)],
                                  level[d + 1][Turn(t, d, FALSE)]))]
    IN  level

Paths == [k \in Keys |-> GetPath(k)]

MerkleRoot(map) == MerkleTree(Paths, map)[0][Turns(0, 0)]

(* The root is the Merkle root of the contents, whatever the order of      *)
(* updates, overwritten and deleted values included: two nodes that have   *)
(* the same accounts have the same root, and different ones otherwise.     *)
RootsCanonical ==
    \A s \in saved : s.root = MerkleRoot(s.map)

(* In a tree that hashes its keys a proof verifies exactly the value the   *)
(* root has for the key; no proof made for another key or for another      *)
(* root makes a wrong value pass.                                          *)
ProofsDecide ==
    hashKey =>
        \A s, u \in saved, k1, k2 \in Keys, v \in AllValues :
            LET proof == ProveForRoot(db, GetPath(k2), u.root)
            IN  /\ VerifyProof(proof, s.root, k1, v) => v = s.map[k1]
                /\ s = u /\ k1 = k2 /\ v = s.map[k1] => VerifyProof(proof, s.root, k1, v)

(* Compacting and decompacting gives the proof back.                       *)
CompactionLossless ==
    \A s \in saved, k \in Keys :
        LET proof   == ProveForRoot(db, GetPath(k), s.root)
            compact == CompactProof(proof)
        IN  Decompactable(compact) /\ DecompactProof(compact) = proof

(* A subtree that hashes its keys reads the keys it was given branches of, *)
(* from any tree version and after updates of its own, and an update it    *)
(* computes for one of them has the root that the whole tree would get.    *)
SubtreeFaithful ==
    hashKey =>
        \A b \in branches :
            /\ GetForRoot(sub.nodes, GetPath(b.key), b.root) = Leaf(b.map[b.key])
            /\ \A v \in AllValues :
                  NewRoot(DataWritten(sub.nodes, GetPath(b.key), v, b.root))
                    = MerkleRoot([b.map EXCEPT ![b.key] = v])
=============================================================================
