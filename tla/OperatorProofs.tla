--------------------------- MODULE OperatorProofs ---------------------------
(***************************************************************************)
(* Facts about the operators several components are built from.            *)
(*                                                                         *)
(* AccountState: every operation of the state machine leads from a         *)
(* consistent state to a consistent state, and what it does to the account *)
(* it is about and to all others.                                          *)
(*                                                                         *)
(* Encoding: what was packed is read back, transition by transition and    *)
(* block by block.                                                         *)
(***************************************************************************)
EXTENDS Encoding, SequenceTheorems, WellFoundedInduction, TLAPS

-----------------------------------------------------------------------------
(* Induction over naturals and definitions by recursion, with a set in the *)
(* place of the predicate.                                                 *)

(* Every set of naturals that is not empty has a least element.            *)
LEMMA LeastElement ==
    ASSUME NEW S, S \subseteq Nat, S # {}
    PROVE  \E n \in S : \A m \in S : n <= m
<1>1. PICK n \in S : \A m \in S : ~(<<m, n>> \in OpToRel(<, Nat))
  BY NatLessThanWellFounded, WFMin
<1>2. \A m \in S : ~(m < n)
  BY <1>1 DEF OpToRel
<1>3. \A m \in S : n <= m
  BY <1>2
<1>. QED  BY <1>3

(* Induction up to a bound, over a set instead of a predicate.             *)
LEMMA InductionTo ==
    ASSUME NEW N \in Nat, NEW S, 0 \in S, \A n \in 0..(N - 1) : n \in S => n + 1 \in S
    PROVE  \A n \in 0..N : n \in S
<1> SUFFICES ASSUME NEW k \in 0..N, k \notin S PROVE FALSE
  OBVIOUS
<1> DEFINE T == { n \in 0..N : n \notin S }
<1>0. T \subseteq Nat /\ T # {}
  OBVIOUS
<1>1. \E n \in T : \A m \in T : n <= m
  <2> HIDE DEF T
  <2>. QED  BY <1>0, LeastElement
<1>2. PICK n \in T : \A m \in T : n <= m
  BY <1>1
<1>3. n # 0 /\ n - 1 \in 0..(N - 1)
  OBVIOUS
<1>4. n - 1 \in S
  <2>1. n - 1 \notin T
    BY <1>2, <1>3
  <2>. QED  BY <2>1, <1>3
<1>5. (n - 1) + 1 \in S
  BY <1>3, <1>4
<1>. QED  BY <1>3, <1>5

(* A function defined by recursion over 0..N exists, and there is one.     *)
LEMMA RecursionExists ==
    ASSUME NEW V, NEW base \in V, NEW N \in Nat, NEW step \in [1..N -> [V -> V]]
    PROVE  \E f \in [0..N -> V] :
              f[0] = base /\ \A n \in 1..N : f[n] = step[n][f[n - 1]]
<1> DEFINE Is(f, k) == f[0] = base /\ \A n \in 1..k : f[n] = step[n][f[n - 1]]
           S == { k \in 0..N : \E f \in [0..k -> V] : Is(f, k) }
<1>1. 0 \in S
  <2>1. [n \in 0..0 |-> base] \in [0..0 -> V] /\ Is([n \in 0..0 |-> base], 0)
    OBVIOUS
  <2> HIDE DEF Is
  <2>. QED  BY <2>1
<1>2. ASSUME NEW k \in 0..(N - 1), k \in S
      PROVE  k + 1 \in S
  <2>1. PICK f \in [0..k -> V] : Is(f, k)
    BY <1>2
  <2> DEFINE g == [n \in 0..(k + 1) |-> IF n = k + 1 THEN step[k + 1][f[k]] ELSE f[n]]
  <2>2. k + 1 \in 0..N /\ k + 1 \in 1..N /\ f[k] \in V
    OBVIOUS
  <2>3. step[k + 1][f[k]] \in V
    BY <2>2
  <2>4. g \in [0..(k + 1) -> V]
    BY <2>3
  <2>5. Is(g, k + 1)
    BY <2>1
  <2> HIDE DEF Is, g
  <2>. QED  BY <2>2, <2>4, <2>5
<1>3. N \in S
  <2> HIDE DEF S
  <2>1. \A n \in 0..(N - 1) : n \in S => n + 1 \in S
    BY <1>2
  <2>2. \A n \in 0..N : n \in S
    BY <1>1, <2>1, InductionTo
  <2>. QED  BY <2>2
<1>. QED  BY <1>3

-----------------------------------------------------------------------------
(* Sums *)

(* f holds the sum of every beginning of the sequence.                     *)
Adding(f, s) == f[0] = 0 /\ \A n \in 1..Len(s) : f[n] = f[n - 1] + s[n]

(* SumOf adds up the sequence from the left.                               *)
LEMMA SumUnfolds ==
    ASSUME NEW s, s \in Seq(Int)
    PROVE  \E f : /\ Adding(f, s)
                  /\ SumOf(s) = f[Len(s)]
                  /\ \A n \in 0..Len(s) : f[n] \in Int
<1> DEFINE N == Len(s)
           step == [n \in 1..N |-> [x \in Int |-> x + s[n]]]
           rec(f) == [n \in 0..N |-> IF n = 0 THEN 0 ELSE f[n - 1] + s[n]]
           Is(f) == f = rec(f)
<1>1. N \in Nat /\ \A n \in 1..N : s[n] \in Int
  OBVIOUS
<1>2. step \in [1..N -> [Int -> Int]]
  BY <1>1
<1>3. PICK g \in [0..N -> Int] : g[0] = 0 /\ \A n \in 1..N : g[n] = step[n][g[n - 1]]
  <2> DEFINE V == Int
  <2>1. 0 \in V /\ step \in [1..N -> [V -> V]]
    BY <1>2
  <2>2. PICK base \in V : base = 0
    BY <2>1
  <2> HIDE DEF N, V, step
  <2>3. \E g \in [0..N -> V] : g[0] = base /\ \A n \in 1..N : g[n] = step[n][g[n - 1]]
    BY <1>1, <2>1, RecursionExists, SMTT(30)
  <2>. QED  BY <2>2, <2>3 DEF V
<1>4. \A n \in 1..N : g[n] = g[n - 1] + s[n]
  <2>1. ASSUME NEW n \in 1..N PROVE g[n] = g[n - 1] + s[n]
    <3>1. n - 1 \in 0..N /\ g[n - 1] \in Int
      BY <1>1, SMTT(30)
    <3>. QED  BY <1>3, <3>1
  <2>. QED  BY <2>1
<1>5. Is(g)
  <2> HIDE DEF step
  <2>1. ASSUME NEW n \in 0..N PROVE g[n] = rec(g)[n]
    <3>1. CASE n = 0
      BY <1>3, <3>1
    <3>2. CASE n # 0
      BY <1>1, <1>4, <3>2
    <3>. QED  BY <3>1, <3>2
  <2>2. g = [n \in 0..N |-> g[n]]
    BY <1>3
  <2>. QED  BY <2>1, <2>2
<1>6. \A f : Is(f) => f = g
  <2> SUFFICES ASSUME NEW f, Is(f) PROVE f = g
    BY ZenonT(10)
  <2> HIDE DEF step
  <2> DEFINE S == { n \in 0..N : f[n] = g[n] }
  <2>1. 0 \in S
    BY <1>1, <1>3
  <2>2. ASSUME NEW n \in 0..(N - 1), n \in S PROVE n + 1 \in S
    <3>1. n + 1 \in 1..N /\ n + 1 \in 0..N /\ n + 1 # 0 /\ (n + 1) - 1 = n
      BY <1>1
    <3>2. f[n + 1] = f[n] + s[n + 1]
      BY <3>1
    <3>3. g[n + 1] = g[n] + s[n + 1]
      BY <1>4, <3>1
    <3>4. f[n] = g[n]
      BY <2>2
    <3>. QED  BY <3>1, <3>2, <3>3, <3>4
  <2>3. \A n \in 0..N : n \in S
    <3> HIDE DEF S
    <3>. QED  BY <1>1, <2>1, <2>2, InductionTo
  <2>4. DOMAIN f = 0..N /\ f = [n \in 0..N |-> f[n]]
    OBVIOUS
  <2>. QED  BY <1>3, <2>3, <2>4
<1>7. SumOf(s) = g[N]
  <2>1. SumOf(s) = (CHOOSE f : Is(f))[N]
    BY DEF SumOf
  <2> HIDE DEF Is
  <2>. QED  BY <1>5, <1>6, <2>1
<1>8. Adding(g, s)
  BY <1>3, <1>4 DEF Adding
<1>. QED  BY <1>3, <1>7, <1>8

(* A sum is an integer, 0 of the empty sequence.                           *)
LEMMA SumTyped ==
    /\ \A s \in Seq(Int) : SumOf(s) \in Int
    /\ SumOf(<<>>) = 0
<1>1. ASSUME NEW s \in Seq(Int) PROVE SumOf(s) \in Int
  <2>1. PICK f : SumOf(s) = f[Len(s)] /\ \A n \in 0..Len(s) : f[n] \in Int
    BY SumUnfolds
  <2>2. Len(s) \in 0..Len(s)
    OBVIOUS
  <2>. QED  BY <2>1, <2>2
<1>2. SumOf(<<>>) = 0
  <2> DEFINE empty == <<>>
  <2>1. empty \in Seq(Int) /\ Len(empty) = 0
    OBVIOUS
  <2> HIDE DEF empty
  <2>2. PICK f : Adding(f, empty) /\ SumOf(empty) = f[0]
    BY <2>1, SumUnfolds
  <2>3. SumOf(empty) = 0
    BY <2>2 DEF Adding
  <2>. QED  BY <2>3 DEF empty
<1>. QED  BY <1>1, <1>2

(* When the sequences differ at most at k, so do the sums.                 *)
LEMMA SumsDiffer ==
    ASSUME NEW s, s \in Seq(Int), NEW r, r \in Seq(Int), Len(r) = Len(s),
           NEW k \in 1..Len(s), \A n \in 1..Len(s) : n # k => r[n] = s[n]
    PROVE  SumOf(r) = SumOf(s) - s[k] + r[k]
<1> DEFINE N == Len(s)
<1>1. N \in Nat /\ \A n \in 1..N : s[n] \in Int /\ r[n] \in Int
  OBVIOUS
<1>2. PICK f : Adding(f, s) /\ SumOf(s) = f[N] /\ \A n \in 0..N : f[n] \in Int
  BY SumUnfolds
<1>3. PICK g : Adding(g, r) /\ SumOf(r) = g[N] /\ \A n \in 0..N : g[n] \in Int
  BY SumUnfolds
<1>4. /\ f[0] = 0 /\ \A n \in 1..N : f[n] = f[n - 1] + s[n]
      /\ g[0] = 0 /\ \A n \in 1..N : g[n] = g[n - 1] + r[n]
  BY <1>2, <1>3 DEF Adding
<1> DEFINE S == { n \in 0..N : g[n] = f[n] + (IF n < k THEN 0 ELSE r[k] - s[k]) }
<1>5. 0 \in S
  BY <1>1, <1>4
<1>6. ASSUME NEW n \in 0..(N - 1), n \in S PROVE n + 1 \in S
  <2>1. /\ n + 1 \in 1..N /\ n + 1 \in 0..N /\ (n + 1) - 1 = n
        /\ f[n] \in Int /\ g[n] \in Int /\ s[n + 1] \in Int /\ r[n + 1] \in Int
        /\ s[k] \in Int /\ r[k] \in Int
    BY <1>1, <1>2, <1>3
  <2>2. f[n + 1] = f[n] + s[n + 1] /\ g[n + 1] = g[n] + r[n + 1]
    BY <1>4, <2>1
  <2>3. g[n] = f[n] + (IF n < k THEN 0 ELSE r[k] - s[k])
    BY <1>6
  <2>4. n \in Nat /\ k \in Nat /\ N \in Nat
    BY <1>1
  <2>5. g[n + 1] = f[n + 1] + (IF n + 1 < k THEN 0 ELSE r[k] - s[k])
    <3>1. CASE n + 1 = k
      <4>1. g[n] = f[n]
        BY <2>1, <2>3, <2>4, <3>1
      <4>2. g[n + 1] = f[n + 1] + (r[k] - s[k])
        BY <2>1, <2>2, <3>1, <4>1
      <4>. QED  BY <2>4, <3>1, <4>2
    <3>2. CASE n + 1 < k
      <4>1. g[n] = f[n] /\ r[n + 1] = s[n + 1]
        BY <2>1, <2>3, <2>4, <3>2
      <4>. QED  BY <2>1, <2>2, <3>2, <4>1
    <3>3. CASE n + 1 > k
      <4>1. g[n] = f[n] + (r[k] - s[k]) /\ r[n + 1] = s[n + 1]
        BY <2>1, <2>3, <2>4, <3>3
      <4>2. g[n + 1] = f[n + 1] + (r[k] - s[k])
        BY <2>1, <2>2, <4>1, SMTT(30)
      <4>. QED  BY <2>4, <3>3, <4>2
    <3>. QED  BY <2>4, <3>1, <3>2, <3>3
  <2>. QED  BY <2>1, <2>5
<1>7. \A n \in 0..N : n \in S
  <2> HIDE DEF S
  <2>. QED  BY <1>1, <1>5, <1>6, InductionTo
<1>8. g[N] = f[N] + (r[k] - s[k]) /\ f[N] \in Int /\ s[k] \in Int /\ r[k] \in Int
  BY <1>1, <1>2, <1>7
<1>. QED  BY <1>2, <1>3, <1>8

(* One more term.                                                          *)
LEMMA SumAppend ==
    ASSUME NEW s, s \in Seq(Int), NEW x \in Int
    PROVE  SumOf(Append(s, x)) = SumOf(s) + x
<1> DEFINE N == Len(s)
           more == Append(s, x)
<1>1. /\ N \in Nat /\ Len(more) = N + 1 /\ more \in Seq(Int)
      /\ more[N + 1] = x /\ \A n \in 1..N : more[n] = s[n]
  OBVIOUS
<1>2. PICK f : Adding(f, s) /\ SumOf(s) = f[N]
  BY SumUnfolds
<1> HIDE DEF more
<1>3. PICK g : Adding(g, more) /\ SumOf(more) = g[N + 1]
  BY <1>1, SumUnfolds
<1>4. /\ f[0] = 0 /\ \A n \in 1..N : f[n] = f[n - 1] + s[n]
      /\ g[0] = 0 /\ \A n \in 1..(N + 1) : g[n] = g[n - 1] + more[n]
  BY <1>1, <1>2, <1>3 DEF Adding
<1> DEFINE S == { n \in 0..N : f[n] = g[n] }
<1>5. 0 \in S
  BY <1>1, <1>4
<1>6. ASSUME NEW n \in 0..(N - 1), n \in S PROVE n + 1 \in S
  <2>1. /\ n + 1 \in 1..N /\ n + 1 \in 1..(N + 1) /\ n + 1 \in 0..N
        /\ (n + 1) - 1 = n /\ more[n + 1] = s[n + 1]
    BY <1>1
  <2>2. f[n + 1] = f[n] + s[n + 1] /\ g[n + 1] = g[n] + s[n + 1]
    BY <1>4, <2>1
  <2>3. f[n] = g[n]
    BY <1>6
  <2>. QED  BY <2>1, <2>2, <2>3
<1>7. \A n \in 0..N : n \in S
  <2> HIDE DEF S
  <2>. QED  BY <1>1, <1>5, <1>6, InductionTo
<1>8. g[N + 1] = g[N] + x /\ f[N] = g[N]
  <2>1. N + 1 \in 1..(N + 1) /\ (N + 1) - 1 = N
    BY <1>1
  <2>. QED  BY <1>1, <1>4, <1>7, <2>1
<1>9. SumOf(more) = SumOf(s) + x
  BY <1>2, <1>3, <1>8
<1>. QED  BY <1>9 DEF more

-----------------------------------------------------------------------------
(* Tables *)

(* Put keeps a table a table and changes it at one key.                    *)
LEMMA PutProperties ==
    ASSUME NEW S, NEW f, f \in [DOMAIN f -> S], NEW k, NEW v \in S
    PROVE  /\ DOMAIN Put(f, k, v) = DOMAIN f \cup {k}
           /\ Put(f, k, v) \in [DOMAIN Put(f, k, v) -> S]
           /\ Put(f, k, v)[k] = v
           /\ \A x \in DOMAIN f : x # k => Put(f, k, v)[x] = f[x]
BY DEF Put

(* The empty table is a table of any type.                                 *)
LEMMA EmptyTableProperties ==
    ASSUME NEW S
    PROVE  /\ DOMAIN EmptyTable = {}
           /\ EmptyTable \in [DOMAIN EmptyTable -> S]
BY DEF EmptyTable

-----------------------------------------------------------------------------
(* Slices and account information *)

(* A slice of zeros.                                                       *)
LEMMA ZerosProperties ==
    ASSUME NEW n \in Nat
    PROVE  /\ Zeros(n) \in Seq(Nat)
           /\ Len(Zeros(n)) = n
           /\ \A i \in 1..n : Zeros(n)[i] = 0
BY DEF Zeros

(* Padding keeps the elements and appends zeros.                           *)
LEMMA PadProperties ==
    ASSUME NEW s \in Seq(Nat), NEW n \in Nat
    PROVE  /\ Pad(s, n) \in Seq(Nat)
           /\ Len(Pad(s, n)) = Len(s) + n
           /\ \A i \in 1..(Len(s) + n) :
                  Pad(s, n)[i] = IF i <= Len(s) THEN s[i] ELSE 0
<1> Len(s) \in Nat /\ Len(s) + n \in Nat /\ \A i \in 1..Len(s) : s[i] \in Nat
    BY LenProperties, ElementOfSeq
<1> QED  BY DEF Pad

(* The components of an AccountInfo.                                       *)
LEMMA AccountInfoTyped ==
    ASSUME NEW info \in AccountInfo
    PROVE  /\ info.account \in Accounts
           /\ info.balances \in Seq(Nat)
           /\ info.transferNonces \in Seq(Nat)
           /\ info.withdrawNonces \in Seq(Nat)
           /\ Len(info.balances) \in Nat
           /\ Len(info.transferNonces) = Len(info.balances)
           /\ Len(info.withdrawNonces) = Len(info.balances)
           /\ \A i \in 1..Len(info.balances) :
                  /\ info.balances[i] \in Nat
                  /\ info.transferNonces[i] \in Nat
                  /\ info.withdrawNonces[i] \in Nat
<1>1. info \in [account : Accounts, balances : Seq(Nat),
                transferNonces : Seq(Nat), withdrawNonces : Seq(Nat)]
    BY DEF AccountInfo
<1>2. /\ Len(info.transferNonces) = Len(info.balances)
      /\ Len(info.withdrawNonces) = Len(info.balances)
    BY DEF AccountInfo
<1> QED  BY <1>1, <1>2, LenProperties, ElementOfSeq

(* A new account has zeros only.                                           *)
LEMMA NewInfoProperties ==
    ASSUME NEW a \in Accounts, NEW n \in Nat
    PROVE  /\ NewInfo(a, n) \in AccountInfo
           /\ NewInfo(a, n).account = a
           /\ Len(NewInfo(a, n).balances) = n
           /\ \A i \in 1..n : /\ NewInfo(a, n).balances[i] = 0
                              /\ NewInfo(a, n).transferNonces[i] = 0
                              /\ NewInfo(a, n).withdrawNonces[i] = 0
BY ZerosProperties DEF NewInfo, AccountInfo

(* maybeExpandAccountInfo makes the index valid and changes nothing that   *)
(* was there.                                                              *)
LEMMA ExpandProperties ==
    ASSUME NEW info \in AccountInfo, NEW index \in Nat
    PROVE  LET wide == MaybeExpandAccountInfo(info, index)
           IN  /\ wide \in AccountInfo
               /\ wide.account = info.account
               /\ index < Len(wide.balances)
               /\ Len(info.balances) <= Len(wide.balances)
               /\ \A i \in 1..Len(wide.balances) :
                     IF i <= Len(info.balances)
                     THEN /\ wide.balances[i] = info.balances[i]
                          /\ wide.transferNonces[i] = info.transferNonces[i]
                          /\ wide.withdrawNonces[i] = info.withdrawNonces[i]
                     ELSE /\ wide.balances[i] = 0
                          /\ wide.transferNonces[i] = 0
                          /\ wide.withdrawNonces[i] = 0
<1> DEFINE n == Missing(info, index)
           wide == MaybeExpandAccountInfo(info, index)
<1>1. n \in Nat /\ index < Len(info.balances) + n
    BY AccountInfoTyped DEF Missing
<1>2. /\ wide = [info EXCEPT !.balances = Pad(info.balances, n),
                             !.transferNonces = Pad(info.transferNonces, n),
                             !.withdrawNonces = Pad(info.withdrawNonces, n)]
    BY DEF MaybeExpandAccountInfo
<1> HIDE DEF n, wide
<1>3. /\ wide.account = info.account
      /\ wide.balances = Pad(info.balances, n)
      /\ wide.transferNonces = Pad(info.transferNonces, n)
      /\ wide.withdrawNonces = Pad(info.withdrawNonces, n)
    BY <1>2 DEF AccountInfo
<1>4. /\ Pad(info.balances, n) \in Seq(Nat)
      /\ Pad(info.transferNonces, n) \in Seq(Nat)
      /\ Pad(info.withdrawNonces, n) \in Seq(Nat)
      /\ Len(Pad(info.balances, n)) = Len(info.balances) + n
      /\ Len(Pad(info.transferNonces, n)) = Len(info.balances) + n
      /\ Len(Pad(info.withdrawNonces, n)) = Len(info.balances) + n
    BY <1>1, AccountInfoTyped, PadProperties
<1>5. wide \in AccountInfo
    BY <1>2, <1>4 DEF AccountInfo
<1>6. \A i \in 1..Len(wide.balances) :
         /\ wide.balances[i] = IF i <= Len(info.balances) THEN info.balances[i] ELSE 0
         /\ wide.transferNonces[i] =
                IF i <= Len(info.balances) THEN info.transferNonces[i] ELSE 0
         /\ wide.withdrawNonces[i] =
                IF i <= Len(info.balances) THEN info.withdrawNonces[i] ELSE 0
  <2>1. \A i \in 1..(Len(info.balances) + n) : Pad(info.balances, n)[i] =
            IF i <= Len(info.balances) THEN info.balances[i] ELSE 0
      BY <1>1, AccountInfoTyped, PadProperties
  <2>2. \A i \in 1..(Len(info.balances) + n) : Pad(info.transferNonces, n)[i] =
            IF i <= Len(info.balances) THEN info.transferNonces[i] ELSE 0
      BY <1>1, AccountInfoTyped, PadProperties
  <2>3. \A i \in 1..(Len(info.balances) + n) : Pad(info.withdrawNonces, n)[i] =
            IF i <= Len(info.balances) THEN info.withdrawNonces[i] ELSE 0
      BY <1>1, AccountInfoTyped, PadProperties
  <2> QED  BY <1>3, <1>4, <2>1, <2>2, <2>3
<1>7. Len(info.balances) \in Nat /\ Len(wide.balances) = Len(info.balances) + n
    BY <1>3, <1>4, AccountInfoTyped
<1> QED  BY <1>1, <1>3, <1>5, <1>6, <1>7 DEF wide

(* The element at position j of a sequence, 0 when there is none.          *)
At(seq, j) == IF j \in 1..Len(seq) THEN seq[j] ELSE 0

(* Overwriting one element of a sequence.                                  *)
LEMMA AtExcept ==
    ASSUME NEW seq \in Seq(Nat), NEW i \in 1..Len(seq), NEW v \in Nat,
           NEW new, new = [seq EXCEPT ![i] = v]
    PROVE  /\ new \in Seq(Nat)
           /\ Len(new) = Len(seq)
           /\ \A j \in Nat : At(new, j) = IF j = i THEN v ELSE At(seq, j)
<1>1. new \in Seq(Nat) /\ Len(new) = Len(seq)
    BY ExceptSeq
<1>2. \A j \in 1..Len(seq) : new[j] = IF j = i THEN v ELSE seq[j]
    OBVIOUS
<1> QED  BY <1>1, <1>2 DEF At

(* Changing the balance at a valid index.                                  *)
LEMMA UpdateBalance ==
    ASSUME NEW info \in AccountInfo, NEW i \in 1..Len(info.balances), NEW v \in Nat
    PROVE  LET new == [info EXCEPT !.balances[i] = v]
           IN  /\ new \in AccountInfo
               /\ new.account = info.account
               /\ Len(new.balances) = Len(info.balances)
               /\ \A j \in Nat : At(new.balances, j) =
                      IF j = i THEN v ELSE At(info.balances, j)
               /\ new.transferNonces = info.transferNonces
               /\ new.withdrawNonces = info.withdrawNonces
<1> DEFINE b == [info.balances EXCEPT ![i] = v]
<1>1. [info EXCEPT !.balances[i] = v] = [info EXCEPT !.balances = b]
    BY DEF AccountInfo
<1>2. /\ b = [info.balances EXCEPT ![i] = v]
    OBVIOUS
<1> HIDE DEF b
<1>3. /\ info.balances \in Seq(Nat) /\ i \in 1..Len(info.balances)
    BY AccountInfoTyped
<1>4. /\ b \in Seq(Nat)
      /\ Len(b) = Len(info.balances)
      /\ \A j \in Nat : At(b, j) = IF j = i THEN v ELSE At(info.balances, j)
    BY <1>2, <1>3, AtExcept
<1>5. [info EXCEPT !.balances = b] \in AccountInfo
    BY <1>4 DEF AccountInfo
<1>6. /\ [info EXCEPT !.balances = b].account = info.account
      /\ [info EXCEPT !.balances = b].balances = b
      /\ [info EXCEPT !.balances = b].transferNonces = info.transferNonces
      /\ [info EXCEPT !.balances = b].withdrawNonces = info.withdrawNonces
    BY DEF AccountInfo
<1>7. [info EXCEPT !.balances[i] = v] = [info EXCEPT !.balances = b]
    BY <1>1, <1>2
<1> DEFINE new == [info EXCEPT !.balances = b]
<1> HIDE DEF new
<1> QED  BY <1>4, <1>5, <1>6, <1>7 DEF new

(* The two updates that change a balance and a nonce together.             *)
WithBalanceAndTransferNonce(info, i, v, c) ==
    [info EXCEPT !.balances[i] = v, !.transferNonces[i] = c]

WithBalanceAndWithdrawNonce(info, i, v, c) ==
    [info EXCEPT !.balances[i] = v, !.withdrawNonces[i] = c]

(* Changing a balance and a nonce at a valid index.                        *)
LEMMA UpdateBalanceAndTransferNonce ==
    ASSUME NEW info \in AccountInfo, NEW i \in 1..Len(info.balances),
           NEW v \in Nat, NEW c \in Nat
    PROVE  LET new == WithBalanceAndTransferNonce(info, i, v, c)
           IN  /\ new \in AccountInfo
               /\ new.account = info.account
               /\ Len(new.balances) = Len(info.balances)
               /\ \A j \in Nat : At(new.balances, j) =
                      IF j = i THEN v ELSE At(info.balances, j)
               /\ \A j \in Nat : At(new.transferNonces, j) =
                      IF j = i THEN c ELSE At(info.transferNonces, j)
               /\ new.withdrawNonces = info.withdrawNonces
<1> DEFINE b == [info.balances EXCEPT ![i] = v]
           t == [info.transferNonces EXCEPT ![i] = c]
           new == [info EXCEPT !.balances = b, !.transferNonces = t]
<1>1. WithBalanceAndTransferNonce(info, i, v, c) = new
    BY DEF AccountInfo, WithBalanceAndTransferNonce
<1>2. info.balances \in Seq(Nat)
    BY AccountInfoTyped
<1>3. /\ info.transferNonces \in Seq(Nat) /\ i \in 1..Len(info.transferNonces)
      /\ Len(info.transferNonces) = Len(info.balances)
    BY AccountInfoTyped
<1> HIDE DEF b, t
<1>4. /\ b \in Seq(Nat)
      /\ Len(b) = Len(info.balances)
      /\ \A j \in Nat : At(b, j) = IF j = i THEN v ELSE At(info.balances, j)
    BY <1>2, AtExcept DEF b
<1>5. /\ t \in Seq(Nat)
      /\ Len(t) = Len(info.transferNonces)
      /\ \A j \in Nat : At(t, j) = IF j = i THEN c ELSE At(info.transferNonces, j)
    BY <1>3, AtExcept, SMTT(30) DEF t
<1>6. new \in AccountInfo
    BY <1>3, <1>4, <1>5 DEF AccountInfo
<1>7. /\ new.account = info.account
      /\ new.balances = b
      /\ new.transferNonces = t
      /\ new.withdrawNonces = info.withdrawNonces
    BY DEF AccountInfo
<1> HIDE DEF new
<1> QED  BY <1>1, <1>3, <1>4, <1>5, <1>6, <1>7

(* The same for the withdraw nonce.                                        *)
LEMMA UpdateBalanceAndWithdrawNonce ==
    ASSUME NEW info \in AccountInfo, NEW i \in 1..Len(info.balances),
           NEW v \in Nat, NEW c \in Nat
    PROVE  LET new == WithBalanceAndWithdrawNonce(info, i, v, c)
           IN  /\ new \in AccountInfo
               /\ new.account = info.account
               /\ Len(new.balances) = Len(info.balances)
               /\ \A j \in Nat : At(new.balances, j) =
                      IF j = i THEN v ELSE At(info.balances, j)
               /\ new.transferNonces = info.transferNonces
               /\ \A j \in Nat : At(new.withdrawNonces, j) =
                      IF j = i THEN c ELSE At(info.withdrawNonces, j)
<1> DEFINE b == [info.balances EXCEPT ![i] = v]
           w == [info.withdrawNonces EXCEPT ![i] = c]
           new == [info EXCEPT !.balances = b, !.withdrawNonces = w]
<1>1. WithBalanceAndWithdrawNonce(info, i, v, c) = new
    BY DEF AccountInfo, WithBalanceAndWithdrawNonce
<1>2. info.balances \in Seq(Nat)
    BY AccountInfoTyped
<1>3. /\ info.withdrawNonces \in Seq(Nat) /\ i \in 1..Len(info.withdrawNonces)
      /\ Len(info.withdrawNonces) = Len(info.balances)
    BY AccountInfoTyped
<1> HIDE DEF b, w
<1>4. /\ b \in Seq(Nat)
      /\ Len(b) = Len(info.balances)
      /\ \A j \in Nat : At(b, j) = IF j = i THEN v ELSE At(info.balances, j)
    BY <1>2, AtExcept DEF b
<1>5. /\ w \in Seq(Nat)
      /\ Len(w) = Len(info.withdrawNonces)
      /\ \A j \in Nat : At(w, j) = IF j = i THEN c ELSE At(info.withdrawNonces, j)
    BY <1>3, AtExcept, SMTT(30) DEF w
<1>6. new \in AccountInfo
    BY <1>3, <1>4, <1>5 DEF AccountInfo
<1>7. /\ new.account = info.account
      /\ new.balances = b
      /\ new.withdrawNonces = w
      /\ new.transferNonces = info.transferNonces
    BY DEF AccountInfo
<1> HIDE DEF new
<1> QED  BY <1>1, <1>3, <1>4, <1>5, <1>6, <1>7

-----------------------------------------------------------------------------
(* Writing the tables *)

(* setAccountInfo replaces one account's information, in the table and in  *)
(* the tree, and nothing else.                                             *)
LEMMA SetAccountInfoProperties ==
    ASSUME NEW s, Consistent(s), NEW a \in DOMAIN s.keyOf,
           NEW info \in AccountInfo, info.account = a
    PROVE  LET r == SetAccountInfo(s, a, info)
           IN  /\ Consistent(r)
               /\ r.keyOf = s.keyOf
               /\ r.tokenIndex = s.tokenIndex
               /\ GetAccountInfo(r, a) = info
               /\ \A b \in DOMAIN s.keyOf :
                     b # a => GetAccountInfo(r, b) = GetAccountInfo(s, b)
               /\ DOMAIN s.trie = DOMAIN s.infoAt => DOMAIN r.trie = DOMAIN r.infoAt
<1> DEFINE r == SetAccountInfo(s, a, info)
           k == s.keyOf[a]
<1>1. /\ k \in DOMAIN s.infoAt
      /\ s.infoAt \in [DOMAIN s.infoAt -> AccountInfo]
      /\ s.trie \in [DOMAIN s.trie -> AccountInfo]
    BY DEF Consistent, TablesTyped, SlotsAssigned
<1>2. /\ DOMAIN r = DOMAIN s
      /\ r.lastKey = s.lastKey
      /\ r.keyOf = s.keyOf
      /\ r.tokenIndex = s.tokenIndex
      /\ r.infoAt = Put(s.infoAt, k, info)
      /\ r.trie = Put(s.trie, k, info)
    BY DEF SetAccountInfo, Consistent, TablesTyped
<1> HIDE DEF r, k
<1>3. /\ DOMAIN r.infoAt = DOMAIN s.infoAt
      /\ r.infoAt \in [DOMAIN r.infoAt -> AccountInfo]
      /\ r.infoAt[k] = info
      /\ \A x \in DOMAIN s.infoAt : x # k => r.infoAt[x] = s.infoAt[x]
  <2>1. DOMAIN s.infoAt \cup {k} = DOMAIN s.infoAt
      BY <1>1
  <2>2. r.infoAt = [x \in DOMAIN s.infoAt |-> IF x = k THEN info ELSE s.infoAt[x]]
      BY <1>2, <2>1 DEF Put
  <2> QED  BY <1>1, <2>2
<1>4. /\ DOMAIN r.trie = DOMAIN s.trie \cup {k}
      /\ r.trie \in [DOMAIN r.trie -> AccountInfo]
      /\ r.trie[k] = info
      /\ \A x \in DOMAIN s.trie : x # k => r.trie[x] = s.trie[x]
  <2>1. r.trie = [x \in DOMAIN s.trie \cup {k} |-> IF x = k THEN info ELSE s.trie[x]]
      BY <1>2 DEF Put
  <2> QED  BY <1>1, <2>1
<1>5. TablesTyped(r)
    BY <1>2, <1>3, <1>4 DEF Consistent, TablesTyped
<1>6. SlotsAssigned(r)
  <2>1. s.infoAt[k].account = a /\ DOMAIN s.infoAt = 0..s.lastKey
      BY DEF k, Consistent, SlotsAssigned
  <2>2. \A b \in DOMAIN s.keyOf :
            /\ s.keyOf[b] \in DOMAIN r.infoAt
            /\ r.infoAt[s.keyOf[b]].account = b
      BY <1>1, <1>3, <2>1 DEF k, Consistent, SlotsAssigned
  <2>3. \A x \in DOMAIN s.infoAt :
            /\ r.infoAt[x].account \in DOMAIN s.keyOf
            /\ s.keyOf[r.infoAt[x].account] = x
      BY <1>1, <1>3, <2>1 DEF k, Consistent, SlotsAssigned
  <2> QED  BY <1>2, <1>3, <2>1, <2>2, <2>3 DEF SlotsAssigned
<1>7. TrieAgrees(r)
    BY <1>1, <1>3, <1>4 DEF Consistent, TrieAgrees
<1>8. /\ GetAccountInfo(r, a) = info
      /\ \A b \in DOMAIN s.keyOf :
            b # a => GetAccountInfo(r, b) = GetAccountInfo(s, b)
    BY <1>2, <1>3 DEF k, GetAccountInfo, Consistent, SlotsAssigned
<1>9. DOMAIN s.trie = DOMAIN s.infoAt => DOMAIN r.trie = DOMAIN r.infoAt
    BY <1>1, <1>3, <1>4
<1> QED  BY <1>2, <1>5, <1>6, <1>7, <1>8, <1>9 DEF r, Consistent

(* createAccount gives the account the next slot, with zeros, and leaves   *)
(* every other account alone.                                              *)
LEMMA CreateAccountProperties ==
    ASSUME NEW s, Consistent(s), NEW a \in Accounts, a \notin DOMAIN s.keyOf, NEW n \in Nat
    PROVE  LET r == CreateAccount(s, a, n)
           IN  /\ Consistent(r)
               /\ DOMAIN r.keyOf = DOMAIN s.keyOf \cup {a}
               /\ r.tokenIndex = s.tokenIndex
               /\ GetAccountInfo(r, a) = NewInfo(a, n)
               /\ \A b \in DOMAIN s.keyOf : GetAccountInfo(r, b) = GetAccountInfo(s, b)
               /\ DOMAIN s.trie = DOMAIN s.infoAt => DOMAIN r.trie = DOMAIN r.infoAt
<1> DEFINE r == CreateAccount(s, a, n)
           k == s.lastKey + 1
<1>1. /\ s.lastKey \in Nat \cup {-1}
      /\ k \in Nat
      /\ k \notin DOMAIN s.infoAt
      /\ DOMAIN s.infoAt \cup {k} = 0..k
      /\ s.keyOf \in [DOMAIN s.keyOf -> Nat]
      /\ s.infoAt \in [DOMAIN s.infoAt -> AccountInfo]
      /\ s.trie \in [DOMAIN s.trie -> AccountInfo]
    BY DEF Consistent, TablesTyped, SlotsAssigned
<1>2. /\ DOMAIN r = DOMAIN s
      /\ r.lastKey = k
      /\ r.keyOf = Put(s.keyOf, a, k)
      /\ r.tokenIndex = s.tokenIndex
      /\ r.infoAt = Put(s.infoAt, k, NewInfo(a, n))
      /\ r.trie = Put(s.trie, k, NewInfo(a, n))
    BY DEF CreateAccount, Consistent, TablesTyped
<1> HIDE DEF r, k
<1>3. NewInfo(a, n) \in AccountInfo /\ NewInfo(a, n).account = a
    BY NewInfoProperties
<1>4. /\ DOMAIN r.keyOf = DOMAIN s.keyOf \cup {a}
      /\ r.keyOf \in [DOMAIN r.keyOf -> Nat]
      /\ r.keyOf[a] = k
      /\ \A b \in DOMAIN s.keyOf : r.keyOf[b] = s.keyOf[b]
  <2>1. r.keyOf = [x \in DOMAIN s.keyOf \cup {a} |-> IF x = a THEN k ELSE s.keyOf[x]]
      BY <1>2 DEF Put
  <2> QED  BY <1>1, <2>1
<1>5. /\ DOMAIN r.infoAt = DOMAIN s.infoAt \cup {k}
      /\ r.infoAt \in [DOMAIN r.infoAt -> AccountInfo]
      /\ r.infoAt[k] = NewInfo(a, n)
      /\ \A x \in DOMAIN s.infoAt : r.infoAt[x] = s.infoAt[x]
  <2>1. r.infoAt = [x \in DOMAIN s.infoAt \cup {k} |->
                        IF x = k THEN NewInfo(a, n) ELSE s.infoAt[x]]
      BY <1>2 DEF Put
  <2> QED  BY <1>1, <1>3, <2>1
<1>6. /\ DOMAIN r.trie = DOMAIN s.trie \cup {k}
      /\ r.trie \in [DOMAIN r.trie -> AccountInfo]
      /\ r.trie[k] = NewInfo(a, n)
      /\ \A x \in DOMAIN s.trie : x # k => r.trie[x] = s.trie[x]
  <2>1. r.trie = [x \in DOMAIN s.trie \cup {k} |->
                        IF x = k THEN NewInfo(a, n) ELSE s.trie[x]]
      BY <1>2 DEF Put
  <2> QED  BY <1>1, <1>3, <2>1
<1>7. TablesTyped(r)
    BY <1>1, <1>2, <1>4, <1>5, <1>6 DEF Consistent, TablesTyped
<1>8. SlotsAssigned(r)
  <2>1. DOMAIN r.infoAt = 0..r.lastKey
      BY <1>1, <1>2, <1>5
  <2>2. \A b \in DOMAIN r.keyOf :
           r.keyOf[b] \in DOMAIN r.infoAt /\ r.infoAt[r.keyOf[b]].account = b
      BY <1>3, <1>4, <1>5 DEF Consistent, SlotsAssigned
  <2>3. \A x \in DOMAIN r.infoAt :
           r.infoAt[x].account \in DOMAIN r.keyOf /\ r.keyOf[r.infoAt[x].account] = x
      BY <1>3, <1>4, <1>5 DEF Consistent, SlotsAssigned
  <2> QED  BY <2>1, <2>2, <2>3 DEF SlotsAssigned
<1>9. TrieAgrees(r)
    BY <1>1, <1>5, <1>6 DEF Consistent, TrieAgrees
<1>10. /\ GetAccountInfo(r, a) = NewInfo(a, n)
       /\ \A b \in DOMAIN s.keyOf : GetAccountInfo(r, b) = GetAccountInfo(s, b)
    BY <1>4, <1>5 DEF GetAccountInfo, Consistent, SlotsAssigned
<1>11. DOMAIN s.trie = DOMAIN s.infoAt => DOMAIN r.trie = DOMAIN r.infoAt
    BY <1>5, <1>6
<1> QED  BY <1>2, <1>4, <1>7, <1>8, <1>9, <1>10, <1>11 DEF r, Consistent

(* After EnsureAccount the account exists; if it is new it holds zeros.    *)
LEMMA EnsureAccountProperties ==
    ASSUME NEW s, Consistent(s), NEW a \in Accounts, NEW index \in Nat
    PROVE  LET r == EnsureAccount(s, a, index)
           IN  /\ Consistent(r)
               /\ DOMAIN r.keyOf = DOMAIN s.keyOf \cup {a}
               /\ r.tokenIndex = s.tokenIndex
               /\ a \notin DOMAIN s.keyOf => GetAccountInfo(r, a) = NewInfo(a, index + 1)
               /\ \A b \in DOMAIN s.keyOf : GetAccountInfo(r, b) = GetAccountInfo(s, b)
               /\ DOMAIN s.trie = DOMAIN s.infoAt => DOMAIN r.trie = DOMAIN r.infoAt
<1>1. CASE a \in DOMAIN s.keyOf
    BY <1>1 DEF EnsureAccount, HasAccount
<1>2. CASE a \notin DOMAIN s.keyOf
  <2>1. EnsureAccount(s, a, index) = CreateAccount(s, a, index + 1)
      BY <1>2 DEF EnsureAccount, HasAccount
  <2>2. index + 1 \in Nat
      OBVIOUS
  <2> QED  BY <1>2, <2>1, <2>2, CreateAccountProperties
<1> QED  BY <1>1, <1>2

(* The information of an existing account is typed and names the account.  *)
LEMMA GetAccountInfoProperties ==
    ASSUME NEW s, Consistent(s), NEW a \in DOMAIN s.keyOf
    PROVE  /\ GetAccountInfo(s, a) \in AccountInfo
           /\ GetAccountInfo(s, a).account = a
BY DEF GetAccountInfo, Consistent, TablesTyped, SlotsAssigned

(* A restart keeps the tables and empties the tree.                        *)
LEMMA ReopenedProperties ==
    ASSUME NEW s, Consistent(s)
    PROVE  LET r == Reopened(s)
           IN  /\ Consistent(r)
               /\ r.keyOf = s.keyOf
               /\ r.infoAt = s.infoAt
               /\ r.tokenIndex = s.tokenIndex
               /\ \A b \in DOMAIN s.keyOf : GetAccountInfo(r, b) = GetAccountInfo(s, b)
<1> DEFINE r == Reopened(s)
<1>1. /\ DOMAIN r = DOMAIN s
      /\ r.lastKey = s.lastKey
      /\ r.keyOf = s.keyOf
      /\ r.infoAt = s.infoAt
      /\ r.tokenIndex = s.tokenIndex
      /\ r.trie = EmptyTable
    BY DEF Reopened, Consistent, TablesTyped
<1> HIDE DEF r
<1> QED  BY <1>1, EmptyTableProperties
         DEF r, Consistent, TablesTyped, SlotsAssigned, TrieAgrees, GetAccountInfo

-----------------------------------------------------------------------------
(* What an account holds at the j-th position of its slices, 0 when it is  *)
(* not there.  The operations are described by what they do to these.      *)

Bal(s, a, j) == IF HasAccount(s, a) THEN At(GetAccountInfo(s, a).balances, j) ELSE 0
TNonce(s, a, j) == IF HasAccount(s, a) THEN At(GetAccountInfo(s, a).transferNonces, j) ELSE 0
WNonce(s, a, j) == IF HasAccount(s, a) THEN At(GetAccountInfo(s, a).withdrawNonces, j) ELSE 0

(* What every operation keeps: consistency, the token table, the accounts  *)
(* that exist, and the completeness of the tree.                           *)
Extends(r, s) ==
    /\ Consistent(r)
    /\ r.tokenIndex = s.tokenIndex
    /\ DOMAIN s.keyOf \subseteq DOMAIN r.keyOf
    /\ DOMAIN s.trie = DOMAIN s.infoAt => DOMAIN r.trie = DOMAIN r.infoAt

SameHoldings(r, s, a) ==
    \A j \in Nat : /\ Bal(r, a, j) = Bal(s, a, j)
                   /\ TNonce(r, a, j) = TNonce(s, a, j)
                   /\ WNonce(r, a, j) = WNonce(s, a, j)

(* Holdings are natural numbers.                                           *)
LEMMA HoldingsTyped ==
    ASSUME NEW s, Consistent(s), NEW a, NEW j \in Nat
    PROVE  Bal(s, a, j) \in Nat /\ TNonce(s, a, j) \in Nat /\ WNonce(s, a, j) \in Nat
<1>1. CASE HasAccount(s, a)
  <2>1. GetAccountInfo(s, a) \in AccountInfo
      BY <1>1, GetAccountInfoProperties DEF HasAccount
  <2> QED  BY <1>1, <2>1, AccountInfoTyped DEF Bal, TNonce, WNonce, At
<1>2. CASE ~HasAccount(s, a)
    BY <1>2 DEF Bal, TNonce, WNonce
<1> QED  BY <1>1, <1>2

(* Extends is transitive.                                                  *)
LEMMA ExtendsTransitive ==
    ASSUME NEW q, NEW r, NEW s, Extends(r, s), Extends(q, r)
    PROVE  Extends(q, s)
BY DEF Extends

(* SetAccountInfo in terms of holdings.                                    *)
LEMMA SetHoldings ==
    ASSUME NEW s, Consistent(s), NEW a \in DOMAIN s.keyOf,
           NEW info \in AccountInfo, info.account = a
    PROVE  LET r == SetAccountInfo(s, a, info)
           IN  /\ Extends(r, s)
               /\ r.keyOf = s.keyOf
               /\ \A b : b # a => SameHoldings(r, s, b)
               /\ \A b \in DOMAIN s.keyOf :
                     b # a => GetAccountInfo(r, b) = GetAccountInfo(s, b)
               /\ \A j \in Nat : /\ Bal(r, a, j) = At(info.balances, j)
                                 /\ TNonce(r, a, j) = At(info.transferNonces, j)
                                 /\ WNonce(r, a, j) = At(info.withdrawNonces, j)
<1> DEFINE r == SetAccountInfo(s, a, info)
<1>1. /\ Consistent(r)
      /\ r.keyOf = s.keyOf
      /\ r.tokenIndex = s.tokenIndex
      /\ GetAccountInfo(r, a) = info
      /\ \A b \in DOMAIN s.keyOf :
            b # a => GetAccountInfo(r, b) = GetAccountInfo(s, b)
      /\ DOMAIN s.trie = DOMAIN s.infoAt => DOMAIN r.trie = DOMAIN r.infoAt
    BY SetAccountInfoProperties
<1> HIDE DEF r
<1>2. Extends(r, s)
    BY <1>1 DEF Extends
<1>3. \A b : b # a => SameHoldings(r, s, b)
    BY <1>1 DEF SameHoldings, Bal, TNonce, WNonce, HasAccount
<1>4. \A j \in Nat : /\ Bal(r, a, j) = At(info.balances, j)
                     /\ TNonce(r, a, j) = At(info.transferNonces, j)
                     /\ WNonce(r, a, j) = At(info.withdrawNonces, j)
    BY <1>1 DEF Bal, TNonce, WNonce, HasAccount
<1> QED  BY <1>1, <1>2, <1>3, <1>4 DEF r

(* Creating the account a transaction needs changes no holding.            *)
LEMMA EnsureHoldings ==
    ASSUME NEW s, Consistent(s), NEW a \in Accounts, NEW index \in Nat
    PROVE  LET r == EnsureAccount(s, a, index)
           IN  /\ Extends(r, s)
               /\ DOMAIN r.keyOf = DOMAIN s.keyOf \cup {a}
               /\ \A b : SameHoldings(r, s, b)
               /\ \A b \in DOMAIN s.keyOf : GetAccountInfo(r, b) = GetAccountInfo(s, b)
<1> DEFINE r == EnsureAccount(s, a, index)
<1>1. /\ Consistent(r)
      /\ DOMAIN r.keyOf = DOMAIN s.keyOf \cup {a}
      /\ r.tokenIndex = s.tokenIndex
      /\ a \notin DOMAIN s.keyOf => GetAccountInfo(r, a) = NewInfo(a, index + 1)
      /\ \A b \in DOMAIN s.keyOf : GetAccountInfo(r, b) = GetAccountInfo(s, b)
      /\ DOMAIN s.trie = DOMAIN s.infoAt => DOMAIN r.trie = DOMAIN r.infoAt
    BY EnsureAccountProperties
<1> HIDE DEF r
<1>2. Extends(r, s)
    BY <1>1 DEF Extends
<1>3. \A b : b \in DOMAIN s.keyOf => SameHoldings(r, s, b)
    BY <1>1 DEF SameHoldings, Bal, TNonce, WNonce, HasAccount
<1>4. \A b : b \notin DOMAIN s.keyOf /\ b # a => SameHoldings(r, s, b)
    BY <1>1 DEF SameHoldings, Bal, TNonce, WNonce, HasAccount
<1>5. a \notin DOMAIN s.keyOf => SameHoldings(r, s, a)
  <2> SUFFICES ASSUME a \notin DOMAIN s.keyOf
               PROVE  SameHoldings(r, s, a)
      OBVIOUS
  <2>1. /\ NewInfo(a, index + 1) \in AccountInfo
        /\ Len(NewInfo(a, index + 1).balances) = index + 1
        /\ \A j \in 1..(index + 1) : /\ NewInfo(a, index + 1).balances[j] = 0
                                     /\ NewInfo(a, index + 1).transferNonces[j] = 0
                                     /\ NewInfo(a, index + 1).withdrawNonces[j] = 0
      BY NewInfoProperties
  <2>2. /\ Len(NewInfo(a, index + 1).transferNonces) = index + 1
        /\ Len(NewInfo(a, index + 1).withdrawNonces) = index + 1
      BY <2>1, AccountInfoTyped
  <2>3. GetAccountInfo(r, a) = NewInfo(a, index + 1) /\ HasAccount(r, a) /\ ~HasAccount(s, a)
      BY <1>1 DEF HasAccount
  <2> QED  BY <2>1, <2>2, <2>3 DEF SameHoldings, Bal, TNonce, WNonce, At
<1> QED  BY <1>1, <1>2, <1>3, <1>4, <1>5 DEF r

(* Padding an account's slices changes no holding.                         *)
LEMMA ExpandHoldings ==
    ASSUME NEW info \in AccountInfo, NEW index \in Nat
    PROVE  LET wide == MaybeExpandAccountInfo(info, index)
           IN  /\ wide \in AccountInfo
               /\ wide.account = info.account
               /\ index + 1 \in 1..Len(wide.balances)
               /\ \A j \in Nat :
                     /\ At(wide.balances, j) = At(info.balances, j)
                     /\ At(wide.transferNonces, j) = At(info.transferNonces, j)
                     /\ At(wide.withdrawNonces, j) = At(info.withdrawNonces, j)
<1> DEFINE wide == MaybeExpandAccountInfo(info, index)
<1>1. /\ wide \in AccountInfo
      /\ wide.account = info.account
      /\ index < Len(wide.balances)
      /\ Len(info.balances) <= Len(wide.balances)
      /\ \A i \in 1..Len(wide.balances) :
            IF i <= Len(info.balances)
            THEN /\ wide.balances[i] = info.balances[i]
                 /\ wide.transferNonces[i] = info.transferNonces[i]
                 /\ wide.withdrawNonces[i] = info.withdrawNonces[i]
            ELSE /\ wide.balances[i] = 0
                 /\ wide.transferNonces[i] = 0
                 /\ wide.withdrawNonces[i] = 0
    BY ExpandProperties
<1> HIDE DEF wide
<1>2. /\ Len(info.balances) \in Nat /\ Len(wide.balances) \in Nat
      /\ Len(info.transferNonces) = Len(info.balances)
      /\ Len(info.withdrawNonces) = Len(info.balances)
      /\ Len(wide.transferNonces) = Len(wide.balances)
      /\ Len(wide.withdrawNonces) = Len(wide.balances)
    BY <1>1, AccountInfoTyped
<1>3. \A j \in Nat : /\ At(wide.balances, j) = At(info.balances, j)
                     /\ At(wide.transferNonces, j) = At(info.transferNonces, j)
                     /\ At(wide.withdrawNonces, j) = At(info.withdrawNonces, j)
    BY <1>1, <1>2 DEF At
<1> QED  BY <1>1, <1>2, <1>3 DEF wide

-----------------------------------------------------------------------------
(* The operations.  Slot(s, t) is where the slices keep token t.           *)

Slot(s, t) == s.tokenIndex[t] + 1

(* Slots are positions of sequences.                                       *)
LEMMA SlotTyped ==
    ASSUME NEW s, Consistent(s), NEW t, TokenMapped(s, t)
    PROVE  s.tokenIndex[t] \in Nat /\ Slot(s, t) \in Nat \ {0}
BY DEF Consistent, TablesTyped, TokenMapped, Slot

(* applyDeposit adds the amount to one balance and changes nothing else.   *)
LEMMA DepositedHoldings ==
    ASSUME NEW s, Consistent(s), NEW tx, DepositAccepted(s, tx),
           tx.account \in Accounts, tx.amount \in Nat
    PROVE  LET r == Deposited(s, tx)
           IN  /\ Extends(r, s)
               /\ \A b : b # tx.account => SameHoldings(r, s, b)
               /\ \A j \in Nat :
                     /\ Bal(r, tx.account, j) = Bal(s, tx.account, j)
                            + (IF j = Slot(s, tx.token) THEN tx.amount ELSE 0)
                     /\ TNonce(r, tx.account, j) = TNonce(s, tx.account, j)
                     /\ WNonce(r, tx.account, j) = WNonce(s, tx.account, j)
<1> DEFINE a == tx.account
           index == s.tokenIndex[tx.token]
           i == index + 1
           s1 == EnsureAccount(s, a, index)
           old == GetAccountInfo(s1, a)
           info == MaybeExpandAccountInfo(old, index)
           v == info.balances[i] + tx.amount
           new == [info EXCEPT !.balances[i] = v]
           r == SetAccountInfo(s1, a, new)
<1>1. Deposited(s, tx) = r
    BY DEF Deposited
<1>2. index \in Nat /\ i \in Nat /\ i = Slot(s, tx.token)
    BY SlotTyped DEF DepositAccepted, Slot
<1> HIDE DEF index
<1>3. /\ Extends(s1, s)
      /\ DOMAIN s1.keyOf = DOMAIN s.keyOf \cup {a}
      /\ \A b : SameHoldings(s1, s, b)
    BY <1>2, EnsureHoldings
<1> HIDE DEF s1
<1>4. Consistent(s1) /\ a \in DOMAIN s1.keyOf
    BY <1>3 DEF Extends
<1>5. old \in AccountInfo /\ old.account = a
    BY <1>4, GetAccountInfoProperties
<1>6. \A j \in Nat : /\ At(old.balances, j) = Bal(s, a, j)
                     /\ At(old.transferNonces, j) = TNonce(s, a, j)
                     /\ At(old.withdrawNonces, j) = WNonce(s, a, j)
    BY <1>3, <1>4 DEF SameHoldings, Bal, TNonce, WNonce, HasAccount
<1> HIDE DEF old
<1>7. /\ info \in AccountInfo
      /\ info.account = a
      /\ i \in 1..Len(info.balances)
      /\ \A j \in Nat :
            /\ At(info.balances, j) = At(old.balances, j)
            /\ At(info.transferNonces, j) = At(old.transferNonces, j)
            /\ At(info.withdrawNonces, j) = At(old.withdrawNonces, j)
    BY <1>2, <1>5, ExpandHoldings
<1> HIDE DEF info
<1>8. v \in Nat /\ info.balances \in Seq(Nat) /\ v = At(info.balances, i) + tx.amount
    BY <1>7, AccountInfoTyped DEF At
<1> HIDE DEF v, i
<1>9. /\ new \in AccountInfo
      /\ new.account = a
      /\ new.transferNonces = info.transferNonces
      /\ new.withdrawNonces = info.withdrawNonces
      /\ \A j \in Nat : At(new.balances, j) = IF j = i THEN v ELSE At(info.balances, j)
    BY <1>7, <1>8, UpdateBalance, ZenonT(40)
<1> HIDE DEF new
<1>11. /\ Extends(r, s1)
       /\ \A b : b # a => SameHoldings(r, s1, b)
       /\ \A j \in Nat : /\ Bal(r, a, j) = At(new.balances, j)
                         /\ TNonce(r, a, j) = At(new.transferNonces, j)
                         /\ WNonce(r, a, j) = At(new.withdrawNonces, j)
    BY <1>4, <1>9, SetHoldings
<1> HIDE DEF r
<1>12. Extends(r, s)
    BY <1>3, <1>11, ExtendsTransitive
<1>13. \A b : b # a => SameHoldings(r, s, b)
    BY <1>3, <1>11 DEF SameHoldings
<1>14. \A j \in Nat :
          /\ Bal(r, a, j) = Bal(s, a, j) + (IF j = i THEN tx.amount ELSE 0)
          /\ TNonce(r, a, j) = TNonce(s, a, j)
          /\ WNonce(r, a, j) = WNonce(s, a, j)
  <2> SUFFICES ASSUME NEW j \in Nat
               PROVE  /\ Bal(r, a, j) = Bal(s, a, j) + (IF j = i THEN tx.amount ELSE 0)
                      /\ TNonce(r, a, j) = TNonce(s, a, j)
                      /\ WNonce(r, a, j) = WNonce(s, a, j)
      OBVIOUS
  <2>1. Bal(s, a, j) \in Nat
      BY HoldingsTyped
  <2> QED  BY <2>1, <1>6, <1>7, <1>8, <1>9, <1>11
<1> QED  BY <1>1, <1>2, <1>12, <1>13, <1>14

(* An accepted withdrawal is covered and carries the stored nonce.         *)
LEMMA WithdrawAcceptedHoldings ==
    ASSUME NEW s, Consistent(s), NEW tx, WithdrawAccepted(s, tx)
    PROVE  /\ tx.account \in DOMAIN s.keyOf
           /\ Slot(s, tx.token) \in 1..Len(GetAccountInfo(s, tx.account).balances)
           /\ Bal(s, tx.account, Slot(s, tx.token)) >= tx.amount
           /\ WNonce(s, tx.account, Slot(s, tx.token)) = tx.nonce
<1> DEFINE info == GetAccountInfo(s, tx.account)
           i == Slot(s, tx.token)
<1>1. /\ HasAccount(s, tx.account)
      /\ s.tokenIndex[tx.token] \in Nat
      /\ s.tokenIndex[tx.token] <= Len(info.balances) - 1
      /\ info.balances[i] >= tx.amount
      /\ info.withdrawNonces[i] = tx.nonce
    BY SlotTyped DEF WithdrawAccepted, Slot
<1>2. Len(info.balances) \in Nat /\ Len(info.withdrawNonces) = Len(info.balances)
    BY <1>1, GetAccountInfoProperties, AccountInfoTyped DEF HasAccount
<1>3. i \in 1..Len(info.balances)
    BY <1>1, <1>2 DEF Slot
<1> HIDE DEF info, i
<1> QED  BY <1>1, <1>2, <1>3 DEF Bal, WNonce, At, HasAccount, info, i

(* applyWithdraw takes the amount from one balance and advances its        *)
(* withdraw nonce.                                                         *)
LEMMA WithdrawnHoldings ==
    ASSUME NEW s, Consistent(s), NEW tx, WithdrawAccepted(s, tx), tx.amount \in Nat
    PROVE  LET r == Withdrawn(s, tx)
               i == Slot(s, tx.token)
           IN  /\ Extends(r, s)
               /\ \A b : b # tx.account => SameHoldings(r, s, b)
               /\ \A j \in Nat :
                     /\ Bal(r, tx.account, j) =
                            Bal(s, tx.account, j) - (IF j = i THEN tx.amount ELSE 0)
                     /\ TNonce(r, tx.account, j) = TNonce(s, tx.account, j)
                     /\ WNonce(r, tx.account, j) =
                            WNonce(s, tx.account, j) + (IF j = i THEN 1 ELSE 0)
<1> DEFINE a == tx.account
           i == s.tokenIndex[tx.token] + 1
           info == GetAccountInfo(s, a)
           v == info.balances[i] - tx.amount
           c == info.withdrawNonces[i] + 1
           new == WithBalanceAndWithdrawNonce(info, i, v, c)
           r == SetAccountInfo(s, a, new)
<1>1. Withdrawn(s, tx) = r
    BY DEF Withdrawn, WithBalanceAndWithdrawNonce
<1>2. i = Slot(s, tx.token)
    BY DEF Slot
<1>3. /\ a \in DOMAIN s.keyOf
      /\ i \in 1..Len(info.balances)
      /\ Bal(s, a, i) >= tx.amount
    BY <1>2, WithdrawAcceptedHoldings
<1>4. info \in AccountInfo /\ info.account = a
    BY <1>3, GetAccountInfoProperties
<1>5. \A j \in Nat : /\ At(info.balances, j) = Bal(s, a, j)
                     /\ At(info.transferNonces, j) = TNonce(s, a, j)
                     /\ At(info.withdrawNonces, j) = WNonce(s, a, j)
    BY <1>3 DEF Bal, TNonce, WNonce, HasAccount
<1> HIDE DEF info, i
<1>6. /\ info.balances \in Seq(Nat) /\ info.withdrawNonces \in Seq(Nat)
      /\ Len(info.withdrawNonces) = Len(info.balances) /\ Len(info.balances) \in Nat
      /\ i \in Nat
      /\ info.balances[i] = Bal(s, a, i) /\ Bal(s, a, i) \in Nat
      /\ info.withdrawNonces[i] = WNonce(s, a, i) /\ WNonce(s, a, i) \in Nat
  <2>1. /\ info.balances \in Seq(Nat) /\ info.withdrawNonces \in Seq(Nat)
        /\ Len(info.withdrawNonces) = Len(info.balances) /\ Len(info.balances) \in Nat
      BY <1>4, AccountInfoTyped
  <2>2. i \in Nat
      BY <1>3, <2>1
  <2>3. Bal(s, a, i) \in Nat /\ WNonce(s, a, i) \in Nat
      BY <2>2, HoldingsTyped
  <2>4. At(info.balances, i) = info.balances[i] /\ At(info.withdrawNonces, i) = info.withdrawNonces[i]
      BY <1>3, <2>1 DEF At
  <2> QED  BY <1>5, <2>1, <2>2, <2>3, <2>4
<1>7. v \in Nat /\ c \in Nat /\ v = Bal(s, a, i) - tx.amount /\ c = WNonce(s, a, i) + 1
    BY <1>3, <1>6
<1> HIDE DEF v, c
<1>8. /\ new \in AccountInfo
      /\ new.account = a
      /\ new.transferNonces = info.transferNonces
      /\ \A j \in Nat : At(new.balances, j) = IF j = i THEN v ELSE At(info.balances, j)
      /\ \A j \in Nat :
            At(new.withdrawNonces, j) = IF j = i THEN c ELSE At(info.withdrawNonces, j)
    BY <1>3, <1>4, <1>7, UpdateBalanceAndWithdrawNonce
<1> HIDE DEF new
<1>10. /\ Extends(r, s)
       /\ \A b : b # a => SameHoldings(r, s, b)
       /\ \A j \in Nat : /\ Bal(r, a, j) = At(new.balances, j)
                         /\ TNonce(r, a, j) = At(new.transferNonces, j)
                         /\ WNonce(r, a, j) = At(new.withdrawNonces, j)
    BY <1>3, <1>8, SetHoldings
<1> HIDE DEF r
<1>11. \A j \in Nat :
          /\ Bal(r, a, j) = Bal(s, a, j) - (IF j = i THEN tx.amount ELSE 0)
          /\ TNonce(r, a, j) = TNonce(s, a, j)
          /\ WNonce(r, a, j) = WNonce(s, a, j) + (IF j = i THEN 1 ELSE 0)
  <2> SUFFICES ASSUME NEW j \in Nat
               PROVE  /\ Bal(r, a, j) = Bal(s, a, j) - (IF j = i THEN tx.amount ELSE 0)
                      /\ TNonce(r, a, j) = TNonce(s, a, j)
                      /\ WNonce(r, a, j) = WNonce(s, a, j) + (IF j = i THEN 1 ELSE 0)
      OBVIOUS
  <2>1. Bal(s, a, j) \in Nat /\ WNonce(s, a, j) \in Nat
      BY HoldingsTyped
  <2> QED  BY <2>1, <1>5, <1>7, <1>8, <1>10
<1> QED  BY <1>1, <1>2, <1>10, <1>11

(* A restart changes no holding.                                           *)
LEMMA ReopenedHoldings ==
    ASSUME NEW s, Consistent(s)
    PROVE  LET r == Reopened(s)
           IN  /\ Consistent(r)
               /\ r.keyOf = s.keyOf
               /\ r.tokenIndex = s.tokenIndex
               /\ \A b : SameHoldings(r, s, b)
BY ReopenedProperties DEF SameHoldings, Bal, TNonce, WNonce, HasAccount

(* Preparing a transfer changes no holding; when the token is known the    *)
(* recipient exists afterwards.                                            *)
LEMMA RecipientReadyHoldings ==
    ASSUME NEW s, Consistent(s), NEW tx, tx.recipient \in Accounts
    PROVE  LET r == RecipientReady(s, tx)
           IN  /\ Extends(r, s)
               /\ \A b : SameHoldings(r, s, b)
               /\ TokenMapped(s, tx.token) => tx.recipient \in DOMAIN r.keyOf
<1>1. CASE TokenMapped(s, tx.token)
  <2>1. s.tokenIndex[tx.token] \in Nat
      BY <1>1, SlotTyped
  <2>2. RecipientReady(s, tx) = EnsureAccount(s, tx.recipient, s.tokenIndex[tx.token])
      BY <1>1 DEF RecipientReady
  <2> QED  BY <2>1, <2>2, EnsureHoldings
<1>2. CASE ~TokenMapped(s, tx.token)
    BY <1>2 DEF RecipientReady, Extends, SameHoldings
<1> QED  BY <1>1, <1>2

(* An accepted transfer is covered and carries the stored nonce.           *)
LEMMA TransferAcceptedHoldings ==
    ASSUME NEW s, Consistent(s), NEW tx, tx.recipient \in Accounts, TransferAccepted(s, tx)
    PROVE  LET r == RecipientReady(s, tx)
           IN  /\ TokenMapped(s, tx.token)
               /\ tx.sender \in DOMAIN r.keyOf
               /\ tx.recipient \in DOMAIN r.keyOf
               /\ Slot(s, tx.token) \in 1..Len(GetAccountInfo(r, tx.sender).balances)
               /\ Bal(s, tx.sender, Slot(s, tx.token)) >= tx.amount
               /\ TNonce(s, tx.sender, Slot(s, tx.token)) = tx.nonce
<1> DEFINE r == RecipientReady(s, tx)
           info == GetAccountInfo(r, tx.sender)
           i == Slot(s, tx.token)
<1>1. TokenMapped(s, tx.token)
    BY DEF TransferAccepted
<1>2. /\ HasAccount(r, tx.sender)
      /\ s.tokenIndex[tx.token] \in Nat
      /\ s.tokenIndex[tx.token] < Len(info.transferNonces)
      /\ info.balances[i] >= tx.amount
      /\ info.transferNonces[i] = tx.nonce
    BY <1>1, SlotTyped DEF TransferAccepted, Slot
<1>3. /\ Consistent(r)
      /\ \A b : SameHoldings(r, s, b)
      /\ tx.recipient \in DOMAIN r.keyOf
    BY <1>1, RecipientReadyHoldings DEF Extends
<1> HIDE DEF r
<1>4. Len(info.balances) \in Nat /\ Len(info.transferNonces) = Len(info.balances)
    BY <1>2, <1>3, GetAccountInfoProperties, AccountInfoTyped DEF HasAccount
<1>5. i \in 1..Len(info.balances) /\ i \in Nat
    BY <1>2, <1>4 DEF Slot
<1> HIDE DEF info, i
<1>6. Bal(r, tx.sender, i) = info.balances[i] /\ TNonce(r, tx.sender, i) = info.transferNonces[i]
    BY <1>2, <1>4, <1>5 DEF Bal, TNonce, At, info
<1>7. Bal(s, tx.sender, i) = info.balances[i] /\ TNonce(s, tx.sender, i) = info.transferNonces[i]
    BY <1>3, <1>5, <1>6 DEF SameHoldings
<1> QED  BY <1>1, <1>2, <1>3, <1>5, <1>7 DEF HasAccount, r, info, i

(* The first write of a transfer: the sender pays and its transfer nonce   *)
(* advances.                                                               *)
LEMMA SenderDebitedHoldings ==
    ASSUME NEW s, Consistent(s), NEW tx, tx.recipient \in Accounts, tx.amount \in Nat,
           TransferAccepted(s, tx)
    PROVE  LET r == SenderDebited(s, tx)
               a == tx.sender
               i == Slot(s, tx.token)
           IN  /\ Extends(r, s)
               /\ r.keyOf = RecipientReady(s, tx).keyOf
               /\ \A b : b # a => SameHoldings(r, s, b)
               /\ \A j \in Nat :
                     /\ Bal(r, a, j) = Bal(s, a, j) - (IF j = i THEN tx.amount ELSE 0)
                     /\ TNonce(r, a, j) = TNonce(s, a, j) + (IF j = i THEN 1 ELSE 0)
                     /\ WNonce(r, a, j) = WNonce(s, a, j)
<1> DEFINE a == tx.sender
           i == s.tokenIndex[tx.token] + 1
           s1 == RecipientReady(s, tx)
           info == GetAccountInfo(s1, a)
           v == info.balances[i] - tx.amount
           c == info.transferNonces[i] + 1
           new == WithBalanceAndTransferNonce(info, i, v, c)
           r == SetAccountInfo(s1, a, new)
<1>1. SenderDebited(s, tx) = r
    BY DEF SenderDebited, WithBalanceAndTransferNonce
<1>2. i = Slot(s, tx.token)
    BY DEF Slot
<1>3. /\ TokenMapped(s, tx.token)
      /\ a \in DOMAIN s1.keyOf
      /\ i \in 1..Len(info.balances)
      /\ Bal(s, a, i) >= tx.amount
    BY <1>2, TransferAcceptedHoldings
<1>4. Extends(s1, s) /\ Consistent(s1) /\ \A b : SameHoldings(s1, s, b)
    BY RecipientReadyHoldings DEF Extends
<1> HIDE DEF s1
<1>5. info \in AccountInfo /\ info.account = a
    BY <1>3, <1>4, GetAccountInfoProperties
<1>6. \A j \in Nat : /\ At(info.balances, j) = Bal(s, a, j)
                     /\ At(info.transferNonces, j) = TNonce(s, a, j)
                     /\ At(info.withdrawNonces, j) = WNonce(s, a, j)
    BY <1>3, <1>4 DEF SameHoldings, Bal, TNonce, WNonce, HasAccount
<1> HIDE DEF info, i
<1>7. v \in Nat /\ c \in Nat /\ v = Bal(s, a, i) - tx.amount /\ c = TNonce(s, a, i) + 1
  <2>1. /\ info.balances \in Seq(Nat) /\ info.transferNonces \in Seq(Nat)
        /\ Len(info.transferNonces) = Len(info.balances) /\ Len(info.balances) \in Nat
      BY <1>5, AccountInfoTyped
  <2>2. i \in Nat
      BY <1>3, <2>1
  <2>3. Bal(s, a, i) \in Nat /\ TNonce(s, a, i) \in Nat
      BY <2>2, HoldingsTyped
  <2>4. At(info.balances, i) = info.balances[i] /\ At(info.transferNonces, i) = info.transferNonces[i]
      BY <1>3, <2>1 DEF At
  <2> QED  BY <1>3, <1>6, <2>2, <2>3, <2>4
<1> HIDE DEF v, c
<1>8. /\ new \in AccountInfo
      /\ new.account = a
      /\ new.withdrawNonces = info.withdrawNonces
      /\ \A j \in Nat : At(new.balances, j) = IF j = i THEN v ELSE At(info.balances, j)
      /\ \A j \in Nat :
            At(new.transferNonces, j) = IF j = i THEN c ELSE At(info.transferNonces, j)
    BY <1>3, <1>5, <1>7, UpdateBalanceAndTransferNonce
<1> HIDE DEF new
<1>9. /\ Extends(r, s1)
      /\ r.keyOf = s1.keyOf
      /\ \A b : b # a => SameHoldings(r, s1, b)
      /\ \A j \in Nat : /\ Bal(r, a, j) = At(new.balances, j)
                        /\ TNonce(r, a, j) = At(new.transferNonces, j)
                        /\ WNonce(r, a, j) = At(new.withdrawNonces, j)
    BY <1>3, <1>4, <1>8, SetHoldings
<1> HIDE DEF r
<1>10. Extends(r, s) /\ \A b : b # a => SameHoldings(r, s, b)
  <2>1. Extends(r, s)
      BY <1>4, <1>9, ExtendsTransitive
  <2> QED  BY <1>4, <1>9, <2>1 DEF SameHoldings
<1>11. \A j \in Nat :
          /\ Bal(r, a, j) = Bal(s, a, j) - (IF j = i THEN tx.amount ELSE 0)
          /\ TNonce(r, a, j) = TNonce(s, a, j) + (IF j = i THEN 1 ELSE 0)
          /\ WNonce(r, a, j) = WNonce(s, a, j)
  <2> SUFFICES ASSUME NEW j \in Nat
               PROVE  /\ Bal(r, a, j) = Bal(s, a, j) - (IF j = i THEN tx.amount ELSE 0)
                      /\ TNonce(r, a, j) = TNonce(s, a, j) + (IF j = i THEN 1 ELSE 0)
                      /\ WNonce(r, a, j) = WNonce(s, a, j)
      OBVIOUS
  <2>1. Bal(s, a, j) \in Nat /\ TNonce(s, a, j) \in Nat
      BY HoldingsTyped
  <2> QED  BY <2>1, <1>6, <1>7, <1>8, <1>9
<1> QED  BY <1>1, <1>2, <1>9, <1>10, <1>11 DEF s1

(* What the second write of a transfer stores for the recipient: what it   *)
(* had before the first one, plus the amount.                              *)
LEMMA RecipientCreditedHoldings ==
    ASSUME NEW s, Consistent(s), NEW tx, tx.recipient \in Accounts, tx.amount \in Nat,
           TransferAccepted(s, tx)
    PROVE  LET new == RecipientCredited(s, tx)
               b == tx.recipient
               i == Slot(s, tx.token)
           IN  /\ new \in AccountInfo
               /\ new.account = b
               /\ \A j \in Nat :
                     /\ At(new.balances, j) = Bal(s, b, j) + (IF j = i THEN tx.amount ELSE 0)
                     /\ At(new.transferNonces, j) = TNonce(s, b, j)
                     /\ At(new.withdrawNonces, j) = WNonce(s, b, j)
<1> DEFINE b == tx.recipient
           index == s.tokenIndex[tx.token]
           i == index + 1
           s1 == RecipientReady(s, tx)
           old == GetAccountInfo(s1, b)
           info == MaybeExpandAccountInfo(old, index)
           v == info.balances[i] + tx.amount
           new == [info EXCEPT !.balances[i] = v]
<1>1. RecipientCredited(s, tx) = new
    BY DEF RecipientCredited
<1>2. TokenMapped(s, tx.token) /\ b \in DOMAIN s1.keyOf
    BY TransferAcceptedHoldings
<1>3. index \in Nat /\ i = Slot(s, tx.token)
    BY <1>2, SlotTyped DEF Slot
<1> HIDE DEF index
<1>4. Consistent(s1) /\ \A c : SameHoldings(s1, s, c)
    BY RecipientReadyHoldings DEF Extends
<1> HIDE DEF s1
<1>5. old \in AccountInfo /\ old.account = b
    BY <1>2, <1>4, GetAccountInfoProperties
<1>6. \A j \in Nat : /\ At(old.balances, j) = Bal(s, b, j)
                     /\ At(old.transferNonces, j) = TNonce(s, b, j)
                     /\ At(old.withdrawNonces, j) = WNonce(s, b, j)
    BY <1>2, <1>4 DEF SameHoldings, Bal, TNonce, WNonce, HasAccount
<1> HIDE DEF old
<1>7. /\ info \in AccountInfo
      /\ info.account = b
      /\ i \in 1..Len(info.balances)
      /\ \A j \in Nat :
            /\ At(info.balances, j) = At(old.balances, j)
            /\ At(info.transferNonces, j) = At(old.transferNonces, j)
            /\ At(info.withdrawNonces, j) = At(old.withdrawNonces, j)
    BY <1>3, <1>5, ExpandHoldings
<1> HIDE DEF info
<1>8. v \in Nat /\ info.balances \in Seq(Nat) /\ v = At(info.balances, i) + tx.amount
    BY <1>7, AccountInfoTyped DEF At
<1> HIDE DEF v, i
<1>9. /\ new \in AccountInfo
      /\ new.account = b
      /\ new.transferNonces = info.transferNonces
      /\ new.withdrawNonces = info.withdrawNonces
      /\ \A j \in Nat : At(new.balances, j) = IF j = i THEN v ELSE At(info.balances, j)
    BY <1>7, <1>8, UpdateBalance, ZenonT(40)
<1> HIDE DEF new
<1>10. \A j \in Nat :
          /\ At(new.balances, j) = Bal(s, b, j) + (IF j = i THEN tx.amount ELSE 0)
          /\ At(new.transferNonces, j) = TNonce(s, b, j)
          /\ At(new.withdrawNonces, j) = WNonce(s, b, j)
  <2> SUFFICES ASSUME NEW j \in Nat
               PROVE  /\ At(new.balances, j) = Bal(s, b, j) + (IF j = i THEN tx.amount ELSE 0)
                      /\ At(new.transferNonces, j) = TNonce(s, b, j)
                      /\ At(new.withdrawNonces, j) = WNonce(s, b, j)
      OBVIOUS
  <2>1. Bal(s, b, j) \in Nat
      BY HoldingsTyped
  <2> QED  BY <2>1, <1>6, <1>7, <1>8, <1>9
<1> QED  BY <1>1, <1>3, <1>9, <1>10

(* A transfer between two accounts moves the amount and advances the       *)
(* sender's transfer nonce.                                                *)
LEMMA TransferredHoldings ==
    ASSUME NEW s, Consistent(s), NEW tx, tx.recipient \in Accounts, tx.amount \in Nat,
           TransferAccepted(s, tx), tx.sender # tx.recipient
    PROVE  LET r == Transferred(s, tx)
               a == tx.sender
               b == tx.recipient
               i == Slot(s, tx.token)
           IN  /\ Extends(r, s)
               /\ \A x : x # a /\ x # b => SameHoldings(r, s, x)
               /\ \A j \in Nat :
                     /\ Bal(r, a, j) = Bal(s, a, j) - (IF j = i THEN tx.amount ELSE 0)
                     /\ TNonce(r, a, j) = TNonce(s, a, j) + (IF j = i THEN 1 ELSE 0)
                     /\ WNonce(r, a, j) = WNonce(s, a, j)
                     /\ Bal(r, b, j) = Bal(s, b, j) + (IF j = i THEN tx.amount ELSE 0)
                     /\ TNonce(r, b, j) = TNonce(s, b, j)
                     /\ WNonce(r, b, j) = WNonce(s, b, j)
<1> DEFINE a == tx.sender
           b == tx.recipient
           i == Slot(s, tx.token)
           d == SenderDebited(s, tx)
           new == RecipientCredited(s, tx)
           r == SetAccountInfo(d, b, new)
<1>1. Transferred(s, tx) = r
    BY DEF Transferred
<1>2. /\ Extends(d, s)
      /\ \A x : x # a => SameHoldings(d, s, x)
      /\ \A j \in Nat :
            /\ Bal(d, a, j) = Bal(s, a, j) - (IF j = i THEN tx.amount ELSE 0)
            /\ TNonce(d, a, j) = TNonce(s, a, j) + (IF j = i THEN 1 ELSE 0)
            /\ WNonce(d, a, j) = WNonce(s, a, j)
      /\ b \in DOMAIN d.keyOf
    BY SenderDebitedHoldings, TransferAcceptedHoldings
<1>3. /\ new \in AccountInfo
      /\ new.account = b
      /\ \A j \in Nat :
            /\ At(new.balances, j) = Bal(s, b, j) + (IF j = i THEN tx.amount ELSE 0)
            /\ At(new.transferNonces, j) = TNonce(s, b, j)
            /\ At(new.withdrawNonces, j) = WNonce(s, b, j)
    BY RecipientCreditedHoldings
<1> HIDE DEF d, new, i
<1>4. /\ Extends(r, d)
      /\ \A x : x # b => SameHoldings(r, d, x)
      /\ \A j \in Nat : /\ Bal(r, b, j) = At(new.balances, j)
                        /\ TNonce(r, b, j) = At(new.transferNonces, j)
                        /\ WNonce(r, b, j) = At(new.withdrawNonces, j)
    BY <1>2, <1>3, SetHoldings DEF Extends
<1> HIDE DEF r
<1>5. Extends(r, s)
    BY <1>2, <1>4, ExtendsTransitive
<1>6. \A x : x # a /\ x # b => SameHoldings(r, s, x)
    BY <1>2, <1>4 DEF SameHoldings
<1>7. SameHoldings(r, d, a)
    BY <1>4
<1> QED  BY <1>1, <1>2, <1>3, <1>4, <1>5, <1>6, <1>7 DEF i, SameHoldings

(* A transfer of an account to itself adds the amount to its balance and   *)
(* leaves its nonces.                                                      *)
LEMMA SelfTransferredHoldings ==
    ASSUME NEW s, Consistent(s), NEW tx, tx.recipient \in Accounts, tx.amount \in Nat,
           TransferAccepted(s, tx), tx.sender = tx.recipient
    PROVE  LET r == Transferred(s, tx)
               a == tx.sender
               i == Slot(s, tx.token)
           IN  /\ Extends(r, s)
               /\ \A x : x # a => SameHoldings(r, s, x)
               /\ \A j \in Nat :
                     /\ Bal(r, a, j) = Bal(s, a, j) + (IF j = i THEN tx.amount ELSE 0)
                     /\ TNonce(r, a, j) = TNonce(s, a, j)
                     /\ WNonce(r, a, j) = WNonce(s, a, j)
<1> DEFINE a == tx.sender
           i == Slot(s, tx.token)
           d == SenderDebited(s, tx)
           new == RecipientCredited(s, tx)
           r == SetAccountInfo(d, a, new)
<1>1. Transferred(s, tx) = r
    BY DEF Transferred
<1>2. /\ Extends(d, s)
      /\ \A x : x # a => SameHoldings(d, s, x)
      /\ a \in DOMAIN d.keyOf
    BY SenderDebitedHoldings, TransferAcceptedHoldings
<1>3. /\ new \in AccountInfo
      /\ new.account = a
      /\ \A j \in Nat :
            /\ At(new.balances, j) = Bal(s, a, j) + (IF j = i THEN tx.amount ELSE 0)
            /\ At(new.transferNonces, j) = TNonce(s, a, j)
            /\ At(new.withdrawNonces, j) = WNonce(s, a, j)
    BY RecipientCreditedHoldings
<1> HIDE DEF d, new, i
<1>4. /\ Extends(r, d)
      /\ \A x : x # a => SameHoldings(r, d, x)
      /\ \A j \in Nat : /\ Bal(r, a, j) = At(new.balances, j)
                        /\ TNonce(r, a, j) = At(new.transferNonces, j)
                        /\ WNonce(r, a, j) = At(new.withdrawNonces, j)
    BY <1>2, <1>3, SetHoldings DEF Extends
<1> HIDE DEF r
<1>5. Extends(r, s)
    BY <1>2, <1>4, ExtendsTransitive
<1>6. \A x : x # a => SameHoldings(r, s, x)
    BY <1>2, <1>4 DEF SameHoldings
<1> QED  BY <1>1, <1>3, <1>4, <1>5, <1>6 DEF i

-----------------------------------------------------------------------------
(* ApplyTransaction, whatever the transaction: what an accepted one adds   *)
(* to the holdings at the slot of its token.                               *)

DepositTxs == [type : {"deposit"}, account : Accounts, token : Tokens, amount : Nat]
WithdrawTxs == [type : {"withdraw"}, account : Accounts, token : Tokens, amount : Nat, nonce : Nat]
TransferTxs == [type : {"transfer"}, sender : Accounts, recipient : Accounts, token : Tokens,
                amount : Nat, nonce : Nat]
Txs == DepositTxs \cup WithdrawTxs \cup TransferTxs

(* A transfer of an account to itself only adds.                           *)
Gains(tx, a) ==
    IF tx.type = "deposit" THEN IF a = tx.account THEN tx.amount ELSE 0
    ELSE IF tx.type = "withdraw" THEN IF a = tx.account THEN -tx.amount ELSE 0
    ELSE IF a = tx.recipient THEN tx.amount
    ELSE IF a = tx.sender THEN -tx.amount ELSE 0

UsesTransferNonce(tx, a) == tx.type = "transfer" /\ a = tx.sender /\ a # tx.recipient

UsesWithdrawNonce(tx, a) == tx.type = "withdraw" /\ a = tx.account

Adds(r, s, tx) ==
    \A a : \A j \in Nat :
        LET here == j = Slot(s, tx.token)
        IN  /\ Bal(r, a, j) = Bal(s, a, j) + (IF here THEN Gains(tx, a) ELSE 0)
            /\ TNonce(r, a, j) =
                   TNonce(s, a, j) + (IF here /\ UsesTransferNonce(tx, a) THEN 1 ELSE 0)
            /\ WNonce(r, a, j) =
                   WNonce(s, a, j) + (IF here /\ UsesWithdrawNonce(tx, a) THEN 1 ELSE 0)

(* What a deposit does to the tables, accepted or not.                     *)
LEMMA DepositApplied ==
    ASSUME NEW s, Consistent(s), NEW tx \in DepositTxs
    PROVE  LET u == ApplyTransaction(s, tx)
           IN  /\ Extends(u.st, s)
               /\ u.outcome = IF TokenMapped(s, tx.token) THEN "ok" ELSE "rejected"
               /\ u.outcome = "ok" => Adds(u.st, s, tx)
               /\ u.outcome # "ok" => u.st = s
<1>1. tx.type = "deposit" /\ tx.account \in Accounts /\ tx.amount \in Nat
  BY DEF DepositTxs
<1>2. CASE DepositAccepted(s, tx)
  <2>1. ApplyTransaction(s, tx).st = Deposited(s, tx) /\ ApplyTransaction(s, tx).outcome = "ok"
    BY <1>1, <1>2 DEF ApplyTransaction, ApplyDeposit
  <2>2. Adds(Deposited(s, tx), s, tx)
    <3> SUFFICES ASSUME NEW a, NEW j \in Nat
                 PROVE  LET here == j = Slot(s, tx.token) r == Deposited(s, tx)
                        IN  /\ Bal(r, a, j) = Bal(s, a, j) + (IF here THEN Gains(tx, a) ELSE 0)
                            /\ TNonce(r, a, j) = TNonce(s, a, j) + 0
                            /\ WNonce(r, a, j) = WNonce(s, a, j) + 0
      BY <1>1 DEF Adds, UsesTransferNonce, UsesWithdrawNonce
    <3>1. Bal(s, a, j) \in Nat /\ TNonce(s, a, j) \in Nat /\ WNonce(s, a, j) \in Nat
      BY HoldingsTyped
    <3>2. CASE a = tx.account
      BY <1>1, <1>2, <3>1, <3>2, DepositedHoldings DEF Gains
    <3>3. CASE a # tx.account
      BY <1>1, <1>2, <3>1, <3>3, DepositedHoldings DEF Gains, SameHoldings
    <3>. QED  BY <3>2, <3>3
  <2>. QED  BY <1>1, <1>2, <2>1, <2>2, DepositedHoldings DEF DepositAccepted
<1>3. CASE ~DepositAccepted(s, tx)
  BY <1>1, <1>3 DEF ApplyTransaction, ApplyDeposit, Rejected, Extends, DepositAccepted
<1>. QED  BY <1>2, <1>3

(* What a withdrawal does to them.                                         *)
LEMMA WithdrawApplied ==
    ASSUME NEW s, Consistent(s), NEW tx \in WithdrawTxs
    PROVE  LET u == ApplyTransaction(s, tx)
           IN  /\ Extends(u.st, s)
               /\ u.outcome = IF WithdrawAccepted(s, tx) THEN "ok" ELSE "rejected"
               /\ u.outcome = "ok" => Adds(u.st, s, tx)
               /\ u.outcome # "ok" => u.st = s
<1>1. tx.type = "withdraw" /\ tx.account \in Accounts /\ tx.amount \in Nat
  BY DEF WithdrawTxs
<1>2. CASE WithdrawAccepted(s, tx)
  <2>1. ApplyTransaction(s, tx).st = Withdrawn(s, tx) /\ ApplyTransaction(s, tx).outcome = "ok"
    BY <1>1, <1>2 DEF ApplyTransaction, ApplyWithdraw
  <2>2. Adds(Withdrawn(s, tx), s, tx)
    <3> SUFFICES ASSUME NEW a, NEW j \in Nat
                 PROVE  LET here == j = Slot(s, tx.token) r == Withdrawn(s, tx)
                        IN  /\ Bal(r, a, j) = Bal(s, a, j) + (IF here THEN Gains(tx, a) ELSE 0)
                            /\ TNonce(r, a, j) = TNonce(s, a, j) + 0
                            /\ WNonce(r, a, j) =
                                  WNonce(s, a, j) + (IF here /\ a = tx.account THEN 1 ELSE 0)
      BY <1>1 DEF Adds, UsesTransferNonce, UsesWithdrawNonce
    <3>1. Bal(s, a, j) \in Nat /\ TNonce(s, a, j) \in Nat /\ WNonce(s, a, j) \in Nat
      BY HoldingsTyped
    <3>2. CASE a = tx.account
      BY <1>1, <1>2, <3>1, <3>2, WithdrawnHoldings DEF Gains
    <3>3. CASE a # tx.account
      BY <1>1, <1>2, <3>1, <3>3, WithdrawnHoldings DEF Gains, SameHoldings
    <3>. QED  BY <3>2, <3>3
  <2>. QED  BY <1>1, <1>2, <2>1, <2>2, WithdrawnHoldings
<1>3. CASE ~WithdrawAccepted(s, tx)
  BY <1>1, <1>3 DEF ApplyTransaction, ApplyWithdraw, Rejected, Extends
<1>. QED  BY <1>2, <1>3

(* What a transfer does to them.                                           *)
LEMMA TransferApplied ==
    ASSUME NEW s, Consistent(s), NEW tx \in TransferTxs
    PROVE  LET u == ApplyTransaction(s, tx)
           IN  /\ Extends(u.st, s)
               /\ u.outcome = CASE TransferAccepted(s, tx) -> "ok"
                                [] TransferPanics(s, tx) -> "panic"
                                [] OTHER -> "rejected"
               /\ u.outcome = "ok" => Adds(u.st, s, tx)
               /\ u.outcome # "ok" => \A a : SameHoldings(u.st, s, a)
<1>1. tx.type = "transfer" /\ tx.recipient \in Accounts /\ tx.amount \in Nat
  BY DEF TransferTxs
<1>2. CASE TransferAccepted(s, tx)
  <2>0. ~TransferPanics(s, tx)
    <3> DEFINE info == GetAccountInfo(RecipientReady(s, tx), tx.sender)
    <3>1. tx.sender \in DOMAIN RecipientReady(s, tx).keyOf /\ TokenMapped(s, tx.token)
      BY <1>1, <1>2, TransferAcceptedHoldings
    <3>2. info \in AccountInfo
      BY <1>1, <3>1, RecipientReadyHoldings, GetAccountInfoProperties DEF Extends
    <3>3. Len(info.transferNonces) \in Nat /\ s.tokenIndex[tx.token] \in Nat
      BY <3>1, <3>2, AccountInfoTyped, SlotTyped
    <3>4. s.tokenIndex[tx.token] < Len(info.transferNonces)
      BY <1>2 DEF TransferAccepted
    <3> HIDE DEF info
    <3>5. ~(s.tokenIndex[tx.token] >= Len(info.transferNonces))
      BY <3>3, <3>4
    <3>. QED  BY <3>5 DEF TransferPanics, info
  <2>1. ApplyTransaction(s, tx).st = Transferred(s, tx) /\ ApplyTransaction(s, tx).outcome = "ok"
    BY <1>1, <1>2, <2>0 DEF ApplyTransaction, ApplyTransfer
  <2>2. ASSUME NEW a, NEW j \in Nat
        PROVE  LET here == j = Slot(s, tx.token) r == Transferred(s, tx)
               IN  /\ Bal(r, a, j) = Bal(s, a, j) + (IF here THEN Gains(tx, a) ELSE 0)
                   /\ TNonce(r, a, j) = TNonce(s, a, j)
                         + (IF here /\ a = tx.sender /\ a # tx.recipient THEN 1 ELSE 0)
                   /\ WNonce(r, a, j) = WNonce(s, a, j) + 0
    <3>1. Bal(s, a, j) \in Nat /\ TNonce(s, a, j) \in Nat /\ WNonce(s, a, j) \in Nat
      BY HoldingsTyped
    <3>2. CASE tx.sender = tx.recipient
      <4>1. CASE a = tx.sender
        BY <1>1, <1>2, <3>1, <3>2, <4>1, SelfTransferredHoldings DEF Gains
      <4>2. CASE a # tx.sender
        BY <1>1, <1>2, <3>1, <3>2, <4>2, SelfTransferredHoldings DEF Gains, SameHoldings
      <4>. QED  BY <4>1, <4>2
    <3>3. CASE tx.sender # tx.recipient
      <4>1. CASE a = tx.sender
        BY <1>1, <1>2, <3>1, <3>3, <4>1, TransferredHoldings DEF Gains
      <4>2. CASE a = tx.recipient
        BY <1>1, <1>2, <3>1, <3>3, <4>2, TransferredHoldings DEF Gains
      <4>3. CASE a # tx.sender /\ a # tx.recipient
        BY <1>1, <1>2, <3>1, <3>3, <4>3, TransferredHoldings DEF Gains, SameHoldings
      <4>. QED  BY <4>1, <4>2, <4>3
    <3>. QED  BY <3>2, <3>3
  <2>3. Adds(Transferred(s, tx), s, tx)
    BY <1>1, <2>2 DEF Adds, UsesTransferNonce, UsesWithdrawNonce
  <2>4. Extends(Transferred(s, tx), s)
    BY <1>1, <1>2, TransferredHoldings, SelfTransferredHoldings
  <2>. QED  BY <1>2, <2>0, <2>1, <2>3, <2>4
<1>3. CASE ~TransferAccepted(s, tx)
  <2>1. /\ ApplyTransaction(s, tx).st = RecipientReady(s, tx)
        /\ ApplyTransaction(s, tx).outcome = IF TransferPanics(s, tx) THEN "panic" ELSE "rejected"
    BY <1>1, <1>3 DEF ApplyTransaction, ApplyTransfer, Rejected
  <2>. QED  BY <1>1, <1>3, <2>1, RecipientReadyHoldings
<1>. QED  BY <1>2, <1>3

(* The three together.                                                     *)
LEMMA Applied ==
    ASSUME NEW s, Consistent(s), NEW tx \in Txs
    PROVE  LET u == ApplyTransaction(s, tx)
           IN  /\ Extends(u.st, s)
               /\ u.outcome \in {"ok", "rejected", "panic"}
               /\ u.outcome = "ok" =>
                     /\ TokenMapped(s, tx.token)
                     /\ Adds(u.st, s, tx)
                     /\ tx.type = "transfer" =>
                           TNonce(s, tx.sender, Slot(s, tx.token)) = tx.nonce
                     /\ tx.type = "withdraw" =>
                           WNonce(s, tx.account, Slot(s, tx.token)) = tx.nonce
               /\ u.outcome # "ok" => \A a : SameHoldings(u.st, s, a)
<1>1. CASE tx \in DepositTxs
  BY <1>1, DepositApplied DEF SameHoldings, DepositTxs
<1>2. CASE tx \in WithdrawTxs
  BY <1>2, WithdrawApplied, WithdrawAcceptedHoldings DEF SameHoldings, WithdrawTxs, WithdrawAccepted
<1>3. CASE tx \in TransferTxs
  BY <1>3, TransferApplied, TransferAcceptedHoldings DEF TransferTxs
<1>. QED  BY <1>1, <1>2, <1>3 DEF Txs

-----------------------------------------------------------------------------
(* What is true of tables whose tokens are numbered as in reg, when the    *)
(* nonces of sp were used up.                                              *)

Numbered(s, reg) ==
    \A t \in DOMAIN s.tokenIndex : Slot(s, t) \in DOMAIN reg /\ reg[Slot(s, t)] = t

Unmapped(s, j) == \A t \in DOMAIN s.tokenIndex : Slot(s, t) # j

EmptyAt(s, a, j) == Bal(s, a, j) = 0 /\ TNonce(s, a, j) = 0 /\ WNonce(s, a, j) = 0

UnmappedEmpty(s) ==
    \A a \in Accounts, j \in Nat : Unmapped(s, j) => EmptyAt(s, a, j)

StoredNonce(s, x) ==
    IF x.kind = "transfer" THEN TNonce(s, x.account, Slot(s, x.token))
                           ELSE WNonce(s, x.account, Slot(s, x.token))

NoncesPassed(s, sp) ==
    \A x \in sp : /\ x.account \in Accounts
                  /\ x.token \in DOMAIN s.tokenIndex
                  /\ x.nonce \in Nat
                  /\ x.nonce < StoredNonce(s, x)

TablesInv(s, reg, sp) ==
    Consistent(s) /\ Numbered(s, reg) /\ UnmappedEmpty(s) /\ NoncesPassed(s, sp)

-----------------------------------------------------------------------------
(* Steps that keep TablesInv *)

(* No nonce goes back and no position without a token is touched.          *)
Grows(r, s) ==
    /\ Consistent(r)
    /\ r.tokenIndex = s.tokenIndex
    /\ \A a \in Accounts, j \in Nat :
          /\ TNonce(r, a, j) >= TNonce(s, a, j)
          /\ WNonce(r, a, j) >= WNonce(s, a, j)
          /\ Unmapped(s, j) /\ EmptyAt(s, a, j) => EmptyAt(r, a, j)

(* A step that Grows keeps the invariant of the tables.                    *)
LEMMA GrowsKeepsTablesInv ==
    ASSUME NEW s, NEW r, NEW reg, NEW sp, TablesInv(s, reg, sp), Grows(r, s)
    PROVE  TablesInv(r, reg, sp)
<1>1. Consistent(s) /\ Consistent(r) /\ r.tokenIndex = s.tokenIndex
    BY DEF TablesInv, Grows
<1>2. \A t : Slot(r, t) = Slot(s, t)
    BY <1>1 DEF Slot
<1>3. Numbered(r, reg)
    BY <1>1, <1>2 DEF TablesInv, Numbered
<1>4. UnmappedEmpty(r)
    BY <1>1, <1>2 DEF TablesInv, UnmappedEmpty, Unmapped, Grows
<1>5. NoncesPassed(r, sp)
  <2> SUFFICES ASSUME NEW x \in sp
               PROVE  /\ x.account \in Accounts
                      /\ x.token \in DOMAIN r.tokenIndex
                      /\ x.nonce \in Nat
                      /\ x.nonce < StoredNonce(r, x)
      BY DEF NoncesPassed
  <2>1. /\ x.account \in Accounts
        /\ x.token \in DOMAIN s.tokenIndex
        /\ x.nonce \in Nat
        /\ x.nonce < StoredNonce(s, x)
      BY DEF TablesInv, NoncesPassed
  <2> DEFINE i == Slot(s, x.token)
  <2>2. i \in Nat
      BY <1>1, <2>1, SlotTyped DEF TokenMapped
  <2>3. /\ TNonce(s, x.account, i) \in Nat /\ TNonce(r, x.account, i) \in Nat
        /\ WNonce(s, x.account, i) \in Nat /\ WNonce(r, x.account, i) \in Nat
      BY <1>1, <2>2, HoldingsTyped
  <2>4. /\ TNonce(r, x.account, i) >= TNonce(s, x.account, i)
        /\ WNonce(r, x.account, i) >= WNonce(s, x.account, i)
      BY <2>1, <2>2 DEF Grows
  <2>5. Slot(r, x.token) = i
      BY <1>2
  <2> QED  BY <1>1, <2>1, <2>3, <2>4, <2>5 DEF StoredNonce
<1> QED  BY <1>1, <1>3, <1>4, <1>5 DEF TablesInv

(* A step that leaves all holdings alone Grows.                            *)
LEMMA SameHoldingsGrows ==
    ASSUME NEW s, Consistent(s), NEW r, Consistent(r), r.tokenIndex = s.tokenIndex,
           \A b \in Accounts : SameHoldings(r, s, b)
    PROVE  Grows(r, s)
<1> SUFFICES ASSUME NEW a \in Accounts, NEW j \in Nat
             PROVE  /\ TNonce(r, a, j) >= TNonce(s, a, j)
                    /\ WNonce(r, a, j) >= WNonce(s, a, j)
                    /\ Unmapped(s, j) /\ EmptyAt(s, a, j) => EmptyAt(r, a, j)
    BY DEF Grows
<1>1. TNonce(s, a, j) \in Nat /\ WNonce(s, a, j) \in Nat
    BY HoldingsTyped
<1>2. /\ Bal(r, a, j) = Bal(s, a, j)
      /\ TNonce(r, a, j) = TNonce(s, a, j)
      /\ WNonce(r, a, j) = WNonce(s, a, j)
    BY DEF SameHoldings
<1> QED  BY <1>1, <1>2 DEF EmptyAt

(* One after the other.                                                    *)
LEMMA ReopenedGrows ==
    ASSUME NEW s, NEW r, Consistent(s), Grows(r, s)
    PROVE  Grows(Reopened(r), s)
<1> DEFINE q == Reopened(r)
<1>1. /\ Consistent(q)
      /\ q.tokenIndex = r.tokenIndex
      /\ \A b : SameHoldings(q, r, b)
    BY ReopenedHoldings DEF Grows
<1> HIDE DEF q
<1>2. Grows(q, s)
    BY <1>1 DEF Grows, SameHoldings, EmptyAt
<1> QED  BY <1>2 DEF q

(* Slots of tokens that are in the table are mapped.                       *)
LEMMA MappedSlot ==
    ASSUME NEW s, NEW t, TokenMapped(s, t)
    PROVE  ~Unmapped(s, Slot(s, t))
BY DEF TokenMapped, Unmapped

(* A step that touches one mapped position, and takes no nonce back,       *)
(* Grows.                                                                  *)
LEMMA ChangeAtSlotGrows ==
    ASSUME NEW s, Consistent(s), NEW r, Consistent(r), r.tokenIndex = s.tokenIndex,
           NEW i, ~Unmapped(s, i),
           \A a \in Accounts, j \in Nat :
               /\ j # i => /\ Bal(r, a, j) = Bal(s, a, j)
                           /\ TNonce(r, a, j) = TNonce(s, a, j)
                           /\ WNonce(r, a, j) = WNonce(s, a, j)
               /\ TNonce(r, a, j) >= TNonce(s, a, j)
               /\ WNonce(r, a, j) >= WNonce(s, a, j)
    PROVE  Grows(r, s)
BY DEF Grows, EmptyAt

(* A deposit Grows.                                                        *)
LEMMA DepositedGrows ==
    ASSUME NEW s, Consistent(s), NEW tx, DepositAccepted(s, tx),
           tx.account \in Accounts, tx.amount \in Nat
    PROVE  Grows(Deposited(s, tx), s) /\ Extends(Deposited(s, tx), s)
<1> DEFINE r == Deposited(s, tx)
           i == Slot(s, tx.token)
<1>1. /\ Extends(r, s)
      /\ \A b : b # tx.account => SameHoldings(r, s, b)
      /\ \A j \in Nat :
            /\ Bal(r, tx.account, j) =
                   Bal(s, tx.account, j) + (IF j = i THEN tx.amount ELSE 0)
            /\ TNonce(r, tx.account, j) = TNonce(s, tx.account, j)
            /\ WNonce(r, tx.account, j) = WNonce(s, tx.account, j)
    BY DepositedHoldings
<1>2. ~Unmapped(s, i)
    BY MappedSlot DEF DepositAccepted
<1> HIDE DEF r, i
<1>3. ASSUME NEW a \in Accounts, NEW j \in Nat
      PROVE  /\ j # i => /\ Bal(r, a, j) = Bal(s, a, j)
                         /\ TNonce(r, a, j) = TNonce(s, a, j)
                         /\ WNonce(r, a, j) = WNonce(s, a, j)
             /\ TNonce(r, a, j) >= TNonce(s, a, j)
             /\ WNonce(r, a, j) >= WNonce(s, a, j)
  <2>1. Bal(s, a, j) \in Nat /\ TNonce(s, a, j) \in Nat /\ WNonce(s, a, j) \in Nat
      BY HoldingsTyped
  <2> QED  BY <1>1, <2>1 DEF SameHoldings
<1>4. Grows(r, s)
    BY <1>1, <1>2, <1>3, ChangeAtSlotGrows DEF Extends
<1> QED  BY <1>1, <1>4 DEF r

(* A withdrawal Grows, and leaves its nonce behind.                        *)
LEMMA WithdrawnGrows ==
    ASSUME NEW s, Consistent(s), NEW tx, WithdrawAccepted(s, tx),
           tx.account \in Accounts, tx.amount \in Nat
    PROVE  LET r == Withdrawn(s, tx)
               i == Slot(s, tx.token)
           IN  /\ Grows(r, s)
               /\ Extends(r, s)
               /\ tx.nonce \in Nat
               /\ tx.nonce < WNonce(r, tx.account, i)
<1> DEFINE r == Withdrawn(s, tx)
           i == Slot(s, tx.token)
<1>1. /\ Extends(r, s)
      /\ \A b : b # tx.account => SameHoldings(r, s, b)
      /\ \A j \in Nat :
            /\ Bal(r, tx.account, j) =
                   Bal(s, tx.account, j) - (IF j = i THEN tx.amount ELSE 0)
            /\ TNonce(r, tx.account, j) = TNonce(s, tx.account, j)
            /\ WNonce(r, tx.account, j) =
                   WNonce(s, tx.account, j) + (IF j = i THEN 1 ELSE 0)
    BY WithdrawnHoldings
<1>2. ~Unmapped(s, i) /\ i \in Nat
    BY MappedSlot, SlotTyped DEF WithdrawAccepted
<1>3. WNonce(s, tx.account, i) = tx.nonce
    BY WithdrawAcceptedHoldings
<1> HIDE DEF r, i
<1>4. ASSUME NEW a \in Accounts, NEW j \in Nat
      PROVE  /\ j # i => /\ Bal(r, a, j) = Bal(s, a, j)
                         /\ TNonce(r, a, j) = TNonce(s, a, j)
                         /\ WNonce(r, a, j) = WNonce(s, a, j)
             /\ TNonce(r, a, j) >= TNonce(s, a, j)
             /\ WNonce(r, a, j) >= WNonce(s, a, j)
  <2>1. Bal(s, a, j) \in Nat /\ TNonce(s, a, j) \in Nat /\ WNonce(s, a, j) \in Nat
      BY HoldingsTyped
  <2> QED  BY <1>1, <2>1 DEF SameHoldings
<1>5. Grows(r, s)
    BY <1>1, <1>2, <1>4, ChangeAtSlotGrows DEF Extends
<1>6. tx.nonce \in Nat /\ tx.nonce < WNonce(r, tx.account, i)
  <2>1. tx.nonce \in Nat
      BY <1>2, <1>3, HoldingsTyped
  <2> QED  BY <1>1, <1>2, <1>3, <2>1
<1> QED  BY <1>1, <1>5, <1>6 DEF r, i

(* Debiting the sender of a transfer Grows, and leaves the nonce behind.   *)
LEMMA SenderDebitedGrows ==
    ASSUME NEW s, Consistent(s), NEW tx, TransferAccepted(s, tx),
           tx.sender \in Accounts, tx.recipient \in Accounts, tx.amount \in Nat
    PROVE  LET r == SenderDebited(s, tx)
               i == Slot(s, tx.token)
           IN  /\ Grows(r, s)
               /\ Extends(r, s)
               /\ tx.nonce \in Nat
               /\ tx.nonce < TNonce(r, tx.sender, i)
<1> DEFINE r == SenderDebited(s, tx)
           i == Slot(s, tx.token)
<1>1. /\ Extends(r, s)
      /\ \A b : b # tx.sender => SameHoldings(r, s, b)
      /\ \A j \in Nat :
            /\ Bal(r, tx.sender, j) =
                   Bal(s, tx.sender, j) - (IF j = i THEN tx.amount ELSE 0)
            /\ TNonce(r, tx.sender, j) = TNonce(s, tx.sender, j) + (IF j = i THEN 1 ELSE 0)
            /\ WNonce(r, tx.sender, j) = WNonce(s, tx.sender, j)
    BY SenderDebitedHoldings
<1>2. ~Unmapped(s, i) /\ i \in Nat
    BY MappedSlot, SlotTyped DEF TransferAccepted
<1>3. TNonce(s, tx.sender, i) = tx.nonce
    BY TransferAcceptedHoldings
<1> HIDE DEF r, i
<1>4. ASSUME NEW a \in Accounts, NEW j \in Nat
      PROVE  /\ j # i => /\ Bal(r, a, j) = Bal(s, a, j)
                         /\ TNonce(r, a, j) = TNonce(s, a, j)
                         /\ WNonce(r, a, j) = WNonce(s, a, j)
             /\ TNonce(r, a, j) >= TNonce(s, a, j)
             /\ WNonce(r, a, j) >= WNonce(s, a, j)
  <2>1. Bal(s, a, j) \in Nat /\ TNonce(s, a, j) \in Nat /\ WNonce(s, a, j) \in Nat
      BY HoldingsTyped
  <2> QED  BY <1>1, <2>1 DEF SameHoldings
<1>5. Grows(r, s)
    BY <1>1, <1>2, <1>4, ChangeAtSlotGrows DEF Extends
<1>6. tx.nonce \in Nat /\ tx.nonce < TNonce(r, tx.sender, i)
  <2>1. tx.nonce \in Nat
      BY <1>2, <1>3, HoldingsTyped
  <2> QED  BY <1>1, <1>2, <1>3, <2>1
<1> QED  BY <1>1, <1>5, <1>6 DEF r, i

(* A transfer between two accounts Grows, and leaves the nonce behind.     *)
LEMMA TransferredGrows ==
    ASSUME NEW s, Consistent(s), NEW tx, TransferAccepted(s, tx), tx.sender # tx.recipient,
           tx.sender \in Accounts, tx.recipient \in Accounts, tx.amount \in Nat
    PROVE  LET r == Transferred(s, tx)
               i == Slot(s, tx.token)
           IN  /\ Grows(r, s)
               /\ Extends(r, s)
               /\ tx.nonce \in Nat
               /\ tx.nonce < TNonce(r, tx.sender, i)
<1> DEFINE r == Transferred(s, tx)
           a0 == tx.sender
           b0 == tx.recipient
           i == Slot(s, tx.token)
<1>1. /\ Extends(r, s)
      /\ \A x : x # a0 /\ x # b0 => SameHoldings(r, s, x)
      /\ \A j \in Nat :
            /\ Bal(r, a0, j) = Bal(s, a0, j) - (IF j = i THEN tx.amount ELSE 0)
            /\ TNonce(r, a0, j) = TNonce(s, a0, j) + (IF j = i THEN 1 ELSE 0)
            /\ WNonce(r, a0, j) = WNonce(s, a0, j)
            /\ Bal(r, b0, j) = Bal(s, b0, j) + (IF j = i THEN tx.amount ELSE 0)
            /\ TNonce(r, b0, j) = TNonce(s, b0, j)
            /\ WNonce(r, b0, j) = WNonce(s, b0, j)
    BY TransferredHoldings
<1>2. ~Unmapped(s, i) /\ i \in Nat
    BY MappedSlot, SlotTyped DEF TransferAccepted
<1>3. TNonce(s, a0, i) = tx.nonce
    BY TransferAcceptedHoldings
<1> HIDE DEF r, i
<1>4. ASSUME NEW a \in Accounts, NEW j \in Nat
      PROVE  /\ j # i => /\ Bal(r, a, j) = Bal(s, a, j)
                         /\ TNonce(r, a, j) = TNonce(s, a, j)
                         /\ WNonce(r, a, j) = WNonce(s, a, j)
             /\ TNonce(r, a, j) >= TNonce(s, a, j)
             /\ WNonce(r, a, j) >= WNonce(s, a, j)
  <2>1. Bal(s, a, j) \in Nat /\ TNonce(s, a, j) \in Nat /\ WNonce(s, a, j) \in Nat
      BY HoldingsTyped
  <2>2. CASE a = a0
      BY <1>1, <2>1, <2>2
  <2>3. CASE a = b0
      BY <1>1, <2>1, <2>3
  <2>4. CASE a # a0 /\ a # b0
      BY <1>1, <2>1, <2>4 DEF SameHoldings
  <2> QED  BY <2>2, <2>3, <2>4
<1>5. Grows(r, s)
    BY <1>1, <1>2, <1>4, ChangeAtSlotGrows DEF Extends
<1>6. tx.nonce \in Nat /\ tx.nonce < TNonce(r, a0, i)
  <2>1. tx.nonce \in Nat
      BY <1>2, <1>3, HoldingsTyped
  <2> QED  BY <1>1, <1>2, <1>3, <2>1
<1> QED  BY <1>1, <1>5, <1>6 DEF r, i

(* A transfer of an account to itself Grows.                               *)
LEMMA SelfTransferredGrows ==
    ASSUME NEW s, Consistent(s), NEW tx, TransferAccepted(s, tx), tx.sender = tx.recipient,
           tx.sender \in Accounts, tx.recipient \in Accounts, tx.amount \in Nat
    PROVE  Grows(Transferred(s, tx), s) /\ Extends(Transferred(s, tx), s)
<1> DEFINE r == Transferred(s, tx)
           i == Slot(s, tx.token)
<1>1. /\ Extends(r, s)
      /\ \A x : x # tx.sender => SameHoldings(r, s, x)
      /\ \A j \in Nat :
            /\ Bal(r, tx.sender, j) =
                   Bal(s, tx.sender, j) + (IF j = i THEN tx.amount ELSE 0)
            /\ TNonce(r, tx.sender, j) = TNonce(s, tx.sender, j)
            /\ WNonce(r, tx.sender, j) = WNonce(s, tx.sender, j)
    BY SelfTransferredHoldings
<1>2. ~Unmapped(s, i)
    BY MappedSlot DEF TransferAccepted
<1> HIDE DEF r, i
<1>3. ASSUME NEW a \in Accounts, NEW j \in Nat
      PROVE  /\ j # i => /\ Bal(r, a, j) = Bal(s, a, j)
                         /\ TNonce(r, a, j) = TNonce(s, a, j)
                         /\ WNonce(r, a, j) = WNonce(s, a, j)
             /\ TNonce(r, a, j) >= TNonce(s, a, j)
             /\ WNonce(r, a, j) >= WNonce(s, a, j)
  <2>1. Bal(s, a, j) \in Nat /\ TNonce(s, a, j) \in Nat /\ WNonce(s, a, j) \in Nat
      BY HoldingsTyped
  <2> QED  BY <1>1, <2>1 DEF SameHoldings
<1>4. Grows(r, s)
    BY <1>1, <1>2, <1>3, ChangeAtSlotGrows DEF Extends
<1> QED  BY <1>1, <1>4 DEF r

(* Getting the recipient ready Grows.                                      *)
LEMMA RecipientReadyGrows ==
    ASSUME NEW s, Consistent(s), NEW tx, tx.recipient \in Accounts
    PROVE  Grows(RecipientReady(s, tx), s) /\ Extends(RecipientReady(s, tx), s)
BY RecipientReadyHoldings, SameHoldingsGrows DEF Extends

(* So does creating an account.                                            *)
LEMMA EnsureAccountGrows ==
    ASSUME NEW s, Consistent(s), NEW a \in Accounts, NEW index \in Nat
    PROVE  Grows(EnsureAccount(s, a, index), s)
BY EnsureHoldings, SameHoldingsGrows DEF Extends

-----------------------------------------------------------------------------
(* Token registration and observation *)

(* The registry only grows, so the numbering of the table stays that of    *)
(* the registry.                                                           *)
LEMMA RegistryAppend ==
    ASSUME NEW s, NEW reg \in Seq(Tokens), NEW t \in Tokens, NEW sp, TablesInv(s, reg, sp)
    PROVE  TablesInv(s, Append(reg, t), sp)
<1>1. /\ DOMAIN reg \subseteq DOMAIN Append(reg, t)
      /\ \A i \in DOMAIN reg : Append(reg, t)[i] = reg[i]
    OBVIOUS
<1> QED  BY <1>1 DEF TablesInv, Numbered

Observed(s, t, n) == [s EXCEPT !.tokenIndex = Put(@, t, n)]

(* Observing a token adds one row to the token table.                      *)
LEMMA ObservedProperties ==
    ASSUME NEW s, Consistent(s), NEW t \in Tokens, NEW n \in Nat
    PROVE  LET r == Observed(s, t, n)
           IN  /\ Consistent(r)
               /\ r.keyOf = s.keyOf
               /\ r.infoAt = s.infoAt
               /\ r.trie = s.trie
               /\ \A b : SameHoldings(r, s, b)
               /\ r.tokenIndex = Put(s.tokenIndex, t, n)
<1> DEFINE r == Observed(s, t, n)
<1>1. /\ DOMAIN r = DOMAIN s
      /\ r.lastKey = s.lastKey
      /\ r.keyOf = s.keyOf
      /\ r.infoAt = s.infoAt
      /\ r.trie = s.trie
      /\ r.tokenIndex = Put(s.tokenIndex, t, n)
    BY DEF Observed, Consistent, TablesTyped
<1>2. /\ s.tokenIndex \in [DOMAIN s.tokenIndex -> Nat]
      /\ DOMAIN s.tokenIndex \subseteq Tokens
    BY DEF Consistent, TablesTyped
<1> HIDE DEF r
<1>3. r.tokenIndex = [x \in DOMAIN s.tokenIndex \cup {t} |->
                          IF x = t THEN n ELSE s.tokenIndex[x]]
    BY <1>1 DEF Put
<1>4. /\ DOMAIN r.tokenIndex = DOMAIN s.tokenIndex \cup {t}
      /\ r.tokenIndex \in [DOMAIN r.tokenIndex -> Nat]
      /\ r.tokenIndex[t] = n
      /\ \A u \in DOMAIN s.tokenIndex : u # t => r.tokenIndex[u] = s.tokenIndex[u]
    BY <1>2, <1>3
<1>5. Consistent(r)
    BY <1>1, <1>2, <1>4 DEF Consistent, TablesTyped, SlotsAssigned, TrieAgrees
<1>6. \A b : SameHoldings(r, s, b)
    BY <1>1 DEF SameHoldings, Bal, TNonce, WNonce, HasAccount, GetAccountInfo
<1> QED  BY <1>1, <1>5, <1>6 DEF r

(* A token observed at the place the registry gave it keeps the invariant. *)
LEMMA ObservedKeepsTablesInv ==
    ASSUME NEW s, NEW reg \in Seq(Tokens), NEW sp, TablesInv(s, reg, sp),
           NEW t \in Tokens, NEW n \in Nat,
           n + 1 \in DOMAIN reg, reg[n + 1] = t, ~TokenMapped(s, t)
    PROVE  TablesInv(Observed(s, t, n), reg, sp)
<1> DEFINE r == Observed(s, t, n)
<1>1. Consistent(s)
    BY DEF TablesInv
<1>2. t \notin DOMAIN s.tokenIndex
    BY DEF TokenMapped
<1>3. /\ Consistent(r)
      /\ \A b : SameHoldings(r, s, b)
      /\ DOMAIN r.tokenIndex = {t} \cup DOMAIN s.tokenIndex
      /\ r.tokenIndex[t] = n
      /\ \A u \in DOMAIN s.tokenIndex : u # t => r.tokenIndex[u] = s.tokenIndex[u]
  <2>1. Consistent(r) /\ \A b : SameHoldings(r, s, b)
      BY <1>1, ObservedProperties
  <2>2. r.tokenIndex = Put(s.tokenIndex, t, n)
      BY <1>1, ObservedProperties
  <2> HIDE DEF r
  <2>3. DOMAIN r.tokenIndex = {t} \cup DOMAIN s.tokenIndex
      BY <2>2 DEF Put
  <2>4. r.tokenIndex[t] = n
      BY <2>2 DEF Put
  <2>5. \A u \in DOMAIN s.tokenIndex : u # t => r.tokenIndex[u] = s.tokenIndex[u]
      BY <2>2 DEF Put
  <2> QED  BY <2>1, <2>2, <2>3, <2>4, <2>5
<1> HIDE DEF r
<1>4. Slot(r, t) = n + 1 /\ \A u \in DOMAIN s.tokenIndex : Slot(r, u) = Slot(s, u)
    BY <1>2, <1>3 DEF Slot
<1>5. Numbered(r, reg)
    BY <1>2, <1>3, <1>4 DEF TablesInv, Numbered
<1>6. UnmappedEmpty(r)
    BY <1>2, <1>3, <1>4 DEF TablesInv, UnmappedEmpty, Unmapped, EmptyAt, SameHoldings
<1>7. NoncesPassed(r, sp)
  <2> SUFFICES ASSUME NEW x \in sp
               PROVE  /\ x.account \in Accounts
                      /\ x.token \in DOMAIN r.tokenIndex
                      /\ x.nonce \in Nat
                      /\ x.nonce < StoredNonce(r, x)
      BY DEF NoncesPassed
  <2>1. /\ x.account \in Accounts
        /\ x.token \in DOMAIN s.tokenIndex
        /\ x.nonce \in Nat
        /\ x.nonce < StoredNonce(s, x)
      BY DEF TablesInv, NoncesPassed
  <2>2. Slot(r, x.token) = Slot(s, x.token) /\ Slot(s, x.token) \in Nat
      BY <1>1, <1>3, <1>4, <2>1, SlotTyped DEF TokenMapped
  <2> QED  BY <1>3, <2>1, <2>2 DEF StoredNonce, SameHoldings
<1> QED  BY <1>3, <1>5, <1>6, <1>7 DEF TablesInv, r

(* A nonce that was used up joins the others.                              *)
LEMMA SpentJoins ==
    ASSUME NEW s, NEW reg, NEW sp, TablesInv(s, reg, sp), NEW x,
           x.account \in Accounts, x.token \in DOMAIN s.tokenIndex,
           x.nonce \in Nat, x.nonce < StoredNonce(s, x)
    PROVE  TablesInv(s, reg, sp \cup {x})
BY DEF TablesInv, NoncesPassed

(* What the tables show of an account and a token is the holding at the    *)
(* token's position.                                                       *)
LEMMA ViewsAreHoldings ==
    ASSUME NEW s, Consistent(s), NEW a, NEW t
    PROVE  /\ BalanceOf(s, a, t) =
                  IF TokenMapped(s, t) THEN Bal(s, a, Slot(s, t)) ELSE 0
           /\ TransferNonceOf(s, a, t) =
                  IF TokenMapped(s, t) THEN TNonce(s, a, Slot(s, t)) ELSE 0
           /\ WithdrawNonceOf(s, a, t) =
                  IF TokenMapped(s, t) THEN WNonce(s, a, Slot(s, t)) ELSE 0
<1>1. CASE ~TokenMapped(s, t)
    BY <1>1 DEF BalanceOf, TransferNonceOf, WithdrawNonceOf, Holds
<1>2. CASE ~HasAccount(s, a)
    BY <1>2 DEF BalanceOf, TransferNonceOf, WithdrawNonceOf, Holds, Bal, TNonce, WNonce
<1>3. CASE TokenMapped(s, t) /\ HasAccount(s, a)
  <2> DEFINE info == GetAccountInfo(s, a)
             n == s.tokenIndex[t]
  <2>1. info \in AccountInfo /\ n \in Nat
      BY <1>3, GetAccountInfoProperties, SlotTyped DEF HasAccount
  <2>2. /\ Len(info.balances) \in Nat
        /\ Len(info.transferNonces) = Len(info.balances)
        /\ Len(info.withdrawNonces) = Len(info.balances)
      BY <2>1, AccountInfoTyped
  <2>3. /\ Holds(s, a, t) <=> n + 1 \in 1..Len(info.balances)
        /\ Slot(s, t) = n + 1
      BY <1>3, <2>1, <2>2 DEF Holds, Slot
  <2> HIDE DEF info, n
  <2>4. /\ Bal(s, a, n + 1) = At(info.balances, n + 1)
        /\ TNonce(s, a, n + 1) = At(info.transferNonces, n + 1)
        /\ WNonce(s, a, n + 1) = At(info.withdrawNonces, n + 1)
      BY <1>3 DEF Bal, TNonce, WNonce, info
  <2>5. /\ BalanceOf(s, a, t) = At(info.balances, n + 1)
        /\ TransferNonceOf(s, a, t) = At(info.transferNonces, n + 1)
        /\ WithdrawNonceOf(s, a, t) = At(info.withdrawNonces, n + 1)
      BY <2>2, <2>3 DEF BalanceOf, TransferNonceOf, WithdrawNonceOf, At, info, n
  <2> QED  BY <1>3, <2>3, <2>4, <2>5
<1> QED  BY <1>1, <1>2, <1>3

-----------------------------------------------------------------------------
(* Encoding *)


(* Unpack finds a name where it was packed, when no name comes twice.      *)
LEMMA Position ==
    ASSUME NEW args, NEW k \in DOMAIN args,
           \A i, j \in DOMAIN args : args[i] = args[j] => i = j
    PROVE  (CHOOSE i \in DOMAIN args : args[i] = args[k]) = k
OBVIOUS

(* The first word tells the type.                                          *)
LEMMA TypeRead ==
    ASSUME NEW tr, Encodable(tr)
    PROVE  /\ TypeNames[TypeNumber(tr.type) + 1] = tr.type
           /\ tr.type \in {"createAndDeposit", "deposit", "withdraw",
                           "createAndTransfer", "transfer"}
<1>1. PICK i \in DOMAIN TypeNames : TypeNames[i] = tr.type
    BY DEF Encodable
<1>2. \A j, k \in DOMAIN TypeNames : TypeNames[j] = TypeNames[k] => j = k
    BY DEF TypeNames
<1>3. (CHOOSE j \in DOMAIN TypeNames : TypeNames[j] = tr.type) = i
    BY <1>1, <1>2, Position
<1>4. i \in 1..5
    BY DEF TypeNames
<1>5. (i - 1) + 1 = i
    BY <1>4
<1>6. TypeNames[TypeNumber(tr.type) + 1] = tr.type
    BY <1>1, <1>3, <1>5 DEF TypeNumber
<1>7. tr.type \in {"createAndDeposit", "deposit", "withdraw", "createAndTransfer", "transfer"}
    BY <1>1, <1>4 DEF TypeNames
<1> QED  BY <1>6, <1>7

(* A word is read from where its field was written.                        *)
LEMMA WordRead ==
    ASSUME NEW tr, NEW args, args = Packed(tr.type),
           \A i, j \in DOMAIN args : args[i] = args[j] => i = j,
           NEW k \in DOMAIN args
    PROVE  Serialize(tr)[CHOOSE i \in DOMAIN args : args[i] = args[k]] = Field(tr, args[k])
BY Position DEF Serialize

(* DeserializeTransition undoes Serialize: the two lists of each type      *)
(* agree about every field.                                                *)
THEOREM RoundTrip ==
    ASSUME NEW tr, Encodable(tr)
    PROVE  DeserializeTransition(Serialize(tr)) = tr
<1> DEFINE data == Serialize(tr)
           args == Packed(tr.type)
           Word(n) == data[CHOOSE i \in DOMAIN args : args[i] = n]
           back == DeserializeTransition(data)
<1>1. tr.type \in {"createAndDeposit", "deposit", "withdraw", "createAndTransfer", "transfer"}
    BY TypeRead
<1>2. /\ args[1] = "transitionType" /\ 1 \in DOMAIN args
      /\ args = Arguments(tr.type)
      /\ \A i, j \in DOMAIN args : args[i] = args[j] => i = j
  <2>1. CASE tr.type = "createAndDeposit"
      BY <2>1 DEF Packed, Arguments, CreateAndDepositPacked, CreateAndDepositArguments
  <2>2. CASE tr.type = "deposit"
      BY <2>2 DEF Packed, Arguments, DepositPacked, DepositArguments
  <2>3. CASE tr.type = "withdraw"
      BY <2>3 DEF Packed, Arguments, WithdrawPacked, WithdrawArguments
  <2>4. CASE tr.type = "createAndTransfer"
      BY <2>4 DEF Packed, Arguments, CreateAndTransferPacked, CreateAndTransferArguments
  <2>5. CASE tr.type = "transfer"
      BY <2>5 DEF Packed, Arguments, TransferPacked, TransferArguments
  <2> QED  BY <1>1, <2>1, <2>2, <2>3, <2>4, <2>5
<1>3. data[1] = TypeNumber(tr.type)
    BY <1>2 DEF Serialize, Field
<1>4. TypeNames[data[1] + 1] = tr.type
    BY <1>3, TypeRead
<1>5. ASSUME NEW n, NEW k \in DOMAIN args, args[k] = n
      PROVE  Word(n) = Field(tr, n)
    BY <1>2, <1>5, WordRead
<1> HIDE DEF data, args
<1>6. back = [type  |-> tr.type,
              root  |-> Word("stateRoot"),
              slots |-> IF tr.type \in {"createAndTransfer", "transfer"}
                        THEN <<Word("senderSlotIndex"), Word("recipientSlotIndex")>>
                        ELSE <<Word("accountSlotIndex")>>,
              names |-> CASE tr.type = "createAndDeposit"  -> {Word("account")}
                          [] tr.type = "createAndTransfer" -> {Word("recipient")}
                          [] OTHER -> {},
              tokenIndex |-> Word("tokenIndex"),
              amount |-> Word("amount"),
              nonce  |-> IF tr.type \in {"createAndDeposit", "deposit"} THEN 0 ELSE Word("nonce")]
    BY <1>2, <1>4 DEF DeserializeTransition
<1> HIDE DEF Word, back
<1>7. CASE tr.type = "createAndDeposit"
  <2>1. args = CreateAndDepositPacked
      BY <1>7 DEF args, Packed
  <2>2. /\ Word("stateRoot") = Field(tr, "stateRoot")
        /\ Word("accountSlotIndex") = Field(tr, "accountSlotIndex")
        /\ Word("account") = Field(tr, "account")
        /\ Word("tokenIndex") = Field(tr, "tokenIndex")
        /\ Word("amount") = Field(tr, "amount")
      BY <1>5, <2>1 DEF CreateAndDepositPacked
  <2>3. tr.slots = <<tr.slots[1]>> /\ tr.names = {CHOOSE a \in tr.names : TRUE} /\ tr.nonce = 0
      BY <1>7 DEF Encodable
  <2> QED  BY <1>6, <1>7, <2>2, <2>3 DEF Field, Encodable, back, data
<1>8. CASE tr.type = "deposit"
  <2>1. args = DepositPacked
      BY <1>8 DEF args, Packed
  <2>2. /\ Word("stateRoot") = Field(tr, "stateRoot")
        /\ Word("accountSlotIndex") = Field(tr, "accountSlotIndex")
        /\ Word("tokenIndex") = Field(tr, "tokenIndex")
        /\ Word("amount") = Field(tr, "amount")
      BY <1>5, <2>1 DEF DepositPacked
  <2>3. tr.slots = <<tr.slots[1]>> /\ tr.names = {} /\ tr.nonce = 0
      BY <1>8 DEF Encodable
  <2> QED  BY <1>6, <1>8, <2>2, <2>3 DEF Field, Encodable, back, data
<1>9. CASE tr.type = "withdraw"
  <2>1. args = WithdrawPacked
      BY <1>9 DEF args, Packed
  <2>2. /\ Word("stateRoot") = Field(tr, "stateRoot")
        /\ Word("accountSlotIndex") = Field(tr, "accountSlotIndex")
        /\ Word("tokenIndex") = Field(tr, "tokenIndex")
        /\ Word("amount") = Field(tr, "amount")
        /\ Word("nonce") = Field(tr, "nonce")
      BY <1>5, <2>1 DEF WithdrawPacked
  <2>3. tr.slots = <<tr.slots[1]>> /\ tr.names = {}
      BY <1>9 DEF Encodable
  <2> QED  BY <1>6, <1>9, <2>2, <2>3 DEF Field, Encodable, back, data
<1>10. CASE tr.type = "createAndTransfer"
  <2>1. args = CreateAndTransferPacked
      BY <1>10 DEF args, Packed
  <2>2. /\ Word("stateRoot") = Field(tr, "stateRoot")
        /\ Word("senderSlotIndex") = Field(tr, "senderSlotIndex")
        /\ Word("recipientSlotIndex") = Field(tr, "recipientSlotIndex")
        /\ Word("recipient") = Field(tr, "recipient")
        /\ Word("tokenIndex") = Field(tr, "tokenIndex")
        /\ Word("amount") = Field(tr, "amount")
        /\ Word("nonce") = Field(tr, "nonce")
      BY <1>5, <2>1 DEF CreateAndTransferPacked
  <2>3. tr.slots = <<tr.slots[1], tr.slots[2]>> /\ tr.names = {CHOOSE a \in tr.names : TRUE}
      BY <1>10 DEF Encodable
  <2> QED  BY <1>6, <1>10, <2>2, <2>3 DEF Field, Encodable, back, data
<1>11. CASE tr.type = "transfer"
  <2>1. args = TransferPacked
      BY <1>11 DEF args, Packed
  <2>2. /\ Word("stateRoot") = Field(tr, "stateRoot")
        /\ Word("senderSlotIndex") = Field(tr, "senderSlotIndex")
        /\ Word("recipientSlotIndex") = Field(tr, "recipientSlotIndex")
        /\ Word("tokenIndex") = Field(tr, "tokenIndex")
        /\ Word("amount") = Field(tr, "amount")
        /\ Word("nonce") = Field(tr, "nonce")
      BY <1>5, <2>1 DEF TransferPacked
  <2>3. tr.slots = <<tr.slots[1], tr.slots[2]>> /\ tr.names = {}
      BY <1>11 DEF Encodable
  <2> QED  BY <1>6, <1>11, <2>2, <2>3 DEF Field, Encodable, back, data
<1> QED  BY <1>1, <1>7, <1>8, <1>9, <1>10, <1>11

(* A block is written to the chain and to a table, read back and written   *)
(* again, and is still the same.                                           *)
LEMMA BlockRoundTrip ==
    ASSUME NEW b, b = [number |-> b.number, transitions |-> b.transitions],
           NEW S, b.transitions \in Seq(S), \A i \in DOMAIN b.transitions : Encodable(b.transitions[i])
    PROVE  /\ DeserializeBlock(SerializeBlock(b)) = b
           /\ SerializeBlock(b).number = b.number
           /\ Len(SerializeBlock(b).transitions) = Len(b.transitions)
<1> DEFINE data == SerializeBlock(b)
           content == b.transitions
<1>1. content = [i \in DOMAIN content |-> content[i]]
    OBVIOUS
<1>2. /\ data.number = b.number
      /\ data.transitions = [i \in DOMAIN content |-> Serialize(content[i])]
    BY DEF SerializeBlock
<1>3. DOMAIN content = 1..Len(content) /\ Len(content) \in Nat
    OBVIOUS
<1>4. Len(data.transitions) = Len(content)
    BY <1>2, <1>3
<1> HIDE DEF data
<1>5. [i \in DOMAIN data.transitions |-> DeserializeTransition(data.transitions[i])] = content
    BY <1>1, <1>2, RoundTrip
<1>6. DeserializeBlock(data) = [number |-> b.number, transitions |-> content]
    BY <1>2, <1>5 DEF DeserializeBlock
<1> QED  BY <1>2, <1>4, <1>6 DEF data
=============================================================================
