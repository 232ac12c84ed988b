-------------------------- MODULE SequencerProofs ---------------------------
(***************************************************************************)
(* What holds of Sequencer for every set of accounts, tokens and amounts,  *)
(* every size of the queue, every failure of the environment and without   *)
(* bound on the events, watchers and restarts.                             *)
(***************************************************************************)
EXTENDS Sequencer, OperatorProofs

-----------------------------------------------------------------------------
(* What is of a kind in a sequence of transactions *)

Matching(txs, t, kind) ==
    { x \in Txs : IsOf(x, t, kind) /\ \E i \in DOMAIN txs : x = txs[i] }

(* f holds what is of the kind in every beginning of the sequence.         *)
Filters(f, txs, t, kind) ==
    /\ f[0] = <<>>
    /\ \A n \in 1..Len(txs) : f[n] = Kept(f[n - 1], txs[n], t, kind)

(* OfKind filters the sequence from the left, and what it returns was in   *)
(* it and is of the kind.                                                  *)
LEMMA OfKindUnfolds ==
    ASSUME NEW txs, txs \in Seq(Txs), NEW t, NEW kind
    PROVE  \E f : /\ Filters(f, txs, t, kind)
                  /\ OfKind(txs, t, kind) = f[Len(txs)]
                  /\ f[Len(txs)] \in Seq(Matching(txs, t, kind))
<1> DEFINE N == Len(txs)
           V == Seq(Matching(txs, t, kind))
           step == [n \in 1..N |-> [s \in V |-> Kept(s, txs[n], t, kind)]]
           rec(f) == [n \in 0..N |->
                        IF n = 0 THEN <<>> ELSE Kept(f[n - 1], txs[n], t, kind)]
           Is(f) == f = rec(f)
<1>1. N \in Nat /\ \A n \in 1..N : n \in DOMAIN txs /\ txs[n] \in Txs
  OBVIOUS
<1>2. step \in [1..N -> [V -> V]]
  <2> SUFFICES ASSUME NEW n \in 1..N, NEW s \in V, IsOf(txs[n], t, kind)
               PROVE  Append(s, txs[n]) \in V
    BY DEF Kept
  <2>1. txs[n] \in Matching(txs, t, kind)
    BY <1>1 DEF Matching
  <2>. QED  BY <2>1
<1>3. <<>> \in V
  OBVIOUS
<1>4. PICK g \in [0..N -> V] : g[0] = <<>> /\ \A n \in 1..N : g[n] = step[n][g[n - 1]]
  <2> DEFINE base == <<>>
  <2>1. base \in V
    BY <1>3
  <2> HIDE DEF N, V, step, base
  <2>2. \E g \in [0..N -> V] : g[0] = base /\ \A n \in 1..N : g[n] = step[n][g[n - 1]]
    BY <1>1, <1>2, <2>1, RecursionExists, SMTT(30)
  <2>. QED  BY <2>2 DEF base
<1>5. \A n \in 1..N : n - 1 \in 0..N /\ g[n - 1] \in V
  BY <1>1
<1>6. \A n \in 1..N : g[n] = Kept(g[n - 1], txs[n], t, kind)
  BY <1>4, <1>5
<1>7. Is(g)
  <2> HIDE DEF V, step
  <2>1. ASSUME NEW n \in 0..N PROVE g[n] = rec(g)[n]
    <3>1. CASE n = 0
      BY <1>4, <3>1
    <3>2. CASE n # 0
      <4>1. n \in 1..N
        BY <1>1, <3>2
      <4>. QED  BY <1>6, <3>2, <4>1
    <3>. QED  BY <3>1, <3>2
  <2>2. g = [n \in 0..N |-> g[n]]
    BY <1>4
  <2>. QED  BY <2>1, <2>2
<1>8. \A f : Is(f) => f = g
  <2> SUFFICES ASSUME NEW f, Is(f) PROVE f = g
    BY ZenonT(10)
  <2> HIDE DEF V, step
  <2> DEFINE S == { n \in 0..N : f[n] = g[n] }
  <2>1. 0 \in S
    BY <1>1, <1>4
  <2>2. ASSUME NEW n \in 0..(N - 1), n \in S PROVE n + 1 \in S
    <3>1. n + 1 \in 1..N /\ n + 1 \in 0..N /\ n + 1 # 0 /\ (n + 1) - 1 = n
      BY <1>1
    <3>2. f[n + 1] = Kept(f[n], txs[n + 1], t, kind)
      BY <3>1
    <3>3. g[n + 1] = Kept(g[n], txs[n + 1], t, kind)
      BY <1>6, <3>1
    <3>4. f[n] = g[n]
      BY <2>2
    <3>5. f[n + 1] = g[n + 1]
      BY <3>2, <3>3, <3>4
    <3>. QED  BY <3>1, <3>5
  <2>3. \A n \in 0..N : n \in S
    <3> HIDE DEF S
    <3>. QED  BY <1>1, <2>1, <2>2, InductionTo
  <2>4. DOMAIN f = 0..N /\ f = [n \in 0..N |-> f[n]]
    OBVIOUS
  <2>. QED  BY <1>4, <2>3, <2>4
<1>9. OfKind(txs, t, kind) = g[N]
  <2>1. OfKind(txs, t, kind) = (CHOOSE f : Is(f))[N]
    BY DEF OfKind
  <2> HIDE DEF Is
  <2>. QED  BY <1>7, <1>8, <2>1
<1>10. g[N] \in Seq(Matching(txs, t, kind))
  BY <1>1, <1>4
<1>11. Filters(g, txs, t, kind)
  BY <1>4, <1>6 DEF Filters
<1>. QED  BY <1>9, <1>10, <1>11

(* Its elements are of the kind and from the sequence.                     *)
LEMMA OfKindElements ==
    ASSUME NEW txs, txs \in Seq(Txs), NEW t, NEW kind
    PROVE  /\ OfKind(txs, t, kind) \in Seq(Txs)
           /\ \A i \in DOMAIN OfKind(txs, t, kind) :
                 /\ IsOf(OfKind(txs, t, kind)[i], t, kind)
                 /\ \E j \in DOMAIN txs : OfKind(txs, t, kind)[i] = txs[j]
<1> DEFINE of == OfKind(txs, t, kind)
           M == Matching(txs, t, kind)
<1>1. of \in Seq(M)
  BY OfKindUnfolds
<1>2. \A x \in M : x \in Txs /\ IsOf(x, t, kind) /\ \E j \in DOMAIN txs : x = txs[j]
  BY DEF Matching
<1> HIDE DEF M, of
<1>3. \A i \in DOMAIN of : of[i] \in M
  BY <1>1
<1>4. of \in Seq(Txs)
  BY <1>1, <1>2
<1>. QED  BY <1>2, <1>3, <1>4 DEF of

(* Nothing is of any kind in an empty sequence.                            *)
LEMMA OfKindEmpty ==
    ASSUME NEW t, NEW kind
    PROVE  OfKind(<<>>, t, kind) = <<>>
<1> DEFINE empty == <<>>
<1>1. empty \in Seq(Txs) /\ Len(empty) = 0
  OBVIOUS
<1> HIDE DEF empty
<1>2. PICK f : Filters(f, empty, t, kind) /\ OfKind(empty, t, kind) = f[0]
  BY <1>1, OfKindUnfolds
<1>3. OfKind(empty, t, kind) = <<>>
  BY <1>2 DEF Filters
<1>. QED  BY <1>3 DEF empty

(* When no element is of the kind nothing is left.                         *)
LEMMA OfKindNone ==
    ASSUME NEW txs, txs \in Seq(Txs), NEW t, NEW kind,
           \A i \in DOMAIN txs : ~IsOf(txs[i], t, kind)
    PROVE  OfKind(txs, t, kind) = <<>>
<1> DEFINE of == OfKind(txs, t, kind)
<1>1. of \in Seq(Txs) /\ \A i \in DOMAIN of : FALSE
  BY OfKindElements
<1> HIDE DEF of
<1>2. 1 \notin DOMAIN of
  BY <1>1
<1>3. Len(of) \in Nat /\ DOMAIN of = 1..Len(of)
  BY <1>1
<1>4. Len(of) = 0
  BY <1>2, <1>3
<1>5. of = <<>>
  BY <1>1, <1>4
<1>. QED  BY <1>5 DEF of

(* The last element is kept or dropped.                                    *)
LEMMA OfKindAppend ==
    ASSUME NEW txs, txs \in Seq(Txs), NEW x \in Txs, NEW t, NEW kind
    PROVE  OfKind(Append(txs, x), t, kind) = Kept(OfKind(txs, t, kind), x, t, kind)
<1> DEFINE N == Len(txs)
           more == Append(txs, x)
<1>1. /\ N \in Nat /\ Len(more) = N + 1 /\ more \in Seq(Txs)
      /\ more[N + 1] = x /\ \A n \in 1..N : more[n] = txs[n]
  OBVIOUS
<1>3. PICK f : Filters(f, txs, t, kind) /\ OfKind(txs, t, kind) = f[N]
  BY OfKindUnfolds
<1> HIDE DEF more
<1>4. PICK g : Filters(g, more, t, kind) /\ OfKind(more, t, kind) = g[N + 1]
  BY <1>1, OfKindUnfolds
<1>5. /\ f[0] = <<>> /\ \A n \in 1..N : f[n] = Kept(f[n - 1], txs[n], t, kind)
      /\ g[0] = <<>> /\ \A n \in 1..(N + 1) : g[n] = Kept(g[n - 1], more[n], t, kind)
  BY <1>1, <1>3, <1>4 DEF Filters
<1>6. f[N] = g[N]
  <2> DEFINE S == { n \in 0..N : f[n] = g[n] }
  <2>1. 0 \in S
    BY <1>1, <1>5
  <2>2. ASSUME NEW n \in 0..(N - 1), n \in S PROVE n + 1 \in S
    <3>1. /\ n + 1 \in 1..N /\ n + 1 \in 1..(N + 1) /\ n + 1 \in 0..N
          /\ (n + 1) - 1 = n /\ more[n + 1] = txs[n + 1]
      BY <1>1
    <3>2. f[n + 1] = Kept(f[n], txs[n + 1], t, kind)
      BY <1>5, <3>1
    <3>3. g[n + 1] = Kept(g[n], txs[n + 1], t, kind)
      BY <1>1, <1>5, <3>1
    <3>4. f[n] = g[n]
      BY <2>2
    <3>5. f[n + 1] = g[n + 1]
      BY <3>2, <3>3, <3>4
    <3>. QED  BY <3>1, <3>5
  <2> HIDE DEF S
  <2>3. \A n \in 0..N : n \in S
    BY <1>1, <2>1, <2>2, InductionTo
  <2>. QED  BY <1>1, <2>3 DEF S
<1>7. g[N + 1] = Kept(g[N], x, t, kind)
  <2>1. N + 1 \in 1..(N + 1) /\ (N + 1) - 1 = N
    BY <1>1
  <2>. QED  BY <1>1, <1>5, <2>1
<1>8. OfKind(more, t, kind) = Kept(OfKind(txs, t, kind), x, t, kind)
  BY <1>3, <1>4, <1>6, <1>7
<1>. QED  BY <1>8 DEF more

-----------------------------------------------------------------------------
(* The inductive invariant of the node: types, the tables, and the nonces  *)
(* used up, each of which the tables are past.                             *)

SideTables == [Accounts -> [Tokens -> Nat]]

SideTyped ==
    /\ DOMAIN side = {"balance", "transferNonce", "withdrawNonce"}
    /\ side.balance \in SideTables
    /\ side.transferNonce \in SideTables
    /\ side.withdrawNonce \in SideTables

Watchers ==
    [token : Tokens, subscribed : 0..3, next : [KindSet -> Nat],
     open : SUBSET KindSet, held : Seq(Txs)]

TypeInv ==
    /\ SideTyped
    /\ emitted \in Seq(Txs)
    /\ mapped \subseteq Tokens
    /\ watchers \in Seq(Watchers)
    /\ queue \in Seq(Txs)
    /\ processed \in Seq([tx : Txs, outcome : {"ok", "rejected", "panic"}])
    /\ faults \subseteq AllFailures

SpendOf(tx) ==
    [kind |-> tx.type, account |-> Spender(tx), token |-> tx.token, nonce |-> tx.nonce]

Spends ==
    { SpendOf(processed[i].tx) :
        i \in { j \in DOMAIN processed :
                    processed[j].outcome = "ok" /\ IsSpend(processed[j].tx) } }

IInv == TypeInv /\ TablesInv(st, TokenOrder, Spends) /\ SpendsOnce

(* One watcher is replaced.                                                *)
LEMMA Replaced ==
    ASSUME NEW S, NEW s, s \in Seq(S), NEW w \in DOMAIN s, NEW x \in S
    PROVE  LET r == [s EXCEPT ![w] = x]
           IN  /\ r \in Seq(S)
               /\ DOMAIN r = DOMAIN s
               /\ Len(r) = Len(s)
               /\ r[w] = x
               /\ \A v \in DOMAIN s : v # w => r[v] = s[v]
OBVIOUS

WatcherOf(t, subscribed, next, open, held) ==
    [token |-> t, subscribed |-> subscribed, next |-> next, open |-> open, held |-> held]

(* A watcher is its fields.                                                *)
LEMMA WatcherRecord ==
    ASSUME NEW w \in Watchers
    PROVE  w = WatcherOf(w.token, w.subscribed, w.next, w.open, w.held)
BY DEF Watchers, WatcherOf

(* A transaction of the sidechain is a transaction.                        *)
LEMMA TxsTyped ==
    ASSUME NEW a \in Accounts, NEW r \in Accounts, NEW t \in Tokens, NEW n \in Amounts,
           NEW c \in Nat
    PROVE  /\ DepositTx(a, t, n) \in Txs
           /\ WithdrawTx(a, t, n, c) \in Txs
           /\ TransferTx(a, r, t, n, c) \in Txs
<1>1. n \in Nat
  BY SequencerAssumption
<1>2. DepositTx(a, t, n) \in DepositTxs
  BY <1>1 DEF DepositTx, DepositTxs
<1>3. WithdrawTx(a, t, n, c) \in WithdrawTxs
  BY <1>1 DEF WithdrawTx, WithdrawTxs
<1>4. TransferTx(a, r, t, n, c) \in TransferTxs
  BY <1>1 DEF TransferTx, TransferTxs
<1>. QED  BY <1>2, <1>3, <1>4 DEF Txs

(* A step of the sidechain keeps its types and emits a transaction.        *)
LEMMA SidechainEmits ==
    ASSUME IInv, SidechainNext
    PROVE  SideTyped' /\ \E tx \in Txs : Emit(tx)
<1>1. PICK a \in Accounts, t \in Tokens, n \in Amounts :
         ERC20Deposit(a, t, n) \/ ERC20Withdraw(a, t, n)
         \/ \E r \in Accounts : ERC20Transfer(a, r, t, n)
  BY DEF SidechainNext
<1>2. n \in Nat
  BY SequencerAssumption
<1>3. SideTyped
  BY DEF IInv, TypeInv
<1>4. side.transferNonce[a][t] \in Nat /\ side.withdrawNonce[a][t] \in Nat
  BY <1>3 DEF SideTyped, SideTables
<1>5. SideTyped' /\ \E tx \in Txs : Emit(tx)
  <2>1. CASE ERC20Deposit(a, t, n)
    BY <1>2, <1>3, <1>4, <2>1, TxsTyped DEF ERC20Deposit, SideTyped, SideTables
  <2>2. CASE ERC20Withdraw(a, t, n)
    <3>1. side.balance[a][t] - n \in Nat
      BY <1>2, <1>3, <2>2 DEF ERC20Withdraw, SideTyped, SideTables
    <3>2. SideTyped'
      BY <1>2, <1>3, <1>4, <2>2, <3>1 DEF ERC20Withdraw, SideTyped, SideTables
    <3>. QED  BY <1>4, <2>2, <3>2, TxsTyped DEF ERC20Withdraw
  <2>3. ASSUME NEW r \in Accounts, ERC20Transfer(a, r, t, n)
        PROVE  SideTyped' /\ \E tx \in Txs : Emit(tx)
    <3>1. side.balance[a][t] - n \in Nat
      BY <1>2, <1>3, <2>3 DEF ERC20Transfer, SideTyped, SideTables
    <3> DEFINE debited == [side.balance EXCEPT ![a][t] = @ - n]
               credited == [debited EXCEPT ![r][t] = @ + n]
               counted == [side.transferNonce EXCEPT ![a][t] = @ + 1]
    <3>2. debited \in SideTables /\ counted \in SideTables
      BY <1>3, <1>4, <3>1 DEF SideTyped, SideTables
    <3>3. debited[r][t] \in Nat
      BY <3>2 DEF SideTables
    <3> HIDE DEF debited, counted
    <3>4. credited \in SideTables
      BY <1>2, <3>2, <3>3 DEF SideTables
    <3> HIDE DEF credited
    <3>5. /\ DOMAIN side' = DOMAIN side
          /\ side'.balance = credited
          /\ side'.transferNonce = counted
          /\ side'.withdrawNonce = side.withdrawNonce
      BY <1>3, <2>3 DEF ERC20Transfer, SideTyped, debited, credited, counted
    <3>6. SideTyped'
      BY <1>3, <3>2, <3>4, <3>5 DEF SideTyped
    <3>. QED  BY <1>4, <2>3, <3>6, TxsTyped DEF ERC20Transfer
  <2>. QED  BY <1>1, <2>1, <2>2, <2>3
<1>. QED  BY <1>5

(* A step of the sidechain keeps the invariant.                            *)
LEMMA SidechainIInv ==
    ASSUME IInv, SidechainNext
    PROVE  IInv'
<1>1. PICK tx \in Txs : Emit(tx)
  BY SidechainEmits
<1>2. TypeInv'
  BY <1>1, SidechainEmits DEF IInv, TypeInv, Emit, AllFailures
<1>3. UNCHANGED <<st, processed>>
  BY <1>1 DEF Emit
<1>. QED  BY <1>2, <1>3 DEF IInv, Spends, SpendsOnce

(* So does the start of a watcher.                                         *)
LEMMA WatchIInv ==
    ASSUME IInv, NEW t \in Tokens, Watch(t)
    PROVE  IInv'
<1>1. NewWatcher(t) \in Watchers
  BY DEF NewWatcher, Watchers
<1>2. watchers' \in Seq(Watchers) /\ mapped' \subseteq Tokens
  BY <1>1 DEF IInv, TypeInv, Watch
<1>3. faults' \subseteq AllFailures
  BY DEF IInv, TypeInv, Watch, AllFailures
<1>4. UNCHANGED <<side, emitted, queue, st, processed>>
  BY DEF Watch
<1>5. TypeInv'
  BY <1>2, <1>3, <1>4 DEF IInv, TypeInv, SideTyped
<1>. QED  BY <1>4, <1>5 DEF IInv, Spends, SpendsOnce

Taken(old, new, kind) ==
    /\ new.token = old.token /\ new.subscribed = old.subscribed
    /\ new.held = <<Stream(old.token, kind)[old.next[kind] + 1]>>
    /\ \A k \in KindSet : new.next[k] = IF k = kind THEN old.next[k] + 1 ELSE old.next[k]

(* What the steps of a watcher do to its record.                           *)
LEMMA WatcherSteps ==
    ASSUME TypeInv, NEW w \in DOMAIN watchers,
           NEW old, old = watchers[w], NEW new, new = watchers'[w]
    PROVE  /\ old \in Watchers
           /\ Subscribe(w) =>
                 /\ new.token = old.token /\ new.held = old.held
                 /\ old.subscribed # 3 /\ new.subscribed = old.subscribed + 1
                 /\ \A k \in KindSet :
                       new.next[k] = IF k = Kinds[old.subscribed + 1]
                                     THEN Len(Stream(old.token, k)) ELSE old.next[k]
           /\ \A kind \in KindSet : Take(w, kind) => Taken(old, new, kind)
           /\ Enqueue(w) \/ (\E kind \in KindSet : Close(w, kind)) =>
                 /\ new.token = old.token /\ new.subscribed = old.subscribed
                 /\ new.next = old.next
                 /\ new.held = IF Enqueue(w) THEN <<>> ELSE old.held
           /\ Watcher(w) \/ (\E kind \in KindSet : Close(w, kind)) =>
                 /\ DOMAIN watchers' = DOMAIN watchers
                 /\ Len(watchers') = Len(watchers)
                 /\ \A v \in DOMAIN watchers : v # w => watchers'[v] = watchers[v]
                 /\ new \in Watchers
                 /\ watchers' \in Seq(Watchers)
<1>0. watchers \in Seq(Watchers) /\ old \in Watchers /\ emitted \in Seq(Txs)
  BY DEF TypeInv
<1>1. /\ watchers \in Seq(Watchers) /\ old \in Watchers /\ emitted \in Seq(Txs)
      /\ old.subscribed \in 0..3 /\ old.next \in [KindSet -> Nat]
  BY <1>0 DEF Watchers
<1>r. old = WatcherOf(old.token, old.subscribed, old.next, old.open, old.held)
  BY <1>1, WatcherRecord
<1>2. ASSUME NEW x \in Watchers, watchers' = [watchers EXCEPT ![w] = x]
      PROVE  /\ new = x
             /\ DOMAIN watchers' = DOMAIN watchers
             /\ Len(watchers') = Len(watchers)
             /\ \A v \in DOMAIN watchers : v # w => watchers'[v] = watchers[v]
             /\ new \in Watchers
             /\ watchers' \in Seq(Watchers)
  BY <1>1, <1>2, Replaced
<1>3. ASSUME NEW t \in Tokens, NEW s \in 0..3, NEW n \in [KindSet -> Nat],
             NEW o \in SUBSET KindSet, NEW h \in Seq(Txs)
      PROVE  WatcherOf(t, s, n, o, h) \in Watchers
  BY DEF WatcherOf, Watchers
<1>4. \A kind : Stream(old.token, kind) \in Seq(Txs)
  BY <1>1, OfKindElements DEF Stream
<1>5. /\ old.token \in Tokens /\ old.open \in SUBSET KindSet /\ old.held \in Seq(Txs)
      /\ <<>> \in Seq(Txs)
  BY <1>1 DEF Watchers
<1>6. ASSUME Subscribe(w)
      PROVE  LET kind == Kinds[old.subscribed + 1]
                 x == WatcherOf(old.token, old.subscribed + 1,
                               [old.next EXCEPT ![kind] = Len(Stream(old.token, kind))],
                               old.open, old.held)
             IN  x \in Watchers /\ watchers' = [watchers EXCEPT ![w] = x]
  <2> DEFINE kind == Kinds[old.subscribed + 1]
             n == Len(Stream(old.token, kind))
  <2>1. n \in Nat
    BY <1>4
  <2>2. old.subscribed \in 0..2
    BY <1>1, <1>6 DEF Subscribe, Looping, Kinds
  <2>3. kind \in KindSet
    BY <2>2 DEF Kinds, KindSet
  <2>4. watchers' = [watchers EXCEPT ![w] =
                        [old EXCEPT !.subscribed = @ + 1, !.next[kind] = n]]
    BY <1>6 DEF Subscribe
  <2> HIDE DEF kind, n
  <2>5. [old EXCEPT !.subscribed = @ + 1, !.next[kind] = n]
           = WatcherOf(old.token, old.subscribed + 1, [old.next EXCEPT ![kind] = n],
                       old.open, old.held)
    <3> DEFINE u == [old EXCEPT !.subscribed = @ + 1]
               x == [old.next EXCEPT ![kind] = n]
    <3>1. u = WatcherOf(old.token, old.subscribed + 1, old.next, old.open, old.held)
      BY <1>r DEF WatcherOf
    <3>2. [old EXCEPT !.subscribed = @ + 1, !.next[kind] = n]
             = [u EXCEPT !.next = [u.next EXCEPT ![kind] = n]]
      OBVIOUS
    <3> HIDE DEF u
    <3>3. u.next = old.next
      BY <3>1 DEF WatcherOf
    <3> HIDE DEF x
    <3>4. [u EXCEPT !.next = x] = WatcherOf(old.token, old.subscribed + 1, x, old.open, old.held)
      BY <3>1 DEF WatcherOf
    <3>. QED  BY <3>2, <3>3, <3>4 DEF x
  <2>6. old.subscribed + 1 \in 0..3 /\ [old.next EXCEPT ![kind] = n] \in [KindSet -> Nat]
    <3>1. old.subscribed + 1 \in 0..3
      BY <2>2
    <3>2. [old.next EXCEPT ![kind] = n] \in [KindSet -> Nat]
      BY <1>1, <2>1
    <3>. QED  BY <3>1, <3>2
  <2>7. WatcherOf(old.token, old.subscribed + 1, [old.next EXCEPT ![kind] = n],
                  old.open, old.held) \in Watchers
    BY <1>3, <1>5, <2>6
  <2>. QED  BY <2>4, <2>5, <2>7 DEF n, kind
<1>7. ASSUME NEW kind \in KindSet, Take(w, kind)
      PROVE  LET x == WatcherOf(old.token, old.subscribed,
                                [old.next EXCEPT ![kind] = @ + 1], old.open,
                                <<Stream(old.token, kind)[old.next[kind] + 1]>>)
             IN  x \in Watchers /\ watchers' = [watchers EXCEPT ![w] = x]
  <2> DEFINE stream == Stream(old.token, kind)
             h == <<stream[old.next[kind] + 1]>>
  <2>1. old.next[kind] < Len(stream) /\ old.next[kind] \in Nat /\ stream \in Seq(Txs)
    BY <1>1, <1>4, <1>7 DEF Take
  <2>2. watchers' = [watchers EXCEPT ![w] = [old EXCEPT !.next[kind] = @ + 1, !.held = h]]
    BY <1>7 DEF Take
  <2> HIDE DEF stream
  <2>3. stream[old.next[kind] + 1] \in Txs
    BY <2>1
  <2>4. h \in Seq(Txs)
    BY <2>3
  <2> HIDE DEF h
  <2>5. [old EXCEPT !.next[kind] = @ + 1, !.held = h]
           = WatcherOf(old.token, old.subscribed, [old.next EXCEPT ![kind] = @ + 1], old.open, h)
    <3> DEFINE x == [old.next EXCEPT ![kind] = @ + 1]
               u == [old EXCEPT !.next = x]
    <3>1. u = WatcherOf(old.token, old.subscribed, x, old.open, old.held)
      <4> HIDE DEF x
      <4>. QED  BY <1>r DEF WatcherOf
    <3>2. [old EXCEPT !.next[kind] = @ + 1, !.held = h] = [u EXCEPT !.held = h]
      OBVIOUS
    <3> HIDE DEF u, x
    <3>3. [u EXCEPT !.held = h] = WatcherOf(old.token, old.subscribed, x, old.open, h)
      BY <3>1 DEF WatcherOf
    <3>. QED  BY <3>2, <3>3 DEF x
  <2>6. [old.next EXCEPT ![kind] = @ + 1] \in [KindSet -> Nat]
    BY <1>1, <2>1
  <2>7. WatcherOf(old.token, old.subscribed, [old.next EXCEPT ![kind] = @ + 1], old.open, h)
           \in Watchers
    BY <1>1, <1>3, <1>5, <2>4, <2>6
  <2>. QED  BY <2>2, <2>5, <2>7 DEF h, stream
<1>8. ASSUME NEW kind \in KindSet, Close(w, kind)
      PROVE  LET x == WatcherOf(old.token, old.subscribed, old.next, old.open \ {kind}, old.held)
             IN  x \in Watchers /\ watchers' = [watchers EXCEPT ![w] = x]
  <2> DEFINE o == old.open \ {kind}
  <2>1. watchers' = [watchers EXCEPT ![w] = [old EXCEPT !.open = o]]
    BY <1>8 DEF Close
  <2>2. o \in SUBSET KindSet
    BY <1>5
  <2> HIDE DEF o
  <2>3. [old EXCEPT !.open = o] = WatcherOf(old.token, old.subscribed, old.next, o, old.held)
    BY <1>r DEF WatcherOf
  <2>4. WatcherOf(old.token, old.subscribed, old.next, o, old.held) \in Watchers
    BY <1>1, <1>3, <1>5, <2>2
  <2>. QED  BY <2>1, <2>3, <2>4 DEF o
<1>9. ASSUME Enqueue(w)
      PROVE  LET x == WatcherOf(old.token, old.subscribed, old.next, old.open, <<>>)
             IN  x \in Watchers /\ watchers' = [watchers EXCEPT ![w] = x]
  <2> DEFINE h == <<>>
  <2>1. watchers' = [watchers EXCEPT ![w] = [old EXCEPT !.held = h]]
    BY <1>9 DEF Enqueue
  <2>2. h \in Seq(Txs)
    BY <1>5
  <2> HIDE DEF h
  <2>3. [old EXCEPT !.held = h] = WatcherOf(old.token, old.subscribed, old.next, old.open, h)
    BY <1>r DEF WatcherOf
  <2>4. WatcherOf(old.token, old.subscribed, old.next, old.open, h) \in Watchers
    BY <1>1, <1>3, <1>5, <2>2
  <2>. QED  BY <2>1, <2>3, <2>4 DEF h
<1>10. ASSUME NEW t, NEW s, NEW n, NEW o, NEW h, new = WatcherOf(t, s, n, o, h)
      PROVE  new.token = t /\ new.subscribed = s /\ new.next = n /\ new.held = h
  BY <1>10 DEF WatcherOf
<1>11. ASSUME Subscribe(w)
       PROVE  /\ new.token = old.token /\ new.held = old.held
              /\ old.subscribed # 3 /\ new.subscribed = old.subscribed + 1
              /\ \A k \in KindSet :
                     new.next[k] = IF k = Kinds[old.subscribed + 1]
                                   THEN Len(Stream(old.token, k)) ELSE old.next[k]
  <2> DEFINE kind == Kinds[old.subscribed + 1]
             n == [old.next EXCEPT ![kind] = Len(Stream(old.token, kind))]
  <2>1. new = WatcherOf(old.token, old.subscribed + 1, n, old.open, old.held)
    BY <1>2, <1>6, <1>11
  <2>2. \A k \in KindSet : n[k] = IF k = kind THEN Len(Stream(old.token, k)) ELSE old.next[k]
    BY <1>1
  <2>3. old.subscribed # 3
    BY <1>11 DEF Subscribe, Looping, Kinds
  <2> HIDE DEF n
  <2>. QED  BY <1>10, <2>1, <2>2, <2>3
<1>12. ASSUME NEW kind \in KindSet, Take(w, kind)
       PROVE  Taken(old, new, kind)
  <2> DEFINE n == [old.next EXCEPT ![kind] = @ + 1]
             h == <<Stream(old.token, kind)[old.next[kind] + 1]>>
  <2>1. new = WatcherOf(old.token, old.subscribed, n, old.open, h)
    BY <1>2, <1>7, <1>12
  <2>2. \A k \in KindSet : n[k] = IF k = kind THEN old.next[k] + 1 ELSE old.next[k]
    BY <1>1
  <2> HIDE DEF n, h
  <2>3. new.token = old.token /\ new.subscribed = old.subscribed /\ new.next = n /\ new.held = h
    BY <1>10, <2>1
  <2>. QED  BY <2>2, <2>3 DEF h, Taken
<1>13. ASSUME Enqueue(w)
       PROVE  /\ new.token = old.token /\ new.subscribed = old.subscribed
              /\ new.next = old.next /\ new.held = <<>>
  <2>1. new = WatcherOf(old.token, old.subscribed, old.next, old.open, <<>>)
    BY <1>2, <1>9, <1>13
  <2>. QED  BY <1>10, <2>1
<1>14. ASSUME NEW kind \in KindSet, Close(w, kind)
       PROVE  /\ new.token = old.token /\ new.subscribed = old.subscribed
              /\ new.next = old.next /\ new.held = old.held
              /\ ~Enqueue(w) \/ old.held = <<>>
  <2>1. new = WatcherOf(old.token, old.subscribed, old.next, old.open \ {kind}, old.held)
    BY <1>2, <1>8, <1>14
  <2>2. new.token = old.token /\ new.subscribed = old.subscribed
        /\ new.next = old.next /\ new.held = old.held
    BY <1>10, <2>1
  <2>3. Enqueue(w) => new.held = <<>>
    BY <1>13
  <2>. QED  BY <2>2, <2>3
<1>15. Watcher(w) \/ (\E kind \in KindSet : Close(w, kind)) =>
         /\ DOMAIN watchers' = DOMAIN watchers
         /\ Len(watchers') = Len(watchers)
         /\ \A v \in DOMAIN watchers : v # w => watchers'[v] = watchers[v]
         /\ new \in Watchers
         /\ watchers' \in Seq(Watchers)
  BY <1>2, <1>6, <1>7, <1>8, <1>9 DEF Watcher
<1>. QED  BY <1>1, <1>11, <1>12, <1>13, <1>14, <1>15

(* So do the steps of a watcher and the end of a subscription.             *)
LEMMA WatcherIInv ==
    ASSUME IInv, NEW w \in DOMAIN watchers,
           Watcher(w) \/ \E kind \in KindSet : Close(w, kind)
    PROVE  IInv'
<1>1. watchers' \in Seq(Watchers)
  BY WatcherSteps DEF IInv
<1>2. queue' \in Seq(Txs)
  <2>1. CASE Enqueue(w)
    <3>1. watchers[w] \in Watchers /\ queue \in Seq(Txs)
      BY DEF IInv, TypeInv
    <3>2. watchers[w].held \in Seq(Txs)
      BY <3>1 DEF Watchers
    <3>. QED  BY <2>1, <3>1, <3>2 DEF Enqueue
  <2>2. CASE ~Enqueue(w)
    BY <2>2 DEF Watcher, Subscribe, Take, Close, IInv, TypeInv
  <2>. QED  BY <2>1, <2>2
<1>3. UNCHANGED <<side, emitted, mapped, st, processed>>
  BY DEF Watcher, Subscribe, Take, Enqueue, Close
<1>4. faults' \subseteq AllFailures
  BY DEF Watcher, Subscribe, Take, Enqueue, Close, IInv, TypeInv, AllFailures
<1>5. TypeInv'
  BY <1>1, <1>2, <1>3, <1>4 DEF IInv, TypeInv, SideTyped
<1>. QED  BY <1>3, <1>5 DEF IInv, Spends, SpendsOnce

(* The index of a token is stored.                                         *)
LEMMA ObserveTokenIInv ==
    ASSUME IInv, NEW i \in DOMAIN TokenOrder, ObserveToken(i)
    PROVE  IInv'
<1>1. i - 1 \in Nat /\ (i - 1) + 1 = i /\ TokenOrder[i] \in Tokens /\ TokenOrder \in Seq(Tokens)
  BY SequencerAssumption
<1>2. st' = Observed(st, TokenOrder[i], i - 1) /\ ~TokenMapped(st, TokenOrder[i])
  BY DEF ObserveToken, Observed
<1>3. TablesInv(st', TokenOrder, Spends)
  BY <1>1, <1>2, ObservedKeepsTablesInv DEF IInv
<1>4. UNCHANGED <<side, emitted, mapped, watchers, queue, processed, faults>>
  BY DEF ObserveToken
<1>. QED  BY <1>3, <1>4 DEF IInv, TypeInv, SideTyped, Spends, SpendsOnce

(* What an accepted transaction does leaves no nonce behind and touches no *)
(* position without a token.                                               *)
LEMMA AppliedGrows ==
    ASSUME NEW s, Consistent(s), NEW tx \in Txs
    PROVE  Grows(ApplyTransaction(s, tx).st, s)
<1> DEFINE u == ApplyTransaction(s, tx)
           r == u.st
<1>1. Extends(r, s) /\ Consistent(r) /\ r.tokenIndex = s.tokenIndex
  BY Applied DEF Extends
<1>2. CASE u.outcome = "ok"
  <2>1. TokenMapped(s, tx.token) /\ Adds(r, s, tx)
    BY <1>2, Applied
  <2> HIDE DEF u, r
  <2> DEFINE i == Slot(s, tx.token)
  <2>2. ~Unmapped(s, i)
    BY <2>1, MappedSlot
  <2>3. ASSUME NEW a \in Accounts, NEW j \in Nat
        PROVE  /\ j # i => /\ Bal(r, a, j) = Bal(s, a, j)
                           /\ TNonce(r, a, j) = TNonce(s, a, j)
                           /\ WNonce(r, a, j) = WNonce(s, a, j)
               /\ TNonce(r, a, j) >= TNonce(s, a, j)
               /\ WNonce(r, a, j) >= WNonce(s, a, j)
    <3>1. Bal(s, a, j) \in Nat /\ TNonce(s, a, j) \in Nat /\ WNonce(s, a, j) \in Nat
      BY HoldingsTyped
    <3>. QED  BY <2>1, <3>1 DEF Adds
  <2> HIDE DEF i
  <2>4. Grows(r, s)
    BY <1>1, <2>2, <2>3, ChangeAtSlotGrows
  <2>. QED  BY <2>4 DEF r, u
<1>3. CASE u.outcome # "ok"
  <2>1. \A a : SameHoldings(r, s, a)
    BY <1>3, Applied
  <2> HIDE DEF u, r
  <2>2. Grows(r, s)
    BY <1>1, <2>1, SameHoldingsGrows
  <2>. QED  BY <2>2 DEF r, u
<1>. QED  BY <1>2, <1>3

(* A transaction is taken from the queue and applied.  When it spends, its *)
(* nonce is the one the tables were at, behind which all others are.       *)
LEMMA ProcessIInv ==
    ASSUME IInv, Process
    PROVE  IInv'
<1> DEFINE tx == Head(queue)
           u == ApplyTransaction(st, tx)
           entry == [tx |-> tx, outcome |-> u.outcome]
           n == Len(processed)
<1>1. queue \in Seq(Txs) /\ queue # <<>> /\ Consistent(st)
  BY DEF IInv, TypeInv, TablesInv, Process
<1>2. tx \in Txs /\ queue' \in Seq(Txs)
  BY <1>1 DEF Process
<1>3. /\ Extends(u.st, st)
      /\ u.outcome \in {"ok", "rejected", "panic"}
      /\ u.outcome = "ok" =>
            /\ TokenMapped(st, tx.token)
            /\ Adds(u.st, st, tx)
            /\ tx.type = "transfer" => TNonce(st, tx.sender, Slot(st, tx.token)) = tx.nonce
            /\ tx.type = "withdraw" => WNonce(st, tx.account, Slot(st, tx.token)) = tx.nonce
  BY <1>1, <1>2, Applied
<1>4. st' = u.st /\ processed' = Append(processed, entry) /\ faults' \subseteq AllFailures
  BY DEF Process, IInv, TypeInv, AllFailures
<1>5. UNCHANGED <<side, emitted, mapped, watchers, restarts>>
  BY DEF Process
<1>6. Grows(u.st, st)
  BY <1>1, <1>2, AppliedGrows
<1> HIDE DEF u
<1>7. entry \in [tx : Txs, outcome : {"ok", "rejected", "panic"}]
  BY <1>2, <1>3
<1>8. /\ n \in Nat
      /\ processed \in Seq([tx : Txs, outcome : {"ok", "rejected", "panic"}])
      /\ processed' \in Seq([tx : Txs, outcome : {"ok", "rejected", "panic"}])
      /\ DOMAIN processed = 1..n /\ DOMAIN processed' = 1..(n + 1)
      /\ processed'[n + 1] = entry
      /\ \A i \in 1..n : processed'[i] = processed[i]
  BY <1>4, <1>7 DEF IInv, TypeInv
<1>9. TypeInv'
  BY <1>2, <1>4, <1>5, <1>8 DEF IInv, TypeInv, SideTyped
<1>10. TablesInv(u.st, TokenOrder, Spends)
  BY <1>6, GrowsKeepsTablesInv DEF IInv
<1> HIDE DEF tx, entry, n
<1>11. entry.tx = tx /\ entry.outcome = u.outcome
  BY DEF entry
<1>12. CASE u.outcome = "ok" /\ IsSpend(tx)
  <2> DEFINE x == SpendOf(tx)
             i == Slot(st, tx.token)
  <2>1. /\ x.kind = tx.type /\ x.account = Spender(tx) /\ x.token = tx.token /\ x.nonce = tx.nonce
        /\ Spender(tx) \in Accounts /\ tx.nonce \in Nat
        /\ tx.type \in {"transfer", "withdraw"}
        /\ Spender(tx) = IF tx.type = "transfer" THEN tx.sender ELSE tx.account
    BY <1>2, <1>12 DEF SpendOf, Spender, IsSpend, Txs, DepositTxs, WithdrawTxs, TransferTxs
  <2>2. i \in Nat /\ tx.token \in DOMAIN st.tokenIndex /\ Slot(u.st, tx.token) = i
        /\ tx.token \in DOMAIN u.st.tokenIndex
    BY <1>1, <1>3, <1>12, SlotTyped DEF TokenMapped, Extends, Slot
  <2>3. StoredNonce(st, x) = tx.nonce
    BY <1>3, <1>12, <2>1 DEF StoredNonce
  <2>4. StoredNonce(u.st, x) = tx.nonce + 1
    <3>1. Adds(u.st, st, tx)
      BY <1>3, <1>12
    <3>2. CASE tx.type = "transfer"
      <4>1. UsesTransferNonce(tx, tx.sender)
        BY <1>12, <3>2 DEF UsesTransferNonce, IsSpend
      <4>2. TNonce(u.st, tx.sender, i) = TNonce(st, tx.sender, i) + 1
        BY <2>2, <3>1, <4>1 DEF Adds
      <4>. QED  BY <2>1, <2>2, <2>3, <3>2, <4>2 DEF StoredNonce
    <3>3. CASE tx.type = "withdraw"
      <4>1. UsesWithdrawNonce(tx, tx.account)
        BY <3>3 DEF UsesWithdrawNonce
      <4>2. WNonce(u.st, tx.account, i) = WNonce(st, tx.account, i) + 1
        BY <2>2, <3>1, <4>1 DEF Adds
      <4>. QED  BY <2>1, <2>2, <2>3, <3>3, <4>2 DEF StoredNonce
    <3>. QED  BY <2>1, <3>2, <3>3
  <2> HIDE DEF x, i
  <2>5. TablesInv(u.st, TokenOrder, Spends \cup {x})
    BY <1>10, <2>1, <2>2, <2>4, SpentJoins
  <2>6. Spends' \subseteq Spends \cup {x}
    BY <1>8, <1>11 DEF Spends, x
  <2>7. TablesInv(u.st, TokenOrder, Spends')
    BY <2>5, <2>6 DEF TablesInv, NoncesPassed
  <2>8. ASSUME NEW k \in 1..n, processed[k].outcome = "ok", IsSpend(processed[k].tx),
               processed[k].tx.type = tx.type, processed[k].tx.token = tx.token,
               Spender(processed[k].tx) = Spender(tx)
        PROVE  processed[k].tx.nonce # tx.nonce
    <3> DEFINE y == SpendOf(processed[k].tx)
    <3>1. y \in Spends
      BY <1>8, <2>8 DEF Spends
    <3>2. y.kind = x.kind /\ y.account = x.account /\ y.token = x.token
      BY <2>1, <2>8 DEF SpendOf
    <3>3. y.nonce \in Nat /\ y.nonce < StoredNonce(st, y) /\ y.nonce = processed[k].tx.nonce
      BY <3>1 DEF IInv, TablesInv, NoncesPassed, SpendOf
    <3> HIDE DEF y
    <3>4. StoredNonce(st, y) = tx.nonce
      BY <2>3, <3>2 DEF StoredNonce
    <3>. QED  BY <2>1, <3>3, <3>4
  <2>9. SpendsOnce'
    BY <1>8, <1>11, <2>8 DEF SpendsOnce, IInv
  <2>. QED  BY <1>4, <1>9, <2>7, <2>9 DEF IInv
<1>13. CASE ~(u.outcome = "ok" /\ IsSpend(tx))
  <2>1. Spends' \subseteq Spends
    BY <1>8, <1>11, <1>13 DEF Spends
  <2>2. TablesInv(u.st, TokenOrder, Spends')
    BY <1>10, <2>1 DEF TablesInv, NoncesPassed
  <2>3. SpendsOnce'
    BY <1>8, <1>11, <1>13, SMTT(30) DEF SpendsOnce, IInv
  <2>. QED  BY <1>4, <1>9, <2>2, <2>3 DEF IInv
<1>. QED  BY <1>12, <1>13

(* A restart.                                                              *)
LEMMA RestartIInv ==
    ASSUME IInv, Restart
    PROVE  IInv'
<1>1. Consistent(st) /\ TablesInv(st, TokenOrder, Spends)
  BY DEF IInv, TablesInv
<1>2. Grows(st, st)
  BY <1>1, SameHoldingsGrows DEF SameHoldings
<1>3. TablesInv(st', TokenOrder, Spends)
  BY <1>1, <1>2, ReopenedGrows, GrowsKeepsTablesInv DEF Restart
<1>4. TypeInv'
  BY DEF Restart, IInv, TypeInv, SideTyped, AllFailures
<1>5. UNCHANGED processed
  BY DEF Restart
<1>. QED  BY <1>3, <1>4, <1>5 DEF IInv, Spends, SpendsOnce

(* The initial state, with the token table empty or filled.                *)
LEMMA InitIInv == Init => IInv
<1> SUFFICES ASSUME Init PROVE IInv
  OBVIOUS
<1>1. InitState = [lastKey |-> -1, keyOf |-> EmptyTable, infoAt |-> EmptyTable,
                   tokenIndex |-> EmptyTable, trie |-> EmptyTable]
  BY DEF InitState
<1>2. DOMAIN EmptyTable = {} /\ \A S : EmptyTable \in [DOMAIN EmptyTable -> S]
  BY EmptyTableProperties
<1>3. TokenOrder \in Seq(Tokens)
  BY SequencerAssumption
<1>4. /\ DOMAIN Mapped \subseteq Tokens
      /\ \A t \in DOMAIN Mapped : Mapped[t] \in Nat /\ Mapped[t] + 1 \in DOMAIN TokenOrder
                                  /\ TokenOrder[Mapped[t] + 1] = t
  <2>1. DOMAIN Mapped = { TokenOrder[i] : i \in DOMAIN TokenOrder }
    BY DEF Mapped
  <2>2. ASSUME NEW t \in DOMAIN Mapped
        PROVE  /\ Mapped[t] \in Nat
               /\ Mapped[t] + 1 \in DOMAIN TokenOrder
               /\ TokenOrder[Mapped[t] + 1] = t
    <3> DEFINE i == CHOOSE k \in DOMAIN TokenOrder : TokenOrder[k] = t
    <3>1. i \in DOMAIN TokenOrder /\ TokenOrder[i] = t
      BY <2>1
    <3>2. Mapped[t] = i - 1
      BY <2>1 DEF Mapped
    <3> HIDE DEF i
    <3>. QED  BY <1>3, <3>1, <3>2
  <2>. QED  BY <1>3, <2>1, <2>2
<1>5. /\ DOMAIN st = {"lastKey", "keyOf", "infoAt", "tokenIndex", "trie"}
      /\ st.lastKey = -1
      /\ st.keyOf = EmptyTable
      /\ st.infoAt = EmptyTable
      /\ st.trie = EmptyTable
      /\ st.tokenIndex = EmptyTable \/ st.tokenIndex = Mapped
  BY <1>1 DEF Init
<1>6. /\ st.tokenIndex \in [DOMAIN st.tokenIndex -> Nat]
      /\ DOMAIN st.tokenIndex \subseteq Tokens
      /\ \A t \in DOMAIN st.tokenIndex : st.tokenIndex[t] + 1 \in DOMAIN TokenOrder
                                         /\ TokenOrder[st.tokenIndex[t] + 1] = t
  <2>1. CASE st.tokenIndex = EmptyTable
    BY <1>2, <2>1
  <2>2. CASE st.tokenIndex = Mapped
    <3>1. Mapped \in [DOMAIN Mapped -> Nat]
      BY <1>4 DEF Mapped
    <3>. QED  BY <1>4, <2>2, <3>1
  <2>. QED  BY <1>5, <2>1, <2>2
<1>7. 0..(-1) = {}
  OBVIOUS
<1>8. Consistent(st)
  BY <1>2, <1>5, <1>6, <1>7 DEF Consistent, TablesTyped, SlotsAssigned, TrieAgrees
<1>9. UnmappedEmpty(st)
  BY <1>2, <1>5 DEF UnmappedEmpty, EmptyAt, Bal, TNonce, WNonce, HasAccount
<1>10. Numbered(st, TokenOrder)
  BY <1>6 DEF Numbered, Slot
<1>11. processed = <<>> /\ DOMAIN processed = {}
  BY DEF Init
<1>12. Spends = {} /\ SpendsOnce
  BY <1>11 DEF Spends, SpendsOnce
<1>13. TablesInv(st, TokenOrder, Spends)
  BY <1>8, <1>9, <1>10, <1>12 DEF TablesInv, NoncesPassed
<1>14. Zero \in SideTables
  BY DEF Zero, SideTables
<1>15. SideTyped
  BY <1>14 DEF Init, SideTyped
<1>16. TypeInv
  BY <1>15 DEF Init, TypeInv, AllFailures
<1>. QED  BY <1>12, <1>13, <1>16 DEF IInv

(* Every step keeps the invariant.                                         *)
LEMMA NextIInv == IInv /\ [Next]_vars => IInv'
<1> SUFFICES ASSUME IInv, [Next]_vars PROVE IInv'
  OBVIOUS
<1>1. CASE SidechainNext
  BY <1>1, SidechainIInv
<1>2. ASSUME NEW i \in DOMAIN TokenOrder, ObserveToken(i) PROVE IInv'
  BY <1>2, ObserveTokenIInv
<1>3. ASSUME NEW t \in Tokens, Watch(t) PROVE IInv'
  BY <1>3, WatchIInv
<1>4. ASSUME NEW w \in DOMAIN watchers, Watcher(w) PROVE IInv'
  BY <1>4, WatcherIInv
<1>5. ASSUME NEW w \in DOMAIN watchers, NEW kind \in KindSet, Close(w, kind) PROVE IInv'
  BY <1>5, WatcherIInv
<1>6. CASE Process
  BY <1>6, ProcessIInv
<1>7. CASE Restart
  BY <1>7, RestartIInv
<1>8. CASE UNCHANGED vars
  BY <1>8 DEF vars, IInv, TypeInv, SideTyped, Spends, SpendsOnce
<1>. QED  BY <1>1, <1>2, <1>3, <1>4, <1>5, <1>6, <1>7, <1>8 DEF Next

(* Queue, watchers and tables keep their types, and every nonce that was   *)
(* spent is behind the stored one, whatever is missed or restarted.        *)
THEOREM Invariant == Spec => []IInv
<1>1. Init => IInv
  BY InitIInv
<1>2. IInv /\ [Next]_vars => IInv'
  BY NextIInv
<1>. QED  BY <1>1, <1>2, PTL DEF Spec

(* No nonce is accepted twice, whatever fails on the way.                  *)
THEOREM NoDoubleSpend == Spec => []SpendsOnce
<1>1. IInv => SpendsOnce
  BY DEF IInv
<1>. QED  BY <1>1, Invariant, PTL

-----------------------------------------------------------------------------
(* The inductive invariant of the streams: what StreamsConveyed says, and  *)
(* whose transactions are where.                                           *)

HeldTyped(w) ==
    w.held = <<>> \/ \E x \in Txs : w.held = <<x>> /\ x.token = w.token

(* Everything in the node is of a token that was mapped.                   *)
OfMapped ==
    /\ \A w \in DOMAIN watchers : watchers[w].token \in mapped /\ HeldTyped(watchers[w])
    /\ \A i \in DOMAIN queue : queue[i].token \in mapped
    /\ \A i \in DOMAIN processed : processed[i].tx.token \in mapped

(* No watcher is past the end of a stream.                                 *)
NextWithin ==
    \A w \in DOMAIN watchers, kind \in KindSet :
        watchers[w].next[kind] <= Len(Stream(watchers[w].token, kind))

OneWatcher ==
    "remapped" \notin faults =>
        \A v, w \in DOMAIN watchers : watchers[v].token = watchers[w].token => v = w

EmittedWatched ==
    faults \cap {"missed", "restart"} = {} =>
        \A i \in DOMAIN emitted : Watched(emitted[i].token)

StreamInv == OfMapped /\ NextWithin /\ OneWatcher /\ EmittedWatched /\ StreamsConveyed

Untroubled == faults \cap {"missed", "remapped", "restart"} = {}

(* What the node has taken from the streams, as far as w has seen.         *)
Conveyed(w) == Transactions \o queue \o watchers[w].held

(* Everything is a sequence of transactions.                               *)
LEMMA ConveyedTyped ==
    ASSUME TypeInv
    PROVE  /\ Transactions \in Seq(Txs)
           /\ Len(Transactions) = Len(processed)
           /\ Transactions \o queue \in Seq(Txs)
           /\ \A w \in DOMAIN watchers : watchers[w].held \in Seq(Txs) /\ Conveyed(w) \in Seq(Txs)
           /\ \A t, kind : Stream(t, kind) \in Seq(Txs)
<1>1. /\ processed \in Seq([tx : Txs, outcome : {"ok", "rejected", "panic"}])
      /\ queue \in Seq(Txs) /\ watchers \in Seq(Watchers) /\ emitted \in Seq(Txs)
  BY DEF TypeInv
<1>2. Transactions \in Seq(Txs) /\ Len(Transactions) = Len(processed)
  <2>1. Transactions = [i \in 1..Len(processed) |-> processed[i].tx]
    BY <1>1 DEF Transactions
  <2>2. Len(processed) \in Nat /\ \A i \in 1..Len(processed) : processed[i].tx \in Txs
    <3> DEFINE S == [tx : Txs, outcome : {"ok", "rejected", "panic"}]
    <3>1. \A x \in S : x.tx \in Txs
      OBVIOUS
    <3>2. processed \in Seq(S)
      BY <1>1
    <3> HIDE DEF S
    <3>. QED  BY <3>1, <3>2
  <2>. QED  BY <2>1, <2>2
<1>3. Transactions \o queue \in Seq(Txs)
  BY <1>1, <1>2
<1>4. ASSUME NEW w \in DOMAIN watchers
      PROVE  watchers[w].held \in Seq(Txs) /\ Conveyed(w) \in Seq(Txs)
  <2>1. watchers[w] \in Watchers
    BY <1>1
  <2>2. watchers[w].held \in Seq(Txs)
    BY <2>1 DEF Watchers
  <2> HIDE DEF Transactions
  <2>. QED  BY <1>1, <1>2, <2>2 DEF Conveyed
<1>. QED  BY <1>1, <1>2, <1>3, <1>4, OfKindElements DEF Stream

(* A stream that grows keeps its beginning.                                *)
LEMMA KeptBeginning ==
    ASSUME NEW s \in Seq(Txs), NEW x \in Txs, NEW t, NEW kind, NEW n \in Nat, n <= Len(s)
    PROVE  /\ Kept(s, x, t, kind) \in Seq(Txs)
           /\ n <= Len(Kept(s, x, t, kind))
           /\ SubSeq(Kept(s, x, t, kind), 1, n) = SubSeq(s, 1, n)
<1>1. CASE IsOf(x, t, kind)
  <2>1. Kept(s, x, t, kind) = Append(s, x)
    BY <1>1 DEF Kept
  <2>2. SubSeq(Append(s, x), 1, n) = SubSeq(s, 1, n)
    <3>1. /\ SubSeq(Append(s, x), 1, n) = [i \in 1..n |-> Append(s, x)[i]]
          /\ SubSeq(s, 1, n) = [i \in 1..n |-> s[i]]
      OBVIOUS
    <3>2. \A i \in 1..n : Append(s, x)[i] = s[i]
      OBVIOUS
    <3>. QED  BY <3>1, <3>2
  <2>3. Append(s, x) \in Seq(Txs) /\ n <= Len(Append(s, x))
    OBVIOUS
  <2>. QED  BY <2>1, <2>2, <2>3
<1>2. CASE ~IsOf(x, t, kind)
  BY <1>2 DEF Kept
<1>. QED  BY <1>1, <1>2

(* A beginning and the next element are a longer beginning.                *)
LEMMA BeginningGrows ==
    ASSUME NEW s \in Seq(Txs), NEW n \in Nat, n < Len(s)
    PROVE  Append(SubSeq(s, 1, n), s[n + 1]) = SubSeq(s, 1, n + 1)
<1> DEFINE b == SubSeq(s, 1, n)
           l == SubSeq(s, 1, n + 1)
<1>1. /\ b \in Seq(Txs) /\ Len(b) = n /\ \A i \in 1..n : b[i] = s[i]
      /\ l \in Seq(Txs) /\ Len(l) = n + 1 /\ \A i \in 1..(n + 1) : l[i] = s[i]
  OBVIOUS
<1> HIDE DEF b, l
<1>2. /\ Append(b, s[n + 1]) \in Seq(Txs) /\ Len(Append(b, s[n + 1])) = n + 1
      /\ \A i \in 1..(n + 1) : Append(b, s[n + 1])[i] = s[i]
  BY <1>1
<1>3. Append(b, s[n + 1]) = l
  BY <1>1, <1>2, SeqEqual
<1>. QED  BY <1>3 DEF b, l

(* A step of the sidechain keeps the streams.                              *)
LEMMA SidechainStreams ==
    ASSUME IInv, StreamInv, SidechainNext
    PROVE  StreamInv'
<1>1. TypeInv
  BY DEF IInv
<1>2. PICK tx \in Txs : Emit(tx)
  BY SidechainEmits
<1>3. UNCHANGED <<mapped, watchers, queue, processed>> /\ emitted' = Append(emitted, tx)
  BY <1>2 DEF Emit
<1>4. ASSUME NEW t, NEW kind
      PROVE  Stream(t, kind)' = Kept(Stream(t, kind), tx, t, kind)
  BY <1>1, <1>3, OfKindAppend DEF Stream, TypeInv
<1>5. ASSUME NEW w \in DOMAIN watchers, NEW kind \in KindSet,
             NEW t, t = watchers[w].token, NEW n, n = watchers[w].next[kind]
      PROVE  /\ n <= Len(Stream(t, kind)')
             /\ SubSeq(Stream(t, kind)', 1, n) = SubSeq(Stream(t, kind), 1, n)
  <2>1. n \in Nat
    <3>1. watchers[w] \in Watchers
      BY <1>1 DEF TypeInv
    <3>. QED  BY <1>5, <3>1 DEF Watchers
  <2>2. n <= Len(Stream(t, kind)) /\ Stream(t, kind) \in Seq(Txs)
    BY <1>1, <1>5, ConveyedTyped DEF StreamInv, NextWithin
  <2>3. Stream(t, kind)' = Kept(Stream(t, kind), tx, t, kind)
    BY <1>4
  <2>4. /\ n <= Len(Kept(Stream(t, kind), tx, t, kind))
        /\ SubSeq(Kept(Stream(t, kind), tx, t, kind), 1, n) = SubSeq(Stream(t, kind), 1, n)
    BY <2>1, <2>2, KeptBeginning
  <2>. QED  BY <2>3, <2>4
<1>6. faults \subseteq faults' /\ (Watched(tx.token) \/ "missed" \in faults')
  BY <1>2 DEF Emit
<1>7. \A t : Watched(t)' <=> Watched(t)
  BY <1>3 DEF Watched, Looping
<1>8. EmittedWatched'
  <2> SUFFICES ASSUME faults' \cap {"missed", "restart"} = {}, NEW i \in DOMAIN emitted',
                      NEW t, t = emitted'[i].token
               PROVE  Watched(t)'
    BY DEF EmittedWatched
  <2>1. emitted'[i] = tx \/ (i \in DOMAIN emitted /\ emitted'[i] = emitted[i])
    BY <1>1, <1>3 DEF TypeInv
  <2>2. Watched(t)
    BY <1>6, <2>1 DEF StreamInv, EmittedWatched
  <2>. QED  BY <1>7, <2>2
<1>9. StreamsConveyed'
  <2> SUFFICES ASSUME Untroubled', NEW w \in DOMAIN watchers, NEW kind \in KindSet,
                      NEW t, t = watchers[w].token
               PROVE  OfKind(Conveyed(w), t, kind)
                        = SubSeq(Stream(t, kind)', 1, watchers[w].next[kind])
    BY <1>3 DEF StreamsConveyed, Conveyed, Untroubled, Transactions
  <2>1. Untroubled
    BY <1>6 DEF Untroubled
  <2>2. OfKind(Conveyed(w), t, kind) = SubSeq(Stream(t, kind), 1, watchers[w].next[kind])
    BY <2>1 DEF StreamInv, StreamsConveyed, Conveyed, Untroubled
  <2>. QED  BY <1>5, <2>2
<1>10. OfMapped' /\ OneWatcher'
  BY <1>3, <1>6 DEF StreamInv, OfMapped, OneWatcher
<1>11. NextWithin'
  <2> SUFFICES ASSUME NEW w \in DOMAIN watchers, NEW kind \in KindSet,
                      NEW t, t = watchers[w].token
               PROVE  watchers[w].next[kind] <= Len(Stream(t, kind)')
    BY <1>3 DEF NextWithin
  <2>. QED  BY <1>5
<1>. QED  BY <1>8, <1>9, <1>10, <1>11 DEF StreamInv

(* A new watcher has taken nothing, and nothing of its token is anywhere.  *)
LEMMA WatchStreams ==
    ASSUME IInv, StreamInv, NEW t \in Tokens, Watch(t)
    PROVE  StreamInv'
<1> DEFINE n == Len(watchers) + 1
<1>1. TypeInv
  BY DEF IInv
<1>2. /\ watchers' = Append(watchers, NewWatcher(t))
      /\ mapped' = mapped \cup {t}
      /\ UNCHANGED <<emitted, queue, processed>>
      /\ faults' = IF t \in mapped THEN faults \cup {"remapped"} ELSE faults
  BY DEF Watch
<1>3. /\ DOMAIN watchers = 1..(n - 1) /\ n \in Nat \ {0} /\ DOMAIN watchers' = 1..n
      /\ watchers'[n] = NewWatcher(t)
      /\ \A w \in DOMAIN watchers : w \in 1..n /\ w # n /\ watchers'[w] = watchers[w]
      /\ \A w \in 1..n : w # n => w \in DOMAIN watchers
  BY <1>1, <1>2 DEF TypeInv
<1>4. /\ NewWatcher(t).token = t /\ NewWatcher(t).held = <<>>
      /\ \A kind \in KindSet : NewWatcher(t).next[kind] = 0
  BY DEF NewWatcher
<1>5. \A u, kind : Stream(u, kind)' = Stream(u, kind)
  BY <1>2 DEF Stream
<1> HIDE DEF n
<1>6. OfMapped'
  BY <1>2, <1>3, <1>4 DEF StreamInv, OfMapped, HeldTyped
<1>7. NextWithin'
  <2> SUFFICES ASSUME NEW w \in 1..n, NEW kind \in KindSet, NEW u, u = watchers'[w].token
               PROVE  watchers'[w].next[kind] <= Len(Stream(u, kind))
    BY <1>3, <1>5 DEF NextWithin
  <2>1. CASE w = n
    <3>1. Stream(u, kind) \in Seq(Txs)
      BY <1>1, ConveyedTyped
    <3>. QED  BY <1>3, <1>4, <2>1, <3>1
  <2>2. CASE w # n
    BY <1>3, <2>2 DEF StreamInv, NextWithin
  <2>. QED  BY <2>1, <2>2
<1>8. OneWatcher'
  <2> SUFFICES ASSUME "remapped" \notin faults', NEW v \in 1..n, NEW w \in 1..n,
                      watchers'[v].token = watchers'[w].token
               PROVE  v = w
    BY <1>3 DEF OneWatcher
  <2>1. t \notin mapped /\ "remapped" \notin faults
    BY <1>2
  <2>2. \A x \in DOMAIN watchers : watchers[x].token # t
    BY <2>1 DEF StreamInv, OfMapped
  <2>. QED  BY <1>3, <1>4, <2>1, <2>2 DEF StreamInv, OneWatcher
<1>9. \A u : Watched(u) => Watched(u)'
  BY <1>3 DEF Watched, Looping
<1>10. EmittedWatched'
  <2> SUFFICES ASSUME faults' \cap {"missed", "restart"} = {}, NEW i \in DOMAIN emitted,
                      NEW u, u = emitted[i].token
               PROVE  Watched(u)'
    BY <1>2 DEF EmittedWatched
  <2>. QED  BY <1>2, <1>9 DEF StreamInv, EmittedWatched
<1>11. StreamsConveyed'
  <2> SUFFICES ASSUME Untroubled', NEW w \in 1..n, NEW kind \in KindSet,
                      NEW u, u = watchers'[w].token
               PROVE  OfKind(Transactions \o queue \o watchers'[w].held, u, kind)
                        = SubSeq(Stream(u, kind), 1, watchers'[w].next[kind])
    BY <1>2, <1>3, <1>5 DEF StreamsConveyed, Untroubled, Transactions
  <2>1. Untroubled /\ t \notin mapped
    BY <1>2 DEF Untroubled
  <2>2. CASE w # n
    BY <1>3, <2>1, <2>2 DEF StreamInv, StreamsConveyed, Untroubled
  <2>3. CASE w = n
    <3> DEFINE txs == Transactions \o queue
    <3>1. /\ txs \in Seq(Txs) /\ Transactions \in Seq(Txs) /\ queue \in Seq(Txs)
          /\ Stream(u, kind) \in Seq(Txs)
      BY <1>1, ConveyedTyped DEF TypeInv
    <3>2. txs \o <<>> = txs
      BY <3>1
    <3>3. \A i \in DOMAIN Transactions : Transactions[i].token \in mapped
      BY DEF Transactions, StreamInv, OfMapped
    <3>4. ASSUME NEW i \in DOMAIN txs PROVE txs[i].token \in mapped
      <4> HIDE DEF Transactions
      <4>1. \/ i \in DOMAIN Transactions /\ txs[i] = Transactions[i]
            \/ i - Len(Transactions) \in DOMAIN queue /\ txs[i] = queue[i - Len(Transactions)]
        BY <3>1
      <4>. QED  BY <3>3, <4>1 DEF StreamInv, OfMapped
    <3>5. \A i \in DOMAIN txs : ~IsOf(txs[i], u, kind)
      BY <1>3, <1>4, <2>1, <2>3, <3>4 DEF IsOf
    <3> HIDE DEF txs
    <3>6. OfKind(txs, u, kind) = <<>>
      BY <3>1, <3>5, OfKindNone
    <3>7. SubSeq(Stream(u, kind), 1, 0) = <<>>
      BY <3>1
    <3>. QED  BY <1>3, <1>4, <2>3, <3>2, <3>6, <3>7 DEF txs
  <2>. QED  BY <2>2, <2>3
<1>. QED  BY <1>6, <1>7, <1>8, <1>10, <1>11 DEF StreamInv

(* What every step of a watcher keeps of the streams.                      *)
LEMMA WatcherKeeps ==
    ASSUME IInv, StreamInv, NEW w \in DOMAIN watchers,
           Watcher(w) \/ \E kind \in KindSet : Close(w, kind)
    PROVE  /\ UNCHANGED <<emitted, mapped, processed>>
           /\ DOMAIN watchers' = DOMAIN watchers
           /\ \A v \in DOMAIN watchers : /\ watchers'[v].token = watchers[v].token
                                         /\ v # w => watchers'[v] = watchers[v]
           /\ faults \subseteq faults'
           /\ Untroubled' => Untroubled
           /\ \A t, kind : Stream(t, kind)' = Stream(t, kind)
           /\ OneWatcher' /\ EmittedWatched'
<1>1. TypeInv
  BY DEF IInv
<1>2. UNCHANGED <<emitted, mapped, processed>> /\ (faults' = faults \/ faults' = faults \cup {"closed"})
  BY DEF Watcher, Subscribe, Take, Enqueue, Close
<1>3. /\ DOMAIN watchers' = DOMAIN watchers
      /\ \A v \in DOMAIN watchers : v # w => watchers'[v] = watchers[v]
  BY <1>1, WatcherSteps
<1>4. /\ watchers'[w].token = watchers[w].token
      /\ watchers[w].subscribed = 3 => watchers'[w].subscribed = 3
  BY <1>1, WatcherSteps DEF Watcher, Taken
<1>5. \A t, kind : Stream(t, kind)' = Stream(t, kind)
  BY <1>2 DEF Stream
<1>6. OneWatcher'
  BY <1>2, <1>3, <1>4 DEF StreamInv, OneWatcher
<1>7. \A t : Watched(t) => Watched(t)'
  BY <1>3, <1>4 DEF Watched, Looping, Kinds
<1>8. EmittedWatched'
  <2> SUFFICES ASSUME faults' \cap {"missed", "restart"} = {}, NEW i \in DOMAIN emitted,
                      NEW u, u = emitted[i].token
               PROVE  Watched(u)'
    BY <1>2 DEF EmittedWatched
  <2>. QED  BY <1>2, <1>7 DEF StreamInv, EmittedWatched
<1>. QED  BY <1>2, <1>3, <1>4, <1>5, <1>6, <1>8 DEF Untroubled

(* What is conveyed to one watcher, in the words of the step to come.      *)
LEMMA ConveyedNow ==
    ASSUME StreamInv, Untroubled, NEW w \in DOMAIN watchers, NEW kind \in KindSet
    PROVE  OfKind(Conveyed(w), watchers[w].token, kind)
             = SubSeq(Stream(watchers[w].token, kind), 1, watchers[w].next[kind])
BY DEF StreamInv, StreamsConveyed, Untroubled, Conveyed

(* Before its watcher has subscribed, a token has emitted nothing.         *)
LEMMA UnseenEmpty ==
    ASSUME IInv, StreamInv, Untroubled, NEW w \in DOMAIN watchers, ~Looping(w),
           NEW kind \in KindSet
    PROVE  Stream(watchers[w].token, kind) = <<>>
<1> DEFINE t == watchers[w].token
<1>1. ~Watched(t)
  <2>1. \A v \in DOMAIN watchers : watchers[v].token = t => v = w
    BY DEF StreamInv, OneWatcher, Untroubled
  <2>. QED  BY <2>1 DEF Watched
<1>2. \A i \in DOMAIN emitted : ~IsOf(emitted[i], t, kind)
  BY <1>1 DEF StreamInv, EmittedWatched, Untroubled, IsOf
<1>3. emitted \in Seq(Txs)
  BY DEF IInv, TypeInv
<1>. QED  BY <1>2, <1>3, OfKindNone DEF Stream

(* A watcher that subscribes has missed nothing: nothing of its token was  *)
(* emitted before it listens to all three.                                 *)
LEMMA SubscribeStreams ==
    ASSUME IInv, StreamInv, NEW w \in DOMAIN watchers, Subscribe(w)
    PROVE  StreamInv'
<1> DEFINE old == watchers[w]
           new == watchers'[w]
<1>1. TypeInv /\ Watcher(w)
  BY DEF IInv, Watcher
<1>2. /\ UNCHANGED <<emitted, mapped, processed, queue>>
      /\ DOMAIN watchers' = DOMAIN watchers
      /\ \A v \in DOMAIN watchers : v # w => watchers'[v] = watchers[v]
      /\ Untroubled' => Untroubled
      /\ \A t, kind : Stream(t, kind)' = Stream(t, kind)
      /\ OneWatcher' /\ EmittedWatched'
  BY <1>1, WatcherKeeps DEF Subscribe
<1>3. /\ new.token = old.token /\ new.held = old.held
      /\ \A k \in KindSet :
            new.next[k] = IF k = Kinds[old.subscribed + 1]
                          THEN Len(Stream(old.token, k)) ELSE old.next[k]
  BY <1>1, WatcherSteps
<1>4. OfMapped'
  BY <1>2, <1>3 DEF StreamInv, OfMapped, HeldTyped
<1>5. \A t, kind : Stream(t, kind) \in Seq(Txs)
  BY <1>1, ConveyedTyped
<1>6. NextWithin'
  <2> SUFFICES ASSUME NEW v \in DOMAIN watchers, NEW kind \in KindSet,
                      NEW u, u = watchers'[v].token
               PROVE  watchers'[v].next[kind] <= Len(Stream(u, kind))
    BY <1>2 DEF NextWithin
  <2>1. Len(Stream(u, kind)) \in Nat
    BY <1>5
  <2>2. watchers[v].next[kind] <= Len(Stream(watchers[v].token, kind))
    BY DEF StreamInv, NextWithin
  <2>. QED  BY <1>2, <1>3, <2>1, <2>2
<1>7. Untroubled => \A kind \in KindSet : Stream(old.token, kind) = <<>>
  BY UnseenEmpty DEF Subscribe
<1>8. StreamsConveyed'
  <2> SUFFICES ASSUME Untroubled', NEW v \in DOMAIN watchers, NEW kind \in KindSet,
                      NEW u, u = watchers'[v].token
               PROVE  OfKind(Transactions \o queue \o watchers'[v].held, u, kind)
                        = SubSeq(Stream(u, kind), 1, watchers'[v].next[kind])
    BY <1>2 DEF StreamsConveyed, Untroubled, Transactions
  <2>1. Untroubled
    BY <1>2
  <2>2. OfKind(Conveyed(v), watchers[v].token, kind)
           = SubSeq(Stream(watchers[v].token, kind), 1, watchers[v].next[kind])
    BY <2>1, ConveyedNow
  <2>3. CASE v # w
    BY <1>2, <2>2, <2>3 DEF Conveyed
  <2>4. CASE v = w
    <3>1. Stream(u, kind) = <<>> /\ u = old.token /\ Len(<<>>) = 0
      BY <1>3, <1>7, <2>1, <2>4
    <3>2. \A n \in Nat : n <= 0 => SubSeq(Stream(u, kind), 1, n) = <<>>
      BY <3>1
    <3>3. new.next[kind] \in Nat /\ old.next[kind] \in Nat
      BY <1>1, WatcherSteps DEF Watchers
    <3>4. old.next[kind] <= 0 /\ new.next[kind] <= 0
      BY <1>2, <1>3, <1>6, <2>4, <3>1 DEF StreamInv, NextWithin
    <3>. QED  BY <1>3, <2>2, <2>4, <3>1, <3>2, <3>3, <3>4 DEF Conveyed
  <2>. QED  BY <2>3, <2>4
<1>. QED  BY <1>2, <1>4, <1>6, <1>8 DEF StreamInv

(* A watcher that takes the next event of a stream holds it.               *)
LEMMA TakeStreams ==
    ASSUME IInv, StreamInv, NEW w \in DOMAIN watchers, NEW kind \in KindSet, Take(w, kind)
    PROVE  StreamInv'
<1> DEFINE old == watchers[w]
           new == watchers'[w]
           n == old.next[kind]
           s == Stream(old.token, kind)
           x == s[n + 1]
<1>1. TypeInv /\ Watcher(w)
  BY DEF IInv, Watcher
<1>2. /\ UNCHANGED <<emitted, mapped, processed, queue>>
      /\ DOMAIN watchers' = DOMAIN watchers
      /\ \A v \in DOMAIN watchers : v # w => watchers'[v] = watchers[v]
      /\ Untroubled' => Untroubled
      /\ \A t, k : Stream(t, k)' = Stream(t, k)
      /\ OneWatcher' /\ EmittedWatched'
  BY <1>1, WatcherKeeps DEF Take
<1>3. /\ new.token = old.token /\ new.held = <<x>>
      /\ \A k \in KindSet : new.next[k] = IF k = kind THEN old.next[k] + 1 ELSE old.next[k]
  <2>1. Taken(old, new, kind)
    BY <1>1, WatcherSteps
  <2>. QED  BY <2>1 DEF Taken
<1>4. \A t, k : Stream(t, k) \in Seq(Txs)
  BY <1>1, ConveyedTyped
<1>5. /\ n \in Nat /\ n < Len(s) /\ s \in Seq(Txs) /\ old.held = <<>>
      /\ \A k \in KindSet : old.next[k] \in Nat
  <2>1. old \in Watchers
    BY <1>1, WatcherSteps
  <2>2. \A k \in KindSet : old.next[k] \in Nat
    BY <2>1 DEF Watchers
  <2>. QED  BY <1>4, <2>2 DEF Take
<1>6. x \in Txs /\ IsOf(x, old.token, kind)
  <2>1. n + 1 \in DOMAIN s
    BY <1>5
  <2>2. emitted \in Seq(Txs)
    BY <1>1 DEF TypeInv
  <2>. QED  BY <1>5, <2>1, <2>2, OfKindElements DEF Stream
<1>7. OfMapped'
  <2>1. new.token \in mapped /\ HeldTyped(new)
    BY <1>3, <1>6 DEF StreamInv, OfMapped, HeldTyped, IsOf
  <2>. QED  BY <1>2, <2>1 DEF StreamInv, OfMapped
<1>8. NextWithin'
  <2> SUFFICES ASSUME NEW v \in DOMAIN watchers, NEW k \in KindSet, NEW u, u = watchers'[v].token
               PROVE  watchers'[v].next[k] <= Len(Stream(u, k))
    BY <1>2 DEF NextWithin
  <2>1. Len(Stream(u, k)) \in Nat
    BY <1>4
  <2>2. watchers[v].next[k] <= Len(Stream(watchers[v].token, k))
    BY DEF StreamInv, NextWithin
  <2>. QED  BY <1>2, <1>3, <1>5, <2>1, <2>2
<1>9. StreamsConveyed'
  <2> SUFFICES ASSUME Untroubled', NEW v \in DOMAIN watchers, NEW k \in KindSet,
                      NEW u, u = watchers'[v].token
               PROVE  OfKind(Transactions \o queue \o watchers'[v].held, u, k)
                        = SubSeq(Stream(u, k), 1, watchers'[v].next[k])
    BY <1>2 DEF StreamsConveyed, Untroubled, Transactions
  <2>1. Untroubled
    BY <1>2
  <2>2. OfKind(Conveyed(v), watchers[v].token, k)
           = SubSeq(Stream(watchers[v].token, k), 1, watchers[v].next[k])
    BY <2>1, ConveyedNow
  <2>3. CASE v # w
    BY <1>2, <2>2, <2>3 DEF Conveyed
  <2>4. CASE v = w
    <3> DEFINE txs == Transactions \o queue
    <3>1. txs \in Seq(Txs) /\ u = old.token
      BY <1>1, <1>3, <2>4, ConveyedTyped
    <3>2. Conveyed(w) = txs \o <<>>
      BY <1>5 DEF Conveyed
    <3> HIDE DEF txs, x
    <3>3. Conveyed(w) = txs /\ txs \o <<x>> = Append(txs, x)
      BY <1>6, <3>1, <3>2
    <3>4. OfKind(txs \o new.held, u, k) = Kept(OfKind(txs, u, k), x, u, k)
      <4>1. OfKind(Append(txs, x), u, k) = Kept(OfKind(txs, u, k), x, u, k)
        BY <1>6, <3>1, OfKindAppend
      <4>2. txs \o new.held = Append(txs, x)
        BY <1>3, <3>3
      <4>. QED  BY <4>1, <4>2
    <3>5. OfKind(txs, u, k) = SubSeq(Stream(u, k), 1, old.next[k])
      BY <2>2, <2>4, <3>1, <3>3
    <3>6. CASE k = kind
      <4>1. Kept(OfKind(txs, u, k), x, u, k) = Append(SubSeq(s, 1, n), x)
        BY <1>6, <3>1, <3>5, <3>6 DEF Kept
      <4> HIDE DEF s, n
      <4>2. Append(SubSeq(s, 1, n), s[n + 1]) = SubSeq(s, 1, n + 1)
        BY <1>5, BeginningGrows
      <4>. QED  BY <1>3, <2>4, <3>1, <3>4, <3>6, <4>1, <4>2 DEF s, n, x, txs
    <3>7. CASE k # kind
      <4>1. Kept(OfKind(txs, u, k), x, u, k) = OfKind(txs, u, k)
        BY <1>6, <3>7 DEF Kept, IsOf
      <4>. QED  BY <1>3, <2>4, <3>4, <3>5, <3>7, <4>1 DEF txs
    <3>. QED  BY <3>6, <3>7
  <2>. QED  BY <2>3, <2>4
<1>. QED  BY <1>2, <1>7, <1>8, <1>9 DEF StreamInv

(* A watcher puts what it holds into the queue.  It was the only one that  *)
(* had taken it, so no other sees a difference.                            *)
LEMMA EnqueueStreams ==
    ASSUME IInv, StreamInv, NEW w \in DOMAIN watchers, Enqueue(w)
    PROVE  StreamInv'
<1> DEFINE old == watchers[w]
           new == watchers'[w]
           txs == Transactions \o queue
<1>1. TypeInv /\ Watcher(w)
  BY DEF IInv, Watcher
<1>2. /\ UNCHANGED <<emitted, mapped, processed>>
      /\ DOMAIN watchers' = DOMAIN watchers
      /\ \A v \in DOMAIN watchers : v # w => watchers'[v] = watchers[v]
      /\ Untroubled' => Untroubled
      /\ \A t, k : Stream(t, k)' = Stream(t, k)
      /\ OneWatcher' /\ EmittedWatched'
  BY <1>1, WatcherKeeps
<1>3. new.token = old.token /\ new.next = old.next /\ new.held = <<>>
  BY <1>1, WatcherSteps
<1>4. PICK x \in Txs : old.held = <<x>> /\ x.token = old.token
  BY DEF StreamInv, OfMapped, HeldTyped, Enqueue
<1>5. queue' = queue \o <<x>> /\ queue \in Seq(Txs)
  BY <1>1, <1>4 DEF Enqueue, TypeInv
<1>6. txs \in Seq(Txs) /\ Transactions \in Seq(Txs)
  BY <1>1, ConveyedTyped
<1>7. Transactions \o queue' = Append(txs, x) /\ Transactions' = Transactions
  <2>1. Transactions' = Transactions
    BY <1>2 DEF Transactions
  <2> HIDE DEF Transactions
  <2>. QED  BY <1>4, <1>5, <1>6, <2>1
<1>8. OfMapped'
  <2>1. \A i \in DOMAIN queue' : queue'[i].token \in mapped
    <3>1. x.token \in mapped
      BY <1>4 DEF StreamInv, OfMapped
    <3>2. \A i \in DOMAIN queue' : queue'[i] = x \/ (i \in DOMAIN queue /\ queue'[i] = queue[i])
      BY <1>5
    <3>. QED  BY <3>1, <3>2 DEF StreamInv, OfMapped
  <2>2. new.token \in mapped /\ HeldTyped(new)
    BY <1>3 DEF StreamInv, OfMapped, HeldTyped
  <2>. QED  BY <1>2, <2>1, <2>2 DEF StreamInv, OfMapped
<1>9. NextWithin'
  BY <1>2, <1>3 DEF StreamInv, NextWithin
<1>10. StreamsConveyed'
  <2> SUFFICES ASSUME Untroubled', NEW v \in DOMAIN watchers, NEW k \in KindSet,
                      NEW u, u = watchers'[v].token
               PROVE  OfKind(Transactions \o queue' \o watchers'[v].held, u, k)
                        = SubSeq(Stream(u, k), 1, watchers'[v].next[k])
    BY <1>2, <1>7 DEF StreamsConveyed, Untroubled
  <2>1. Untroubled
    BY <1>2
  <2>2. OfKind(Conveyed(v), watchers[v].token, k)
           = SubSeq(Stream(watchers[v].token, k), 1, watchers[v].next[k])
    BY <2>1, ConveyedNow
  <2>3. CASE v # w
    <3>1. watchers'[v] = watchers[v] /\ u = watchers[v].token
      BY <1>2, <2>3
    <3>2. ~IsOf(x, u, k)
      BY <1>4, <2>1, <2>3, <3>1 DEF StreamInv, OneWatcher, Untroubled, IsOf
    <3> HIDE DEF txs
    <3>3. OfKind(Append(txs, x), u, k) = OfKind(txs, u, k)
      BY <1>6, <3>2, OfKindAppend DEF Kept
    <3>4. Append(txs, x) \in Seq(Txs)
      BY <1>6
    <3> DEFINE h == watchers[v].held
    <3>5. h = <<>> \/ \E y \in Txs : h = <<y>>
      BY DEF StreamInv, OfMapped, HeldTyped
    <3>6. OfKind(Append(txs, x) \o h, u, k) = OfKind(txs \o h, u, k)
      <4>1. CASE h = <<>>
        <5>1. Append(txs, x) \o h = Append(txs, x) /\ txs \o h = txs
          BY <1>6, <3>4, <4>1
        <5>. QED  BY <3>3, <5>1
      <4>2. ASSUME NEW y \in Txs, h = <<y>>
            PROVE  OfKind(Append(txs, x) \o h, u, k) = OfKind(txs \o h, u, k)
        <5>1. Append(txs, x) \o h = Append(Append(txs, x), y) /\ txs \o h = Append(txs, y)
          BY <1>6, <3>4, <4>2
        <5>2. OfKind(Append(Append(txs, x), y), u, k) = Kept(OfKind(Append(txs, x), u, k), y, u, k)
          <6> DEFINE more == Append(txs, x)
          <6>1. more \in Seq(Txs)
            BY <3>4
          <6> HIDE DEF more
          <6>2. OfKind(Append(more, y), u, k) = Kept(OfKind(more, u, k), y, u, k)
            BY <6>1, OfKindAppend
          <6>. QED  BY <6>2 DEF more
        <5>3. OfKind(Append(txs, y), u, k) = Kept(OfKind(txs, u, k), y, u, k)
          BY <1>6, OfKindAppend
        <5>. QED  BY <3>3, <5>1, <5>2, <5>3
      <4>. QED  BY <3>5, <4>1, <4>2
    <3>. QED  BY <1>7, <2>2, <3>1, <3>6 DEF Conveyed, txs
  <2>4. CASE v = w
    <3>1. Conveyed(w) = txs \o <<x>>
      BY <1>4 DEF Conveyed
    <3> HIDE DEF txs
    <3>2. Conveyed(w) = Append(txs, x) /\ Append(txs, x) \o <<>> = Append(txs, x)
      BY <1>6, <3>1
    <3>. QED  BY <1>3, <1>7, <2>2, <2>4, <3>2
  <2>. QED  BY <2>3, <2>4
<1>. QED  BY <1>2, <1>8, <1>9, <1>10 DEF StreamInv

(* A subscription that ends leaves everything where it is.                 *)
LEMMA CloseStreams ==
    ASSUME IInv, StreamInv, NEW w \in DOMAIN watchers, NEW kind \in KindSet, Close(w, kind)
    PROVE  StreamInv'
<1>1. TypeInv /\ UNCHANGED queue /\ \E k \in KindSet : Close(w, k)
  BY DEF IInv, Close
<1>2. /\ UNCHANGED <<emitted, mapped, processed>>
      /\ DOMAIN watchers' = DOMAIN watchers
      /\ \A v \in DOMAIN watchers : v # w => watchers'[v] = watchers[v]
      /\ Untroubled' => Untroubled
      /\ \A t, k : Stream(t, k)' = Stream(t, k)
      /\ OneWatcher' /\ EmittedWatched'
  BY <1>1, WatcherKeeps
<1>3. ASSUME NEW v \in DOMAIN watchers
      PROVE  /\ watchers'[v].token = watchers[v].token
             /\ watchers'[v].next = watchers[v].next
             /\ watchers'[v].held = watchers[v].held
  <2>1. /\ watchers'[w].token = watchers[w].token
        /\ watchers'[w].next = watchers[w].next
        /\ watchers'[w].held = IF Enqueue(w) THEN <<>> ELSE watchers[w].held
    BY <1>1, WatcherSteps
  <2>2. ~Enqueue(w)
    <3>1. SUFFICES ASSUME Enqueue(w) PROVE FALSE
      OBVIOUS
    <3>2. UNCHANGED queue /\ queue' = queue \o watchers[w].held /\ watchers[w].held # <<>>
      BY <3>1, <1>1 DEF Enqueue
    <3>3. queue \in Seq(Txs) /\ watchers[w].held \in Seq(Txs)
      BY <1>1, ConveyedTyped DEF TypeInv
    <3>4. Len(queue \o watchers[w].held) = Len(queue) + Len(watchers[w].held)
          /\ Len(watchers[w].held) # 0
      BY <3>2, <3>3
    <3>5. Len(queue) \in Nat /\ Len(watchers[w].held) \in Nat
      BY <3>3
    <3>. QED  BY <3>2, <3>4, <3>5
  <2>. QED  BY <1>2, <2>1, <2>2
<1>4. OfMapped'
  BY <1>1, <1>2, <1>3 DEF StreamInv, OfMapped, HeldTyped
<1>5. NextWithin'
  BY <1>2, <1>3 DEF StreamInv, NextWithin
<1>6. StreamsConveyed'
  BY <1>1, <1>2, <1>3 DEF StreamInv, StreamsConveyed, Untroubled, Transactions
<1>. QED  BY <1>2, <1>4, <1>5, <1>6 DEF StreamInv

(* The head of a sequence moves to the end of the one before.              *)
LEMMA HeadMoved ==
    ASSUME NEW p \in Seq(Txs), NEW q \in Seq(Txs), q # <<>>
    PROVE  Append(p, Head(q)) \o Tail(q) = p \o q
<1> DEFINE r == Append(p, Head(q)) \o Tail(q)
<1>1. /\ Head(q) = q[1] /\ Tail(q) \in Seq(Txs) /\ Len(Tail(q)) = Len(q) - 1 /\ q[1] \in Txs
      /\ \A i \in 1..(Len(q) - 1) : Tail(q)[i] = q[i + 1]
      /\ Len(q) \in Nat \ {0}
  OBVIOUS
<1>2. Append(p, Head(q)) \in Seq(Txs) /\ Len(Append(p, Head(q))) = Len(p) + 1
  BY <1>1
<1>3. /\ r \in Seq(Txs) /\ p \o q \in Seq(Txs)
      /\ Len(r) = Len(p) + Len(q) /\ Len(p \o q) = Len(p) + Len(q)
  BY <1>1, <1>2
<1>4. ASSUME NEW i \in 1..Len(r) PROVE r[i] = (p \o q)[i]
  <2>1. CASE i <= Len(p)
    BY <1>1, <1>2, <1>3, <2>1
  <2>2. CASE i = Len(p) + 1
    BY <1>1, <1>2, <1>3, <2>2
  <2>3. CASE i > Len(p) + 1
    <3>1. i - (Len(p) + 1) \in 1..(Len(q) - 1) /\ (i - (Len(p) + 1)) + 1 = i - Len(p)
      BY <1>3, <2>3
    <3>2. r[i] = Tail(q)[i - (Len(p) + 1)]
      BY <1>1, <1>2, <1>3, <2>3
    <3>3. (p \o q)[i] = q[i - Len(p)]
      BY <1>3, <2>3
    <3>. QED  BY <1>1, <3>1, <3>2, <3>3
  <2>. QED  BY <1>3, <2>1, <2>2, <2>3
<1> HIDE DEF r
<1>5. r = p \o q
  BY <1>3, <1>4, SeqEqual
<1>. QED  BY <1>5 DEF r

(* What taking a transaction out of the queue does to the histories.       *)
LEMMA ProcessMoves ==
    ASSUME IInv, Process, NEW tx, tx = Head(queue), NEW n, n = Len(processed)
    PROVE  /\ tx \in Txs /\ \E i \in DOMAIN queue : tx = queue[i]
           /\ queue \in Seq(Txs) /\ queue # <<>> /\ queue' = Tail(queue)
           /\ st' = ApplyTransaction(st, tx).st
           /\ UNCHANGED <<side, emitted, mapped, watchers>>
           /\ faults \subseteq faults' /\ faults' \subseteq faults \cup {"late"}
           /\ "late" \notin faults' => TokenMapped(st, tx.token)
           /\ n \in Nat /\ DOMAIN processed = 1..n /\ DOMAIN processed' = 1..(n + 1)
           /\ Len(processed') = n + 1
           /\ processed'[n + 1].tx = tx
           /\ processed'[n + 1].outcome = ApplyTransaction(st, tx).outcome
           /\ \A i \in 1..n : processed'[i] = processed[i]
           /\ Transactions \in Seq(Txs) /\ Len(Transactions) = n
           /\ Transactions' = Append(Transactions, tx)
<1> DEFINE outcome == ApplyTransaction(st, tx).outcome
           entry == [tx |-> tx, outcome |-> outcome]
           S == [tx : Txs, outcome : {"ok", "rejected", "panic"}]
<1>1. TypeInv /\ TypeInv'
  BY ProcessIInv DEF IInv
<1>2. queue \in Seq(Txs) /\ queue # <<>> /\ queue' = Tail(queue)
      /\ tx \in Txs /\ 1 \in DOMAIN queue /\ tx = queue[1]
  BY <1>1 DEF TypeInv, Process
<1>3. processed' = Append(processed, entry) /\ entry.tx = tx /\ entry.outcome = outcome
  BY DEF Process
<1>4. /\ UNCHANGED <<side, emitted, mapped, watchers>>
      /\ st' = ApplyTransaction(st, tx).st
      /\ faults \subseteq faults' /\ faults' \subseteq faults \cup {"late"}
      /\ "late" \notin faults' => TokenMapped(st, tx.token)
  BY DEF Process
<1> HIDE DEF entry, outcome
<1>5. /\ processed \in Seq(S) /\ processed' \in Seq(S)
  BY <1>1 DEF TypeInv
<1> HIDE DEF S
<1>6. /\ n \in Nat /\ DOMAIN processed = 1..n /\ DOMAIN processed' = 1..(n + 1)
      /\ Len(processed') = n + 1
      /\ processed'[n + 1] = entry /\ \A i \in 1..n : processed'[i] = processed[i]
  BY <1>3, <1>5
<1>7. Transactions' = Append(Transactions, tx) /\ Transactions \in Seq(Txs)
      /\ Len(Transactions) = n
  <2>1. Transactions = [i \in 1..n |-> processed[i].tx]
    BY <1>6 DEF Transactions
  <2>2. Transactions' = [i \in 1..(n + 1) |-> processed'[i].tx]
    BY <1>6 DEF Transactions
  <2>3. Transactions \in Seq(Txs) /\ Transactions' \in Seq(Txs)
        /\ Len(Transactions) = n /\ Len(Transactions') = n + 1
    <3>1. Transactions \in Seq(Txs) /\ Len(Transactions) = n
      BY <1>1, ConveyedTyped
    <3>2. \A i \in 1..(n + 1) : processed'[i].tx \in Txs
      BY <1>2, <1>3, <1>6, <2>1, <3>1
    <3>. QED  BY <1>6, <2>2, <3>1, <3>2
  <2>4. Append(Transactions, tx) \in Seq(Txs) /\ Len(Append(Transactions, tx)) = n + 1
        /\ \A i \in 1..n : Append(Transactions, tx)[i] = Transactions[i]
        /\ Append(Transactions, tx)[n + 1] = tx
    <3> HIDE DEF Transactions
    <3>. QED  BY <1>2, <1>6, <2>3
  <2>5. \A i \in 1..(n + 1) : Transactions'[i] = Append(Transactions, tx)[i]
    <3>1. \A i \in 1..n : Transactions'[i] = Transactions[i]
      BY <1>6, <2>1, <2>2
    <3>2. Transactions'[n + 1] = tx
      BY <1>3, <1>6, <2>2
    <3>. QED  BY <1>6, <2>4, <3>1, <3>2
  <2> HIDE DEF Transactions
  <2>. QED  BY <2>3, <2>4, <2>5, SeqEqual
<1>8. tx \in Txs /\ \E i \in DOMAIN queue : tx = queue[i]
  BY <1>2
<1>9. processed'[n + 1].tx = tx /\ processed'[n + 1].outcome = outcome
  BY <1>3, <1>6
<1>. QED  BY <1>2, <1>4, <1>6, <1>7, <1>8, <1>9 DEF outcome

(* What is processed was the next in the queue: nothing moves.             *)
LEMMA ProcessStreams ==
    ASSUME IInv, StreamInv, Process
    PROVE  StreamInv'
<1> DEFINE tx == Head(queue)
           n == Len(processed)
<1>1. /\ queue \in Seq(Txs) /\ queue # <<>> /\ queue' = Tail(queue)
      /\ UNCHANGED <<emitted, mapped, watchers>> /\ faults \subseteq faults'
      /\ n \in Nat /\ DOMAIN processed = 1..n /\ DOMAIN processed' = 1..(n + 1)
      /\ processed'[n + 1].tx = tx /\ \A i \in 1..n : processed'[i] = processed[i]
      /\ Transactions' = Append(Transactions, tx) /\ Transactions \in Seq(Txs)
  BY ProcessMoves
<1>2. faults' \subseteq faults \cup {"late"}
  BY ProcessMoves
<1> HIDE DEF n
<1>3. Transactions' \o queue' = Transactions \o queue
  <2> HIDE DEF Transactions
  <2>. QED  BY <1>1, HeadMoved
<1>4. OfMapped'
  <2>1. tx = queue[1] /\ 1 \in DOMAIN queue
        /\ \A i \in DOMAIN queue' : i + 1 \in DOMAIN queue /\ queue'[i] = queue[i + 1]
    BY <1>1
  <2>2. \A i \in DOMAIN queue' : queue'[i].token \in mapped
    BY <2>1 DEF StreamInv, OfMapped
  <2>3. \A i \in 1..(n + 1) : processed'[i].tx.token \in mapped
    <3>1. tx.token \in mapped
      BY <2>1 DEF StreamInv, OfMapped
    <3>2. \A i \in 1..n : processed[i].tx.token \in mapped
      BY <1>1 DEF StreamInv, OfMapped
    <3> HIDE DEF tx
    <3>. QED  BY <1>1, <3>1, <3>2
  <2>. QED  BY <1>1, <2>2, <2>3 DEF StreamInv, OfMapped
<1>5. NextWithin' /\ OneWatcher'
  BY <1>1, <1>2 DEF StreamInv, NextWithin, OneWatcher, Stream
<1>6. EmittedWatched'
  BY <1>1, <1>2 DEF StreamInv, EmittedWatched, Watched, Looping
<1>7. StreamsConveyed'
  <2> SUFFICES ASSUME Untroubled', NEW w \in DOMAIN watchers, NEW k \in KindSet
               PROVE  OfKind(Transactions' \o queue' \o watchers[w].held, watchers[w].token, k)
                        = SubSeq(Stream(watchers[w].token, k), 1, watchers[w].next[k])
    BY <1>1 DEF StreamsConveyed, Untroubled, Stream
  <2>1. Untroubled
    BY <1>1 DEF Untroubled
  <2>. QED  BY <1>3, <2>1, ConveyedNow DEF Conveyed
<1>. QED  BY <1>4, <1>5, <1>6, <1>7 DEF StreamInv

(* Initially nothing was emitted, and nothing is watched.                  *)
LEMMA InitStreams == Init => StreamInv
<1> SUFFICES ASSUME Init PROVE StreamInv
  OBVIOUS
<1>1. watchers = <<>> /\ queue = <<>> /\ processed = <<>> /\ emitted = <<>>
  BY DEF Init
<1>2. DOMAIN watchers = {} /\ DOMAIN queue = {} /\ DOMAIN processed = {} /\ DOMAIN emitted = {}
  BY <1>1
<1>. QED  BY <1>2 DEF StreamInv, OfMapped, NextWithin, OneWatcher, EmittedWatched, StreamsConveyed

(* Every step keeps the streams.                                           *)
LEMMA NextStreams == IInv /\ StreamInv /\ [Next]_vars => StreamInv'
<1> SUFFICES ASSUME IInv, StreamInv, [Next]_vars PROVE StreamInv'
  OBVIOUS
<1>1. CASE SidechainNext
  BY <1>1, SidechainStreams
<1>2. ASSUME UNCHANGED <<emitted, mapped, watchers, queue, processed, faults>> PROVE StreamInv'
  <2>1. \A w : HeldTyped(watchers[w])' <=> HeldTyped(watchers[w])
    BY <1>2 DEF HeldTyped
  <2>. QED  BY <1>2, <2>1 DEF StreamInv, OfMapped, NextWithin, OneWatcher, EmittedWatched,
                        Watched, Looping, StreamsConveyed, Transactions, Stream
<1>3. ASSUME NEW i \in DOMAIN TokenOrder, ObserveToken(i) PROVE StreamInv'
  BY <1>2, <1>3 DEF ObserveToken
<1>4. ASSUME NEW t \in Tokens, Watch(t) PROVE StreamInv'
  BY <1>4, WatchStreams
<1>5. ASSUME NEW w \in DOMAIN watchers, Watcher(w) PROVE StreamInv'
  BY <1>5, SubscribeStreams, TakeStreams, EnqueueStreams DEF Watcher
<1>6. ASSUME NEW w \in DOMAIN watchers, NEW kind \in KindSet, Close(w, kind) PROVE StreamInv'
  BY <1>6, CloseStreams
<1>7. CASE Process
  BY <1>7, ProcessStreams
<1>8. CASE Restart
  <2>1. watchers' = <<>> /\ queue' = <<>> /\ "restart" \in faults' /\ UNCHANGED <<mapped, processed>>
    BY <1>8 DEF Restart
  <2>2. DOMAIN watchers' = {} /\ DOMAIN queue' = {}
    BY <2>1
  <2>. QED  BY <2>1, <2>2 DEF StreamInv, OfMapped, NextWithin, OneWatcher, EmittedWatched,
                              StreamsConveyed
<1>9. CASE UNCHANGED vars
  BY <1>2, <1>9 DEF vars
<1>. QED  BY <1>1, <1>3, <1>4, <1>5, <1>6, <1>7, <1>8, <1>9 DEF Next

(* No event of a watched token is lost, repeated or overtaken by another   *)
(* of its kind, for any number of tokens, watchers and events and any size *)
(* of the queue.                                                           *)
THEOREM StreamsKept == Spec => []StreamsConveyed
<1>1. Init => IInv /\ StreamInv
  BY InitIInv, InitStreams
<1>2. IInv /\ StreamInv /\ [Next]_vars => IInv' /\ StreamInv'
  BY NextIInv, NextStreams
<1>3. StreamInv => StreamsConveyed
  BY DEF StreamInv
<1>. QED  BY <1>1, <1>2, <1>3, PTL DEF Spec

-----------------------------------------------------------------------------
(* Balances and nonces.  Those of the contracts and those of the tables    *)
(* are the same sums, over what was emitted and over what was processed.   *)

Columns == {"balance", "transferNonce", "withdrawNonce"}

(* What a transaction changes of an account.                               *)
Change(what, tx, a) ==
    IF what = "balance" THEN Gains(tx, a)
    ELSE IF what = "transferNonce" THEN IF UsesTransferNonce(tx, a) THEN 1 ELSE 0
    ELSE IF UsesWithdrawNonce(tx, a) THEN 1 ELSE 0

ChangesOf(what, txs, a) == [i \in DOMAIN txs |-> Change(what, txs[i], a)]

Changes(what, txs, a) == SumOf(ChangesOf(what, txs, a))

Total(what, txs, a, t) ==
    Changes(what, OfKind(txs, t, "transfer"), a)
      + Changes(what, OfKind(txs, t, "deposit"), a)
      + Changes(what, OfKind(txs, t, "withdraw"), a)

(* What one transaction changes of what an account has of a token.         *)
ChangeOf(what, tx, a, t) == IF t = tx.token THEN Change(what, tx, a) ELSE 0

(* The fields of a transaction.                                            *)
LEMMA TxFields ==
    ASSUME NEW tx \in Txs
    PROVE  /\ tx.token \in Tokens /\ tx.amount \in Nat
           /\ tx.type \in {"transfer", "deposit", "withdraw"}
           /\ tx.type = "deposit" => tx.account \in Accounts
           /\ tx.type = "withdraw" => tx.account \in Accounts /\ tx.nonce \in Nat
           /\ tx.type = "transfer" =>
                 tx.sender \in Accounts /\ tx.recipient \in Accounts /\ tx.nonce \in Nat
           /\ tx.type = "deposit" => tx \in DepositTxs
           /\ tx.type = "withdraw" => tx \in WithdrawTxs
           /\ tx.type = "transfer" => tx \in TransferTxs
BY DEF Txs, DepositTxs, WithdrawTxs, TransferTxs

(* A change is an integer.                                                 *)
LEMMA ChangeTyped ==
    ASSUME NEW what, NEW tx \in Txs, NEW a
    PROVE  Change(what, tx, a) \in Int
<1>1. tx.amount \in Int /\ -tx.amount \in Int
  BY TxFields
<1>. QED  BY <1>1 DEF Change, Gains

(* One transaction more.                                                   *)
LEMMA ChangesAppend ==
    ASSUME NEW what, NEW txs, txs \in Seq(Txs), NEW x \in Txs, NEW a
    PROVE  /\ Changes(what, txs, a) \in Int
           /\ Changes(what, Append(txs, x), a) = Changes(what, txs, a) + Change(what, x, a)
<1> DEFINE s == ChangesOf(what, txs, a)
           more == ChangesOf(what, Append(txs, x), a)
           c == Change(what, x, a)
           n == Len(txs)
<1>1. /\ n \in Nat /\ DOMAIN txs = 1..n /\ DOMAIN Append(txs, x) = 1..(n + 1)
      /\ Append(txs, x)[n + 1] = x
      /\ \A i \in 1..n : Append(txs, x)[i] = txs[i] /\ txs[i] \in Txs
  OBVIOUS
<1>2. c \in Int /\ \A i \in 1..n : Change(what, txs[i], a) \in Int
  BY <1>1, ChangeTyped
<1>3. s \in Seq(Int) /\ Len(s) = n /\ \A i \in 1..n : s[i] = Change(what, txs[i], a)
  <2>1. s = [i \in 1..n |-> Change(what, txs[i], a)]
    BY <1>1 DEF ChangesOf
  <2>. QED  BY <1>1, <1>2, <2>1
<1>4. more \in Seq(Int) /\ Len(more) = n + 1
      /\ more[n + 1] = c /\ \A i \in 1..n : more[i] = Change(what, txs[i], a)
  <2>1. more = [i \in 1..(n + 1) |-> Change(what, Append(txs, x)[i], a)]
    BY <1>1 DEF ChangesOf
  <2>2. \A i \in 1..(n + 1) : Change(what, Append(txs, x)[i], a) \in Int
    BY <1>1, <1>2
  <2>. QED  BY <1>1, <2>1, <2>2
<1> HIDE DEF s, more, c, n
<1>5. more = Append(s, c)
  <2>1. /\ Append(s, c) \in Seq(Int) /\ Len(Append(s, c)) = n + 1
        /\ Append(s, c)[n + 1] = c /\ \A i \in 1..n : Append(s, c)[i] = s[i]
    BY <1>1, <1>2, <1>3
  <2>2. \A i \in 1..(n + 1) : more[i] = Append(s, c)[i]
    BY <1>1, <1>3, <1>4, <2>1
  <2>. QED  BY <1>4, <2>1, <2>2, SeqEqual
<1>6. SumOf(s) \in Int /\ SumOf(more) = SumOf(s) + c
  BY <1>2, <1>3, <1>5, SumAppend, SumTyped
<1>. QED  BY <1>6 DEF s, more, c, Changes

(* No transaction at all.                                                  *)
LEMMA ChangesNone ==
    ASSUME NEW what, NEW a
    PROVE  Changes(what, <<>>, a) = 0
<1>1. ChangesOf(what, <<>>, a) = <<>>
  BY DEF ChangesOf
<1>. QED  BY <1>1, SumTyped DEF Changes

(* Totals grow with each transaction, by what it changes.                  *)
LEMMA TotalAppend ==
    ASSUME NEW what, NEW txs, txs \in Seq(Txs), NEW x \in Txs, NEW a, NEW t
    PROVE  /\ Total(what, txs, a, t) \in Int
           /\ Total(what, Append(txs, x), a, t) = Total(what, txs, a, t) + ChangeOf(what, x, a, t)
<1> DEFINE Part(s, kind) == Changes(what, OfKind(s, t, kind), a)
           grown(kind) == IF IsOf(x, t, kind) THEN Change(what, x, a) ELSE 0
           more == Append(txs, x)
<1>1. ASSUME NEW kind
      PROVE  Part(txs, kind) \in Int /\ Part(more, kind) = Part(txs, kind) + grown(kind)
  <2> DEFINE s == OfKind(txs, t, kind)
  <2>1. s \in Seq(Txs)
    BY OfKindElements
  <2>2. OfKind(more, t, kind) = Kept(s, x, t, kind)
    BY OfKindAppend
  <2> HIDE DEF s, more
  <2>3. /\ Changes(what, s, a) \in Int
        /\ Changes(what, Append(s, x), a) = Changes(what, s, a) + Change(what, x, a)
    BY <2>1, ChangesAppend
  <2>. QED  BY <2>2, <2>3 DEF Kept, s
<1>2. x.type \in {"transfer", "deposit", "withdraw"} /\ Change(what, x, a) \in Int
  BY TxFields, ChangeTyped
<1>3. grown("transfer") + grown("deposit") + grown("withdraw") = ChangeOf(what, x, a, t)
  BY <1>2 DEF IsOf, ChangeOf
<1>4. /\ \A kind : Part(txs, kind) \in Int /\ grown(kind) \in Int
      /\ \A kind : Part(more, kind) = Part(txs, kind) + grown(kind)
  BY <1>1, <1>2
<1>5. /\ Total(what, txs, a, t) = Part(txs, "transfer") + Part(txs, "deposit") + Part(txs, "withdraw")
      /\ Total(what, more, a, t) = Part(more, "transfer") + Part(more, "deposit") + Part(more, "withdraw")
  BY DEF Total
<1> HIDE DEF Part, grown, more
<1>6. /\ Part(more, "transfer") = Part(txs, "transfer") + grown("transfer")
      /\ Part(more, "deposit") = Part(txs, "deposit") + grown("deposit")
      /\ Part(more, "withdraw") = Part(txs, "withdraw") + grown("withdraw")
      /\ Part(txs, "transfer") \in Int /\ grown("transfer") \in Int
      /\ Part(txs, "deposit") \in Int /\ grown("deposit") \in Int
      /\ Part(txs, "withdraw") \in Int /\ grown("withdraw") \in Int
  BY <1>4
<1>. QED  BY <1>3, <1>5, <1>6 DEF more

(* Nothing at first.                                                       *)
LEMMA TotalNone ==
    ASSUME NEW what, NEW a, NEW t
    PROVE  Total(what, <<>>, a, t) = 0
BY OfKindEmpty, ChangesNone DEF Total

(* What the tables show of an account, and of the place of a token in it.  *)
ViewOf(what, s, a, t) ==
    IF what = "balance" THEN BalanceOf(s, a, t)
    ELSE IF what = "transferNonce" THEN TransferNonceOf(s, a, t)
    ELSE WithdrawNonceOf(s, a, t)

HeldAt(what, s, a, j) ==
    IF what = "balance" THEN Bal(s, a, j)
    ELSE IF what = "transferNonce" THEN TNonce(s, a, j) ELSE WNonce(s, a, j)

(* The one is the other.                                                   *)
LEMMA ViewIsHeld ==
    ASSUME NEW what, NEW s, Consistent(s), NEW a, NEW t
    PROVE  /\ ViewOf(what, s, a, t) =
                  IF TokenMapped(s, t) THEN HeldAt(what, s, a, Slot(s, t)) ELSE 0
           /\ ViewOf(what, s, a, t) \in Nat
<1>1. ViewOf(what, s, a, t) = IF TokenMapped(s, t) THEN HeldAt(what, s, a, Slot(s, t)) ELSE 0
  BY ViewsAreHoldings DEF ViewOf, HeldAt
<1>2. TokenMapped(s, t) => HeldAt(what, s, a, Slot(s, t)) \in Nat
  BY SlotTyped, HoldingsTyped DEF HeldAt
<1>. QED  BY <1>1, <1>2

(* An accepted transaction changes what is shown of its token, and         *)
(* nothing else: two tokens have two places.                               *)
LEMMA ViewChanges ==
    ASSUME NEW s, Consistent(s), NEW reg, Numbered(s, reg), NEW r, Extends(r, s),
           NEW tx \in Txs, TokenMapped(s, tx.token), Adds(r, s, tx),
           NEW what \in Columns, NEW a, NEW t
    PROVE  ViewOf(what, r, a, t) = ViewOf(what, s, a, t) + ChangeOf(what, tx, a, t)
<1>1. Consistent(r) /\ r.tokenIndex = s.tokenIndex
  BY DEF Extends
<1>2. TokenMapped(r, t) <=> TokenMapped(s, t)
  BY <1>1 DEF TokenMapped
<1>3. Slot(r, t) = Slot(s, t)
  BY <1>1 DEF Slot
<1>4. CASE ~TokenMapped(s, t)
  <2>1. t # tx.token
    BY <1>4
  <2>. QED  BY <1>1, <1>2, <1>4, <2>1, ViewIsHeld DEF ChangeOf
<1>5. CASE TokenMapped(s, t)
  <2> DEFINE j == Slot(s, t)
  <2>1. j \in Nat
    BY <1>5, SlotTyped
  <2>2. j = Slot(s, tx.token) <=> t = tx.token
    BY <1>5 DEF Numbered, TokenMapped
  <2>3. HeldAt(what, s, a, j) \in Nat
    BY <2>1, HoldingsTyped DEF HeldAt
  <2> HIDE DEF j
  <2>4. /\ Bal(r, a, j) = Bal(s, a, j) + (IF t = tx.token THEN Gains(tx, a) ELSE 0)
        /\ TNonce(r, a, j) =
               TNonce(s, a, j) + (IF t = tx.token /\ UsesTransferNonce(tx, a) THEN 1 ELSE 0)
        /\ WNonce(r, a, j) =
               WNonce(s, a, j) + (IF t = tx.token /\ UsesWithdrawNonce(tx, a) THEN 1 ELSE 0)
    BY <2>1, <2>2 DEF Adds
  <2>5. HeldAt(what, r, a, j) = HeldAt(what, s, a, j) + ChangeOf(what, tx, a, t)
    <3>1. CASE what = "balance"
      BY <2>4, <3>1 DEF HeldAt, ChangeOf, Change
    <3>2. CASE what = "transferNonce"
      BY <2>4, <3>2 DEF HeldAt, ChangeOf, Change
    <3>3. CASE what = "withdrawNonce"
      BY <2>4, <3>3 DEF HeldAt, ChangeOf, Change
    <3>. QED  BY <3>1, <3>2, <3>3 DEF Columns
  <2>. QED  BY <1>1, <1>2, <1>3, <1>5, <2>5, ViewIsHeld DEF j
<1>. QED  BY <1>4, <1>5

(* The spender has the amount, and the nonce is the next.                  *)
Covers(tx, balance, nonce) ==
    tx.type # "deposit" => balance >= tx.amount /\ nonce = tx.nonce

NonceColumn(tx) == IF tx.type = "transfer" THEN "transferNonce" ELSE "withdrawNonce"

(* What the tables show covers the transaction: it is accepted.            *)
LEMMA CoveredAccepted ==
    ASSUME NEW s, Consistent(s), NEW tx \in Txs, TokenMapped(s, tx.token), tx.amount > 0,
           Covers(tx, ViewOf("balance", s, Spender(tx), tx.token),
                      ViewOf(NonceColumn(tx), s, Spender(tx), tx.token))
    PROVE  ApplyTransaction(s, tx).outcome = "ok"
<1> DEFINE t == tx.token
           index == s.tokenIndex[t]
<1>1. index \in Nat /\ tx.amount \in Nat /\ tx.amount > 0
  BY SlotTyped, TxFields
<1>2. CASE tx.type = "deposit"
  <2>1. tx \in DepositTxs
    BY <1>2, TxFields
  <2>. QED  BY <2>1, DepositApplied
<1>3. CASE tx.type = "withdraw"
  <2> DEFINE a == tx.account
             info == GetAccountInfo(s, a)
  <2>1. tx \in WithdrawTxs /\ a \in Accounts
    BY <1>3, TxFields
  <2>2. BalanceOf(s, a, t) >= tx.amount /\ WithdrawNonceOf(s, a, t) = tx.nonce
    BY <1>3 DEF Covers, ViewOf, NonceColumn, Spender
  <2>3. Holds(s, a, t)
    BY <1>1, <2>2 DEF BalanceOf
  <2>4. HasAccount(s, a) /\ index < Len(info.balances)
    BY <2>3 DEF Holds
  <2>5. info \in AccountInfo
    BY <2>4, GetAccountInfoProperties DEF HasAccount
  <2>6. Len(info.balances) \in Nat
    BY <2>5, AccountInfoTyped
  <2>7. info.balances[index + 1] >= tx.amount /\ info.withdrawNonces[index + 1] = tx.nonce
    BY <2>2, <2>3 DEF BalanceOf, WithdrawNonceOf
  <2> HIDE DEF index, info
  <2>8. index <= Len(info.balances) - 1
    BY <1>1, <2>4, <2>6
  <2>9. WithdrawAccepted(s, tx)
    BY <2>4, <2>7, <2>8 DEF WithdrawAccepted, index, info
  <2>. QED  BY <2>1, <2>9, WithdrawApplied
<1>4. CASE tx.type = "transfer"
  <2> DEFINE a == tx.sender
             r == RecipientReady(s, tx)
             info == GetAccountInfo(s, a)
  <2>1. tx \in TransferTxs /\ a \in Accounts /\ tx.recipient \in Accounts
    BY <1>4, TxFields
  <2>2. BalanceOf(s, a, t) >= tx.amount /\ TransferNonceOf(s, a, t) = tx.nonce
    BY <1>4 DEF Covers, ViewOf, NonceColumn, Spender
  <2>3. Holds(s, a, t)
    BY <1>1, <2>2 DEF BalanceOf
  <2>4. HasAccount(s, a) /\ index < Len(info.balances)
    BY <2>3 DEF Holds
  <2>5. info \in AccountInfo
    BY <2>4, GetAccountInfoProperties DEF HasAccount
  <2>6. Len(info.balances) \in Nat /\ Len(info.transferNonces) = Len(info.balances)
    BY <2>5, AccountInfoTyped
  <2>7. info.balances[index + 1] >= tx.amount /\ info.transferNonces[index + 1] = tx.nonce
    BY <2>2, <2>3 DEF BalanceOf, TransferNonceOf
  <2>8. /\ r = EnsureAccount(s, tx.recipient, index)
        /\ HasAccount(r, a) /\ GetAccountInfo(r, a) = info
    BY <1>1, <2>1, <2>4, EnsureHoldings DEF RecipientReady, HasAccount
  <2> HIDE DEF index, info, r
  <2>9. PassesBoundCheck(index, info) /\ index < Len(info.transferNonces)
    BY <1>1, <2>4, <2>6 DEF PassesBoundCheck
  <2>10. TransferAccepted(s, tx)
    BY <2>7, <2>8, <2>9 DEF TransferAccepted, index, r
  <2>11. ~TransferPanics(s, tx)
    <3>1. ~(index >= Len(info.transferNonces))
      BY <1>1, <2>6, <2>9
    <3>. QED  BY <2>8, <3>1 DEF TransferPanics, index, r
  <2>. QED  BY <2>1, <2>10, <2>11, TransferApplied
<1>. QED  BY <1>2, <1>3, <1>4, TxFields

(* What the contracts have in a column.                                    *)
SideOf(what) ==
    IF what = "balance" THEN side.balance
    ELSE IF what = "transferNonce" THEN side.transferNonce ELSE side.withdrawNonce

(* One entry of a table is set.                                            *)
LEMMA EntrySet ==
    ASSUME NEW f \in SideTables, NEW a \in Accounts, NEW t \in Tokens, NEW v \in Nat,
           NEW g, g = [f EXCEPT ![a][t] = v]
    PROVE  /\ g \in SideTables
           /\ \A b \in Accounts, u \in Tokens : g[b][u] = IF b = a /\ u = t THEN v ELSE f[b][u]
BY DEF SideTables

(* A contract emits what it covers, and changes as the transaction says.   *)
LEMMA SideMoves ==
    ASSUME IInv, SidechainNext
    PROVE  \E tx \in Txs :
              /\ Emit(tx)
              /\ Covers(tx, SideOf("balance")[Spender(tx)][tx.token],
                            SideOf(NonceColumn(tx))[Spender(tx)][tx.token])
              /\ "self" \notin faults' =>
                    \A what \in Columns, a \in Accounts, t \in Tokens :
                        SideOf(what)'[a][t] = SideOf(what)[a][t] + ChangeOf(what, tx, a, t)
<1>1. PICK a \in Accounts, t \in Tokens, n \in Amounts :
         ERC20Deposit(a, t, n) \/ ERC20Withdraw(a, t, n)
         \/ \E r \in Accounts : ERC20Transfer(a, r, t, n)
  BY DEF SidechainNext
<1>2. n \in Nat
  BY SequencerAssumption
<1>3. /\ DOMAIN side = {"balance", "transferNonce", "withdrawNonce"}
      /\ side.balance \in SideTables /\ side.transferNonce \in SideTables
      /\ side.withdrawNonce \in SideTables
  BY DEF IInv, TypeInv, SideTyped
<1>4. /\ side.transferNonce[a][t] \in Nat /\ side.withdrawNonce[a][t] \in Nat
      /\ \A b \in Accounts, u \in Tokens :
            /\ side.balance[b][u] \in Nat
            /\ side.transferNonce[b][u] \in Nat
            /\ side.withdrawNonce[b][u] \in Nat
  BY <1>3 DEF SideTables
<1>5. CASE ERC20Deposit(a, t, n)
  <2> DEFINE tx == DepositTx(a, t, n)
             v == side.balance[a][t] + n
  <2>1. tx \in Txs /\ Emit(tx)
    BY <1>2, <1>4, <1>5, TxsTyped DEF ERC20Deposit
  <2>2. tx.type = "deposit" /\ tx.account = a /\ tx.token = t /\ tx.amount = n
    BY DEF DepositTx
  <2>3. side'.balance = [side.balance EXCEPT ![a][t] = v]
        /\ side'.transferNonce = side.transferNonce /\ side'.withdrawNonce = side.withdrawNonce
    BY <1>3, <1>5 DEF ERC20Deposit
  <2>4. v \in Nat
    BY <1>2, <1>4
  <2> HIDE DEF tx
  <2>5. \A b \in Accounts, u \in Tokens :
            side'.balance[b][u] = IF b = a /\ u = t THEN v ELSE side.balance[b][u]
    <3> HIDE DEF v
    <3>. QED  BY <1>3, <2>3, <2>4, EntrySet
  <2>6. ASSUME NEW what \in Columns, NEW b \in Accounts, NEW u \in Tokens
        PROVE  SideOf(what)'[b][u] = SideOf(what)[b][u] + ChangeOf(what, tx, b, u)
    <3>1. ChangeOf(what, tx, b, u) = IF what = "balance" /\ b = a /\ u = t THEN n ELSE 0
      BY <2>2 DEF ChangeOf, Change, Gains, UsesTransferNonce, UsesWithdrawNonce
    <3>. QED  BY <1>2, <1>4, <2>3, <2>5, <3>1 DEF SideOf
  <2>. QED  BY <2>1, <2>2, <2>6 DEF Covers
<1>6. CASE ERC20Withdraw(a, t, n)
  <2> DEFINE c == side.withdrawNonce[a][t]
             tx == WithdrawTx(a, t, n, c)
             v == side.balance[a][t] - n
  <2>1. tx \in Txs /\ Emit(tx)
    BY <1>2, <1>4, <1>6, TxsTyped DEF ERC20Withdraw
  <2>2. /\ tx.type = "withdraw" /\ tx.account = a /\ tx.token = t /\ tx.amount = n /\ tx.nonce = c
        /\ Spender(tx) = a /\ NonceColumn(tx) = "withdrawNonce"
    BY DEF WithdrawTx, Spender, NonceColumn
  <2>3. /\ side'.balance = [side.balance EXCEPT ![a][t] = v]
        /\ side'.transferNonce = side.transferNonce
        /\ side'.withdrawNonce = [side.withdrawNonce EXCEPT ![a][t] = c + 1]
        /\ side.balance[a][t] >= n
    BY <1>3, <1>6 DEF ERC20Withdraw
  <2>4. v \in Nat /\ c \in Nat
    BY <1>2, <1>4, <2>3
  <2> HIDE DEF tx
  <2>5. \A b \in Accounts, u \in Tokens :
            /\ side'.balance[b][u] = IF b = a /\ u = t THEN v ELSE side.balance[b][u]
            /\ side'.withdrawNonce[b][u] = IF b = a /\ u = t THEN c + 1 ELSE side.withdrawNonce[b][u]
    <3> DEFINE d == c + 1
    <3>1. d \in Nat
      BY <2>4
    <3>2. \A b \in Accounts, u \in Tokens :
              side'.balance[b][u] = IF b = a /\ u = t THEN v ELSE side.balance[b][u]
      <4>1. side'.balance = [side.balance EXCEPT ![a][t] = v] /\ v \in Nat
        BY <2>3, <2>4
      <4> HIDE DEF v
      <4>. QED  BY <1>3, <4>1, EntrySet
    <3>3. side'.withdrawNonce = [side.withdrawNonce EXCEPT ![a][t] = d]
      BY <2>3
    <3>4. \A b \in Accounts, u \in Tokens :
              side'.withdrawNonce[b][u] = IF b = a /\ u = t THEN d ELSE side.withdrawNonce[b][u]
      <4> HIDE DEF d
      <4>. QED  BY <1>3, <3>1, <3>3, EntrySet
    <3>. QED  BY <3>2, <3>4
  <2>6. ASSUME NEW what \in Columns, NEW b \in Accounts, NEW u \in Tokens
        PROVE  SideOf(what)'[b][u] = SideOf(what)[b][u] + ChangeOf(what, tx, b, u)
    <3>1. ChangeOf(what, tx, b, u) =
              IF b = a /\ u = t /\ what = "balance" THEN -n
              ELSE IF b = a /\ u = t /\ what = "withdrawNonce" THEN 1 ELSE 0
      BY <2>2 DEF ChangeOf, Change, Gains, UsesTransferNonce, UsesWithdrawNonce, Columns
    <3>. QED  BY <1>2, <1>4, <2>3, <2>4, <2>5, <3>1 DEF SideOf, Columns
  <2>7. Covers(tx, SideOf("balance")[Spender(tx)][tx.token],
                   SideOf(NonceColumn(tx))[Spender(tx)][tx.token])
    BY <2>2, <2>3 DEF Covers, SideOf
  <2>. QED  BY <2>1, <2>6, <2>7
<1>7. ASSUME NEW r \in Accounts, ERC20Transfer(a, r, t, n)
      PROVE  \E tx \in Txs :
              /\ Emit(tx)
              /\ Covers(tx, SideOf("balance")[Spender(tx)][tx.token],
                            SideOf(NonceColumn(tx))[Spender(tx)][tx.token])
              /\ "self" \notin faults' =>
                    \A what \in Columns, b \in Accounts, u \in Tokens :
                        SideOf(what)'[b][u] = SideOf(what)[b][u] + ChangeOf(what, tx, b, u)
  <2> DEFINE c == side.transferNonce[a][t]
             tx == TransferTx(a, r, t, n, c)
             v == side.balance[a][t] - n
             debited == [side.balance EXCEPT ![a][t] = v]
             x == debited[r][t] + n
  <2>1. tx \in Txs /\ Emit(tx)
    BY <1>2, <1>4, <1>7, TxsTyped DEF ERC20Transfer
  <2>2. /\ tx.type = "transfer" /\ tx.sender = a /\ tx.recipient = r /\ tx.token = t
        /\ tx.amount = n /\ tx.nonce = c
        /\ Spender(tx) = a /\ NonceColumn(tx) = "transferNonce"
    BY DEF TransferTx, Spender, NonceColumn
  <2>3. /\ side'.balance = [debited EXCEPT ![r][t] = x]
        /\ side'.withdrawNonce = side.withdrawNonce
        /\ side'.transferNonce = [side.transferNonce EXCEPT ![a][t] = c + 1]
        /\ side.balance[a][t] >= n
    BY <1>3, <1>7 DEF ERC20Transfer
  <2>4. v \in Nat /\ c \in Nat /\ c + 1 \in Nat
    BY <1>2, <1>4, <2>3
  <2> HIDE DEF tx
  <2>5. /\ debited \in SideTables
        /\ \A b \in Accounts, u \in Tokens :
              debited[b][u] = IF b = a /\ u = t THEN v ELSE side.balance[b][u]
    <3> HIDE DEF v
    <3>. QED  BY <1>3, <2>4, EntrySet
  <2> HIDE DEF debited
  <2>6. x \in Nat
    BY <1>2, <2>5 DEF SideTables
  <2>7. \A b \in Accounts, u \in Tokens :
            /\ side'.balance[b][u] = IF b = r /\ u = t THEN x ELSE debited[b][u]
            /\ side'.transferNonce[b][u] = IF b = a /\ u = t THEN c + 1 ELSE side.transferNonce[b][u]
    <3> HIDE DEF x, c
    <3>. QED  BY <1>3, <2>3, <2>4, <2>5, <2>6, EntrySet
  <2>8. ASSUME "self" \notin faults', NEW what \in Columns, NEW b \in Accounts, NEW u \in Tokens
        PROVE  SideOf(what)'[b][u] = SideOf(what)[b][u] + ChangeOf(what, tx, b, u)
    <3>1. a # r
      BY <2>1, <2>2, <2>8 DEF Emit
    <3>2. ChangeOf(what, tx, b, u) =
              IF b = a /\ u = t /\ what = "balance" THEN -n
              ELSE IF b = r /\ u = t /\ what = "balance" THEN n
              ELSE IF b = a /\ u = t /\ what = "transferNonce" THEN 1 ELSE 0
      BY <2>2, <3>1 DEF ChangeOf, Change, Gains, UsesTransferNonce, UsesWithdrawNonce, Columns
    <3>3. /\ side.balance[b][u] \in Nat /\ side.transferNonce[b][u] \in Nat
          /\ side.withdrawNonce[b][u] \in Nat
      BY <1>4
    <3>4. CASE what = "balance"
      <4>1. x = side.balance[r][t] + n
        BY <2>5, <3>1
      <4>2. side'.balance[b][u] =
                IF b = r /\ u = t THEN side.balance[r][t] + n
                ELSE IF b = a /\ u = t THEN v ELSE side.balance[b][u]
        BY <2>5, <2>7, <4>1
      <4>. QED  BY <1>2, <3>1, <3>2, <3>3, <3>4, <4>2 DEF SideOf
    <3>5. CASE what = "transferNonce"
      BY <2>4, <2>7, <3>1, <3>2, <3>3, <3>5 DEF SideOf
    <3>6. CASE what = "withdrawNonce"
      BY <2>3, <3>2, <3>3, <3>6 DEF SideOf
    <3>. QED  BY <3>4, <3>5, <3>6 DEF Columns
  <2>9. Covers(tx, SideOf("balance")[Spender(tx)][tx.token],
                   SideOf(NonceColumn(tx))[Spender(tx)][tx.token])
    BY <2>2, <2>3 DEF Covers, SideOf
  <2>. QED  BY <2>1, <2>8, <2>9
<1>. QED  BY <1>1, <1>5, <1>6, <1>7

(* What was emitted adds up to what the contracts have.                    *)
SideAdded ==
    "self" \notin faults =>
        \A what \in Columns, a \in Accounts, t \in Tokens :
            SideOf(what)[a][t] = Total(what, emitted, a, t)

(* What the transactions before it add up to covers a transaction.         *)
CoveredBy(txs, tx) ==
    /\ tx.amount > 0
    /\ Covers(tx, Total("balance", txs, Spender(tx), tx.token),
                  Total(NonceColumn(tx), txs, Spender(tx), tx.token))

EmittedCovered ==
    faults \cap {"self", "nothing"} = {} =>
        \A n \in 0..(Len(emitted) - 1) : CoveredBy(SubSeq(emitted, 1, n), emitted[n + 1])

(* A beginning is the same in a longer sequence.                           *)
LEMMA BeginningKept ==
    ASSUME NEW s \in Seq(Txs), NEW x \in Txs, NEW n \in Nat, n <= Len(s)
    PROVE  SubSeq(Append(s, x), 1, n) = SubSeq(s, 1, n)
<1> DEFINE more == Append(s, x)
           b == SubSeq(more, 1, n)
           c == SubSeq(s, 1, n)
<1>1. more \in Seq(Txs) /\ Len(more) = Len(s) + 1 /\ \A i \in 1..n : more[i] = s[i]
  OBVIOUS
<1>2. b \in Seq(Txs) /\ Len(b) = n /\ \A i \in 1..n : b[i] = more[i]
  BY <1>1
<1>3. c \in Seq(Txs) /\ Len(c) = n /\ \A i \in 1..n : c[i] = s[i]
  OBVIOUS
<1> HIDE DEF more, b, c
<1>4. b = c
  BY <1>1, <1>2, <1>3, SeqEqual
<1>. QED  BY <1>4 DEF more, b, c

(* All of a sequence is its last beginning.                                *)
LEMMA BeginningWhole ==
    ASSUME NEW s \in Seq(Txs)
    PROVE  SubSeq(s, 1, Len(s)) = s
OBVIOUS

(* The contracts keep their sums, and what they emit is covered.           *)
LEMMA SidechainSums ==
    ASSUME IInv, SideAdded, EmittedCovered, SidechainNext
    PROVE  SideAdded' /\ EmittedCovered'
<1>1. PICK tx \in Txs :
              /\ Emit(tx)
              /\ Covers(tx, SideOf("balance")[Spender(tx)][tx.token],
                            SideOf(NonceColumn(tx))[Spender(tx)][tx.token])
              /\ "self" \notin faults' =>
                    \A what \in Columns, a \in Accounts, t \in Tokens :
                        SideOf(what)'[a][t] = SideOf(what)[a][t] + ChangeOf(what, tx, a, t)
  BY SideMoves
<1>2. /\ emitted' = Append(emitted, tx) /\ faults \subseteq faults'
      /\ tx.amount = 0 => "nothing" \in faults'
  BY <1>1 DEF Emit
<1>3. emitted \in Seq(Txs) /\ Len(emitted) \in Nat
      /\ Len(emitted') = Len(emitted) + 1 /\ emitted'[Len(emitted) + 1] = tx
      /\ \A i \in 1..Len(emitted) : emitted'[i] = emitted[i]
  BY <1>2 DEF IInv, TypeInv
<1>4. Spender(tx) \in Accounts /\ tx.token \in Tokens /\ tx.amount \in Nat
      /\ NonceColumn(tx) \in Columns /\ "balance" \in Columns
  BY TxFields DEF Spender, NonceColumn, Columns
<1>5. SideAdded'
  <2> SUFFICES ASSUME "self" \notin faults',
                      NEW what \in Columns, NEW a \in Accounts, NEW t \in Tokens
               PROVE  SideOf(what)'[a][t] = Total(what, emitted', a, t)
    BY DEF SideAdded
  <2>1. SideOf(what)[a][t] = Total(what, emitted, a, t)
    BY <1>2 DEF SideAdded
  <2>2. Total(what, Append(emitted, tx), a, t)
          = Total(what, emitted, a, t) + ChangeOf(what, tx, a, t)
    BY <1>3, TotalAppend
  <2>. QED  BY <1>1, <1>2, <2>1, <2>2
<1>6. EmittedCovered'
  <2> SUFFICES ASSUME faults' \cap {"self", "nothing"} = {},
                      NEW n \in 0..(Len(emitted') - 1)
               PROVE  CoveredBy(SubSeq(emitted', 1, n), emitted'[n + 1])
    BY DEF EmittedCovered
  <2>1. faults \cap {"self", "nothing"} = {} /\ "self" \notin faults /\ tx.amount > 0
    BY <1>2, <1>4
  <2>2. n \in Nat /\ n <= Len(emitted) /\ SubSeq(emitted', 1, n) = SubSeq(emitted, 1, n)
    BY <1>2, <1>3, BeginningKept
  <2>3. CASE n < Len(emitted)
    <3>1. n \in 0..(Len(emitted) - 1) /\ emitted'[n + 1] = emitted[n + 1]
      BY <1>3, <2>2, <2>3
    <3>. QED  BY <2>1, <2>2, <3>1 DEF EmittedCovered
  <2>4. CASE n = Len(emitted)
    <3>1. SubSeq(emitted', 1, n) = emitted /\ emitted'[n + 1] = tx
      BY <1>3, <2>2, <2>4, BeginningWhole
    <3>2. \A what \in Columns :
              SideOf(what)[Spender(tx)][tx.token] = Total(what, emitted, Spender(tx), tx.token)
      BY <1>4, <2>1 DEF SideAdded
    <3>. QED  BY <1>1, <1>4, <2>1, <3>1, <3>2 DEF CoveredBy
  <2>. QED  BY <1>3, <2>2, <2>3, <2>4
<1>. QED  BY <1>5, <1>6

AllAccepted == \A i \in DOMAIN processed : processed[i].outcome = "ok"

(* What was processed adds up to what the tables show, if all of it was    *)
(* accepted.                                                               *)
TablesAdded ==
    AllAccepted =>
        \A what \in Columns, a \in Accounts, t \in Tokens :
            ViewOf(what, st, a, t) = Total(what, Transactions, a, t)

(* The tables grow by the transaction that is processed.                   *)
LEMMA ProcessTables ==
    ASSUME IInv, TablesAdded, Process
    PROVE  TablesAdded'
<1> DEFINE tx == Head(queue)
           n == Len(processed)
           u == ApplyTransaction(st, tx)
<1>1. /\ tx \in Txs /\ st' = u.st
      /\ n \in Nat /\ DOMAIN processed = 1..n /\ DOMAIN processed' = 1..(n + 1)
      /\ processed'[n + 1].outcome = u.outcome
      /\ \A i \in 1..n : processed'[i] = processed[i]
      /\ Transactions \in Seq(Txs) /\ Transactions' = Append(Transactions, tx)
  BY ProcessMoves
<1>2. Consistent(st) /\ Numbered(st, TokenOrder)
  BY DEF IInv, TablesInv
<1>3. u.outcome = "ok" => Extends(u.st, st) /\ TokenMapped(st, tx.token) /\ Adds(u.st, st, tx)
  BY <1>1, <1>2, Applied
<1> HIDE DEF tx, n, u
<1>4. SUFFICES ASSUME AllAccepted', NEW what \in Columns, NEW a \in Accounts, NEW t \in Tokens
               PROVE  ViewOf(what, st', a, t) = Total(what, Transactions', a, t)
  BY DEF TablesAdded
<1>5. u.outcome = "ok" /\ AllAccepted
  BY <1>1, <1>4 DEF AllAccepted
<1>6. ViewOf(what, st, a, t) = Total(what, Transactions, a, t)
  BY <1>5 DEF TablesAdded
<1>7. ViewOf(what, u.st, a, t) = ViewOf(what, st, a, t) + ChangeOf(what, tx, a, t)
  BY <1>1, <1>2, <1>3, <1>5, ViewChanges
<1>8. Total(what, Append(Transactions, tx), a, t)
        = Total(what, Transactions, a, t) + ChangeOf(what, tx, a, t)
  <2> HIDE DEF Transactions
  <2>. QED  BY <1>1, TotalAppend
<1>. QED  BY <1>1, <1>6, <1>7, <1>8

(* A token that gets its index shows zeros, as it did without.             *)
LEMMA ObserveTokenTables ==
    ASSUME IInv, TablesAdded, NEW i \in DOMAIN TokenOrder, ObserveToken(i)
    PROVE  TablesAdded'
<1> DEFINE x == TokenOrder[i]
           r == Observed(st, x, i - 1)
<1>1. i - 1 \in Nat /\ (i - 1) + 1 = i /\ x \in Tokens
  BY SequencerAssumption
<1>2. st' = r /\ ~TokenMapped(st, x) /\ UNCHANGED processed
  BY DEF ObserveToken, Observed
<1>3. Consistent(st) /\ Numbered(st, TokenOrder) /\ UnmappedEmpty(st)
  BY DEF IInv, TablesInv
<1>4. /\ Consistent(r) /\ r.tokenIndex = Put(st.tokenIndex, x, i - 1)
      /\ \A b : SameHoldings(r, st, b)
  <2> DEFINE d == i - 1
  <2> HIDE DEF d
  <2>1. /\ Consistent(Observed(st, x, d))
        /\ Observed(st, x, d).tokenIndex = Put(st.tokenIndex, x, d)
        /\ \A b : SameHoldings(Observed(st, x, d), st, b)
    BY <1>1, <1>3, ObservedProperties DEF d
  <2>. QED  BY <2>1 DEF d
<1>5. /\ DOMAIN r.tokenIndex = DOMAIN st.tokenIndex \cup {x}
      /\ r.tokenIndex[x] = i - 1
      /\ \A t \in DOMAIN st.tokenIndex : r.tokenIndex[t] = st.tokenIndex[t]
  <2> HIDE DEF r
  <2>. QED  BY <1>2, <1>4 DEF Put, TokenMapped
<1> HIDE DEF r
<1>6. ASSUME NEW what \in Columns, NEW a \in Accounts, NEW t \in Tokens
      PROVE  ViewOf(what, r, a, t) = ViewOf(what, st, a, t)
  <2>1. \A j \in Nat : HeldAt(what, r, a, j) = HeldAt(what, st, a, j)
    BY <1>4 DEF HeldAt, SameHoldings
  <2>2. CASE TokenMapped(st, t)
    <3>1. TokenMapped(r, t) /\ Slot(r, t) = Slot(st, t)
      BY <1>5, <2>2 DEF TokenMapped, Slot
    <3>2. Slot(st, t) \in Nat
      BY <1>3, <2>2, SlotTyped
    <3>. QED  BY <1>3, <1>4, <2>1, <2>2, <3>1, <3>2, ViewIsHeld
  <2>3. CASE t = x
    <3>1. TokenMapped(r, t) /\ Slot(r, t) = i /\ i \in Nat
      BY <1>1, <1>5, <2>3 DEF TokenMapped, Slot
    <3>2. Unmapped(st, i)
      BY <1>2, <1>3 DEF Unmapped, Numbered, TokenMapped
    <3>3. HeldAt(what, st, a, i) = 0
      BY <1>3, <3>1, <3>2 DEF UnmappedEmpty, EmptyAt, HeldAt
    <3>. QED  BY <1>2, <1>3, <1>4, <2>1, <2>3, <3>1, <3>3, ViewIsHeld
  <2>4. CASE ~TokenMapped(st, t) /\ t # x
    <3>1. ~TokenMapped(r, t)
      BY <1>5, <2>4 DEF TokenMapped
    <3>. QED  BY <1>3, <1>4, <2>4, <3>1, ViewIsHeld
  <2>. QED  BY <2>2, <2>3, <2>4
<1>. QED  BY <1>2, <1>6 DEF TablesAdded, AllAccepted, Transactions

(* The tables are read back as they were.                                  *)
LEMMA RestartTables ==
    ASSUME IInv, TablesAdded, Restart
    PROVE  TablesAdded'
<1> DEFINE r == Reopened(st)
<1>1. st' = r /\ UNCHANGED processed /\ Consistent(st)
  BY DEF Restart, IInv, TablesInv
<1>2. Consistent(r) /\ r.tokenIndex = st.tokenIndex /\ \A b : SameHoldings(r, st, b)
  BY <1>1, ReopenedHoldings
<1> HIDE DEF r
<1>3. ASSUME NEW what \in Columns, NEW a \in Accounts, NEW t \in Tokens
      PROVE  ViewOf(what, r, a, t) = ViewOf(what, st, a, t)
  <2>1. \A j \in Nat : HeldAt(what, r, a, j) = HeldAt(what, st, a, j)
    BY <1>2 DEF HeldAt, SameHoldings
  <2>2. (TokenMapped(r, t) <=> TokenMapped(st, t)) /\ Slot(r, t) = Slot(st, t)
    BY <1>2 DEF TokenMapped, Slot
  <2>3. TokenMapped(st, t) => Slot(st, t) \in Nat
    BY <1>1, SlotTyped
  <2>. QED  BY <1>1, <1>2, <2>1, <2>2, <2>3, ViewIsHeld
<1>. QED  BY <1>1, <1>3 DEF TablesAdded, AllAccepted, Transactions

(* Sums of naturals are, and no less than any of what they add up.         *)
LEMMA SumOfNaturals ==
    ASSUME NEW s, s \in Seq(Nat)
    PROVE  /\ SumOf(s) \in Nat
           /\ \A k \in 1..Len(s) : s[k] <= SumOf(s)
<1>1. ASSUME NEW r, r \in Seq(Nat)
      PROVE  SumOf(r) \in Nat
  <2>1. r \in Seq(Int) /\ Len(r) \in Nat /\ \A n \in 1..Len(r) : r[n] \in Nat
    BY <1>1
  <2>2. PICK f : Adding(f, r) /\ SumOf(r) = f[Len(r)]
    BY <2>1, SumUnfolds
  <2> DEFINE S == { n \in Nat : f[n] \in Nat }
             N == Len(r)
  <2>3. 0 \in S
    BY <2>2 DEF Adding
  <2>4. ASSUME NEW n \in 0..(N - 1), n \in S PROVE n + 1 \in S
    <3>1. n + 1 \in 1..N /\ (n + 1) - 1 = n
      BY <2>1
    <3>2. f[n + 1] = f[n] + r[n + 1]
      BY <2>2, <3>1 DEF Adding
    <3>. QED  BY <2>1, <2>4, <3>1, <3>2
  <2> HIDE DEF S, N
  <2>5. \A n \in 0..N : n \in S
    BY <2>1, <2>3, <2>4, InductionTo DEF N
  <2>. QED  BY <2>1, <2>2, <2>5 DEF S, N
<1>2. ASSUME NEW k \in 1..Len(s)
      PROVE  s[k] <= SumOf(s)
  <2> DEFINE r == [s EXCEPT ![k] = 0]
  <2>1. /\ r \in Seq(Nat) /\ Len(r) = Len(s) /\ r[k] = 0
        /\ \A n \in 1..Len(s) : n # k => r[n] = s[n]
    OBVIOUS
  <2> HIDE DEF r
  <2>2. s \in Seq(Int) /\ r \in Seq(Int) /\ s[k] \in Nat
    BY <2>1
  <2>3. SumOf(r) = SumOf(s) - s[k] + r[k]
    BY <2>1, <2>2, SumsDiffer
  <2>4. SumOf(r) \in Nat /\ SumOf(s) \in Nat
    BY <1>1, <2>1
  <2>. QED  BY <2>1, <2>2, <2>3, <2>4
<1>. QED  BY <1>1, <1>2

(* What a watcher has still to take from a stream, and to queue in all.    *)
LeftOf(events, w, kind) == Len(OfKind(events, w.token, kind)) - w.next[kind]

BacklogOf(events, w) ==
    Len(w.held)
      + LeftOf(events, w, "transfer") + LeftOf(events, w, "deposit") + LeftOf(events, w, "withdraw")

BacklogsOf(events, ws) == [i \in DOMAIN ws |-> BacklogOf(events, ws[i])]

(* Every event is processed, queued, held or still in a stream.            *)
Counted ==
    Untroubled =>
        Len(emitted) = Len(processed) + Len(queue) + SumOf(BacklogsOf(emitted, watchers))

(* Backlogs are integers.                                                  *)
LEMMA BacklogsTyped ==
    ASSUME NEW events \in Seq(Txs), NEW ws, ws \in Seq(Watchers)
    PROVE  /\ BacklogsOf(events, ws) \in Seq(Int)
           /\ Len(BacklogsOf(events, ws)) = Len(ws)
           /\ \A i \in DOMAIN ws : BacklogsOf(events, ws)[i] = BacklogOf(events, ws[i])
           /\ \A w \in Watchers, kind \in KindSet :
                 LeftOf(events, w, kind) \in Int /\ Len(w.held) \in Nat
<1>1. KindSet = {"transfer", "deposit", "withdraw"}
  BY DEF KindSet, Kinds
<1>2. ASSUME NEW w \in Watchers, NEW kind \in KindSet
      PROVE  LeftOf(events, w, kind) \in Int /\ Len(w.held) \in Nat
  <2>1. w.next[kind] \in Nat /\ w.held \in Seq(Txs)
    BY DEF Watchers
  <2>2. OfKind(events, w.token, kind) \in Seq(Txs)
    BY OfKindElements
  <2>. QED  BY <2>1, <2>2 DEF LeftOf
<1>3. ASSUME NEW w \in Watchers PROVE BacklogOf(events, w) \in Int
  <2>1. /\ LeftOf(events, w, "transfer") \in Int /\ LeftOf(events, w, "deposit") \in Int
        /\ LeftOf(events, w, "withdraw") \in Int /\ Len(w.held) \in Int
    BY <1>1, <1>2
  <2>. QED  BY <2>1 DEF BacklogOf
<1>4. /\ DOMAIN ws = 1..Len(ws) /\ Len(ws) \in Nat
      /\ \A i \in DOMAIN ws : ws[i] \in Watchers
  OBVIOUS
<1>5. \A i \in 1..Len(ws) : BacklogOf(events, ws[i]) \in Int
  BY <1>3, <1>4
<1>6. BacklogsOf(events, ws) = [i \in 1..Len(ws) |-> BacklogOf(events, ws[i])]
  BY <1>4 DEF BacklogsOf
<1>. QED  BY <1>2, <1>4, <1>5, <1>6

(* An event is one more for the watchers of its token.                     *)
LEMMA BacklogGrows ==
    ASSUME NEW events \in Seq(Txs), NEW x \in Txs, NEW w \in Watchers
    PROVE  BacklogOf(Append(events, x), w)
             = BacklogOf(events, w) + (IF x.token = w.token THEN 1 ELSE 0)
<1> DEFINE grown(kind) == IF IsOf(x, w.token, kind) THEN 1 ELSE 0
           more == Append(events, x)
<1>1. ASSUME NEW kind \in KindSet
      PROVE  /\ LeftOf(more, w, kind) = LeftOf(events, w, kind) + grown(kind)
             /\ LeftOf(events, w, kind) \in Int
  <2> DEFINE s == OfKind(events, w.token, kind)
  <2>1. s \in Seq(Txs) /\ w.next[kind] \in Nat
    BY OfKindElements DEF Watchers
  <2>2. OfKind(more, w.token, kind) = Kept(s, x, w.token, kind)
    BY OfKindAppend
  <2> HIDE DEF s, more
  <2>3. Len(Kept(s, x, w.token, kind)) = Len(s) + grown(kind) /\ Len(s) \in Nat
    BY <2>1 DEF Kept
  <2>. QED  BY <2>1, <2>2, <2>3 DEF LeftOf, s
<1>2. x.type \in {"transfer", "deposit", "withdraw"}
  BY TxFields
<1>3. grown("transfer") + grown("deposit") + grown("withdraw")
        = IF x.token = w.token THEN 1 ELSE 0
  BY <1>2 DEF IsOf
<1>4. KindSet = {"transfer", "deposit", "withdraw"} /\ Len(w.held) \in Nat
  BY DEF KindSet, Kinds, Watchers
<1>5. /\ grown("transfer") \in Nat /\ grown("deposit") \in Nat /\ grown("withdraw") \in Nat
  OBVIOUS
<1> HIDE DEF grown, more
<1>6. /\ LeftOf(more, w, "transfer") = LeftOf(events, w, "transfer") + grown("transfer")
      /\ LeftOf(more, w, "deposit") = LeftOf(events, w, "deposit") + grown("deposit")
      /\ LeftOf(more, w, "withdraw") = LeftOf(events, w, "withdraw") + grown("withdraw")
      /\ LeftOf(events, w, "transfer") \in Int /\ LeftOf(events, w, "deposit") \in Int
      /\ LeftOf(events, w, "withdraw") \in Int
  BY <1>1, <1>4
<1>. QED  BY <1>3, <1>4, <1>5, <1>6, SMTT(30) DEF BacklogOf, more

(* What is emitted is seen by one watcher.                                 *)
LEMMA SidechainCounted ==
    ASSUME IInv, StreamInv, Counted, SidechainNext
    PROVE  Counted'
<1>1. PICK tx \in Txs : Emit(tx)
  BY SidechainEmits
<1> DEFINE more == Append(emitted, tx)
           before == BacklogsOf(emitted, watchers)
           after == BacklogsOf(more, watchers)
<1>2. /\ emitted' = more /\ UNCHANGED <<watchers, queue, processed>> /\ faults \subseteq faults'
      /\ ~Watched(tx.token) => "missed" \in faults'
  BY <1>1 DEF Emit
<1>3. emitted \in Seq(Txs) /\ watchers \in Seq(Watchers) /\ more \in Seq(Txs)
      /\ Len(more) = Len(emitted) + 1 /\ Len(emitted) \in Nat
      /\ Len(processed) \in Nat /\ Len(queue) \in Nat
      /\ DOMAIN watchers = 1..Len(watchers)
  BY DEF IInv, TypeInv
<1>4. SUFFICES ASSUME Untroubled'
               PROVE  Len(more) = Len(processed) + Len(queue) + SumOf(after)
  BY <1>2 DEF Counted
<1>5. Untroubled /\ "missed" \notin faults' /\ "remapped" \notin faults
  BY <1>2, <1>4 DEF Untroubled
<1>6. PICK w \in DOMAIN watchers : watchers[w].token = tx.token
  BY <1>2, <1>5 DEF Watched
<1>7. \A v \in DOMAIN watchers : v # w => watchers[v].token # tx.token
  BY <1>5, <1>6 DEF StreamInv, OneWatcher
<1> HIDE DEF more
<1>8. /\ before \in Seq(Int) /\ Len(before) = Len(watchers)
      /\ after \in Seq(Int) /\ Len(after) = Len(watchers)
      /\ \A v \in DOMAIN watchers :
            /\ before[v] = BacklogOf(emitted, watchers[v])
            /\ after[v] = BacklogOf(more, watchers[v])
  BY <1>3, BacklogsTyped
<1>9. \A v \in DOMAIN watchers : after[v] = before[v] + (IF v = w THEN 1 ELSE 0)
  <2> SUFFICES ASSUME NEW v \in DOMAIN watchers
               PROVE  after[v] = before[v] + (IF v = w THEN 1 ELSE 0)
    OBVIOUS
  <2>1. watchers[v] \in Watchers
    BY <1>3
  <2>2. BacklogOf(more, watchers[v])
          = BacklogOf(emitted, watchers[v]) + (IF tx.token = watchers[v].token THEN 1 ELSE 0)
    BY <1>3, <2>1, BacklogGrows DEF more
  <2> HIDE DEF before, after
  <2>. QED  BY <1>6, <1>7, <1>8, <2>2
<1> HIDE DEF before, after
<1>10. \A v \in 1..Len(before) : before[v] \in Int
  BY <1>8
<1>11. SumOf(after) = SumOf(before) - before[w] + after[w]
  <2>1. ASSUME NEW v \in 1..Len(before), v # w PROVE after[v] = before[v]
    <3>1. v \in DOMAIN watchers /\ before[v] \in Int
      BY <1>3, <1>8, <1>10
    <3>2. after[v] = before[v] + 0
      BY <1>9, <2>1, <3>1
    <3>. QED  BY <3>1, <3>2
  <2>2. w \in 1..Len(before)
    BY <1>3, <1>8
  <2>. QED  BY <1>8, <2>1, <2>2, SumsDiffer
<1>12. SumOf(before) \in Int /\ before[w] \in Int /\ after[w] = before[w] + 1
  BY <1>3, <1>8, <1>9, <1>10, SumTyped
<1>13. Len(emitted) = Len(processed) + Len(queue) + SumOf(before)
  BY <1>5 DEF Counted, before
<1>. QED  BY <1>3, <1>11, <1>12, <1>13

(* A new watcher of a token that has none has nothing to catch up with.    *)
LEMMA WatchCounted ==
    ASSUME IInv, StreamInv, Counted, NEW t \in Tokens, Watch(t)
    PROVE  Counted'
<1> DEFINE new == NewWatcher(t)
           before == BacklogsOf(emitted, watchers)
           after == BacklogsOf(emitted, watchers')
<1>1. /\ watchers' = Append(watchers, new) /\ UNCHANGED <<emitted, queue, processed>>
      /\ faults' = IF t \in mapped THEN faults \cup {"remapped"} ELSE faults
  BY DEF Watch
<1>2. emitted \in Seq(Txs) /\ watchers \in Seq(Watchers) /\ watchers' \in Seq(Watchers)
  BY WatchIInv DEF IInv, TypeInv, Watch
<1>3. SUFFICES ASSUME Untroubled'
               PROVE  Len(emitted) = Len(processed) + Len(queue) + SumOf(after)
  BY <1>1 DEF Counted
<1>4. Untroubled /\ t \notin mapped
  BY <1>1, <1>3 DEF Untroubled
<1>5. \A i \in DOMAIN emitted : emitted[i].token # t
  BY <1>4 DEF StreamInv, EmittedWatched, Untroubled, Watched, OfMapped
<1>6. \A kind : OfKind(emitted, t, kind) = <<>>
  BY <1>2, <1>5, OfKindNone DEF IsOf
<1>7. BacklogOf(emitted, new) = 0
  <2>1. new.token = t /\ new.held = <<>> /\ \A kind \in KindSet : new.next[kind] = 0
    BY DEF NewWatcher
  <2>2. KindSet = {"transfer", "deposit", "withdraw"} /\ Len(<<>>) = 0
    BY DEF KindSet, Kinds
  <2> HIDE DEF new
  <2>. QED  BY <1>6, <2>1, <2>2 DEF BacklogOf, LeftOf
<1> HIDE DEF new
<1>8. /\ before \in Seq(Int) /\ Len(before) = Len(watchers)
      /\ after \in Seq(Int) /\ Len(after) = Len(watchers')
      /\ \A v \in DOMAIN watchers : before[v] = BacklogOf(emitted, watchers[v])
      /\ \A v \in DOMAIN watchers' : after[v] = BacklogOf(emitted, watchers'[v])
  BY <1>2, BacklogsTyped
<1> HIDE DEF before, after
<1> DEFINE n == Len(watchers)
<1>9. /\ n \in Nat /\ DOMAIN watchers = 1..n /\ DOMAIN watchers' = 1..(n + 1)
      /\ Len(watchers') = n + 1 /\ watchers'[n + 1] = new
      /\ \A v \in 1..n : watchers'[v] = watchers[v]
  BY <1>1, <1>2
<1> HIDE DEF n
<1>10. Append(before, 0) = after
  <2> DEFINE e == Append(before, 0)
  <2>1. /\ e \in Seq(Int) /\ Len(e) = n + 1 /\ e[n + 1] = 0
        /\ \A v \in 1..n : e[v] = before[v]
    BY <1>8 DEF n
  <2> HIDE DEF e
  <2>2. ASSUME NEW v \in 1..(n + 1) PROVE e[v] = after[v]
    <3>1. CASE v \in 1..n
      BY <1>8, <1>9, <2>1, <3>1
    <3>2. CASE v = n + 1
      BY <1>7, <1>8, <1>9, <2>1, <3>2
    <3>. QED  BY <1>9, <3>1, <3>2
  <2>3. e = after
    BY <1>8, <1>9, <2>1, <2>2, SeqEqual
  <2>. QED  BY <2>3 DEF e
<1>11. SumOf(after) = SumOf(before) + 0 /\ SumOf(before) \in Int
  <2> DEFINE none == 0
  <2>1. none \in Int /\ after = Append(before, none)
    BY <1>10
  <2> HIDE DEF none
  <2>2. SumOf(after) = SumOf(before) + none
    BY <1>8, <2>1, SumAppend
  <2>. QED  BY <1>8, <2>2, SumTyped DEF none
<1>. QED  BY <1>4, <1>11 DEF Counted, before

(* A step of a watcher changes the sum by what it changes of its backlog.  *)
LEMMA WatcherCounts ==
    ASSUME IInv, StreamInv, NEW w \in DOMAIN watchers,
           Watcher(w) \/ \E kind \in KindSet : Close(w, kind)
    PROVE  SumOf(BacklogsOf(emitted, watchers'))
             = SumOf(BacklogsOf(emitted, watchers))
                 - BacklogOf(emitted, watchers[w]) + BacklogOf(emitted, watchers'[w])
<1> DEFINE before == BacklogsOf(emitted, watchers)
           after == BacklogsOf(emitted, watchers')
<1>1. TypeInv /\ emitted \in Seq(Txs) /\ watchers \in Seq(Watchers)
  BY DEF IInv, TypeInv
<1>2. /\ DOMAIN watchers' = DOMAIN watchers
      /\ Len(watchers') = Len(watchers)
      /\ \A v \in DOMAIN watchers : v # w => watchers'[v] = watchers[v]
      /\ watchers' \in Seq(Watchers)
  BY <1>1, WatcherSteps
<1>3. /\ before \in Seq(Int) /\ Len(before) = Len(watchers)
      /\ after \in Seq(Int) /\ Len(after) = Len(watchers)
      /\ \A v \in DOMAIN watchers : before[v] = BacklogOf(emitted, watchers[v])
      /\ \A v \in DOMAIN watchers : after[v] = BacklogOf(emitted, watchers'[v])
  BY <1>1, <1>2, BacklogsTyped
<1>4. DOMAIN watchers = 1..Len(before) /\ w \in 1..Len(before)
  BY <1>1, <1>3
<1> HIDE DEF before, after
<1>5. \A v \in 1..Len(before) : v # w => after[v] = before[v]
  BY <1>2, <1>3, <1>4
<1>6. SumOf(after) = SumOf(before) - before[w] + after[w]
  BY <1>3, <1>4, <1>5, SumsDiffer
<1>. QED  BY <1>3, <1>6 DEF before, after

(* The numbers the counting is about.                                      *)
LEMMA CountsTyped ==
    ASSUME IInv
    PROVE  /\ Len(emitted) \in Nat /\ Len(processed) \in Nat /\ Len(queue) \in Nat
           /\ SumOf(BacklogsOf(emitted, watchers)) \in Int
           /\ \A w \in DOMAIN watchers : BacklogOf(emitted, watchers[w]) \in Int
<1> DEFINE b == BacklogsOf(emitted, watchers)
<1>1. /\ emitted \in Seq(Txs) /\ watchers \in Seq(Watchers)
      /\ Len(emitted) \in Nat /\ Len(processed) \in Nat /\ Len(queue) \in Nat
  BY DEF IInv, TypeInv
<1>2. /\ b \in Seq(Int) /\ Len(b) = Len(watchers)
      /\ \A w \in DOMAIN watchers : b[w] = BacklogOf(emitted, watchers[w])
  BY <1>1, BacklogsTyped
<1>3. DOMAIN watchers = 1..Len(b)
  BY <1>1, <1>2
<1> HIDE DEF b
<1>4. \A i \in 1..Len(b) : b[i] \in Int
  BY <1>2
<1>. QED  BY <1>1, <1>2, <1>3, <1>4, SumTyped DEF b

(* d counts what a watcher took of each kind.                              *)
Advanced(old, new, d) ==
    new.token = old.token /\ \A kind \in KindSet : new.next[kind] = old.next[kind] + d[kind]

(* A backlog shrinks by what is taken and grows by what is held.           *)
LEMMA BacklogChanges ==
    ASSUME NEW events \in Seq(Txs), NEW old \in Watchers, NEW new \in Watchers,
           NEW d \in [KindSet -> Int], Advanced(old, new, d)
    PROVE  BacklogOf(events, new)
             = BacklogOf(events, old) + (Len(new.held) - Len(old.held))
                 - (d["transfer"] + d["deposit"] + d["withdraw"])
<1>1. KindSet = {"transfer", "deposit", "withdraw"}
  BY DEF KindSet, Kinds
<1>2. ASSUME NEW kind \in KindSet
      PROVE  /\ LeftOf(events, new, kind) = LeftOf(events, old, kind) - d[kind]
             /\ LeftOf(events, old, kind) \in Int /\ d[kind] \in Int
  <2> DEFINE s == OfKind(events, old.token, kind)
  <2>1. old.next[kind] \in Nat /\ d[kind] \in Int
    BY DEF Watchers
  <2>2. s \in Seq(Txs)
    BY OfKindElements
  <2> HIDE DEF s
  <2>3. Len(s) \in Nat
    BY <2>2
  <2>4. LeftOf(events, new, kind) = Len(s) - (old.next[kind] + d[kind])
        /\ LeftOf(events, old, kind) = Len(s) - old.next[kind]
    BY DEF LeftOf, Advanced, s
  <2>. QED  BY <2>1, <2>3, <2>4
<1> DEFINE h == Len(new.held)
           g == Len(old.held)
           left(w, kind) == LeftOf(events, w, kind)
           taken(kind) == d[kind]
<1>3. h \in Nat /\ g \in Nat
  BY DEF Watchers
<1>4. /\ left(new, "transfer") = left(old, "transfer") - taken("transfer")
      /\ left(new, "deposit") = left(old, "deposit") - taken("deposit")
      /\ left(new, "withdraw") = left(old, "withdraw") - taken("withdraw")
      /\ left(old, "transfer") \in Int /\ taken("transfer") \in Int
      /\ left(old, "deposit") \in Int /\ taken("deposit") \in Int
      /\ left(old, "withdraw") \in Int /\ taken("withdraw") \in Int
  BY <1>1, <1>2
<1>5. /\ BacklogOf(events, new)
             = h + left(new, "transfer") + left(new, "deposit") + left(new, "withdraw")
      /\ BacklogOf(events, old)
             = g + left(old, "transfer") + left(old, "deposit") + left(old, "withdraw")
  BY DEF BacklogOf
<1> HIDE DEF h, g, left, taken
<1>6. BacklogOf(events, new)
        = BacklogOf(events, old) + (h - g) - (taken("transfer") + taken("deposit") + taken("withdraw"))
  BY <1>3, <1>4, <1>5
<1>. QED  BY <1>6 DEF h, g, taken

(* The steps of a watcher move an event on, and lose none.                 *)
LEMMA WatcherCounted ==
    ASSUME IInv, StreamInv, Counted, NEW w \in DOMAIN watchers,
           Watcher(w) \/ \E kind \in KindSet : Close(w, kind)
    PROVE  Counted'
<1> DEFINE old == watchers[w]
           new == watchers'[w]
           sum == SumOf(BacklogsOf(emitted, watchers))
           grown == Len(queue') - Len(queue)
           B(x) == BacklogOf(emitted, x)
           still == [k \in KindSet |-> 0]
<1>1. TypeInv /\ emitted \in Seq(Txs) /\ Len(queue) \in Nat /\ Len(queue') \in Nat
  BY WatcherIInv DEF IInv, TypeInv
<1>2. UNCHANGED <<emitted, processed>> /\ (Untroubled' => Untroubled)
  BY WatcherKeeps
<1>3. /\ old \in Watchers /\ new \in Watchers /\ B(old) \in Int
      /\ KindSet = {"transfer", "deposit", "withdraw"}
  BY <1>1, WatcherSteps, CountsTyped DEF KindSet, Kinds
<1>4. ASSUME new.token = old.token, \A kind \in KindSet : new.next[kind] = old.next[kind]
      PROVE  B(new) = B(old) + (Len(new.held) - Len(old.held))
  <2>1. \A kind \in KindSet : old.next[kind] \in Nat
    BY <1>3 DEF Watchers
  <2>2. /\ still \in [KindSet -> Int] /\ still["transfer"] = 0 /\ still["deposit"] = 0
        /\ still["withdraw"] = 0 /\ \A kind \in KindSet : new.next[kind] = old.next[kind] + still[kind]
    BY <1>3, <1>4, <2>1
  <2>3. Len(new.held) \in Nat /\ Len(old.held) \in Nat
    BY <1>3 DEF Watchers
  <2> HIDE DEF old, new, still
  <2>4. B(new) = B(old) + (Len(new.held) - Len(old.held))
                   - (still["transfer"] + still["deposit"] + still["withdraw"])
    BY <1>1, <1>3, <1>4, <2>2, BacklogChanges DEF Advanced
  <2> HIDE DEF B
  <2>. QED  BY <1>3, <2>2, <2>3, <2>4
<1>5. ASSUME Untroubled, Subscribe(w) PROVE B(new) = B(old) - grown
  <2>1. /\ new.token = old.token /\ new.held = old.held
        /\ \A k \in KindSet : new.next[k] = IF k = Kinds[old.subscribed + 1]
                                            THEN Len(Stream(old.token, k)) ELSE old.next[k]
    BY <1>1, <1>5, WatcherSteps
  <2>2. queue' = queue /\ ~Looping(w)
    BY <1>5 DEF Subscribe
  <2>3. ASSUME NEW k \in KindSet PROVE new.next[k] = old.next[k]
    <3>1. Stream(old.token, k) = <<>>
      BY <1>5, <2>2, UnseenEmpty
    <3>2. Len(Stream(old.token, k)) = 0
      BY <3>1
    <3>3. old.next[k] \in Nat /\ old.next[k] <= Len(Stream(old.token, k))
      BY <1>3 DEF Watchers, StreamInv, NextWithin
    <3>. QED  BY <2>1, <3>2, <3>3
  <2>4. B(new) = B(old) + (Len(new.held) - Len(old.held)) /\ Len(old.held) \in Nat
    BY <1>3, <1>4, <2>1, <2>3 DEF Watchers
  <2> HIDE DEF B
  <2>. QED  BY <1>1, <1>3, <2>1, <2>2, <2>4
<1>6. ASSUME NEW kind \in KindSet, Take(w, kind) PROVE B(new) = B(old) - grown
  <2> DEFINE d == [k \in KindSet |-> IF k = kind THEN 1 ELSE 0]
  <2>1. Taken(old, new, kind)
    BY <1>1, <1>6, WatcherSteps
  <2>2. queue' = queue /\ old.held = <<>> /\ Len(<<>>) = 0
    BY <1>6 DEF Take
  <2>3. new.token = old.token /\ Len(new.held) = 1 /\ Len(old.held) = 0
    BY <2>1, <2>2 DEF Taken
  <2>4. \A k \in KindSet : old.next[k] \in Nat
    BY <1>3 DEF Watchers
  <2>5. \A k \in KindSet : new.next[k] = old.next[k] + d[k]
    BY <2>1, <2>4 DEF Taken
  <2>6. d \in [KindSet -> Int] /\ d["transfer"] + d["deposit"] + d["withdraw"] = 1
    BY <1>3
  <2> HIDE DEF d, old, new
  <2>7. B(new) = B(old) + (Len(new.held) - Len(old.held))
                   - (d["transfer"] + d["deposit"] + d["withdraw"])
    BY <1>1, <1>3, <2>3, <2>5, <2>6, BacklogChanges DEF Advanced
  <2> HIDE DEF B
  <2>. QED  BY <1>1, <1>3, <2>2, <2>3, <2>6, <2>7
<1>7. ASSUME Enqueue(w) PROVE B(new) = B(old) - grown
  <2>1. new.token = old.token /\ new.next = old.next /\ new.held = <<>>
    BY <1>1, <1>7, WatcherSteps
  <2>2. PICK x \in Txs : old.held = <<x>>
    BY <1>7 DEF StreamInv, OfMapped, HeldTyped, Enqueue
  <2>3. queue' = queue \o <<x>> /\ queue \in Seq(Txs)
    BY <1>1, <1>7, <2>2 DEF Enqueue, TypeInv
  <2>4. Len(queue') = Len(queue) + 1 /\ Len(old.held) = 1 /\ Len(new.held) = 0
    BY <2>1, <2>2, <2>3
  <2>5. B(new) = B(old) + (Len(new.held) - Len(old.held))
    BY <1>4, <2>1
  <2> HIDE DEF B
  <2>. QED  BY <1>1, <1>3, <2>4, <2>5
<1>8. ASSUME NEW kind \in KindSet, Close(w, kind) PROVE B(new) = B(old) - grown
  <2>1. queue' = queue /\ watchers[w].held = watchers'[w].held
        /\ new.token = old.token /\ new.next = old.next
    <3>1. /\ new.held = IF Enqueue(w) THEN <<>> ELSE old.held
          /\ new.token = old.token /\ new.next = old.next
      BY <1>1, <1>8, WatcherSteps
    <3>2. queue' = queue
      BY <1>8 DEF Close
    <3>3. ~Enqueue(w)
      BY <1>8, <3>2 DEF Enqueue, Close
    <3>. QED  BY <3>1, <3>2, <3>3
  <2>2. B(new) = B(old) + (Len(new.held) - Len(old.held)) /\ Len(old.held) \in Nat
    BY <1>3, <1>4, <2>1 DEF Watchers
  <2> HIDE DEF B
  <2>. QED  BY <1>1, <1>3, <2>1, <2>2
<1>9. Untroubled => B(new) = B(old) - grown
  BY <1>5, <1>6, <1>7, <1>8 DEF Watcher
<1>10. SumOf(BacklogsOf(emitted, watchers')) = sum - B(old) + B(new)
  BY WatcherCounts
<1>11. sum \in Int /\ Len(processed) \in Nat
       /\ (Untroubled => Len(emitted) = Len(processed) + Len(queue) + sum)
  BY CountsTyped DEF Counted
<1> HIDE DEF sum, old, new, B
<1>. QED  BY <1>1, <1>2, <1>3, <1>9, <1>10, <1>11 DEF Counted

(* No backlog is below zero, and none above their sum.                     *)
LEMMA BacklogsNatural ==
    ASSUME IInv, StreamInv
    PROVE  /\ SumOf(BacklogsOf(emitted, watchers)) \in Nat
           /\ \A w \in DOMAIN watchers :
                 /\ BacklogOf(emitted, watchers[w]) <= SumOf(BacklogsOf(emitted, watchers))
                 /\ BacklogOf(emitted, watchers[w]) \in Nat
                 /\ Len(watchers[w].held) \in Nat
                 /\ \A kind \in KindSet : LeftOf(emitted, watchers[w], kind) \in Nat
<1> DEFINE b == BacklogsOf(emitted, watchers)
           left(w, kind) == LeftOf(emitted, watchers[w], kind)
           held(w) == Len(watchers[w].held)
<1>1. emitted \in Seq(Txs) /\ watchers \in Seq(Watchers)
  BY DEF IInv, TypeInv
<1>2. /\ b \in Seq(Int) /\ Len(b) = Len(watchers)
      /\ \A w \in DOMAIN watchers : b[w] = BacklogOf(emitted, watchers[w])
  BY <1>1, BacklogsTyped
<1>3. DOMAIN watchers = 1..Len(b) /\ KindSet = {"transfer", "deposit", "withdraw"}
  BY <1>1, <1>2 DEF KindSet, Kinds
<1>4. ASSUME NEW w \in DOMAIN watchers, NEW kind \in KindSet
      PROVE  left(w, kind) \in Nat
  <2> DEFINE s == OfKind(emitted, watchers[w].token, kind)
             m == watchers[w].next[kind]
  <2>1. m \in Nat /\ m <= Len(s)
    <3>1. watchers[w] \in Watchers
      BY <1>1
    <3>2. m <= Len(s)
      BY DEF StreamInv, NextWithin, Stream
    <3>. QED  BY <3>1, <3>2 DEF Watchers
  <2>2. s \in Seq(Txs)
    BY <1>1, OfKindElements
  <2> HIDE DEF s, m
  <2>3. Len(s) - m \in Nat
    BY <2>1, <2>2
  <2>. QED  BY <2>3 DEF LeftOf, s, m
<1>5. \A w \in DOMAIN watchers : held(w) \in Nat
  BY <1>1 DEF Watchers
<1>6. ASSUME NEW w \in DOMAIN watchers PROVE b[w] \in Nat
  <2>1. b[w] = held(w) + left(w, "transfer") + left(w, "deposit") + left(w, "withdraw")
    BY <1>2 DEF BacklogOf
  <2>2. /\ left(w, "transfer") \in Nat /\ left(w, "deposit") \in Nat
        /\ left(w, "withdraw") \in Nat /\ held(w) \in Nat
    BY <1>3, <1>4, <1>5
  <2> HIDE DEF b, held, left
  <2>. QED  BY <2>1, <2>2
<1> HIDE DEF b
<1>7. b \in Seq(Nat)
  BY <1>2, <1>3, <1>6
<1>8. SumOf(b) \in Nat /\ \A w \in 1..Len(b) : b[w] <= SumOf(b)
  BY <1>7, SumOfNaturals
<1>. QED  BY <1>2, <1>3, <1>4, <1>5, <1>6, <1>8 DEF b

(* What leaves the queue is processed.                                     *)
LEMMA ProcessCounted ==
    ASSUME IInv, StreamInv, Counted, Process
    PROVE  Counted'
<1> DEFINE sum == SumOf(BacklogsOf(emitted, watchers))
<1>1. /\ queue \in Seq(Txs) /\ queue # <<>> /\ queue' = Tail(queue)
      /\ UNCHANGED <<emitted, watchers>> /\ faults \subseteq faults'
      /\ Len(processed') = Len(processed) + 1
  BY ProcessMoves
<1>2. Len(queue') = Len(queue) - 1
  BY <1>1
<1>3. Len(processed) \in Nat /\ Len(queue) \in Nat /\ sum \in Int
      /\ (Untroubled => Len(emitted) = Len(processed) + Len(queue) + sum)
  BY CountsTyped DEF Counted
<1>4. Untroubled' => Untroubled
  BY <1>1 DEF Untroubled
<1> HIDE DEF sum
<1>5. Untroubled' => Len(emitted) = Len(processed') + Len(queue') + sum
  BY <1>1, <1>2, <1>3, <1>4
<1>. QED  BY <1>1, <1>5 DEF Counted, sum

(* A transaction taken in the order of the events finds what it spends.    *)
LEMMA ProcessInOrder ==
    ASSUME IInv, StreamInv, EmittedCovered, TablesAdded, Counted, InOrderAccepted, Process
    PROVE  InOrderAccepted'
<1> DEFINE tx == Head(queue)
           n == Len(processed)
           outcome == ApplyTransaction(st, tx).outcome
<1>1. /\ tx \in Txs /\ emitted' = emitted
      /\ faults \subseteq faults' /\ ("late" \notin faults' => TokenMapped(st, tx.token))
      /\ n \in Nat /\ DOMAIN processed = 1..n /\ DOMAIN processed' = 1..(n + 1)
      /\ Len(processed') = n + 1
      /\ processed'[n + 1].outcome = outcome
      /\ \A i \in 1..n : processed'[i] = processed[i]
      /\ Transactions \in Seq(Txs) /\ Len(Transactions) = n
      /\ Transactions' = Append(Transactions, tx)
  BY ProcessMoves
<1>2. emitted \in Seq(Txs) /\ Len(emitted) \in Nat /\ Consistent(st)
      /\ Len(queue) \in Nat /\ Len(queue) > 0
  BY DEF IInv, TypeInv, TablesInv, Process
<1> HIDE DEF tx, outcome, n
<1>3. SUFFICES ASSUME faults' = {}, Transactions' = SubSeq(emitted, 1, n + 1)
               PROVE  outcome = "ok" /\ AllAccepted
  BY <1>1 DEF InOrderAccepted, AllAccepted
<1>4. faults = {} /\ TokenMapped(st, tx.token)
  BY <1>1, <1>3
<1>5. n < Len(emitted)
  <2> DEFINE sum == SumOf(BacklogsOf(emitted, watchers))
  <2>1. Len(emitted) = n + Len(queue) + sum /\ sum \in Nat
    BY <1>4, BacklogsNatural DEF Counted, Untroubled, n
  <2> HIDE DEF sum
  <2>. QED  BY <1>1, <1>2, <2>1
<1>6. Transactions = SubSeq(emitted, 1, n) /\ tx = emitted[n + 1]
  <2> DEFINE p == Transactions
             b == SubSeq(emitted, 1, n)
             x == emitted[n + 1]
  <2>1. p \in Seq(Txs) /\ Len(p) = n /\ b \in Seq(Txs) /\ Len(b) = n /\ x \in Txs
    BY <1>1, <1>2, <1>5
  <2>2. Append(p, tx) = Append(b, x)
    BY <1>1, <1>2, <1>3, <1>5, BeginningGrows
  <2> HIDE DEF p, b, x
  <2>3. /\ Append(p, tx)[n + 1] = tx /\ Append(b, x)[n + 1] = x
        /\ \A i \in 1..n : Append(p, tx)[i] = p[i] /\ Append(b, x)[i] = b[i]
    BY <1>1, <2>1
  <2>4. \A i \in 1..n : p[i] = b[i]
    BY <2>2, <2>3
  <2>5. p = b
    BY <2>1, <2>4, SeqEqual
  <2>6. tx = x
    BY <2>2, <2>3
  <2>. QED  BY <2>5, <2>6 DEF p, b, x
<1>7. AllAccepted
  BY <1>4, <1>6 DEF InOrderAccepted, AllAccepted, n
<1>8. CoveredBy(Transactions, tx)
  <2>1. n \in 0..(Len(emitted) - 1)
    BY <1>1, <1>2, <1>5
  <2>. QED  BY <1>4, <1>6, <2>1 DEF EmittedCovered
<1>9. /\ Spender(tx) \in Accounts /\ tx.token \in Tokens
      /\ NonceColumn(tx) \in Columns /\ "balance" \in Columns
  BY <1>1, TxFields DEF Spender, NonceColumn, Columns
<1>10. \A what \in Columns : ViewOf(what, st, Spender(tx), tx.token)
                               = Total(what, Transactions, Spender(tx), tx.token)
  BY <1>7, <1>9 DEF TablesAdded
<1>11. tx.amount > 0 /\ Covers(tx, ViewOf("balance", st, Spender(tx), tx.token),
                                   ViewOf(NonceColumn(tx), st, Spender(tx), tx.token))
  BY <1>8, <1>9, <1>10 DEF CoveredBy
<1>12. outcome = "ok"
  BY <1>1, <1>2, <1>4, <1>11, CoveredAccepted DEF outcome
<1>. QED  BY <1>7, <1>12

(* Until a restart, a token that was mapped has a watcher.                 *)
MappedWatched ==
    "restart" \notin faults =>
        \A t \in mapped : \E w \in DOMAIN watchers : watchers[w].token = t

SumsInv ==
    /\ SideAdded
    /\ EmittedCovered
    /\ TablesAdded
    /\ Counted
    /\ MappedWatched
    /\ InOrderAccepted

(* What a step keeps of the sums when it leaves what they are about.       *)
LEMMA SumsUnmoved ==
    ASSUME faults \subseteq faults'
    PROVE  /\ UNCHANGED <<side, emitted>> /\ SideAdded => SideAdded'
           /\ UNCHANGED emitted /\ EmittedCovered => EmittedCovered'
           /\ UNCHANGED <<st, processed>> /\ TablesAdded => TablesAdded'
           /\ UNCHANGED <<emitted, watchers, queue, processed>> /\ Counted => Counted'
           /\ UNCHANGED <<emitted, processed>> /\ InOrderAccepted => InOrderAccepted'
           /\ (UNCHANGED mapped /\ DOMAIN watchers' = DOMAIN watchers
                /\ (\A w \in DOMAIN watchers : watchers'[w].token = watchers[w].token)
                /\ MappedWatched) => MappedWatched'
<1>1. ASSUME UNCHANGED <<side, emitted>>, SideAdded PROVE SideAdded'
  BY <1>1 DEF SideAdded, SideOf
<1>2. ASSUME UNCHANGED emitted, EmittedCovered PROVE EmittedCovered'
  <2>1. faults' \cap {"self", "nothing"} = {} => faults \cap {"self", "nothing"} = {}
    OBVIOUS
  <2>. QED  BY <1>2, <2>1 DEF EmittedCovered
<1>3. ASSUME UNCHANGED <<st, processed>>, TablesAdded PROVE TablesAdded'
  BY <1>3 DEF TablesAdded, AllAccepted, Transactions
<1>4. ASSUME UNCHANGED <<emitted, watchers, queue, processed>>, Counted PROVE Counted'
  <2>1. Untroubled' => Untroubled
    BY DEF Untroubled
  <2>. QED  BY <1>4, <2>1 DEF Counted
<1>5. ASSUME UNCHANGED <<emitted, processed>>, InOrderAccepted PROVE InOrderAccepted'
  <2>1. faults' = {} => faults = {}
    OBVIOUS
  <2>. QED  BY <1>5, <2>1 DEF InOrderAccepted, Transactions
<1>6. ASSUME UNCHANGED mapped, DOMAIN watchers' = DOMAIN watchers, MappedWatched,
             \A w \in DOMAIN watchers : watchers'[w].token = watchers[w].token
      PROVE  MappedWatched'
  BY <1>6 DEF MappedWatched
<1>. QED  BY <1>1, <1>2, <1>3, <1>4, <1>5, <1>6

(* The steps of the sidechain.                                             *)
LEMMA SidechainSumsInv ==
    ASSUME IInv, StreamInv, SumsInv, SidechainNext
    PROVE  SumsInv'
<1>1. PICK tx \in Txs : Emit(tx)
  BY SidechainEmits
<1>2. /\ emitted' = Append(emitted, tx) /\ faults \subseteq faults'
      /\ UNCHANGED <<mapped, watchers, st, processed>>
  BY <1>1 DEF Emit
<1>3. SideAdded' /\ EmittedCovered' /\ Counted'
  BY SidechainSums, SidechainCounted DEF SumsInv
<1>4. TablesAdded' /\ MappedWatched'
  BY <1>2, SumsUnmoved DEF SumsInv
<1>5. InOrderAccepted'
  <2> SUFFICES ASSUME faults' = {} /\ Transactions = SubSeq(emitted', 1, Len(processed))
               PROVE  AllAccepted
    BY <1>2 DEF InOrderAccepted, AllAccepted, Transactions
  <2> DEFINE sum == SumOf(BacklogsOf(emitted, watchers))
             n == Len(processed)
  <2>1. faults = {}
    BY <1>2
  <2>2. Len(emitted) = n + Len(queue) + sum /\ sum \in Nat /\ n \in Nat /\ Len(queue) \in Nat
        /\ Len(emitted) \in Nat
    BY <2>1, BacklogsNatural, CountsTyped DEF SumsInv, Counted, Untroubled
  <2> HIDE DEF sum, n
  <2>3. emitted \in Seq(Txs) /\ n <= Len(emitted)
    BY <2>2 DEF IInv, TypeInv
  <2>4. SubSeq(emitted', 1, n) = SubSeq(emitted, 1, n)
    BY <1>2, <2>2, <2>3, BeginningKept
  <2>. QED  BY <2>1, <2>4 DEF SumsInv, InOrderAccepted, AllAccepted, n
<1>. QED  BY <1>3, <1>4, <1>5 DEF SumsInv

(* The steps of the node.                                                  *)
LEMMA NodeSumsInv ==
    ASSUME IInv, StreamInv, SumsInv
    PROVE  /\ \A i \in DOMAIN TokenOrder : ObserveToken(i) => SumsInv'
           /\ \A t \in Tokens : Watch(t) => SumsInv'
           /\ \A w \in DOMAIN watchers :
                 Watcher(w) \/ (\E kind \in KindSet : Close(w, kind)) => SumsInv'
           /\ Process => SumsInv'
           /\ Restart => SumsInv'
<1>1. ASSUME NEW i \in DOMAIN TokenOrder, ObserveToken(i) PROVE SumsInv'
  <2>1. UNCHANGED <<side, emitted, mapped, watchers, queue, processed, faults>>
    BY <1>1 DEF ObserveToken
  <2>2. TablesAdded'
    BY <1>1, ObserveTokenTables DEF SumsInv
  <2>. QED  BY <2>1, <2>2, SumsUnmoved DEF SumsInv
<1>2. ASSUME NEW t \in Tokens, Watch(t) PROVE SumsInv'
  <2>1. /\ UNCHANGED <<side, emitted, st, processed>> /\ faults \subseteq faults'
        /\ mapped' = mapped \cup {t} /\ watchers' = Append(watchers, NewWatcher(t))
    BY <1>2 DEF Watch
  <2>2. Counted'
    BY <1>2, WatchCounted DEF SumsInv
  <2>3. MappedWatched'
    <3>1. /\ DOMAIN watchers \subseteq DOMAIN watchers'
          /\ \A w \in DOMAIN watchers : watchers'[w] = watchers[w]
          /\ \E w \in DOMAIN watchers' : watchers'[w].token = t
      <4>1. watchers \in Seq(Watchers) /\ NewWatcher(t).token = t
        BY DEF IInv, TypeInv, NewWatcher
      <4> DEFINE n == Len(watchers)
      <4>2. /\ n \in Nat /\ DOMAIN watchers = 1..n /\ DOMAIN watchers' = 1..(n + 1)
            /\ watchers'[n + 1] = NewWatcher(t) /\ \A w \in 1..n : watchers'[w] = watchers[w]
        BY <2>1, <4>1
      <4> HIDE DEF n
      <4>3. n + 1 \in DOMAIN watchers' /\ watchers'[n + 1].token = t
        BY <4>1, <4>2
      <4>. QED  BY <4>2, <4>3
    <3>. QED  BY <2>1, <3>1 DEF SumsInv, MappedWatched
  <2>. QED  BY <2>1, <2>2, <2>3, SumsUnmoved DEF SumsInv
<1>3. ASSUME NEW w \in DOMAIN watchers, Watcher(w) \/ \E kind \in KindSet : Close(w, kind)
      PROVE  SumsInv'
  <2>1. UNCHANGED <<side, st>>
    BY <1>3 DEF Watcher, Subscribe, Take, Enqueue, Close
  <2>2. /\ UNCHANGED <<emitted, mapped, processed>> /\ faults \subseteq faults'
        /\ DOMAIN watchers' = DOMAIN watchers
        /\ \A v \in DOMAIN watchers : watchers'[v].token = watchers[v].token
    BY <1>3, WatcherKeeps
  <2>3. Counted'
    BY <1>3, WatcherCounted DEF SumsInv
  <2>. QED  BY <2>1, <2>2, <2>3, SumsUnmoved DEF SumsInv
<1>4. ASSUME Process PROVE SumsInv'
  <2>1. UNCHANGED <<side, emitted, mapped, watchers>> /\ faults \subseteq faults'
    BY <1>4, ProcessMoves
  <2>2. TablesAdded' /\ Counted' /\ InOrderAccepted'
    BY <1>4, ProcessTables, ProcessCounted, ProcessInOrder DEF SumsInv
  <2>. QED  BY <2>1, <2>2, SumsUnmoved DEF SumsInv
<1>5. ASSUME Restart PROVE SumsInv'
  <2>1. /\ UNCHANGED <<side, emitted, processed>> /\ faults \subseteq faults'
        /\ "restart" \in faults'
    BY <1>5 DEF Restart
  <2>2. TablesAdded'
    BY <1>5, RestartTables DEF SumsInv
  <2>3. Counted' /\ MappedWatched'
    BY <2>1 DEF Counted, MappedWatched, Untroubled
  <2>. QED  BY <2>1, <2>2, <2>3, SumsUnmoved DEF SumsInv
<1>. QED  BY <1>1, <1>2, <1>3, <1>4, <1>5

(* Initially there is nothing to add up.                                   *)
LEMMA InitSums == Init => SumsInv
<1> SUFFICES ASSUME Init PROVE SumsInv
  OBVIOUS
<1>1. /\ emitted = <<>> /\ processed = <<>> /\ queue = <<>> /\ watchers = <<>> /\ mapped = {}
      /\ side = [balance |-> Zero, transferNonce |-> Zero, withdrawNonce |-> Zero]
  BY DEF Init
<1>2. Transactions = <<>> /\ Len(<<>>) = 0
  BY <1>1 DEF Transactions
<1>3. SideAdded
  <2>1. \A what \in Columns, a \in Accounts, t \in Tokens : SideOf(what)[a][t] = 0
    BY <1>1 DEF SideOf, Columns, Zero
  <2>. QED  BY <1>1, <2>1, TotalNone DEF SideAdded
<1>4. EmittedCovered
  <2>1. \A n \in 0..(Len(emitted) - 1) : FALSE
    BY <1>1
  <2>. QED  BY <2>1 DEF EmittedCovered
<1>5. TablesAdded
  <2>1. DOMAIN EmptyTable = {}
    BY EmptyTableProperties
  <2>2. st.keyOf = EmptyTable
    BY DEF Init, InitState
  <2>3. \A what \in Columns, a \in Accounts, t \in Tokens : ViewOf(what, st, a, t) = 0
    BY <2>1, <2>2 DEF ViewOf, BalanceOf, TransferNonceOf, WithdrawNonceOf, Holds, HasAccount
  <2>. QED  BY <1>2, <2>3, TotalNone DEF TablesAdded
<1>6. Counted
  <2>1. BacklogsOf(emitted, watchers) = <<>>
    BY <1>1 DEF BacklogsOf
  <2>. QED  BY <1>1, <1>2, <2>1, SumTyped DEF Counted
<1>7. MappedWatched /\ InOrderAccepted
  BY <1>1 DEF MappedWatched, InOrderAccepted
<1>. QED  BY <1>3, <1>4, <1>5, <1>6, <1>7 DEF SumsInv

(* When everything was processed, every stream was.                        *)
LEMMA StreamsProcessed ==
    ASSUME IInv, StreamInv, SumsInv, faults = {}, Len(processed) = Len(emitted),
           NEW t, NEW kind \in KindSet
    PROVE  OfKind(Transactions, t, kind) = OfKind(emitted, t, kind)
<1> DEFINE sum == SumOf(BacklogsOf(emitted, watchers))
<1>1. /\ emitted \in Seq(Txs) /\ queue \in Seq(Txs) /\ watchers \in Seq(Watchers)
      /\ Transactions \in Seq(Txs)
  BY ConveyedTyped DEF IInv, TypeInv
<1>2. Untroubled
  BY DEF Untroubled
<1>3. Len(emitted) = Len(processed) + Len(queue) + sum /\ sum \in Nat
      /\ Len(processed) \in Nat /\ Len(queue) \in Nat
  BY <1>2, BacklogsNatural, CountsTyped DEF SumsInv, Counted
<1>4. \A w \in DOMAIN watchers : BacklogOf(emitted, watchers[w]) <= sum
  BY BacklogsNatural
<1> HIDE DEF sum
<1>5. Len(queue) = 0 /\ sum = 0
  BY <1>3
<1>6. CASE t \in mapped
  <2>1. PICK w \in DOMAIN watchers : watchers[w].token = t
    BY <1>6 DEF SumsInv, MappedWatched
  <2> DEFINE left(k) == LeftOf(emitted, watchers[w], k)
             held == Len(watchers[w].held)
             s == OfKind(emitted, t, kind)
             m == watchers[w].next[kind]
  <2>2. /\ left("transfer") \in Nat /\ left("deposit") \in Nat /\ left("withdraw") \in Nat
        /\ held \in Nat
        /\ kind \in {"transfer", "deposit", "withdraw"}
    BY BacklogsNatural DEF KindSet, Kinds
  <2>3. held + left("transfer") + left("deposit") + left("withdraw") <= 0
    BY <1>4, <1>5 DEF BacklogOf
  <2>4. s \in Seq(Txs) /\ m \in Nat
    <3>1. watchers[w] \in Watchers
      BY <1>1
    <3>. QED  BY <1>1, <3>1, OfKindElements DEF Watchers
  <2>5. left(kind) = Len(s) - m
    BY <2>1 DEF LeftOf
  <2> HIDE DEF left, held, s, m
  <2>6. held = 0 /\ left(kind) = 0
    BY <2>2, <2>3
  <2>7. m = Len(s)
    BY <2>4, <2>5, <2>6
  <2>8. queue = <<>> /\ watchers[w].held = <<>>
    <3>1. watchers[w].held \in Seq(Txs)
      BY ConveyedTyped DEF IInv
    <3>. QED  BY <1>1, <1>5, <2>6, <3>1 DEF held
  <2>9. Conveyed(w) = Transactions
    <3>1. \A p \in Seq(Txs) : p \o <<>> \o <<>> = p
      OBVIOUS
    <3>. QED  BY <1>1, <2>8, <3>1 DEF Conveyed
  <2>10. OfKind(Conveyed(w), t, kind) = SubSeq(s, 1, m)
    BY <1>2, <2>1, ConveyedNow DEF Stream, s, m
  <2>11. SubSeq(s, 1, m) = s
    BY <2>4, <2>7, BeginningWhole
  <2>. QED  BY <2>9, <2>10, <2>11 DEF s
<1>7. CASE t \notin mapped
  <2>1. \A i \in DOMAIN emitted : ~IsOf(emitted[i], t, kind)
    BY <1>7 DEF StreamInv, EmittedWatched, Watched, OfMapped, IsOf
  <2>2. \A i \in DOMAIN Transactions : ~IsOf(Transactions[i], t, kind)
    BY <1>7 DEF StreamInv, OfMapped, IsOf, Transactions
  <2> HIDE DEF Transactions
  <2>. QED  BY <1>1, <2>1, <2>2, OfKindNone
<1>. QED  BY <1>6, <1>7

(* The two sums are then the same.                                         *)
LEMMA CaughtUp ==
    ASSUME IInv, StreamInv, SumsInv
    PROVE  CaughtUpAgrees
<1> SUFFICES ASSUME faults = {}, Len(processed) = Len(emitted), AllAccepted,
                    NEW a \in Accounts, NEW t \in Tokens
             PROVE  /\ BalanceOf(st, a, t) = side.balance[a][t]
                    /\ TransferNonceOf(st, a, t) = side.transferNonce[a][t]
                    /\ WithdrawNonceOf(st, a, t) = side.withdrawNonce[a][t]
  BY DEF CaughtUpAgrees, AllAccepted
<1>1. \A kind \in KindSet : OfKind(Transactions, t, kind) = OfKind(emitted, t, kind)
  BY StreamsProcessed
<1>2. KindSet = {"transfer", "deposit", "withdraw"}
  BY DEF KindSet, Kinds
<1>3. \A what \in Columns : Total(what, Transactions, a, t) = Total(what, emitted, a, t)
  BY <1>1, <1>2 DEF Total
<1>4. \A what \in Columns : /\ SideOf(what)[a][t] = Total(what, emitted, a, t)
                            /\ ViewOf(what, st, a, t) = Total(what, Transactions, a, t)
  BY DEF SumsInv, SideAdded, TablesAdded
<1>5. \A what \in Columns : ViewOf(what, st, a, t) = SideOf(what)[a][t]
  BY <1>3, <1>4
<1>. QED  BY <1>5 DEF Columns, ViewOf, SideOf

(* Every step keeps the sums.                                              *)
LEMMA NextSums == IInv /\ StreamInv /\ SumsInv /\ [Next]_vars => SumsInv'
<1> SUFFICES ASSUME IInv, StreamInv, SumsInv, [Next]_vars PROVE SumsInv'
  OBVIOUS
<1>1. CASE SidechainNext
  BY <1>1, SidechainSumsInv
<1>2. CASE \E i \in DOMAIN TokenOrder : ObserveToken(i)
  BY <1>2, NodeSumsInv
<1>3. CASE \E t \in Tokens : Watch(t)
  BY <1>3, NodeSumsInv
<1>4. CASE \E w \in DOMAIN watchers : Watcher(w)
  BY <1>4, NodeSumsInv
<1>5. CASE \E w \in DOMAIN watchers, kind \in KindSet : Close(w, kind)
  BY <1>5, NodeSumsInv
<1>6. CASE Process
  BY <1>6, NodeSumsInv
<1>7. CASE Restart
  BY <1>7, NodeSumsInv
<1>8. CASE UNCHANGED vars
  <2>1. UNCHANGED <<side, emitted, mapped, watchers, queue, st, processed, faults>>
    BY <1>8 DEF vars
  <2>. QED  BY <2>1, SumsUnmoved DEF SumsInv
<1>. QED  BY <1>1, <1>2, <1>3, <1>4, <1>5, <1>6, <1>7, <1>8 DEF Next

(* processTransactions rejects nothing that reaches it in the order of the *)
(* sidechain's events: what a contract let an account spend, the tables    *)
(* have for it, with the nonce the contract gave.                          *)
THEOREM InOrder == Spec => []InOrderAccepted
<1>1. Init => IInv /\ StreamInv /\ SumsInv
  BY InitIInv, InitStreams, InitSums
<1>2. IInv /\ StreamInv /\ SumsInv /\ [Next]_vars => IInv' /\ StreamInv' /\ SumsInv'
  BY NextIInv, NextStreams, NextSums
<1>3. SumsInv => InOrderAccepted
  BY DEF SumsInv
<1>. QED  BY <1>1, <1>2, <1>3, PTL DEF Spec

(* However the three streams of each token were interleaved, the tables    *)
(* agree with the contracts about every balance and nonce once everything  *)
(* emitted was processed and nothing was rejected.                         *)
THEOREM Agreement == Spec => []CaughtUpAgrees
<1>1. Init => IInv /\ StreamInv /\ SumsInv
  BY InitIInv, InitStreams, InitSums
<1>2. IInv /\ StreamInv /\ SumsInv /\ [Next]_vars => IInv' /\ StreamInv' /\ SumsInv'
  BY NextIInv, NextStreams, NextSums
<1>3. IInv /\ StreamInv /\ SumsInv => CaughtUpAgrees
  BY CaughtUp
<1>. QED  BY <1>1, <1>2, <1>3, PTL DEF Spec
=============================================================================
