---------------------------- MODULE RollupProofs ----------------------------
(***************************************************************************)
(* What holds of Rollup for any accounts, tokens, amounts and block size:  *)
(* blocks cut one sequence of transitions, a validator that replays them   *)
(* gets where the aggregator is, it does not accuse without a cause, and   *)
(* its first accusation is anchored in the root claimed before.            *)
(***************************************************************************)
EXTENDS Rollup, OperatorProofs, FiniteSetTheorems

-----------------------------------------------------------------------------
(* States as records.  Two states are compared, and a state is compared    *)
(* with itself under other tokens, field by field.                         *)

StateOf(l, k, i, t, r) ==
    [lastKey |-> l, keyOf |-> k, infoAt |-> i, tokenIndex |-> t, trie |-> r]

IsState(s) == s = StateOf(s.lastKey, s.keyOf, s.infoAt, s.tokenIndex, s.trie)

WithTokens(s, ti) == [s EXCEPT !.tokenIndex = ti]

(* The fields of a state, and of the same state with other tokens.         *)
LEMMA StateFields ==
    ASSUME NEW l, NEW k, NEW i, NEW t, NEW r
    PROVE  LET s == StateOf(l, k, i, t, r)
           IN  /\ s.lastKey = l /\ s.keyOf = k /\ s.infoAt = i /\ s.tokenIndex = t /\ s.trie = r
               /\ IsState(s)
               /\ \A ti : WithTokens(s, ti) = StateOf(l, k, i, ti, r)
BY DEF StateOf, IsState, WithTokens

(* Writing the fields an account is in, one at a time.                     *)
WithLastKey(s, l) == [s EXCEPT !.lastKey = l]
WithKeyOf(s, k) == [s EXCEPT !.keyOf = k]
WithInfoAt(s, i) == [s EXCEPT !.infoAt = i]
WithTrie(s, r) == [s EXCEPT !.trie = r]

(* Each write changes its field and no other.                              *)
LEMMA FieldsWritten ==
    ASSUME NEW l, NEW k, NEW i, NEW t, NEW r, NEW x
    PROVE  LET s == StateOf(l, k, i, t, r)
           IN  /\ WithLastKey(s, x) = StateOf(x, k, i, t, r)
               /\ WithKeyOf(s, x) = StateOf(l, x, i, t, r)
               /\ WithInfoAt(s, x) = StateOf(l, k, x, t, r)
               /\ WithTrie(s, x) = StateOf(l, k, i, t, x)
BY DEF StateOf, WithLastKey, WithKeyOf, WithInfoAt, WithTrie

(* The same of a state that is not taken apart.                            *)
LEMMA TokenFields ==
    ASSUME NEW s, IsState(s), NEW ti
    PROVE  LET v == WithTokens(s, ti)
           IN  /\ v.lastKey = s.lastKey /\ v.keyOf = s.keyOf /\ v.infoAt = s.infoAt
               /\ v.trie = s.trie /\ v.tokenIndex = ti
               /\ IsState(v)
               /\ \A tj : WithTokens(v, tj) = WithTokens(s, tj)
               /\ WithTokens(s, s.tokenIndex) = s
<1> DEFINE l == s.lastKey
           k == s.keyOf
           i == s.infoAt
           r == s.trie
           t == s.tokenIndex
<1>1. s = StateOf(l, k, i, t, r)
  BY DEF IsState
<1> HIDE DEF l, k, i, r, t
<1>2. \A tj : WithTokens(s, tj) = StateOf(l, k, i, tj, r)
  BY <1>1, StateFields
<1>3. WithTokens(s, ti) = StateOf(l, k, i, ti, r) /\ WithTokens(s, t) = s
  BY <1>1, <1>2
<1>4. \A tj : WithTokens(StateOf(l, k, i, ti, r), tj) = StateOf(l, k, i, tj, r)
  BY StateFields
<1>5. LET v == StateOf(l, k, i, ti, r)
      IN  v.lastKey = l /\ v.keyOf = k /\ v.infoAt = i /\ v.tokenIndex = ti /\ v.trie = r /\ IsState(v)
  BY StateFields
<1>. QED  BY <1>2, <1>3, <1>4, <1>5 DEF l, k, i, r, t

(* setAccountInfo does not look at the tokens, ...                         *)
LEMMA SetKeepsTokens ==
    ASSUME NEW s, IsState(s), NEW ti, NEW a, NEW info
    PROVE  /\ SetAccountInfo(WithTokens(s, ti), a, info) = WithTokens(SetAccountInfo(s, a, info), ti)
           /\ IsState(SetAccountInfo(s, a, info))
           /\ SetAccountInfo(s, a, info).keyOf = s.keyOf
<1> DEFINE l == s.lastKey
           k == s.keyOf
           i == s.infoAt
           r == s.trie
           t == s.tokenIndex
<1>1. s = StateOf(l, k, i, t, r)
  BY DEF IsState
<1> HIDE DEF l, k, i, r, t
<1>2. ASSUME NEW tj
      PROVE  SetAccountInfo(StateOf(l, k, i, tj, r), a, info)
                 = StateOf(l, k, Put(i, k[a], info), tj, Put(r, k[a], info))
  <2> DEFINE st == StateOf(l, k, i, tj, r)
             i2 == Put(i, k[a], info)
             r2 == Put(r, k[a], info)
  <2>1. st.infoAt = i /\ st.keyOf = k /\ st.trie = r
    BY StateFields
  <2>2. SetAccountInfo(st, a, info) = WithTrie(WithInfoAt(st, i2), r2)
    <3> HIDE DEF st
    <3>. QED  BY <2>1 DEF SetAccountInfo, WithTrie, WithInfoAt
  <2> HIDE DEF i2, r2
  <2>. QED  BY <2>2, FieldsWritten DEF i2, r2
<1>. QED  BY <1>1, <1>2, StateFields DEF k

(* ... nor does the creation of an account, ...                            *)
LEMMA EnsureKeepsTokens ==
    ASSUME NEW s, IsState(s), NEW ti, NEW a, NEW n
    PROVE  /\ EnsureAccount(WithTokens(s, ti), a, n) = WithTokens(EnsureAccount(s, a, n), ti)
           /\ IsState(EnsureAccount(s, a, n))
<1> DEFINE l == s.lastKey
           k == s.keyOf
           i == s.infoAt
           r == s.trie
           t == s.tokenIndex
<1>1. s = StateOf(l, k, i, t, r)
  BY DEF IsState
<1> HIDE DEF l, k, i, r, t
<1>2. ASSUME NEW tj
      PROVE  EnsureAccount(StateOf(l, k, i, tj, r), a, n)
                 = IF a \in DOMAIN k THEN StateOf(l, k, i, tj, r)
                   ELSE StateOf(l + 1, Put(k, a, l + 1), Put(i, l + 1, NewInfo(a, n + 1)), tj,
                                Put(r, l + 1, NewInfo(a, n + 1)))
  <2> DEFINE st == StateOf(l, k, i, tj, r)
             k2 == Put(k, a, l + 1)
             i2 == Put(i, l + 1, NewInfo(a, n + 1))
             r2 == Put(r, l + 1, NewInfo(a, n + 1))
             l2 == l + 1
  <2>1. st.infoAt = i /\ st.keyOf = k /\ st.trie = r /\ st.lastKey = l
    BY StateFields
  <2>2. EnsureAccount(st, a, n) =
            IF a \in DOMAIN k THEN st
            ELSE WithTrie(WithInfoAt(WithKeyOf(WithLastKey(st, l2), k2), i2), r2)
    <3> HIDE DEF st
    <3>. QED  BY <2>1 DEF EnsureAccount, CreateAccount, HasAccount, WithTrie, WithInfoAt, WithKeyOf, WithLastKey
  <2> HIDE DEF i2, r2, k2, l2
  <2>3. WithTrie(WithInfoAt(WithKeyOf(WithLastKey(st, l2), k2), i2), r2) = StateOf(l2, k2, i2, tj, r2)
    BY FieldsWritten
  <2>. QED  BY <2>2, <2>3 DEF i2, r2, k2, l2
<1>. QED  BY <1>1, <1>2, StateFields

(* ... nor the reading of an account.                                      *)
LEMMA ReadKeepsTokens ==
    ASSUME NEW s, IsState(s), NEW ti
    PROVE  \A a : /\ GetAccountInfo(WithTokens(s, ti), a) = GetAccountInfo(s, a)
                  /\ HasAccount(WithTokens(s, ti), a) = HasAccount(s, a)
BY TokenFields DEF GetAccountInfo, HasAccount

-----------------------------------------------------------------------------
(* The transactions under other tokens.  What counts is the index of the   *)
(* transaction's own token.                                                *)

SameIndex(s, ti, t) == t \in DOMAIN ti /\ TokenMapped(s, t) /\ ti[t] = s.tokenIndex[t]

(* A deposit.                                                              *)
LEMMA DepositKeepsTokens ==
    ASSUME NEW s, IsState(s), NEW ti, NEW tx, SameIndex(s, ti, tx.token)
    PROVE  /\ Deposited(WithTokens(s, ti), tx) = WithTokens(Deposited(s, tx), ti)
           /\ IsState(Deposited(s, tx))
           /\ DepositAccepted(WithTokens(s, ti), tx)
           /\ Deposited(s, tx).keyOf = EnsureAccount(s, tx.account, s.tokenIndex[tx.token]).keyOf
<1> DEFINE index == s.tokenIndex[tx.token]
           v == WithTokens(s, ti)
           s1 == EnsureAccount(s, tx.account, index)
           v1 == EnsureAccount(v, tx.account, index)
           new(st) == LET info == MaybeExpandAccountInfo(GetAccountInfo(st, tx.account), index)
                      IN  [info EXCEPT !.balances[index + 1] = @ + tx.amount]
<1>1. v.tokenIndex[tx.token] = index /\ tx.token \in DOMAIN v.tokenIndex
  BY TokenFields DEF SameIndex
<1>2. v1 = WithTokens(s1, ti) /\ IsState(s1)
  BY EnsureKeepsTokens
<1> HIDE DEF v
<1>3. Deposited(s, tx) = SetAccountInfo(s1, tx.account, new(s1))
  BY DEF Deposited
<1>4. Deposited(v, tx) = SetAccountInfo(v1, tx.account, new(v1))
  BY <1>1 DEF Deposited
<1> HIDE DEF s1, v1
<1>5. new(v1) = new(s1)
  BY <1>2, ReadKeepsTokens
<1> HIDE DEF new
<1>6. /\ SetAccountInfo(v1, tx.account, new(s1)) = WithTokens(SetAccountInfo(s1, tx.account, new(s1)), ti)
      /\ IsState(SetAccountInfo(s1, tx.account, new(s1)))
      /\ SetAccountInfo(s1, tx.account, new(s1)).keyOf = s1.keyOf
  BY <1>2, SetKeepsTokens
<1>. QED  BY <1>1, <1>3, <1>4, <1>5, <1>6 DEF v, s1, DepositAccepted, TokenMapped

(* A withdrawal.                                                           *)
LEMMA WithdrawKeepsTokens ==
    ASSUME NEW s, IsState(s), NEW ti, NEW tx, SameIndex(s, ti, tx.token)
    PROVE  /\ Withdrawn(WithTokens(s, ti), tx) = WithTokens(Withdrawn(s, tx), ti)
           /\ IsState(Withdrawn(s, tx))
           /\ WithdrawAccepted(s, tx) => WithdrawAccepted(WithTokens(s, ti), tx)
           /\ Withdrawn(s, tx).keyOf = s.keyOf
<1> DEFINE index == s.tokenIndex[tx.token]
           v == WithTokens(s, ti)
           new(st) == [GetAccountInfo(st, tx.account) EXCEPT
                          !.balances[index + 1] = @ - tx.amount,
                          !.withdrawNonces[index + 1] = @ + 1]
<1>1. v.tokenIndex[tx.token] = index /\ tx.token \in DOMAIN v.tokenIndex
  BY TokenFields DEF SameIndex
<1>2. /\ GetAccountInfo(v, tx.account) = GetAccountInfo(s, tx.account)
      /\ HasAccount(v, tx.account) = HasAccount(s, tx.account)
  BY ReadKeepsTokens
<1>3. /\ SetAccountInfo(v, tx.account, new(s)) = WithTokens(SetAccountInfo(s, tx.account, new(s)), ti)
      /\ IsState(SetAccountInfo(s, tx.account, new(s)))
      /\ SetAccountInfo(s, tx.account, new(s)).keyOf = s.keyOf
  BY SetKeepsTokens
<1> HIDE DEF v
<1>4. Withdrawn(s, tx) = SetAccountInfo(s, tx.account, new(s))
  BY DEF Withdrawn
<1>5. Withdrawn(v, tx) = SetAccountInfo(v, tx.account, new(s))
  BY <1>1, <1>2 DEF Withdrawn
<1>6. WithdrawAccepted(s, tx) => WithdrawAccepted(v, tx)
  BY <1>1, <1>2 DEF WithdrawAccepted, TokenMapped
<1>. QED  BY <1>3, <1>4, <1>5, <1>6 DEF v

(* A transfer.                                                             *)
LEMMA TransferKeepsTokens ==
    ASSUME NEW s, IsState(s), NEW ti, NEW tx, SameIndex(s, ti, tx.token)
    PROVE  /\ Transferred(WithTokens(s, ti), tx) = WithTokens(Transferred(s, tx), ti)
           /\ IsState(Transferred(s, tx))
           /\ TransferAccepted(s, tx) => TransferAccepted(WithTokens(s, ti), tx)
           /\ Transferred(s, tx).keyOf = RecipientReady(s, tx).keyOf
           /\ RecipientReady(s, tx) = EnsureAccount(s, tx.recipient, s.tokenIndex[tx.token])
<1> DEFINE index == s.tokenIndex[tx.token]
           v == WithTokens(s, ti)
           s1 == RecipientReady(s, tx)
           v1 == RecipientReady(v, tx)
           debited(st) == [GetAccountInfo(st, tx.sender) EXCEPT
                              !.balances[index + 1] = @ - tx.amount,
                              !.transferNonces[index + 1] = @ + 1]
           credited(st) == LET info == MaybeExpandAccountInfo(GetAccountInfo(st, tx.recipient), index)
                           IN  [info EXCEPT !.balances[index + 1] = @ + tx.amount]
           s2 == SetAccountInfo(s1, tx.sender, debited(s1))
           v2 == SetAccountInfo(v1, tx.sender, debited(s1))
<1>1. v.tokenIndex[tx.token] = index /\ tx.token \in DOMAIN v.tokenIndex /\ TokenMapped(v, tx.token)
  BY TokenFields DEF SameIndex, TokenMapped
<1>2. TokenMapped(s, tx.token)
  BY DEF SameIndex
<1> HIDE DEF index
<1>3. s1 = EnsureAccount(s, tx.recipient, index) /\ v1 = EnsureAccount(v, tx.recipient, index)
  BY <1>1, <1>2 DEF RecipientReady, index
<1>4. v1 = WithTokens(s1, ti) /\ IsState(s1)
  BY <1>3, EnsureKeepsTokens
<1> HIDE DEF v, s1, v1
<1>5. /\ \A a : GetAccountInfo(v1, a) = GetAccountInfo(s1, a)
      /\ \A a : HasAccount(v1, a) = HasAccount(s1, a)
  BY <1>4, ReadKeepsTokens
<1>6. debited(v1) = debited(s1) /\ credited(v1) = credited(s1)
  BY <1>5
<1>7. SenderDebited(s, tx) = s2 /\ SenderDebited(v, tx) = v2
  BY <1>1, <1>6 DEF SenderDebited, index, s1, v1
<1>8. RecipientCredited(s, tx) = credited(s1) /\ RecipientCredited(v, tx) = credited(s1)
  BY <1>1, <1>6 DEF RecipientCredited, index, s1, v1
<1> HIDE DEF debited, credited
<1>9. v2 = WithTokens(s2, ti) /\ IsState(s2) /\ s2.keyOf = s1.keyOf
  BY <1>4, SetKeepsTokens
<1> HIDE DEF s2, v2
<1>10. /\ SetAccountInfo(v2, tx.recipient, credited(s1))
              = WithTokens(SetAccountInfo(s2, tx.recipient, credited(s1)), ti)
       /\ IsState(SetAccountInfo(s2, tx.recipient, credited(s1)))
       /\ SetAccountInfo(s2, tx.recipient, credited(s1)).keyOf = s2.keyOf
  BY <1>9, SetKeepsTokens
<1>11. /\ Transferred(s, tx) = SetAccountInfo(s2, tx.recipient, credited(s1))
       /\ Transferred(v, tx) = SetAccountInfo(v2, tx.recipient, credited(s1))
  BY <1>7, <1>8 DEF Transferred
<1>12. TransferAccepted(s, tx) => TransferAccepted(v, tx)
  BY <1>1, <1>5 DEF TransferAccepted, s1, v1, index
<1>. QED  BY <1>3, <1>9, <1>10, <1>11, <1>12 DEF v, s1, index

-----------------------------------------------------------------------------
(* Accepted transactions: the state and the entries of the update.         *)

(* The accounts that were there are there, in the same slots.              *)
KeepsSlots(r, s) == \A a \in DOMAIN s.keyOf : a \in DOMAIN r.keyOf /\ r.keyOf[a] = s.keyOf[a]

(* Creating an account moves no other.                                     *)
LEMMA EnsureKeepsSlots ==
    ASSUME NEW s, IsState(s), NEW a, NEW n
    PROVE  KeepsSlots(EnsureAccount(s, a, n), s) /\ a \in DOMAIN EnsureAccount(s, a, n).keyOf
<1> DEFINE k == s.lastKey + 1
           r == EnsureAccount(s, a, n)
<1>1. CASE HasAccount(s, a)
  BY <1>1 DEF EnsureAccount, KeepsSlots, HasAccount
<1>2. CASE ~HasAccount(s, a)
  <2>1. r = WithTrie(WithInfoAt(WithKeyOf(WithLastKey(s, k), Put(s.keyOf, a, k)),
                                Put(s.infoAt, k, NewInfo(a, n + 1))), Put(s.trie, k, NewInfo(a, n + 1)))
    BY <1>2 DEF EnsureAccount, CreateAccount, WithTrie, WithInfoAt, WithKeyOf, WithLastKey
  <2>2. r.keyOf = Put(s.keyOf, a, k)
    <3> DEFINE x == Put(s.keyOf, a, k)
               y == Put(s.infoAt, k, NewInfo(a, n + 1))
               z == Put(s.trie, k, NewInfo(a, n + 1))
               l == s.lastKey  m == s.keyOf  i == s.infoAt  t == s.tokenIndex  w == s.trie
    <3>1. s = StateOf(l, m, i, t, w)
      BY DEF IsState
    <3> HIDE DEF k, x, y, z, l, m, i, t, w
    <3>2. WithTrie(WithInfoAt(WithKeyOf(WithLastKey(s, k), x), y), z) = StateOf(k, x, y, t, z)
      BY <3>1, FieldsWritten
    <3>3. StateOf(k, x, y, t, z).keyOf = x
      BY StateFields
    <3>. QED  BY <2>1, <3>2, <3>3 DEF x, y, z
  <2>3. \A b \in DOMAIN s.keyOf : b # a
    BY <1>2 DEF HasAccount
  <2>. QED  BY <2>2, <2>3 DEF Put, KeepsSlots
<1>. QED  BY <1>1, <1>2

(* A transfer that is accepted does not crash the process.                 *)
LEMMA AcceptedDoesNotPanic ==
    ASSUME NEW s, Consistent(s), NEW tx, tx.recipient \in Accounts, TransferAccepted(s, tx)
    PROVE  ~TransferPanics(s, tx)
<1> DEFINE info == GetAccountInfo(RecipientReady(s, tx), tx.sender)
<1>1. tx.sender \in DOMAIN RecipientReady(s, tx).keyOf /\ TokenMapped(s, tx.token)
  BY TransferAcceptedHoldings
<1>2. info \in AccountInfo
  BY <1>1, RecipientReadyHoldings, GetAccountInfoProperties DEF Extends
<1>3. Len(info.transferNonces) \in Nat /\ s.tokenIndex[tx.token] \in Nat
  BY <1>1, <1>2, AccountInfoTyped, SlotTyped
<1>4. s.tokenIndex[tx.token] < Len(info.transferNonces)
  BY DEF TransferAccepted
<1> HIDE DEF info
<1>5. ~(s.tokenIndex[tx.token] >= Len(info.transferNonces))
  BY <1>3, <1>4
<1>. QED  BY <1>5 DEF TransferPanics, info

(* What ApplyTransaction returns of an accepted deposit, ...               *)
LEMMA DepositOutcome ==
    ASSUME NEW s, Consistent(s), IsState(s), NEW tx \in DepositTxs,
           ApplyTransaction(s, tx).outcome = "ok"
    PROVE  LET u == ApplyTransaction(s, tx)
           IN  /\ TokenMapped(s, tx.token) /\ tx.type = "deposit" /\ tx.account \in Accounts /\ tx.amount \in Nat
               /\ u.st = Deposited(s, tx)
               /\ u.entries = <<Entry(u.st, tx.account, ~HasAccount(s, tx.account))>>
               /\ KeepsSlots(u.st, s) /\ tx.account \in DOMAIN u.st.keyOf
<1>1. tx.type = "deposit" /\ tx.account \in Accounts /\ tx.amount \in Nat
  BY DEF DepositTxs
<1>2. DepositAccepted(s, tx)
  BY <1>1 DEF ApplyTransaction, ApplyDeposit, Rejected
<1>3. ApplyTransaction(s, tx) =
        [outcome |-> "ok", st |-> Deposited(s, tx),
         entries |-> <<Entry(Deposited(s, tx), tx.account, ~HasAccount(s, tx.account))>>]
  BY <1>1, <1>2 DEF ApplyTransaction, ApplyDeposit
<1>4. SameIndex(s, s.tokenIndex, tx.token)
  BY <1>2 DEF DepositAccepted, SameIndex, TokenMapped
<1>5. Deposited(s, tx).keyOf = EnsureAccount(s, tx.account, s.tokenIndex[tx.token]).keyOf
  BY <1>4, DepositKeepsTokens
<1>6. KeepsSlots(Deposited(s, tx), s) /\ tx.account \in DOMAIN Deposited(s, tx).keyOf
  BY <1>5, EnsureKeepsSlots DEF KeepsSlots
<1>. QED  BY <1>1, <1>2, <1>3, <1>6 DEF DepositAccepted

(* ... of an accepted withdrawal ...                                       *)
LEMMA WithdrawOutcome ==
    ASSUME NEW s, Consistent(s), IsState(s), NEW tx \in WithdrawTxs,
           ApplyTransaction(s, tx).outcome = "ok"
    PROVE  LET u == ApplyTransaction(s, tx)
           IN  /\ TokenMapped(s, tx.token) /\ tx.type = "withdraw" /\ tx.amount \in Nat /\ tx.nonce \in Nat
               /\ u.st = Withdrawn(s, tx) /\ WithdrawAccepted(s, tx)
               /\ u.entries = <<Entry(u.st, tx.account, FALSE)>>
               /\ u.st.keyOf = s.keyOf /\ HasAccount(s, tx.account)
<1>1. tx.type = "withdraw" /\ tx.amount \in Nat /\ tx.nonce \in Nat
  BY DEF WithdrawTxs
<1>2. WithdrawAccepted(s, tx)
  BY <1>1 DEF ApplyTransaction, ApplyWithdraw, Rejected
<1>3. ApplyTransaction(s, tx) =
        [outcome |-> "ok", st |-> Withdrawn(s, tx),
         entries |-> <<Entry(Withdrawn(s, tx), tx.account, FALSE)>>]
  BY <1>1, <1>2 DEF ApplyTransaction, ApplyWithdraw
<1>4. SameIndex(s, s.tokenIndex, tx.token)
  BY <1>2 DEF WithdrawAccepted, SameIndex, TokenMapped
<1>5. Withdrawn(s, tx).keyOf = s.keyOf
  BY <1>4, WithdrawKeepsTokens
<1>6. TokenMapped(s, tx.token) /\ HasAccount(s, tx.account)
  BY <1>2 DEF WithdrawAccepted
<1> DEFINE post == Withdrawn(s, tx)
           u == ApplyTransaction(s, tx)
<1>7. u.st = post /\ u.entries = <<Entry(post, tx.account, FALSE)>>
  <2> DEFINE e == <<Entry(post, tx.account, FALSE)>>
  <2>1. u = [outcome |-> "ok", st |-> post, entries |-> e]
    BY <1>3
  <2> HIDE DEF e, post, u
  <2>2. u.st = post /\ u.entries = e
    BY <2>1
  <2>. QED  BY <2>2 DEF e
<1> HIDE DEF post, u
<1>8. u.entries = <<Entry(u.st, tx.account, FALSE)>> /\ u.st.keyOf = s.keyOf
  BY <1>5, <1>7 DEF post
<1>. QED  BY <1>1, <1>2, <1>6, <1>7, <1>8 DEF post, u

(* ... and of an accepted transfer.                                        *)
LEMMA TransferOutcome ==
    ASSUME NEW s, Consistent(s), IsState(s), NEW tx \in TransferTxs,
           ApplyTransaction(s, tx).outcome = "ok"
    PROVE  LET u == ApplyTransaction(s, tx)
           IN  /\ TokenMapped(s, tx.token) /\ tx.type = "transfer" /\ tx.recipient \in Accounts
               /\ tx.amount \in Nat /\ tx.nonce \in Nat
               /\ u.st = Transferred(s, tx) /\ TransferAccepted(s, tx)
               /\ u.entries = <<Entry(u.st, tx.sender, FALSE),
                                Entry(u.st, tx.recipient, ~HasAccount(s, tx.recipient))>>
               /\ KeepsSlots(u.st, s)
               /\ tx.sender \in DOMAIN u.st.keyOf /\ tx.recipient \in DOMAIN u.st.keyOf
<1>1. tx.type = "transfer" /\ tx.amount \in Nat /\ tx.nonce \in Nat /\ tx.recipient \in Accounts
  BY DEF TransferTxs
<1>2. TransferAccepted(s, tx)
  <2> SUFFICES ASSUME ~TransferAccepted(s, tx) PROVE FALSE
    OBVIOUS
  <2>1. ApplyTransaction(s, tx).outcome = IF TransferPanics(s, tx) THEN "panic" ELSE "rejected"
    BY <1>1 DEF ApplyTransaction, ApplyTransfer, Rejected
  <2>. QED  BY <2>1
<1>3. ~TransferPanics(s, tx)
  BY <1>1, <1>2, AcceptedDoesNotPanic
<1>4. ApplyTransaction(s, tx) =
        [outcome |-> "ok", st |-> Transferred(s, tx),
         entries |-> <<Entry(Transferred(s, tx), tx.sender, FALSE),
                       Entry(Transferred(s, tx), tx.recipient, ~HasAccount(s, tx.recipient))>>]
  BY <1>1, <1>2, <1>3 DEF ApplyTransaction, ApplyTransfer
<1>5. TokenMapped(s, tx.token) /\ SameIndex(s, s.tokenIndex, tx.token)
  BY <1>2 DEF TransferAccepted, SameIndex, TokenMapped
<1>6. /\ Transferred(s, tx).keyOf = RecipientReady(s, tx).keyOf
      /\ RecipientReady(s, tx) = EnsureAccount(s, tx.recipient, s.tokenIndex[tx.token])
  BY <1>5, TransferKeepsTokens
<1>7. /\ KeepsSlots(Transferred(s, tx), s)
      /\ tx.recipient \in DOMAIN Transferred(s, tx).keyOf
  BY <1>6, EnsureKeepsSlots DEF KeepsSlots
<1>8. tx.sender \in DOMAIN Transferred(s, tx).keyOf
  BY <1>1, <1>2, <1>6, TransferAcceptedHoldings
<1> DEFINE post == Transferred(s, tx)
           u == ApplyTransaction(s, tx)
<1>9. /\ u.st = post
      /\ u.entries = <<Entry(post, tx.sender, FALSE), Entry(post, tx.recipient, ~HasAccount(s, tx.recipient))>>
  <2> DEFINE e == <<Entry(post, tx.sender, FALSE), Entry(post, tx.recipient, ~HasAccount(s, tx.recipient))>>
  <2>1. u = [outcome |-> "ok", st |-> post, entries |-> e]
    BY <1>4
  <2> HIDE DEF e, post, u
  <2>2. u.st = post /\ u.entries = e
    BY <2>1
  <2>. QED  BY <2>2 DEF e
<1> HIDE DEF post, u
<1>10. u.entries = <<Entry(u.st, tx.sender, FALSE), Entry(u.st, tx.recipient, ~HasAccount(s, tx.recipient))>>
  BY <1>9
<1>11. KeepsSlots(u.st, s) /\ tx.sender \in DOMAIN u.st.keyOf /\ tx.recipient \in DOMAIN u.st.keyOf
  BY <1>7, <1>8, <1>9 DEF post
<1>. QED  BY <1>1, <1>2, <1>5, <1>9, <1>10, <1>11 DEF post, u

(* A state stays a record, whatever the transaction.                       *)
LEMMA AppliedIsState ==
    ASSUME NEW s, IsState(s), NEW tx, tx.type \in {"deposit", "withdraw", "transfer"}
    PROVE  IsState(ApplyTransaction(s, tx).st)
<1>1. CASE tx.type = "deposit"
  <2>1. CASE DepositAccepted(s, tx)
    <3>1. SameIndex(s, s.tokenIndex, tx.token)
      BY <2>1 DEF DepositAccepted, SameIndex, TokenMapped
    <3>2. IsState(Deposited(s, tx))
      BY <3>1, DepositKeepsTokens
    <3>. QED  BY <1>1, <2>1, <3>2 DEF ApplyTransaction, ApplyDeposit
  <2>2. CASE ~DepositAccepted(s, tx)
    BY <1>1, <2>2 DEF ApplyTransaction, ApplyDeposit, Rejected
  <2>. QED  BY <2>1, <2>2
<1>2. CASE tx.type = "withdraw"
  <2>1. CASE WithdrawAccepted(s, tx)
    <3>1. SameIndex(s, s.tokenIndex, tx.token)
      BY <2>1 DEF WithdrawAccepted, SameIndex, TokenMapped
    <3>2. IsState(Withdrawn(s, tx))
      BY <3>1, WithdrawKeepsTokens
    <3>. QED  BY <1>2, <2>1, <3>2 DEF ApplyTransaction, ApplyWithdraw
  <2>2. CASE ~WithdrawAccepted(s, tx)
    BY <1>2, <2>2 DEF ApplyTransaction, ApplyWithdraw, Rejected
  <2>. QED  BY <2>1, <2>2
<1>3. CASE tx.type = "transfer"
  <2>1. IsState(RecipientReady(s, tx))
    BY EnsureKeepsTokens DEF RecipientReady
  <2>2. TransferAccepted(s, tx) => IsState(Transferred(s, tx))
    <3>1. TransferAccepted(s, tx) => SameIndex(s, s.tokenIndex, tx.token)
      BY DEF TransferAccepted, SameIndex, TokenMapped
    <3>. QED  BY <3>1, TransferKeepsTokens
  <2>3. ApplyTransaction(s, tx) = ApplyTransfer(s, tx)
    BY <1>3 DEF ApplyTransaction
  <2>4. ApplyTransfer(s, tx).st \in {RecipientReady(s, tx)} \cup
           (IF TransferAccepted(s, tx) THEN {Transferred(s, tx)} ELSE {})
    <3>1. CASE TransferAccepted(s, tx) /\ ~TransferPanics(s, tx)
      BY <3>1 DEF ApplyTransfer
    <3>2. CASE TransferAccepted(s, tx) /\ TransferPanics(s, tx)
      BY <3>2 DEF ApplyTransfer
    <3>3. CASE ~TransferAccepted(s, tx)
      BY <3>3 DEF ApplyTransfer, Rejected
    <3>. QED  BY <3>1, <3>2, <3>3
  <2>. QED  BY <2>1, <2>2, <2>3, <2>4
<1>. QED  BY <1>1, <1>2, <1>3

-----------------------------------------------------------------------------
(* The transitions an aggregator builds *)

Kinds == {"createAndDeposit", "deposit", "withdraw", "createAndTransfer", "transfer"}
Tries == UNION {[D -> AccountInfo] : D \in SUBSET Nat}
Roots == [zero : BOOLEAN, trie : Tries]

Payload == { tr \in [type : Kinds, root : Roots, slots : Seq(Nat), names : SUBSET Accounts,
                     tokenIndex : Nat, amount : Nat, nonce : Nat] :
               Encodable(tr) /\ Cardinality(tr.names) <= 1 }

(* A transition is what its seven fields say.                              *)
TransitionWith(kind, root, slots, names, index, amount, nonce) ==
    [type |-> kind, root |-> root, slots |-> slots, names |-> names,
     tokenIndex |-> index, amount |-> amount, nonce |-> nonce]

(* The account a transition names, if its kind names one.                  *)
Named(kind, a) == IF kind \in {"createAndDeposit", "createAndTransfer"} THEN {a} ELSE {}

(* Well typed fields make a transition that Serialize can pack, with one   *)
(* slot ...                                                                *)
LEMMA OneSlotPayload ==
    ASSUME NEW kind \in {"createAndDeposit", "deposit", "withdraw"}, NEW root \in Roots, NEW slot \in Nat,
           NEW a \in Accounts, NEW index \in Nat, NEW amount \in Nat, NEW nonce \in Nat,
           kind \in {"createAndDeposit", "deposit"} => nonce = 0
    PROVE  TransitionWith(kind, root, <<slot>>, Named(kind, a), index, amount, nonce) \in Payload
<1> DEFINE names == IF kind = "createAndDeposit" THEN {a} ELSE {}
           slots == <<slot>>
           tr == TransitionWith(kind, root, slots, names, index, amount, nonce)
<1>1. /\ tr.type = kind /\ tr.root = root /\ tr.slots = slots /\ tr.names = names
      /\ tr.tokenIndex = index /\ tr.amount = amount /\ tr.nonce = nonce
      /\ tr = [type |-> tr.type, root |-> tr.root, slots |-> tr.slots, names |-> tr.names,
               tokenIndex |-> tr.tokenIndex, amount |-> tr.amount, nonce |-> tr.nonce]
  <2> HIDE DEF names, slots
  <2>. QED  BY DEF TransitionWith
<1>2. \E i \in DOMAIN TypeNames : TypeNames[i] = kind
  <2>1. TypeNames[1] = "createAndDeposit" /\ TypeNames[2] = "deposit" /\ TypeNames[3] = "withdraw"
    BY DEF TypeNames
  <2>2. 1 \in DOMAIN TypeNames /\ 2 \in DOMAIN TypeNames /\ 3 \in DOMAIN TypeNames
    BY DEF TypeNames
  <2>. QED  BY <2>1, <2>2
<1>3. slots = <<slots[1]>> /\ slots \in Seq(Nat) /\ kind \notin {"createAndTransfer", "transfer"}
  OBVIOUS
<1>4. /\ names \in SUBSET Accounts /\ Cardinality(names) <= 1
      /\ IF kind \in {"createAndDeposit", "createAndTransfer"} THEN \E b \in names : names = {b} ELSE names = {}
  <2>1. Cardinality({a}) = 1 /\ Cardinality({}) = 0
    BY FS_Singleton, FS_EmptySet
  <2>. QED  BY <2>1
<1> HIDE DEF tr, names, slots
<1>5. Encodable(tr)
  BY <1>1, <1>2, <1>3, <1>4 DEF Encodable
<1>6. tr \in [type : Kinds, root : Roots, slots : Seq(Nat), names : SUBSET Accounts,
              tokenIndex : Nat, amount : Nat, nonce : Nat]
  BY <1>1, <1>3, <1>4 DEF Kinds
<1>7. tr \in Payload
  BY <1>1, <1>4, <1>5, <1>6 DEF Payload
<1>8. Named(kind, a) = names
  BY DEF Named, names
<1>. QED  BY <1>7, <1>8, Zenon DEF tr, slots

(* ... or with two.                                                        *)
LEMMA TwoSlotPayload ==
    ASSUME NEW kind \in {"createAndTransfer", "transfer"}, NEW root \in Roots, NEW from \in Nat, NEW to \in Nat,
           NEW a \in Accounts, NEW index \in Nat, NEW amount \in Nat, NEW nonce \in Nat
    PROVE  TransitionWith(kind, root, <<from, to>>, Named(kind, a), index, amount, nonce) \in Payload
<1> DEFINE names == IF kind = "createAndTransfer" THEN {a} ELSE {}
           slots == <<from, to>>
           tr == TransitionWith(kind, root, slots, names, index, amount, nonce)
<1>1. /\ tr.type = kind /\ tr.root = root /\ tr.slots = slots /\ tr.names = names
      /\ tr.tokenIndex = index /\ tr.amount = amount /\ tr.nonce = nonce
      /\ tr = [type |-> tr.type, root |-> tr.root, slots |-> tr.slots, names |-> tr.names,
               tokenIndex |-> tr.tokenIndex, amount |-> tr.amount, nonce |-> tr.nonce]
  <2> HIDE DEF names, slots
  <2>. QED  BY DEF TransitionWith
<1>2. \E i \in DOMAIN TypeNames : TypeNames[i] = kind
  <2>1. TypeNames[4] = "createAndTransfer" /\ TypeNames[5] = "transfer"
    BY DEF TypeNames
  <2>2. 4 \in DOMAIN TypeNames /\ 5 \in DOMAIN TypeNames
    BY DEF TypeNames
  <2>. QED  BY <2>1, <2>2
<1>3. slots = <<slots[1], slots[2]>> /\ slots \in Seq(Nat) /\ kind \notin {"createAndDeposit", "deposit"}
  OBVIOUS
<1>4. /\ names \in SUBSET Accounts /\ Cardinality(names) <= 1
      /\ IF kind \in {"createAndDeposit", "createAndTransfer"} THEN \E b \in names : names = {b} ELSE names = {}
  <2>1. Cardinality({a}) = 1 /\ Cardinality({}) = 0
    BY FS_Singleton, FS_EmptySet
  <2>. QED  BY <2>1
<1> HIDE DEF tr, names, slots
<1>5. Encodable(tr)
  BY <1>1, <1>2, <1>3, <1>4 DEF Encodable
<1>6. tr \in [type : Kinds, root : Roots, slots : Seq(Nat), names : SUBSET Accounts,
              tokenIndex : Nat, amount : Nat, nonce : Nat]
  BY <1>1, <1>3, <1>4 DEF Kinds
<1>7. tr \in Payload
  BY <1>1, <1>4, <1>5, <1>6 DEF Payload
<1>8. Named(kind, a) = names
  BY DEF Named, names
<1>. QED  BY <1>7, <1>8, Zenon DEF tr, slots

(* The root of a state's tree, and the root nobody has.                    *)
LEMMA RootTyped ==
    ASSUME NEW s, Consistent(s)
    PROVE  Root(StateRoot(s)) \in Roots /\ ZeroRoot \in Roots
<1>1. s.trie \in [DOMAIN s.trie -> AccountInfo] /\ DOMAIN s.trie \in SUBSET Nat
  BY DEF Consistent, TablesTyped, SlotsAssigned, TrieAgrees
<1>2. s.trie \in Tries
  BY <1>1 DEF Tries
<1>3. EmptyTable \in [{} -> AccountInfo] /\ {} \in SUBSET Nat
  BY EmptyTableProperties DEF EmptyTable
<1>4. EmptyTable \in Tries
  BY <1>3 DEF Tries
<1>. QED  BY <1>2, <1>4 DEF Root, StateRoot, ZeroRoot, Roots

DepositKind(s, tx) == IF HasAccount(s, tx.account) THEN "deposit" ELSE "createAndDeposit"

TransferKind(s, tx) == IF HasAccount(s, tx.recipient) THEN "transfer" ELSE "createAndTransfer"

(* The transition an accepted deposit makes, ...                           *)
LEMMA DepositMakes ==
    ASSUME NEW s, Consistent(s), IsState(s), NEW tx \in DepositTxs, NEW f \in BOOLEAN,
           ApplyTransaction(s, tx).outcome = "ok"
    PROVE  LET u    == ApplyTransaction(s, tx)
               kind == DepositKind(s, tx)
           IN  TransitionOf(u, tx, f) =
                   TransitionWith(kind, Root(StateRoot(u.st)), <<u.st.keyOf[tx.account]>>,
                                  Named(kind, tx.account), u.st.tokenIndex[tx.token], tx.amount, 0)
<1> DEFINE u == ApplyTransaction(s, tx)
           index == u.st.tokenIndex[tx.token]
           tr == TransitionOf(u, tx, f)
           new == ~HasAccount(s, tx.account)
           slot == u.st.keyOf[tx.account]
           kind == DepositKind(s, tx)
<1>1. tx.type = "deposit" /\ u.entries[1] = Entry(u.st, tx.account, new)
  BY DepositOutcome
<1>2. u.entries[1].slot = slot /\ u.entries[1].newAccount = new
  BY <1>1 DEF Entry
<1>3. tr = DepositTransition(u, tx, index)
  BY <1>1 DEF TransitionOf
<1> HIDE DEF u, slot, index, tr
<1>4. tr = TransitionWith(kind, Root(StateRoot(u.st)), <<slot>>, Named(kind, tx.account), index, tx.amount, 0)
  BY <1>2, <1>3 DEF DepositTransition, TransitionWith, DepositKind, Named
<1>. QED  BY <1>4 DEF u, slot, index, tr

(* ... an accepted withdrawal ...                                          *)
LEMMA WithdrawMakes ==
    ASSUME NEW s, Consistent(s), IsState(s), NEW tx \in WithdrawTxs, NEW f \in BOOLEAN,
           ApplyTransaction(s, tx).outcome = "ok"
    PROVE  LET u == ApplyTransaction(s, tx)
           IN  TransitionOf(u, tx, f) =
                   TransitionWith("withdraw", Root(StateRoot(u.st)), <<u.st.keyOf[tx.account]>>, {},
                                  u.st.tokenIndex[tx.token], tx.amount, tx.nonce)
<1> DEFINE u == ApplyTransaction(s, tx)
           index == u.st.tokenIndex[tx.token]
           tr == TransitionOf(u, tx, f)
           slot == u.st.keyOf[tx.account]
<1>1. tx.type = "withdraw" /\ u.entries[1] = Entry(u.st, tx.account, FALSE)
  <2>1. tx.type = "withdraw" /\ u.entries = <<Entry(u.st, tx.account, FALSE)>>
    BY WithdrawOutcome
  <2>. QED  BY <2>1
<1>2. u.entries[1].slot = slot
  BY <1>1 DEF Entry
<1>3. tr = WithdrawTransition(u, tx, index)
  BY <1>1 DEF TransitionOf
<1> HIDE DEF u, slot, index, tr
<1>4. tr = TransitionWith("withdraw", Root(StateRoot(u.st)), <<slot>>, {}, index, tx.amount, tx.nonce)
  BY <1>2, <1>3 DEF WithdrawTransition, TransitionWith
<1>. QED  BY <1>4 DEF u, slot, index, tr

(* ... and an accepted transfer.                                           *)
LEMMA TransferMakes ==
    ASSUME NEW s, Consistent(s), IsState(s), NEW tx \in TransferTxs, NEW f \in BOOLEAN,
           ApplyTransaction(s, tx).outcome = "ok"
    PROVE  LET u    == ApplyTransaction(s, tx)
               kind == TransferKind(s, tx)
           IN  TransitionOf(u, tx, f) =
                   TransitionWith(kind, IF f THEN ZeroRoot ELSE Root(StateRoot(u.st)),
                                  <<u.st.keyOf[tx.sender], u.st.keyOf[tx.recipient]>>,
                                  Named(kind, tx.recipient), u.st.tokenIndex[tx.token], tx.amount, tx.nonce)
<1> DEFINE u == ApplyTransaction(s, tx)
           index == u.st.tokenIndex[tx.token]
           tr == TransitionOf(u, tx, f)
           new == ~HasAccount(s, tx.recipient)
           from == u.st.keyOf[tx.sender]
           to == u.st.keyOf[tx.recipient]
           kind == TransferKind(s, tx)
           root == IF f THEN ZeroRoot ELSE Root(StateRoot(u.st))
<1>1. /\ tx.type = "transfer"
      /\ u.entries = <<Entry(u.st, tx.sender, FALSE), Entry(u.st, tx.recipient, new)>>
  BY TransferOutcome
<1>2. u.entries[1].slot = from /\ u.entries[2].slot = to /\ u.entries[2].newAccount = new
  BY <1>1 DEF Entry
<1>3. tr = TransferTransition(u, tx, index, f)
  BY <1>1 DEF TransitionOf
<1> HIDE DEF u, from, to, index, tr, root
<1>4. tr = TransitionWith(kind, root, <<from, to>>, Named(kind, tx.recipient), index, tx.amount, tx.nonce)
  BY <1>2, <1>3 DEF TransferTransition, TransitionWith, root, TransferKind, Named
<1>. QED  BY <1>4 DEF u, from, to, index, tr, root

(* An accepted transaction makes a transition of the type that fits it,    *)
(* with all that Serialize needs.                                          *)
LEMMA TransitionBuilt ==
    ASSUME NEW s, Consistent(s), IsState(s), NEW tx \in Txs, NEW f \in BOOLEAN,
           ApplyTransaction(s, tx).outcome = "ok"
    PROVE  TransitionOf(ApplyTransaction(s, tx), tx, f) \in Payload
<1> DEFINE u == ApplyTransaction(s, tx)
           index == u.st.tokenIndex[tx.token]
           root == IF f THEN ZeroRoot ELSE Root(StateRoot(u.st))
<1>1. Extends(u.st, s) /\ Consistent(u.st) /\ TokenMapped(s, tx.token)
  BY Applied DEF Extends
<1>2. index \in Nat
  BY <1>1, SlotTyped DEF Extends
<1>3. Root(StateRoot(u.st)) \in Roots /\ ZeroRoot \in Roots /\ root \in Roots
  BY <1>1, RootTyped
<1>4. \A a \in DOMAIN u.st.keyOf : u.st.keyOf[a] \in Nat
  BY <1>1 DEF Consistent, TablesTyped
<1>5. CASE tx \in DepositTxs
  <2>1. tx.account \in Accounts /\ tx.amount \in Nat /\ u.st.keyOf[tx.account] \in Nat
    BY <1>4, <1>5, DepositOutcome
  <2>2. TransitionOf(u, tx, f) =
           TransitionWith(DepositKind(s, tx), Root(StateRoot(u.st)), <<u.st.keyOf[tx.account]>>,
                          Named(DepositKind(s, tx), tx.account), index, tx.amount, 0)
    BY <1>5, DepositMakes
  <2>3. DepositKind(s, tx) \in {"createAndDeposit", "deposit", "withdraw"}
    BY DEF DepositKind
  <2> HIDE DEF u, index
  <2>. QED  BY <1>2, <1>3, <2>1, <2>2, <2>3, OneSlotPayload DEF u
<1>6. CASE tx \in WithdrawTxs
  <2>1. tx.account \in Accounts /\ tx.amount \in Nat /\ tx.nonce \in Nat
    BY <1>6 DEF WithdrawTxs
  <2>2. u.st.keyOf[tx.account] \in Nat
    <3>1. u.st.keyOf = s.keyOf /\ HasAccount(s, tx.account)
      BY <1>6, WithdrawOutcome
    <3>. QED  BY <1>4, <3>1 DEF HasAccount
  <2>3. TransitionOf(u, tx, f) =
           TransitionWith("withdraw", Root(StateRoot(u.st)), <<u.st.keyOf[tx.account]>>, {}, index,
                          tx.amount, tx.nonce)
    BY <1>6, WithdrawMakes
  <2> DEFINE kind == "withdraw"
  <2>4. kind \in {"createAndDeposit", "deposit", "withdraw"} /\ Named(kind, tx.account) = {}
        /\ (kind \in {"createAndDeposit", "deposit"} => tx.nonce = 0)
    BY DEF Named
  <2> HIDE DEF u, index, kind
  <2>5. TransitionOf(u, tx, f) =
           TransitionWith(kind, Root(StateRoot(u.st)), <<u.st.keyOf[tx.account]>>, Named(kind, tx.account),
                          index, tx.amount, tx.nonce)
    BY <2>3, <2>4 DEF kind
  <2>6. TransitionWith(kind, Root(StateRoot(u.st)), <<u.st.keyOf[tx.account]>>, Named(kind, tx.account),
                       index, tx.amount, tx.nonce) \in Payload
    BY <1>2, <1>3, <2>1, <2>2, <2>4, OneSlotPayload
  <2>. QED  BY <2>5, <2>6 DEF u
<1>7. CASE tx \in TransferTxs
  <2>1. /\ tx.recipient \in Accounts /\ tx.amount \in Nat /\ tx.nonce \in Nat
        /\ u.st.keyOf[tx.sender] \in Nat /\ u.st.keyOf[tx.recipient] \in Nat
    BY <1>4, <1>7, TransferOutcome
  <2>2. TransitionOf(u, tx, f) =
           TransitionWith(TransferKind(s, tx), root, <<u.st.keyOf[tx.sender], u.st.keyOf[tx.recipient]>>,
                          Named(TransferKind(s, tx), tx.recipient), index, tx.amount, tx.nonce)
    BY <1>7, TransferMakes
  <2>3. TransferKind(s, tx) \in {"createAndTransfer", "transfer"}
    BY DEF TransferKind
  <2> HIDE DEF u, index, root
  <2>. QED  BY <1>2, <1>3, <2>1, <2>2, <2>3, TwoSlotPayload DEF u
<1>. QED  BY <1>5, <1>6, <1>7 DEF Txs

-----------------------------------------------------------------------------
(* The transitions of a sequence of blocks *)

PackedBlocks == [number : Nat, transitions : Seq(Payload)]

(* f holds the transitions of every beginning of the sequence.             *)
Joining(f, bs) == f[0] = <<>> /\ \A n \in 1..Len(bs) : f[n] = f[n - 1] \o bs[n].transitions

(* Flatten joins the blocks from the left.                                 *)
LEMMA FlattenUnfolds ==
    ASSUME NEW bs, bs \in Seq(PackedBlocks)
    PROVE  \E f : /\ Joining(f, bs)
                  /\ Flatten(bs) = f[Len(bs)]
                  /\ \A n \in 0..Len(bs) : f[n] \in Seq(Payload)
<1> DEFINE N == Len(bs)
           V == Seq(Payload)
           trs == [n \in 1..N |-> bs[n].transitions]
           step == [n \in 1..N |-> [x \in V |-> x \o trs[n]]]
           rec(f) == [n \in 0..N |-> IF n = 0 THEN <<>> ELSE f[n - 1] \o bs[n].transitions]
           Is(f) == f = rec(f)
<1>1. N \in Nat /\ \A n \in 1..N : bs[n] \in PackedBlocks
  OBVIOUS
<1>2. \A n \in 1..N : trs[n] \in V /\ trs[n] = bs[n].transitions
  BY <1>1 DEF PackedBlocks
<1>3. PICK g \in [0..N -> V] : g[0] = <<>> /\ \A n \in 1..N : g[n] = step[n][g[n - 1]]
  <2>1. <<>> \in V
    OBVIOUS
  <2> HIDE DEF trs
  <2>2. \A x, y \in V : x \o y \in V
    OBVIOUS
  <2> HIDE DEF V
  <2>3. step \in [1..N -> [V -> V]]
    BY <1>2, <2>2
  <2>4. PICK base \in V : base = <<>>
    BY <2>1
  <2>5. N \in Nat
    BY <1>1
  <2> HIDE DEF N, step
  <2>6. \E g \in [0..N -> V] : g[0] = base /\ \A n \in 1..N : g[n] = step[n][g[n - 1]]
    BY <2>3, <2>5, RecursionExists
  <2>. QED  BY <2>4, <2>6
<1>4. \A n \in 1..N : g[n] = g[n - 1] \o bs[n].transitions
  <2>1. ASSUME NEW n \in 1..N PROVE g[n] = g[n - 1] \o bs[n].transitions
    <3>0. n - 1 \in 0..N
      BY <1>1
    <3> HIDE DEF V, trs
    <3>1. n - 1 \in 0..N /\ g[n - 1] \in V
      BY <1>3, <3>0
    <3>2. g[n] = g[n - 1] \o trs[n]
      BY <1>3, <3>1
    <3>. QED  BY <1>2, <3>2
  <2>. QED  BY <2>1
<1> HIDE DEF V, trs, step
<1>5. Is(g)
  <2>1. ASSUME NEW n \in 0..N PROVE g[n] = rec(g)[n]
    <3>1. CASE n = 0
      BY <1>3, <3>1
    <3>2. CASE n # 0
      <4>1. n \in 1..N
        BY <1>1, <3>2
      <4>2. g[n] = g[n - 1] \o bs[n].transitions
        BY <1>4, <4>1
      <4>. QED  BY <3>2, <4>2
    <3>. QED  BY <3>1, <3>2
  <2>2. g = [n \in 0..N |-> g[n]]
    BY <1>3
  <2>. QED  BY <2>1, <2>2
<1>6. \A f : Is(f) => f = g
  <2> SUFFICES ASSUME NEW f, Is(f) PROVE f = g
    BY ZenonT(10)
  <2> DEFINE S == { n \in 0..N : f[n] = g[n] }
  <2>1. 0 \in S
    BY <1>1, <1>3
  <2>2. ASSUME NEW n \in 0..(N - 1), n \in S PROVE n + 1 \in S
    <3>1. n + 1 \in 1..N /\ n + 1 \in 0..N /\ n + 1 # 0 /\ (n + 1) - 1 = n
      BY <1>1
    <3>2. f[n + 1] = f[n] \o bs[n + 1].transitions
      BY <3>1
    <3>3. g[n + 1] = g[n] \o bs[n + 1].transitions
      BY <1>4, <3>1
    <3>4. f[n] = g[n]
      BY <2>2
    <3>. QED  BY <3>1, <3>2, <3>3, <3>4
  <2>3. \A n \in 0..N : n \in S
    <3> HIDE DEF S
    <3>. QED  BY <1>1, <2>1, <2>2, InductionTo
  <2>4. DOMAIN f = 0..N /\ f = [n \in 0..N |-> f[n]]
    OBVIOUS
  <2>. QED  BY <1>3, <2>3, <2>4
<1>7. Flatten(bs) = g[N]
  <2>1. Flatten(bs) = (CHOOSE f : Is(f))[N]
    BY DEF Flatten
  <2> HIDE DEF Is
  <2>. QED  BY <1>5, <1>6, <2>1
<1>8. Joining(g, bs)
  BY <1>3, <1>4 DEF Joining
<1>. QED  BY <1>3, <1>7, <1>8 DEF V

(* When one sequence of blocks begins like another, so do their            *)
(* transitions, block by block.                                            *)
LEMMA JoiningAgrees ==
    ASSUME NEW bs, NEW cs, NEW f, NEW g, NEW n \in Nat, n <= Len(bs), n <= Len(cs),
           Len(bs) \in Nat, Len(cs) \in Nat,
           \A i \in 1..n : bs[i] = cs[i], Joining(f, bs), Joining(g, cs)
    PROVE  \A i \in 0..n : f[i] = g[i]
<1> DEFINE S == { i \in 0..n : f[i] = g[i] }
<1>1. 0 \in S
  BY DEF Joining
<1>2. ASSUME NEW i \in 0..(n - 1), i \in S PROVE i + 1 \in S
  <2>1. i + 1 \in 1..n /\ i + 1 \in 0..n /\ i + 1 \in 1..Len(bs) /\ i + 1 \in 1..Len(cs) /\ (i + 1) - 1 = i
    OBVIOUS
  <2>2. f[i + 1] = f[i] \o bs[i + 1].transitions /\ g[i + 1] = g[i] \o cs[i + 1].transitions
    BY <2>1 DEF Joining
  <2>. QED  BY <1>2, <2>1, <2>2
<1>3. \A i \in 0..n : i \in S
  <2> HIDE DEF S
  <2>. QED  BY <1>1, <1>2, InductionTo
<1>. QED  BY <1>3

(* No block, no transition; one more block, its transitions behind.        *)
LEMMA FlattenAppend ==
    /\ Flatten(<<>>) = <<>>
    /\ \A bs \in Seq(PackedBlocks) : Flatten(bs) \in Seq(Payload)
    /\ \A bs \in Seq(PackedBlocks), b \in PackedBlocks :
          Flatten(Append(bs, b)) = Flatten(bs) \o b.transitions
<1>1. Flatten(<<>>) = <<>>
  <2> DEFINE empty == <<>>
  <2>1. empty \in Seq(PackedBlocks) /\ Len(empty) = 0
    OBVIOUS
  <2> HIDE DEF empty
  <2>2. PICK f : Joining(f, empty) /\ Flatten(empty) = f[0]
    BY <2>1, FlattenUnfolds
  <2>3. Flatten(empty) = <<>>
    BY <2>2 DEF Joining
  <2>. QED  BY <2>3 DEF empty
<1>2. ASSUME NEW bs \in Seq(PackedBlocks) PROVE Flatten(bs) \in Seq(Payload)
  <2>1. PICK f : Flatten(bs) = f[Len(bs)] /\ \A n \in 0..Len(bs) : f[n] \in Seq(Payload)
    BY FlattenUnfolds
  <2>2. Len(bs) \in 0..Len(bs)
    OBVIOUS
  <2>. QED  BY <2>1, <2>2
<1>3. ASSUME NEW bs \in Seq(PackedBlocks), NEW b \in PackedBlocks
      PROVE  Flatten(Append(bs, b)) = Flatten(bs) \o b.transitions
  <2> DEFINE cs == Append(bs, b)
             N == Len(bs)
  <2>1. /\ N \in Nat /\ cs \in Seq(PackedBlocks) /\ Len(cs) = N + 1 /\ cs[N + 1] = b
        /\ \A i \in 1..N : bs[i] = cs[i]
    OBVIOUS
  <2> HIDE DEF cs
  <2>2. PICK f : Joining(f, bs) /\ Flatten(bs) = f[N]
    BY FlattenUnfolds
  <2>3. PICK g : Joining(g, cs) /\ Flatten(cs) = g[N + 1]
    BY <2>1, FlattenUnfolds
  <2>4. \A i \in 0..N : f[i] = g[i]
    BY <2>1, <2>2, <2>3, JoiningAgrees
  <2>5. N + 1 \in 1..Len(cs) /\ (N + 1) - 1 = N /\ N \in 0..N
    BY <2>1
  <2>6. g[N + 1] = g[N] \o cs[N + 1].transitions
    BY <2>3, <2>5 DEF Joining
  <2>7. Flatten(cs) = Flatten(bs) \o b.transitions
    BY <2>1, <2>2, <2>3, <2>4, <2>5, <2>6
  <2>. QED  BY <2>7 DEF cs
<1>. QED  BY <1>1, <1>2, <1>3

(* The transitions of the blocks before block n, then its own: this is     *)
(* how all transitions begin.                                              *)
LEMMA FlattenBegins ==
    ASSUME NEW bs, bs \in Seq(PackedBlocks), NEW n \in 1..Len(bs)
    PROVE  /\ Flatten(SubSeq(bs, 1, n)) = Flatten(SubSeq(bs, 1, n - 1)) \o bs[n].transitions
           /\ Flatten(SubSeq(bs, 1, n)) \in Seq(Payload) /\ Flatten(SubSeq(bs, 1, n - 1)) \in Seq(Payload)
           /\ Len(Flatten(SubSeq(bs, 1, n))) <= Len(Flatten(bs))
           /\ \A i \in 1..Len(Flatten(SubSeq(bs, 1, n))) : Flatten(bs)[i] = Flatten(SubSeq(bs, 1, n))[i]
<1> DEFINE N == Len(bs)
           cs == SubSeq(bs, 1, n)
           ds == SubSeq(bs, 1, n - 1)
<1>1. /\ N \in Nat /\ n \in Nat /\ n - 1 \in Nat /\ n <= N /\ bs[n] \in PackedBlocks
      /\ cs \in Seq(PackedBlocks) /\ Len(cs) = n /\ \A i \in 1..n : cs[i] = bs[i]
      /\ ds \in Seq(PackedBlocks) /\ Len(ds) = n - 1 /\ \A i \in 1..(n - 1) : ds[i] = bs[i]
  OBVIOUS
<1> HIDE DEF cs, ds
<1>2. cs = Append(ds, bs[n])
  <2> DEFINE es == Append(ds, bs[n])
  <2>1. es \in Seq(PackedBlocks) /\ Len(es) = n /\ es[n] = bs[n] /\ \A i \in 1..(n - 1) : es[i] = ds[i]
    BY <1>1
  <2> HIDE DEF es
  <2>2. \A i \in 1..n : es[i] = cs[i]
    BY <1>1, <2>1
  <2>3. es = cs
    BY <1>1, <2>1, <2>2, SeqEqual
  <2>. QED  BY <2>3 DEF es
<1>3. Flatten(cs) = Flatten(ds) \o bs[n].transitions
  BY <1>1, <1>2, FlattenAppend
<1>4. Flatten(cs) \in Seq(Payload) /\ Flatten(ds) \in Seq(Payload)
  BY <1>1, FlattenAppend
<1>5. PICK f : Joining(f, bs) /\ Flatten(bs) = f[N] /\ \A i \in 0..N : f[i] \in Seq(Payload)
  BY FlattenUnfolds
<1>6. PICK g : Joining(g, cs) /\ Flatten(cs) = g[n]
  BY <1>1, FlattenUnfolds
<1>7. f[n] = Flatten(cs)
  <2>1. \A i \in 0..n : f[i] = g[i]
    BY <1>1, <1>5, <1>6, JoiningAgrees
  <2>. QED  BY <1>1, <1>6, <2>1
<1> DEFINE Begins(s, t) == Len(s) <= Len(t) /\ \A i \in 1..Len(s) : t[i] = s[i]
           S == { k \in 0..(N - n) : Begins(f[n], f[n + k]) }
<1>8. 0 \in S
  BY <1>1, <1>4, <1>7
<1>9. ASSUME NEW k \in 0..(N - n - 1), k \in S PROVE k + 1 \in S
  <2>1. k + 1 \in 0..(N - n) /\ n + k + 1 \in 1..N /\ (n + k + 1) - 1 = n + k /\ n + k \in 0..N
        /\ n + (k + 1) = n + k + 1
    BY <1>1
  <2>2. f[n + k + 1] = f[n + k] \o bs[n + k + 1].transitions
    BY <1>5, <2>1 DEF Joining
  <2>31. f[n + k] \in Seq(Payload)
    BY <1>5, <2>1
  <2>32. bs[n + k + 1] \in PackedBlocks
    BY <2>1
  <2>33. f[n] \in Seq(Payload)
    BY <1>4, <1>7
  <2>3. f[n + k] \in Seq(Payload) /\ bs[n + k + 1].transitions \in Seq(Payload) /\ f[n] \in Seq(Payload)
    BY <2>31, <2>32, <2>33 DEF PackedBlocks
  <2> DEFINE x == f[n]  y == f[n + k]  z == bs[n + k + 1].transitions
  <2>4. Begins(x, y)
    BY <1>9
  <2>5. x \in Seq(Payload) /\ y \in Seq(Payload) /\ z \in Seq(Payload)
    BY <2>3
  <2> HIDE DEF x, y, z
  <2>6. /\ Len(y \o z) = Len(y) + Len(z) /\ Len(y) \in Nat /\ Len(z) \in Nat /\ Len(x) \in Nat
        /\ \A i \in 1..Len(y) : (y \o z)[i] = y[i]
    BY <2>5
  <2> DEFINE w == y \o z
  <2> HIDE DEF w
  <2>7. Begins(x, w)
    BY <2>4, <2>6 DEF w
  <2>8. f[n + (k + 1)] = w
    BY <2>1, <2>2 DEF w, y, z
  <2>9. Begins(f[n], f[n + (k + 1)])
    BY <2>7, <2>8 DEF x
  <2>. QED  BY <2>1, <2>9
<1>10. \A k \in 0..(N - n) : k \in S
  <2>1. N - n \in Nat
    BY <1>1
  <2> HIDE DEF S
  <2>. QED  BY <1>8, <1>9, <2>1, InductionTo
<1>11. Begins(f[n], f[N])
  <2>1. N - n \in 0..(N - n) /\ n + (N - n) = N
    BY <1>1
  <2>2. N - n \in S
    BY <1>10, <2>1
  <2>. QED  BY <2>1, <2>2
<1>. QED  BY <1>3, <1>4, <1>5, <1>7, <1>11 DEF cs, ds

-----------------------------------------------------------------------------
(* Blocks as they travel *)

(* What is proposed is never empty.                                        *)
Whole == { b \in PackedBlocks : b.transitions # <<>> }

Coded == { SerializeBlock(b) : b \in Whole }

(* A packed block is read back as it was written.                          *)
LEMMA PackedRead ==
    ASSUME NEW b \in PackedBlocks
    PROVE  /\ DeserializeBlock(SerializeBlock(b)) = b
           /\ SerializeBlock(b).number = b.number
           /\ Len(SerializeBlock(b).transitions) = Len(b.transitions)
           /\ b.number \in Nat /\ b.transitions \in Seq(Payload)
<1>1. /\ b = [number |-> b.number, transitions |-> b.transitions]
      /\ b.number \in Nat /\ b.transitions \in Seq(Payload)
  BY DEF PackedBlocks
<1>2. \A i \in DOMAIN b.transitions : b.transitions[i] \in Payload
  BY <1>1
<1>3. \A i \in DOMAIN b.transitions : Encodable(b.transitions[i])
  BY <1>2 DEF Payload
<1>. QED  BY <1>1, <1>3, BlockRoundTrip

(* So is what travels.                                                     *)
LEMMA CodedRead ==
    ASSUME NEW c \in Coded
    PROVE  /\ DeserializeBlock(c) \in Whole
           /\ DeserializeBlock(c).number = c.number /\ c.number \in Nat
           /\ DeserializeBlock(c).transitions \in Seq(Payload)
           /\ Len(DeserializeBlock(c).transitions) = Len(c.transitions)
           /\ Len(c.transitions) \in Nat /\ Len(c.transitions) >= 1
<1>1. PICK b \in Whole : c = SerializeBlock(b)
  BY DEF Coded
<1>2. b \in PackedBlocks /\ b.transitions # <<>>
  BY DEF Whole
<1>3. /\ DeserializeBlock(c) = b /\ c.number = b.number /\ Len(c.transitions) = Len(b.transitions)
      /\ b.number \in Nat /\ b.transitions \in Seq(Payload)
  BY <1>1, <1>2, PackedRead
<1>4. Len(b.transitions) \in Nat /\ Len(b.transitions) >= 1
  BY <1>2, <1>3
<1>. QED  BY <1>3, <1>4

(* A new block is packed; so is a block with one more transition.          *)
LEMMA BlockGrows ==
    /\ \A n \in Nat : /\ NewBlock(n) \in PackedBlocks
                      /\ NewBlock(n).number = n /\ NewBlock(n).transitions = <<>>
    /\ \A b \in PackedBlocks, tr \in Payload :
          LET more == [b EXCEPT !.transitions = Append(@, tr)]
          IN  /\ more \in Whole /\ more.number = b.number
              /\ more.transitions = Append(b.transitions, tr)
<1>1. ASSUME NEW n \in Nat
      PROVE  /\ NewBlock(n) \in PackedBlocks
             /\ NewBlock(n).number = n /\ NewBlock(n).transitions = <<>>
  BY DEF NewBlock, PackedBlocks
<1>2. ASSUME NEW b \in PackedBlocks, NEW tr \in Payload
      PROVE  LET more == [b EXCEPT !.transitions = Append(@, tr)]
             IN  /\ more \in Whole /\ more.number = b.number
                 /\ more.transitions = Append(b.transitions, tr)
  <2> DEFINE content == Append(b.transitions, tr)
             more == [b EXCEPT !.transitions = Append(@, tr)]
  <2>1. b = [number |-> b.number, transitions |-> b.transitions] /\ b.number \in Nat
        /\ b.transitions \in Seq(Payload)
    BY DEF PackedBlocks
  <2>2. content \in Seq(Payload) /\ content # <<>>
    BY <2>1
  <2>3. more = [number |-> b.number, transitions |-> content]
    BY SMTT(30), <2>1
  <2> HIDE DEF content, more
  <2>4. more \in PackedBlocks /\ more.transitions = content /\ more.number = b.number
    BY <2>1, <2>2, <2>3 DEF PackedBlocks
  <2>5. more \in Whole
    BY <2>2, <2>4 DEF Whole
  <2>. QED  BY <2>4, <2>5 DEF content, more
<1>. QED  BY <1>1, <1>2

(* The tokens as the registry numbered them.                               *)
LEMMA MappedTyped ==
    /\ Mapped \in [DOMAIN Mapped -> Nat] /\ DOMAIN Mapped \subseteq Tokens
    /\ \A i \in DOMAIN TokenOrder : TokenOrder[i] \in DOMAIN Mapped /\ Mapped[TokenOrder[i]] = i - 1
    /\ \A t, u \in DOMAIN Mapped : Mapped[t] = Mapped[u] => t = u
<1>1. /\ TokenOrder \in Seq(Tokens)
      /\ \A i, j \in DOMAIN TokenOrder : TokenOrder[i] = TokenOrder[j] => i = j
  BY RollupAssumption
<1>2. DOMAIN TokenOrder \subseteq Nat /\ \A i \in DOMAIN TokenOrder : i - 1 \in Nat /\ TokenOrder[i] \in Tokens
  BY <1>1
<1>3. \A i \in DOMAIN TokenOrder : (CHOOSE j \in DOMAIN TokenOrder : TokenOrder[j] = TokenOrder[i]) = i
  BY <1>1
<1>4. DOMAIN Mapped = { TokenOrder[i] : i \in DOMAIN TokenOrder }
  BY DEF Mapped
<1>5. \A i \in DOMAIN TokenOrder : TokenOrder[i] \in DOMAIN Mapped /\ Mapped[TokenOrder[i]] = i - 1
  BY <1>3, <1>4 DEF Mapped
<1>6. \A t \in DOMAIN Mapped : \E i \in DOMAIN TokenOrder : t = TokenOrder[i]
  BY <1>4
<1>7. Mapped = [t \in DOMAIN Mapped |-> Mapped[t]]
  BY DEF Mapped
<1>8. \A t \in DOMAIN Mapped : Mapped[t] \in Nat /\ t \in Tokens
  BY <1>2, <1>5, <1>6
<1>9. \A t, u \in DOMAIN Mapped : Mapped[t] = Mapped[u] => t = u
  <2> SUFFICES ASSUME NEW t \in DOMAIN Mapped, NEW u \in DOMAIN Mapped, Mapped[t] = Mapped[u] PROVE t = u
    OBVIOUS
  <2>1. PICK i \in DOMAIN TokenOrder : t = TokenOrder[i]
    BY <1>6
  <2>2. PICK j \in DOMAIN TokenOrder : u = TokenOrder[j]
    BY <1>6
  <2>3. i - 1 = j - 1 /\ i \in Nat /\ j \in Nat
    BY <1>2, <1>5, <2>1, <2>2
  <2>. QED  BY <2>1, <2>2, <2>3
<1>. QED  BY <1>5, <1>7, <1>8, <1>9

-----------------------------------------------------------------------------
(* Types *)

Faults == AllFailures \cup {"orphan", "fraud", "ghost", "lag"}

(* At a transition, the validator has the block of its event filed.        *)
AtTransition ==
    /\ cursor.event \in 1..Len(chain)
    /\ cursor.next <= Len(chain[cursor.event].transitions)
    /\ chain[cursor.event].number \in DOMAIN blocks
    /\ Block = Event

CursorTyped ==
    /\ cursor \in [event : Nat, next : Nat]
    /\ cursor.event \in 1..(Len(chain) + 1)
    /\ cursor.next > 0 => AtTransition

BlocksFiled == \A n \in DOMAIN blocks : blocks[n] \in Whole /\ blocks[n].number = n

AggregatorTyped == Consistent(agg) /\ IsState(agg) /\ pending \in PackedBlocks /\ fraudTransfer \in BOOLEAN

QueueTyped == proposals \in Seq(Coded) /\ chain \in Seq(Coded)

TypeInv ==
    /\ AggregatorTyped
    /\ QueueTyped
    /\ BlocksFiled
    /\ CursorTyped
    /\ built \in Seq(Payload)
    /\ faults \subseteq Faults

(* The transactions of the aggregator's steps are transactions.            *)
LEMMA TxsOfAggregator ==
    ASSUME AggregatorNext
    PROVE  RestartAggregator \/ \E tx \in Txs : TxNext(tx)
<1>1. Amounts \subseteq Nat /\ Nonces \subseteq Nat
  BY RollupAssumption
<1>2. ASSUME NEW a \in Accounts, NEW t \in Tokens, NEW n \in Amounts
      PROVE  /\ DepositTx(a, t, n) \in Txs
             /\ \A c \in Nonces : /\ WithdrawTx(a, t, n, c) \in Txs
                                  /\ \A r \in Accounts : TransferTx(a, r, t, n, c) \in Txs
  BY <1>1 DEF DepositTx, WithdrawTx, TransferTx, Txs, DepositTxs, WithdrawTxs, TransferTxs
<1>3. CASE RestartAggregator
  BY <1>3
<1>4. CASE ~RestartAggregator
  <2>1. PICK a \in Accounts, t \in Tokens, n \in Amounts :
           \/ TxNext(DepositTx(a, t, n))
           \/ \E c \in Nonces :
                \/ TxNext(WithdrawTx(a, t, n, c))
                \/ \E r \in Accounts : TxNext(TransferTx(a, r, t, n, c))
    BY <1>4 DEF AggregatorNext
  <2>. QED  BY <1>2, <2>1
<1>. QED  BY <1>3, <1>4

(* The block an accepted transaction leaves, and the transition in it.     *)
AcceptedBlock(block, tr) ==
    /\ tr \in Payload /\ block \in Whole
    /\ block.number = pending.number
    /\ block.transitions = Append(pending.transitions, tr)

(* What the steps that accept a transaction have in common.                *)
LEMMA AcceptTyped ==
    ASSUME AggregatorTyped, NEW tx \in Txs, Accept(tx, ApplyTransaction(agg, tx))
    PROVE  LET update == ApplyTransaction(agg, tx)
               tr     == TransitionOf(update, tx, fraudTransfer)
           IN  /\ AcceptedBlock(AddToPendingBlock(update, tx), tr)
               /\ built' = Append(built, tr)
               /\ agg' = update.st /\ Consistent(agg') /\ IsState(agg')
<1> DEFINE update == ApplyTransaction(agg, tx)
           tr     == TransitionOf(update, tx, fraudTransfer)
           block  == AddToPendingBlock(update, tx)
<1>1. Consistent(agg) /\ IsState(agg) /\ pending \in PackedBlocks /\ fraudTransfer \in BOOLEAN
  BY DEF AggregatorTyped
<1>2. update.outcome = "ok" /\ agg' = update.st /\ built' = Append(built, tr)
  BY DEF Accept
<1>3. tr \in Payload
  BY <1>1, <1>2, TransitionBuilt
<1>4. block = [pending EXCEPT !.transitions = Append(@, tr)]
  BY DEF AddToPendingBlock
<1>5. Consistent(update.st)
  BY <1>1, Applied DEF Extends
<1>6. tx.type \in {"deposit", "withdraw", "transfer"}
  BY DEF Txs, DepositTxs, WithdrawTxs, TransferTxs
<1>7. IsState(update.st)
  BY <1>1, <1>6, AppliedIsState
<1> HIDE DEF update, tr, block
<1>8. block \in Whole /\ block.number = pending.number /\ block.transitions = Append(pending.transitions, tr)
  BY <1>1, <1>3, <1>4, BlockGrows
<1>9. agg' = update.st /\ Consistent(agg') /\ IsState(agg')
  BY <1>2, <1>5, <1>7
<1>10. AcceptedBlock(block, tr)
  BY <1>3, <1>8 DEF AcceptedBlock
<1>. QED  BY <1>2, <1>9, <1>10 DEF update, tr, block

(* The validator's variables, and what it reads.                           *)
LEMMA CursorKept ==
    ASSUME CursorTyped, chain' = chain, blocks' = blocks, cursor' = cursor
    PROVE  CursorTyped'
BY DEF CursorTyped, AtTransition, Block, Event

(* The steps of the aggregator.                                            *)
LEMMA TypeTx ==
    ASSUME TypeInv, NEW tx \in Txs, TxNext(tx)
    PROVE  TypeInv'
<1> DEFINE update == ApplyTransaction(agg, tx)
           block  == AddToPendingBlock(update, tx)
           tr     == TransitionOf(update, tx, fraudTransfer)
<1>0. /\ AggregatorTyped /\ QueueTyped /\ BlocksFiled /\ CursorTyped
      /\ built \in Seq(Payload) /\ faults \subseteq Faults
  BY DEF TypeInv
<1>1. Consistent(update.st) /\ IsState(update.st)
  <2>1. tx.type \in {"deposit", "withdraw", "transfer"}
    BY DEF Txs, DepositTxs, WithdrawTxs, TransferTxs
  <2>. QED  BY <1>0, <2>1, Applied, AppliedIsState DEF AggregatorTyped, Extends
<1>2. UNCHANGED <<chain, valVars>>
  BY DEF TxNext, Reject, Crash, Collect, Propose, ProposeFails, Accept
<1>3. BlocksFiled' /\ CursorTyped' /\ chain' \in Seq(Coded)
  BY <1>0, <1>2, CursorKept DEF BlocksFiled, valVars, QueueTyped
<1>4. CASE Reject(tx) \/ Crash(tx)
  <2>1. /\ agg' = update.st /\ UNCHANGED <<pending, fraudTransfer, proposals, built>>
        /\ faults' \subseteq faults \cup {"orphan"}
    BY <1>4 DEF Reject, Crash
  <2> HIDE DEF update
  <2>2. AggregatorTyped'
    BY <1>0, <1>1, <2>1 DEF AggregatorTyped
  <2>. QED  BY <1>0, <1>3, <2>1, <2>2 DEF TypeInv, QueueTyped, Faults
<1>5. CASE Collect(tx) \/ \E b \in BOOLEAN : Propose(tx, b) \/ ProposeFails(tx, b)
  <2>1. Accept(tx, update)
    BY <1>5 DEF Collect, Propose, ProposeFails
  <2>2. /\ AcceptedBlock(block, tr) /\ built' = Append(built, tr)
        /\ Consistent(agg') /\ IsState(agg')
    BY <1>0, <2>1, AcceptTyped
  <2>3. /\ pending' \in {block, NewBlock(pending.number + 1)}
        /\ proposals' \in {proposals, Append(proposals, SerializeBlock(block))}
    BY <1>5 DEF Collect, Propose, ProposeFails
  <2>4. faults' \subseteq faults \cup {"fraud", "ghost", "dropped", "repeated"}
    BY <1>5 DEF Collect, Propose, ProposeFails, Flaws
  <2>5. fraudTransfer' = fraudTransfer
    BY <2>1 DEF Accept
  <2> HIDE DEF update, block, tr
  <2>6. block \in PackedBlocks /\ SerializeBlock(block) \in Coded /\ tr \in Payload
    BY <2>2 DEF AcceptedBlock, Whole, Coded
  <2>7. pending.number + 1 \in Nat
    BY <1>0 DEF AggregatorTyped, PackedBlocks
  <2>8. pending' \in PackedBlocks
    BY <2>3, <2>6, <2>7, BlockGrows
  <2>9. built' \in Seq(Payload)
    BY <1>0, <2>2, <2>6
  <2> DEFINE c == SerializeBlock(block)
  <2>10. c \in Coded /\ proposals' \in {proposals, Append(proposals, c)}
    BY <2>3, <2>6
  <2> HIDE DEF c
  <2>11. proposals' \in Seq(Coded)
    BY SMTT(30), <1>0, <2>10 DEF QueueTyped
  <2>12. AggregatorTyped'
    BY <1>0, <2>2, <2>5, <2>8 DEF AggregatorTyped
  <2>13. faults' \subseteq Faults
    BY <1>0, <2>4 DEF Faults, AllFailures
  <2>. QED  BY <1>3, <2>9, <2>11, <2>12, <2>13 DEF TypeInv, QueueTyped
<1>. QED  BY <1>4, <1>5 DEF TxNext

(* A reopened state is a state.                                            *)
LEMMA ReopenedIsState ==
    ASSUME NEW s, IsState(s)
    PROVE  IsState(Reopened(s))
<1> DEFINE l == s.lastKey
           k == s.keyOf
           i == s.infoAt
           r == s.trie
           t == s.tokenIndex
<1>1. s = StateOf(l, k, i, t, r)
  BY DEF IsState
<1> HIDE DEF l, k, i, r, t
<1>2. Reopened(s) = WithTrie(StateOf(l, k, i, t, r), EmptyTable)
  BY <1>1 DEF Reopened, WithTrie
<1>3. Reopened(s) = StateOf(l, k, i, t, EmptyTable)
  BY <1>2, FieldsWritten
<1>. QED  BY <1>3, StateFields

(* A restart of the aggregator.                                            *)
LEMMA TypeRestartAggregator ==
    ASSUME TypeInv, RestartAggregator
    PROVE  TypeInv'
<1>0. /\ AggregatorTyped /\ QueueTyped /\ BlocksFiled /\ CursorTyped
      /\ built \in Seq(Payload) /\ faults \subseteq Faults
  BY DEF TypeInv
<1>1. /\ agg' = Reopened(agg) /\ pending' = NewBlock(0) /\ fraudTransfer' \in FraudFlags
      /\ faults' = faults \cup {"restart"}
      /\ UNCHANGED <<proposals, chain, valVars, built>>
  BY DEF RestartAggregator
<1>2. Consistent(agg')
  BY <1>0, <1>1, ReopenedProperties DEF AggregatorTyped
<1>3. IsState(agg')
  BY <1>0, <1>1, ReopenedIsState DEF AggregatorTyped
<1>4. pending' \in PackedBlocks /\ fraudTransfer' \in BOOLEAN
  BY <1>1, BlockGrows, RollupAssumption
<1>5. AggregatorTyped'
  BY <1>2, <1>3, <1>4 DEF AggregatorTyped
<1>6. CursorTyped' /\ BlocksFiled'
  BY <1>0, <1>1, CursorKept DEF valVars, BlocksFiled
<1>7. faults' \subseteq Faults
  BY <1>0, <1>1 DEF Faults, AllFailures
<1>. QED  BY <1>0, <1>1, <1>5, <1>6, <1>7 DEF TypeInv, QueueTyped

(* Commitment.  The events the validator has seen stay where they are.     *)
LEMMA TypeChain ==
    ASSUME TypeInv, CommitBlock \/ CommitFails
    PROVE  TypeInv'
<1>0. /\ AggregatorTyped /\ QueueTyped /\ BlocksFiled /\ CursorTyped
      /\ built \in Seq(Payload) /\ faults \subseteq Faults
  BY DEF TypeInv
<1>1. /\ proposals # <<>> /\ proposals' = Tail(proposals)
      /\ chain' \in {chain, Append(chain, Head(proposals))}
      /\ UNCHANGED <<aggVars, valVars, built>>
      /\ faults' \subseteq faults \cup {"lost"}
  BY DEF CommitBlock, CommitFails
<1>2. proposals \in Seq(Coded) /\ chain \in Seq(Coded)
  BY <1>0 DEF QueueTyped
<1>3. Head(proposals) \in Coded /\ Tail(proposals) \in Seq(Coded)
  BY <1>1, <1>2
<1>4. QueueTyped'
  BY SMTT(30), <1>1, <1>2, <1>3 DEF QueueTyped
<1>5. \A i \in 1..Len(chain) : i \in 1..Len(chain') /\ chain'[i] = chain[i]
  BY <1>1, <1>2
<1>6. Len(chain') >= Len(chain) /\ Len(chain) \in Nat /\ Len(chain') \in Nat
  BY <1>1, <1>2
<1>7. blocks' = blocks /\ cursor' = cursor
  BY <1>1 DEF valVars
<1>8. CursorTyped'
  BY <1>0, <1>5, <1>6, <1>7 DEF CursorTyped, AtTransition, Block, Event
<1>9. AggregatorTyped' /\ BlocksFiled'
  BY <1>0, <1>1 DEF aggVars, valVars, AggregatorTyped, BlocksFiled
<1>10. faults' \subseteq Faults
  BY <1>0, <1>1 DEF Faults, AllFailures
<1>. QED  BY <1>0, <1>1, <1>4, <1>8, <1>9, <1>10 DEF TypeInv

(* A block is received: it is filed under its number.                      *)
LEMMA TypeReceive ==
    ASSUME TypeInv, ReceiveBlock
    PROVE  TypeInv'
<1>0. /\ AggregatorTyped /\ QueueTyped /\ BlocksFiled /\ CursorTyped
      /\ built \in Seq(Payload) /\ faults \subseteq Faults
  BY DEF TypeInv
<1> DEFINE c == chain[cursor.event]
           b == DeserializeBlock(c)
<1>1. /\ cursor.event \in DOMAIN chain /\ cursor.next = 0
      /\ blocks' = Put(blocks, b.number, b)
      /\ cursor' = [cursor EXCEPT !.next = 1]
      /\ UNCHANGED <<aggVars, proposals, chain, faults, built>>
  BY DEF ReceiveBlock, Event
<1>2. c \in Coded
  BY <1>0, <1>1 DEF QueueTyped
<1>3. b \in Whole /\ b.number = c.number /\ Len(c.transitions) \in Nat /\ Len(c.transitions) >= 1
  BY <1>2, CodedRead
<1>4. cursor' \in [event : Nat, next : Nat] /\ cursor'.event = cursor.event /\ cursor'.next = 1
  BY <1>0, <1>1 DEF CursorTyped
<1>5. chain' = chain /\ cursor.event \in 1..Len(chain)
  BY <1>0, <1>1 DEF QueueTyped
<1>6. /\ c.number \in DOMAIN blocks' /\ blocks'[c.number] = b
      /\ \A n \in DOMAIN blocks' : n # c.number => n \in DOMAIN blocks /\ blocks'[n] = blocks[n]
  <2> DEFINE m == c.number
  <2>1. blocks' = Put(blocks, m, b)
    BY <1>1, <1>3
  <2> HIDE DEF m, b
  <2>2. m \in DOMAIN blocks' /\ blocks'[m] = b /\ \A n \in DOMAIN blocks' : n # m => n \in DOMAIN blocks /\ blocks'[n] = blocks[n]
    BY <2>1 DEF Put
  <2>. QED  BY <2>2 DEF m
<1>7. BlocksFiled'
  BY <1>0, <1>3, <1>6 DEF BlocksFiled
<1>8. AtTransition'
  <2>1. chain'[cursor'.event] = c
    BY <1>4, <1>5
  <2> HIDE DEF c
  <2>2. Event' = b /\ Block' = blocks'[c.number]
    BY <2>1 DEF Event, Block
  <2>. QED  BY <1>3, <1>4, <1>5, <1>6, <2>1, <2>2 DEF AtTransition
<1>9. CursorTyped'
  BY <1>4, <1>5, <1>8 DEF CursorTyped
<1>10. AggregatorTyped' /\ QueueTyped'
  BY <1>0, <1>1 DEF aggVars, AggregatorTyped, QueueTyped
<1>. QED  BY <1>0, <1>1, <1>7, <1>9, <1>10 DEF TypeInv

(* The cursor after a transition, or after the block.                      *)
LEMMA AdvancedTyped ==
    ASSUME TypeInv, cursor.next > 0, cursor' \in {Advanced(cursor.next), AbandonedBlock},
           chain' = chain, blocks' = blocks
    PROVE  CursorTyped'
<1>1. /\ cursor = [event |-> cursor.event, next |-> cursor.next] /\ cursor.event \in Nat /\ cursor.next \in Nat
      /\ cursor.event \in 1..Len(chain) /\ chain \in Seq(Coded)
      /\ chain[cursor.event].number \in DOMAIN blocks
      /\ blocks[chain[cursor.event].number] = DeserializeBlock(chain[cursor.event])
  BY DEF TypeInv, CursorTyped, AtTransition, QueueTyped, Block, Event
<1> DEFINE c == chain[cursor.event]
           n == Len(Block.transitions)
<1>2. c \in Coded
  BY <1>1
<1>3. n = Len(c.transitions) /\ n \in Nat
  BY <1>1, <1>2, CodedRead DEF Block
<1> HIDE DEF n
<1>4. CASE cursor' = [event |-> cursor.event + 1, next |-> 0]
  <2>1. cursor' \in [event : Nat, next : Nat] /\ cursor'.event = cursor.event + 1 /\ cursor'.next = 0
    BY <1>1, <1>4
  <2>. QED  BY <1>1, <2>1 DEF CursorTyped
<1>5. CASE cursor' = [cursor EXCEPT !.next = cursor.next + 1] /\ cursor.next < n
  <2>1. /\ cursor' \in [event : Nat, next : Nat] /\ cursor'.event = cursor.event
        /\ cursor'.next = cursor.next + 1
    BY <1>1, <1>5
  <2>2. AtTransition'
    BY <1>1, <1>3, <1>5, <2>1 DEF AtTransition, Block, Event
  <2>. QED  BY <1>1, <2>1, <2>2 DEF CursorTyped
<1>. QED  BY <1>4, <1>5 DEF Advanced, AbandonedBlock, n

(* The steps of the validator's loop.                                      *)
LEMMA TypeValidate ==
    ASSUME TypeInv, ValidateOne
    PROVE  TypeInv'
<1>0. /\ AggregatorTyped /\ QueueTyped /\ BlocksFiled /\ CursorTyped
      /\ built \in Seq(Payload) /\ faults \subseteq Faults
  BY DEF TypeInv
<1>1. cursor.next > 0 /\ \E result :
           \/ ValidatePasses(result)
           \/ ValidateErrors(result)
           \/ RaiseAlarm(result, TRUE)
           \/ RaiseAlarm(result, FALSE)
           \/ AbandonBlock(result)
           \/ ValidatorPanics(result)
  BY DEF ValidateOne, Validating
<1>2. /\ UNCHANGED <<aggVars, proposals, chain, blocks, built>>
      /\ faults' \subseteq faults \cup {"lag"}
      /\ cursor' \in {cursor, Advanced(cursor.next), AbandonedBlock}
  BY <1>1 DEF ValidatePasses, ValidateErrors, RaiseAlarm, AbandonBlock, ValidatorPanics
<1>3. CursorTyped'
  BY <1>0, <1>1, <1>2, AdvancedTyped, CursorKept
<1>4. faults' \subseteq Faults
  BY <1>0, <1>2 DEF Faults
<1>. QED  BY <1>0, <1>2, <1>3, <1>4 DEF TypeInv, aggVars, AggregatorTyped, QueueTyped, BlocksFiled

(* The other steps of the validator.                                       *)
LEMMA TypeOther ==
    ASSUME TypeInv, RestartValidator \/ (\E i \in DOMAIN TokenOrder : ObserveToken(i)) \/ UNCHANGED vars
    PROVE  TypeInv'
<1>0. /\ AggregatorTyped /\ QueueTyped /\ BlocksFiled /\ CursorTyped
      /\ built \in Seq(Payload) /\ faults \subseteq Faults
  BY DEF TypeInv
<1>1. /\ UNCHANGED <<aggVars, proposals, chain, blocks, built>>
      /\ faults' \subseteq faults \cup {"missed"}
      /\ cursor' \in {cursor, [event |-> Len(chain) + 1, next |-> 0]}
  BY DEF RestartValidator, ObserveToken, vars, valVars
<1>2. CursorTyped'
  <2>1. Len(chain) \in Nat
    BY <1>0 DEF QueueTyped
  <2>2. CASE cursor' = [event |-> Len(chain) + 1, next |-> 0]
    <3>1. cursor' \in [event : Nat, next : Nat] /\ cursor'.event = Len(chain) + 1 /\ cursor'.next = 0
      BY <2>1, <2>2
    <3>. QED  BY <1>1, <2>1, <3>1 DEF CursorTyped
  <2>. QED  BY <1>0, <1>1, <2>2, CursorKept
<1>3. faults' \subseteq Faults
  BY <1>0, <1>1 DEF Faults, AllFailures
<1>. QED  BY <1>0, <1>1, <1>2, <1>3 DEF TypeInv, aggVars, AggregatorTyped, QueueTyped, BlocksFiled

(* The first state.                                                        *)
LEMMA TypeInit == Init => TypeInv
<1> SUFFICES ASSUME Init PROVE TypeInv
  OBVIOUS
<1>1. /\ agg = [InitState EXCEPT !.tokenIndex = Mapped] /\ pending = NewBlock(0) /\ fraudTransfer \in FraudFlags
      /\ proposals = <<>> /\ chain = <<>> /\ blocks = EmptyTable /\ cursor = [event |-> 1, next |-> 0]
      /\ faults = {} /\ built = <<>>
  BY DEF Init
<1>2. agg = StateOf(-1, EmptyTable, EmptyTable, Mapped, EmptyTable)
  <2>1. InitState = StateOf(-1, EmptyTable, EmptyTable, EmptyTable, EmptyTable)
    BY DEF InitState, StateOf
  <2>2. agg = WithTokens(InitState, Mapped)
    BY <1>1 DEF WithTokens
  <2>. QED  BY <2>1, <2>2, StateFields
<1>3. /\ agg.lastKey = -1 /\ agg.keyOf = EmptyTable /\ agg.infoAt = EmptyTable
      /\ agg.tokenIndex = Mapped /\ agg.trie = EmptyTable /\ IsState(agg)
  BY <1>2, StateFields
<1>4. DOMAIN agg = {"lastKey", "keyOf", "infoAt", "tokenIndex", "trie"}
  BY <1>2 DEF StateOf
<1>5. Consistent(agg)
  BY <1>3, <1>4, EmptyTableProperties, MappedTyped DEF Consistent, TablesTyped, SlotsAssigned, TrieAgrees
<1>6. AggregatorTyped
  BY <1>1, <1>3, <1>5, BlockGrows, RollupAssumption DEF AggregatorTyped
<1>7. BlocksFiled
  BY <1>1, EmptyTableProperties DEF BlocksFiled
<1>8. CursorTyped
  BY <1>1 DEF CursorTyped
<1>. QED  BY <1>1, <1>6, <1>7, <1>8 DEF TypeInv, QueueTyped

(* Every step.                                                             *)
LEMMA TypeNext == TypeInv /\ [Next]_vars => TypeInv'
<1> SUFFICES ASSUME TypeInv, [Next]_vars PROVE TypeInv'
  OBVIOUS
<1>1. CASE AggregatorNext
  BY <1>1, TxsOfAggregator, TypeTx, TypeRestartAggregator
<1>2. CASE CommitBlock \/ CommitFails
  BY <1>2, TypeChain
<1>3. CASE ValidateNext
  BY <1>3, TypeReceive, TypeValidate DEF ValidateNext
<1>4. CASE RestartValidator \/ (\E i \in DOMAIN TokenOrder : ObserveToken(i)) \/ UNCHANGED vars
  BY <1>4, TypeOther
<1>. QED  BY <1>1, <1>2, <1>3, <1>4 DEF Next

(* Every block pending, proposed, committed or filed is one the aggregator *)
(* could pack, a block is filed under its own number, and the validator is *)
(* never at a transition that does not exist.                              *)
THEOREM Typed == Spec => []TypeOK
<1>1. ASSUME NEW b \in PackedBlocks PROVE IsBlock(b)
  <2>1. b.number \in Nat /\ b.transitions \in Seq(Payload)
    BY DEF PackedBlocks
  <2>2. \A i \in DOMAIN b.transitions : b.transitions[i] \in Payload
    BY <2>1
  <2>3. \A tr \in Payload : tr.slots \in Seq(Nat) /\ Cardinality(tr.names) <= 1
    BY DEF Payload
  <2>. QED  BY <2>1, <2>2, <2>3 DEF IsBlock
<1>2. \A c \in Coded : IsBlock(DeserializeBlock(c))
  BY <1>1, CodedRead DEF Whole
<1>3. TypeInv => TypeOK
  <2> SUFFICES ASSUME TypeInv PROVE TypeOK
    OBVIOUS
  <2>1. /\ \A i \in DOMAIN proposals : proposals[i] \in Coded
        /\ \A i \in DOMAIN chain : chain[i] \in Coded
    BY DEF TypeInv, QueueTyped
  <2>2. IsBlock(pending)
    BY <1>1 DEF TypeInv, AggregatorTyped
  <2>3. \A n \in DOMAIN blocks : IsBlock(blocks[n]) /\ blocks[n].number = n
    BY <1>1 DEF TypeInv, BlocksFiled, Whole
  <2>4. /\ cursor.event \in 1..(Len(chain) + 1)
        /\ cursor.next > 0 => cursor.next <= Len(chain[cursor.event].transitions)
    BY DEF TypeInv, CursorTyped, AtTransition
  <2>5. faults \subseteq AllFailures \cup {"orphan", "fraud", "ghost", "lag"}
    BY DEF TypeInv, Faults
  <2>. QED  BY <1>2, <2>1, <2>2, <2>3, <2>4, <2>5 DEF TypeOK
<1>. QED  BY <1>3, TypeInit, TypeNext, PTL DEF Spec

-----------------------------------------------------------------------------
(* Nothing lost or repeated *)

(* The blocks of a queue, decoded.                                         *)
LEMMA QueueDecoded ==
    ASSUME NEW q \in Seq(Coded)
    PROVE  /\ Decoded(q) \in Seq(PackedBlocks) /\ Len(Decoded(q)) = Len(q)
           /\ \A i \in 1..Len(q) : Decoded(q)[i] = DeserializeBlock(q[i])
           /\ \A b \in Whole : Decoded(Append(q, SerializeBlock(b))) = Append(Decoded(q), b)
<1>1. \A c \in Coded : DeserializeBlock(c) \in PackedBlocks
  BY CodedRead DEF Whole
<1>2. DOMAIN q = 1..Len(q) /\ Len(q) \in Nat /\ \A i \in 1..Len(q) : q[i] \in Coded
  OBVIOUS
<1>3. /\ Decoded(q) \in Seq(PackedBlocks) /\ Len(Decoded(q)) = Len(q)
      /\ \A i \in 1..Len(q) : Decoded(q)[i] = DeserializeBlock(q[i])
  BY <1>1, <1>2 DEF Decoded
<1>4. ASSUME NEW b \in Whole
      PROVE  Decoded(Append(q, SerializeBlock(b))) = Append(Decoded(q), b)
  <2> DEFINE c == SerializeBlock(b)
             r == Append(q, c)
             n == Len(q)
             s == Decoded(r)
             t == Append(Decoded(q), b)
  <2>1. c \in Coded /\ DeserializeBlock(c) = b /\ b \in PackedBlocks
    BY PackedRead DEF Coded, Whole
  <2> HIDE DEF c
  <2>2. DOMAIN r = 1..(n + 1) /\ r[n + 1] = c /\ \A i \in 1..n : r[i] = q[i]
    BY <2>1
  <2>3. r \in Seq(Coded) /\ \A i \in 1..(n + 1) : r[i] \in Coded
    BY <2>1
  <2> HIDE DEF r
  <2>4. s \in Seq(PackedBlocks) /\ Len(s) = n + 1 /\ \A i \in 1..(n + 1) : s[i] = DeserializeBlock(r[i])
    BY <1>1, <1>2, <2>2, <2>3 DEF Decoded
  <2>5. t \in Seq(PackedBlocks) /\ Len(t) = n + 1 /\ t[n + 1] = b /\ \A i \in 1..n : t[i] = Decoded(q)[i]
    BY <1>3, <2>1
  <2> HIDE DEF s, t
  <2>6. \A i \in 1..(n + 1) : s[i] = t[i]
    BY <1>2, <1>3, <2>1, <2>2, <2>4, <2>5
  <2>7. s = t
    BY <2>4, <2>5, <2>6, SeqEqual
  <2>. QED  BY <2>7 DEF s, t, r, c
<1>. QED  BY <1>3, <1>4

(* The last block gets one more transition: so do all of them together.    *)
LEMMA FlattenGrows ==
    ASSUME NEW q \in Seq(PackedBlocks), NEW b \in PackedBlocks, NEW more \in PackedBlocks, NEW tr \in Payload,
           more.transitions = Append(b.transitions, tr)
    PROVE  Flatten(Append(q, more)) = Append(Flatten(Append(q, b)), tr)
<1> DEFINE x == Flatten(q)
           y == b.transitions
<1>1. x \in Seq(Payload) /\ y \in Seq(Payload)
  BY FlattenAppend DEF PackedBlocks
<1>2. Flatten(Append(q, more)) = x \o more.transitions /\ Flatten(Append(q, b)) = x \o y
  BY FlattenAppend
<1> HIDE DEF x, y
<1>3. x \o Append(y, tr) = Append(x \o y, tr)
  BY <1>1
<1>4. more.transitions = Append(y, tr)
  BY DEF y
<1>. QED  BY <1>2, <1>3, <1>4

(* A new block holds nothing yet.                                          *)
LEMMA FlattenNewBlock ==
    ASSUME NEW q \in Seq(PackedBlocks), NEW n \in Nat
    PROVE  Flatten(Append(q, NewBlock(n))) = Flatten(q)
<1>1. NewBlock(n) \in PackedBlocks /\ NewBlock(n).transitions = <<>>
  BY BlockGrows
<1>2. Flatten(Append(q, NewBlock(n))) = Flatten(q) \o <<>> /\ Flatten(q) \in Seq(Payload)
  BY <1>1, FlattenAppend
<1>. QED  BY <1>2

Losses == {"lost", "dropped", "repeated", "restart"}

Queue == Decoded(chain \o proposals)

NumberedFromZero(bs) == \A i \in DOMAIN bs : bs[i].number = i - 1

(* The committed, the proposed and the pending block, one by one.          *)
LEMMA AllBlocksTyped ==
    ASSUME AggregatorTyped, QueueTyped
    PROVE  /\ Queue \in Seq(PackedBlocks) /\ Len(Queue) = Len(chain) + Len(proposals)
           /\ AllBlocks = Append(Queue, pending) /\ AllBlocks \in Seq(PackedBlocks)
           /\ \A i \in 1..Len(chain) : Queue[i] = DeserializeBlock(chain[i])
<1>1. proposals \in Seq(Coded) /\ chain \in Seq(Coded) /\ pending \in PackedBlocks
  BY DEF AggregatorTyped, QueueTyped
<1> DEFINE q == chain \o proposals
<1>2. q \in Seq(Coded) /\ Len(q) = Len(chain) + Len(proposals) /\ \A i \in 1..Len(chain) : q[i] = chain[i]
  BY <1>1
<1>3. Len(chain) \in Nat /\ Len(proposals) \in Nat
  BY <1>1
<1> HIDE DEF q
<1>4. Decoded(q) \in Seq(PackedBlocks) /\ Len(Decoded(q)) = Len(q)
      /\ \A i \in 1..Len(q) : Decoded(q)[i] = DeserializeBlock(q[i])
  BY <1>2, QueueDecoded
<1>5. Queue = Decoded(q) /\ AllBlocks = Append(Decoded(q), pending)
  BY DEF q, Queue, AllBlocks
<1>6. Append(Decoded(q), pending) \in Seq(PackedBlocks)
  BY <1>1, <1>4
<1>. QED  BY <1>2, <1>3, <1>4, <1>5, <1>6

(* A sequence numbered from zero stays so when its last block is replaced  *)
(* by one of the same number, or followed by one of the next.              *)
LEMMA NumberedGrows ==
    ASSUME NEW q \in Seq(PackedBlocks), NEW b \in PackedBlocks, NumberedFromZero(Append(q, b))
    PROVE  /\ \A more \in PackedBlocks :
                 more.number = b.number => NumberedFromZero(Append(q, more))
           /\ b.number = Len(q)
           /\ \A next \in PackedBlocks :
                 next.number = b.number + 1 => NumberedFromZero(Append(Append(q, b), next))
<1>1. ASSUME NEW r \in Seq(PackedBlocks), NEW c \in PackedBlocks
      PROVE  NumberedFromZero(Append(r, c)) <=> NumberedFromZero(r) /\ c.number = Len(r)
  <2> DEFINE s == Append(r, c)
             n == Len(r)
  <2>1. DOMAIN s = 1..(n + 1) /\ s[n + 1] = c /\ (\A i \in 1..n : s[i] = r[i]) /\ n \in Nat /\ DOMAIN r = 1..n
    OBVIOUS
  <2> HIDE DEF s, n
  <2>2. \A i \in 1..(n + 1) : i \in 1..n \/ i = n + 1
    BY <2>1
  <2>3. (n + 1) - 1 = n /\ n + 1 \in 1..(n + 1) /\ \A i \in 1..n : i \in 1..(n + 1)
    BY <2>1
  <2>4. NumberedFromZero(s) => NumberedFromZero(r) /\ c.number = n
    BY <2>1, <2>3 DEF NumberedFromZero
  <2>5. NumberedFromZero(r) /\ c.number = n => NumberedFromZero(s)
    BY <2>1, <2>2, <2>3 DEF NumberedFromZero
  <2>. QED  BY <2>4, <2>5 DEF s, n
<1>2. NumberedFromZero(q) /\ b.number = Len(q)
  BY <1>1
<1>3. Append(q, b) \in Seq(PackedBlocks) /\ Len(Append(q, b)) = Len(q) + 1
  OBVIOUS
<1>4. ASSUME NEW next \in PackedBlocks, next.number = b.number + 1
      PROVE  NumberedFromZero(Append(Append(q, b), next))
  <2> DEFINE r == Append(q, b)
  <2>1. r \in Seq(PackedBlocks) /\ NumberedFromZero(r) /\ next.number = Len(r)
    BY <1>2, <1>3, <1>4
  <2> HIDE DEF r
  <2>2. NumberedFromZero(Append(r, next))
    BY <1>1, <2>1
  <2>. QED  BY <2>2 DEF r
<1>. QED  BY <1>1, <1>2, <1>4

(* Blocks cut what was built, whatever the aggregator does next.           *)
LEMMA CutTx ==
    ASSUME TypeInv, NothingLostOrRepeated, NEW tx \in Txs, TxNext(tx)
    PROVE  NothingLostOrRepeated'
<1> DEFINE update == ApplyTransaction(agg, tx)
           block  == AddToPendingBlock(update, tx)
           tr     == TransitionOf(update, tx, fraudTransfer)
<1>0. /\ AggregatorTyped /\ QueueTyped
      /\ proposals \in Seq(Coded) /\ chain \in Seq(Coded) /\ pending \in PackedBlocks
  BY DEF TypeInv, AggregatorTyped, QueueTyped
<1>1. Queue \in Seq(PackedBlocks) /\ AllBlocks = Append(Queue, pending)
  BY <1>0, AllBlocksTyped
<1>2. chain' = chain /\ faults \subseteq faults'
  BY DEF TxNext, Reject, Crash, Collect, Propose, ProposeFails, Accept
<1>3. AllBlocks' = Append(Queue', pending')
  BY DEF AllBlocks, Queue
<1>4. SUFFICES ASSUME faults' \cap Losses = {}
      PROVE  Flatten(AllBlocks') = built' /\ NumberedFromZero(AllBlocks')
  BY DEF NothingLostOrRepeated, Losses, NumberedFromZero
<1>5. Flatten(AllBlocks) = built /\ NumberedFromZero(AllBlocks)
  BY <1>2, <1>4 DEF NothingLostOrRepeated, Losses, NumberedFromZero
<1>6. CASE Reject(tx) \/ Crash(tx)
  <2>1. UNCHANGED <<pending, proposals, chain, built>>
    BY <1>6 DEF Reject, Crash
  <2>. QED  BY <1>5, <2>1 DEF AllBlocks
<1>7. CASE Collect(tx) \/ \E b \in BOOLEAN : Propose(tx, b) \/ ProposeFails(tx, b)
  <2>1. Accept(tx, update)
    BY <1>7 DEF Collect, Propose, ProposeFails
  <2>2. AcceptedBlock(block, tr) /\ built' = Append(built, tr)
    BY <1>0, <2>1, AcceptTyped
  <2>3. \/ pending' = block /\ proposals' = proposals
        \/ pending' = NewBlock(pending.number + 1) /\ proposals' = Append(proposals, SerializeBlock(block))
        \/ faults' \cap Losses # {}
    BY <1>7 DEF Collect, Propose, ProposeFails, Losses
  <2> HIDE DEF update, block, tr
  <2>4. /\ block \in PackedBlocks /\ block \in Whole /\ tr \in Payload /\ block.number = pending.number
        /\ block.transitions = Append(pending.transitions, tr) /\ pending.number \in Nat
    BY <1>0, <2>2 DEF AcceptedBlock, Whole, PackedBlocks
  <2>5. Flatten(Append(Queue, block)) = built'
    BY <1>0, <1>1, <1>5, <2>2, <2>4, FlattenGrows
  <2>6. NumberedFromZero(Append(Queue, block))
    BY <1>0, <1>1, <1>5, <2>4, NumberedGrows
  <2>7. CASE pending' = block /\ proposals' = proposals
    <3>1. AllBlocks' = Append(Queue, block)
      BY <1>2, <1>3, <2>7 DEF Queue
    <3>. QED  BY <2>5, <2>6, <3>1
  <2>8. CASE pending' = NewBlock(pending.number + 1) /\ proposals' = Append(proposals, SerializeBlock(block))
    <3> DEFINE c == SerializeBlock(block)
               q == chain \o proposals
    <3>1. c \in Coded
      BY <2>4 DEF Coded
    <3> HIDE DEF c
    <3>2. chain \o Append(proposals, c) = Append(q, c) /\ q \in Seq(Coded)
      BY <1>0, <3>1
    <3>3. Queue' = Decoded(Append(q, c))
      BY <1>2, <2>8, <3>2 DEF Queue, c
    <3>4. Queue = Decoded(q)
      BY DEF Queue
    <3> HIDE DEF q
    <3>5. Queue' = Append(Queue, block)
      BY <2>4, <3>2, <3>3, <3>4, QueueDecoded DEF c
    <3> DEFINE next == NewBlock(pending.number + 1)
    <3>6. AllBlocks' = Append(Append(Queue, block), next)
      BY <1>3, <2>8, <3>5
    <3>7. next \in PackedBlocks /\ next.number = block.number + 1
      BY <2>4, BlockGrows
    <3>8. Flatten(AllBlocks') = Flatten(Append(Queue, block))
      <4>1. pending.number + 1 \in Nat
        BY <2>4
      <4> DEFINE m == pending.number + 1
                 r == Append(Queue, block)
      <4>2. r \in Seq(PackedBlocks)
        BY <1>1, <2>4
      <4> HIDE DEF m, r
      <4>3. AllBlocks' = Append(r, NewBlock(m)) /\ m \in Nat
        BY <3>6, <4>1 DEF m, r
      <4>4. Flatten(AllBlocks') = Flatten(r)
        BY <4>2, <4>3, FlattenNewBlock
      <4>. QED  BY <4>4 DEF r
    <3> HIDE DEF next
    <3>9. NumberedFromZero(AllBlocks')
      BY <1>1, <2>4, <2>6, <3>6, <3>7, NumberedGrows
    <3>. QED  BY <2>5, <3>8, <3>9
  <2>. QED  BY <1>4, <2>3, <2>7, <2>8
<1>. QED  BY <1>6, <1>7 DEF TxNext

(* No other step reorders them.                                            *)
LEMMA CutNext == TypeInv /\ NothingLostOrRepeated /\ [Next]_vars => NothingLostOrRepeated'
<1> SUFFICES ASSUME TypeInv, NothingLostOrRepeated, [Next]_vars PROVE NothingLostOrRepeated'
  OBVIOUS
<1>1. proposals \in Seq(Coded) /\ chain \in Seq(Coded)
  BY DEF TypeInv, QueueTyped
<1>2. CASE RestartAggregator \/ CommitFails
  <2>1. faults' \cap Losses # {}
    BY <1>2 DEF RestartAggregator, CommitFails, Losses
  <2>. QED  BY <2>1 DEF NothingLostOrRepeated, Losses
<1>3. CASE CommitBlock
  <2>1. /\ proposals # <<>> /\ chain' = Append(chain, Head(proposals)) /\ proposals' = Tail(proposals)
        /\ UNCHANGED <<pending, faults, built>>
    BY <1>3 DEF CommitBlock, aggVars
  <2>2. chain' \o proposals' = chain \o proposals
    BY <1>1, <2>1
  <2>3. AllBlocks' = AllBlocks
    BY <2>1, <2>2 DEF AllBlocks
  <2>. QED  BY <2>1, <2>3 DEF NothingLostOrRepeated
<1>4. CASE \/ ValidateNext \/ RestartValidator \/ (\E i \in DOMAIN TokenOrder : ObserveToken(i))
           \/ UNCHANGED vars
  <2>1. UNCHANGED <<pending, proposals, chain, built>> /\ faults \subseteq faults'
    BY <1>4 DEF ValidateNext, ReceiveBlock, ValidateOne, ValidatePasses, ValidateErrors, RaiseAlarm,
                AbandonBlock, ValidatorPanics, RestartValidator, ObserveToken, vars, aggVars
  <2>2. AllBlocks' = AllBlocks
    BY <2>1 DEF AllBlocks
  <2>. QED  BY <2>1, <2>2 DEF NothingLostOrRepeated
<1>. QED  BY <1>2, <1>3, <1>4, TxsOfAggregator, CutTx DEF Next

(* At first there is one empty block.                                      *)
LEMMA CutInit == Init => NothingLostOrRepeated
<1> SUFFICES ASSUME Init PROVE NothingLostOrRepeated
  OBVIOUS
<1>1. chain = <<>> /\ proposals = <<>> /\ pending = NewBlock(0) /\ built = <<>>
  BY DEF Init
<1>2. pending \in PackedBlocks /\ pending.number = 0 /\ pending.transitions = <<>>
  BY <1>1, BlockGrows
<1>3. AllBlocks = Append(<<>>, pending) /\ <<>> \in Seq(PackedBlocks)
  <2>1. chain \o proposals = <<>>
    BY <1>1
  <2>2. Decoded(<<>>) = <<>>
    BY DEF Decoded
  <2>3. Decoded(chain \o proposals) = <<>>
    BY <2>1, <2>2
  <2>4. AllBlocks = Append(<<>>, pending)
    BY <2>3, Zenon DEF AllBlocks
  <2>. QED  BY <2>4
<1>4. Append(<<>>, pending) = <<pending>>
  OBVIOUS
<1> HIDE DEF AllBlocks
<1>5. Flatten(AllBlocks) = <<>> \o <<>>
  BY <1>2, <1>3, FlattenAppend
<1>6. Flatten(AllBlocks) = built
  BY <1>1, <1>5
<1>7. DOMAIN AllBlocks = {1} /\ AllBlocks[1].number = 0
  BY <1>2, <1>3, <1>4
<1>8. \A i \in DOMAIN AllBlocks : AllBlocks[i].number = i - 1
  BY <1>7
<1>. QED  BY <1>6, <1>8 DEF NothingLostOrRepeated

(* However often a proposal had to be retried, and wherever blocks are     *)
(* cut, the blocks committed, proposed and pending hold every transition   *)
(* that was built exactly once and in order, and are numbered without      *)
(* gaps, until a block is lost, dropped or repeated or the aggregator      *)
(* starts again.                                                           *)
THEOREM Cut == Spec => []NothingLostOrRepeated
BY TypeInit, TypeNext, CutInit, CutNext, PTL DEF Spec

-----------------------------------------------------------------------------
(* The first alarm is anchored *)

Misses == Losses \cup {"missed"}

Calm == skipped = {} /\ faults \cap Misses = {} /\ "submit" \notin Failures

(* The number of events received.                                          *)
Seen == IF cursor.next = 0 THEN cursor.event - 1 ELSE cursor.event

FiledInOrder ==
    /\ \A n \in DOMAIN blocks : n < Seen
    /\ \A i \in 1..Seen : i - 1 \in DOMAIN blocks /\ blocks[i - 1] = DeserializeBlock(chain[i])

LastOf(b) == b.transitions[Len(b.transitions)]

(* The validator's tree has the root claimed by the transition before.     *)
AtPreviousRoot ==
    /\ cursor.next > 1 => Root(StateRoot(val)) = Block.transitions[cursor.next - 1].root
    /\ cursor.next <= 1 /\ cursor.event > 1 =>
          Root(StateRoot(val)) = LastOf(DeserializeBlock(chain[cursor.event - 1])).root

Anchored(proof) == \A i \in DOMAIN proof.inputs : proof.inputs[i].root = proof.pre.root

AnchorInv ==
    /\ IsState(val)
    /\ \E S : alarms \in Seq(S)
    /\ Calm => /\ FiledInOrder
               /\ alarms = <<>> /\ valStatus = "running" => AtPreviousRoot
               /\ alarms # <<>> => Anchored(alarms[1])

(* What a replayed transition leaves, and what a proof of it is made of.   *)
LEMMA Validated ==
    ASSUME NEW s, IsState(s), NEW tr \in Payload
    PROVE  LET result == ValidateTransition(s, tr)
           IN  /\ IsState(result.st)
               /\ result.verdict = "valid" => Root(StateRoot(result.st)) = tr.root
               /\ ~ProofPanics(result.inputs) =>
                     \A i \in DOMAIN result.inputs : result.inputs[i].root = Root(StateRoot(s))
<1> DEFINE result == ValidateTransition(s, tr)
           tx     == TransactionOf(s, tr)
           update == ApplyTransaction(s, tx)
           inputs == InputStateSnapshots(s, tr)
           valid  == update.outcome = "ok" /\ Root(StateRoot(update.st)) = tr.root
<1>1. tr.type \in Kinds
  BY DEF Payload
<1>2. tx.type \in {"deposit", "withdraw", "transfer"}
  BY <1>1 DEF Kinds, TransactionOf, DepositTx, WithdrawTx, TransferTx
<1> HIDE DEF tx
<1>3. IsState(update.st)
  BY <1>2, AppliedIsState
<1>4. ASSUME NEW i \in DOMAIN inputs, ~ProofPanics(inputs)
      PROVE  inputs[i].root = Root(StateRoot(s))
  <2> DEFINE slots == SnapshotSlots(tr)
             read  == [j \in DOMAIN slots |-> Snapshot(s, slots[j])]
  <2>1. inputs[i].present
    BY <1>4 DEF ProofPanics
  <2>2. \A j \in DOMAIN read : read[j].root = Root(StateRoot(s))
    BY DEF Snapshot
  <2>3. inputs = IF tr.type = "createAndTransfer" THEN Append(read, NoSnapshot) ELSE read
    BY DEF InputStateSnapshots
  <2>4. CASE tr.type # "createAndTransfer"
    BY <1>4, <2>2, <2>3, <2>4
  <2>5. CASE tr.type = "createAndTransfer"
    <3>1. slots = <<tr.slots[1]>>
      BY <2>5 DEF SnapshotSlots
    <3>2. read = <<Snapshot(s, tr.slots[1])>>
      BY <3>1
    <3> DEFINE first == Snapshot(s, tr.slots[1])
    <3>3. first.root = Root(StateRoot(s))
      BY DEF Snapshot
    <3> DEFINE no == NoSnapshot
    <3>4. ~no.present
      BY DEF NoSnapshot
    <3> HIDE DEF first, no
    <3>5. inputs = Append(<<first>>, no)
      BY <2>3, <2>5, <3>2 DEF first, no
    <3> HIDE DEF inputs
    <3>6. i \in {1, 2} /\ inputs[1] = first /\ inputs[2] = no
      BY <1>4, <3>5
    <3>. QED  BY <2>1, <3>3, <3>4, <3>6
  <2>. QED  BY <2>4, <2>5
<1>5. CASE ~Readable(s, tr)
  <2>1. result = [verdict |-> "error", st |-> s, inputs |-> <<>>]
    BY <1>5 DEF ValidateTransition
  <2> HIDE DEF result
  <2>2. result.verdict = "error" /\ result.st = s /\ result.inputs = <<>>
    BY <2>1
  <2>. QED  BY <2>2 DEF result
<1>6. CASE Readable(s, tr)
  <2>1. result = [verdict |-> CASE update.outcome = "panic" -> "panic" [] valid -> "valid" [] OTHER -> "fraud",
                  st |-> update.st, inputs |-> inputs]
    BY <1>6 DEF ValidateTransition, tx
  <2> HIDE DEF result, update, inputs
  <2>2. result.st = update.st /\ result.inputs = inputs /\ (result.verdict = "valid" => valid)
    BY <2>1
  <2>. QED  BY <1>3, <1>4, <2>2 DEF result
<1>. QED  BY <1>5, <1>6

(* As long as nothing was lost, event i is block i - 1.                    *)
LEMMA ChainNumbered ==
    ASSUME TypeInv, NothingLostOrRepeated, faults \cap Losses = {}
    PROVE  \A i \in 1..Len(chain) : chain[i] \in Coded /\ chain[i].number = i - 1
<1>1. chain \in Seq(Coded) /\ proposals \in Seq(Coded)
  BY DEF TypeInv, QueueTyped
<1>2. /\ Queue \in Seq(PackedBlocks) /\ Len(Queue) = Len(chain) + Len(proposals)
      /\ AllBlocks = Append(Queue, pending)
      /\ \A i \in 1..Len(chain) : Queue[i] = DeserializeBlock(chain[i])
  BY AllBlocksTyped DEF TypeInv
<1>3. \A i \in DOMAIN AllBlocks : AllBlocks[i].number = i - 1
  BY DEF NothingLostOrRepeated, Losses
<1> SUFFICES ASSUME NEW i \in 1..Len(chain) PROVE chain[i] \in Coded /\ chain[i].number = i - 1
  OBVIOUS
<1>4. chain[i] \in Coded /\ i \in 1..Len(Queue) /\ Len(Queue) \in Nat
  BY <1>1, <1>2
<1>5. i \in DOMAIN AllBlocks /\ AllBlocks[i] = Queue[i]
  <2> HIDE DEF Queue
  <2>1. i \in DOMAIN Append(Queue, pending) /\ Append(Queue, pending)[i] = Queue[i]
    BY <1>2, <1>4
  <2>. QED  BY <1>2, <2>1
<1>6. DeserializeBlock(chain[i]).number = i - 1
  BY <1>2, <1>3, <1>5
<1>. QED  BY <1>4, <1>6, CodedRead

(* At a transition: the block of the event, and the place in it.           *)
LEMMA AtCursor ==
    ASSUME TypeInv, cursor.next > 0
    PROVE  /\ Block \in Whole /\ Block = DeserializeBlock(chain[cursor.event])
           /\ chain[cursor.event] \in Coded /\ Block.number = chain[cursor.event].number
           /\ cursor.next \in 1..Len(Block.transitions) /\ Len(Block.transitions) \in Nat
           /\ Block.transitions[cursor.next] \in Payload
           /\ cursor.event \in 1..Len(chain) /\ Len(chain) \in Nat
           /\ cursor = [event |-> cursor.event, next |-> cursor.next]
<1>1. chain \in Seq(Coded) /\ cursor.event \in Nat /\ cursor.next \in Nat /\ AtTransition
      /\ cursor = [event |-> cursor.event, next |-> cursor.next]
  BY DEF TypeInv, QueueTyped, CursorTyped
<1>2. /\ cursor.event \in 1..Len(chain) /\ cursor.next <= Len(chain[cursor.event].transitions)
      /\ Block = DeserializeBlock(chain[cursor.event])
  BY <1>1 DEF AtTransition, Event
<1>3. chain[cursor.event] \in Coded /\ Len(chain) \in Nat
  BY <1>1, <1>2
<1> DEFINE b == Block
<1>4. /\ b \in Whole /\ b.number = chain[cursor.event].number /\ b.transitions \in Seq(Payload)
      /\ Len(b.transitions) = Len(chain[cursor.event].transitions) /\ Len(b.transitions) \in Nat
  BY <1>2, <1>3, CodedRead
<1> HIDE DEF b
<1>5. cursor.next \in 1..Len(b.transitions) /\ b.transitions[cursor.next] \in Payload
  BY <1>1, <1>2, <1>4
<1>. QED  BY <1>1, <1>2, <1>3, <1>4, <1>5 DEF b

(* Steps of the others leave the alarms and what they rest on alone.       *)
LEMMA AnchorKept ==
    ASSUME TypeInv, AnchorInv, faults \subseteq faults', UNCHANGED <<valStatus, blocks, cursor, alarms, skipped>>,
           val' = val \/ (IsState(val') /\ StateRoot(val') = StateRoot(val)),
           \A i \in 1..Len(chain) : chain'[i] = chain[i]
    PROVE  AnchorInv'
<1>1. /\ cursor.event \in Nat /\ cursor.next \in Nat /\ cursor.event \in 1..(Len(chain) + 1) /\ Len(chain) \in Nat
      /\ cursor.next > 0 => cursor.event \in 1..Len(chain)
  BY DEF TypeInv, CursorTyped, QueueTyped, AtTransition
<1>2. IsState(val') /\ StateRoot(val') = StateRoot(val) /\ \E S : alarms' \in Seq(S)
  BY DEF AnchorInv
<1>3. Calm' => Calm
  BY DEF Calm
<1>4. Seen' = Seen /\ Seen \in 0..Len(chain)
  BY <1>1 DEF Seen
<1>5. FiledInOrder => FiledInOrder'
  <2> DEFINE k == Seen
  <2>1. Seen' = k /\ k \in 0..Len(chain) /\ Len(chain) \in Nat
    BY <1>1, <1>4
  <2> HIDE DEF k
  <2>2. \A i \in 1..k : chain'[i] = chain[i]
    BY <2>1
  <2>. QED  BY <2>1, <2>2 DEF FiledInOrder, k
<1>6. AtPreviousRoot => AtPreviousRoot'
  <2> SUFFICES ASSUME AtPreviousRoot PROVE AtPreviousRoot'
    OBVIOUS
  <2>1. cursor.next > 1 => chain'[cursor.event] = chain[cursor.event]
    BY <1>1
  <2>2. cursor.event > 1 => chain'[cursor.event - 1] = chain[cursor.event - 1]
    BY <1>1
  <2>3. cursor.next > 1 => Block' = Block
    BY <2>1 DEF Block
  <2>. QED  BY <1>2, <2>2, <2>3 DEF AtPreviousRoot
<1>. QED  BY <1>2, <1>3, <1>5, <1>6 DEF AnchorInv

(* Receiving a block.                                                      *)
LEMMA AnchorReceive ==
    ASSUME TypeInv, NothingLostOrRepeated, AnchorInv, ReceiveBlock
    PROVE  AnchorInv'
<1> DEFINE c == chain[cursor.event]
           b == DeserializeBlock(c)
           e == cursor.event
<1>1. /\ e \in DOMAIN chain /\ cursor.next = 0 /\ blocks' = Put(blocks, b.number, b)
      /\ cursor' = [cursor EXCEPT !.next = 1]
      /\ UNCHANGED <<val, valStatus, alarms, skipped, faults, chain>>
  BY DEF ReceiveBlock, Event
<1>2. /\ chain \in Seq(Coded) /\ e \in Nat /\ cursor = [event |-> cursor.event, next |-> cursor.next]
  BY DEF TypeInv, QueueTyped, CursorTyped
<1>3. e \in 1..Len(chain) /\ Len(chain) \in Nat /\ c \in Coded
  BY <1>1, <1>2
<1>4. cursor'.event = e /\ cursor'.next = 1
  BY <1>1, <1>2
<1>5. Calm' <=> Calm
  BY <1>1 DEF Calm
<1>6. CASE ~Calm
  BY <1>1, <1>5, <1>6 DEF AnchorInv
<1>7. CASE Calm
  <2>1. c.number = e - 1 /\ b.number = e - 1
    BY <1>3, <1>7, ChainNumbered, CodedRead DEF Calm, Misses
  <2>2. Seen = e - 1 /\ Seen' = e
    BY <1>1, <1>2, <1>4 DEF Seen
  <2>3. FiledInOrder
    BY <1>7 DEF AnchorInv
  <2>4. /\ e - 1 \in DOMAIN blocks' /\ blocks'[e - 1] = b
        /\ \A n \in DOMAIN blocks' : n # e - 1 => n \in DOMAIN blocks
        /\ \A n \in DOMAIN blocks : n \in DOMAIN blocks' /\ (n # e - 1 => blocks'[n] = blocks[n])
    <3> DEFINE m == e - 1
    <3>1. blocks' = Put(blocks, m, b)
      BY <1>1, <2>1
    <3> HIDE DEF m, b
    <3>2. /\ m \in DOMAIN blocks' /\ blocks'[m] = b
          /\ \A n \in DOMAIN blocks' : n # m => n \in DOMAIN blocks
          /\ \A n \in DOMAIN blocks : n \in DOMAIN blocks' /\ (n # m => blocks'[n] = blocks[n])
      BY <3>1 DEF Put
    <3>. QED  BY <3>2 DEF m
  <2>5. FiledInOrder'
    <3>1. \A n \in DOMAIN blocks' : n < e
      <4> SUFFICES ASSUME NEW n \in DOMAIN blocks' PROVE n < e
        OBVIOUS
      <4>1. CASE n = e - 1
        BY <1>2, <4>1
      <4>2. CASE n # e - 1
        <5>1. n \in DOMAIN blocks /\ n \in Nat
          BY <2>4, <4>2 DEF TypeInv, BlocksFiled, Whole, PackedBlocks
        <5>2. n < e - 1
          BY <2>2, <2>3, <5>1 DEF FiledInOrder
        <5>. QED  BY <1>2, <5>1, <5>2
      <4>. QED  BY <4>1, <4>2
    <3>2. ASSUME NEW i \in 1..e PROVE i - 1 \in DOMAIN blocks' /\ blocks'[i - 1] = DeserializeBlock(chain[i])
      <4>1. CASE i = e
        BY <2>4, <4>1
      <4>2. CASE i # e
        <5>1. i \in 1..(e - 1) /\ i - 1 # e - 1
          BY <1>2, <4>2
        <5>2. i - 1 \in DOMAIN blocks /\ blocks[i - 1] = DeserializeBlock(chain[i])
          BY <2>2, <2>3, <5>1 DEF FiledInOrder
        <5>. QED  BY <2>4, <5>1, <5>2
      <4>. QED  BY <4>1, <4>2
    <3>. QED  BY <1>1, <2>2, <3>1, <3>2 DEF FiledInOrder
  <2>6. AtPreviousRoot => AtPreviousRoot'
    BY <1>1, <1>4 DEF AtPreviousRoot
  <2>. QED  BY <1>1, <1>7, <2>5, <2>6 DEF AnchorInv
<1>. QED  BY <1>6, <1>7

(* After a transition it agrees with, the validator has the claimed root.  *)
LEMMA AnchorPasses ==
    ASSUME TypeInv, AnchorInv, Validating, ValidatePasses(Result)
    PROVE  AnchorInv'
<1> DEFINE b == Block
           i == cursor.next
           tr == b.transitions[i]
<1>1. /\ Result.verdict = "valid" /\ val' = Result.st /\ cursor' = Advanced(i) /\ i > 0
      /\ UNCHANGED <<chain, valStatus, blocks, alarms, skipped, faults>>
  BY DEF ValidatePasses, Validating
<1>2. /\ b \in Whole /\ b = DeserializeBlock(chain[cursor.event])
      /\ i \in 1..Len(b.transitions) /\ Len(b.transitions) \in Nat /\ tr \in Payload
      /\ cursor.event \in 1..Len(chain) /\ Len(chain) \in Nat
      /\ cursor = [event |-> cursor.event, next |-> i]
  BY <1>1, AtCursor
<1>3. Result = ValidateTransition(val, tr)
  BY DEF Result
<1>4. IsState(val') /\ Root(StateRoot(val')) = tr.root
  BY <1>1, <1>2, <1>3, Validated DEF AnchorInv
<1>5. cursor' = IF i < Len(b.transitions) THEN [cursor EXCEPT !.next = i + 1]
                ELSE [event |-> cursor.event + 1, next |-> 0]
  BY <1>1 DEF Advanced
<1> HIDE DEF i
<1>6. \/ i < Len(b.transitions) /\ cursor'.event = cursor.event /\ cursor'.next = i + 1
      \/ i = Len(b.transitions) /\ cursor'.event = cursor.event + 1 /\ cursor'.next = 0
  BY <1>2, <1>5
<1>7. Seen' = Seen
  BY <1>1, <1>2, <1>6 DEF Seen, i
<1>8. FiledInOrder => FiledInOrder'
  BY <1>1, <1>7 DEF FiledInOrder
<1>9. AtPreviousRoot'
  <2>1. CASE i < Len(b.transitions) /\ cursor'.event = cursor.event /\ cursor'.next = i + 1
    <3>1. Block' = b
      BY <1>1, <2>1 DEF Block
    <3>2. cursor'.next > 1 /\ cursor'.next - 1 = i /\ ~(cursor'.next <= 1)
      BY <1>2, <2>1
    <3>. QED  BY <1>4, <3>1, <3>2 DEF AtPreviousRoot
  <2>2. CASE i = Len(b.transitions) /\ cursor'.event = cursor.event + 1 /\ cursor'.next = 0
    <3>1. chain'[cursor'.event - 1] = chain[cursor.event]
      BY <1>1, <1>2, <2>2
    <3>2. LastOf(DeserializeBlock(chain'[cursor'.event - 1])) = tr
      BY <1>2, <2>2, <3>1 DEF LastOf
    <3>. QED  BY <1>4, <2>2, <3>2 DEF AtPreviousRoot
  <2>. QED  BY <1>6, <2>1, <2>2
<1>10. (\E S : alarms' \in Seq(S)) /\ (Calm' <=> Calm)
  BY <1>1 DEF AnchorInv, Calm
<1>. QED  BY <1>1, <1>4, <1>8, <1>9, <1>10 DEF AnchorInv

(* The first alarm rests on the root of the transition before.             *)
LEMMA AnchorAlarm ==
    ASSUME TypeInv, NothingLostOrRepeated, AnchorInv, Validating, NEW sub \in BOOLEAN, RaiseAlarm(Result, sub)
    PROVE  AnchorInv'
<1> DEFINE b == Block
           i == cursor.next
           tr == b.transitions[i]
           proof == FraudProof(blocks, b, i, Result.inputs)
<1>1. /\ val' = Result.st /\ cursor' = Advanced(i) /\ i > 0 /\ valStatus = "running"
      /\ sub \/ "submit" \in Failures
      /\ alarms' = IF sub THEN Append(alarms, proof) ELSE alarms
      /\ ~ProofPanics(Result.inputs) /\ HasPreState(blocks, b.number, i)
      /\ UNCHANGED <<chain, valStatus, blocks, skipped, faults>>
  BY DEF RaiseAlarm, Validating
<1>2. /\ b \in Whole /\ b = DeserializeBlock(chain[cursor.event])
      /\ chain[cursor.event] \in Coded /\ b.number = chain[cursor.event].number
      /\ i \in 1..Len(b.transitions) /\ Len(b.transitions) \in Nat /\ tr \in Payload
      /\ cursor.event \in 1..Len(chain) /\ Len(chain) \in Nat
      /\ cursor = [event |-> cursor.event, next |-> i]
  BY <1>1, AtCursor
<1>3. Result = ValidateTransition(val, tr)
  BY DEF Result
<1>4. IsState(val') /\ \A j \in DOMAIN Result.inputs : Result.inputs[j].root = Root(StateRoot(val))
  BY <1>1, <1>2, <1>3, Validated DEF AnchorInv
<1>5. PICK S : alarms \in Seq(S)
  BY DEF AnchorInv
<1>6. \E T : alarms' \in Seq(T)
  <2> HIDE DEF proof
  <2>1. Append(alarms, proof) \in Seq(S \cup {proof}) /\ alarms \in Seq(S \cup {proof})
    BY <1>5
  <2>. QED  BY <1>1, <2>1
<1>7. (Calm' <=> Calm) /\ (Calm => sub)
  BY <1>1 DEF Calm
<1>8. CASE ~Calm
  BY <1>4, <1>6, <1>7, <1>8 DEF AnchorInv
<1>9. CASE Calm
  <2>1. FiledInOrder /\ (alarms = <<>> => AtPreviousRoot) /\ (alarms # <<>> => Anchored(alarms[1]))
    BY <1>1, <1>9 DEF AnchorInv
  <2>2. alarms' = Append(alarms, proof)
    BY <1>1, <1>7, <1>9
  <2>3. Seen' = Seen /\ Seen = cursor.event
    <3>1. cursor' = IF i < Len(b.transitions) THEN [cursor EXCEPT !.next = i + 1]
                    ELSE [event |-> cursor.event + 1, next |-> 0]
      BY <1>1 DEF Advanced
    <3> HIDE DEF i
    <3>2. \/ i < Len(b.transitions) /\ cursor'.event = cursor.event /\ cursor'.next = i + 1
          \/ i = Len(b.transitions) /\ cursor'.event = cursor.event + 1 /\ cursor'.next = 0
      BY <1>2, <3>1
    <3>. QED  BY <1>1, <1>2, <3>2 DEF Seen, i
  <2>4. FiledInOrder'
    BY <1>1, <2>1, <2>3 DEF FiledInOrder
  <2>5. ASSUME alarms = <<>> PROVE Anchored(proof)
    <3>1. proof.inputs = Result.inputs /\ proof.pre = PreState(blocks, b, i)
      BY DEF FraudProof
    <3>2. PreState(blocks, b, i).root = Root(StateRoot(val))
      <4>1. AtPreviousRoot
        BY <2>1, <2>5
      <4>2. CASE i > 1
        BY <4>1, <4>2 DEF AtPreviousRoot, PreState
      <4>3. CASE ~(i > 1)
        <5> DEFINE e == cursor.event
        <5>1. b.number = e - 1 /\ e \in Nat
          BY <1>2, <1>9, ChainNumbered DEF Calm, Misses
        <5>2. PreviousBlockKey(b.number) \in DOMAIN blocks
          BY <1>1, <4>3 DEF HasPreState
        <5>3. e > 1
          <6> SUFFICES ASSUME e = 1 PROVE FALSE
            BY <1>2
          <6>1. PreviousBlockKey(b.number) = 1
            BY <5>1 DEF PreviousBlockKey
          <6>2. 1 < Seen
            BY <2>1, <5>2, <6>1 DEF FiledInOrder
          <6>. QED  BY <2>3, <6>2
        <5>4. PreviousBlockKey(b.number) = e - 2 /\ e - 1 \in 1..Seen /\ (e - 1) - 1 = e - 2
          BY <2>3, <5>1, <5>3 DEF PreviousBlockKey
        <5>5. blocks[e - 2] = DeserializeBlock(chain[e - 1])
          BY <2>1, <5>4 DEF FiledInOrder
        <5>6. PreState(blocks, b, i) = LastOf(DeserializeBlock(chain[e - 1]))
          BY <4>3, <5>4, <5>5 DEF PreState, LastOf
        <5>7. i <= 1
          BY <1>2, <4>3
        <5>. QED  BY <4>1, <5>3, <5>6, <5>7 DEF AtPreviousRoot
      <4>. QED  BY <4>2, <4>3
    <3>. QED  BY <1>4, <3>1, <3>2 DEF Anchored
  <2> HIDE DEF proof
  <2>6. alarms' # <<>> /\ alarms'[1] = IF alarms = <<>> THEN proof ELSE alarms[1]
    BY <1>5, <2>2
  <2>7. Anchored(alarms'[1])
    BY <2>1, <2>5, <2>6
  <2>. QED  BY <1>4, <1>6, <2>4, <2>6, <2>7 DEF AnchorInv
<1>. QED  BY <1>8, <1>9

(* What is skipped, or crashes, is out of it.                              *)
LEMMA AnchorRest ==
    ASSUME TypeInv, AnchorInv, Validating,
           ValidateErrors(Result) \/ AbandonBlock(Result) \/ ValidatorPanics(Result)
    PROVE  AnchorInv'
<1>1. Result = ValidateTransition(val, Block.transitions[cursor.next])
  BY DEF Result
<1>2. IsState(Result.st)
  BY <1>1, AtCursor, Validated DEF Validating, AnchorInv
<1>3. IsState(val') /\ alarms' = alarms
  BY <1>2 DEF ValidateErrors, AbandonBlock, ValidatorPanics, AnchorInv
<1>4. CASE ValidateErrors(Result) \/ AbandonBlock(Result)
  <2>1. cursor.next > 0 /\ cursor.next \in 1..Len(Block.transitions) /\ Len(Block.transitions) \in Nat
    BY AtCursor DEF Validating
  <2>2. cursor.next \in cursor.next..Len(Block.transitions)
    BY <2>1
  <2>3. <<cursor.event, cursor.next>> \in skipped'
    BY <1>4, <2>2 DEF ValidateErrors, AbandonBlock
  <2>4. ~Calm'
    BY <2>3 DEF Calm
  <2>. QED  BY <1>3, <2>4 DEF AnchorInv
<1>5. CASE ValidatorPanics(Result)
  <2>1. valStatus' = "panicked" /\ UNCHANGED <<chain, blocks, cursor, skipped, faults>>
    BY <1>5 DEF ValidatorPanics
  <2>. QED  BY <1>3, <2>1 DEF AnchorInv, Calm, FiledInOrder, Seen
<1>. QED  BY <1>4, <1>5

(* Every step.                                                             *)
LEMMA AnchorNext == TypeInv /\ NothingLostOrRepeated /\ AnchorInv /\ [Next]_vars => AnchorInv'
<1> SUFFICES ASSUME TypeInv, NothingLostOrRepeated, AnchorInv, [Next]_vars PROVE AnchorInv'
  OBVIOUS
<1>1. chain \in Seq(Coded) /\ proposals \in Seq(Coded)
  BY DEF TypeInv, QueueTyped
<1>2. CASE AggregatorNext \/ UNCHANGED vars
  <2>1. UNCHANGED <<valVars, chain>> /\ faults \subseteq faults'
    BY <1>2, TxsOfAggregator
       DEF RestartAggregator, TxNext, Reject, Crash, Collect, Propose, ProposeFails, Accept, vars
  <2>. QED  BY <2>1, AnchorKept DEF valVars
<1>3. CASE CommitBlock \/ CommitFails
  <2>1. /\ UNCHANGED valVars /\ faults \subseteq faults' /\ proposals # <<>>
        /\ chain' \in {chain, Append(chain, Head(proposals))}
    BY <1>3 DEF CommitBlock, CommitFails
  <2>2. Head(proposals) \in Coded
    BY <1>1, <2>1
  <2>3. \A i \in 1..Len(chain) : chain'[i] = chain[i]
    BY <1>1, <2>1, <2>2
  <2>. QED  BY <2>1, <2>3, AnchorKept DEF valVars
<1>4. CASE \E i \in DOMAIN TokenOrder : ObserveToken(i)
  <2>1. PICK i \in DOMAIN TokenOrder : ObserveToken(i)
    BY <1>4
  <2>2. /\ val' = WithTokens(val, Put(val.tokenIndex, TokenOrder[i], i - 1))
        /\ UNCHANGED <<valStatus, blocks, cursor, alarms, skipped, faults, chain>>
    BY <2>1 DEF ObserveToken, WithTokens
  <2>3. IsState(val') /\ StateRoot(val') = StateRoot(val)
    BY <2>2, TokenFields DEF AnchorInv, StateRoot
  <2>. QED  BY <2>2, <2>3, AnchorKept
<1>5. CASE RestartValidator
  <2>1. val' = Reopened(val) /\ alarms' = alarms /\ "missed" \in faults'
    BY <1>5 DEF RestartValidator
  <2>2. IsState(val') /\ ~Calm'
    BY <2>1, ReopenedIsState DEF AnchorInv, Calm, Misses
  <2>. QED  BY <2>1, <2>2 DEF AnchorInv
<1>6. CASE ReceiveBlock
  BY <1>6, AnchorReceive
<1>7. CASE ValidateOne
  <2>1. /\ Validating
        /\ \/ ValidatePasses(Result) \/ ValidateErrors(Result) \/ RaiseAlarm(Result, TRUE)
           \/ RaiseAlarm(Result, FALSE) \/ AbandonBlock(Result) \/ ValidatorPanics(Result)
    BY <1>7 DEF ValidateOne
  <2>. QED  BY <2>1, AnchorPasses, AnchorAlarm, AnchorRest
<1>. QED  BY <1>2, <1>3, <1>4, <1>5, <1>6, <1>7 DEF Next, ValidateNext

(* Nothing is filed and nothing alarmed at first.                          *)
LEMMA AnchorInit == Init => AnchorInv
<1> SUFFICES ASSUME Init PROVE AnchorInv
  OBVIOUS
<1>1. /\ val = InitState /\ blocks = EmptyTable /\ cursor = [event |-> 1, next |-> 0] /\ alarms = <<>>
  BY DEF Init
<1>2. IsState(val)
  <2>1. InitState = StateOf(-1, EmptyTable, EmptyTable, EmptyTable, EmptyTable)
    BY DEF InitState, StateOf
  <2>. QED  BY <1>1, <2>1, StateFields
<1>3. Seen = 0
  BY <1>1 DEF Seen
<1>4. FiledInOrder
  BY <1>1, <1>3, EmptyTableProperties DEF FiledInOrder
<1>5. AtPreviousRoot
  BY <1>1 DEF AtPreviousRoot
<1>6. alarms \in Seq({})
  BY <1>1
<1>. QED  BY <1>1, <1>2, <1>4, <1>5, <1>6 DEF AnchorInv

(* The account snapshots of the first fraud proof are proved against the   *)
(* very root that its pre-state transition claims, the block before        *)
(* included, unless the validator skipped a transition or missed a block,  *)
(* a block was lost or repeated, or an earlier proof was not submitted.    *)
THEOREM AlarmAnchored == Spec => []FirstAlarmAnchored
<1>1. AnchorInv => FirstAlarmAnchored
  BY DEF AnchorInv, FirstAlarmAnchored, Calm, Misses, Losses, Anchored
<1>. QED  BY <1>1, TypeInit, TypeNext, CutInit, CutNext, AnchorInit, AnchorNext, PTL DEF Spec

-----------------------------------------------------------------------------
(* Replaying a transition *)

(* A part of the registry's numbering: what a validator knows of it.       *)
PartOfMapped(ti) == DOMAIN ti \subseteq DOMAIN Mapped /\ ti = [t \in DOMAIN ti |-> Mapped[t]]

(* A state whose tree is complete and whose tokens are the registry's.     *)
Sound(s) ==
    /\ Consistent(s) /\ IsState(s)
    /\ DOMAIN s.trie = DOMAIN s.infoAt
    /\ s.tokenIndex = Mapped

(* Whoever has state s, with the tokens ti, replays transition tr: it is   *)
(* valid and leaves state r, unless its token is not known: an error.      *)
ReplaysKnowing(s, tr, r, ti) ==
    LET result == ValidateTransition(WithTokens(s, ti), tr)
    IN  IF TokenAtIndex(WithTokens(s, ti), tr.tokenIndex) = {}
        THEN result.verdict = "error"
        ELSE result.verdict = "valid" /\ result.st = WithTokens(r, ti)

(* So it is whatever part of the registry is known; all of it suffices.    *)
Replays(s, tr, r) ==
    /\ \E t \in DOMAIN Mapped : Mapped[t] = tr.tokenIndex
    /\ \A ti : PartOfMapped(ti) => ReplaysKnowing(s, tr, r, ti)

(* A part of the numbering is typed.                                       *)
LEMMA PartTyped ==
    ASSUME NEW ti, PartOfMapped(ti)
    PROVE  /\ ti \in [DOMAIN ti -> Nat] /\ DOMAIN ti \subseteq Tokens
           /\ \A t \in DOMAIN ti : t \in DOMAIN Mapped /\ ti[t] = Mapped[t]
BY MappedTyped DEF PartOfMapped

(* Knowing fewer tokens does not make a state inconsistent.                *)
LEMMA PartConsistent ==
    ASSUME NEW s, Consistent(s), IsState(s), NEW ti, PartOfMapped(ti)
    PROVE  Consistent(WithTokens(s, ti))
<1> DEFINE v == WithTokens(s, ti)
<1>1. /\ v.lastKey = s.lastKey /\ v.keyOf = s.keyOf /\ v.infoAt = s.infoAt
      /\ v.trie = s.trie /\ v.tokenIndex = ti
  BY TokenFields
<1>2. DOMAIN v = {"lastKey", "keyOf", "infoAt", "tokenIndex", "trie"}
  BY DEF WithTokens, Consistent, TablesTyped
<1>3. ti \in [DOMAIN ti -> Nat] /\ DOMAIN ti \subseteq Tokens
  BY PartTyped
<1> HIDE DEF v
<1>4. Consistent(v)
  BY <1>1, <1>2, <1>3 DEF Consistent, TablesTyped, SlotsAssigned, TrieAgrees
<1>. QED  BY <1>4 DEF v

(* Nor does it change what an accepted transaction does.                   *)
LEMMA AppliedAlike ==
    ASSUME NEW s, Consistent(s), IsState(s), NEW ti, PartOfMapped(ti),
           NEW tx \in Txs, SameIndex(s, ti, tx.token), ApplyTransaction(s, tx).outcome = "ok"
    PROVE  /\ ApplyTransaction(WithTokens(s, ti), tx).outcome = "ok"
           /\ ApplyTransaction(WithTokens(s, ti), tx).st = WithTokens(ApplyTransaction(s, tx).st, ti)
<1> DEFINE v == WithTokens(s, ti)
           u == ApplyTransaction(s, tx)
<1>1. Consistent(v)
  BY PartConsistent
<1>2. CASE tx \in DepositTxs
  <2>1. tx.type = "deposit" /\ u.st = Deposited(s, tx)
    BY <1>2, DepositOutcome
  <2>2. DepositAccepted(v, tx) /\ Deposited(v, tx) = WithTokens(Deposited(s, tx), ti)
    BY DepositKeepsTokens
  <2> HIDE DEF v
  <2>3. ApplyTransaction(v, tx).outcome = "ok" /\ ApplyTransaction(v, tx).st = Deposited(v, tx)
    BY <2>1, <2>2 DEF ApplyTransaction, ApplyDeposit
  <2>. QED  BY <2>1, <2>2, <2>3 DEF v
<1>3. CASE tx \in WithdrawTxs
  <2>1. tx.type = "withdraw" /\ u.st = Withdrawn(s, tx) /\ WithdrawAccepted(s, tx)
    BY <1>3, WithdrawOutcome
  <2>2. WithdrawAccepted(v, tx) /\ Withdrawn(v, tx) = WithTokens(Withdrawn(s, tx), ti)
    BY <2>1, WithdrawKeepsTokens
  <2> HIDE DEF v
  <2>3. ApplyTransaction(v, tx).outcome = "ok" /\ ApplyTransaction(v, tx).st = Withdrawn(v, tx)
    BY <2>1, <2>2 DEF ApplyTransaction, ApplyWithdraw
  <2>. QED  BY <2>1, <2>2, <2>3 DEF v
<1>4. CASE tx \in TransferTxs
  <2>1. tx.type = "transfer" /\ u.st = Transferred(s, tx) /\ TransferAccepted(s, tx) /\ tx.recipient \in Accounts
    BY <1>4, TransferOutcome
  <2>2. TransferAccepted(v, tx) /\ Transferred(v, tx) = WithTokens(Transferred(s, tx), ti)
    BY <2>1, TransferKeepsTokens
  <2>3. ~TransferPanics(v, tx)
    BY <1>1, <2>1, <2>2, AcceptedDoesNotPanic
  <2> HIDE DEF v
  <2>4. ApplyTransaction(v, tx).outcome = "ok" /\ ApplyTransaction(v, tx).st = Transferred(v, tx)
    BY <2>1, <2>2, <2>3 DEF ApplyTransaction, ApplyTransfer
  <2>. QED  BY <2>1, <2>2, <2>4 DEF v
<1>. QED  BY <1>2, <1>3, <1>4 DEF Txs

(* The leaf of an account, found at its slot.                              *)
LEMMA LeafOfAccount ==
    ASSUME NEW s, Consistent(s), DOMAIN s.trie = DOMAIN s.infoAt, NEW a \in DOMAIN s.keyOf
    PROVE  s.keyOf[a] \in DOMAIN s.trie /\ s.trie[s.keyOf[a]].account = a
BY DEF Consistent, SlotsAssigned, TrieAgrees

(* The leaf at the slot of an account names the account.                   *)
Leaf(v, slot, a) == slot \in DOMAIN v.trie /\ v.trie[slot].account = a

(* Of a transition with one slot, the validator makes the transaction it   *)
(* was made of.                                                            *)
LEMMA OneSlotRead ==
    ASSUME NEW v, NEW kind, NEW root, NEW slot, NEW names, NEW index, NEW amount, NEW nonce, NEW a, NEW token,
           TokenAtIndex(v, index) = {token},
           \/ kind = "createAndDeposit" /\ names = {a}
           \/ kind \in {"deposit", "withdraw"} /\ Leaf(v, slot, a)
    PROVE  LET tr == TransitionWith(kind, root, <<slot>>, names, index, amount, nonce)
           IN  /\ Readable(v, tr)
               /\ TransactionOf(v, tr) = IF kind = "withdraw" THEN WithdrawTx(a, token, amount, nonce)
                                                              ELSE DepositTx(a, token, amount)
<1> DEFINE slots == <<slot>>
           tr == TransitionWith(kind, root, slots, names, index, amount, nonce)
<1>1. /\ tr.type = kind /\ tr.slots = slots /\ tr.names = names /\ tr.tokenIndex = index
      /\ tr.amount = amount /\ tr.nonce = nonce
  BY DEF TransitionWith
<1> HIDE DEF tr
<1>2. (CHOOSE t \in TokenAtIndex(v, tr.tokenIndex) : TRUE) = token /\ TokenAtIndex(v, tr.tokenIndex) # {}
  BY <1>1
<1>3. CASE kind = "createAndDeposit" /\ names = {a}
  <2>1. SnapshotSlots(tr) = <<>>
    BY <1>1, <1>3 DEF SnapshotSlots
  <2>2. Readable(v, tr)
    BY <1>2, <2>1 DEF Readable, SnapshotsAvailable
  <2>3. (CHOOSE x \in tr.names : TRUE) = a
    BY <1>1, <1>3
  <2>4. TransactionOf(v, tr) = DepositTx(a, token, amount)
    BY <1>1, <1>2, <1>3, <2>3 DEF TransactionOf
  <2>. QED  BY <1>3, <2>2, <2>4 DEF tr
<1>4. CASE kind \in {"deposit", "withdraw"} /\ Leaf(v, slot, a)
  <2>1. SnapshotSlots(tr) = slots /\ tr.type # "createAndTransfer"
    BY <1>1, <1>4 DEF SnapshotSlots
  <2>2. DOMAIN slots = {1} /\ slots[1] = slot
    OBVIOUS
  <2> HIDE DEF slots
  <2>3. Readable(v, tr)
    BY <1>2, <1>4, <2>1, <2>2 DEF Readable, SnapshotsAvailable, Leaf
  <2>4. InputStateSnapshots(v, tr)[1] = Snapshot(v, slot)
    BY <2>1, <2>2 DEF InputStateSnapshots
  <2>5. InputStateSnapshots(v, tr)[1].info.account = a
    BY <1>4, <2>4 DEF Snapshot, Leaf
  <2>6. TransactionOf(v, tr) = IF kind = "withdraw" THEN WithdrawTx(a, token, amount, nonce)
                                                    ELSE DepositTx(a, token, amount)
    BY <1>1, <1>2, <1>4, <2>5 DEF TransactionOf
  <2>. QED  BY <2>3, <2>6 DEF tr, slots
<1>. QED  BY <1>3, <1>4

(* So with two slots.                                                      *)
LEMMA TwoSlotRead ==
    ASSUME NEW v, NEW kind, NEW root, NEW from, NEW to, NEW names, NEW index, NEW amount, NEW nonce,
           NEW a, NEW b, NEW token,
           TokenAtIndex(v, index) = {token}, Leaf(v, from, a),
           \/ kind = "createAndTransfer" /\ names = {b}
           \/ kind = "transfer" /\ Leaf(v, to, b)
    PROVE  LET tr == TransitionWith(kind, root, <<from, to>>, names, index, amount, nonce)
           IN  Readable(v, tr) /\ TransactionOf(v, tr) = TransferTx(a, b, token, amount, nonce)
<1> DEFINE slots == <<from, to>>
           tr == TransitionWith(kind, root, slots, names, index, amount, nonce)
<1>1. /\ tr.type = kind /\ tr.slots = slots /\ tr.names = names /\ tr.tokenIndex = index
      /\ tr.amount = amount /\ tr.nonce = nonce
  BY DEF TransitionWith
<1>0. DOMAIN slots = {1, 2} /\ slots[1] = from /\ slots[2] = to
  OBVIOUS
<1> HIDE DEF tr, slots
<1>2. (CHOOSE t \in TokenAtIndex(v, tr.tokenIndex) : TRUE) = token /\ TokenAtIndex(v, tr.tokenIndex) # {}
  BY <1>1
<1>3. CASE kind = "createAndTransfer" /\ names = {b}
  <2> DEFINE one == <<from>>
             read == [j \in DOMAIN one |-> Snapshot(v, one[j])]
             first == Snapshot(v, from)
  <2>1. SnapshotSlots(tr) = one
    BY <1>0, <1>1, <1>3 DEF SnapshotSlots
  <2>2. DOMAIN one = {1} /\ one[1] = from
    OBVIOUS
  <2>3. read = <<first>>
    OBVIOUS
  <2>4. InputStateSnapshots(v, tr) = Append(read, NoSnapshot)
    BY <1>1, <1>3, <2>1 DEF InputStateSnapshots
  <2> HIDE DEF one
  <2>5. Readable(v, tr)
    BY <1>2, <2>1, <2>2 DEF Readable, SnapshotsAvailable, Leaf
  <2> HIDE DEF first
  <2>6. InputStateSnapshots(v, tr)[1] = first
    <3> DEFINE no == NoSnapshot
    <3> HIDE DEF no, read
    <3>1. Append(read, no)[1] = first
      BY <2>3
    <3>. QED  BY <2>4, <3>1 DEF no
  <2>7. InputStateSnapshots(v, tr)[1].info.account = a
    BY <2>6 DEF Snapshot, Leaf, first
  <2>8. (CHOOSE x \in tr.names : TRUE) = b
    BY <1>1, <1>3
  <2>9. TransactionOf(v, tr) = TransferTx(a, b, token, amount, nonce)
    BY <1>1, <1>2, <1>3, <2>7, <2>8 DEF TransactionOf
  <2>. QED  BY <2>5, <2>9 DEF tr, slots
<1>4. CASE kind = "transfer" /\ Leaf(v, to, b)
  <2>1. SnapshotSlots(tr) = slots /\ tr.type # "createAndTransfer"
    BY <1>1, <1>4 DEF SnapshotSlots
  <2>2. Readable(v, tr)
    BY <1>0, <1>2, <1>4, <2>1 DEF Readable, SnapshotsAvailable, Leaf
  <2>3. InputStateSnapshots(v, tr)[1] = Snapshot(v, from) /\ InputStateSnapshots(v, tr)[2] = Snapshot(v, to)
    BY <1>0, <2>1 DEF InputStateSnapshots
  <2>4. /\ InputStateSnapshots(v, tr)[1].info.account = a
        /\ InputStateSnapshots(v, tr)[2].info.account = b
    BY <1>4, <2>3 DEF Snapshot, Leaf
  <2>5. TransactionOf(v, tr) = TransferTx(a, b, token, amount, nonce)
    BY <1>1, <1>2, <1>4, <2>4 DEF TransactionOf
  <2>. QED  BY <2>2, <2>5 DEF tr, slots
<1>. QED  BY <1>3, <1>4

(* A transaction is what its fields say.                                   *)
LEMMA TxParts ==
    /\ \A tx \in DepositTxs : DepositTx(tx.account, tx.token, tx.amount) = tx
    /\ \A tx \in WithdrawTxs : WithdrawTx(tx.account, tx.token, tx.amount, tx.nonce) = tx
    /\ \A tx \in TransferTxs : TransferTx(tx.sender, tx.recipient, tx.token, tx.amount, tx.nonce) = tx
BY DEF DepositTxs, WithdrawTxs, TransferTxs, DepositTx, WithdrawTx, TransferTx

(* So is a transition.                                                     *)
LEMMA FieldsMade ==
    ASSUME NEW kind, NEW root, NEW slots, NEW names, NEW index, NEW amount, NEW nonce
    PROVE  LET tr == TransitionWith(kind, root, slots, names, index, amount, nonce)
           IN  tr.root = root /\ tr.tokenIndex = index
BY DEF TransitionWith

(* Every transition built of an accepted transaction is replayed as that   *)
(* transaction, by whoever has the state it was applied to and knows its   *)
(* token.  The root must not be the zero root, and the sender must have a  *)
(* leaf.                                                                   *)
LEMMA TransactionRead ==
    ASSUME NEW s, Sound(s), NEW ti, PartOfMapped(ti), NEW tx \in Txs, NEW f \in BOOLEAN,
           ApplyTransaction(s, tx).outcome = "ok",
           tx.type = "transfer" => ~f /\ HasAccount(s, tx.sender),
           TokenAtIndex(WithTokens(s, ti), s.tokenIndex[tx.token]) = {tx.token}
    PROVE  LET u  == ApplyTransaction(s, tx)
               tr == TransitionOf(u, tx, f)
           IN  /\ Readable(WithTokens(s, ti), tr)
               /\ TransactionOf(WithTokens(s, ti), tr) = tx
               /\ tr.root = Root(StateRoot(u.st))
<1> DEFINE u == ApplyTransaction(s, tx)
           v == WithTokens(s, ti)
           tr == TransitionOf(u, tx, f)
           index == u.st.tokenIndex[tx.token]
           root == Root(StateRoot(u.st))
<1>0. Consistent(s) /\ IsState(s) /\ DOMAIN s.trie = DOMAIN s.infoAt
  BY DEF Sound
<1>1. TokenAtIndex(v, index) = {tx.token}
  BY <1>0, Applied DEF Extends
<1>2. \A a \in DOMAIN s.keyOf : Leaf(v, s.keyOf[a], a)
  BY <1>0, LeafOfAccount, TokenFields DEF Leaf
<1>3. CASE tx \in DepositTxs
  <2> DEFINE kind == DepositKind(s, tx)
             slot == u.st.keyOf[tx.account]
             names == Named(kind, tx.account)
  <2>1. tr = TransitionWith(kind, root, <<slot>>, names, index, tx.amount, 0)
    BY <1>0, <1>3, DepositMakes
  <2>2. KeepsSlots(u.st, s)
    BY <1>0, <1>3, DepositOutcome
  <2>3. CASE HasAccount(s, tx.account)
    <3>1. kind = "deposit" /\ slot = s.keyOf[tx.account] /\ tx.account \in DOMAIN s.keyOf
      BY <2>2, <2>3 DEF DepositKind, KeepsSlots, HasAccount
    <3>2. Leaf(v, slot, tx.account)
      BY <1>2, <3>1
    <3> DEFINE zero == 0
    <3>a. tr = TransitionWith(kind, root, <<slot>>, names, index, tx.amount, zero)
      BY <2>1
    <3> HIDE DEF u, v, tr, kind, slot, names, index, root, zero
    <3>3. /\ Readable(v, tr)
          /\ TransactionOf(v, tr) = IF kind = "withdraw" THEN WithdrawTx(tx.account, tx.token, tx.amount, zero)
                                                         ELSE DepositTx(tx.account, tx.token, tx.amount)
      BY <1>1, <3>a, <3>1, <3>2, OneSlotRead
    <3>4. TransactionOf(v, tr) = DepositTx(tx.account, tx.token, tx.amount)
      BY <3>1, <3>3
    <3>5. TransactionOf(v, tr) = tx
      BY <3>4, <1>3, TxParts
    <3>6. tr.root = root
      BY <3>a, FieldsMade
    <3>. QED  BY <3>3, <3>5, <3>6 DEF tr, u, v, root
  <2>4. CASE ~HasAccount(s, tx.account)
    <3>1. kind = "createAndDeposit" /\ names = {tx.account}
      BY <2>4 DEF DepositKind, Named
    <3> DEFINE zero == 0
    <3>a. tr = TransitionWith(kind, root, <<slot>>, names, index, tx.amount, zero)
      BY <2>1
    <3> HIDE DEF u, v, tr, kind, slot, names, index, root, zero
    <3>3. /\ Readable(v, tr)
          /\ TransactionOf(v, tr) = IF kind = "withdraw" THEN WithdrawTx(tx.account, tx.token, tx.amount, zero)
                                                         ELSE DepositTx(tx.account, tx.token, tx.amount)
      BY <1>1, <3>a, <3>1, OneSlotRead
    <3>4. TransactionOf(v, tr) = DepositTx(tx.account, tx.token, tx.amount)
      BY <3>1, <3>3
    <3>5. TransactionOf(v, tr) = tx
      BY <3>4, <1>3, TxParts
    <3>6. tr.root = root
      BY <3>a, FieldsMade
    <3>. QED  BY <3>3, <3>5, <3>6 DEF tr, u, v, root
  <2>. QED  BY <2>3, <2>4
<1>4. CASE tx \in WithdrawTxs
  <2> DEFINE kind == "withdraw"
             slot == u.st.keyOf[tx.account]
             none == {}
  <2>1. tr = TransitionWith(kind, root, <<slot>>, none, index, tx.amount, tx.nonce)
    BY <1>0, <1>4, WithdrawMakes
  <2>2. u.st.keyOf = s.keyOf /\ tx.account \in DOMAIN s.keyOf
    BY <1>0, <1>4, WithdrawOutcome DEF HasAccount
  <2>3. Leaf(v, slot, tx.account)
    BY <1>2, <2>2
  <2>4. kind = "withdraw"
    OBVIOUS
  <2> HIDE DEF u, v, tr, kind, slot, none, index, root
  <2>. QED  BY <1>1, <2>1, <2>3, <2>4, OneSlotRead, TxParts, <1>4, FieldsMade DEF tr, u, v, root
<1>5. CASE tx \in TransferTxs
  <2> DEFINE kind == TransferKind(s, tx)
             from == u.st.keyOf[tx.sender]
             to == u.st.keyOf[tx.recipient]
             names == Named(kind, tx.recipient)
  <2>0. ~f /\ tx.sender \in DOMAIN s.keyOf
    BY <1>5 DEF TransferTxs, HasAccount
  <2>1. tr = TransitionWith(kind, root, <<from, to>>, names, index, tx.amount, tx.nonce)
    BY <1>0, <1>5, <2>0, TransferMakes
  <2>2. KeepsSlots(u.st, s)
    BY <1>0, <1>5, TransferOutcome
  <2>3. Leaf(v, from, tx.sender)
    BY <1>2, <2>0, <2>2 DEF KeepsSlots
  <2>4. CASE HasAccount(s, tx.recipient)
    <3>1. kind = "transfer" /\ to = s.keyOf[tx.recipient] /\ tx.recipient \in DOMAIN s.keyOf
      BY <2>2, <2>4 DEF TransferKind, KeepsSlots, HasAccount
    <3>2. Leaf(v, to, tx.recipient)
      BY <1>2, <3>1
    <3> HIDE DEF u, v, tr, kind, from, to, names, index, root
    <3>. QED  BY <1>1, <2>1, <2>3, <3>1, <3>2, TwoSlotRead, TxParts, <1>5, FieldsMade DEF tr, u, v, root
  <2>5. CASE ~HasAccount(s, tx.recipient)
    <3>1. kind = "createAndTransfer" /\ names = {tx.recipient}
      BY <2>5 DEF TransferKind, Named
    <3> HIDE DEF u, v, tr, kind, from, to, names, index, root
    <3>. QED  BY <1>1, <2>1, <2>3, <3>1, TwoSlotRead, TxParts, <1>5, FieldsMade DEF tr, u, v, root
  <2>. QED  BY <2>4, <2>5
<1>. QED  BY <1>3, <1>4, <1>5 DEF Txs

(* A transition names its token by the index in the aggregator's table.    *)
LEMMA IndexBuilt ==
    ASSUME NEW u, NEW tx \in Txs, NEW f \in BOOLEAN
    PROVE  TransitionOf(u, tx, f).tokenIndex = u.st.tokenIndex[tx.token]
<1>1. tx.type \in {"deposit", "withdraw", "transfer"}
  BY DEF Txs, DepositTxs, WithdrawTxs, TransferTxs
<1>. QED  BY <1>1 DEF TransitionOf, DepositTransition, WithdrawTransition, TransferTransition

(* What an accepted transaction does to the aggregator, replaying its      *)
(* transition does to whoever has the state before it.                     *)
LEMMA Replayed ==
    ASSUME NEW s, Sound(s), NEW tx \in Txs, NEW f \in BOOLEAN,
           ApplyTransaction(s, tx).outcome = "ok",
           tx.type = "transfer" => ~f /\ HasAccount(s, tx.sender)
    PROVE  LET u == ApplyTransaction(s, tx)
           IN  Sound(u.st) /\ Replays(s, TransitionOf(u, tx, f), u.st)
<1> DEFINE u == ApplyTransaction(s, tx)
           tr == TransitionOf(u, tx, f)
           r == u.st
           index == s.tokenIndex[tx.token]
<1>1. Consistent(s) /\ IsState(s) /\ DOMAIN s.trie = DOMAIN s.infoAt /\ s.tokenIndex = Mapped
  BY DEF Sound
<1>2. Extends(r, s) /\ TokenMapped(s, tx.token)
  BY <1>1, Applied
<1>3. tx.type \in {"deposit", "withdraw", "transfer"}
  BY DEF Txs, DepositTxs, WithdrawTxs, TransferTxs
<1>4. Sound(r)
  BY <1>1, <1>2, <1>3, AppliedIsState DEF Sound, Extends
<1>5. tx.token \in DOMAIN Mapped /\ index = Mapped[tx.token] /\ r.tokenIndex = Mapped
  BY <1>1, <1>2 DEF TokenMapped, Extends
<1>6. tr.tokenIndex = index
  BY <1>5, <1>1, IndexBuilt
<1>7. ASSUME NEW ti, PartOfMapped(ti) PROVE ReplaysKnowing(s, tr, r, ti)
  <2> DEFINE v == WithTokens(s, ti)
             result == ValidateTransition(v, tr)
  <2>1. v.tokenIndex = ti
    BY <1>1, TokenFields
  <2>2. \A t \in DOMAIN ti : t \in DOMAIN Mapped /\ ti[t] = Mapped[t]
    BY <1>7, PartTyped
  <2> HIDE DEF u, tr, v, index
  <2>3. TokenAtIndex(v, index) = { t \in DOMAIN ti : ti[t] = index }
    BY <2>1 DEF TokenAtIndex
  <2>4. \A t \in TokenAtIndex(v, index) : t = tx.token /\ t \in DOMAIN ti
    BY <1>5, <2>2, <2>3, MappedTyped
  <2>5. CASE TokenAtIndex(v, index) = {}
    <3>1. ~Readable(v, tr)
      BY <1>6, <2>5 DEF Readable
    <3>2. result.verdict = "error"
      BY <3>1 DEF ValidateTransition
    <3>. QED  BY <1>6, <2>5, <3>2 DEF ReplaysKnowing, v
  <2>6. CASE TokenAtIndex(v, index) # {}
    <3>1. TokenAtIndex(v, index) = {tx.token} /\ tx.token \in DOMAIN ti
      BY <2>4, <2>6
    <3>2. SameIndex(s, ti, tx.token)
      BY <1>1, <1>2, <2>2, <3>1 DEF SameIndex, TokenMapped
    <3>3. Readable(v, tr) /\ TransactionOf(v, tr) = tx /\ tr.root = Root(StateRoot(r))
      BY <1>7, <3>1, TransactionRead DEF v, tr, u, index
    <3> DEFINE w == ApplyTransaction(v, tx)
    <3>4. w.outcome = "ok" /\ w.st = WithTokens(r, ti)
      BY <1>1, <1>7, <3>2, AppliedAlike DEF v, u
    <3> HIDE DEF r
    <3>5. StateRoot(w.st) = StateRoot(r)
      BY <1>4, <3>4, TokenFields DEF Sound, StateRoot
    <3> HIDE DEF w
    <3>6. result = [verdict |-> CASE w.outcome = "panic" -> "panic"
                                  [] w.outcome = "ok" /\ Root(StateRoot(w.st)) = tr.root -> "valid"
                                  [] OTHER -> "fraud",
                    st |-> w.st, inputs |-> InputStateSnapshots(v, tr)]
      BY <3>3 DEF ValidateTransition, w
    <3> HIDE DEF result
    <3>7. result.st = w.st /\ result.verdict = "valid"
      BY <3>3, <3>4, <3>5, <3>6
    <3>. QED  BY <1>6, <2>6, <3>4, <3>7 DEF ReplaysKnowing, v, result
  <2>. QED  BY <2>5, <2>6
<1>8. Replays(s, tr, r)
  BY <1>5, <1>6, <1>7 DEF Replays
<1>. QED  BY <1>4, <1>8

-----------------------------------------------------------------------------
(* Where the validator is in what was built *)

(* The transitions of the first n committed blocks.                        *)
FirstBlocks(n) == Flatten(SubSeq(Decoded(chain), 1, n))

(* They are how built begins, and the next block goes on from there.       *)
LEMMA ChainBegins ==
    ASSUME TypeInv, NothingLostOrRepeated, faults = {}
    PROVE  /\ FirstBlocks(0) = <<>>
           /\ \A n \in 1..Len(chain) :
                 /\ FirstBlocks(n) = FirstBlocks(n - 1) \o DeserializeBlock(chain[n]).transitions
                 /\ FirstBlocks(n) \in Seq(Payload) /\ FirstBlocks(n - 1) \in Seq(Payload)
                 /\ DeserializeBlock(chain[n]).transitions \in Seq(Payload)
                 /\ Len(FirstBlocks(n)) <= Len(built)
                 /\ \A i \in 1..Len(FirstBlocks(n)) : built[i] = FirstBlocks(n)[i]
<1> DEFINE D == Decoded(chain)
           N == Len(chain)
<1>1. chain \in Seq(Coded) /\ N \in Nat /\ \A n \in 1..N : chain[n] \in Coded
  BY DEF TypeInv, QueueTyped
<1>2. D \in Seq(PackedBlocks) /\ Len(D) = N /\ \A i \in 1..N : D[i] = DeserializeBlock(chain[i])
  BY <1>1, QueueDecoded
<1>3. /\ Queue \in Seq(PackedBlocks) /\ Len(Queue) = N + Len(proposals) /\ Len(proposals) \in Nat
      /\ AllBlocks = Append(Queue, pending) /\ AllBlocks \in Seq(PackedBlocks)
      /\ \A i \in 1..N : Queue[i] = DeserializeBlock(chain[i])
  BY AllBlocksTyped DEF TypeInv, QueueTyped
<1>4. Flatten(AllBlocks) = built
  BY DEF NothingLostOrRepeated
<1> DEFINE A == AllBlocks
           Q == Queue
<1> HIDE DEF A, D, Q
<1>5. Len(A) \in Nat /\ N <= Len(A) /\ A \in Seq(PackedBlocks) /\ \A i \in 1..N : A[i] = D[i]
  <2>1. A = Append(Q, pending) /\ Q \in Seq(PackedBlocks) /\ Len(Q) = N + Len(proposals)
        /\ Len(proposals) \in Nat /\ \A i \in 1..N : Q[i] = D[i]
    BY <1>2, <1>3 DEF A, Q
  <2>2. Len(A) = Len(Q) + 1 /\ Len(Q) \in Nat /\ N <= Len(Q) /\ \A i \in 1..Len(Q) : A[i] = Q[i]
    BY <1>1, <2>1
  <2>. QED  BY <1>1, <1>3, <2>1, <2>2 DEF A
<1>6. \A n \in 0..N : SubSeq(A, 1, n) = SubSeq(D, 1, n)
  <2> SUFFICES ASSUME NEW n \in 0..N PROVE SubSeq(A, 1, n) = SubSeq(D, 1, n)
    OBVIOUS
  <2> DEFINE x == SubSeq(A, 1, n)  y == SubSeq(D, 1, n)
  <2>1. /\ x \in Seq(PackedBlocks) /\ Len(x) = n /\ \A i \in 1..n : x[i] = A[i]
        /\ y \in Seq(PackedBlocks) /\ Len(y) = n /\ \A i \in 1..n : y[i] = D[i]
    BY <1>1, <1>2, <1>5
  <2> HIDE DEF x, y
  <2>2. \A i \in 1..n : x[i] = y[i]
    BY <1>1, <1>5, <2>1
  <2>3. x = y
    BY <2>1, <2>2, SeqEqual
  <2>. QED  BY <2>3 DEF x, y
<1>7. FirstBlocks(0) = <<>>
  <2>1. SubSeq(D, 1, 0) = <<>>
    BY <1>2
  <2>. QED  BY <2>1, FlattenAppend DEF FirstBlocks, D
<1>8. ASSUME NEW n \in 1..N
      PROVE  /\ FirstBlocks(n) = FirstBlocks(n - 1) \o DeserializeBlock(chain[n]).transitions
             /\ FirstBlocks(n) \in Seq(Payload) /\ FirstBlocks(n - 1) \in Seq(Payload)
             /\ DeserializeBlock(chain[n]).transitions \in Seq(Payload)
             /\ Len(FirstBlocks(n)) <= Len(built)
             /\ \A i \in 1..Len(FirstBlocks(n)) : built[i] = FirstBlocks(n)[i]
  <2>1. n \in 1..Len(A) /\ n \in 0..N /\ n - 1 \in 0..N
    BY <1>1, <1>5
  <2>2. /\ Flatten(SubSeq(A, 1, n)) = Flatten(SubSeq(A, 1, n - 1)) \o A[n].transitions
        /\ Flatten(SubSeq(A, 1, n)) \in Seq(Payload) /\ Flatten(SubSeq(A, 1, n - 1)) \in Seq(Payload)
        /\ Len(Flatten(SubSeq(A, 1, n))) <= Len(Flatten(A))
        /\ \A i \in 1..Len(Flatten(SubSeq(A, 1, n))) : Flatten(A)[i] = Flatten(SubSeq(A, 1, n))[i]
    BY <1>5, <2>1, FlattenBegins
  <2>3. Flatten(SubSeq(A, 1, n)) = FirstBlocks(n) /\ Flatten(SubSeq(A, 1, n - 1)) = FirstBlocks(n - 1)
    BY <1>6, <2>1 DEF FirstBlocks, D
  <2>4. A[n] = DeserializeBlock(chain[n]) /\ chain[n] \in Coded
    BY <1>1, <1>2, <1>5
  <2>5. Flatten(A) = built
    BY <1>4 DEF A
  <2>6. DeserializeBlock(chain[n]).transitions \in Seq(Payload)
    BY <2>4, CodedRead
  <2>. QED  BY <2>2, <2>3, <2>4, <2>5, <2>6
<1>. QED  BY <1>7, <1>8

(* The validator is never past what was built; the transition it is at is  *)
(* the next one of built, and it goes from one to the next.                *)
LEMMA LookedAt ==
    ASSUME TypeInv, NothingLostOrRepeated, faults = {}
    PROVE  /\ Looked \in 0..Len(built) /\ Len(built) \in Nat
           /\ cursor.next > 0 =>
                 /\ Looked + 1 \in 1..Len(built)
                 /\ built[Looked + 1] = Block.transitions[cursor.next]
                 /\ cursor' = Advanced(cursor.next) /\ chain' = chain => Looked' = Looked + 1
<1> DEFINE e == cursor.event
           i == cursor.next
           b == DeserializeBlock(chain[e])
           x == FirstBlocks(e - 1)
           y == b.transitions
           z == FirstBlocks(e)
<1>1. /\ chain \in Seq(Coded) /\ Len(chain) \in Nat /\ e \in 1..(Len(chain) + 1) /\ i \in Nat
      /\ Len(built) \in Nat
  BY DEF TypeInv, QueueTyped, CursorTyped
<1>2. Looked = Len(x) + (IF i = 0 THEN 0 ELSE i - 1)
  BY DEF Looked, FirstBlocks
<1>3. CASE e \in 1..Len(chain)
  <2>1. /\ z = x \o y /\ z \in Seq(Payload) /\ x \in Seq(Payload) /\ y \in Seq(Payload)
        /\ Len(z) <= Len(built) /\ \A j \in 1..Len(z) : built[j] = z[j]
    BY <1>3, ChainBegins
  <2>0. i > 0 => /\ Block = b /\ i \in 1..Len(y)
                 /\ cursor = [event |-> e, next |-> i]
    BY AtCursor
  <2>2. Advanced(i) = IF i < Len(Block.transitions) THEN [cursor EXCEPT !.next = i + 1]
                      ELSE [event |-> e + 1, next |-> 0]
    BY DEF Advanced
  <2>3. ASSUME i > 0, cursor' = Advanced(i), chain' = chain
        PROVE  \/ i < Len(y) /\ Looked' = Len(x) + i
               \/ i = Len(y) /\ Looked' = Len(z)
    <3> HIDE DEF i, b
    <3>0. i \in 1..Len(y) /\ Len(y) \in Nat
      BY <2>0, <2>1, <2>3
    <3>1. CASE i < Len(y)
      <4>1. cursor'.event = e /\ cursor'.next = i + 1
        BY <2>0, <2>2, <2>3, <3>1
      <4>2. Looked' = Len(FirstBlocks(e - 1)) + (IF i + 1 = 0 THEN 0 ELSE (i + 1) - 1)
        BY <2>3, <4>1 DEF Looked, FirstBlocks
      <4>. QED  BY <3>0, <3>1, <4>2
    <3>2. CASE ~(i < Len(y))
      <4>1. cursor'.event = e + 1 /\ cursor'.next = 0
        BY <2>0, <2>2, <2>3, <3>2
      <4>2. Looked' = Len(FirstBlocks((e + 1) - 1)) + 0
        BY <2>3, <4>1 DEF Looked, FirstBlocks
      <4>3. (e + 1) - 1 = e
        BY <1>1
      <4>4. Len(z) \in Nat
        <5>1. \A w \in Seq(Payload) : Len(w) \in Nat
          OBVIOUS
        <5>. QED  BY <2>1, <5>1, Zenon
      <4> HIDE DEF e
      <4>5. Looked' = Len(z)
        BY <4>2, <4>3, <4>4
      <4>. QED  BY <3>0, <3>2, <4>5
    <3>. QED  BY <3>1, <3>2
  <2>31. i > 0 => i \in 1..Len(y) /\ Block.transitions[i] = y[i]
    BY <2>0
  <2> DEFINE p == Looked  q == Looked'  at == Block.transitions[i]
  <2>32. i > 0 /\ cursor' = Advanced(i) /\ chain' = chain =>
            \/ i < Len(y) /\ q = Len(x) + i
            \/ i = Len(y) /\ q = Len(z)
    BY <2>3
  <2>33. p = Len(x) + (IF i = 0 THEN 0 ELSE i - 1) /\ i \in Nat /\ Len(built) \in Nat
    BY <1>1, <1>2
  <2>34. i > 0 => i \in 1..Len(y) /\ at = y[i]
    BY <2>31
  <2> DEFINE moved == cursor' = Advanced(i) /\ chain' = chain
  <2>35. i > 0 /\ moved => \/ i < Len(y) /\ q = Len(x) + i
                           \/ i = Len(y) /\ q = Len(z)
    BY <2>32
  <2> HIDE DEF p, q, at, x, y, z, i, moved
  <2>4. Len(z) = Len(x) + Len(y) /\ Len(x) \in Nat /\ Len(y) \in Nat
        /\ \A j \in 1..Len(y) : z[Len(x) + j] = y[j]
    BY <2>1
  <2>5. p \in 0..Len(built)
    BY <2>1, <2>33, <2>34, <2>4
  <2>6. i > 0 => p + 1 \in 1..Len(built) /\ p + 1 = Len(x) + i /\ Len(x) + i \in 1..Len(z)
    BY <2>1, <2>33, <2>34, <2>4
  <2>7. i > 0 => built[p + 1] = at
    BY <2>1, <2>34, <2>4, <2>6
  <2>8. i > 0 /\ moved => q = p + 1
    BY <2>35, <2>4, <2>6
  <2>. QED  BY <1>1, <2>5, <2>6, <2>7, <2>8 DEF p, q, at, i, moved
<1>4. CASE e = Len(chain) + 1
  <2>1. ~(i > 0)
    BY <1>1, <1>4 DEF TypeInv, CursorTyped, AtTransition
  <2>2. Looked = Len(x)
    <3>1. i = 0
      BY <1>1, <2>1
    <3>2. Len(x) \in Nat
      <4>1. CASE Len(chain) = 0
        BY <1>4, <4>1, ChainBegins
      <4>2. CASE Len(chain) # 0
        BY <1>1, <1>4, <4>2, ChainBegins
      <4>. QED  BY <4>1, <4>2
    <3>. QED  BY <1>2, <3>1, <3>2
  <2>3. Len(x) \in 0..Len(built)
    <3>1. CASE Len(chain) = 0
      <4>1. x = <<>>
        BY <1>4, <3>1, ChainBegins
      <4>. QED  BY <1>1, <4>1
    <3>2. CASE Len(chain) # 0
      <4>1. Len(chain) \in 1..Len(chain) /\ e - 1 = Len(chain)
        BY <1>1, <1>4, <3>2
      <4>2. x \in Seq(Payload) /\ Len(x) <= Len(built)
        BY <4>1, ChainBegins
      <4>. QED  BY <1>1, <4>2
    <3>. QED  BY <3>1, <3>2
  <2>. QED  BY <1>1, <2>1, <2>2, <2>3
<1>. QED  BY <1>1, <1>3, <1>4

(* Blocks committed later do not change the first ones.                    *)
LEMMA DecodedBegins ==
    ASSUME NEW c \in Seq(Coded), NEW d \in Seq(Coded), NEW n \in Nat, n <= Len(c), n <= Len(d),
           \A i \in 1..n : c[i] = d[i]
    PROVE  SubSeq(Decoded(c), 1, n) = SubSeq(Decoded(d), 1, n)
<1> DEFINE C == Decoded(c)
           D == Decoded(d)
           x == SubSeq(C, 1, n)
           y == SubSeq(D, 1, n)
<1>1. /\ C \in Seq(PackedBlocks) /\ Len(C) = Len(c) /\ \A i \in 1..Len(c) : C[i] = DeserializeBlock(c[i])
      /\ D \in Seq(PackedBlocks) /\ Len(D) = Len(d) /\ \A i \in 1..Len(d) : D[i] = DeserializeBlock(d[i])
  BY QueueDecoded
<1>2. Len(c) \in Nat /\ Len(d) \in Nat
  OBVIOUS
<1> HIDE DEF C, D
<1>3. /\ x \in Seq(PackedBlocks) /\ Len(x) = n /\ \A i \in 1..n : x[i] = C[i]
      /\ y \in Seq(PackedBlocks) /\ Len(y) = n /\ \A i \in 1..n : y[i] = D[i]
  BY <1>1, <1>2
<1> HIDE DEF x, y
<1>4. \A i \in 1..n : x[i] = y[i]
  BY <1>1, <1>2, <1>3
<1>5. x = y
  BY <1>3, <1>4, SeqEqual
<1>. QED  BY <1>5 DEF x, y, C, D

-----------------------------------------------------------------------------
(* The validator follows the aggregator *)

(* S holds the states that the transitions trs lead through.               *)
Path(S, trs) ==
    /\ \A k \in 0..Len(trs) : Sound(S[k])
    /\ \A k \in 1..Len(trs) : Replays(S[k - 1], trs[k], S[k])

(* The aggregator is at the end of the path, the validator where it has    *)
(* looked to.                                                              *)
Follows(S) ==
    /\ Path(S, built)
    /\ aggStatus = "running" => S[Len(built)] = agg
    /\ WithTokens(val, Mapped) = S[Looked]

ReplayInv ==
    faults = {} =>
        /\ alarms = <<>> /\ skipped = {} /\ valStatus = "running"
        /\ IsState(val) /\ PartOfMapped(val.tokenIndex)
        /\ \E S : Follows(S)

(* A transition the validator can agree with extends the path.             *)
LEMMA PathGrows ==
    ASSUME TypeInv, NEW S, Path(S, built), S[Len(built)] = agg, NEW tx \in Txs,
           Accept(tx, ApplyTransaction(agg, tx)), Flaws(tx) = {}
    PROVE  \E T : /\ Path(T, built')
                  /\ T[Len(built')] = agg'
                  /\ \A k \in 0..Len(built) : T[k] = S[k]
<1> DEFINE u == ApplyTransaction(agg, tx)
           tr == TransitionOf(u, tx, fraudTransfer)
           n == Len(built)
           T == [k \in 0..(n + 1) |-> IF k <= n THEN S[k] ELSE agg']
<1>1. u.outcome = "ok" /\ agg' = u.st /\ built' = Append(built, tr)
  BY DEF Accept
<1>2. AggregatorTyped /\ built \in Seq(Payload) /\ fraudTransfer \in BOOLEAN
  BY DEF TypeInv, AggregatorTyped
<1>3. tx.type = "transfer" => ~fraudTransfer /\ HasAccount(agg, tx.sender)
  BY DEF Flaws
<1>4. n \in Nat /\ n \in 0..n
  BY <1>2
<1>5. Sound(agg)
  BY <1>4 DEF Path
<1>6. Sound(u.st) /\ Replays(agg, tr, u.st)
  BY <1>1, <1>2, <1>3, <1>5, Replayed
<1> HIDE DEF u, tr
<1>7. n + 1 \in Nat /\ Len(built') = n + 1 /\ built'[n + 1] = tr /\ \A k \in 1..n : built'[k] = built[k]
  BY <1>1, <1>2
<1>8. T[n + 1] = agg' /\ \A k \in 0..n : T[k] = S[k]
  BY <1>4
<1> HIDE DEF T, n
<1>9. \A k \in 0..(n + 1) : Sound(T[k])
  <2> SUFFICES ASSUME NEW k \in 0..(n + 1) PROVE Sound(T[k])
    OBVIOUS
  <2>1. CASE k = n + 1
    BY <1>1, <1>6, <1>8, <2>1
  <2>2. CASE k # n + 1
    <3>1. k \in 0..n
      BY <1>4, <2>2
    <3>. QED  BY <1>8, <3>1 DEF Path, n
  <2>. QED  BY <2>1, <2>2
<1>10. \A k \in 1..(n + 1) : Replays(T[k - 1], built'[k], T[k])
  <2> SUFFICES ASSUME NEW k \in 1..(n + 1) PROVE Replays(T[k - 1], built'[k], T[k])
    OBVIOUS
  <2>1. CASE k = n + 1
    <3>1. k - 1 = n
      BY <1>4, <2>1
    <3>2. T[k - 1] = agg /\ T[k] = u.st /\ built'[k] = tr
      BY <1>1, <1>4, <1>7, <1>8, <2>1, <3>1 DEF n
    <3>. QED  BY <1>6, <3>2
  <2>2. CASE k # n + 1
    <3>1. k \in 1..n /\ k - 1 \in 0..n /\ k \in 0..n
      BY <1>4, <2>2
    <3>2. Replays(S[k - 1], built[k], S[k])
      BY <3>1 DEF Path, n
    <3>. QED  BY <1>7, <1>8, <3>1, <3>2
  <2>. QED  BY <2>1, <2>2
<1>11. Path(T, built')
  BY <1>7, <1>9, <1>10 DEF Path
<1>12. T[Len(built')] = agg' /\ \A k \in 0..Len(built) : T[k] = S[k]
  BY <1>7, <1>8 DEF n
<1>. QED  BY <1>11, <1>12

(* What the aggregator does the validator can follow.                      *)
LEMMA ReplayTx ==
    ASSUME TypeInv, NothingLostOrRepeated, ReplayInv, NEW tx \in Txs, TxNext(tx)
    PROVE  ReplayInv'
<1>1. /\ UNCHANGED <<chain, valVars>> /\ faults \subseteq faults' /\ aggStatus = "running"
  BY DEF TxNext, Reject, Crash, Collect, Propose, ProposeFails, Accept
<1>2. SUFFICES ASSUME faults' = {} PROVE ReplayInv'
  BY DEF ReplayInv
<1>3. faults = {}
  BY <1>1, <1>2
<1>4. PICK S : Follows(S)
  BY <1>3 DEF ReplayInv
<1>5. Path(S, built) /\ S[Len(built)] = agg /\ WithTokens(val, Mapped) = S[Looked]
  BY <1>1, <1>4 DEF Follows
<1>6. Looked' = Looked /\ Looked \in 0..Len(built)
  BY <1>1, <1>3, LookedAt DEF Looked, valVars
<1>7. SUFFICES \E T : Follows(T)'
  BY <1>1, <1>3 DEF ReplayInv, valVars
<1>8. CASE Reject(tx) \/ Crash(tx)
  <2>1. built' = built
    BY <1>8 DEF Reject, Crash
  <2>2. aggStatus' = "running" => agg' = agg
    BY <1>2, <1>8 DEF Reject, Crash
  <2>. QED  BY <1>1, <1>5, <1>6, <2>1, <2>2 DEF Follows, Path, valVars
<1>9. CASE Collect(tx) \/ \E b \in BOOLEAN : Propose(tx, b) \/ ProposeFails(tx, b)
  <2>1. Accept(tx, ApplyTransaction(agg, tx)) /\ Flaws(tx) = {}
    BY <1>2, <1>9 DEF Collect, Propose, ProposeFails
  <2>2. PICK T : /\ Path(T, built')
                 /\ T[Len(built')] = agg'
                 /\ \A k \in 0..Len(built) : T[k] = S[k]
    BY <1>5, <2>1, PathGrows
  <2>3. WithTokens(val, Mapped)' = T[Looked']
    BY <1>1, <1>5, <1>6, <2>2 DEF valVars
  <2>. QED  BY <2>2, <2>3 DEF Follows
<1>. QED  BY <1>8, <1>9 DEF TxNext

(* What the chain and the token watcher do does not move it.               *)
LEMMA ReplayKept ==
    ASSUME TypeInv, NothingLostOrRepeated, ReplayInv,
           UNCHANGED <<agg, aggStatus, built, valStatus, alarms, skipped>>,
           faults \subseteq faults', faults = {} => Looked' = Looked,
           IsState(val) /\ PartOfMapped(val.tokenIndex) =>
              /\ IsState(val') /\ PartOfMapped(val'.tokenIndex)
              /\ WithTokens(val', Mapped) = WithTokens(val, Mapped)
    PROVE  ReplayInv'
<1>1. SUFFICES ASSUME faults' = {} PROVE ReplayInv'
  BY DEF ReplayInv
<1>2. faults = {}
  BY <1>1
<1>3. PICK S : Follows(S)
  BY <1>2 DEF ReplayInv
<1>4. Follows(S)'
  BY <1>2, <1>3 DEF Follows, ReplayInv
<1>. QED  BY <1>2, <1>4 DEF ReplayInv

(* Committing a block.                                                     *)
LEMMA ReplayCommit ==
    ASSUME TypeInv, NothingLostOrRepeated, ReplayInv, CommitBlock
    PROVE  ReplayInv'
<1>1. /\ chain' = Append(chain, Head(proposals)) /\ proposals # <<>>
      /\ UNCHANGED <<aggVars, valVars, faults, built>>
  BY DEF CommitBlock
<1>2. chain \in Seq(Coded) /\ proposals \in Seq(Coded) /\ cursor.event \in 1..(Len(chain) + 1)
  BY DEF TypeInv, QueueTyped, CursorTyped
<1>3. /\ chain' \in Seq(Coded) /\ Len(chain) \in Nat /\ Len(chain') = Len(chain) + 1
      /\ \A i \in 1..Len(chain) : chain'[i] = chain[i]
  BY <1>1, <1>2
<1> DEFINE n == cursor.event - 1
<1>4. n \in Nat /\ n <= Len(chain) /\ n <= Len(chain') /\ \A i \in 1..n : chain[i] = chain'[i]
  BY <1>2, <1>3
<1> HIDE DEF n
<1>5. SubSeq(Decoded(chain), 1, n) = SubSeq(Decoded(chain'), 1, n)
  BY <1>2, <1>3, <1>4, DecodedBegins
<1>6. Looked' = Looked
  BY <1>1, <1>5 DEF Looked, valVars, n
<1>. QED  BY <1>1, <1>6, ReplayKept DEF aggVars, valVars

(* Receiving a block: the validator is before its first transition.        *)
LEMMA ReplayReceive ==
    ASSUME TypeInv, NothingLostOrRepeated, ReplayInv, ReceiveBlock
    PROVE  ReplayInv'
<1>1. /\ cursor.next = 0 /\ cursor' = [cursor EXCEPT !.next = 1]
      /\ UNCHANGED <<aggVars, chain, val, valStatus, alarms, skipped, faults, built>>
  BY DEF ReceiveBlock
<1>2. cursor'.event = cursor.event /\ cursor'.next = 1
  BY <1>1 DEF TypeInv, CursorTyped
<1>3. Looked = Len(FirstBlocks(cursor.event - 1)) + 0
  BY <1>1 DEF Looked, FirstBlocks
<1>4. Looked' = Len(FirstBlocks(cursor.event - 1)) + 0
  BY <1>1, <1>2 DEF Looked, FirstBlocks
<1>. QED  BY <1>1, <1>3, <1>4, ReplayKept DEF aggVars

(* Learning of a token: a validator that knows them all is the same.       *)
LEMMA ReplayObserve ==
    ASSUME TypeInv, NothingLostOrRepeated, ReplayInv, NEW i \in DOMAIN TokenOrder, ObserveToken(i)
    PROVE  ReplayInv'
<1> DEFINE t == TokenOrder[i]
           ti == val.tokenIndex
           more == Put(ti, t, i - 1)
<1>1. val' = WithTokens(val, more)
  BY DEF ObserveToken, WithTokens
<1>2. UNCHANGED <<aggVars, chain, cursor, valStatus, alarms, skipped, faults, built>>
  BY DEF ObserveToken
<1>3. t \in DOMAIN Mapped /\ Mapped[t] = i - 1
  BY MappedTyped
<1> HIDE DEF t
<1>4. PartOfMapped(ti) => PartOfMapped(more)
  BY <1>3 DEF PartOfMapped, Put
<1>5. IsState(val) => /\ IsState(val') /\ val'.tokenIndex = more
                      /\ WithTokens(val', Mapped) = WithTokens(val, Mapped)
  <2> HIDE DEF more
  <2>. QED  BY <1>1, TokenFields
<1>6. Looked' = Looked
  BY <1>2 DEF Looked
<1>. QED  BY <1>2, <1>4, <1>5, <1>6, ReplayKept DEF aggVars

(* Validating: what is replayed is the next transition of the path.        *)
LEMMA ReplayValidate ==
    ASSUME TypeInv, NothingLostOrRepeated, ReplayInv, ValidateOne
    PROVE  ReplayInv'
<1>0. /\ Validating
      /\ \/ ValidatePasses(Result) \/ ValidateErrors(Result) \/ RaiseAlarm(Result, TRUE)
         \/ RaiseAlarm(Result, FALSE) \/ AbandonBlock(Result) \/ ValidatorPanics(Result)
  BY DEF ValidateOne
<1>1. SUFFICES ASSUME faults' = {} PROVE ReplayInv'
  BY DEF ReplayInv
<1>2. faults = {} /\ cursor.next > 0
  BY <1>0, <1>1 DEF ValidatePasses, ValidateErrors, RaiseAlarm, AbandonBlock, ValidatorPanics, Validating
<1>3. /\ alarms = <<>> /\ skipped = {} /\ valStatus = "running"
      /\ IsState(val) /\ PartOfMapped(val.tokenIndex)
  BY <1>2 DEF ReplayInv
<1>4. PICK S : Follows(S)
  BY <1>2 DEF ReplayInv
<1> DEFINE n == Looked
           ti == val.tokenIndex
           tr == Block.transitions[cursor.next]
<1>5. n \in 0..Len(built) /\ n + 1 \in 1..Len(built) /\ n + 1 \in 0..Len(built) /\ (n + 1) - 1 = n
      /\ built[n + 1] = tr
      /\ (cursor' = Advanced(cursor.next) /\ chain' = chain => Looked' = n + 1)
  BY <1>2, LookedAt
<1>6. Replays(S[n], tr, S[n + 1]) /\ Sound(S[n + 1]) /\ S[n] = WithTokens(val, Mapped)
  BY <1>4, <1>5 DEF Follows, Path
<1>7. ReplaysKnowing(S[n], tr, S[n + 1], ti)
  BY <1>3, <1>6 DEF Replays
<1>8. WithTokens(S[n], ti) = val
  BY <1>3, <1>6, TokenFields
<1>9. Result = ValidateTransition(val, tr)
  BY DEF Result
<1> DEFINE next == S[n + 1]
<1> HIDE DEF n, tr, next
<1>10. IF TokenAtIndex(val, tr.tokenIndex) = {} THEN Result.verdict = "error"
       ELSE Result.verdict = "valid" /\ Result.st = WithTokens(next, ti)
  BY <1>7, <1>8, <1>9 DEF ReplaysKnowing, next
<1>11. CASE TokenAtIndex(val, tr.tokenIndex) = {}
  <2>1. Result.verdict = "error"
    BY <1>10, <1>11
  <2> HIDE DEF Result
  <2>2. ValidateErrors(Result)
    BY <1>0, <2>1 DEF ValidatePasses, RaiseAlarm, AbandonBlock, ValidatorPanics, Crashes
  <2>3. faults' # {}
    BY <1>11, <2>2 DEF ValidateErrors, tr
  <2>. QED  BY <1>1, <2>3
<1>12. CASE TokenAtIndex(val, tr.tokenIndex) # {}
  <2>1. Result.verdict = "valid" /\ Result.st = WithTokens(next, ti)
    BY <1>10, <1>12
  <2> HIDE DEF Result
  <2>2. ValidatePasses(Result)
    BY <1>0, <2>1 DEF ValidateErrors, RaiseAlarm, AbandonBlock, ValidatorPanics, Crashes
  <2>3. /\ val' = WithTokens(next, ti) /\ cursor' = Advanced(cursor.next)
        /\ UNCHANGED <<aggVars, chain, valStatus, alarms, skipped, built>>
    BY <2>1, <2>2 DEF ValidatePasses
  <2>4. Looked' = n + 1
    BY <1>5, <2>3 DEF n
  <2>5. IsState(next) /\ next.tokenIndex = Mapped
    BY <1>6 DEF Sound, next
  <2>6. /\ IsState(val') /\ val'.tokenIndex = ti
        /\ WithTokens(val', Mapped) = WithTokens(next, Mapped) /\ WithTokens(next, Mapped) = next
    BY <2>3, <2>5, TokenFields
  <2>7. WithTokens(val', Mapped) = S[Looked']
    BY <2>4, <2>6 DEF next
  <2>8. Follows(S)'
    BY <1>4, <2>3, <2>7 DEF Follows, aggVars
  <2>. QED  BY <1>3, <2>3, <2>6, <2>8 DEF ReplayInv
<1>. QED  BY <1>11, <1>12

(* Every step.                                                             *)
LEMMA ReplayNext == TypeInv /\ NothingLostOrRepeated /\ ReplayInv /\ [Next]_vars => ReplayInv'
<1> SUFFICES ASSUME TypeInv, NothingLostOrRepeated, ReplayInv, [Next]_vars PROVE ReplayInv'
  OBVIOUS
<1>1. CASE RestartAggregator \/ CommitFails \/ RestartValidator
  <2>1. faults' # {}
    BY <1>1 DEF RestartAggregator, CommitFails, RestartValidator
  <2>. QED  BY <2>1 DEF ReplayInv
<1>2. CASE UNCHANGED vars
  <2>1. UNCHANGED <<agg, aggStatus, built, val, valStatus, alarms, skipped, faults, chain, cursor>>
    BY <1>2 DEF vars, aggVars, valVars
  <2>2. Looked' = Looked
    BY <2>1 DEF Looked
  <2>. QED  BY <2>1, <2>2, ReplayKept
<1>. QED  BY <1>1, <1>2, TxsOfAggregator, ReplayTx, ReplayCommit, ReplayReceive, ReplayObserve, ReplayValidate
          DEF Next, ValidateNext

(* Nothing is built at first: the path is the empty state.                 *)
LEMMA ReplayInit == Init => ReplayInv
<1> SUFFICES ASSUME Init PROVE ReplayInv
  OBVIOUS
<1>1. /\ agg = WithTokens(InitState, Mapped) /\ val = InitState /\ built = <<>> /\ chain = <<>>
      /\ cursor = [event |-> 1, next |-> 0]
      /\ alarms = <<>> /\ skipped = {} /\ valStatus = "running"
  BY DEF Init, WithTokens
<1>2. /\ InitState = StateOf(-1, EmptyTable, EmptyTable, EmptyTable, EmptyTable)
      /\ IsState(InitState)
  <2>1. InitState = StateOf(-1, EmptyTable, EmptyTable, EmptyTable, EmptyTable)
    BY DEF InitState, StateOf
  <2>. QED  BY <2>1, StateFields
<1>3. IsState(val) /\ val.tokenIndex = EmptyTable /\ PartOfMapped(val.tokenIndex)
  <2>1. val.tokenIndex = EmptyTable
    BY <1>1, <1>2, StateFields
  <2>2. PartOfMapped(EmptyTable)
    BY DEF PartOfMapped, EmptyTable
  <2>. QED  BY <1>1, <1>2, <2>1, <2>2
<1>4. Sound(agg)
  <2>1. Consistent(agg) /\ IsState(agg)
    BY TypeInit DEF TypeInv, AggregatorTyped
  <2>2. agg = StateOf(-1, EmptyTable, EmptyTable, Mapped, EmptyTable)
    BY <1>1, <1>2, StateFields
  <2>3. agg.trie = EmptyTable /\ agg.infoAt = EmptyTable /\ agg.tokenIndex = Mapped
    BY <2>2, StateFields
  <2>. QED  BY <2>1, <2>3 DEF Sound
<1>5. Looked = 0 /\ Len(built) = 0
  <2>1. Decoded(chain) = <<>>
    BY <1>1 DEF Decoded
  <2>2. SubSeq(<<>>, 1, 0) = <<>>
    OBVIOUS
  <2>3. cursor.event - 1 = 0 /\ cursor.next = 0
    BY <1>1
  <2>4. Flatten(SubSeq(Decoded(chain), 1, cursor.event - 1)) = <<>>
    BY <2>1, <2>2, <2>3, FlattenAppend
  <2>. QED  BY <1>1, <2>3, <2>4 DEF Looked
<1> DEFINE S == [k \in {0} |-> agg]
<1>6. S[0] = agg
  OBVIOUS
<1> HIDE DEF S
<1>7. Path(S, built)
  BY <1>4, <1>5, <1>6 DEF Path
<1>8. WithTokens(val, Mapped) = S[Looked]
  BY <1>1, <1>5, <1>6
<1>9. Follows(S)
  BY <1>5, <1>6, <1>7, <1>8 DEF Follows
<1>. QED  BY <1>1, <1>3, <1>9 DEF ReplayInv

(* The validator submits a fraud proof, passes over a transition or        *)
(* crashes only after something it cannot agree with was built or the      *)
(* environment failed.                                                     *)
THEOREM Unprovoked == Spec => []NoFalseAlarm
<1>1. ReplayInv => NoFalseAlarm
  BY DEF ReplayInv, NoFalseAlarm
<1>. QED  BY <1>1, TypeInit, TypeNext, CutInit, CutNext, ReplayInit, ReplayNext, PTL DEF Spec

-----------------------------------------------------------------------------
(* Replaying all that remains *)

(* One transition more.                                                    *)
ReplayOne(before, tr) ==
    LET result == ValidateTransition(before.st, tr)
    IN  [ok |-> before.ok /\ result.verdict = "valid", st |-> result.st]

(* Replaying transitions that lead through the states of S, each of them   *)
(* valid, ends in the last of these states.                                *)
LEMMA ReplayAlong ==
    ASSUME NEW trs, Len(trs) \in Nat, NEW S,
           \A k \in 1..Len(trs) : /\ ValidateTransition(S[k - 1], trs[k]).verdict = "valid"
                                  /\ ValidateTransition(S[k - 1], trs[k]).st = S[k]
    PROVE  Replay(S[0], trs).ok /\ Replay(S[0], trs).st = S[Len(trs)]
<1> DEFINE m == Len(trs)
           rec(f) == [n \in 0..m |-> IF n = 0 THEN [ok |-> TRUE, st |-> S[0]] ELSE ReplayOne(f[n - 1], trs[n])]
           Is(f) == f = rec(f)
           g == [n \in 0..m |-> [ok |-> TRUE, st |-> S[n]]]
<1>1. ASSUME NEW k \in 1..m PROVE ReplayOne([ok |-> TRUE, st |-> S[k - 1]], trs[k]) = [ok |-> TRUE, st |-> S[k]]
  <2> DEFINE result == ValidateTransition(S[k - 1], trs[k])
  <2>1. result.verdict = "valid" /\ result.st = S[k]
    OBVIOUS
  <2>2. ReplayOne([ok |-> TRUE, st |-> S[k - 1]], trs[k]) =
            [ok |-> TRUE /\ result.verdict = "valid", st |-> result.st]
    BY DEF ReplayOne
  <2> HIDE DEF result
  <2>. QED  BY <2>1, <2>2
<1>2. \A k \in 0..m : g[k] = [ok |-> TRUE, st |-> S[k]]
  OBVIOUS
<1>3. Is(g)
  <2>1. ASSUME NEW n \in 0..m PROVE g[n] = rec(g)[n]
    <3>1. CASE n = 0
      BY <1>2, <3>1
    <3>2. CASE n # 0
      <4>1. n \in 1..m /\ n - 1 \in 0..m
        BY <3>2
      <4> HIDE DEF g
      <4>2. rec(g)[n] = ReplayOne(g[n - 1], trs[n])
        BY <3>2
      <4>. QED  BY <1>1, <1>2, <4>1, <4>2
    <3>. QED  BY <3>1, <3>2
  <2>2. g = [n \in 0..m |-> g[n]]
    OBVIOUS
  <2> HIDE DEF g
  <2>. QED  BY <2>1, <2>2
<1> HIDE DEF g
<1>4. \A f : Is(f) => f = g
  <2> SUFFICES ASSUME NEW f, Is(f) PROVE f = g
    BY ZenonT(10)
  <2> DEFINE E == { n \in 0..m : f[n] = g[n] }
  <2>1. 0 \in E
    BY <1>2
  <2>2. ASSUME NEW n \in 0..(m - 1), n \in E PROVE n + 1 \in E
    <3>1. n + 1 \in 1..m /\ n + 1 \in 0..m /\ n + 1 # 0 /\ (n + 1) - 1 = n /\ n \in 0..m
      OBVIOUS
    <3>2. f[n + 1] = ReplayOne(f[n], trs[n + 1])
      BY <3>1
    <3>3. f[n] = [ok |-> TRUE, st |-> S[n]]
      BY <1>2, <2>2, <3>1
    <3>4. g[n + 1] = ReplayOne([ok |-> TRUE, st |-> S[n]], trs[n + 1])
      BY <1>1, <1>2, <3>1
    <3>. QED  BY <3>1, <3>2, <3>3, <3>4
  <2>3. \A n \in 0..m : n \in E
    <3> HIDE DEF E
    <3>. QED  BY <2>1, <2>2, InductionTo
  <2>4. DOMAIN f = 0..m /\ f = [n \in 0..m |-> f[n]]
    OBVIOUS
  <2>5. DOMAIN g = 0..m /\ g = [n \in 0..m |-> g[n]]
    BY DEF g
  <2>. QED  BY <2>3, <2>4, <2>5
<1>5. Replay(S[0], trs) = g[m]
  <2>1. Replay(S[0], trs) = (CHOOSE f : Is(f))[m]
    BY DEF Replay, ReplayOne
  <2> HIDE DEF Is
  <2>. QED  BY <1>3, <1>4, <2>1
<1>6. g[m] = [ok |-> TRUE, st |-> S[m]]
  BY <1>2
<1> HIDE DEF m
<1>7. Replay(S[0], trs) = [ok |-> TRUE, st |-> S[m]]
  BY <1>5, <1>6
<1>. QED  BY <1>7 DEF m

(* On the path, what remains leads from the validator to the aggregator.   *)
LEMMA RemainingReaches ==
    ASSUME TypeInv, NothingLostOrRepeated, ReplayInv, faults = {}, aggStatus = "running"
    PROVE  Replay(Informed, Remaining).ok /\ Replay(Informed, Remaining).st = agg
<1>1. PICK S : Follows(S)
  BY DEF ReplayInv
<1>2. Path(S, built) /\ S[Len(built)] = agg /\ WithTokens(val, Mapped) = S[Looked]
  BY <1>1 DEF Follows
<1>3. built \in Seq(Payload) /\ Flatten(AllBlocks) = built
  BY DEF TypeInv, NothingLostOrRepeated
<1>4. Looked \in 0..Len(built) /\ Len(built) \in Nat
  BY LookedAt
<1> DEFINE n == Looked
           m == Len(built) - n
           trs == SubSeq(built, n + 1, Len(built))
           T == [k \in 0..m |-> S[n + k]]
<1>5. Informed = WithTokens(val, Mapped)
  BY DEF Informed, WithTokens
<1>6. Remaining = trs
  BY <1>3 DEF Remaining
<1> HIDE DEF n
<1>7. n \in 0..Len(built) /\ m \in Nat /\ n + m = Len(built)
  BY <1>4 DEF n
<1>8. Len(trs) = m /\ \A k \in 1..m : trs[k] = built[n + k]
  <2> DEFINE all == built  last == Len(built)
  <2>1. all \in Seq(Payload) /\ Len(all) = last
    BY <1>3
  <2> HIDE DEF all, last
  <2>2. last \in Nat /\ n \in 0..last
    BY <1>4, <1>7 DEF last
  <2>3. n + 1 \in 1..(last + 1) /\ last - (n + 1) + 1 = last - n
    BY <2>2
  <2>4. Len(SubSeq(all, n + 1, last)) = last - n
    BY <2>1, <2>2, <2>3
  <2>5. ASSUME NEW k \in 1..(last - n) PROVE SubSeq(all, n + 1, last)[k] = all[n + k]
    <3>1. (n + 1) + k - 1 = n + k
      BY <2>2
    <3>. QED  BY <2>1, <2>2, <2>3, <3>1
  <2>. QED  BY <2>4, <2>5 DEF all, last
<1> HIDE DEF trs, m
<1>9. T[0] = S[n] /\ T[m] = agg /\ \A k \in 0..m : T[k] = S[n + k]
  BY <1>2, <1>7
<1> HIDE DEF T
<1>10. ASSUME NEW k \in 1..m
       PROVE  /\ ValidateTransition(T[k - 1], trs[k]).verdict = "valid"
              /\ ValidateTransition(T[k - 1], trs[k]).st = T[k]
  <2> DEFINE x == S[n + k - 1]
             y == S[n + k]
             tr == built[n + k]
  <2>1. n + k \in 1..Len(built) /\ (n + k) - 1 \in 0..Len(built) /\ n + k \in 0..Len(built)
        /\ n + (k - 1) = (n + k) - 1 /\ k - 1 \in 0..m /\ k \in 0..m
    BY <1>4, <1>7
  <2>2. Sound(x) /\ Sound(y) /\ Replays(x, tr, y)
    BY <1>2, <2>1 DEF Path
  <2>3. T[k - 1] = x /\ T[k] = y /\ trs[k] = tr
    BY <1>8, <1>9, <2>1
  <2> HIDE DEF x, y, tr
  <2>4. WithTokens(x, Mapped) = x /\ WithTokens(y, Mapped) = y /\ x.tokenIndex = Mapped
    BY <2>2, TokenFields DEF Sound
  <2>5. PartOfMapped(Mapped)
    BY MappedTyped DEF PartOfMapped
  <2>6. ReplaysKnowing(x, tr, y, Mapped)
    BY <2>2, <2>5 DEF Replays
  <2>7. TokenAtIndex(x, tr.tokenIndex) # {}
    BY <2>2, <2>4 DEF Replays, TokenAtIndex
  <2>. QED  BY <2>3, <2>4, <2>6, <2>7 DEF ReplaysKnowing
<1>11. Replay(T[0], trs).ok /\ Replay(T[0], trs).st = T[m]
  BY <1>7, <1>8, <1>10, ReplayAlong
<1>. QED  BY <1>2, <1>5, <1>6, <1>9, <1>11 DEF n

(* Until something goes wrong, replaying what is committed, proposed and   *)
(* pending and not looked at yet is valid, transition by transition, and   *)
(* ends in exactly the aggregator's tables and tree.                       *)
THEOREM Reaches == Spec => []ReplayReachesAggregator
<1>1. TypeInv /\ NothingLostOrRepeated /\ ReplayInv => ReplayReachesAggregator
  BY RemainingReaches DEF ReplayReachesAggregator
<1>. QED  BY <1>1, TypeInit, TypeNext, CutInit, CutNext, ReplayInit, ReplayNext, PTL DEF Spec
=============================================================================
