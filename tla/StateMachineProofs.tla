------------------------- MODULE StateMachineProofs -------------------------
(***************************************************************************)
(* What holds of StateMachine for every set of accounts, tokens, amounts   *)
(* and nonces and without bound on the transactions and restarts: the      *)
(* safety properties of the module, and that its tables implement Ledger.  *)
(*                                                                         *)
(* The inductive invariant IInv adds to the properties themselves what     *)
(* they need to survive a step: the token table repeats the numbering of   *)
(* the registry contract, so two tokens never share a position; a position *)
(* without a token is empty, so a token that is observed late starts from  *)
(* zero; and the tree is complete until the first restart.                 *)
(***************************************************************************)
EXTENDS StateMachine, OperatorProofs

-----------------------------------------------------------------------------
(* The inductive invariant *)

TrieComplete == restarts = 0 /\ status = "running" => DOMAIN st.trie = DOMAIN st.infoAt

IInv == TypeOK /\ TablesInv(st, registry, spent) /\ TrieComplete

-----------------------------------------------------------------------------
(* One lemma for each action *)

(* A used up nonce joins the others.                                       *)
LEMMA SpendKeepsTablesInv ==
    ASSUME NEW s, NEW reg, NEW sp, TablesInv(s, reg, sp),
           NEW a \in Accounts, NEW t \in DOMAIN s.tokenIndex,
           NEW kind \in {"transfer", "withdraw"}, NEW n \in Nat,
           n < IF kind = "transfer" THEN TNonce(s, a, Slot(s, t)) ELSE WNonce(s, a, Slot(s, t))
    PROVE  TablesInv(s, reg, sp \cup {SpentNonce(a, t, kind, n)})
<1> DEFINE x == SpentNonce(a, t, kind, n)
<1>1. x.account = a /\ x.token = t /\ x.kind = kind /\ x.nonce = n
    BY DEF SpentNonce
<1> HIDE DEF x
<1>2. n < StoredNonce(s, x)
    BY <1>1 DEF StoredNonce
<1>3. NoncesPassed(s, sp \cup {x})
    BY <1>1, <1>2 DEF TablesInv, NoncesPassed
<1> QED  BY <1>3 DEF TablesInv, x

(* The initial state.                                                      *)
LEMMA InitIInv == Init => IInv
<1> SUFFICES ASSUME Init PROVE IInv
    OBVIOUS
<1> USE DEF Init
<1>1. /\ DOMAIN st = {"lastKey", "keyOf", "infoAt", "tokenIndex", "trie"}
      /\ st.lastKey = -1
      /\ st.keyOf = EmptyTable
      /\ st.infoAt = EmptyTable
      /\ st.tokenIndex = EmptyTable
      /\ st.trie = EmptyTable
    BY DEF InitState
<1>2. DOMAIN EmptyTable = {} /\ \A S : EmptyTable \in [DOMAIN EmptyTable -> S]
    BY EmptyTableProperties
<1>3. 0..(-1) = {}
    OBVIOUS
<1>4. Consistent(st)
    BY <1>1, <1>2, <1>3 DEF Consistent, TablesTyped, SlotsAssigned, TrieAgrees
<1>5. UnmappedEmpty(st)
    BY <1>1, <1>2 DEF UnmappedEmpty, EmptyAt, Bal, TNonce, WNonce, HasAccount
<1>6. TablesInv(st, registry, spent)
    BY <1>1, <1>2, <1>4, <1>5 DEF TablesInv, Numbered, NoncesPassed
<1>7. TypeOK
    BY <1>4 DEF TypeOK, Consistent
<1>8. TrieComplete
    BY <1>1 DEF TrieComplete
<1> QED  BY <1>6, <1>7, <1>8 DEF IInv

(* A step of the process that Grows the tables, keeps the tree complete    *)
(* when the process goes on running, and keeps the types of the rest.      *)
LEMMA GrowsKeepsIInv ==
    ASSUME IInv, Grows(st', st),
           registry' = registry, spent' = spent,
           status' \in {"running", "down", "panicked"},
           supply' \in [Tokens -> Int], drift' \in [Tokens -> Int],
           numTx' \in Nat, restarts' = restarts,
           status' = "running" => status = "running" /\ Extends(st', st)
    PROVE  IInv'
<1>1. TablesInv(st', registry', spent')
    BY GrowsKeepsTablesInv DEF IInv
<1>2. TypeOK'
    BY <1>1 DEF IInv, TypeOK, TablesInv, Consistent
<1>3. TrieComplete'
    BY DEF IInv, TrieComplete, Extends
<1> QED  BY <1>1, <1>2, <1>3 DEF IInv

(* The same when a nonce is used up.                                       *)
LEMMA SpendingKeepsIInv ==
    ASSUME IInv, Grows(st', st),
           NEW a \in Accounts, NEW t, TokenMapped(st, t),
           NEW kind \in {"transfer", "withdraw"}, NEW n \in Nat,
           n < IF kind = "transfer" THEN TNonce(st', a, Slot(st, t))
                                    ELSE WNonce(st', a, Slot(st, t)),
           spent' = spent \cup {SpentNonce(a, t, kind, n)},
           registry' = registry,
           status' \in {"running", "down", "panicked"},
           supply' \in [Tokens -> Int], drift' \in [Tokens -> Int],
           numTx' \in Nat, restarts' = restarts,
           status' = "running" => status = "running" /\ Extends(st', st)
    PROVE  IInv'
<1>1. TablesInv(st', registry, spent)
    BY GrowsKeepsTablesInv DEF IInv
<1>2. st'.tokenIndex = st.tokenIndex
    BY DEF Grows
<1>3. t \in DOMAIN st'.tokenIndex /\ Slot(st', t) = Slot(st, t)
    BY <1>2 DEF TokenMapped, Slot
<1>4. TablesInv(st', registry', spent')
    BY <1>1, <1>3, SpendKeepsTablesInv
<1>5. TypeOK'
    BY <1>4 DEF IInv, TypeOK, TablesInv, Consistent
<1>6. TrieComplete'
    BY DEF IInv, TrieComplete, Extends
<1> QED  BY <1>4, <1>5, <1>6 DEF IInv

(* RegisterToken *)
LEMMA RegisterTokenIInv ==
    ASSUME IInv, NEW t \in Tokens, RegisterToken(t)
    PROVE  IInv'
<1> USE DEF RegisterToken, history
<1>1. registry \in Seq(Tokens) /\ registry' = Append(registry, t)
    BY DEF IInv, TypeOK
<1>2. TablesInv(st', registry', spent')
    BY <1>1, RegistryAppend DEF IInv
<1>3. registry' \in Seq(Tokens)
    BY <1>1
<1>4. TypeOK'
    BY <1>3 DEF IInv, TypeOK
<1> QED  BY <1>2, <1>4 DEF IInv, TrieComplete

(* ObserveToken *)
LEMMA ObserveTokenIInv ==
    ASSUME IInv, NEW i \in DOMAIN registry, ObserveToken(i)
    PROVE  IInv'
<1> DEFINE t == registry[i]
           n == i - 1
<1>1. registry \in Seq(Tokens) /\ TablesInv(st, registry, spent) /\ Consistent(st)
    BY DEF IInv, TypeOK, TablesInv
<1>2. t \in Tokens /\ n \in Nat /\ n + 1 = i
    BY <1>1
<1>3. st' = Observed(st, t, n) /\ ~TokenMapped(st, t) /\ registry[n + 1] = t /\ n + 1 \in DOMAIN registry
    BY <1>2 DEF ObserveToken, Observed
<1>4. UNCHANGED <<status, registry, supply, drift, spent, numTx, restarts>>
    BY DEF ObserveToken, history
<1> HIDE DEF t, n
<1>5. TablesInv(st', registry', spent')
    BY <1>1, <1>2, <1>3, <1>4, ObservedKeepsTablesInv
<1>6. st'.infoAt = st.infoAt /\ st'.trie = st.trie
    BY <1>1, <1>2, <1>3, ObservedProperties
<1>7. TypeOK'
    BY <1>4, <1>5 DEF IInv, TypeOK, TablesInv, Consistent
<1>8. TrieComplete'
    BY <1>4, <1>6 DEF IInv, TrieComplete
<1> QED  BY <1>5, <1>7, <1>8 DEF IInv

(* Deposit *)
LEMMA DepositIInv ==
    ASSUME IInv, NEW tx, tx.account \in Accounts, tx.token \in Tokens, tx.amount \in Nat,
           Deposit(tx)
    PROVE  IInv'
<1>1. Consistent(st) /\ TypeOK
    BY DEF IInv, TablesInv
<1>2. Grows(st', st) /\ Extends(st', st)
    BY <1>1, DepositedGrows DEF Deposit
<1>3. /\ supply' \in [Tokens -> Int]
      /\ drift' \in [Tokens -> Int]
      /\ numTx' \in Nat
      /\ UNCHANGED <<status, registry, spent, restarts>>
      /\ status = "running"
    BY <1>1 DEF Deposit, Ready, TypeOK
<1> QED  BY <1>2, <1>3, GrowsKeepsIInv

(* Withdraw *)
LEMMA WithdrawIInv ==
    ASSUME IInv, NEW tx, tx.account \in Accounts, tx.token \in Tokens, tx.amount \in Nat,
           Withdraw(tx)
    PROVE  IInv'
<1>1. Consistent(st) /\ TypeOK
    BY DEF IInv, TablesInv
<1>2. /\ Grows(st', st) /\ Extends(st', st)
      /\ tx.nonce \in Nat
      /\ tx.nonce < WNonce(st', tx.account, Slot(st, tx.token))
    BY <1>1, WithdrawnGrows DEF Withdraw
<1>3. TokenMapped(st, tx.token)
    BY DEF Withdraw, WithdrawAccepted
<1>4. /\ supply' \in [Tokens -> Int]
      /\ drift' \in [Tokens -> Int]
      /\ numTx' \in Nat
      /\ UNCHANGED <<status, registry, restarts>>
      /\ status = "running"
      /\ spent' = spent \cup {SpentNonce(tx.account, tx.token, "withdraw", tx.nonce)}
    BY <1>1 DEF Withdraw, Ready, TypeOK
<1>5. "withdraw" \in {"transfer", "withdraw"} /\ "withdraw" # "transfer"
    OBVIOUS
<1> QED  BY <1>2, <1>3, <1>4, <1>5, SpendingKeepsIInv

(* Transfer *)
LEMMA TransferIInv ==
    ASSUME IInv, NEW tx, tx.sender \in Accounts, tx.recipient \in Accounts,
           tx.token \in Tokens, tx.amount \in Nat, Transfer(tx)
    PROVE  IInv'
<1>1. Consistent(st) /\ TypeOK
    BY DEF IInv, TablesInv
<1>2. /\ Grows(st', st) /\ Extends(st', st)
      /\ tx.nonce \in Nat
      /\ tx.nonce < TNonce(st', tx.sender, Slot(st, tx.token))
    BY <1>1, TransferredGrows DEF Transfer
<1>3. TokenMapped(st, tx.token)
    BY DEF Transfer, TransferAccepted
<1>4. /\ supply' \in [Tokens -> Int]
      /\ drift' \in [Tokens -> Int]
      /\ numTx' \in Nat
      /\ UNCHANGED <<status, registry, restarts>>
      /\ status = "running"
      /\ spent' = spent \cup {SpentNonce(tx.sender, tx.token, "transfer", tx.nonce)}
    BY <1>1 DEF Transfer, Ready, TypeOK
<1>5. "transfer" \in {"transfer", "withdraw"}
    OBVIOUS
<1> QED  BY <1>2, <1>3, <1>4, <1>5, SpendingKeepsIInv

(* SelfTransfer *)
LEMMA SelfTransferIInv ==
    ASSUME IInv, NEW tx, tx.sender \in Accounts, tx.recipient \in Accounts,
           tx.token \in Tokens, tx.amount \in Nat, SelfTransfer(tx)
    PROVE  IInv'
<1>1. Consistent(st) /\ TypeOK
    BY DEF IInv, TablesInv
<1>2. Grows(st', st) /\ Extends(st', st)
    BY <1>1, SelfTransferredGrows DEF SelfTransfer
<1>3. /\ supply' \in [Tokens -> Int]
      /\ drift' \in [Tokens -> Int]
      /\ numTx' \in Nat
      /\ UNCHANGED <<status, registry, spent, restarts>>
      /\ status = "running"
    BY <1>1 DEF SelfTransfer, Ready, TypeOK
<1> QED  BY <1>2, <1>3, GrowsKeepsIInv

(* RejectTransfer *)
LEMMA RejectTransferIInv ==
    ASSUME IInv, NEW tx, tx.recipient \in Accounts, RejectTransfer(tx)
    PROVE  IInv'
<1>1. Consistent(st) /\ TypeOK
    BY DEF IInv, TablesInv
<1>2. Grows(st', st) /\ Extends(st', st)
    BY <1>1, RecipientReadyGrows DEF RejectTransfer
<1>3. UNCHANGED <<status, registry, supply, drift, spent, numTx, restarts>>
      /\ status = "running"
    BY DEF RejectTransfer, Ready, history
<1> QED  BY <1>1, <1>2, <1>3, GrowsKeepsIInv DEF TypeOK

(* Panic *)
LEMMA PanicIInv ==
    ASSUME IInv, NEW tx, tx.recipient \in Accounts, Panic(tx)
    PROVE  IInv'
<1>1. Consistent(st) /\ TypeOK
    BY DEF IInv, TablesInv
<1>2. Grows(st', st)
    BY <1>1, RecipientReadyGrows, ReopenedGrows DEF Panic
<1>3. /\ UNCHANGED <<registry, supply, drift, spent, numTx, restarts>>
      /\ status' = "panicked"
    BY DEF Panic, history
<1> QED  BY <1>1, <1>2, <1>3, GrowsKeepsIInv DEF TypeOK

(* CrashAfterCreate *)
LEMMA CrashAfterCreateIInv ==
    ASSUME IInv, NEW a \in Accounts, NEW t \in Tokens, CrashAfterCreate(a, t)
    PROVE  IInv'
<1>1. Consistent(st) /\ TypeOK
    BY DEF IInv, TablesInv
<1>2. TokenMapped(st, t) /\ st.tokenIndex[t] \in Nat
    BY <1>1, SlotTyped DEF CrashAfterCreate
<1>3. Grows(st', st)
    BY <1>1, <1>2, EnsureAccountGrows, ReopenedGrows DEF CrashAfterCreate
<1>4. /\ UNCHANGED <<registry, supply, drift, spent, numTx, restarts>>
      /\ status' = "down"
    BY DEF CrashAfterCreate, history
<1> QED  BY <1>1, <1>3, <1>4, GrowsKeepsIInv DEF TypeOK

(* CrashInTransfer *)
LEMMA CrashInTransferIInv ==
    ASSUME IInv, NEW tx, tx.sender \in Accounts, tx.recipient \in Accounts,
           tx.token \in Tokens, tx.amount \in Nat, CrashInTransfer(tx)
    PROVE  IInv'
<1> DEFINE d == SenderDebited(st, tx)
           i == Slot(st, tx.token)
<1>1. Consistent(st) /\ TypeOK
    BY DEF IInv, TablesInv
<1>2. /\ Grows(d, st) /\ Consistent(d)
      /\ tx.nonce \in Nat
      /\ tx.nonce < TNonce(d, tx.sender, i)
    BY <1>1, SenderDebitedGrows DEF CrashInTransfer, Grows
<1>3. TokenMapped(st, tx.token) /\ st' = Reopened(d)
    BY DEF CrashInTransfer, TransferAccepted
<1>4. i \in Nat
    BY <1>1, <1>3, SlotTyped
<1> HIDE DEF d, i
<1>5. Grows(st', st)
    BY <1>1, <1>2, <1>3, ReopenedGrows
<1>6. TNonce(st', tx.sender, i) = TNonce(d, tx.sender, i)
    BY <1>2, <1>3, <1>4, ReopenedHoldings DEF SameHoldings
<1>7. /\ supply' \in [Tokens -> Int]
      /\ drift' \in [Tokens -> Int]
      /\ numTx' \in Nat
      /\ UNCHANGED <<registry, restarts>>
      /\ status' = "down"
      /\ spent' = spent \cup {SpentNonce(tx.sender, tx.token, "transfer", tx.nonce)}
    BY <1>1 DEF CrashInTransfer, Ready, TypeOK
<1>8. "transfer" \in {"transfer", "withdraw"} /\ "down" # "running"
    OBVIOUS
<1> QED  BY <1>2, <1>3, <1>5, <1>6, <1>7, <1>8, SpendingKeepsIInv DEF i

(* Restart *)
LEMMA RestartIInv ==
    ASSUME IInv, Restart
    PROVE  IInv'
<1>1. Consistent(st) /\ TypeOK /\ TablesInv(st, registry, spent)
    BY DEF IInv, TablesInv
<1>2. st' = Reopened(st)
    BY DEF Restart
<1>3. Grows(st, st)
    BY <1>1, SameHoldingsGrows DEF SameHoldings
<1>4. Grows(st', st)
    BY <1>1, <1>2, <1>3, ReopenedGrows
<1>5. UNCHANGED <<registry, supply, drift, spent, numTx>> /\ restarts' = restarts + 1
    BY DEF Restart, history
<1>6. TablesInv(st', registry', spent')
    BY <1>1, <1>4, <1>5, GrowsKeepsTablesInv
<1>7. TypeOK' /\ restarts' # 0
    BY <1>1, <1>5, <1>6 DEF TypeOK, TablesInv, Consistent, Restart
<1> QED  BY <1>6, <1>7 DEF IInv, TrieComplete

(* Every step keeps the invariant.                                         *)
LEMMA NextIInv == IInv /\ [Next]_vars => IInv'
<1> SUFFICES ASSUME IInv, [Next]_vars PROVE IInv'
    OBVIOUS
<1>1. CASE Restart
    BY <1>1, RestartIInv
<1>2. CASE \E t \in Tokens : RegisterToken(t)
    BY <1>2, RegisterTokenIInv
<1>3. CASE \E i \in DOMAIN registry : ObserveToken(i)
    BY <1>3, ObserveTokenIInv
<1>4. CASE \E a \in Accounts, t \in Tokens : CrashAfterCreate(a, t)
    BY <1>4, CrashAfterCreateIInv
<1>5. ASSUME NEW a \in Accounts, NEW t \in Tokens, NEW n \in Amounts, Deposit(DepositTx(a, t, n))
      PROVE  IInv'
  <2> DEFINE tx == DepositTx(a, t, n)
  <2>1. tx.account = a /\ tx.token = t /\ tx.amount = n /\ n \in Nat
      BY AmountsAssumption DEF DepositTx
  <2> HIDE DEF tx
  <2> QED  BY <1>5, <2>1, DepositIInv DEF tx
<1>6. ASSUME NEW a \in Accounts, NEW t \in Tokens, NEW n \in Amounts, NEW c \in Nonces,
             Withdraw(WithdrawTx(a, t, n, c))
      PROVE  IInv'
  <2> DEFINE tx == WithdrawTx(a, t, n, c)
  <2>1. tx.account = a /\ tx.token = t /\ tx.amount = n /\ n \in Nat
      BY AmountsAssumption DEF WithdrawTx
  <2> HIDE DEF tx
  <2> QED  BY <1>6, <2>1, WithdrawIInv DEF tx
<1>7. ASSUME NEW a \in Accounts, NEW r \in Accounts, NEW t \in Tokens,
             NEW n \in Amounts, NEW c \in Nonces,
             LET tx == TransferTx(a, r, t, n, c)
             IN  Transfer(tx) \/ SelfTransfer(tx) \/ RejectTransfer(tx) \/ Panic(tx)
                 \/ CrashInTransfer(tx)
      PROVE  IInv'
  <2> DEFINE tx == TransferTx(a, r, t, n, c)
  <2>1. tx.sender = a /\ tx.recipient = r /\ tx.token = t /\ tx.amount = n /\ n \in Nat
      BY AmountsAssumption DEF TransferTx
  <2>2. Transfer(tx) \/ SelfTransfer(tx) \/ RejectTransfer(tx) \/ Panic(tx) \/ CrashInTransfer(tx)
      BY <1>7
  <2> HIDE DEF tx
  <2> QED  BY <2>1, <2>2, TransferIInv, SelfTransferIInv, RejectTransferIInv, PanicIInv,
              CrashInTransferIInv
<1>8. CASE UNCHANGED vars
    BY <1>8 DEF vars, IInv, TypeOK, TrieComplete
<1> QED  BY <1>1, <1>2, <1>3, <1>4, <1>5, <1>6, <1>7, <1>8 DEF Next

(* The inductive invariant holds in every reachable state.                 *)
THEOREM Invariant == Spec => []IInv
BY InitIInv, NextIInv, PTL DEF Spec

-----------------------------------------------------------------------------
(* The safety properties *)

(* Every variable keeps its type; the three slices of an account never     *)
(* get different lengths, which the index arithmetic of every apply        *)
(* function relies on.                                                     *)
THEOREM TypeCorrect == Spec => []TypeOK
<1>1. IInv => TypeOK
    BY DEF IInv
<1> QED  BY <1>1, Invariant, PTL

(* Slots and accounts are in one to one correspondence, whatever was       *)
(* rejected, killed or restarted: getAccountInfo never finds a corrupt     *)
(* directory.                                                              *)
THEOREM DirectoryCorrect == Spec => []DirectoryConsistent
<1>1. IInv => DirectoryConsistent
    BY DEF IInv, TablesInv, Consistent, DirectoryConsistent
<1> QED  BY <1>1, Invariant, PTL

(* The tree never disagrees with the tables, and until the first restart   *)
(* it is complete.                                                         *)
THEOREM TrieCorrect == Spec => []TrieCommitsStore
<1>1. IInv => TrieCommitsStore
    BY DEF IInv, TablesInv, Consistent, TrieComplete, TrieCommitsStore
<1> QED  BY <1>1, Invariant, PTL

(* Nothing is ever held at an index that no token has, so a token that is  *)
(* observed late finds every account at zero.                              *)
THEOREM UnmappedSlots == Spec => []UnmappedSlotsEmpty
<1>1. ASSUME IInv PROVE UnmappedSlotsEmpty
  <2> SUFFICES ASSUME NEW k \in DOMAIN st.infoAt, NEW i \in DOMAIN st.infoAt[k].balances,
                      \A t \in IndexTable : st.tokenIndex[t] # i - 1
               PROVE  /\ st.infoAt[k].balances[i] = 0
                      /\ st.infoAt[k].transferNonces[i] = 0
                      /\ st.infoAt[k].withdrawNonces[i] = 0
      BY DEF UnmappedSlotsEmpty
  <2> DEFINE info == st.infoAt[k]
             a == info.account
  <2>1. Consistent(st) /\ UnmappedEmpty(st)
      BY <1>1 DEF IInv, TablesInv
  <2>2. info \in AccountInfo /\ a \in DOMAIN st.keyOf /\ st.keyOf[a] = k
      BY <2>1 DEF Consistent, TablesTyped, SlotsAssigned
  <2>3. HasAccount(st, a) /\ GetAccountInfo(st, a) = info
      BY <2>2 DEF HasAccount, GetAccountInfo
  <2>4. a \in Accounts
      BY <2>1, <2>2 DEF Consistent, TablesTyped
  <2> HIDE DEF info, a
  <2>5. /\ Len(info.transferNonces) = Len(info.balances)
        /\ Len(info.withdrawNonces) = Len(info.balances)
        /\ info.balances \in Seq(Nat)
      BY <2>2, AccountInfoTyped
  <2>6. i \in 1..Len(info.balances) /\ i \in Nat
    <3>1. i \in DOMAIN info.balances
        BY DEF info
    <3> QED  BY <2>5, <3>1
  <2>7. Unmapped(st, i)
    <3> SUFFICES ASSUME NEW t \in DOMAIN st.tokenIndex, st.tokenIndex[t] + 1 = i
                 PROVE  FALSE
        BY DEF Unmapped, Slot
    <3>1. st.tokenIndex[t] \in Nat
        BY <2>1 DEF Consistent, TablesTyped
    <3>2. st.tokenIndex[t] # i - 1
        BY DEF IndexTable
    <3> QED  BY <2>6, <3>1, <3>2
  <2>8. EmptyAt(st, a, i)
      BY <2>1, <2>4, <2>6, <2>7 DEF UnmappedEmpty
  <2> QED  BY <2>3, <2>5, <2>6, <2>8 DEF EmptyAt, Bal, TNonce, WNonce, At, info
<1> QED  BY <1>1, Invariant, PTL

(* A nonce that was used up is behind the account's nonce for good.        *)
THEOREM ReplayProtection == Spec => []SpentNoncesPassed
<1>1. ASSUME IInv PROVE SpentNoncesPassed
  <2> SUFFICES ASSUME NEW x \in spent
               PROVE  x.nonce < IF x.kind = "transfer"
                                THEN TransferNonceOf(st, x.account, x.token)
                                ELSE WithdrawNonceOf(st, x.account, x.token)
      BY DEF SpentNoncesPassed
  <2>1. Consistent(st) /\ TokenMapped(st, x.token) /\ x.nonce < StoredNonce(st, x)
      BY <1>1 DEF IInv, TablesInv, NoncesPassed, TokenMapped
  <2> QED  BY <2>1, ViewsAreHoldings DEF StoredNonce
<1> QED  BY <1>1, Invariant, PTL

-----------------------------------------------------------------------------
(* The tables implement the ledger.  View(ti, h) is the ledger's table of  *)
(* what h says of every account and position, under the token numbering    *)
(* ti.                                                                     *)

View(ti, h) ==
    [a \in Accounts |-> [t \in Tokens |-> IF t \in DOMAIN ti THEN h[a][ti[t] + 1] ELSE 0]]

Bals(s) == [a \in Accounts |-> [j \in Nat |-> Bal(s, a, j)]]
TNonces(s) == [a \in Accounts |-> [j \in Nat |-> TNonce(s, a, j)]]
WNonces(s) == [a \in Accounts |-> [j \in Nat |-> WNonce(s, a, j)]]

Balances(s) == [a \in Accounts |-> [t \in Tokens |-> BalanceOf(s, a, t)]]
TransferNonces(s) == [a \in Accounts |-> [t \in Tokens |-> TransferNonceOf(s, a, t)]]
WithdrawNonces(s) == [a \in Accounts |-> [t \in Tokens |-> WithdrawNonceOf(s, a, t)]]

(* The three components of the refinement mapping are such views.          *)
LEMMA MappingIsView ==
    ASSUME NEW s, Consistent(s)
    PROVE  /\ Balances(s) = View(s.tokenIndex, Bals(s))
           /\ TransferNonces(s) = View(s.tokenIndex, TNonces(s))
           /\ WithdrawNonces(s) = View(s.tokenIndex, WNonces(s))
<1>1. \A t : TokenMapped(s, t) => Slot(s, t) \in Nat /\ Slot(s, t) = s.tokenIndex[t] + 1
    BY SlotTyped DEF Slot
<1>2. \A a, t :
         /\ BalanceOf(s, a, t) = IF TokenMapped(s, t) THEN Bal(s, a, Slot(s, t)) ELSE 0
         /\ TransferNonceOf(s, a, t) =
                IF TokenMapped(s, t) THEN TNonce(s, a, Slot(s, t)) ELSE 0
         /\ WithdrawNonceOf(s, a, t) =
                IF TokenMapped(s, t) THEN WNonce(s, a, Slot(s, t)) ELSE 0
    BY ViewsAreHoldings
<1>3. \A t : TokenMapped(s, t) <=> t \in DOMAIN s.tokenIndex
    BY DEF TokenMapped
<1>4. Balances(s) = View(s.tokenIndex, Bals(s))
    BY <1>1, <1>2, <1>3 DEF Balances, View, Bals
<1>5. TransferNonces(s) = View(s.tokenIndex, TNonces(s))
    BY <1>1, <1>2, <1>3 DEF TransferNonces, View, TNonces
<1>6. WithdrawNonces(s) = View(s.tokenIndex, WNonces(s))
    BY <1>1, <1>2, <1>3 DEF WithdrawNonces, View, WNonces
<1> QED  BY <1>4, <1>5, <1>6

Numbering(ti) ==
    /\ ti \in [DOMAIN ti -> Nat]
    /\ \A t, u \in DOMAIN ti : ti[t] = ti[u] => t = u

(* Two tokens never share an index.                                        *)
LEMMA NumberedIsNumbering ==
    ASSUME NEW s, Consistent(s), NEW reg, Numbered(s, reg)
    PROVE  Numbering(s.tokenIndex)
<1>1. s.tokenIndex \in [DOMAIN s.tokenIndex -> Nat]
    BY DEF Consistent, TablesTyped
<1>2. \A t, u \in DOMAIN s.tokenIndex : s.tokenIndex[t] = s.tokenIndex[u] => t = u
    BY DEF Numbered, Slot
<1> QED  BY <1>1, <1>2 DEF Numbering

Updated(view, a, t, v) == [view EXCEPT ![a][t] = v]

DifferAt(g, h, a, i) ==
    \A b \in Accounts, j \in Nat : b # a \/ j # i => g[b][j] = h[b][j]

(* A change at one account and one token's position is a change at one     *)
(* entry of the view.                                                      *)
LEMMA ViewChange ==
    ASSUME NEW ti, Numbering(ti), NEW a \in Accounts, NEW t \in Tokens, t \in DOMAIN ti,
           NEW i, i = ti[t] + 1, NEW h, NEW g, NEW v,
           g[a][i] = v, DifferAt(g, h, a, i)
    PROVE  /\ View(ti, g) = Updated(View(ti, h), a, t, v)
           /\ View(ti, h)[a][t] = h[a][i]
<1>1. \A u \in DOMAIN ti : ti[u] \in Nat /\ ti[u] + 1 \in Nat /\ (u # t => ti[u] + 1 # ti[t] + 1)
    BY DEF Numbering
<1>2. \A b \in Accounts, u \in Tokens :
         View(ti, g)[b][u] = IF b = a /\ u = t THEN v ELSE View(ti, h)[b][u]
    BY <1>1 DEF View, DifferAt
<1> DEFINE old == View(ti, h)
           new == View(ti, g)
           upd == [old EXCEPT ![a][t] = v]
<1>3. /\ old = [b \in Accounts |-> old[b]]
      /\ new = [b \in Accounts |-> new[b]]
      /\ \A b \in Accounts : /\ old[b] = [u \in Tokens |-> old[b][u]]
                             /\ new[b] = [u \in Tokens |-> new[b][u]]
      /\ old[a][t] = h[a][ti[t] + 1]
    BY DEF View
<1> HIDE DEF old, new
<1>4. upd = [b \in Accounts |-> IF b = a THEN [old[a] EXCEPT ![t] = v] ELSE old[b]]
    BY <1>3
<1>5. [old[a] EXCEPT ![t] = v] = [u \in Tokens |-> IF u = t THEN v ELSE old[a][u]]
    BY <1>3
<1>6. new[a] = [u \in Tokens |-> IF u = t THEN v ELSE old[a][u]]
    BY <1>2, <1>3 DEF new, old
<1>7. \A b \in Accounts : b # a => new[b] = old[b]
    BY <1>2, <1>3 DEF new, old
<1>8. new = upd
    BY <1>3, <1>4, <1>5, <1>6, <1>7
<1> QED  BY <1>3, <1>8 DEF new, old, Updated

(* Without a change of the holdings the view does not change.              *)
LEMMA ViewSame ==
    ASSUME NEW ti, Numbering(ti), NEW h, NEW g,
           \A b \in Accounts, j \in Nat : g[b][j] = h[b][j]
    PROVE  View(ti, g) = View(ti, h)
<1>1. \A u \in DOMAIN ti : ti[u] + 1 \in Nat
    BY DEF Numbering
<1> QED  BY <1>1 DEF View

(* A change of one balance holding is a change of one entry of the ledger. *)
LEMMA BalancesChange ==
    ASSUME NEW s, Consistent(s), NEW r, Consistent(r), NEW reg, Numbered(s, reg),
           r.tokenIndex = s.tokenIndex,
           NEW a \in Accounts, NEW t \in Tokens, TokenMapped(s, t), NEW v,
           Bal(r, a, Slot(s, t)) = v,
           \A b \in Accounts, j \in Nat :
               b # a \/ j # Slot(s, t) => Bal(r, b, j) = Bal(s, b, j)
    PROVE  /\ Balances(r) = Updated(Balances(s), a, t, v)
           /\ Balances(s)[a][t] = Bal(s, a, Slot(s, t))
<1> DEFINE ti == s.tokenIndex
           h == Bals(s)
           g == Bals(r)
           i == Slot(s, t)
<1>1. Numbering(ti) /\ t \in DOMAIN ti /\ i = ti[t] + 1
    BY NumberedIsNumbering DEF TokenMapped, Slot
<1>2. i \in Nat
    BY SlotTyped
<1>3. /\ g[a][i] = v
      /\ h[a][i] = Bal(s, a, i)
      /\ DifferAt(g, h, a, i)
    BY <1>1, <1>2 DEF Bals, DifferAt
<1> HIDE DEF h, g, ti, i
<1>4. View(ti, g) = Updated(View(ti, h), a, t, v)
    BY <1>1, <1>3, ViewChange
<1>5. View(ti, h)[a][t] = h[a][i]
    BY <1>1 DEF View
<1>6. Balances(s) = View(ti, h) /\ Balances(r) = View(ti, g)
    BY MappingIsView DEF h, g, ti
<1> QED  BY <1>3, <1>4, <1>5, <1>6 DEF i

(* A change of one transfer nonce holding is a change of one entry of the  *)
(* ledger.                                                                 *)
LEMMA TransferNoncesChange ==
    ASSUME NEW s, Consistent(s), NEW r, Consistent(r), NEW reg, Numbered(s, reg),
           r.tokenIndex = s.tokenIndex,
           NEW a \in Accounts, NEW t \in Tokens, TokenMapped(s, t), NEW v,
           TNonce(r, a, Slot(s, t)) = v,
           \A b \in Accounts, j \in Nat :
               b # a \/ j # Slot(s, t) => TNonce(r, b, j) = TNonce(s, b, j)
    PROVE  /\ TransferNonces(r) = Updated(TransferNonces(s), a, t, v)
           /\ TransferNonces(s)[a][t] = TNonce(s, a, Slot(s, t))
<1> DEFINE ti == s.tokenIndex
           h == TNonces(s)
           g == TNonces(r)
           i == Slot(s, t)
<1>1. Numbering(ti) /\ t \in DOMAIN ti /\ i = ti[t] + 1
    BY NumberedIsNumbering DEF TokenMapped, Slot
<1>2. i \in Nat
    BY SlotTyped
<1>3. /\ g[a][i] = v
      /\ h[a][i] = TNonce(s, a, i)
      /\ DifferAt(g, h, a, i)
    BY <1>1, <1>2 DEF TNonces, DifferAt
<1> HIDE DEF h, g, ti, i
<1>4. View(ti, g) = Updated(View(ti, h), a, t, v)
    BY <1>1, <1>3, ViewChange
<1>5. View(ti, h)[a][t] = h[a][i]
    BY <1>1 DEF View
<1>6. TransferNonces(s) = View(ti, h) /\ TransferNonces(r) = View(ti, g)
    BY MappingIsView DEF h, g, ti
<1> QED  BY <1>3, <1>4, <1>5, <1>6 DEF i

(* A change of one withdraw nonce holding is a change of one entry of the  *)
(* ledger.                                                                 *)
LEMMA WithdrawNoncesChange ==
    ASSUME NEW s, Consistent(s), NEW r, Consistent(r), NEW reg, Numbered(s, reg),
           r.tokenIndex = s.tokenIndex,
           NEW a \in Accounts, NEW t \in Tokens, TokenMapped(s, t), NEW v,
           WNonce(r, a, Slot(s, t)) = v,
           \A b \in Accounts, j \in Nat :
               b # a \/ j # Slot(s, t) => WNonce(r, b, j) = WNonce(s, b, j)
    PROVE  /\ WithdrawNonces(r) = Updated(WithdrawNonces(s), a, t, v)
           /\ WithdrawNonces(s)[a][t] = WNonce(s, a, Slot(s, t))
<1> DEFINE ti == s.tokenIndex
           h == WNonces(s)
           g == WNonces(r)
           i == Slot(s, t)
<1>1. Numbering(ti) /\ t \in DOMAIN ti /\ i = ti[t] + 1
    BY NumberedIsNumbering DEF TokenMapped, Slot
<1>2. i \in Nat
    BY SlotTyped
<1>3. /\ g[a][i] = v
      /\ h[a][i] = WNonce(s, a, i)
      /\ DifferAt(g, h, a, i)
    BY <1>1, <1>2 DEF WNonces, DifferAt
<1> HIDE DEF h, g, ti, i
<1>4. View(ti, g) = Updated(View(ti, h), a, t, v)
    BY <1>1, <1>3, ViewChange
<1>5. View(ti, h)[a][t] = h[a][i]
    BY <1>1 DEF View
<1>6. WithdrawNonces(s) = View(ti, h) /\ WithdrawNonces(r) = View(ti, g)
    BY MappingIsView DEF h, g, ti
<1> QED  BY <1>3, <1>4, <1>5, <1>6 DEF i

(* Unchanged balance holdings leave the ledger's table unchanged.          *)
LEMMA BalancesSame ==
    ASSUME NEW s, Consistent(s), NEW r, Consistent(r), NEW reg, Numbered(s, reg),
           r.tokenIndex = s.tokenIndex,
           \A b \in Accounts, j \in Nat : Bal(r, b, j) = Bal(s, b, j)
    PROVE  Balances(r) = Balances(s)
<1>1. Numbering(s.tokenIndex)
    BY NumberedIsNumbering
<1>2. \A b \in Accounts, j \in Nat : Bals(r)[b][j] = Bals(s)[b][j]
    BY DEF Bals
<1>3. View(s.tokenIndex, Bals(r)) = View(s.tokenIndex, Bals(s))
    BY <1>1, <1>2, ViewSame
<1> QED  BY <1>3, MappingIsView

(* Unchanged transfer nonce holdings leave the ledger's table unchanged.   *)
LEMMA TransferNoncesSame ==
    ASSUME NEW s, Consistent(s), NEW r, Consistent(r), NEW reg, Numbered(s, reg),
           r.tokenIndex = s.tokenIndex,
           \A b \in Accounts, j \in Nat : TNonce(r, b, j) = TNonce(s, b, j)
    PROVE  TransferNonces(r) = TransferNonces(s)
<1>1. Numbering(s.tokenIndex)
    BY NumberedIsNumbering
<1>2. \A b \in Accounts, j \in Nat : TNonces(r)[b][j] = TNonces(s)[b][j]
    BY DEF TNonces
<1>3. View(s.tokenIndex, TNonces(r)) = View(s.tokenIndex, TNonces(s))
    BY <1>1, <1>2, ViewSame
<1> QED  BY <1>3, MappingIsView

(* Unchanged withdraw nonce holdings leave the ledger's table unchanged.   *)
LEMMA WithdrawNoncesSame ==
    ASSUME NEW s, Consistent(s), NEW r, Consistent(r), NEW reg, Numbered(s, reg),
           r.tokenIndex = s.tokenIndex,
           \A b \in Accounts, j \in Nat : WNonce(r, b, j) = WNonce(s, b, j)
    PROVE  WithdrawNonces(r) = WithdrawNonces(s)
<1>1. Numbering(s.tokenIndex)
    BY NumberedIsNumbering
<1>2. \A b \in Accounts, j \in Nat : WNonces(r)[b][j] = WNonces(s)[b][j]
    BY DEF WNonces
<1>3. View(s.tokenIndex, WNonces(r)) = View(s.tokenIndex, WNonces(s))
    BY <1>1, <1>2, ViewSame
<1> QED  BY <1>3, MappingIsView

(* A step that leaves all holdings alone is invisible.                     *)
LEMMA InvisibleStep ==
    ASSUME NEW s, Consistent(s), NEW r, Consistent(r), NEW reg, Numbered(s, reg),
           r.tokenIndex = s.tokenIndex,
           \A b \in Accounts : SameHoldings(r, s, b)
    PROVE  /\ Balances(r) = Balances(s)
           /\ TransferNonces(r) = TransferNonces(s)
           /\ WithdrawNonces(r) = WithdrawNonces(s)
BY BalancesSame, TransferNoncesSame, WithdrawNoncesSame DEF SameHoldings

(* Observing a token is invisible: nothing was held at its position.       *)
LEMMA ObservedInvisible ==
    ASSUME NEW s, NEW reg \in Seq(Tokens), NEW sp, TablesInv(s, reg, sp),
           NEW t \in Tokens, NEW n \in Nat,
           n + 1 \in DOMAIN reg, reg[n + 1] = t, ~TokenMapped(s, t)
    PROVE  LET r == Observed(s, t, n)
           IN  /\ Balances(r) = Balances(s)
               /\ TransferNonces(r) = TransferNonces(s)
               /\ WithdrawNonces(r) = WithdrawNonces(s)
<1> DEFINE r == Observed(s, t, n)
<1>1. Consistent(s) /\ Numbered(s, reg) /\ UnmappedEmpty(s)
    BY DEF TablesInv
<1>2. TablesInv(r, reg, sp)
    BY ObservedKeepsTablesInv
<1>3. Consistent(r)
    BY <1>2 DEF TablesInv
<1>4. \A b : SameHoldings(r, s, b)
    BY <1>1, ObservedProperties
<1>5. r.tokenIndex = Put(s.tokenIndex, t, n)
    BY <1>1, ObservedProperties
<1>6. DOMAIN r.tokenIndex = {t} \cup DOMAIN s.tokenIndex
    BY <1>5 DEF Put
<1>7. r.tokenIndex[t] = n
    BY <1>5 DEF Put
<1>8. \A u \in DOMAIN s.tokenIndex : u # t => r.tokenIndex[u] = s.tokenIndex[u]
    BY <1>5 DEF Put
<1>9. t \notin DOMAIN s.tokenIndex
    BY DEF TokenMapped
<1> HIDE DEF r
<1>10. Unmapped(s, n + 1)
  <2> SUFFICES ASSUME NEW u \in DOMAIN s.tokenIndex, Slot(s, u) = n + 1
               PROVE  FALSE
      BY DEF Unmapped
  <2>1. reg[Slot(s, u)] = u
      BY <1>1 DEF Numbered
  <2> QED  BY <1>9, <2>1
<1>11. /\ \A u : TokenMapped(r, u) <=> u = t \/ TokenMapped(s, u)
       /\ Slot(r, t) = n + 1
       /\ \A u : TokenMapped(s, u) => Slot(r, u) = Slot(s, u) /\ Slot(s, u) \in Nat
  <2>1. \A u : TokenMapped(s, u) => Slot(s, u) \in Nat
      BY <1>1, SlotTyped
  <2> QED  BY <1>6, <1>7, <1>8, <1>9, <2>1 DEF TokenMapped, Slot
<1>12. \A a \in Accounts, u \in Tokens :
           /\ BalanceOf(r, a, u) = BalanceOf(s, a, u)
           /\ TransferNonceOf(r, a, u) = TransferNonceOf(s, a, u)
           /\ WithdrawNonceOf(r, a, u) = WithdrawNonceOf(s, a, u)
  <2> SUFFICES ASSUME NEW a \in Accounts, NEW u \in Tokens
               PROVE  /\ BalanceOf(r, a, u) = BalanceOf(s, a, u)
                      /\ TransferNonceOf(r, a, u) = TransferNonceOf(s, a, u)
                      /\ WithdrawNonceOf(r, a, u) = WithdrawNonceOf(s, a, u)
      OBVIOUS
  <2>1. CASE TokenMapped(s, u)
      BY <1>1, <1>3, <1>4, <1>11, <2>1, ViewsAreHoldings DEF SameHoldings
  <2>2. CASE u = t
    <3>1. EmptyAt(s, a, n + 1) /\ n + 1 \in Nat
        BY <1>1, <1>10 DEF UnmappedEmpty
    <3>2. EmptyAt(r, a, n + 1)
        BY <1>4, <3>1 DEF SameHoldings, EmptyAt
    <3>3. ~TokenMapped(s, u) /\ TokenMapped(r, u) /\ Slot(r, u) = n + 1
        BY <1>11, <2>2
    <3> QED  BY <1>1, <1>3, <3>2, <3>3, ViewsAreHoldings DEF EmptyAt
  <2>3. CASE ~TokenMapped(s, u) /\ u # t
      BY <1>1, <1>3, <1>11, <2>3, ViewsAreHoldings
  <2> QED  BY <2>1, <2>2, <2>3
<1> QED  BY <1>12 DEF Balances, TransferNonces, WithdrawNonces, r

-----------------------------------------------------------------------------
(* Each operation is the ledger's, on the ledger's tables.                 *)

(* A deposit.                                                              *)
LEMMA DepositedOnLedger ==
    ASSUME NEW s, Consistent(s), NEW reg, Numbered(s, reg), NEW tx, DepositAccepted(s, tx),
           tx.account \in Accounts, tx.token \in Tokens, tx.amount \in Nat
    PROVE  LET r == Deposited(s, tx)
               a == tx.account
               t == tx.token
           IN  /\ Balances(r) = Updated(Balances(s), a, t, Balances(s)[a][t] + tx.amount)
               /\ TransferNonces(r) = TransferNonces(s)
               /\ WithdrawNonces(r) = WithdrawNonces(s)
<1> DEFINE r == Deposited(s, tx)
           a == tx.account
           t == tx.token
           i == Slot(s, t)
<1>1. /\ Consistent(r)
      /\ r.tokenIndex = s.tokenIndex
      /\ \A b : b # a => SameHoldings(r, s, b)
      /\ \A j \in Nat :
            /\ Bal(r, a, j) = Bal(s, a, j) + (IF j = i THEN tx.amount ELSE 0)
            /\ TNonce(r, a, j) = TNonce(s, a, j)
            /\ WNonce(r, a, j) = WNonce(s, a, j)
    BY DepositedHoldings DEF Extends
<1>2. TokenMapped(s, t) /\ i \in Nat
    BY SlotTyped DEF DepositAccepted
<1> HIDE DEF r
<1>3. ASSUME NEW b \in Accounts, NEW j \in Nat
      PROVE  /\ b # a \/ j # i => Bal(r, b, j) = Bal(s, b, j)
             /\ TNonce(r, b, j) = TNonce(s, b, j)
             /\ WNonce(r, b, j) = WNonce(s, b, j)
  <2>1. Bal(s, b, j) \in Nat
      BY HoldingsTyped
  <2> QED  BY <1>1, <2>1 DEF SameHoldings
<1>4. Bal(r, a, i) = Bal(s, a, i) + tx.amount
    BY <1>1, <1>2
<1>5. /\ Balances(r) = Updated(Balances(s), a, t, Bal(s, a, i) + tx.amount)
      /\ Balances(s)[a][t] = Bal(s, a, i)
    BY <1>1, <1>2, <1>3, <1>4, BalancesChange
<1>6. TransferNonces(r) = TransferNonces(s)
    BY <1>1, <1>3, TransferNoncesSame
<1>7. WithdrawNonces(r) = WithdrawNonces(s)
    BY <1>1, <1>3, WithdrawNoncesSame
<1> QED  BY <1>5, <1>6, <1>7 DEF r

(* A withdrawal.                                                           *)
LEMMA WithdrawnOnLedger ==
    ASSUME NEW s, Consistent(s), NEW reg, Numbered(s, reg), NEW tx, WithdrawAccepted(s, tx),
           tx.account \in Accounts, tx.token \in Tokens, tx.amount \in Nat
    PROVE  LET r == Withdrawn(s, tx)
               a == tx.account
               t == tx.token
           IN  /\ Balances(s)[a][t] >= tx.amount
               /\ Balances(r) = Updated(Balances(s), a, t, Balances(s)[a][t] - tx.amount)
               /\ TransferNonces(r) = TransferNonces(s)
               /\ WithdrawNonces(r) =
                     Updated(WithdrawNonces(s), a, t, WithdrawNonces(s)[a][t] + 1)
<1> DEFINE r == Withdrawn(s, tx)
           a == tx.account
           t == tx.token
           i == Slot(s, t)
<1>1. /\ Consistent(r)
      /\ r.tokenIndex = s.tokenIndex
      /\ \A b : b # a => SameHoldings(r, s, b)
      /\ \A j \in Nat :
            /\ Bal(r, a, j) = Bal(s, a, j) - (IF j = i THEN tx.amount ELSE 0)
            /\ TNonce(r, a, j) = TNonce(s, a, j)
            /\ WNonce(r, a, j) = WNonce(s, a, j) + (IF j = i THEN 1 ELSE 0)
    BY WithdrawnHoldings DEF Extends
<1>2. TokenMapped(s, t) /\ i \in Nat
    BY SlotTyped DEF WithdrawAccepted
<1>3. Bal(s, a, i) >= tx.amount
    BY WithdrawAcceptedHoldings
<1> HIDE DEF r
<1>4. ASSUME NEW b \in Accounts, NEW j \in Nat
      PROVE  /\ b # a \/ j # i => /\ Bal(r, b, j) = Bal(s, b, j)
                                  /\ WNonce(r, b, j) = WNonce(s, b, j)
             /\ TNonce(r, b, j) = TNonce(s, b, j)
  <2>1. Bal(s, b, j) \in Nat /\ WNonce(s, b, j) \in Nat
      BY HoldingsTyped
  <2> QED  BY <1>1, <2>1 DEF SameHoldings
<1>5. Bal(r, a, i) = Bal(s, a, i) - tx.amount /\ WNonce(r, a, i) = WNonce(s, a, i) + 1
    BY <1>1, <1>2
<1>6. /\ Balances(r) = Updated(Balances(s), a, t, Bal(s, a, i) - tx.amount)
      /\ Balances(s)[a][t] = Bal(s, a, i)
    BY <1>1, <1>2, <1>4, <1>5, BalancesChange
<1>7. TransferNonces(r) = TransferNonces(s)
    BY <1>1, <1>4, TransferNoncesSame
<1>8. /\ WithdrawNonces(r) = Updated(WithdrawNonces(s), a, t, WNonce(s, a, i) + 1)
      /\ WithdrawNonces(s)[a][t] = WNonce(s, a, i)
    BY <1>1, <1>2, <1>4, <1>5, WithdrawNoncesChange
<1> QED  BY <1>3, <1>6, <1>7, <1>8 DEF r

(* The first write of a transfer.                                          *)
LEMMA SenderDebitedOnLedger ==
    ASSUME NEW s, Consistent(s), NEW reg, Numbered(s, reg), NEW tx, TransferAccepted(s, tx),
           tx.sender \in Accounts, tx.recipient \in Accounts,
           tx.token \in Tokens, tx.amount \in Nat
    PROVE  LET r == SenderDebited(s, tx)
               a == tx.sender
               t == tx.token
           IN  /\ Balances(s)[a][t] >= tx.amount
               /\ Balances(r) = Updated(Balances(s), a, t, Balances(s)[a][t] - tx.amount)
               /\ TransferNonces(r) =
                     Updated(TransferNonces(s), a, t, TransferNonces(s)[a][t] + 1)
               /\ WithdrawNonces(r) = WithdrawNonces(s)
<1> DEFINE r == SenderDebited(s, tx)
           a == tx.sender
           t == tx.token
           i == Slot(s, t)
<1>1. /\ Consistent(r)
      /\ r.tokenIndex = s.tokenIndex
      /\ \A b : b # a => SameHoldings(r, s, b)
      /\ \A j \in Nat :
            /\ Bal(r, a, j) = Bal(s, a, j) - (IF j = i THEN tx.amount ELSE 0)
            /\ TNonce(r, a, j) = TNonce(s, a, j) + (IF j = i THEN 1 ELSE 0)
            /\ WNonce(r, a, j) = WNonce(s, a, j)
    BY SenderDebitedHoldings DEF Extends
<1>2. TokenMapped(s, t) /\ i \in Nat
    BY SlotTyped DEF TransferAccepted
<1>3. Bal(s, a, i) >= tx.amount
    BY TransferAcceptedHoldings
<1> HIDE DEF r
<1>4. ASSUME NEW b \in Accounts, NEW j \in Nat
      PROVE  /\ b # a \/ j # i => /\ Bal(r, b, j) = Bal(s, b, j)
                                  /\ TNonce(r, b, j) = TNonce(s, b, j)
             /\ WNonce(r, b, j) = WNonce(s, b, j)
  <2>1. Bal(s, b, j) \in Nat /\ TNonce(s, b, j) \in Nat
      BY HoldingsTyped
  <2> QED  BY <1>1, <2>1 DEF SameHoldings
<1>5. Bal(r, a, i) = Bal(s, a, i) - tx.amount /\ TNonce(r, a, i) = TNonce(s, a, i) + 1
    BY <1>1, <1>2
<1>6. /\ Balances(r) = Updated(Balances(s), a, t, Bal(s, a, i) - tx.amount)
      /\ Balances(s)[a][t] = Bal(s, a, i)
    BY <1>1, <1>2, <1>4, <1>5, BalancesChange
<1>7. WithdrawNonces(r) = WithdrawNonces(s)
    BY <1>1, <1>4, WithdrawNoncesSame
<1>8. /\ TransferNonces(r) = Updated(TransferNonces(s), a, t, TNonce(s, a, i) + 1)
      /\ TransferNonces(s)[a][t] = TNonce(s, a, i)
    BY <1>1, <1>2, <1>4, <1>5, TransferNoncesChange
<1> QED  BY <1>3, <1>6, <1>7, <1>8 DEF r

(* Both writes of a transfer between two accounts.                         *)
LEMMA TransferredOnLedger ==
    ASSUME NEW s, Consistent(s), NEW reg, Numbered(s, reg), NEW tx, TransferAccepted(s, tx),
           tx.sender \in Accounts, tx.recipient \in Accounts, tx.sender # tx.recipient,
           tx.token \in Tokens, tx.amount \in Nat
    PROVE  LET r == Transferred(s, tx)
               d == SenderDebited(s, tx)
               b == tx.recipient
               t == tx.token
           IN  /\ Balances(r) = Updated(Balances(d), b, t, Balances(d)[b][t] + tx.amount)
               /\ TransferNonces(r) = TransferNonces(d)
               /\ WithdrawNonces(r) = WithdrawNonces(d)
<1> DEFINE r == Transferred(s, tx)
           d == SenderDebited(s, tx)
           a0 == tx.sender
           b0 == tx.recipient
           t == tx.token
           i == Slot(s, t)
<1>1. /\ Consistent(r)
      /\ r.tokenIndex = s.tokenIndex
      /\ \A x : x # a0 /\ x # b0 => SameHoldings(r, s, x)
      /\ \A j \in Nat :
            /\ Bal(r, a0, j) = Bal(s, a0, j) - (IF j = i THEN tx.amount ELSE 0)
            /\ TNonce(r, a0, j) = TNonce(s, a0, j) + (IF j = i THEN 1 ELSE 0)
            /\ WNonce(r, a0, j) = WNonce(s, a0, j)
            /\ Bal(r, b0, j) = Bal(s, b0, j) + (IF j = i THEN tx.amount ELSE 0)
            /\ TNonce(r, b0, j) = TNonce(s, b0, j)
            /\ WNonce(r, b0, j) = WNonce(s, b0, j)
    BY TransferredHoldings DEF Extends
<1>2. /\ Consistent(d)
      /\ d.tokenIndex = s.tokenIndex
      /\ \A x : x # a0 => SameHoldings(d, s, x)
      /\ \A j \in Nat :
            /\ Bal(d, a0, j) = Bal(s, a0, j) - (IF j = i THEN tx.amount ELSE 0)
            /\ TNonce(d, a0, j) = TNonce(s, a0, j) + (IF j = i THEN 1 ELSE 0)
            /\ WNonce(d, a0, j) = WNonce(s, a0, j)
    BY SenderDebitedHoldings DEF Extends
<1>3. TokenMapped(s, t) /\ i \in Nat
    BY SlotTyped DEF TransferAccepted
<1> HIDE DEF r, d, i
<1>4. TokenMapped(d, t) /\ i = Slot(d, t) /\ r.tokenIndex = d.tokenIndex /\ Numbered(d, reg)
    BY <1>1, <1>2, <1>3 DEF TokenMapped, Slot, Numbered, i
<1>5. ASSUME NEW x \in Accounts, NEW j \in Nat
      PROVE  /\ x # b0 \/ j # i => Bal(r, x, j) = Bal(d, x, j)
             /\ TNonce(r, x, j) = TNonce(d, x, j)
             /\ WNonce(r, x, j) = WNonce(d, x, j)
  <2>1. CASE x = a0
      BY <1>1, <1>2, <2>1
  <2>2. CASE x = b0
    <3>1. Bal(s, b0, j) \in Nat
        BY HoldingsTyped
    <3> QED  BY <1>1, <1>2, <2>2, <3>1 DEF SameHoldings
  <2>3. CASE x # a0 /\ x # b0
      BY <1>1, <1>2, <2>3 DEF SameHoldings
  <2> QED  BY <2>1, <2>2, <2>3
<1>6. Bal(r, b0, i) = Bal(d, b0, i) + tx.amount
    BY <1>1, <1>2, <1>3 DEF SameHoldings
<1>7. /\ Balances(r) = Updated(Balances(d), b0, t, Bal(d, b0, i) + tx.amount)
      /\ Balances(d)[b0][t] = Bal(d, b0, i)
    BY <1>1, <1>2, <1>4, <1>5, <1>6, BalancesChange
<1>8. TransferNonces(r) = TransferNonces(d)
    BY <1>1, <1>2, <1>4, <1>5, TransferNoncesSame
<1>9. WithdrawNonces(r) = WithdrawNonces(d)
    BY <1>1, <1>2, <1>4, <1>5, WithdrawNoncesSame
<1> QED  BY <1>7, <1>8, <1>9 DEF r, d

(* Both writes of a transfer of an account to itself.                      *)
LEMMA SelfTransferredOnLedger ==
    ASSUME NEW s, Consistent(s), NEW reg, Numbered(s, reg), NEW tx, TransferAccepted(s, tx),
           tx.sender \in Accounts, tx.recipient \in Accounts, tx.sender = tx.recipient,
           tx.token \in Tokens, tx.amount \in Nat
    PROVE  LET r == Transferred(s, tx)
               a == tx.sender
               t == tx.token
           IN  /\ Balances(s)[a][t] >= tx.amount
               /\ Balances(r) = Updated(Balances(s), a, t, Balances(s)[a][t] + tx.amount)
               /\ TransferNonces(r) = TransferNonces(s)
               /\ WithdrawNonces(r) = WithdrawNonces(s)
<1> DEFINE r == Transferred(s, tx)
           a == tx.sender
           t == tx.token
           i == Slot(s, t)
<1>1. /\ Consistent(r)
      /\ r.tokenIndex = s.tokenIndex
      /\ \A b : b # a => SameHoldings(r, s, b)
      /\ \A j \in Nat :
            /\ Bal(r, a, j) = Bal(s, a, j) + (IF j = i THEN tx.amount ELSE 0)
            /\ TNonce(r, a, j) = TNonce(s, a, j)
            /\ WNonce(r, a, j) = WNonce(s, a, j)
    BY SelfTransferredHoldings DEF Extends
<1>2. TokenMapped(s, t) /\ i \in Nat
    BY SlotTyped DEF TransferAccepted
<1>3. Bal(s, a, i) >= tx.amount
    BY TransferAcceptedHoldings
<1> HIDE DEF r
<1>4. ASSUME NEW b \in Accounts, NEW j \in Nat
      PROVE  /\ b # a \/ j # i => Bal(r, b, j) = Bal(s, b, j)
             /\ TNonce(r, b, j) = TNonce(s, b, j)
             /\ WNonce(r, b, j) = WNonce(s, b, j)
  <2>1. Bal(s, b, j) \in Nat
      BY HoldingsTyped
  <2> QED  BY <1>1, <2>1 DEF SameHoldings
<1>5. Bal(r, a, i) = Bal(s, a, i) + tx.amount
    BY <1>1, <1>2
<1>6. /\ Balances(r) = Updated(Balances(s), a, t, Bal(s, a, i) + tx.amount)
      /\ Balances(s)[a][t] = Bal(s, a, i)
    BY <1>1, <1>2, <1>4, <1>5, BalancesChange
<1>7. TransferNonces(r) = TransferNonces(s)
    BY <1>1, <1>4, TransferNoncesSame
<1>8. WithdrawNonces(r) = WithdrawNonces(s)
    BY <1>1, <1>4, WithdrawNoncesSame
<1> QED  BY <1>3, <1>6, <1>7, <1>8 DEF r

-----------------------------------------------------------------------------
(* The steps of the implementation are steps of the ledger *)

(* The refinement mapping, before and after a step.                        *)
LEMMA Mapping ==
    /\ BalanceView = Balances(st) /\ BalanceView' = Balances(st')
    /\ TransferNonceView = TransferNonces(st) /\ TransferNonceView' = TransferNonces(st')
    /\ WithdrawNonceView = WithdrawNonces(st) /\ WithdrawNonceView' = WithdrawNonces(st')
BY DEF BalanceView, Balances, TransferNonceView, TransferNonces, WithdrawNonceView,
       WithdrawNonces

(* The initial state is the empty ledger.                                  *)
LEMMA InitOnLedger == Init => L!Init
<1> SUFFICES ASSUME Init PROVE L!Init
    OBVIOUS
<1>1. st.keyOf = EmptyTable /\ DOMAIN EmptyTable = {}
    BY EmptyTableProperties DEF Init, InitState
<1>2. \A a, t : ~Holds(st, a, t)
    BY <1>1 DEF Holds, HasAccount
<1>3. /\ BalanceView = L!Zero
      /\ TransferNonceView = L!Zero
      /\ WithdrawNonceView = L!Zero
    BY <1>2 DEF BalanceView, TransferNonceView, WithdrawNonceView, BalanceOf,
                TransferNonceOf, WithdrawNonceOf, L!Zero
<1> QED  BY <1>3 DEF L!Init, Init

(* A deposit is a deposit.                                                 *)
LEMMA DepositOnLedger ==
    ASSUME IInv, NEW tx, tx.account \in Accounts, tx.token \in Tokens, tx.amount \in Nat,
           Deposit(tx)
    PROVE  L!Deposit(tx.account, tx.token, tx.amount)
<1>1. Consistent(st) /\ Numbered(st, registry)
    BY DEF IInv, TablesInv
<1>2. /\ BalanceView' = Updated(BalanceView, tx.account, tx.token,
                                BalanceView[tx.account][tx.token] + tx.amount)
      /\ TransferNonceView' = TransferNonceView
      /\ WithdrawNonceView' = WithdrawNonceView
    BY <1>1, DepositedOnLedger, Mapping DEF Deposit
<1>3. supply' = [supply EXCEPT ![tx.token] = @ + tx.amount]
    BY DEF Deposit
<1> QED  BY <1>2, <1>3 DEF L!Deposit, Updated

(* A withdrawal is a withdrawal.                                           *)
LEMMA WithdrawOnLedger ==
    ASSUME IInv, NEW tx, tx.account \in Accounts, tx.token \in Tokens, tx.amount \in Nat,
           Withdraw(tx)
    PROVE  L!Withdraw(tx.account, tx.token, tx.amount)
<1>1. Consistent(st) /\ Numbered(st, registry)
    BY DEF IInv, TablesInv
<1>2. /\ BalanceView[tx.account][tx.token] >= tx.amount
      /\ BalanceView' = Updated(BalanceView, tx.account, tx.token,
                                BalanceView[tx.account][tx.token] - tx.amount)
      /\ TransferNonceView' = TransferNonceView
      /\ WithdrawNonceView' = Updated(WithdrawNonceView, tx.account, tx.token,
                                      WithdrawNonceView[tx.account][tx.token] + 1)
    BY <1>1, WithdrawnOnLedger, Mapping DEF Withdraw
<1>3. supply' = [supply EXCEPT ![tx.token] = @ - tx.amount]
    BY DEF Withdraw
<1> QED  BY <1>2, <1>3 DEF L!Withdraw, Updated

(* A transfer between two accounts is a transfer.                          *)
LEMMA TransferOnLedger ==
    ASSUME IInv, NEW tx, tx.sender \in Accounts, tx.recipient \in Accounts,
           tx.token \in Tokens, tx.amount \in Nat, Transfer(tx)
    PROVE  L!Transfer(tx.sender, tx.recipient, tx.token, tx.amount)
<1> DEFINE d == Balances(SenderDebited(st, tx))
           a == tx.sender
           b == tx.recipient
           t == tx.token
<1>1. Consistent(st) /\ Numbered(st, registry) /\ a # b
    BY DEF IInv, TablesInv, Transfer
<1>2. /\ BalanceView[a][t] >= tx.amount
      /\ d = Updated(BalanceView, a, t, BalanceView[a][t] - tx.amount)
      /\ TransferNonces(SenderDebited(st, tx)) =
            Updated(TransferNonceView, a, t, TransferNonceView[a][t] + 1)
      /\ WithdrawNonces(SenderDebited(st, tx)) = WithdrawNonceView
    BY <1>1, SenderDebitedOnLedger, Mapping DEF Transfer
<1>3. /\ BalanceView' = Updated(d, b, t, d[b][t] + tx.amount)
      /\ TransferNonceView' = TransferNonces(SenderDebited(st, tx))
      /\ WithdrawNonceView' = WithdrawNonces(SenderDebited(st, tx))
    BY <1>1, TransferredOnLedger, Mapping DEF Transfer
<1>4. supply' = supply
    BY DEF Transfer
<1> HIDE DEF d
<1> QED  BY <1>1, <1>2, <1>3, <1>4 DEF L!Transfer, Updated

(* A transfer of an account to itself is the ledger's SelfCredit.          *)
LEMMA SelfTransferOnLedger ==
    ASSUME IInv, NEW tx, tx.sender \in Accounts, tx.recipient \in Accounts,
           tx.token \in Tokens, tx.amount \in Nat, SelfTransfer(tx)
    PROVE  L!SelfCredit(tx.sender, tx.token, tx.amount)
<1>1. Consistent(st) /\ Numbered(st, registry)
    BY DEF IInv, TablesInv
<1>2. /\ BalanceView[tx.sender][tx.token] >= tx.amount
      /\ BalanceView' = Updated(BalanceView, tx.sender, tx.token,
                                BalanceView[tx.sender][tx.token] + tx.amount)
      /\ TransferNonceView' = TransferNonceView
      /\ WithdrawNonceView' = WithdrawNonceView
    BY <1>1, SelfTransferredOnLedger, Mapping DEF SelfTransfer
<1>3. supply' = supply
    BY DEF SelfTransfer
<1> QED  BY <1>2, <1>3 DEF L!SelfCredit, Updated

(* A crash between the two writes of a transfer is LoseInTransit.          *)
LEMMA CrashInTransferOnLedger ==
    ASSUME IInv, NEW tx, tx.sender \in Accounts, tx.recipient \in Accounts,
           tx.token \in Tokens, tx.amount \in Nat, CrashInTransfer(tx)
    PROVE  L!LoseInTransit(tx.sender, tx.token, tx.amount)
<1> DEFINE d == SenderDebited(st, tx)
           r == Reopened(d)
<1>1. Consistent(st) /\ Numbered(st, registry)
    BY DEF IInv, TablesInv
<1>2. /\ BalanceView[tx.sender][tx.token] >= tx.amount
      /\ Balances(d) = Updated(BalanceView, tx.sender, tx.token,
                               BalanceView[tx.sender][tx.token] - tx.amount)
      /\ TransferNonces(d) = Updated(TransferNonceView, tx.sender, tx.token,
                                     TransferNonceView[tx.sender][tx.token] + 1)
      /\ WithdrawNonces(d) = WithdrawNonceView
    BY <1>1, SenderDebitedOnLedger, Mapping DEF CrashInTransfer
<1>3. Consistent(d) /\ d.tokenIndex = st.tokenIndex
    BY <1>1, SenderDebitedHoldings DEF CrashInTransfer, Extends
<1>4. Numbered(d, registry)
    BY <1>1, <1>3 DEF Numbered, Slot
<1> HIDE DEF d
<1>5. Consistent(r) /\ r.tokenIndex = d.tokenIndex /\ \A x : SameHoldings(r, d, x)
    BY <1>3, ReopenedHoldings
<1> HIDE DEF r
<1>6. /\ Balances(r) = Balances(d)
      /\ TransferNonces(r) = TransferNonces(d)
      /\ WithdrawNonces(r) = WithdrawNonces(d)
    BY <1>3, <1>4, <1>5, InvisibleStep
<1>7. st' = r /\ supply' = supply
    BY DEF CrashInTransfer, r, d
<1> QED  BY <1>2, <1>6, <1>7, Mapping DEF L!LoseInTransit, Updated

(* A step that changes the tables and no holding is a stutter of the       *)
(* ledger.                                                                 *)
LEMMA Stutter ==
    ASSUME IInv, Consistent(st'), st'.tokenIndex = st.tokenIndex,
           \A b \in Accounts : SameHoldings(st', st, b), supply' = supply
    PROVE  UNCHANGED L!ledgerVars
<1>1. Consistent(st) /\ Numbered(st, registry)
    BY DEF IInv, TablesInv
<1>2. /\ Balances(st') = Balances(st)
      /\ TransferNonces(st') = TransferNonces(st)
      /\ WithdrawNonces(st') = WithdrawNonces(st)
    BY <1>1, InvisibleStep
<1> QED  BY <1>2, Mapping DEF L!ledgerVars

(* Reopening after a step without effect on the holdings has none either.  *)
LEMMA ReopenedInvisible ==
    ASSUME NEW s, NEW r, Consistent(r), r.tokenIndex = s.tokenIndex,
           \A b \in Accounts : SameHoldings(r, s, b)
    PROVE  LET q == Reopened(r)
           IN  /\ Consistent(q)
               /\ q.tokenIndex = s.tokenIndex
               /\ \A b \in Accounts : SameHoldings(q, s, b)
BY ReopenedHoldings DEF SameHoldings

(* What users cannot see: rejected transfers, panics, crashes after an     *)
(* account was created, restarts, token registrations and observations.    *)
LEMMA InvisibleActions ==
    ASSUME IInv,
           \/ \E tx : tx.recipient \in Accounts /\ (RejectTransfer(tx) \/ Panic(tx))
           \/ \E a \in Accounts, t \in Tokens : CrashAfterCreate(a, t)
           \/ Restart
           \/ \E t \in Tokens : RegisterToken(t)
           \/ \E i \in DOMAIN registry : ObserveToken(i)
    PROVE  UNCHANGED L!ledgerVars
<1>1. Consistent(st) /\ TablesInv(st, registry, spent) /\ registry \in Seq(Tokens)
    BY DEF IInv, TablesInv, TypeOK
<1>2. \A b : SameHoldings(st, st, b)
    BY DEF SameHoldings
<1>3. ASSUME NEW tx, tx.recipient \in Accounts, RejectTransfer(tx)
      PROVE  UNCHANGED L!ledgerVars
  <2>1. st' = RecipientReady(st, tx) /\ supply' = supply
      BY <1>3 DEF RejectTransfer, history
  <2>2. /\ Consistent(st') /\ st'.tokenIndex = st.tokenIndex
        /\ \A b : SameHoldings(st', st, b)
      BY <1>1, <1>3, <2>1, RecipientReadyHoldings DEF Extends
  <2> QED  BY <2>1, <2>2, Stutter
<1>4. ASSUME NEW tx, tx.recipient \in Accounts, Panic(tx)
      PROVE  UNCHANGED L!ledgerVars
  <2> DEFINE r == RecipientReady(st, tx)
  <2>1. st' = Reopened(r) /\ supply' = supply
      BY <1>4 DEF Panic, history
  <2>2. /\ Consistent(r) /\ r.tokenIndex = st.tokenIndex
        /\ \A b : SameHoldings(r, st, b)
      BY <1>1, <1>4, RecipientReadyHoldings DEF Extends
  <2> HIDE DEF r
  <2>3. /\ Consistent(st') /\ st'.tokenIndex = st.tokenIndex
        /\ \A b \in Accounts : SameHoldings(st', st, b)
      BY <2>1, <2>2, ReopenedInvisible
  <2> QED  BY <2>1, <2>3, Stutter
<1>5. ASSUME NEW a \in Accounts, NEW t \in Tokens, CrashAfterCreate(a, t)
      PROVE  UNCHANGED L!ledgerVars
  <2> DEFINE r == EnsureAccount(st, a, st.tokenIndex[t])
  <2>1. st' = Reopened(r) /\ supply' = supply
      BY <1>5 DEF CrashAfterCreate, history
  <2>2. st.tokenIndex[t] \in Nat
      BY <1>1, <1>5, SlotTyped DEF CrashAfterCreate
  <2>3. /\ Consistent(r) /\ r.tokenIndex = st.tokenIndex
        /\ \A b : SameHoldings(r, st, b)
      BY <1>1, <2>2, EnsureHoldings DEF Extends
  <2> HIDE DEF r
  <2>4. /\ Consistent(st') /\ st'.tokenIndex = st.tokenIndex
        /\ \A b \in Accounts : SameHoldings(st', st, b)
      BY <2>1, <2>3, ReopenedInvisible
  <2> QED  BY <2>1, <2>4, Stutter
<1>6. ASSUME Restart
      PROVE  UNCHANGED L!ledgerVars
  <2>1. st' = Reopened(st) /\ supply' = supply
      BY <1>6 DEF Restart, history
  <2>2. /\ Consistent(st') /\ st'.tokenIndex = st.tokenIndex
        /\ \A b \in Accounts : SameHoldings(st', st, b)
      BY <1>1, <1>2, <2>1, ReopenedInvisible
  <2> QED  BY <2>1, <2>2, Stutter
<1>7. ASSUME NEW t \in Tokens, RegisterToken(t)
      PROVE  UNCHANGED L!ledgerVars
  <2>1. st' = st /\ supply' = supply
      BY <1>7 DEF RegisterToken, history
  <2> QED  BY <1>1, <1>2, <2>1, Stutter
<1>8. ASSUME NEW i \in DOMAIN registry, ObserveToken(i)
      PROVE  UNCHANGED L!ledgerVars
  <2> DEFINE t == registry[i]
             n == i - 1
  <2>1. t \in Tokens /\ n \in Nat /\ n + 1 = i
      BY <1>1
  <2>2. /\ st' = Observed(st, t, n) /\ ~TokenMapped(st, t)
        /\ registry[n + 1] = t /\ n + 1 \in DOMAIN registry
      BY <1>8, <2>1 DEF ObserveToken, Observed
  <2>3. supply' = supply
      BY <1>8 DEF ObserveToken, history
  <2> HIDE DEF t, n
  <2>4. /\ Balances(st') = Balances(st)
        /\ TransferNonces(st') = TransferNonces(st)
        /\ WithdrawNonces(st') = WithdrawNonces(st)
      BY <1>1, <2>1, <2>2, ObservedInvisible
  <2> QED  BY <2>3, <2>4, Mapping DEF L!ledgerVars
<1> QED  BY <1>3, <1>4, <1>5, <1>6, <1>7, <1>8

(* Every step of the state machine is a step of the ledger or a stutter.   *)
LEMMA NextOnLedger == IInv /\ [Next]_vars => [L!Next]_(L!ledgerVars)
<1> SUFFICES ASSUME IInv, [Next]_vars PROVE L!Next \/ UNCHANGED L!ledgerVars
    BY DEF L!ledgerVars
<1>1. CASE \/ Restart
           \/ \E t \in Tokens : RegisterToken(t)
           \/ \E i \in DOMAIN registry : ObserveToken(i)
           \/ \E a \in Accounts, t \in Tokens : CrashAfterCreate(a, t)
    BY <1>1, InvisibleActions
<1>2. ASSUME NEW a \in Accounts, NEW t \in Tokens, NEW n \in Amounts, Deposit(DepositTx(a, t, n))
      PROVE  L!Next
  <2> DEFINE tx == DepositTx(a, t, n)
  <2>1. tx.account = a /\ tx.token = t /\ tx.amount = n /\ n \in Nat
      BY AmountsAssumption DEF DepositTx
  <2> HIDE DEF tx
  <2>2. L!Deposit(a, t, n)
      BY <1>2, <2>1, DepositOnLedger DEF tx
  <2> QED  BY <2>2 DEF L!Next
<1>3. ASSUME NEW a \in Accounts, NEW t \in Tokens, NEW n \in Amounts, NEW c \in Nonces,
             Withdraw(WithdrawTx(a, t, n, c))
      PROVE  L!Next
  <2> DEFINE tx == WithdrawTx(a, t, n, c)
  <2>1. tx.account = a /\ tx.token = t /\ tx.amount = n /\ n \in Nat
      BY AmountsAssumption DEF WithdrawTx
  <2>2. Withdraw(tx)
      BY <1>3
  <2> HIDE DEF tx
  <2>3. L!Withdraw(a, t, n)
      BY <2>1, <2>2, WithdrawOnLedger
  <2> QED  BY <2>3 DEF L!Next
<1>4. ASSUME NEW a \in Accounts, NEW r \in Accounts, NEW t \in Tokens,
             NEW n \in Amounts, NEW c \in Nonces,
             LET tx == TransferTx(a, r, t, n, c)
             IN  Transfer(tx) \/ SelfTransfer(tx) \/ RejectTransfer(tx) \/ Panic(tx)
                 \/ CrashInTransfer(tx)
      PROVE  L!Next \/ UNCHANGED L!ledgerVars
  <2> DEFINE tx == TransferTx(a, r, t, n, c)
  <2>1. tx.sender = a /\ tx.recipient = r /\ tx.token = t /\ tx.amount = n /\ n \in Nat
      BY AmountsAssumption DEF TransferTx
  <2>2. Transfer(tx) \/ SelfTransfer(tx) \/ RejectTransfer(tx) \/ Panic(tx) \/ CrashInTransfer(tx)
      BY <1>4
  <2> HIDE DEF tx
  <2>3. CASE Transfer(tx)
    <3>1. L!Transfer(a, r, t, n)
        BY <2>1, <2>3, TransferOnLedger
    <3> QED  BY <3>1 DEF L!Next
  <2>4. CASE SelfTransfer(tx)
    <3>1. L!SelfCredit(a, t, n)
        BY <2>1, <2>4, SelfTransferOnLedger
    <3> QED  BY <3>1 DEF L!Next
  <2>5. CASE RejectTransfer(tx) \/ Panic(tx)
      BY <2>1, <2>5, InvisibleActions
  <2>6. CASE CrashInTransfer(tx)
    <3>1. L!LoseInTransit(a, t, n)
        BY <2>1, <2>6, CrashInTransferOnLedger
    <3> QED  BY <3>1 DEF L!Next
  <2> QED  BY <2>2, <2>3, <2>4, <2>5, <2>6
<1>5. CASE UNCHANGED vars
    BY <1>5 DEF vars, L!ledgerVars, BalanceView, TransferNonceView, WithdrawNonceView
<1> QED  BY <1>1, <1>2, <1>3, <1>4, <1>5 DEF Next

(* The state machine implements the ledger: whatever the interleaving of   *)
(* transactions, registrations, crashes and restarts, users see deposits,  *)
(* withdrawals and transfers, the two named deviations, and nothing else.  *)
THEOREM ImplementsLedger == Spec => RefinesLedger
<1>1. Init => L!Init
    BY InitOnLedger
<1>2. IInv /\ [Next]_vars => [L!Next]_(L!ledgerVars)
    BY NextOnLedger
<1> QED  BY <1>1, <1>2, Invariant, PTL DEF Spec, RefinesLedger, L!Spec

-----------------------------------------------------------------------------
(* Conservation.  The sum runs over the slots, so an operation is followed *)
(* by what it does to the slots and by what it does to one balance.        *)

SameSlots(r, s) == r.lastKey = s.lastKey /\ r.keyOf = s.keyOf

Directed(s) ==
    /\ s.lastKey + 1 \in Nat
    /\ DOMAIN s.keyOf \subseteq Accounts
    /\ \A k \in 1..(s.lastKey + 1) : /\ s.infoAt[k - 1].account \in DOMAIN s.keyOf
                                     /\ s.keyOf[s.infoAt[k - 1].account] = k - 1
    /\ \A a \in DOMAIN s.keyOf : /\ s.keyOf[a] \in Nat
                                 /\ s.keyOf[a] + 1 \in 1..(s.lastKey + 1)
                                 /\ s.infoAt[s.keyOf[a]].account = a

(* Slots and accounts stand for each other.                                *)
LEMMA SlotsDirected ==
    ASSUME NEW s, Consistent(s)
    PROVE  Directed(s)
<1>1. /\ s.lastKey \in Int /\ s.lastKey + 1 \in Nat
      /\ DOMAIN s.infoAt = 0..s.lastKey /\ DOMAIN s.keyOf \subseteq Accounts
      /\ \A k \in DOMAIN s.infoAt : /\ s.infoAt[k].account \in DOMAIN s.keyOf
                                    /\ s.keyOf[s.infoAt[k].account] = k
      /\ \A a \in DOMAIN s.keyOf : /\ s.keyOf[a] \in DOMAIN s.infoAt
                                   /\ s.infoAt[s.keyOf[a]].account = a
    BY DEF Consistent, TablesTyped, SlotsAssigned
<1>2. \A k \in 1..(s.lastKey + 1) : k - 1 \in DOMAIN s.infoAt
    BY <1>1
<1>3. \A k \in DOMAIN s.infoAt : k \in Nat /\ k + 1 \in 1..(s.lastKey + 1)
    BY <1>1
<1> QED  BY <1>1, <1>2, <1>3 DEF Directed

(* The sum has a term for every slot.                                      *)
LEMMA HeldInSlotsTyped ==
    ASSUME NEW s, Consistent(s), NEW t
    PROVE  /\ HeldInSlots(s, t) \in Seq(Int)
           /\ Len(HeldInSlots(s, t)) = s.lastKey + 1
           /\ \A k \in 1..(s.lastKey + 1) :
                 HeldInSlots(s, t)[k] = BalanceOf(s, s.infoAt[k - 1].account, t)
           /\ \A a : BalanceOf(s, a, t) \in Int
<1> DEFINE n == s.lastKey + 1
           held == HeldInSlots(s, t)
<1>1. n \in Nat
    BY SlotsDirected DEF Directed
<1>2. \A a : BalanceOf(s, a, t) \in Int
  <2> SUFFICES ASSUME NEW a PROVE BalanceOf(s, a, t) \in Int
      OBVIOUS
  <2>1. BalanceOf(s, a, t) = IF TokenMapped(s, t) THEN Bal(s, a, Slot(s, t)) ELSE 0
      BY ViewsAreHoldings
  <2>2. TokenMapped(s, t) => Bal(s, a, Slot(s, t)) \in Nat
      BY SlotTyped, HoldingsTyped
  <2> QED  BY <2>1, <2>2
<1>3. held = [k \in 1..n |-> BalanceOf(s, s.infoAt[k - 1].account, t)]
    BY DEF HeldInSlots
<1>4. held \in Seq(Int) /\ Len(held) = n
    BY <1>1, <1>2, <1>3
<1> HIDE DEF held
<1> QED  BY <1>2, <1>3, <1>4 DEF held

(* With the same slots the same accounts stand at the same places.         *)
LEMMA SameSlotsSameAccounts ==
    ASSUME NEW s, Consistent(s), NEW r, Consistent(r), SameSlots(r, s),
           NEW k \in 1..(s.lastKey + 1)
    PROVE  r.infoAt[k - 1].account = s.infoAt[k - 1].account
<1> DEFINE b == r.infoAt[k - 1].account
<1>1. b \in DOMAIN s.keyOf /\ s.keyOf[b] = k - 1
  <2>1. Directed(r)
      BY SlotsDirected
  <2> QED  BY <2>1 DEF SameSlots, Directed
<1> HIDE DEF b
<1>2. s.infoAt[s.keyOf[b]].account = b
    BY <1>1, SlotsDirected DEF Directed
<1> QED  BY <1>1, <1>2 DEF b

(* When no balance changes, the sums do not.                               *)
LEMMA TotalSame ==
    ASSUME NEW s, Consistent(s), NEW r, Consistent(r), SameSlots(r, s),
           Balances(r) = Balances(s), NEW t \in Tokens
    PROVE  TotalBalance(r, t) = TotalBalance(s, t)
<1>1. \A a \in Accounts : BalanceOf(r, a, t) = BalanceOf(s, a, t)
    BY DEF Balances
<1>2. ASSUME NEW k \in 1..(s.lastKey + 1)
      PROVE  BalanceOf(r, r.infoAt[k - 1].account, t) = BalanceOf(s, s.infoAt[k - 1].account, t)
  <2>1. r.infoAt[k - 1].account = s.infoAt[k - 1].account
      BY SameSlotsSameAccounts
  <2>2. s.infoAt[k - 1].account \in Accounts
      BY SlotsDirected DEF Directed
  <2> QED  BY <1>1, <2>1, <2>2
<1>3. HeldInSlots(r, t) = HeldInSlots(s, t)
    BY <1>2 DEF HeldInSlots, SameSlots
<1> QED  BY <1>3 DEF TotalBalance

(* One entry of a table of tables is replaced.                             *)
LEMMA UpdatedEntry ==
    ASSUME NEW f, NEW a \in Accounts, NEW t \in Tokens, NEW v, NEW b \in Accounts, NEW u \in Tokens,
           f = [x \in Accounts |-> [y \in Tokens |-> f[x][y]]]
    PROVE  Updated(f, a, t, v)[b][u] = IF b = a /\ u = t THEN v ELSE f[b][u]
<1>1. DOMAIN f = Accounts /\ DOMAIN f[a] = Tokens
    OBVIOUS
<1>2. Updated(f, a, t, v)[b] = IF b = a THEN [f[a] EXCEPT ![t] = v] ELSE f[b]
    BY <1>1 DEF Updated
<1> QED  BY <1>1, <1>2

(* When one balance of an account that exists changes, so does one sum.    *)
LEMMA TotalChanges ==
    ASSUME NEW s, Consistent(s), NEW r, Consistent(r), SameSlots(r, s),
           NEW a \in Accounts, a \in DOMAIN s.keyOf, NEW t \in Tokens, NEW n \in Int,
           Balances(r) = Updated(Balances(s), a, t, Balances(s)[a][t] + n),
           NEW u \in Tokens
    PROVE  TotalBalance(r, u) = TotalBalance(s, u) + (IF u = t THEN n ELSE 0)
<1> DEFINE x == HeldInSlots(s, u)
           y == HeldInSlots(r, u)
           k == s.keyOf[a] + 1
<1>1. ASSUME NEW b \in Accounts
      PROVE  BalanceOf(r, b, u) = IF b = a /\ u = t THEN BalanceOf(s, b, u) + n
                                                    ELSE BalanceOf(s, b, u)
  <2>1. /\ Balances(s) = [c \in Accounts |-> [v \in Tokens |-> Balances(s)[c][v]]]
        /\ Balances(r)[b][u] = BalanceOf(r, b, u)
        /\ \A c \in Accounts, v \in Tokens : Balances(s)[c][v] = BalanceOf(s, c, v)
      BY DEF Balances
  <2>2. Balances(r)[b][u] = IF b = a /\ u = t THEN Balances(s)[a][t] + n ELSE Balances(s)[b][u]
      BY <2>1, UpdatedEntry
  <2> QED  BY <2>1, <2>2
<1>2. /\ x \in Seq(Int) /\ y \in Seq(Int) /\ Len(y) = Len(x)
      /\ Len(x) = s.lastKey + 1
      /\ \A m \in 1..Len(x) : /\ x[m] = BalanceOf(s, s.infoAt[m - 1].account, u)
                               /\ y[m] = BalanceOf(r, r.infoAt[m - 1].account, u)
  <2>1. /\ x \in Seq(Int) /\ Len(x) = s.lastKey + 1
        /\ \A m \in 1..(s.lastKey + 1) : x[m] = BalanceOf(s, s.infoAt[m - 1].account, u)
      BY HeldInSlotsTyped
  <2>2. /\ y \in Seq(Int) /\ Len(y) = r.lastKey + 1
        /\ \A m \in 1..(r.lastKey + 1) : y[m] = BalanceOf(r, r.infoAt[m - 1].account, u)
      BY HeldInSlotsTyped
  <2> QED  BY <2>1, <2>2 DEF SameSlots
<1>3. Directed(s)
    BY SlotsDirected
<1>4. k \in 1..Len(x) /\ s.infoAt[k - 1].account = a
  <2>1. s.keyOf[a] \in Nat /\ k \in 1..(s.lastKey + 1) /\ s.infoAt[s.keyOf[a]].account = a
      BY <1>3 DEF Directed
  <2>2. k - 1 = s.keyOf[a]
      BY <2>1
  <2> HIDE DEF k
  <2> QED  BY <1>2, <2>1, <2>2
<1>5. ASSUME NEW m \in 1..Len(x), NEW b, b = s.infoAt[m - 1].account
      PROVE  /\ b \in Accounts /\ x[m] = BalanceOf(s, b, u) /\ y[m] = BalanceOf(r, b, u)
             /\ b = a => m = k
  <2>1. b \in Accounts /\ s.keyOf[b] = m - 1
      BY <1>2, <1>3, <1>5 DEF Directed
  <2>2. r.infoAt[m - 1].account = b
      BY <1>2, <1>5, SameSlotsSameAccounts
  <2> QED  BY <1>2, <1>5, <2>1, <2>2
<1>6. \A m \in 1..Len(x) : m # k => y[m] = x[m]
    BY <1>1, <1>5
<1>7. y[k] = IF u = t THEN x[k] + n ELSE x[k]
    BY <1>1, <1>4, <1>5
<1> HIDE DEF x, y, k
<1>8. SumOf(y) = SumOf(x) - x[k] + y[k]
    BY <1>2, <1>4, <1>6, SumsDiffer
<1>9. SumOf(x) \in Int /\ x[k] \in Int
    BY <1>2, <1>4, SumTyped
<1>10. SumOf(y) = SumOf(x) + (IF u = t THEN n ELSE 0)
    BY <1>7, <1>8, <1>9
<1> QED  BY <1>10 DEF TotalBalance, x, y

(* A new account has nothing.                                              *)
LEMMA TotalEnsured ==
    ASSUME NEW s, Consistent(s), NEW reg, Numbered(s, reg),
           NEW a \in Accounts, NEW index \in Nat, NEW t \in Tokens
    PROVE  LET r == EnsureAccount(s, a, index)
           IN  Balances(r) = Balances(s) /\ TotalBalance(r, t) = TotalBalance(s, t)
<1> DEFINE r == EnsureAccount(s, a, index)
<1>1. Extends(r, s) /\ \A b : SameHoldings(r, s, b)
    BY EnsureHoldings
<1>2. Consistent(r) /\ Balances(r) = Balances(s)
    BY <1>1, InvisibleStep DEF Extends
<1>3. CASE HasAccount(s, a)
    BY <1>3 DEF EnsureAccount
<1>4. CASE ~HasAccount(s, a)
  <2> DEFINE key == s.lastKey + 1
             x == HeldInSlots(s, t)
             y == HeldInSlots(r, t)
  <2>1. r = CreateAccount(s, a, index + 1)
      BY <1>4 DEF EnsureAccount
  <2>2. r.lastKey = key /\ r.keyOf = Put(s.keyOf, a, key)
      BY <2>1 DEF CreateAccount, Consistent, TablesTyped
  <2>3. a \notin DOMAIN s.keyOf /\ r.keyOf = [b \in DOMAIN s.keyOf \cup {a} |->
                                                 IF b = a THEN key ELSE s.keyOf[b]]
      BY <1>4, <2>2 DEF Put, HasAccount
  <2>4. /\ x \in Seq(Int) /\ y \in Seq(Int) /\ Len(x) = key /\ Len(y) = key + 1 /\ key \in Nat
        /\ \A k \in 1..key : x[k] = BalanceOf(s, s.infoAt[k - 1].account, t)
        /\ \A k \in 1..(key + 1) : y[k] = BalanceOf(r, r.infoAt[k - 1].account, t)
    <3>1. /\ x \in Seq(Int) /\ Len(x) = key
          /\ \A k \in 1..key : x[k] = BalanceOf(s, s.infoAt[k - 1].account, t)
        BY HeldInSlotsTyped
    <3>2. /\ y \in Seq(Int) /\ Len(y) = key + 1
          /\ \A k \in 1..(key + 1) : y[k] = BalanceOf(r, r.infoAt[k - 1].account, t)
      <4> HIDE DEF r
      <4> QED  BY <1>2, <2>2, HeldInSlotsTyped
    <3>3. key \in Nat
        BY SlotsDirected DEF Directed
    <3> QED  BY <3>1, <3>2, <3>3
  <2>5. \A b \in Accounts : BalanceOf(r, b, t) = BalanceOf(s, b, t)
      BY <1>2 DEF Balances
  <2> HIDE DEF r, key
  <2>6. ASSUME NEW k \in 1..key PROVE y[k] = x[k]
    <3>1. /\ k \in 1..(s.lastKey + 1) /\ k \in 1..(r.lastKey + 1) /\ k - 1 # key
        BY <2>2, <2>4 DEF key
    <3>2. /\ r.infoAt[k - 1].account \in DOMAIN r.keyOf
          /\ r.keyOf[r.infoAt[k - 1].account] = k - 1
        BY <1>2, <3>1, SlotsDirected DEF Directed
    <3>3. /\ r.infoAt[k - 1].account \in DOMAIN s.keyOf
          /\ s.keyOf[r.infoAt[k - 1].account] = k - 1
        BY <2>3, <3>1, <3>2
    <3>4. s.infoAt[k - 1].account = r.infoAt[k - 1].account
        BY <3>3, SlotsDirected DEF Directed
    <3>5. s.infoAt[k - 1].account \in Accounts
        BY <3>1, SlotsDirected DEF Directed
    <3>6. k \in 1..(key + 1)
        BY <2>4
    <3>7. x[k] = BalanceOf(s, s.infoAt[k - 1].account, t)
        BY <2>4
    <3>8. y[k] = BalanceOf(r, r.infoAt[k - 1].account, t)
        BY <2>4, <3>6
    <3> QED  BY <2>5, <3>4, <3>5, <3>7, <3>8
  <2>7. y[key + 1] = 0
    <3>1. key + 1 \in 1..(r.lastKey + 1) /\ (key + 1) - 1 = key
        BY <2>2, <2>4
    <3>2. /\ r.infoAt[key].account \in DOMAIN r.keyOf
          /\ r.keyOf[r.infoAt[key].account] = key
        BY <1>2, <3>1, SlotsDirected DEF Directed
    <3>3. ASSUME NEW b \in DOMAIN s.keyOf PROVE s.keyOf[b] # key
      <4>1. s.keyOf[b] + 1 \in 1..(s.lastKey + 1)
          BY SlotsDirected DEF Directed
      <4>2. s.keyOf[b] \in Nat
          BY DEF Consistent, TablesTyped
      <4> QED  BY <2>4, <4>1, <4>2 DEF key
    <3>4. r.infoAt[key].account = a
        BY <2>3, <3>2, <3>3
    <3>5. BalanceOf(s, a, t) = 0
        BY <1>4 DEF BalanceOf, Holds
    <3> QED  BY <2>4, <2>5, <3>1, <3>4, <3>5
  <2> HIDE DEF x, y
  <2>8. Append(x, 0) \in Seq(Int) /\ Len(Append(x, 0)) = key + 1
        /\ (\A k \in 1..key : Append(x, 0)[k] = x[k]) /\ Append(x, 0)[key + 1] = 0
      BY <2>4
  <2>9. \A k \in 1..(key + 1) : y[k] = Append(x, 0)[k]
      BY <2>4, <2>6, <2>7, <2>8
  <2>10. y = Append(x, 0)
      BY <2>4, <2>8, <2>9, SeqEqual
  <2>11. SumOf(y) = SumOf(x) + 0 /\ SumOf(x) \in Int
      BY <2>4, <2>10, SumAppend, SumTyped
  <2>12. SumOf(y) = SumOf(x)
      BY <2>11
  <2> QED  BY <1>2, <2>12 DEF TotalBalance, x, y, r
<1> QED  BY <1>2, <1>3, <1>4

(* A write of one account keeps the slots; so does a restart.              *)
LEMMA SetKeepsSlots ==
    ASSUME NEW s, Consistent(s), NEW a, NEW info
    PROVE  SameSlots(SetAccountInfo(s, a, info), s)
  BY DEF SetAccountInfo, SameSlots, Consistent, TablesTyped

(* An account opened again has what it had.                                *)
LEMMA TotalReopened ==
    ASSUME NEW s, Consistent(s), NEW t \in Tokens
    PROVE  TotalBalance(Reopened(s), t) = TotalBalance(s, t)
<1> DEFINE r == Reopened(s)
<1>1. /\ r.infoAt = s.infoAt /\ r.keyOf = s.keyOf /\ r.tokenIndex = s.tokenIndex
      /\ r.lastKey = s.lastKey
    BY DEF Reopened, Consistent, TablesTyped
<1> HIDE DEF r
<1>2. \A a : BalanceOf(r, a, t) = BalanceOf(s, a, t)
    BY <1>1 DEF BalanceOf, Holds, HasAccount, TokenMapped, GetAccountInfo
<1>3. HeldInSlots(r, t) = HeldInSlots(s, t)
    BY <1>1, <1>2 DEF HeldInSlots
<1> QED  BY <1>3 DEF TotalBalance, r

(* What a deposit, a withdrawal and the two halves of a transfer do to the *)
(* sums.                                                                   *)
LEMMA TotalDeposited ==
    ASSUME NEW s, Consistent(s), NEW reg, Numbered(s, reg), NEW tx, DepositAccepted(s, tx),
           tx.account \in Accounts, tx.token \in Tokens, tx.amount \in Nat, NEW u \in Tokens
    PROVE  TotalBalance(Deposited(s, tx), u) =
               TotalBalance(s, u) + (IF u = tx.token THEN tx.amount ELSE 0)
<1> DEFINE a == tx.account
           t == tx.token
           index == s.tokenIndex[t]
           m == EnsureAccount(s, a, index)
           r == Deposited(s, tx)
           info == MaybeExpandAccountInfo(GetAccountInfo(m, a), index)
           new == [info EXCEPT !.balances[index + 1] = @ + tx.amount]
<1>1. index \in Nat
    BY SlotTyped DEF DepositAccepted
<1>2. Consistent(m) /\ a \in DOMAIN m.keyOf
    BY <1>1, EnsureHoldings DEF Extends
<1>3. Balances(m) = Balances(s) /\ TotalBalance(m, u) = TotalBalance(s, u)
    BY <1>1, TotalEnsured
<1>4. Consistent(r) /\ Balances(r) = Updated(Balances(s), a, t, Balances(s)[a][t] + tx.amount)
    BY DepositedHoldings, DepositedOnLedger DEF Extends
<1>5. r = SetAccountInfo(m, a, new)
    BY DEF Deposited
<1> HIDE DEF new, m, r
<1>6. SameSlots(r, m)
    BY <1>2, <1>5, SetKeepsSlots
<1>7. Balances(r) = Updated(Balances(m), a, t, Balances(m)[a][t] + tx.amount)
    BY <1>3, <1>4
<1>8. TotalBalance(r, u) = TotalBalance(m, u) + (IF u = t THEN tx.amount ELSE 0)
    BY <1>2, <1>4, <1>6, <1>7, TotalChanges
<1> QED  BY <1>3, <1>8 DEF r

(* A withdrawal takes its amount out of the total of its token.            *)
LEMMA TotalWithdrawn ==
    ASSUME NEW s, Consistent(s), NEW reg, Numbered(s, reg), NEW tx, WithdrawAccepted(s, tx),
           tx.account \in Accounts, tx.token \in Tokens, tx.amount \in Nat, NEW u \in Tokens
    PROVE  TotalBalance(Withdrawn(s, tx), u) =
               TotalBalance(s, u) - (IF u = tx.token THEN tx.amount ELSE 0)
<1> DEFINE a == tx.account
           t == tx.token
           n == -tx.amount
           r == Withdrawn(s, tx)
<1>1. n \in Int /\ a \in DOMAIN s.keyOf
    BY DEF WithdrawAccepted, HasAccount
<1>2. /\ Consistent(r)
      /\ Balances(r) = Updated(Balances(s), a, t, Balances(s)[a][t] - tx.amount)
    BY WithdrawnHoldings, WithdrawnOnLedger DEF Extends
<1>3. SameSlots(r, s)
    BY SetKeepsSlots DEF Withdrawn
<1>4. Balances(s)[a][t] \in Int
    BY HeldInSlotsTyped DEF Balances
<1>5. Balances(r) = Updated(Balances(s), a, t, Balances(s)[a][t] + n)
    BY <1>2, <1>4
<1> HIDE DEF r
<1>6. TotalBalance(r, u) = TotalBalance(s, u) + (IF u = t THEN n ELSE 0)
    BY <1>1, <1>2, <1>3, <1>5, TotalChanges
<1>7. TotalBalance(s, u) \in Int
    BY HeldInSlotsTyped, SumTyped DEF TotalBalance
<1> QED  BY <1>6, <1>7 DEF r

(* A recipient made ready brings nothing with it.                          *)
LEMMA RecipientReadyTotals ==
    ASSUME NEW s, Consistent(s), NEW reg, Numbered(s, reg), NEW tx,
           tx.recipient \in Accounts, NEW u \in Tokens
    PROVE  LET m == RecipientReady(s, tx)
           IN  /\ Consistent(m)
               /\ Balances(m) = Balances(s)
               /\ TotalBalance(m, u) = TotalBalance(s, u)
<1> DEFINE m == RecipientReady(s, tx)
           index == s.tokenIndex[tx.token]
<1>1. Consistent(m)
    BY RecipientReadyHoldings DEF Extends
<1>2. CASE TokenMapped(s, tx.token)
  <2>1. index \in Nat
      BY <1>2, SlotTyped
  <2>2. m = EnsureAccount(s, tx.recipient, index)
      BY <1>2 DEF RecipientReady
  <2> HIDE DEF m
  <2>3. Balances(m) = Balances(s) /\ TotalBalance(m, u) = TotalBalance(s, u)
      BY <2>1, <2>2, TotalEnsured
  <2> QED  BY <1>1, <2>3 DEF m
<1>3. CASE ~TokenMapped(s, tx.token)
    BY <1>1, <1>3 DEF RecipientReady
<1> QED  BY <1>2, <1>3

(* The sender's part of a transfer takes the amount out of the total.      *)
LEMMA TotalDebited ==
    ASSUME NEW s, Consistent(s), NEW reg, Numbered(s, reg), NEW tx, TransferAccepted(s, tx),
           tx.sender \in Accounts, tx.recipient \in Accounts,
           tx.token \in Tokens, tx.amount \in Nat, NEW u \in Tokens
    PROVE  TotalBalance(SenderDebited(s, tx), u) =
               TotalBalance(s, u) - (IF u = tx.token THEN tx.amount ELSE 0)
<1> DEFINE a == tx.sender
           t == tx.token
           n == -tx.amount
           m == RecipientReady(s, tx)
           d == SenderDebited(s, tx)
<1>1. /\ Consistent(m) /\ Balances(m) = Balances(s)
      /\ TotalBalance(m, u) = TotalBalance(s, u) /\ a \in DOMAIN m.keyOf
    BY RecipientReadyTotals, TransferAcceptedHoldings
<1>2. /\ Consistent(d)
      /\ Balances(d) = Updated(Balances(s), a, t, Balances(s)[a][t] - tx.amount)
    BY SenderDebitedHoldings, SenderDebitedOnLedger DEF Extends
<1>3. SameSlots(d, m)
    BY <1>1, SetKeepsSlots DEF SenderDebited
<1> HIDE DEF d, m
<1>4. Balances(m)[a][t] \in Int
    BY <1>1, HeldInSlotsTyped DEF Balances
<1>5. n \in Int /\ Balances(d) = Updated(Balances(m), a, t, Balances(m)[a][t] + n)
    BY <1>1, <1>2, <1>4
<1>6. TotalBalance(d, u) = TotalBalance(m, u) + (IF u = t THEN n ELSE 0)
    BY <1>1, <1>2, <1>3, <1>5, TotalChanges
<1>7. TotalBalance(m, u) \in Int
    BY <1>1, HeldInSlotsTyped, SumTyped DEF TotalBalance
<1> QED  BY <1>1, <1>6, <1>7 DEF d

(* The recipient's part puts it back, twice for an account that pays       *)
(* itself.                                                                 *)
LEMMA TotalTransferred ==
    ASSUME NEW s, Consistent(s), NEW reg, Numbered(s, reg), NEW tx, TransferAccepted(s, tx),
           tx.sender \in Accounts, tx.recipient \in Accounts,
           tx.token \in Tokens, tx.amount \in Nat, NEW u \in Tokens
    PROVE  TotalBalance(Transferred(s, tx), u) =
               TotalBalance(s, u)
                 + (IF tx.sender = tx.recipient /\ u = tx.token THEN tx.amount ELSE 0)
<1> DEFINE a == tx.sender
           b == tx.recipient
           t == tx.token
           m == RecipientReady(s, tx)
           d == SenderDebited(s, tx)
           r == Transferred(s, tx)
<1>1. /\ Consistent(m) /\ Balances(m) = Balances(s) /\ TotalBalance(m, u) = TotalBalance(s, u)
      /\ a \in DOMAIN m.keyOf /\ b \in DOMAIN m.keyOf
    BY RecipientReadyTotals, TransferAcceptedHoldings
<1>2. Consistent(d) /\ d.keyOf = m.keyOf /\ SameSlots(d, m)
  <2>1. Consistent(d)
      BY SenderDebitedHoldings DEF Extends
  <2>2. SameSlots(d, m)
      BY <1>1, SetKeepsSlots DEF SenderDebited
  <2> QED  BY <2>1, <2>2 DEF SameSlots
<1>3. r = SetAccountInfo(d, b, RecipientCredited(s, tx))
    BY DEF Transferred
<1> HIDE DEF d, r, m
<1>4. SameSlots(r, d) /\ SameSlots(r, m)
    BY <1>2, <1>3, SetKeepsSlots DEF SameSlots
<1>5. CASE a # b
  <2>1. Consistent(r) /\ Balances(r) = Updated(Balances(d), b, t, Balances(d)[b][t] + tx.amount)
      BY <1>5, TransferredHoldings, TransferredOnLedger DEF Extends, r, d
  <2>2. TotalBalance(r, u) = TotalBalance(d, u) + (IF u = t THEN tx.amount ELSE 0)
      BY <1>1, <1>2, <1>4, <2>1, TotalChanges
  <2>3. TotalBalance(d, u) = TotalBalance(s, u) - (IF u = t THEN tx.amount ELSE 0)
      BY TotalDebited DEF d
  <2>4. TotalBalance(s, u) \in Int
      BY HeldInSlotsTyped, SumTyped DEF TotalBalance
  <2> QED  BY <1>5, <2>2, <2>3, <2>4 DEF r
<1>6. CASE a = b
  <2>1. Consistent(r) /\ Balances(r) = Updated(Balances(s), a, t, Balances(s)[a][t] + tx.amount)
      BY <1>6, SelfTransferredHoldings, SelfTransferredOnLedger DEF Extends, r
  <2>2. Balances(r) = Updated(Balances(m), a, t, Balances(m)[a][t] + tx.amount)
      BY <1>1, <2>1
  <2>3. TotalBalance(r, u) = TotalBalance(m, u) + (IF u = t THEN tx.amount ELSE 0)
      BY <1>1, <1>4, <2>1, <2>2, TotalChanges
  <2> QED  BY <1>1, <1>6, <2>3 DEF r
<1> QED  BY <1>5, <1>6

(* The initial tables hold nothing.                                        *)
LEMMA InitBooked == Init => SupplyAccounted
<1> SUFFICES ASSUME Init, NEW t \in Tokens PROVE TotalBalance(st, t) = supply[t] + drift[t]
    BY DEF SupplyAccounted
<1> DEFINE x == HeldInSlots(st, t)
<1>1. Consistent(st) /\ st.lastKey = -1
    BY InitIInv DEF IInv, TablesInv, Init, InitState
<1>2. x \in Seq(Int) /\ Len(x) = 0
    BY <1>1, HeldInSlotsTyped
<1> HIDE DEF x
<1>3. PICK f : Adding(f, x) /\ SumOf(x) = f[Len(x)]
    BY <1>2, SumUnfolds
<1>4. SumOf(x) = 0
    BY <1>2, <1>3 DEF Adding
<1>5. supply[t] = 0 /\ drift[t] = 0
    BY DEF Init
<1> QED  BY <1>4, <1>5 DEF TotalBalance, x

(* What a step does to the books: accepted transactions.                   *)
LEMMA TransactionsBooked ==
    ASSUME IInv, SupplyAccounted, NEW tx, tx.token \in Tokens, tx.amount \in Nat,
           \/ tx.account \in Accounts /\ (Deposit(tx) \/ Withdraw(tx))
           \/ /\ tx.sender \in Accounts /\ tx.recipient \in Accounts
              /\ Transfer(tx) \/ SelfTransfer(tx) \/ CrashInTransfer(tx)
    PROVE  SupplyAccounted'
<1> SUFFICES ASSUME NEW u \in Tokens PROVE TotalBalance(st', u) = supply'[u] + drift'[u]
    BY DEF SupplyAccounted
<1> DEFINE n == IF u = tx.token THEN tx.amount ELSE 0
           before == TotalBalance(st, u)
<1>1. /\ Consistent(st) /\ Numbered(st, registry)
      /\ supply \in [Tokens -> Int] /\ drift \in [Tokens -> Int]
    BY DEF IInv, TablesInv, TypeOK
<1>2. /\ before = supply[u] + drift[u] /\ supply[u] \in Int /\ drift[u] \in Int /\ n \in Int
      /\ before \in Int
    BY <1>1 DEF SupplyAccounted
<1> HIDE DEF before
<1>3. CASE tx.account \in Accounts /\ Deposit(tx)
  <2>1. TotalBalance(st', u) = before + n
      BY <1>1, <1>3, TotalDeposited DEF Deposit, before
  <2>2. supply'[u] = supply[u] + n /\ drift'[u] = drift[u]
      BY <1>1, <1>2, <1>3 DEF Deposit
  <2> QED  BY <1>2, <2>1, <2>2
<1>4. CASE tx.account \in Accounts /\ Withdraw(tx)
  <2>1. TotalBalance(st', u) = before - n
      BY <1>1, <1>4, TotalWithdrawn DEF Withdraw, before
  <2>2. supply'[u] = supply[u] - n /\ drift'[u] = drift[u]
      BY <1>1, <1>2, <1>4 DEF Withdraw
  <2> QED  BY <1>2, <2>1, <2>2
<1>5. CASE tx.sender \in Accounts /\ tx.recipient \in Accounts /\ Transfer(tx)
  <2>1. TotalBalance(st', u) = before + 0
      BY <1>1, <1>5, TotalTransferred DEF Transfer, before
  <2>2. supply'[u] = supply[u] /\ drift'[u] = drift[u]
      BY <1>5 DEF Transfer
  <2> QED  BY <1>2, <2>1, <2>2
<1>6. CASE tx.sender \in Accounts /\ tx.recipient \in Accounts /\ SelfTransfer(tx)
  <2>1. TotalBalance(st', u) = before + n
      BY <1>1, <1>6, TotalTransferred DEF SelfTransfer, before
  <2>2. supply'[u] = supply[u] /\ drift'[u] = drift[u] + n
      BY <1>1, <1>2, <1>6 DEF SelfTransfer
  <2> QED  BY <1>2, <2>1, <2>2
<1>7. CASE tx.sender \in Accounts /\ tx.recipient \in Accounts /\ CrashInTransfer(tx)
  <2> DEFINE d == SenderDebited(st, tx)
  <2>1. st' = Reopened(d) /\ TransferAccepted(st, tx)
      BY <1>7 DEF CrashInTransfer
  <2>2. Consistent(d) /\ TotalBalance(d, u) = before - n
      BY <1>1, <1>7, <2>1, TotalDebited, SenderDebitedHoldings DEF Extends, before
  <2> HIDE DEF d
  <2>3. TotalBalance(st', u) = before - n
      BY <2>1, <2>2, TotalReopened
  <2>4. supply'[u] = supply[u] /\ drift'[u] = drift[u] - n
      BY <1>1, <1>2, <1>7 DEF CrashInTransfer
  <2> QED  BY <1>2, <2>3, <2>4
<1> QED  BY <1>3, <1>4, <1>5, <1>6, <1>7

(* Everything else leaves the books alone.                                 *)
LEMMA InvisibleBooked ==
    ASSUME IInv, SupplyAccounted,
           \/ \E tx : tx.recipient \in Accounts /\ (RejectTransfer(tx) \/ Panic(tx))
           \/ \E a \in Accounts, t \in Tokens : CrashAfterCreate(a, t)
           \/ Restart
           \/ \E t \in Tokens : RegisterToken(t)
           \/ \E i \in DOMAIN registry : ObserveToken(i)
    PROVE  SupplyAccounted'
<1>1. /\ Consistent(st) /\ Numbered(st, registry)
      /\ TablesInv(st, registry, spent) /\ registry \in Seq(Tokens)
    BY DEF IInv, TablesInv, TypeOK
<1>2. supply' = supply /\ drift' = drift
    BY DEF RejectTransfer, Panic, CrashAfterCreate, Restart, RegisterToken, ObserveToken, history
<1> SUFFICES ASSUME NEW u \in Tokens PROVE TotalBalance(st', u) = TotalBalance(st, u)
    BY <1>2 DEF SupplyAccounted
<1>3. ASSUME NEW tx, tx.recipient \in Accounts, RejectTransfer(tx) \/ Panic(tx)
      PROVE  TotalBalance(st', u) = TotalBalance(st, u)
  <2> DEFINE m == RecipientReady(st, tx)
  <2>1. Consistent(m) /\ TotalBalance(m, u) = TotalBalance(st, u)
      BY <1>1, <1>3, RecipientReadyTotals
  <2>2. st' = m \/ st' = Reopened(m)
      BY <1>3 DEF RejectTransfer, Panic
  <2> HIDE DEF m
  <2> QED  BY <2>1, <2>2, TotalReopened
<1>4. ASSUME NEW a \in Accounts, NEW t \in Tokens, CrashAfterCreate(a, t)
      PROVE  TotalBalance(st', u) = TotalBalance(st, u)
  <2> DEFINE m == EnsureAccount(st, a, st.tokenIndex[t])
  <2>1. st.tokenIndex[t] \in Nat
      BY <1>1, <1>4, SlotTyped DEF CrashAfterCreate
  <2>2. Consistent(m) /\ TotalBalance(m, u) = TotalBalance(st, u)
      BY <1>1, <2>1, EnsureHoldings, TotalEnsured DEF Extends
  <2>3. st' = Reopened(m)
      BY <1>4 DEF CrashAfterCreate
  <2> HIDE DEF m
  <2> QED  BY <2>2, <2>3, TotalReopened
<1>5. CASE Restart
    BY <1>1, <1>5, TotalReopened DEF Restart
<1>6. CASE \E t \in Tokens : RegisterToken(t)
    BY <1>6 DEF RegisterToken
<1>7. ASSUME NEW i \in DOMAIN registry, ObserveToken(i)
      PROVE  TotalBalance(st', u) = TotalBalance(st, u)
  <2> DEFINE t == registry[i]
             n == i - 1
  <2>1. t \in Tokens /\ n \in Nat /\ n + 1 = i
      BY <1>1
  <2>2. /\ st' = Observed(st, t, n) /\ ~TokenMapped(st, t)
        /\ registry[n + 1] = t /\ n + 1 \in DOMAIN registry
      BY <1>7, <2>1 DEF ObserveToken, Observed
  <2> HIDE DEF t, n
  <2>3. Balances(st') = Balances(st)
      BY <1>1, <2>1, <2>2, ObservedInvisible
  <2>4. Consistent(st')
      BY <1>1, <2>1, <2>2, ObservedProperties
  <2>5. SameSlots(st', st)
      BY <1>1, <2>2 DEF Observed, SameSlots, Consistent, TablesTyped
  <2> QED  BY <1>1, <2>3, <2>4, <2>5, TotalSame
<1> QED  BY <1>3, <1>4, <1>5, <1>6, <1>7

(* Every step keeps the books balanced.                                    *)
LEMMA NextBooked == IInv /\ SupplyAccounted /\ [Next]_vars => SupplyAccounted'
<1> SUFFICES ASSUME IInv, SupplyAccounted, [Next]_vars PROVE SupplyAccounted'
    OBVIOUS
<1>1. CASE \/ Restart
           \/ \E t \in Tokens : RegisterToken(t)
           \/ \E i \in DOMAIN registry : ObserveToken(i)
           \/ \E a \in Accounts, t \in Tokens : CrashAfterCreate(a, t)
    BY <1>1, InvisibleBooked
<1>2. ASSUME NEW a \in Accounts, NEW t \in Tokens, NEW n \in Amounts, Deposit(DepositTx(a, t, n))
      PROVE  SupplyAccounted'
  <2> DEFINE tx == DepositTx(a, t, n)
  <2>1. tx.account = a /\ tx.token = t /\ tx.amount = n /\ n \in Nat
      BY AmountsAssumption DEF DepositTx
  <2> HIDE DEF tx
  <2> QED  BY <1>2, <2>1, TransactionsBooked DEF tx
<1>3. ASSUME NEW a \in Accounts, NEW t \in Tokens, NEW n \in Amounts, NEW c \in Nonces,
             Withdraw(WithdrawTx(a, t, n, c))
      PROVE  SupplyAccounted'
  <2> DEFINE tx == WithdrawTx(a, t, n, c)
  <2>1. tx.account = a /\ tx.token = t /\ tx.amount = n /\ n \in Nat
      BY AmountsAssumption DEF WithdrawTx
  <2> HIDE DEF tx
  <2> QED  BY <1>3, <2>1, TransactionsBooked DEF tx
<1>4. ASSUME NEW a \in Accounts, NEW r \in Accounts, NEW t \in Tokens,
             NEW n \in Amounts, NEW c \in Nonces,
             LET tx == TransferTx(a, r, t, n, c)
             IN  Transfer(tx) \/ SelfTransfer(tx) \/ RejectTransfer(tx) \/ Panic(tx)
                 \/ CrashInTransfer(tx)
      PROVE  SupplyAccounted'
  <2> DEFINE tx == TransferTx(a, r, t, n, c)
  <2>1. tx.sender = a /\ tx.recipient = r /\ tx.token = t /\ tx.amount = n /\ n \in Nat
      BY AmountsAssumption DEF TransferTx
  <2>2. Transfer(tx) \/ SelfTransfer(tx) \/ RejectTransfer(tx) \/ Panic(tx) \/ CrashInTransfer(tx)
      BY <1>4
  <2> HIDE DEF tx
  <2>3. CASE Transfer(tx) \/ SelfTransfer(tx) \/ CrashInTransfer(tx)
      BY <2>1, <2>3, TransactionsBooked
  <2>4. CASE RejectTransfer(tx) \/ Panic(tx)
      BY <2>1, <2>4, InvisibleBooked
  <2> QED  BY <2>2, <2>3, <2>4
<1>5. CASE UNCHANGED vars
    BY <1>5 DEF vars, SupplyAccounted, TotalBalance, HeldInSlots, BalanceOf, Holds,
                HasAccount, TokenMapped, GetAccountInfo
<1> QED  BY <1>1, <1>2, <1>3, <1>4, <1>5 DEF Next

(* No unit of a token appears or disappears except by a deposit, a         *)
(* withdrawal and the two named deviations: a transfer to oneself adds its *)
(* amount, a crash between the two writes of a transfer loses it.  This    *)
(* is so for any number of accounts, in any order of their creation.       *)
THEOREM Conservation == Spec => []SupplyAccounted
<1>1. Init => IInv /\ SupplyAccounted
    BY InitIInv, InitBooked
<1>2. IInv /\ SupplyAccounted /\ [Next]_vars => (IInv /\ SupplyAccounted)'
    BY NextIInv, NextBooked
<1> QED  BY <1>1, <1>2, PTL DEF Spec
=============================================================================
