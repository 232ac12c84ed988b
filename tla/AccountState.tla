---------------------------- MODULE AccountState ----------------------------
(***************************************************************************)
(* The account tables of the rollup and the operations of                  *)
(* statemachine.StateMachine on them, as pure operators.  The aggregator   *)
(* and the validator each own one such state; the modules StateMachine and *)
(* Rollup turn the operators into actions.                                 *)
(*                                                                         *)
(* A state st is a record with one field per table of the key/value store  *)
(* the StateMachine touches, and the state tree:                           *)
(*   lastKey     NamespaceLastKey, -1 when the key is absent               *)
(*   keyOf       NamespaceAccountAddressToKey: account -> slot             *)
(*   infoAt      NamespaceKeyToAccountInfo: slot -> AccountInfo            *)
(*   tokenIndex  NamespaceTokenAddressToTokenIndex: token -> index         *)
(*   trie        the sparse Merkle tree: slot -> AccountInfo.  Hashing is  *)
(*               taken to be injective, so the tree is its own root.       *)
(* Tables are functions whose domain is the set of keys present.  Slices   *)
(* are sequences: index i of the code is index i + 1 here.                 *)
(***************************************************************************)
EXTENDS Integers, Sequences

CONSTANTS Accounts,     \* addresses
          Tokens        \* addresses of ERC20 tokens

-----------------------------------------------------------------------------
(* Tables *)

EmptyTable == [x \in {} |-> 0]

Put(table, key, value) ==
    [x \in DOMAIN table \cup {key} |-> IF x = key THEN value ELSE table[x]]

-----------------------------------------------------------------------------
(* Account information *)

Zeros(n) == [i \in 1..n |-> 0]

Pad(s, n) == [i \in 1..(Len(s) + n) |-> IF i <= Len(s) THEN s[i] ELSE 0]

AccountInfo ==
    { info \in [account : Accounts,
                balances : Seq(Nat),
                transferNonces : Seq(Nat),
                withdrawNonces : Seq(Nat)] :
        /\ Len(info.transferNonces) = Len(info.balances)
        /\ Len(info.withdrawNonces) = Len(info.balances) }

NewInfo(a, n) ==
    [account |-> a, balances |-> Zeros(n),
     transferNonces |-> Zeros(n), withdrawNonces |-> Zeros(n)]

(* maybeExpandAccountInfo: the number of zeros appended is computed from   *)
(* the length of Balances alone and used for all three slices.             *)
Missing(info, index) ==
    IF index >= Len(info.balances) THEN index + 1 - Len(info.balances) ELSE 0

(* Variant: the withdraw nonces are not extended.                          *)
ExpandForgettingWithdrawNonces(info, index) ==
    LET n == Missing(info, index)
    IN  [info EXCEPT !.balances = Pad(@, n), !.transferNonces = Pad(@, n)]

MaybeExpandAccountInfo(info, index) ==
    LET n == Missing(info, index)
    IN  [info EXCEPT !.balances = Pad(@, n),
                     !.transferNonces = Pad(@, n),
                     !.withdrawNonces = Pad(@, n)]

-----------------------------------------------------------------------------
(* Transactions.  Amounts and nonces are uint256 event fields, so the      *)
(* "Invalid amount" checks on negative amounts never fire.  Signatures are *)
(* carried but never checked by the code, and are left out.                *)

DepositTx(a, t, n) == [type |-> "deposit", account |-> a, token |-> t, amount |-> n]

WithdrawTx(a, t, n, c) ==
    [type |-> "withdraw", account |-> a, token |-> t, amount |-> n, nonce |-> c]

TransferTx(s, r, t, n, c) ==
    [type |-> "transfer", sender |-> s, recipient |-> r,
     token |-> t, amount |-> n, nonce |-> c]

-----------------------------------------------------------------------------
(* Reading and writing the tables *)

InitState ==
    [lastKey |-> -1, keyOf |-> EmptyTable, infoAt |-> EmptyTable,
     tokenIndex |-> EmptyTable, trie |-> EmptyTable]

TokenMapped(st, t) == t \in DOMAIN st.tokenIndex

HasAccount(st, a) == a \in DOMAIN st.keyOf

GetAccountInfo(st, a) == st.infoAt[st.keyOf[a]]

(* Variant: the table is written and the tree is not.                      *)
SetWithoutTree(st, a, info) == [st EXCEPT !.infoAt = Put(@, st.keyOf[a], info)]

SetAccountInfo(st, a, info) ==
    [st EXCEPT !.infoAt = Put(@, st.keyOf[a], info),
               !.trie = Put(@, st.keyOf[a], info)]

(* Variant: the new last key is not stored with the account.               *)
CreateWithoutLastKey(st, a, n) ==
    LET key == st.lastKey + 1
    IN  [st EXCEPT !.keyOf = Put(@, a, key),
                   !.infoAt = Put(@, key, NewInfo(a, n)),
                   !.trie = Put(@, key, NewInfo(a, n))]

(* The three writes of one database transaction, then the tree.            *)
CreateAccount(st, a, n) ==
    LET key == st.lastKey + 1
    IN  [st EXCEPT !.lastKey = key,
                   !.keyOf = Put(@, a, key),
                   !.infoAt = Put(@, key, NewInfo(a, n)),
                   !.trie = Put(@, key, NewInfo(a, n))]

EnsureAccount(st, a, index) ==
    IF HasAccount(st, a) THEN st ELSE CreateAccount(st, a, index + 1)

(* A restart of the process: the tables survive, NewStateMachine starts    *)
(* from the empty tree ("TODO: restore from db").                          *)
Reopened(st) == [st EXCEPT !.trie = EmptyTable]

-----------------------------------------------------------------------------
(* Deposit *)

DepositAccepted(st, tx) == TokenMapped(st, tx.token)

(* Variant: the amount is credited at index 0 whatever the token.          *)
DepositedAtFirstIndex(st, tx) ==
    LET index == st.tokenIndex[tx.token]
        st1   == EnsureAccount(st, tx.account, index)
        info  == MaybeExpandAccountInfo(GetAccountInfo(st1, tx.account), index)
    IN  SetAccountInfo(st1, tx.account, [info EXCEPT !.balances[1] = @ + tx.amount])

Deposited(st, tx) ==
    LET index == st.tokenIndex[tx.token]
        st1   == EnsureAccount(st, tx.account, index)
        info  == MaybeExpandAccountInfo(GetAccountInfo(st1, tx.account), index)
    IN  SetAccountInfo(st1, tx.account,
                       [info EXCEPT !.balances[index + 1] = @ + tx.amount])

-----------------------------------------------------------------------------
(* Withdraw *)

(* Variant: the balance is not compared with the amount.                   *)
WithdrawUnchecked(st, tx) ==
    /\ TokenMapped(st, tx.token)
    /\ HasAccount(st, tx.account)
    /\ LET index == st.tokenIndex[tx.token]
           info  == GetAccountInfo(st, tx.account)
       IN  /\ index <= Len(info.balances) - 1
           /\ info.withdrawNonces[index + 1] = tx.nonce

(* Variant: the nonce is compared with that of transfers.                  *)
WithdrawByTransferNonce(st, tx) ==
    /\ TokenMapped(st, tx.token)
    /\ HasAccount(st, tx.account)
    /\ LET index == st.tokenIndex[tx.token]
           info  == GetAccountInfo(st, tx.account)
       IN  /\ index <= Len(info.balances) - 1
           /\ info.balances[index + 1] >= tx.amount
           /\ info.transferNonces[index + 1] = tx.nonce

WithdrawAccepted(st, tx) ==
    /\ TokenMapped(st, tx.token)
    /\ HasAccount(st, tx.account)
    /\ LET index == st.tokenIndex[tx.token]
           info  == GetAccountInfo(st, tx.account)
       IN  /\ index <= Len(info.balances) - 1
           /\ info.balances[index + 1] >= tx.amount
           /\ info.withdrawNonces[index + 1] = tx.nonce

Withdrawn(st, tx) ==
    LET index == st.tokenIndex[tx.token]
    IN  SetAccountInfo(st, tx.account,
            [GetAccountInfo(st, tx.account) EXCEPT
                !.balances[index + 1] = @ - tx.amount,
                !.withdrawNonces[index + 1] = @ + 1])

-----------------------------------------------------------------------------
(* Transfer.  The recipient's account is created before the transfer is    *)
(* validated, and stays when the validation fails.                         *)

RecipientReady(st, tx) ==
    IF TokenMapped(st, tx.token)
    THEN EnsureAccount(st, tx.recipient, st.tokenIndex[tx.token])
    ELSE st

(* The bound check reads tokenIndexInt > len(senderBalances), one off, so  *)
(* an index equal to the length passes it and the next line indexes        *)
(* senderTransferNonces out of range.                                      *)
PassesBoundCheck(index, info) == ~(index > Len(info.balances))

TransferPanics(st, tx) ==
    /\ TokenMapped(st, tx.token)
    /\ HasAccount(RecipientReady(st, tx), tx.sender)
    /\ LET index == st.tokenIndex[tx.token]
           info  == GetAccountInfo(RecipientReady(st, tx), tx.sender)
       IN  /\ PassesBoundCheck(index, info)
           /\ index >= Len(info.transferNonces)

(* Variant: the nonce of a transfer is not compared.                       *)
TransferIgnoringNonce(st, tx) ==
    /\ TokenMapped(st, tx.token)
    /\ HasAccount(RecipientReady(st, tx), tx.sender)
    /\ LET index == st.tokenIndex[tx.token]
           info  == GetAccountInfo(RecipientReady(st, tx), tx.sender)
       IN  /\ index < Len(info.balances)
           /\ info.balances[index + 1] >= tx.amount

TransferAccepted(st, tx) ==
    /\ TokenMapped(st, tx.token)
    /\ HasAccount(RecipientReady(st, tx), tx.sender)
    /\ LET index == st.tokenIndex[tx.token]
           info  == GetAccountInfo(RecipientReady(st, tx), tx.sender)
       IN  /\ PassesBoundCheck(index, info)
           /\ index < Len(info.transferNonces)
           /\ info.transferNonces[index + 1] = tx.nonce
           /\ info.balances[index + 1] >= tx.amount

(* The state between the two setAccountInfo calls.                         *)
SenderDebited(st, tx) ==
    LET index == st.tokenIndex[tx.token]
        st1   == RecipientReady(st, tx)
    IN  SetAccountInfo(st1, tx.sender,
            [GetAccountInfo(st1, tx.sender) EXCEPT
                !.balances[index + 1] = @ - tx.amount,
                !.transferNonces[index + 1] = @ + 1])

(* Both infos are read before either is written: when sender and recipient *)
(* are the same account the second write undoes the first.                 *)
RecipientCredited(st, tx) ==
    LET index == st.tokenIndex[tx.token]
        info  == MaybeExpandAccountInfo(
                    GetAccountInfo(RecipientReady(st, tx), tx.recipient), index)
    IN  [info EXCEPT !.balances[index + 1] = @ + tx.amount]

(* Variant: the recipient is written first.                                *)
TransferredRecipientFirst(st, tx) ==
    LET index == st.tokenIndex[tx.token]
        st1   == RecipientReady(st, tx)
    IN  SetAccountInfo(SetAccountInfo(st1, tx.recipient, RecipientCredited(st, tx)),
                       tx.sender,
                       [GetAccountInfo(st1, tx.sender) EXCEPT
                            !.balances[index + 1] = @ - tx.amount,
                            !.transferNonces[index + 1] = @ + 1])

Transferred(st, tx) ==
    SetAccountInfo(SenderDebited(st, tx), tx.recipient, RecipientCredited(st, tx))

-----------------------------------------------------------------------------
(* ApplyTransaction: the outcome, the state left behind and the entries of *)
(* the StateUpdate (slot and whether this transaction created it).         *)

Entry(st, a, isNew) == [slot |-> st.keyOf[a], newAccount |-> isNew]

Rejected(st) == [outcome |-> "rejected", st |-> st, entries |-> <<>>]

ApplyDeposit(st, tx) ==
    IF DepositAccepted(st, tx)
    THEN LET post == Deposited(st, tx)
         IN  [outcome |-> "ok", st |-> post,
              entries |-> <<Entry(post, tx.account, ~HasAccount(st, tx.account))>>]
    ELSE Rejected(st)

ApplyWithdraw(st, tx) ==
    IF WithdrawAccepted(st, tx)
    THEN LET post == Withdrawn(st, tx)
         IN  [outcome |-> "ok", st |-> post,
              entries |-> <<Entry(post, tx.account, FALSE)>>]
    ELSE Rejected(st)

ApplyTransfer(st, tx) ==
    CASE TransferAccepted(st, tx) ->
            LET post == Transferred(st, tx)
            IN  [outcome |-> "ok", st |-> post,
                 entries |-> <<Entry(post, tx.sender, FALSE),
                               Entry(post, tx.recipient, ~HasAccount(st, tx.recipient))>>]
      [] TransferPanics(st, tx) ->
            [outcome |-> "panic", st |-> RecipientReady(st, tx), entries |-> <<>>]
      [] OTHER -> Rejected(RecipientReady(st, tx))

ApplyTransaction(st, tx) ==
    CASE tx.type = "deposit"  -> ApplyDeposit(st, tx)
      [] tx.type = "withdraw" -> ApplyWithdraw(st, tx)
      [] tx.type = "transfer" -> ApplyTransfer(st, tx)

(* GetStateRoot *)
StateRoot(st) == st.trie

-----------------------------------------------------------------------------
(* Views of the tables: what account a holds of token t.                   *)

Holds(s, a, t) ==
    /\ HasAccount(s, a)
    /\ TokenMapped(s, t)
    /\ s.tokenIndex[t] < Len(GetAccountInfo(s, a).balances)

BalanceOf(s, a, t) ==
    IF Holds(s, a, t) THEN GetAccountInfo(s, a).balances[s.tokenIndex[t] + 1] ELSE 0

TransferNonceOf(s, a, t) ==
    IF Holds(s, a, t) THEN GetAccountInfo(s, a).transferNonces[s.tokenIndex[t] + 1] ELSE 0

WithdrawNonceOf(s, a, t) ==
    IF Holds(s, a, t) THEN GetAccountInfo(s, a).withdrawNonces[s.tokenIndex[t] + 1] ELSE 0

(* The sum of a sequence of integers.                                      *)
SumOf(s) ==
    LET Of[n \in 0..Len(s)] == IF n = 0 THEN 0 ELSE Of[n - 1] + s[n]
    IN  Of[Len(s)]

-----------------------------------------------------------------------------
(* What is true of the tables and the tree whenever no operation is under  *)
(* way: their types, the directory of slots, and the tree against the      *)
(* tables.                                                                 *)

TablesTyped(st) ==
    /\ DOMAIN st = {"lastKey", "keyOf", "infoAt", "tokenIndex", "trie"}
    /\ st.lastKey \in Nat \cup {-1}
    /\ st.keyOf \in [DOMAIN st.keyOf -> Nat] /\ DOMAIN st.keyOf \subseteq Accounts
    /\ st.infoAt \in [DOMAIN st.infoAt -> AccountInfo]
    /\ st.trie \in [DOMAIN st.trie -> AccountInfo]
    /\ st.tokenIndex \in [DOMAIN st.tokenIndex -> Nat] /\ DOMAIN st.tokenIndex \subseteq Tokens

SlotsAssigned(st) ==
    /\ DOMAIN st.infoAt = 0..st.lastKey
    /\ \A a \in DOMAIN st.keyOf :
           /\ st.keyOf[a] \in DOMAIN st.infoAt
           /\ st.infoAt[st.keyOf[a]].account = a
    /\ \A k \in DOMAIN st.infoAt :
           /\ st.infoAt[k].account \in DOMAIN st.keyOf
           /\ st.keyOf[st.infoAt[k].account] = k

TrieAgrees(st) ==
    \A k \in DOMAIN st.trie : k \in DOMAIN st.infoAt /\ st.trie[k] = st.infoAt[k]

Consistent(st) == TablesTyped(st) /\ SlotsAssigned(st) /\ TrieAgrees(st)
=============================================================================
