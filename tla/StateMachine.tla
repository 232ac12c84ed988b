---------------------------- MODULE StateMachine ----------------------------
(***************************************************************************)
(* One process that owns a statemachine.StateMachine over a persistent     *)
(* key/value store: the aggregator.  It applies any transaction the        *)
(* sidechain can hand it, can be killed between two writes, can be brought *)
(* down by the out-of-range index of applyTransfer, and is restarted on    *)
(* the tables it left.                                                     *)
(*                                                                         *)
(* The token registry is a contract: it numbers tokens in the order they   *)
(* are registered.  The watcher of its events fills the table              *)
(* token -> index, at any later time or, when the event came while the     *)
(* process was down, never.                                                *)
(***************************************************************************)
EXTENDS AccountState

CONSTANTS Amounts,      \* the amounts of a transaction
          Nonces,       \* the nonces a transaction may carry
          MaxTx,        \* bound on the transactions accepted or lost
          MaxRestarts   \* bound on the restarts

ASSUME AmountsAssumption == Amounts \subseteq Nat
ASSUME NoncesAssumption == Nonces \subseteq Nat
ASSUME BoundsAssumption == MaxTx \in Nat /\ MaxRestarts \in Nat

VARIABLES
    st,         \* the tables and the tree (AccountState)
    status,     \* "running", "down" (killed) or "panicked"
    registry,   \* the TokenRegistry contract: tokens in order of registration
    supply,     \* history: per token, accepted deposits minus withdrawals
    drift,      \* history: per token, what self transfers added and crashes lost
    spent,      \* history: the nonces used up, by account, token and kind
    numTx,      \* number of transactions accepted or lost
    restarts    \* number of restarts

history == <<supply, drift, spent, numTx>>
vars == <<st, status, registry, supply, drift, spent, numTx, restarts>>

-----------------------------------------------------------------------------
SpentNonce(a, t, kind, n) == [account |-> a, token |-> t, kind |-> kind, nonce |-> n]

-----------------------------------------------------------------------------
Init ==
    /\ st = InitState
    /\ status = "running"
    /\ registry = <<>>
    /\ supply = [t \in Tokens |-> 0]
    /\ drift = [t \in Tokens |-> 0]
    /\ spent = {}
    /\ numTx = 0
    /\ restarts = 0

(* The contract registers a token, whatever the process does.              *)
RegisterToken(t) ==
    /\ \A i \in DOMAIN registry : registry[i] # t
    /\ registry' = Append(registry, t)
    /\ UNCHANGED <<st, status, history, restarts>>

(* watchTokenRegistry stores the index of a registered token.              *)
ObserveToken(i) ==
    /\ status = "running"
    /\ ~TokenMapped(st, registry[i])
    /\ st' = [st EXCEPT !.tokenIndex = Put(@, registry[i], i - 1)]
    /\ UNCHANGED <<status, registry, history, restarts>>

Ready == status = "running" /\ numTx < MaxTx

Deposit(tx) ==
    /\ Ready
    /\ DepositAccepted(st, tx)
    /\ st' = Deposited(st, tx)
    /\ supply' = [supply EXCEPT ![tx.token] = @ + tx.amount]
    /\ numTx' = numTx + 1
    /\ UNCHANGED <<status, registry, drift, spent, restarts>>

Withdraw(tx) ==
    /\ Ready
    /\ WithdrawAccepted(st, tx)
    /\ st' = Withdrawn(st, tx)
    /\ supply' = [supply EXCEPT ![tx.token] = @ - tx.amount]
    /\ spent' = spent \cup {SpentNonce(tx.account, tx.token, "withdraw", tx.nonce)}
    /\ numTx' = numTx + 1
    /\ UNCHANGED <<status, registry, drift, restarts>>

Transfer(tx) ==
    /\ Ready
    /\ TransferAccepted(st, tx)
    /\ tx.sender # tx.recipient
    /\ st' = Transferred(st, tx)
    /\ spent' = spent \cup {SpentNonce(tx.sender, tx.token, "transfer", tx.nonce)}
    /\ numTx' = numTx + 1
    /\ UNCHANGED <<status, registry, supply, drift, restarts>>

SelfTransfer(tx) ==
    /\ Ready
    /\ TransferAccepted(st, tx)
    /\ tx.sender = tx.recipient
    /\ st' = Transferred(st, tx)
    /\ drift' = [drift EXCEPT ![tx.token] = @ + tx.amount]
    /\ numTx' = numTx + 1
    /\ UNCHANGED <<status, registry, supply, spent, restarts>>

(* A deposit or withdrawal that fails leaves the tables alone; a transfer  *)
(* that fails leaves the recipient's account behind.                       *)
RejectTransfer(tx) ==
    /\ Ready
    /\ ~TransferAccepted(st, tx)
    /\ ~TransferPanics(st, tx)
    /\ st' = RecipientReady(st, tx)
    /\ UNCHANGED <<status, registry, history, restarts>>

(* The index out of range kills the process, with its tree.                *)
Panic(tx) ==
    /\ Ready
    /\ TransferPanics(st, tx)
    /\ st' = Reopened(RecipientReady(st, tx))
    /\ status' = "panicked"
    /\ UNCHANGED <<registry, history, restarts>>

(* The process is killed after the account of tx was created.              *)
CrashAfterCreate(a, t) ==
    /\ Ready
    /\ TokenMapped(st, t)
    /\ st' = Reopened(EnsureAccount(st, a, st.tokenIndex[t]))
    /\ status' = "down"
    /\ UNCHANGED <<registry, history, restarts>>

(* The process is killed after the sender was debited and before the       *)
(* recipient is credited.                                                  *)
CrashInTransfer(tx) ==
    /\ Ready
    /\ TransferAccepted(st, tx)
    /\ st' = Reopened(SenderDebited(st, tx))
    /\ status' = "down"
    /\ drift' = [drift EXCEPT ![tx.token] = @ - tx.amount]
    /\ spent' = spent \cup {SpentNonce(tx.sender, tx.token, "transfer", tx.nonce)}
    /\ numTx' = numTx + 1
    /\ UNCHANGED <<registry, supply, restarts>>

Restart ==
    /\ status # "running"
    /\ restarts < MaxRestarts
    /\ st' = Reopened(st)
    /\ status' = "running"
    /\ restarts' = restarts + 1
    /\ UNCHANGED <<registry, history>>

Next ==
    \/ Restart
    \/ \E t \in Tokens : RegisterToken(t)
    \/ \E i \in DOMAIN registry : ObserveToken(i)
    \/ \E a \in Accounts, t \in Tokens : CrashAfterCreate(a, t)
    \/ \E a \in Accounts, t \in Tokens, n \in Amounts : Deposit(DepositTx(a, t, n))
    \/ \E a \in Accounts, t \in Tokens, n \in Amounts, c \in Nonces :
           \/ Withdraw(WithdrawTx(a, t, n, c))
           \/ \E r \in Accounts :
                \/ Transfer(TransferTx(a, r, t, n, c))
                \/ SelfTransfer(TransferTx(a, r, t, n, c))
                \/ RejectTransfer(TransferTx(a, r, t, n, c))
                \/ Panic(TransferTx(a, r, t, n, c))
                \/ CrashInTransfer(TransferTx(a, r, t, n, c))

Spec == Init /\ [][Next]_vars
-----------------------------------------------------------------------------
(* Properties *)

IndexTable == DOMAIN st.tokenIndex

(* Every variable has its type; in particular no operation ever leaves the *)
(* three slices of an account with different lengths.                      *)
TypeOK ==
    /\ TablesTyped(st)
    /\ status \in {"running", "down", "panicked"}
    /\ registry \in Seq(Tokens)
    /\ supply \in [Tokens -> Int]
    /\ drift \in [Tokens -> Int]
    /\ numTx \in Nat
    /\ restarts \in Nat

(* Slots are handed out densely from 0, each belongs to exactly one        *)
(* account and the AccountInfo stored there names that account: a lookup   *)
(* never ends in "Corrupt db", and the account the validator reads out of  *)
(* a slot is the one the aggregator meant.                                 *)
DirectoryConsistent == SlotsAssigned(st)

(* The tree commits to the tables: a leaf holds exactly what the table     *)
(* holds, and as long as the process was never restarted no account is     *)
(* missing from the tree.                                                  *)
TrieCommitsStore ==
    /\ TrieAgrees(st)
    /\ restarts = 0 /\ status = "running" => DOMAIN st.trie = DOMAIN st.infoAt

(* An account holds nothing, and has used no nonce, at an index that no    *)
(* token has been given.                                                   *)
UnmappedSlotsEmpty ==
    \A k \in DOMAIN st.infoAt : \A i \in DOMAIN st.infoAt[k].balances :
        \/ \E t \in IndexTable : st.tokenIndex[t] = i - 1
        \/ /\ st.infoAt[k].balances[i] = 0
           /\ st.infoAt[k].transferNonces[i] = 0
           /\ st.infoAt[k].withdrawNonces[i] = 0

(* Replay protection: a nonce that was used up by a withdrawal, or by a    *)
(* transfer to another account, is behind the account's stored nonce for   *)
(* good, across rejections, crashes and restarts.                          *)
SpentNoncesPassed ==
    \A s \in spent :
        s.nonce < IF s.kind = "transfer" THEN TransferNonceOf(st, s.account, s.token)
                                         ELSE WithdrawNonceOf(st, s.account, s.token)

(* What the accounts in the slots hold of a token, and its sum.            *)
HeldInSlots(s, t) ==
    [k \in 1..(s.lastKey + 1) |-> BalanceOf(s, s.infoAt[k - 1].account, t)]

TotalBalance(s, t) == SumOf(HeldInSlots(s, t))

(* Conservation: what the accounts hold of a token is what was deposited   *)
(* and not withdrawn, off by exactly what self transfers created and       *)
(* crashes inside a transfer destroyed.  Rejected transfers, the orphan    *)
(* accounts they leave, restarts and out-of-order token registrations      *)
(* never move a unit.                                                      *)
SupplyAccounted == \A t \in Tokens : TotalBalance(st, t) = supply[t] + drift[t]

(* The detailed tables implement the ledger.                               *)
BalanceView == [a \in Accounts |-> [t \in Tokens |-> BalanceOf(st, a, t)]]
TransferNonceView == [a \in Accounts |-> [t \in Tokens |-> TransferNonceOf(st, a, t)]]
WithdrawNonceView == [a \in Accounts |-> [t \in Tokens |-> WithdrawNonceOf(st, a, t)]]

L == INSTANCE Ledger WITH
        balance <- BalanceView,
        transferNonce <- TransferNonceView,
        withdrawNonce <- WithdrawNonceView

(* Every step of the tables is a step of the ledger, or changes nothing a  *)
(* user can see: rejected transactions, account creation, token            *)
(* registration, panics and restarts are invisible.                        *)
RefinesLedger == L!Spec
=============================================================================
