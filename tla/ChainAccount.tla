---------------------------- MODULE ChainAccount ----------------------------
(***************************************************************************)
(* An account on one chain as the goroutines of a node use it.  They share *)
(* one *bind.TransactOpts per chain, created in NewAggregator, and take no *)
(* lock around it: a contract call reads the pending nonce, builds the     *)
(* transaction and sends it, and two calls may read the same nonce.        *)
(*                                                                         *)
(* An account is what the chain has of it: the transactions it accepted,   *)
(* by nonce, and the receipts of those that were mined, which happens in   *)
(* the order of the nonces.                                                *)
(***************************************************************************)
EXTENDS Naturals, Sequences

NewAccount == [pool |-> <<>>, receipts |-> <<>>]

(* What transact reads when the caller set no nonce.                       *)
PendingNonce(account) == Len(account.pool)

(* SendTransaction with a nonce nobody used in the meantime.               *)
Fresh(account, nonce) == nonce = Len(account.pool)

Sent(account, tx) == [account EXCEPT !.pool = Append(@, tx)]

(* With a nonce that is used but not mined: the chain keeps the one that   *)
(* pays more.  An equal or lower price is refused with an error.           *)
Replaceable(account, nonce) ==
    /\ Len(account.receipts) <= nonce
    /\ nonce < Len(account.pool)

Replaced(account, nonce, tx) == [account EXCEPT !.pool[nonce + 1] = tx]

Unmined(account) == Len(account.receipts) < Len(account.pool)

(* The next transaction to be mined, and the account when it was.          *)
NextTx(account) == account.pool[Len(account.receipts) + 1]

Mined(account, ok) == [account EXCEPT !.receipts = Append(@, ok)]

-----------------------------------------------------------------------------
(* A goroutine in a contract call.                                         *)
(*   "idle"     between two calls                                          *)
(*   "sending"  the nonce is read, the transaction not sent                *)
(*   "waiting"  in WaitMined, which asks for the receipt by the hash       *)

NoTx == [method |-> "none"]

Idle == [at |-> "idle", tx |-> NoTx, nonce |-> 0]

Sending(account, tx) == [at |-> "sending", tx |-> tx, nonce |-> PendingNonce(account)]

Waiting(thread) == [thread EXCEPT !.at = "waiting"]

(* Variant: one confirmation is waited for.                                *)
HasReceiptConfirmed(thread, account) ==
    /\ thread.at = "waiting"
    /\ thread.nonce + 1 < Len(account.receipts)
    /\ account.pool[thread.nonce + 1] = thread.tx

(* WaitMined with blockDelay 0 returns the receipt as soon as there is     *)
(* one; ethereum.NotFound makes it ask again, without a deadline.          *)
HasReceipt(thread, account) ==
    /\ thread.at = "waiting"
    /\ thread.nonce < Len(account.receipts)
    /\ account.pool[thread.nonce + 1] = thread.tx

Status(thread, account) == account.receipts[thread.nonce + 1]
=============================================================================
