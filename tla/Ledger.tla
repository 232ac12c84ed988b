------------------------------- MODULE Ledger -------------------------------
(***************************************************************************)
(* What the rollup's account state promises to its users: for every        *)
(* account and token a balance, a transfer nonce and a withdraw nonce.     *)
(* No slots, no tree, no token indexes, no accounts that "do not exist".   *)
(*                                                                         *)
(* Two deviations of the implementation are named here as actions of their *)
(* own, so that everything else is shown to be as promised:                *)
(*   SelfCredit  a transfer of an account to itself adds the amount and    *)
(*               leaves the nonce                                          *)
(*   LoseInTransit  a crash between the two writes of a transfer keeps the *)
(*               debit and drops the credit                                *)
(***************************************************************************)
EXTENDS Naturals

CONSTANTS Accounts, Tokens, Amounts

VARIABLES balance, transferNonce, withdrawNonce,
          supply    \* per token, what was deposited and not yet withdrawn

ledgerVars == <<balance, transferNonce, withdrawNonce, supply>>

Zero == [a \in Accounts |-> [t \in Tokens |-> 0]]

Init ==
    /\ balance = Zero
    /\ transferNonce = Zero
    /\ withdrawNonce = Zero
    /\ supply = [t \in Tokens |-> 0]

Deposit(a, t, n) ==
    /\ balance' = [balance EXCEPT ![a][t] = @ + n]
    /\ supply' = [supply EXCEPT ![t] = @ + n]
    /\ UNCHANGED <<transferNonce, withdrawNonce>>

Withdraw(a, t, n) ==
    /\ balance[a][t] >= n
    /\ balance' = [balance EXCEPT ![a][t] = @ - n]
    /\ withdrawNonce' = [withdrawNonce EXCEPT ![a][t] = @ + 1]
    /\ supply' = [supply EXCEPT ![t] = @ - n]
    /\ UNCHANGED transferNonce

Transfer(s, r, t, n) ==
    /\ s # r
    /\ balance[s][t] >= n
    /\ balance' = [balance EXCEPT ![s][t] = @ - n, ![r][t] = @ + n]
    /\ transferNonce' = [transferNonce EXCEPT ![s][t] = @ + 1]
    /\ UNCHANGED <<withdrawNonce, supply>>

SelfCredit(a, t, n) ==
    /\ balance[a][t] >= n
    /\ balance' = [balance EXCEPT ![a][t] = @ + n]
    /\ UNCHANGED <<transferNonce, withdrawNonce, supply>>

LoseInTransit(s, t, n) ==
    /\ balance[s][t] >= n
    /\ balance' = [balance EXCEPT ![s][t] = @ - n]
    /\ transferNonce' = [transferNonce EXCEPT ![s][t] = @ + 1]
    /\ UNCHANGED <<withdrawNonce, supply>>

Next ==
    \E a \in Accounts, t \in Tokens, n \in Amounts :
        \/ Deposit(a, t, n)
        \/ Withdraw(a, t, n)
        \/ \E r \in Accounts : Transfer(a, r, t, n)
        \/ SelfCredit(a, t, n)
        \/ LoseInTransit(a, t, n)

Spec == Init /\ [][Next]_ledgerVars
=============================================================================
