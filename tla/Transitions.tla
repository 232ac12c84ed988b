---------------------------- MODULE Transitions -----------------------------
(***************************************************************************)
(* How a transaction travels in a rollup block: the aggregator turns it    *)
(* into a transition with the state root it claims, the validator turns    *)
(* the transition back into a transaction with the help of its own tree,   *)
(* and of a transition it rejects it builds a fraud proof.                 *)
(*                                                                         *)
(* How a transition is written in a committed block and read from it is in *)
(* Encoding.                                                               *)
(***************************************************************************)
EXTENDS AccountState

Root(trie) == [zero |-> FALSE, trie |-> trie]

(* The root [32]byte{} that fraudTransfer claims; no tree has it.          *)
ZeroRoot == [zero |-> TRUE, trie |-> EmptyTable]

NewBlock(n) == [number |-> n, transitions |-> <<>>]

-----------------------------------------------------------------------------
(* Aggregator: addToPendingBlock *)

(* The fields common to the five types; recipient is the account a         *)
(* CreateAnd... transition names, and is present only in those.            *)
DepositTransition(update, tx, index) ==
    [type |-> IF update.entries[1].newAccount THEN "createAndDeposit" ELSE "deposit",
     root |-> Root(StateRoot(update.st)),
     slots |-> <<update.entries[1].slot>>,
     names |-> IF update.entries[1].newAccount THEN {tx.account} ELSE {},
     tokenIndex |-> index, amount |-> tx.amount, nonce |-> 0]

WithdrawTransition(update, tx, index) ==
    [type |-> "withdraw",
     root |-> Root(StateRoot(update.st)),
     slots |-> <<update.entries[1].slot>>,
     names |-> {},
     tokenIndex |-> index, amount |-> tx.amount, nonce |-> tx.nonce]

(* Variant: no difference is made for a recipient just created.            *)
TransferTransitionNeverCreates(update, tx, index, fraudTransfer) ==
    [type |-> "transfer",
     root |-> IF fraudTransfer THEN ZeroRoot ELSE Root(StateRoot(update.st)),
     slots |-> <<update.entries[1].slot, update.entries[2].slot>>,
     names |-> {},
     tokenIndex |-> index, amount |-> tx.amount, nonce |-> tx.nonce]

(* Variant: the slots of sender and recipient are swapped.                 *)
TransferTransitionSwapped(update, tx, index, fraudTransfer) ==
    [type |-> IF update.entries[2].newAccount THEN "createAndTransfer" ELSE "transfer",
     root |-> IF fraudTransfer THEN ZeroRoot ELSE Root(StateRoot(update.st)),
     slots |-> <<update.entries[2].slot, update.entries[1].slot>>,
     names |-> IF update.entries[2].newAccount THEN {tx.recipient} ELSE {},
     tokenIndex |-> index, amount |-> tx.amount, nonce |-> tx.nonce]

TransferTransition(update, tx, index, fraudTransfer) ==
    [type |-> IF update.entries[2].newAccount THEN "createAndTransfer" ELSE "transfer",
     root |-> IF fraudTransfer THEN ZeroRoot ELSE Root(StateRoot(update.st)),
     slots |-> <<update.entries[1].slot, update.entries[2].slot>>,
     names |-> IF update.entries[2].newAccount THEN {tx.recipient} ELSE {},
     tokenIndex |-> index, amount |-> tx.amount, nonce |-> tx.nonce]

TransitionOf(update, tx, fraudTransfer) ==
    LET index == update.st.tokenIndex[tx.token]
    IN  CASE tx.type = "deposit"  -> DepositTransition(update, tx, index)
          [] tx.type = "withdraw" -> WithdrawTransition(update, tx, index)
          [] tx.type = "transfer" -> TransferTransition(update, tx, index, fraudTransfer)

-----------------------------------------------------------------------------
(* Validator: getInputStateSnapshots, getTransactionFromTransition...      *)

NoSnapshot == [present |-> FALSE, info |-> NewInfo("none", 0), root |-> ZeroRoot]

(* GetStateSnapshot reads the leaf from the tree, not from the table; the  *)
(* default leaf does not deserialize.                                      *)
Snapshot(st, slot) ==
    [present |-> TRUE, info |-> st.trie[slot], root |-> Root(StateRoot(st))]

(* The slots a snapshot is taken of; the second of createAndTransfer is    *)
(* the nil entry "for newly created account".                              *)
SnapshotSlots(transition) ==
    CASE transition.type = "createAndDeposit"  -> <<>>
      [] transition.type = "createAndTransfer" -> <<transition.slots[1]>>
      [] OTHER                                 -> transition.slots

SnapshotsAvailable(st, transition) ==
    \A i \in DOMAIN SnapshotSlots(transition) :
        SnapshotSlots(transition)[i] \in DOMAIN st.trie

InputStateSnapshots(st, transition) ==
    LET read == [i \in DOMAIN SnapshotSlots(transition) |->
                    Snapshot(st, SnapshotSlots(transition)[i])]
    IN  IF transition.type = "createAndTransfer" THEN Append(read, NoSnapshot) ELSE read

(* NamespaceTokenIndexToTokenAddress of the validator.                     *)
TokenAtIndex(st, index) == { t \in DOMAIN st.tokenIndex : st.tokenIndex[t] = index }

TransactionOf(st, transition) ==
    LET snapshots == InputStateSnapshots(st, transition)
        token     == CHOOSE t \in TokenAtIndex(st, transition.tokenIndex) : TRUE
        named     == CHOOSE a \in transition.names : TRUE
    IN  CASE transition.type = "createAndDeposit" ->
                DepositTx(named, token, transition.amount)
          [] transition.type = "deposit" ->
                DepositTx(snapshots[1].info.account, token, transition.amount)
          [] transition.type = "withdraw" ->
                WithdrawTx(snapshots[1].info.account, token,
                           transition.amount, transition.nonce)
          [] transition.type = "createAndTransfer" ->
                TransferTx(snapshots[1].info.account, named, token,
                           transition.amount, transition.nonce)
          [] transition.type = "transfer" ->
                TransferTx(snapshots[1].info.account, snapshots[2].info.account, token,
                           transition.amount, transition.nonce)

-----------------------------------------------------------------------------
(* validateTransition: the verdict, the validator's state afterwards and   *)
(* the snapshots that go into a fraud proof.                               *)
(*   "error"  the transition could not be looked up; nothing was applied   *)
(*   "fraud"  the transaction failed, or ended in another root             *)
(*   "panic"  the transaction crashed the process                          *)

Readable(st, transition) ==
    /\ SnapshotsAvailable(st, transition)
    /\ TokenAtIndex(st, transition.tokenIndex) # {}

(* Variant: only the failure of the transaction counts, not its root.      *)
ValidateIgnoringRoot(st, transition) ==
    IF ~Readable(st, transition)
    THEN [verdict |-> "error", st |-> st, inputs |-> <<>>]
    ELSE LET update == ApplyTransaction(st, TransactionOf(st, transition))
         IN  [verdict |-> CASE update.outcome = "ok" -> "valid"
                            [] update.outcome = "panic" -> "panic"
                            [] OTHER -> "fraud",
              st |-> update.st,
              inputs |-> InputStateSnapshots(st, transition)]

ValidateTransition(st, transition) ==
    IF ~Readable(st, transition)
    THEN [verdict |-> "error", st |-> st, inputs |-> <<>>]
    ELSE LET update == ApplyTransaction(st, TransactionOf(st, transition))
             valid  == /\ update.outcome = "ok"
                       /\ Root(StateRoot(update.st)) = transition.root
         IN  [verdict |-> CASE update.outcome = "panic" -> "panic"
                            [] valid -> "valid"
                            [] OTHER -> "fraud",
              st |-> update.st,
              inputs |-> InputStateSnapshots(st, transition)]

-----------------------------------------------------------------------------
(* generateContractFraudProof *)

(* It dereferences every input, the nil one of createAndTransfer too.      *)
ProofPanics(inputs) == \E i \in DOMAIN inputs : ~inputs[i].present

(* The goroutine dies in ApplyTransaction, or while building the proof.    *)
Crashes(result) ==
    \/ result.verdict = "panic"
    \/ result.verdict = "fraud" /\ ProofPanics(result.inputs)

(* big.NewInt(-1).Bytes() drops the sign: for block 0 the key of the       *)
(* "previous" block is that of block 1.                                    *)
PreviousBlockKey(number) == IF number = 0 THEN 1 ELSE number - 1

(* The pre-state transition: the one before it in the block, or the last   *)
(* of the block stored under the previous number.                          *)
HasPreState(blocks, number, i) == i > 1 \/ PreviousBlockKey(number) \in DOMAIN blocks

(* Variant: off by one, the rejected transition is its own pre-state.      *)
PreStateOffByOne(blocks, block, i) ==
    IF i > 1 THEN block.transitions[i]
    ELSE LET previous == blocks[PreviousBlockKey(block.number)].transitions
         IN  previous[Len(previous)]

PreState(blocks, block, i) ==
    IF i > 1 THEN block.transitions[i - 1]
    ELSE LET previous == blocks[PreviousBlockKey(block.number)].transitions
         IN  previous[Len(previous)]

FraudProof(blocks, block, i, inputs) ==
    [block |-> block.number, index |-> i, invalid |-> block.transitions[i],
     pre |-> PreState(blocks, block, i), inputs |-> inputs]
=============================================================================
