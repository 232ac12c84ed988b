------------------------------ MODULE Relayer -------------------------------
(***************************************************************************)
(* What a node does between the chains besides proposing and committing:   *)
(* the Bridge mints on the sidechain what was deposited on the main chain, *)
(* watchRollupBlockCommitted files the committed blocks in the aggregator's*)
(* store, and the WithdrawManager serves requests to withdraw, each with a *)
(* proof made from a filed block.                                          *)
(*                                                                         *)
(* The Bridge and the file keeper are a goroutine each, gRPC starts one    *)
(* for every request.  They share the node's accounts with the goroutines  *)
(* of BlockCommittee, of which only the transactions appear here.          *)
(*                                                                         *)
(* The contracts are external: a deposit mints or reverts; a withdrawal    *)
(* succeeds only with a proof that fits a committed block.  A deposit is   *)
(* its number, a block what EncodeBlock makes of it.                       *)
(***************************************************************************)
EXTENDS Encoding, ChainAccount, FiniteSets

CONSTANTS
    Handlers,        \* gRPC requests served at the same time
    BlockContents,   \* the transition lists blocks may have
    RequestNumbers, RequestIndexes,    \* what clients ask for, int64
    KeyBits,         \* hasher.Size()*8, the greatest height of a tree: 256
    Failures,        \* subset of AllFailures the environment may produce
    MaxDeposits, MaxBlocks, MaxRequests,
    MaxEvents,       \* bound on deposits, blocks and requests together
    MaxDisturbances  \* bound on the failures, and the calls of other goroutines

AllFailures ==
    { "send",        \* a chain's node refuses a call or a transaction
      "receipt",     \* asking for a receipt fails after the transaction was sent
      "replaced",    \* a transaction is replaced by another with its nonce
      "reverted",    \* a contract refuses what is right
      "store",       \* the store fails
      "dropped",     \* a subscription ends
      "renumbered",  \* a block is committed with a number that was used
      "restart" }    \* the node is restarted

ASSUME RelayerAssumption ==
    /\ RequestNumbers \subseteq Int /\ RequestIndexes \subseteq Int
    /\ \A content \in BlockContents :
          /\ content \in Seq({content[i] : i \in DOMAIN content})
          /\ \A i \in DOMAIN content : Encodable(content[i])
    /\ KeyBits \in Nat \ {0}
    /\ Failures \subseteq AllFailures
    /\ MaxDeposits \in Nat /\ MaxBlocks \in Nat /\ MaxRequests \in Nat
    /\ MaxEvents \in Nat /\ MaxDisturbances \in Nat

VARIABLES
    deposits,        \* TokenDeposited events so far
    chain,           \* RollupBlockCommitted events
    subscribed,      \* the subscriptions that still deliver
    relayed,         \* deposits the bridge has taken
    bridge,          \* the call the bridge is in
    outcome,         \* history: what relayDeposit returned, by deposit
    filed,           \* blocks watchRollupBlockCommitted has taken
    blockAt,         \* NamespaceRollupBlockNumber
    handler,         \* the request each handler serves, and how far it is
    answers,         \* history: requests and their answers
    account,         \* the node's accounts, on both chains
    minted,          \* deposits minted on the sidechain
    withdrawn,       \* withdrawals the main chain has paid
    running,
    faults,          \* history: what went wrong so far
    requests, disturbances

bridgeVars == <<relayed, bridge, outcome>>
fileVars == <<filed, blockAt>>
handlerVars == <<handler, answers, requests>>
chainVars == <<deposits, chain, minted, withdrawn>>
nodeVars == <<subscribed, running, faults, disturbances>>
vars == <<bridgeVars, fileVars, handlerVars, chainVars, account, nodeVars>>

NoRequest == [number |-> 0, index |-> 0]
NoBlock == [number |-> 0, transitions |-> <<>>]
Resting == [at |-> "idle", request |-> NoRequest, block |-> NoBlock, call |-> Idle]
OtherTx == [method |-> "other"]

Init ==
    /\ deposits = 0
    /\ chain = <<>>
    /\ subscribed = {"deposits", "blocks"}
    /\ relayed = 0
    /\ bridge = Idle
    /\ outcome = [i \in 1..MaxDeposits |-> "none"]
    /\ filed = 0
    /\ blockAt = EmptyTable
    /\ handler = [h \in Handlers |-> Resting]
    /\ answers = <<>>
    /\ account = [c \in {"side", "main"} |-> NewAccount]
    /\ minted = <<>>
    /\ withdrawn = <<>>
    /\ running = TRUE
    /\ faults = {}
    /\ requests = 0
    /\ disturbances = 0

Another == deposits + Len(chain) + requests < MaxEvents

Disturb ==
    /\ disturbances < MaxDisturbances
    /\ disturbances' = disturbances + 1

(* The environment produces a failure, the process lives.                  *)
Fail(kind) ==
    /\ kind \in Failures
    /\ Disturb
    /\ faults' = faults \cup {kind}
    /\ UNCHANGED <<subscribed, running>>

(* Go ends the process: a panic that nothing recovers, or a fatal error.   *)
(* What its goroutines were doing is gone, what they sent is not.          *)
Die(cause) ==
    /\ running' = FALSE
    /\ faults' = faults \cup {cause}
    /\ bridge' = Idle
    /\ handler' = [h \in Handlers |-> Resting]
    /\ UNCHANGED <<relayed, outcome, fileVars, answers, requests, chainVars, subscribed>>

-----------------------------------------------------------------------------
(* Bridge: watchMainchainDeposit, relayDeposit *)

Relay(i) == bridge' = Sending(account["side"], [method |-> "deposit", deposit |-> i])

(* Variant: of the deposits made meanwhile the last is taken.              *)
TakeLastDeposit ==
    /\ running
    /\ "deposits" \in subscribed
    /\ bridge.at = "idle"
    /\ relayed < deposits
    /\ relayed' = deposits
    /\ Relay(deposits)
    /\ UNCHANGED <<outcome, fileVars, handlerVars, chainVars, account, nodeVars>>

TakeDeposit ==
    /\ running
    /\ "deposits" \in subscribed
    /\ bridge.at = "idle"
    /\ relayed < deposits
    /\ relayed' = relayed + 1
    /\ Relay(relayed + 1)
    /\ UNCHANGED <<outcome, fileVars, handlerVars, chainVars, account, nodeVars>>

(* relayDeposit returns; an error is logged, and the next deposit taken.   *)
RelayReturns(result) ==
    /\ bridge' = Idle
    /\ outcome' = [outcome EXCEPT ![bridge.tx.deposit] = result]
    /\ UNCHANGED <<relayed, fileVars, handlerVars, chainVars, account>>

SendMint ==
    /\ bridge.at = "sending"
    /\ Fresh(account["side"], bridge.nonce)
    /\ account' = [account EXCEPT !["side"] = Sent(@, bridge.tx)]
    /\ bridge' = Waiting(bridge)
    /\ UNCHANGED <<relayed, outcome, fileVars, handlerVars, chainVars, nodeVars>>

SendMintReplaces ==
    /\ bridge.at = "sending"
    /\ Replaceable(account["side"], bridge.nonce)
    /\ Fail("replaced")
    /\ account' = [account EXCEPT !["side"] = Replaced(@, bridge.nonce, bridge.tx)]
    /\ bridge' = Waiting(bridge)
    /\ UNCHANGED <<relayed, outcome, fileVars, handlerVars, chainVars>>

(* The nonce is taken, the token not found, the transaction refused.       *)
SendMintFails ==
    /\ bridge.at = "sending"
    /\ RelayReturns("error")
    /\ \/ /\ ~Fresh(account["side"], bridge.nonce)
          /\ faults' = faults \cup {"collided"}
          /\ UNCHANGED <<subscribed, running, disturbances>>
       \/ Fail("send")

(* Variant: a deposit whose relay failed is relayed again.                 *)
WaitMintErrorsRetry ==
    /\ bridge.at = "waiting"
    /\ Fail("receipt")
    /\ Relay(bridge.tx.deposit)
    /\ UNCHANGED <<relayed, outcome, fileVars, handlerVars, chainVars, account>>

WaitMintErrors ==
    /\ bridge.at = "waiting"
    /\ Fail("receipt")
    /\ RelayReturns("error")

(* Variant: the status in the receipt is not looked at.                    *)
RelayedIgnoringStatus ==
    /\ HasReceipt(bridge, account["side"])
    /\ RelayReturns("nil")
    /\ UNCHANGED nodeVars

Relayed ==
    /\ HasReceipt(bridge, account["side"])
    /\ RelayReturns(IF Status(bridge, account["side"]) THEN "nil" ELSE "error")
    /\ UNCHANGED nodeVars

-----------------------------------------------------------------------------
(* BlockSubmitter: watchRollupBlockCommitted *)

(* The table's keys are big.Int.Bytes(), which drops the sign.             *)
TableKey(number) == IF number < 0 THEN -number ELSE number

(* The event is decoded, encoded again and filed under its number.         *)
FileBlock ==
    /\ running
    /\ "blocks" \in subscribed
    /\ filed < Len(chain)
    /\ \E block \in {DeserializeBlock(chain[filed + 1])} :
          blockAt' = Put(blockAt, TableKey(block.number), SerializeBlock(block))
    /\ filed' = filed + 1
    /\ UNCHANGED <<bridgeVars, handlerVars, chainVars, account, nodeVars>>

(* The store fails: the error is logged, the block is in no table.         *)
FileBlockFails ==
    /\ running
    /\ "blocks" \in subscribed
    /\ filed < Len(chain)
    /\ Fail("store")
    /\ filed' = filed + 1
    /\ UNCHANGED <<bridgeVars, blockAt, handlerVars, chainVars, account>>

-----------------------------------------------------------------------------
(* WithdrawManager: Withdraw, withdraw *)

Ask(h, number, index) ==
    /\ running
    /\ handler[h].at = "idle"
    /\ requests < MaxRequests
    /\ Another
    /\ requests' = requests + 1
    /\ handler' = [handler EXCEPT ![h] =
                      [Resting EXCEPT !.at = "asked",
                                      !.request = [number |-> number, index |-> index]]]
    /\ UNCHANGED <<bridgeVars, fileVars, answers, chainVars, account, nodeVars>>

Answer(h, result) ==
    /\ answers' = Append(answers, [request |-> handler[h].request, result |-> result,
                                   tx |-> handler[h].call.tx])
    /\ handler' = [handler EXCEPT ![h] = Resting]
    /\ UNCHANGED <<bridgeVars, fileVars, requests, chainVars, account>>

BlockAsked(h) == TableKey(handler[h].request.number)

ReadBlock(h) ==
    /\ handler[h].at = "asked"
    /\ BlockAsked(h) \in DOMAIN blockAt
    /\ \E block \in {DeserializeBlock(blockAt[BlockAsked(h)])} :
          handler' = [handler EXCEPT ![h].at = "building", ![h].block = block]
    /\ UNCHANGED <<bridgeVars, fileVars, answers, requests, chainVars, account, nodeVars>>

(* No such block; or the store failed, which says that there is none.      *)
BlockNotFound(h) ==
    /\ handler[h].at = "asked"
    /\ Answer(h, "error")
    /\ \/ BlockAsked(h) \notin DOMAIN blockAt /\ UNCHANGED nodeVars
       \/ Fail("store")

(* NewRollupBlockInfo makes a tree of the block's encoded transitions, as  *)
(* high as they are many.                                                  *)
Leaves(block) == SerializeBlock(block).transitions

Buildable(block) == Len(block.transitions) \in 1..KeyBits

(* It enters a hasher of its own into defaultNodesMap, which has no lock:  *)
(* Go detects concurrent writes, if it does, and ends the process.         *)
BuildersCollide(h) ==
    /\ handler[h].at = "building"
    /\ \E g \in Handlers \ {h} : handler[g].at = "building"
    /\ Die("race")
    /\ UNCHANGED <<account, disturbances>>

(* A height defaultNodes has no node for.                                  *)
BuildPanics(h) ==
    /\ handler[h].at = "building"
    /\ ~Buildable(handler[h].block)
    /\ Die("height")
    /\ UNCHANGED <<account, disturbances>>

InBlock(h) == handler[h].request.index + 1 \in DOMAIN handler[h].block.transitions

(* The client's index is used as it is.                                    *)
IndexPanics(h) ==
    /\ handler[h].at = "building"
    /\ Buildable(handler[h].block)
    /\ ~InBlock(h)
    /\ Die("index")
    /\ UNCHANGED <<account, disturbances>>

(* Variant: transitions counted from 1.                                    *)
IncludedTransitionFromOne(block, index) ==
    [number |-> block.number, index |-> index + 1, leaves |-> Leaves(block),
     transition |-> Leaves(block)[index + 1]]

(* GetIncludedTransition: the transition and its proof, which is as good   *)
(* as the tree it was taken from and the index.                            *)
IncludedTransition(block, index) ==
    [number |-> block.number, index |-> index, leaves |-> Leaves(block),
     transition |-> Leaves(block)[index + 1]]

AskedType(h) == handler[h].block.transitions[handler[h].request.index + 1].type

Included(h) ==
    /\ handler[h].at = "building"
    /\ Buildable(handler[h].block)
    /\ InBlock(h)

WrongType(h) ==
    /\ Included(h)
    /\ AskedType(h) # "withdraw"
    /\ Answer(h, "error")
    /\ UNCHANGED nodeVars

BuildProof(h) ==
    /\ Included(h)
    /\ AskedType(h) = "withdraw"
    /\ \E included \in {IncludedTransition(handler[h].block, handler[h].request.index)} :
          handler' = [handler EXCEPT ![h].at = "calling",
                                     ![h].call = Sending(account["main"],
                                                     [method |-> "withdraw", included |-> included])]
    /\ UNCHANGED <<bridgeVars, fileVars, answers, requests, chainVars, account, nodeVars>>

SendWithdraw(h) ==
    /\ handler[h].call.at = "sending"
    /\ Fresh(account["main"], handler[h].call.nonce)
    /\ account' = [account EXCEPT !["main"] = Sent(@, handler[h].call.tx)]
    /\ handler' = [handler EXCEPT ![h].call = Waiting(@)]
    /\ UNCHANGED <<bridgeVars, fileVars, answers, requests, chainVars, nodeVars>>

SendWithdrawReplaces(h) ==
    /\ handler[h].call.at = "sending"
    /\ Replaceable(account["main"], handler[h].call.nonce)
    /\ Fail("replaced")
    /\ account' = [account EXCEPT !["main"] =
                      Replaced(@, handler[h].call.nonce, handler[h].call.tx)]
    /\ handler' = [handler EXCEPT ![h].call = Waiting(@)]
    /\ UNCHANGED <<bridgeVars, fileVars, answers, requests, chainVars>>

(* The hash of the transaction is logged before the error is looked at:    *)
(* there is no transaction, and the nil pointer ends the process.          *)
SendWithdrawPanics(h) ==
    /\ handler[h].call.at = "sending"
    /\ \/ ~Fresh(account["main"], handler[h].call.nonce) /\ UNCHANGED disturbances
       \/ "send" \in Failures /\ Disturb
    /\ Die("send")
    /\ UNCHANGED account

WaitWithdrawErrors(h) ==
    /\ handler[h].call.at = "waiting"
    /\ Fail("receipt")
    /\ Answer(h, "error")

(* Variant: the status in the receipt is not looked at.                    *)
PaidIgnoringStatus(h) ==
    /\ HasReceipt(handler[h].call, account["main"])
    /\ Answer(h, "hash")
    /\ UNCHANGED nodeVars

Paid(h) ==
    /\ HasReceipt(handler[h].call, account["main"])
    /\ Answer(h, IF Status(handler[h].call, account["main"]) THEN "hash" ELSE "error")
    /\ UNCHANGED nodeVars

-----------------------------------------------------------------------------
(* The node's other goroutines, and restarts *)

OtherSends(c) ==
    /\ running
    /\ Disturb
    /\ account' = [account EXCEPT ![c] = Sent(@, OtherTx)]
    /\ UNCHANGED <<bridgeVars, fileVars, handlerVars, chainVars, subscribed, running, faults>>

(* ... with a nonce one of the relayer's transactions has.                 *)
OtherReplaces(c) ==
    /\ running
    /\ Fail("replaced")
    /\ \E nonce \in 0..(Len(account[c].pool) - 1) :
          /\ Replaceable(account[c], nonce)
          /\ account' = [account EXCEPT ![c] = Replaced(@, nonce, OtherTx)]
    /\ UNCHANGED <<bridgeVars, fileVars, handlerVars, chainVars>>

(* The bridge does not look at its subscription again, the file keeper     *)
(* returns.                                                                *)
Drop(subscription) ==
    /\ subscription \in subscribed
    /\ "dropped" \in Failures
    /\ Disturb
    /\ faults' = faults \cup {"dropped"}
    /\ subscribed' = subscribed \ {subscription}
    /\ UNCHANGED <<bridgeVars, fileVars, handlerVars, chainVars, account, running>>

(* A new process: the store is what it was, of the events only those to    *)
(* come are heard.                                                         *)
Restart ==
    /\ "restart" \in Failures
    /\ Disturb
    /\ faults' = faults \cup {"restart"}
    /\ running' = TRUE
    /\ subscribed' = {"deposits", "blocks"}
    /\ relayed' = deposits
    /\ bridge' = Idle
    /\ filed' = Len(chain)
    /\ handler' = [h \in Handlers |-> Resting]
    /\ UNCHANGED <<outcome, blockAt, answers, requests, chainVars, account>>

-----------------------------------------------------------------------------
(* The chains *)

Deposit ==
    /\ deposits < MaxDeposits
    /\ Another
    /\ deposits' = deposits + 1
    /\ UNCHANGED <<bridgeVars, fileVars, handlerVars, chain, minted, withdrawn, account, nodeVars>>

CommitBlock(content) ==
    /\ Len(chain) < MaxBlocks
    /\ Another
    /\ \E number \in 0..Len(chain) :
          /\ IF number = Len(chain) THEN UNCHANGED nodeVars ELSE Fail("renumbered")
          /\ chain' = Append(chain, SerializeBlock([number |-> number, transitions |-> content]))
    /\ UNCHANGED <<bridgeVars, fileVars, handlerVars, deposits, minted, withdrawn, account>>

IsNext(c, method) == Unmined(account[c]) /\ NextTx(account[c]).method = method

MineTx(c, ok) == account' = [account EXCEPT ![c] = Mined(@, ok)]

MineMint ==
    /\ IsNext("side", "deposit")
    /\ MineTx("side", TRUE)
    /\ minted' = Append(minted, NextTx(account["side"]).deposit)
    /\ UNCHANGED <<bridgeVars, fileVars, handlerVars, deposits, chain, withdrawn, nodeVars>>

(* The contract computes the root of the block from the siblings, and has  *)
(* the roots of what was committed.                                        *)
Fits(included) ==
    \E i \in DOMAIN chain :
        /\ chain[i].number = included.number
        /\ chain[i].transitions = included.leaves
        /\ included.index + 1 \in DOMAIN included.leaves
        /\ included.transition = included.leaves[included.index + 1]

MineWithdraw ==
    /\ IsNext("main", "withdraw")
    /\ LET included == NextTx(account["main"]).included
       IN  /\ Fits(included)
           /\ withdrawn' = Append(withdrawn, included)
    /\ MineTx("main", TRUE)
    /\ UNCHANGED <<bridgeVars, fileVars, handlerVars, deposits, chain, minted, nodeVars>>

(* What does not fit, or was paid before; or for a reason of the contract. *)
MineReverts(c, method) ==
    /\ IsNext(c, method)
    /\ MineTx(c, FALSE)
    /\ \/ /\ method = "withdraw"
          /\ \/ ~Fits(NextTx(account[c]).included)
             \/ \E i \in DOMAIN withdrawn : withdrawn[i] = NextTx(account[c]).included
          /\ UNCHANGED nodeVars
       \/ Fail("reverted")
    /\ UNCHANGED <<bridgeVars, fileVars, handlerVars, chainVars>>

MineOther(c) ==
    /\ IsNext(c, "other")
    /\ MineTx(c, TRUE)
    /\ UNCHANGED <<bridgeVars, fileVars, handlerVars, chainVars, nodeVars>>

-----------------------------------------------------------------------------
BridgeLoop == TakeDeposit \/ SendMint \/ SendMintFails \/ Relayed

(* What a handler does with the request it has.                            *)
Serve(h) ==
    \/ ReadBlock(h) \/ BlockNotFound(h)
    \/ BuildPanics(h) \/ IndexPanics(h) \/ WrongType(h) \/ BuildProof(h)
    \/ SendWithdraw(h) \/ SendWithdrawPanics(h) \/ Paid(h)

MineSide == MineMint \/ MineReverts("side", "deposit") \/ MineOther("side")
MineMain == MineWithdraw \/ MineReverts("main", "withdraw") \/ MineOther("main")

Next ==
    \/ BridgeLoop \/ SendMintReplaces \/ WaitMintErrors
    \/ FileBlock \/ FileBlockFails
    \/ \E h \in Handlers :
          \/ \E number \in RequestNumbers, index \in RequestIndexes : Ask(h, number, index)
          \/ Serve(h)
          \/ BuildersCollide(h) \/ SendWithdrawReplaces(h) \/ WaitWithdrawErrors(h)
    \/ \E c \in {"side", "main"} : OtherSends(c) \/ OtherReplaces(c)
    \/ \E subscription \in {"deposits", "blocks"} : Drop(subscription)
    \/ Restart
    \/ Deposit
    \/ \E content \in BlockContents : CommitBlock(content)
    \/ MineSide \/ MineMain

Spec == Init /\ [][Next]_vars

(* The node's goroutines go on, and each chain mines what was sent to it;  *)
(* nobody has to deposit, commit or ask.                                   *)
FairSpec ==
    /\ Spec
    /\ WF_vars(BridgeLoop)
    /\ WF_vars(FileBlock)
    /\ \A h \in Handlers : WF_vars(Serve(h))
    /\ WF_vars(MineSide)
    /\ WF_vars(MineMain)

-----------------------------------------------------------------------------
(* No deposit is minted twice, whatever fails or is restarted: the bridge  *)
(* gives a deposit up rather than relay it again.                          *)
MintedOnce ==
    \A i, j \in DOMAIN minted : minted[i] = minted[j] => i = j

(* What relayDeposit says of a deposit is so: it is minted when there is   *)
(* no error, and when there is one it is not and never will be, unless the *)
(* receipt was not heard of.                                               *)
OutcomeTrue ==
    \A d \in 1..MaxDeposits :
        /\ outcome[d] = "nil" => \E i \in DOMAIN minted : minted[i] = d
        /\ outcome[d] = "error" /\ "receipt" \notin faults =>
              \A i \in DOMAIN minted : minted[i] # d

(* Whatever is sent to the main chain to withdraw is a withdraw transition *)
(* of a committed block with a proof the contract accepts: decoded from an *)
(* event, encoded and filed, read, decoded, and encoded again for its tree.*)
ProofsFit ==
    \A i \in DOMAIN account["main"].pool :
        LET tx == account["main"].pool[i]
        IN  tx.method = "withdraw" =>
                /\ Fits(tx.included)
                /\ DeserializeTransition(tx.included.transition).type = "withdraw"

(* A client that gets a hash has been paid for what it asked.              *)
AnsweredIsPaid ==
    \A i \in DOMAIN answers :
        answers[i].result = "hash" =>
            \E j \in DOMAIN withdrawn :
                /\ withdrawn[j] = answers[i].tx.included
                /\ withdrawn[j].number = TableKey(answers[i].request.number)
                /\ withdrawn[j].index = answers[i].request.index

(* WaitMined has no deadline.                                              *)
Overwritten(call, c) == account[c].pool[call.nonce + 1] # call.tx

BridgeStuck == bridge.at = "waiting" /\ Overwritten(bridge, "side")

(* The bridge takes no more deposits.                                      *)
BridgeDeaf == ~running \/ "deposits" \notin subscribed \/ BridgeStuck

InFlight(d) ==
    \/ bridge.at = "sending" /\ bridge.tx.deposit = d
    \/ \E i \in (Len(account["side"].receipts) + 1)..Len(account["side"].pool) :
          account["side"].pool[i] = [method |-> "deposit", deposit |-> d]

(* The node went away with what it had taken.                              *)
Died == ~running \/ "restart" \in faults

(* Every deposit is minted in the end, but for those the bridge has still  *)
(* to take and hears of no more, those it reported an error of, and those  *)
(* it had taken when the process ended or was made to wait for ever:       *)
(* whatever failed of the deposits before and after.  One whose mint was   *)
(* sent is none of them, error or not, until that mint has failed.         *)
EventuallyMinted ==
    []<>(\A d \in 1..deposits :
            \/ \E i \in DOMAIN minted : minted[i] = d
            \/ d > relayed /\ BridgeDeaf
            \/ /\ d <= relayed /\ ~InFlight(d)
               /\ outcome[d] = "error" \/ BridgeStuck \/ Died)

(* Every committed block can be withdrawn from in the end, unless another  *)
(* has its number, its event was not heard of, or it was not filed when    *)
(* the store failed or a process ended: what comes before it and after it  *)
(* makes no difference.                                                    *)
EventuallyFiled ==
    []<>(\A i \in DOMAIN chain :
            \/ \E k \in DOMAIN blockAt : blockAt[k] = chain[i]
            \/ \E j \in DOMAIN chain : j > i /\ chain[j].number = chain[i].number
            \/ i > filed /\ (~running \/ "blocks" \notin subscribed)
            \/ i <= filed /\ faults \cap {"store", "restart"} # {})

(* Neither a deposit nor a request keeps anybody waiting for ever, but for *)
(* a transaction that another one replaced.                                *)
EveryRequestAnswered ==
    []<>(/\ bridge.at = "waiting" => BridgeStuck
         /\ \A h \in Handlers :
               handler[h].at # "idle" =>
                   /\ handler[h].call.at = "waiting"
                   /\ Overwritten(handler[h].call, "main"))
=============================================================================
