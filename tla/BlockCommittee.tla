--------------------------- MODULE BlockCommittee ---------------------------
(***************************************************************************)
(* The BlockSubmitters of the nodes that run as aggregators, and the two   *)
(* contracts they talk to: BlockCommittee on the sidechain, where the      *)
(* proposer proposes and the others sign, and RollupChain on the main      *)
(* chain, where the committer commits what was agreed.                     *)
(*                                                                         *)
(* Every node has a goroutine that proposes (processTransactions), one     *)
(* that signs and commits under the lock (watchBlockCommittee), and next   *)
(* to them two that use the same accounts for something else: the bridge   *)
(* and the withdrawals, which are in Relayer.                              *)
(*                                                                         *)
(* The contracts are external.  What is assumed of them is what the calls  *)
(* show: ProposeBlock is for the current proposer; SignBlock, which        *)
(* carries no block number, is about the current proposal and fails when   *)
(* the signature is for another; enough signatures are a consensus.        *)
(* A block is its number and how many transitions it has.                  *)
(***************************************************************************)
EXTENDS ChainAccount, FiniteSets

CONSTANTS
    Nodes,           \* the nodes that run in aggregator mode
    Committer,       \* RollupChain.CommitterAddress
    DistinctKeys,    \* nodes with different keystores for the two chains
    Quorum,          \* signatures that make a consensus, the proposer's included
    Failures,        \* subset of AllFailures the environment may produce
    MaxTx,           \* bound on the transactions that fill a block
    MaxDisturbances  \* bound on the failures, and the calls of other goroutines

AllFailures ==
    { "call",        \* reading from a contract, or sending to it, fails
      "replaced",    \* a transaction is replaced by another with its nonce
      "receipt",     \* asking for a receipt fails after the transaction was sent
      "lookup",      \* RollupChain.Blocks(0) fails after a commit
      "reverted",    \* RollupChain refuses a commit
      "superseded",  \* the contract takes a proposal before the last was agreed
      "rotated",     \* the current proposer changes
      "dropped",     \* subscriptions of a node end
      "restart" }    \* a node is restarted

ASSUME CommitteeAssumption ==
    /\ Committer \in Nodes
    /\ DistinctKeys \subseteq Nodes
    /\ Quorum \in Nat \ {0}
    /\ Failures \subseteq AllFailures
    /\ MaxTx \in Nat /\ MaxDisturbances \in Nat

VARIABLES
    number, size,    \* the pending block of each node: its number, its transitions
    thread,          \* the goroutines of each node and the calls they are in
    account,         \* the accounts of each node, on both chains
    heard,           \* how many events of each kind each node has taken
    subscribed,      \* the subscriptions of each node that still deliver
    running,         \* whether the process of a node is alive
    proposer,        \* the contract's current proposer
    proposal,        \* its current proposal
    proposed,        \* BlockProposed events
    agreed,          \* BlockConsensusReached events
    chain,           \* blocks committed on the main chain
    passed,          \* history: numbers a node passed over, not being the proposer
    faults,          \* history: what went wrong so far
    lost,            \* history: proposed blocks that something kept from the main chain
    received,        \* transactions that filled a block of a node, of any
    disturbances     \* failures, and calls of the bridge and the withdrawals

nodeVars == <<number, size, heard, subscribed, running, passed>>
contractVars == <<proposer, proposal, proposed, agreed, chain>>
bounds == <<received, disturbances>>
vars == <<nodeVars, thread, account, contractVars, faults, lost, bounds>>

Threads == {"propose", "committee", "bridge", "withdraw"}

Pending(n, transitions) == [by |-> n, number |-> number[n], size |-> transitions]
NoBlock(n) == [by |-> n, number |-> 0, size |-> 0]
Tx(method, block) == [method |-> method, block |-> block]

(* The chain a method is called on.                                        *)
ChainOf(tx) == IF tx.method \in {"commit", "withdraw"} THEN "main" ELSE "side"

Init ==
    /\ number = [n \in Nodes |-> 0]
    /\ size = [n \in Nodes |-> 0]
    /\ thread = [n \in Nodes |-> [t \in Threads |-> Idle]]
    /\ account = [n \in Nodes |-> [c \in {"side", "main"} |-> NewAccount]]
    /\ heard = [n \in Nodes |-> [proposed |-> 0, agreed |-> 0]]
    /\ subscribed = [n \in Nodes |-> {"proposed", "agreed"}]
    /\ running = [n \in Nodes |-> TRUE]
    /\ proposer \in Nodes
    /\ proposal = [block |-> NoBlock(proposer), signers |-> {}, decided |-> TRUE]
    /\ proposed = <<>>
    /\ agreed = <<>>
    /\ chain = <<>>
    /\ passed = [n \in Nodes |-> {}]
    /\ faults = {}
    /\ lost = {}
    /\ received = 0
    /\ disturbances = 0

-----------------------------------------------------------------------------
(* Calls: what every goroutine does between its decision to call a         *)
(* contract and the end of the call.                                       *)

Disturb ==
    /\ disturbances < MaxDisturbances
    /\ disturbances' = disturbances + 1

(* The environment produces a failure.                                     *)
Fail(kind) ==
    /\ kind \in Failures
    /\ Disturb
    /\ faults' = faults \cup {kind}

Free(n, t) == running[n] /\ thread[n][t].at = "idle"

Start(n, t, tx) ==
    thread' = [thread EXCEPT ![n][t] = Sending(account[n][ChainOf(tx)], tx)]

Return(n, t) == thread' = [thread EXCEPT ![n][t] = Idle]

(* The block that is lost with a transaction: nobody signs or commits it a *)
(* second time.  A proposal is made again, and that of the proposer is its *)
(* signature, too.                                                         *)
LostWith(n, tx) ==
    IF tx.method = "commit" \/ (tx.method = "sign" /\ tx.block.by # n)
    THEN {tx.block} ELSE {}

(* The nonce is still the next one: the transaction is sent.               *)
Send(n, t) ==
    LET call == thread[n][t]
        c    == ChainOf(call.tx)
    IN  /\ call.at = "sending"
        /\ Fresh(account[n][c], call.nonce)
        /\ account' = [account EXCEPT ![n][c] = Sent(@, call.tx)]
        /\ thread' = [thread EXCEPT ![n][t] = Waiting(call)]
        /\ UNCHANGED <<nodeVars, contractVars, faults, lost, bounds>>

(* Another goroutine used the nonce first, and this one pays more.         *)
SendReplaces(n, t) ==
    LET call == thread[n][t]
        c    == ChainOf(call.tx)
    IN  /\ call.at = "sending"
        /\ Fail("replaced")
        /\ Replaceable(account[n][c], call.nonce)
        /\ account' = [account EXCEPT ![n][c] = Replaced(@, call.nonce, call.tx)]
        /\ thread' = [thread EXCEPT ![n][t] = Waiting(call)]
        /\ lost' = lost \cup LostWith(n, account[n][c].pool[call.nonce + 1])
        /\ UNCHANGED <<nodeVars, contractVars, received>>

(* ... or not: the call returns an error.                                  *)
SendFails(n, t) ==
    LET call == thread[n][t]
    IN  /\ call.at = "sending"
        /\ ~Fresh(account[n][ChainOf(call.tx)], call.nonce)
        /\ Return(n, t)
        /\ faults' = faults \cup {"collided"}
        /\ lost' = lost \cup LostWith(n, call.tx)
        /\ UNCHANGED <<nodeVars, account, contractVars, bounds>>

(* The node of the chain cannot be reached or refuses the transaction,     *)
(* whatever its nonce.  An error although the chain has the transaction is *)
(* WaitErrors.                                                             *)
SendErrors(n, t) ==
    /\ thread[n][t].at = "sending"
    /\ Fail("call")
    /\ Return(n, t)
    /\ lost' = lost \cup LostWith(n, thread[n][t].tx)
    /\ UNCHANGED <<nodeVars, account, contractVars, received>>

(* WaitMined returns an error: the transaction is sent all the same.       *)
WaitErrors(n, t) ==
    /\ thread[n][t].at = "waiting"
    /\ Fail("receipt")
    /\ Return(n, t)
    /\ UNCHANGED <<nodeVars, account, contractVars, lost, received>>

Receipt(n, t) == HasReceipt(thread[n][t], account[n][ChainOf(thread[n][t].tx)])
Succeeded(n, t) == Status(thread[n][t], account[n][ChainOf(thread[n][t].tx)])

(* receipt.Status != 1: an error.                                          *)
WaitReverted(n, t) ==
    /\ Receipt(n, t)
    /\ ~Succeeded(n, t)
    /\ Return(n, t)
    /\ UNCHANGED <<nodeVars, account, contractVars, faults, lost, bounds>>

-----------------------------------------------------------------------------
(* processTransactions, proposeBlock *)

(* Variant: the block is serialized before the transition is added to it.  *)
ProposeBeforeAdding(n) ==
    /\ Free(n, "propose")
    /\ received < MaxTx
    /\ n = proposer
    /\ received' = received + 1
    /\ size' = [size EXCEPT ![n] = @ + 1]
    /\ Start(n, "propose", Tx("propose", Pending(n, size[n])))
    /\ UNCHANGED <<number, heard, subscribed, running, passed, account, contractVars, faults, lost, disturbances>>

(* A transaction fills the pending block, and the contract names this node *)
(* as the proposer.  A block whose proposal failed is pending still, with  *)
(* one transition more.                                                    *)
Propose(n) ==
    /\ Free(n, "propose")
    /\ received < MaxTx
    /\ n = proposer
    /\ received' = received + 1
    /\ size' = [size EXCEPT ![n] = @ + 1]
    /\ Start(n, "propose", Tx("propose", Pending(n, size[n] + 1)))
    /\ UNCHANGED <<number, heard, subscribed, running, passed, account, contractVars, faults, lost, disturbances>>

(* It does not: proposeBlock returns (false, nil) and applyTransaction,    *)
(* which looks only at the error, starts the next block.                   *)
PassOver(n) ==
    /\ Free(n, "propose")
    /\ received < MaxTx
    /\ n # proposer
    /\ received' = received + 1
    /\ number' = [number EXCEPT ![n] = @ + 1]
    /\ size' = [size EXCEPT ![n] = 0]
    /\ passed' = [passed EXCEPT ![n] = @ \cup {number[n]}]
    /\ UNCHANGED <<heard, subscribed, running, thread, account, contractVars, faults, lost, disturbances>>

(* The proposer cannot be asked for: an error, and the block is pending    *)
(* still.                                                                  *)
ProposerUnknown(n) ==
    /\ Free(n, "propose")
    /\ received < MaxTx
    /\ Fail("call")
    /\ received' = received + 1
    /\ size' = [size EXCEPT ![n] = @ + 1]
    /\ UNCHANGED <<number, heard, subscribed, running, passed, thread, account, contractVars, lost>>

(* Variant: the status in the receipt is not looked at.                    *)
ProposedIgnoringStatus(n) ==
    /\ thread[n]["propose"].at = "waiting"
    /\ Receipt(n, "propose")
    /\ Return(n, "propose")
    /\ number' = [number EXCEPT ![n] = @ + 1]
    /\ size' = [size EXCEPT ![n] = 0]
    /\ UNCHANGED <<heard, subscribed, running, passed, account, contractVars, faults, lost, bounds>>

(* Variant: the next pending block gets the same number.                   *)
ProposedSameNumber(n) ==
    /\ thread[n]["propose"].at = "waiting"
    /\ Receipt(n, "propose")
    /\ Succeeded(n, "propose")
    /\ Return(n, "propose")
    /\ size' = [size EXCEPT ![n] = 0]
    /\ UNCHANGED <<number, heard, subscribed, running, passed, account, contractVars, faults, lost, bounds>>

(* The proposal is mined: the next block.                                  *)
Proposed(n) ==
    /\ thread[n]["propose"].at = "waiting"
    /\ Receipt(n, "propose")
    /\ Succeeded(n, "propose")
    /\ Return(n, "propose")
    /\ number' = [number EXCEPT ![n] = @ + 1]
    /\ size' = [size EXCEPT ![n] = 0]
    /\ UNCHANGED <<heard, subscribed, running, passed, account, contractVars, faults, lost, bounds>>

-----------------------------------------------------------------------------
(* watchBlockCommittee: submitSignature, commitBlock.  The goroutine takes *)
(* the lock, does the whole call and releases it; select picks either      *)
(* channel that is ready.                                                  *)

(* submitSignature compares the main-chain address with the proposer's.    *)
TakesItselfForProposer(n) == n = proposer /\ n \notin DistinctKeys

(* Variant: a node signs only what has the number of its own pending block.*)
HearProposedOwnNumber(n) ==
    /\ Free(n, "committee")
    /\ "proposed" \in subscribed[n]
    /\ heard[n].proposed < Len(proposed)
    /\ heard' = [heard EXCEPT ![n].proposed = @ + 1]
    /\ IF TakesItselfForProposer(n) \/ proposed[heard[n].proposed + 1].number # number[n]
       THEN UNCHANGED thread
       ELSE Start(n, "committee", Tx("sign", proposed[heard[n].proposed + 1]))
    /\ UNCHANGED <<number, size, subscribed, running, passed, account, contractVars, faults, lost, bounds>>

HearProposed(n) ==
    /\ Free(n, "committee")
    /\ "proposed" \in subscribed[n]
    /\ heard[n].proposed < Len(proposed)
    /\ heard' = [heard EXCEPT ![n].proposed = @ + 1]
    /\ IF TakesItselfForProposer(n)
       THEN UNCHANGED thread
       ELSE Start(n, "committee", Tx("sign", proposed[heard[n].proposed + 1]))
    /\ UNCHANGED <<number, size, subscribed, running, passed, account, contractVars, faults, lost, bounds>>

HearAgreed(n) ==
    /\ Free(n, "committee")
    /\ "agreed" \in subscribed[n]
    /\ heard[n].agreed < Len(agreed)
    /\ heard' = [heard EXCEPT ![n].agreed = @ + 1]
    /\ IF n = Committer
       THEN Start(n, "committee", Tx("commit", agreed[heard[n].agreed + 1]))
       ELSE UNCHANGED thread
    /\ UNCHANGED <<number, size, subscribed, running, passed, account, contractVars, faults, lost, bounds>>

(* The proposer or the committer cannot be asked for: the error is not     *)
(* looked at, and the event is gone.                                       *)
HearProposedInVain(n) ==
    /\ Free(n, "committee")
    /\ "proposed" \in subscribed[n]
    /\ heard[n].proposed < Len(proposed)
    /\ Fail("call")
    /\ heard' = [heard EXCEPT ![n].proposed = @ + 1]
    /\ lost' = lost \cup LostWith(n, Tx("sign", proposed[heard[n].proposed + 1]))
    /\ UNCHANGED <<number, size, subscribed, running, passed, thread, account, contractVars, received>>

HearAgreedInVain(n) ==
    /\ Free(n, "committee")
    /\ "agreed" \in subscribed[n]
    /\ heard[n].agreed < Len(agreed)
    /\ Fail("call")
    /\ heard' = [heard EXCEPT ![n].agreed = @ + 1]
    /\ lost' = IF n = Committer THEN lost \cup {agreed[heard[n].agreed + 1]} ELSE lost
    /\ UNCHANGED <<number, size, subscribed, running, passed, thread, account, contractVars, received>>

(* The signature or the commit is mined, and the lock released.            *)
Handled(n) ==
    /\ Receipt(n, "committee")
    /\ Succeeded(n, "committee")
    /\ Return(n, "committee")
    /\ UNCHANGED <<nodeVars, account, contractVars, faults, lost, bounds>>

(* After a commit Blocks(0) is read and its error not looked at: the nil   *)
(* BlockSize is dereferenced, and with the goroutine the process ends.     *)
CommitPanics(n) ==
    /\ Fail("lookup")
    /\ Receipt(n, "committee")
    /\ Succeeded(n, "committee")
    /\ thread[n]["committee"].tx.method = "commit"
    /\ thread' = [thread EXCEPT ![n] = [t \in Threads |-> Idle]]
    /\ running' = [running EXCEPT ![n] = FALSE]
    /\ UNCHANGED <<number, size, heard, subscribed, passed, account, contractVars, lost, received>>

-----------------------------------------------------------------------------
(* The bridge relays a deposit, a client withdraws.                        *)
OtherCall(n, t) ==
    /\ t \in {"bridge", "withdraw"}
    /\ Free(n, t)
    /\ Disturb
    /\ Start(n, t, Tx(t, NoBlock(n)))
    /\ UNCHANGED <<nodeVars, account, contractVars, faults, lost, received>>

OtherDone(n, t) ==
    /\ t \in {"bridge", "withdraw"}
    /\ Receipt(n, t)
    /\ Succeeded(n, t)
    /\ Return(n, t)
    /\ UNCHANGED <<nodeVars, account, contractVars, faults, lost, bounds>>

(* The channel of errors is read and nothing done: the loop goes round and *)
(* round, and hears of nothing more.  One connection carries both; where   *)
(* subscribing fails, the goroutine ends before its loop.                  *)
Drop(n, subscriptions) ==
    /\ subscriptions # {}
    /\ subscriptions \subseteq subscribed[n]
    /\ Fail("dropped")
    /\ subscribed' = [subscribed EXCEPT ![n] = @ \ subscriptions]
    /\ UNCHANGED <<number, size, heard, running, passed, thread, account, contractVars, lost, received>>

(* What a node has not taken yet of the events it must act on.             *)
ProposalsToHear(n) ==
    {block \in {proposed[i] : i \in (heard[n].proposed + 1)..Len(proposed)} : block.by # n}

AgreementsToHear(n) ==
    {agreed[i] : i \in {j \in (heard[n].agreed + 1)..Len(agreed) : n = Committer}}

LostUnsent(n) ==
    LET call == thread[n]["committee"]
    IN  IF call.at = "sending" THEN LostWith(n, call.tx) ELSE {}

(* A new process: block 0, and no events but those to come.                *)
Restart(n) ==
    /\ Fail("restart")
    /\ number' = [number EXCEPT ![n] = 0]
    /\ size' = [size EXCEPT ![n] = 0]
    /\ thread' = [thread EXCEPT ![n] = [t \in Threads |-> Idle]]
    /\ heard' = [heard EXCEPT ![n] = [proposed |-> Len(proposed), agreed |-> Len(agreed)]]
    /\ subscribed' = [subscribed EXCEPT ![n] = {"proposed", "agreed"}]
    /\ running' = [running EXCEPT ![n] = TRUE]
    /\ passed' = [passed EXCEPT ![n] = {}]
    /\ lost' = lost \cup ProposalsToHear(n) \cup AgreementsToHear(n) \cup LostUnsent(n)
    /\ UNCHANGED <<account, contractVars, received>>

-----------------------------------------------------------------------------
(* The chains *)

MineTx(n, c, ok) == account' = [account EXCEPT ![n][c] = Mined(@, ok)]

IsNext(n, c, method) ==
    /\ Unmined(account[n][c])
    /\ NextTx(account[n][c]).method = method

(* BlockCommittee.proposeBlock *)
MineProposal(n) ==
    LET block == NextTx(account[n]["side"]).block
    IN  /\ IsNext(n, "side", "propose")
        /\ n = proposer
        /\ IF proposal.decided THEN UNCHANGED <<faults, disturbances>> ELSE Fail("superseded")
        /\ MineTx(n, "side", TRUE)
        /\ lost' = IF proposal.decided THEN lost ELSE lost \cup {proposal.block}
        /\ proposal' = [block |-> block, signers |-> {n}, decided |-> Quorum = 1]
        /\ proposed' = Append(proposed, block)
        /\ agreed' = IF Quorum = 1 THEN Append(agreed, block) ELSE agreed
        /\ UNCHANGED <<nodeVars, thread, proposer, chain, received>>

(* It reverts for others, and may revert while another is undecided.       *)
MineProposalReverts(n) ==
    /\ IsNext(n, "side", "propose")
    /\ n # proposer \/ ~proposal.decided
    /\ MineTx(n, "side", FALSE)
    /\ UNCHANGED <<nodeVars, thread, contractVars, faults, lost, bounds>>

SignatureFits(n) ==
    /\ ~proposal.decided
    /\ NextTx(account[n]["side"]).block = proposal.block
    /\ n \notin proposal.signers

(* BlockCommittee.signBlock *)
MineSignature(n) ==
    LET signers == proposal.signers \cup {n}
        enough  == Cardinality(signers) >= Quorum
    IN  /\ IsNext(n, "side", "sign")
        /\ SignatureFits(n)
        /\ MineTx(n, "side", TRUE)
        /\ proposal' = [proposal EXCEPT !.signers = signers, !.decided = enough]
        /\ agreed' = IF enough THEN Append(agreed, proposal.block) ELSE agreed
        /\ UNCHANGED <<nodeVars, thread, proposer, proposed, chain, faults, lost, bounds>>

MineSignatureReverts(n) ==
    /\ IsNext(n, "side", "sign")
    /\ ~SignatureFits(n)
    /\ MineTx(n, "side", FALSE)
    /\ UNCHANGED <<nodeVars, thread, contractVars, faults, lost, bounds>>

(* RollupChain.commitBlock, which also may revert *)
MineCommit(n) ==
    /\ IsNext(n, "main", "commit")
    /\ MineTx(n, "main", TRUE)
    /\ chain' = Append(chain, NextTx(account[n]["main"]).block)
    /\ UNCHANGED <<nodeVars, thread, proposer, proposal, proposed, agreed, faults, lost, bounds>>

MineCommitReverts(n) ==
    /\ IsNext(n, "main", "commit")
    /\ Fail("reverted")
    /\ MineTx(n, "main", FALSE)
    /\ lost' = lost \cup {NextTx(account[n]["main"]).block}
    /\ UNCHANGED <<nodeVars, thread, contractVars, received>>

MineOther(n, t, c) ==
    /\ IsNext(n, c, t)
    /\ \E ok \in BOOLEAN : MineTx(n, c, ok)
    /\ UNCHANGED <<nodeVars, thread, contractVars, faults, lost, bounds>>

(* A node that is made the proposer does not sign what others proposed     *)
(* before, unless it compares the wrong keys.                              *)
RotateProposer(n) ==
    /\ Fail("rotated")
    /\ n # proposer
    /\ proposer' = n
    /\ lost' = IF n \in DistinctKeys THEN lost ELSE lost \cup ProposalsToHear(n)
    /\ UNCHANGED <<nodeVars, thread, account, proposal, proposed, agreed, chain, received>>

-----------------------------------------------------------------------------
(* What the goroutines do by themselves, and what the chains do.           *)

GoOn(n, t) == Send(n, t) \/ SendFails(n, t) \/ WaitReverted(n, t)

ProposeLoop(n) == GoOn(n, "propose") \/ Proposed(n)

CommitteeLoop(n) ==
    \/ HearProposed(n)
    \/ HearAgreed(n)
    \/ GoOn(n, "committee")
    \/ Handled(n)

OtherLoop(n, t) == GoOn(n, t) \/ OtherDone(n, t)

MineSide(n) ==
    \/ MineProposal(n)
    \/ MineProposalReverts(n)
    \/ MineSignature(n)
    \/ MineSignatureReverts(n)
    \/ MineOther(n, "bridge", "side")

MineMain(n) == MineCommit(n) \/ MineOther(n, "withdraw", "main")

NodeNext(n) ==
    \/ Propose(n)
    \/ PassOver(n)
    \/ ProposerUnknown(n)
    \/ ProposeLoop(n)
    \/ CommitteeLoop(n)
    \/ HearProposedInVain(n)
    \/ HearAgreedInVain(n)
    \/ CommitPanics(n)
    \/ \E t \in {"bridge", "withdraw"} : OtherCall(n, t) \/ OtherLoop(n, t)
    \/ \E t \in Threads : SendReplaces(n, t) \/ SendErrors(n, t) \/ WaitErrors(n, t)
    \/ \E subscriptions \in SUBSET {"proposed", "agreed"} : Drop(n, subscriptions)
    \/ Restart(n)

Next ==
    \E n \in Nodes :
        \/ NodeNext(n)
        \/ MineSide(n)
        \/ MineMain(n)
        \/ MineCommitReverts(n)
        \/ RotateProposer(n)

Spec == Init /\ [][Next]_vars

(* Goroutines go on with the call they are in and the committee's with the *)
(* next event; each chain mines what was sent to it.  That transactions    *)
(* arrive is not assumed, nor that anybody else calls.                     *)
FairSpec ==
    /\ Spec
    /\ \A n \in Nodes :
          /\ WF_vars(ProposeLoop(n))
          /\ WF_vars(CommitteeLoop(n))
          /\ \A t \in {"bridge", "withdraw"} : WF_vars(OtherLoop(n, t))
          /\ WF_vars(MineSide(n))
          /\ WF_vars(MineMain(n))

-----------------------------------------------------------------------------
Blocks == [by : Nodes, number : Nat, size : Nat]

(* Types.  Nobody has taken an event that did not happen, no receipt is    *)
(* for a transaction that was not sent, a call is about a nonce the        *)
(* account has reached, and what a node proposes is its whole pending      *)
(* block.                                                                  *)
TypeOK ==
    /\ number \in [Nodes -> Nat] /\ size \in [Nodes -> Nat]
    /\ running \in [Nodes -> BOOLEAN]
    /\ proposer \in Nodes
    /\ proposed \in Seq(Blocks) /\ agreed \in Seq(Blocks) /\ chain \in Seq(Blocks)
    /\ proposal.block \in Blocks /\ proposal.signers \subseteq Nodes
    /\ lost \subseteq Blocks
    /\ \A n \in Nodes :
          /\ heard[n].proposed \in 0..Len(proposed)
          /\ heard[n].agreed \in 0..Len(agreed)
          /\ \A c \in {"side", "main"} :
                Len(account[n][c].receipts) <= Len(account[n][c].pool)
          /\ thread[n]["propose"].at # "idle" =>
                thread[n]["propose"].tx = Tx("propose", Pending(n, size[n]))
          /\ \A t \in Threads :
                thread[n][t].at # "idle" =>
                    thread[n][t].nonce <= Len(account[n][ChainOf(thread[n][t].tx)].pool)

(* The main chain gets every block number at most once and in ascending    *)
(* order, although failed proposals are proposed again with the same       *)
(* number, unless a receipt was not heard of, the proposer changed, or a   *)
(* node was restarted.                                                     *)
CommittedInOrder ==
    faults \cap {"receipt", "rotated", "restart"} = {} =>
        \A i, j \in DOMAIN chain : i < j => chain[i].number < chain[j].number

(* A node goes on to its next block number only when the contract has      *)
(* accepted a proposal of it with this one, or it was not the proposer:    *)
(* whatever its other goroutines did to its account in the meantime.       *)
NoNumberSkipped ==
    \A n \in Nodes : \A k \in 0..(number[n] - 1) :
        \/ k \in passed[n]
        \/ \E i \in DOMAIN proposed : proposed[i].by = n /\ proposed[i].number = k

(* WaitMined has no deadline and is called with the lock held, but again   *)
(* and again nobody waits, but for a transaction that another one replaced.*)
Overwritten(n, t) ==
    LET call == thread[n][t]
    IN  account[n][ChainOf(call.tx)].pool[call.nonce + 1] # call.tx

EveryCallReturns ==
    []<>(\A n \in Nodes, t \in Threads : thread[n][t].at = "waiting" => Overwritten(n, t))

(* The goroutine that signs and commits takes no more events of a kind.    *)
Deaf(n, kind) ==
    \/ ~running[n]
    \/ kind \notin subscribed[n]
    \/ thread[n]["committee"].at = "waiting" /\ Overwritten(n, "committee")

Unheard(block) ==
    \E n \in Nodes :
        \/ Deaf(n, "proposed") /\ block \in ProposalsToHear(n)
        \/ Deaf(n, "agreed") /\ block \in AgreementsToHear(n)

(* What is proposed is agreed and committed in the end, but for the blocks *)
(* of which the one call that matters was lost, and those a node that has  *)
(* died or hears nothing had still to hear of.  Whatever else goes wrong,  *)
(* and whatever happens to the blocks before and after: a signature that   *)
(* comes late, a receipt nobody heard of, a goroutine that waits with the  *)
(* lock held, an event taken by the wrong node do not stop it.             *)
EventuallyCommitted ==
    []<>(\A i \in DOMAIN proposed :
            \/ \E j \in DOMAIN chain : chain[j] = proposed[i]
            \/ proposed[i] \in lost
            \/ Unheard(proposed[i]))
=============================================================================
