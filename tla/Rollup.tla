------------------------------- MODULE Rollup -------------------------------
(***************************************************************************)
(* The rollup pipeline: an aggregator applies transactions, packs them     *)
(* into blocks and has them proposed; the committee's consensus leads to   *)
(* their commitment on the main chain; a validator on another node replays *)
(* every committed transition and submits a fraud proof when it disagrees. *)
(*                                                                         *)
(* The two nodes share nothing but the committed blocks.  Each has its own *)
(* tables, tree and token watcher.  What the environment may do wrong is   *)
(* the constant Failures, so that a run can tell the consequences apart.   *)
(***************************************************************************)
EXTENDS Encoding, FiniteSets

CONSTANTS
    Amounts, Nonces,   \* of the transactions that arrive
    TokenOrder,        \* the tokens as the TokenRegistry numbered them
    BlockSize,         \* numTransitionsInBlock
    FraudFlags,        \* what the flag fraudtransfer may be set to, subset of BOOLEAN
    Failures,          \* subset of AllFailures the environment may produce
    MaxTx,             \* bound on the transactions, accepted or rejected
    MaxRejected,       \* bound on the rejected ones
    MaxRestarts        \* bound on the restarts of the two nodes

AllFailures ==
    { "retry",       \* proposing fails before the transaction is sent
      "repeated",    \* ... or after: the proposal is on the side chain all the same
      "dropped",     \* the node finds it is not the current proposer
      "lost",        \* commitBlock fails; the error is not looked at
      "submit",      \* the fraud proof cannot be submitted
      "restart",     \* the aggregator is restarted
      "missed" }     \* the validator is restarted and misses events

ASSUME RollupAssumption ==
    /\ Amounts \subseteq Nat /\ Nonces \subseteq Nat
    /\ TokenOrder \in Seq(Tokens)
    /\ \A i, j \in DOMAIN TokenOrder : TokenOrder[i] = TokenOrder[j] => i = j
    /\ BlockSize \in Nat \ {0}
    /\ FraudFlags \subseteq BOOLEAN /\ FraudFlags # {}
    /\ Failures \subseteq AllFailures
    /\ MaxTx \in Nat /\ MaxRejected \in Nat /\ MaxRestarts \in Nat

VARIABLES
    agg,         \* the aggregator's tables and tree
    aggStatus,   \* "running" or "panicked"
    pending,     \* its pending block
    fraudTransfer, \* the flag it was started with
    proposals,   \* encoded blocks proposed to the committee and not yet dealt with
    chain,       \* encoded blocks committed on the main chain, in order of commitment
    val,         \* the validator's tables and tree
    valStatus,   \* "running" or "panicked"
    blocks,      \* the validator's table of committed blocks, by number
    cursor,      \* the event and the transition in it the validator is at
    alarms,      \* the fraud proofs it submitted
    skipped,     \* history: the transitions it passed over, by event and place
    faults,      \* history: what went wrong so far
    built,       \* history: every transition the aggregator ever built
    rejected,    \* number of rejected transactions
    restarts     \* number of restarts

aggVars == <<agg, aggStatus, pending, fraudTransfer>>
valVars == <<val, valStatus, blocks, cursor, alarms, skipped>>
vars == <<aggVars, proposals, chain, valVars, faults, built, rejected, restarts>>

Mapped == [t \in { TokenOrder[i] : i \in DOMAIN TokenOrder } |->
              (CHOOSE i \in DOMAIN TokenOrder : TokenOrder[i] = t) - 1]

Init ==
    /\ agg = [InitState EXCEPT !.tokenIndex = Mapped]
    /\ aggStatus = "running"
    /\ pending = NewBlock(0)
    /\ fraudTransfer \in FraudFlags
    /\ proposals = <<>>
    /\ chain = <<>>
    /\ val = InitState
    /\ valStatus = "running"
    /\ blocks = EmptyTable
    /\ cursor = [event |-> 1, next |-> 0]
    /\ alarms = <<>>
    /\ skipped = {}
    /\ faults = {}
    /\ built = <<>>
    /\ rejected = 0
    /\ restarts = 0

-----------------------------------------------------------------------------
(* Aggregator: applyTransaction *)

(* The transactions that arrived so far, for the bound on them.            *)
Arrived == Len(built) + rejected

(* ApplyTransaction failed: the error is dropped and with it the           *)
(* transaction.  A transfer may have created its recipient on the way.     *)
Reject(tx) ==
    LET update == ApplyTransaction(agg, tx)
    IN  /\ aggStatus = "running"
        /\ rejected < MaxRejected
        /\ Arrived < MaxTx
        /\ update.outcome = "rejected"
        /\ agg' = update.st
        /\ rejected' = rejected + 1
        /\ faults' = IF update.st # agg THEN faults \cup {"orphan"} ELSE faults
        /\ UNCHANGED <<aggStatus, pending, fraudTransfer, proposals, chain, valVars, built, restarts>>

Crash(tx) ==
    LET update == ApplyTransaction(agg, tx)
    IN  /\ aggStatus = "running"
        /\ update.outcome = "panic"
        /\ agg' = update.st
        /\ aggStatus' = "panicked"
        /\ UNCHANGED <<pending, fraudTransfer, proposals, chain, valVars, faults, built, rejected,
                       restarts>>

(* The block with the new transition, as addToPendingBlock leaves it.      *)
AddToPendingBlock(update, tx) ==
    [pending EXCEPT !.transitions =
        Append(@, TransitionOf(update, tx, fraudTransfer))]

Full(block) == Len(block.transitions) >= BlockSize

Accept(tx, update) ==
    /\ aggStatus = "running"
    /\ Arrived < MaxTx
    /\ update.outcome = "ok"
    /\ agg' = update.st
    /\ built' = Append(built, TransitionOf(update, tx, fraudTransfer))
    /\ UNCHANGED <<aggStatus, fraudTransfer, chain, valVars, rejected, restarts>>

(* History: why a validator cannot agree with an accepted transaction: the *)
(* root is the zero root, or the sender is an account that the same        *)
(* transfer creates (a transfer of 0 to oneself), which has no leaf yet.   *)
Flaws(tx) ==
    (IF fraudTransfer /\ tx.type = "transfer" THEN {"fraud"} ELSE {})
    \cup (IF tx.type = "transfer" /\ ~HasAccount(agg, tx.sender) THEN {"ghost"} ELSE {})

(* The pending block is not full yet.                                      *)
Collect(tx) ==
    LET update == ApplyTransaction(agg, tx)
        block  == AddToPendingBlock(update, tx)
    IN  /\ Accept(tx, update)
        /\ ~Full(block)
        /\ pending' = block
        /\ faults' = faults \cup Flaws(tx)
        /\ UNCHANGED proposals

(* Variant: the number of a block that was not proposed is used again.     *)
ProposeOrKeepNumber(tx, isProposer) ==
    LET update == ApplyTransaction(agg, tx)
        block  == AddToPendingBlock(update, tx)
    IN  /\ Accept(tx, update)
        /\ Full(block)
        /\ isProposer \/ "dropped" \in Failures
        /\ pending' = NewBlock(pending.number + (IF isProposer THEN 1 ELSE 0))
        /\ proposals' = IF isProposer THEN Append(proposals, SerializeBlock(block)) ELSE proposals
        /\ faults' = faults \cup Flaws(tx) \cup (IF isProposer THEN {} ELSE {"dropped"})

(* It is full and proposeBlock returns without an error: either the        *)
(* proposal was mined, or the node is not the proposer.                    *)
Propose(tx, isProposer) ==
    LET update == ApplyTransaction(agg, tx)
        block  == AddToPendingBlock(update, tx)
    IN  /\ Accept(tx, update)
        /\ Full(block)
        /\ isProposer \/ "dropped" \in Failures
        /\ pending' = NewBlock(pending.number + 1)
        /\ proposals' = IF isProposer THEN Append(proposals, SerializeBlock(block)) ELSE proposals
        /\ faults' = faults \cup Flaws(tx) \cup (IF isProposer THEN {} ELSE {"dropped"})

(* Variant: the pending block is replaced although proposing failed.       *)
ProposeFailsForgetting(tx, sent) ==
    LET update == ApplyTransaction(agg, tx)
        block  == AddToPendingBlock(update, tx)
    IN  /\ Accept(tx, update)
        /\ Full(block)
        /\ (IF sent THEN "repeated" ELSE "retry") \in Failures
        /\ pending' = NewBlock(pending.number + 1)
        /\ proposals' = IF sent THEN Append(proposals, SerializeBlock(block)) ELSE proposals
        /\ faults' = faults \cup Flaws(tx) \cup (IF sent THEN {"repeated"} ELSE {})

(* proposeBlock returns an error: the block stays pending, grows, and is   *)
(* proposed again with the next transaction.  When the error came from     *)
(* waiting for the receipt, the proposal may be on the side chain already. *)
ProposeFails(tx, sent) ==
    LET update == ApplyTransaction(agg, tx)
        block  == AddToPendingBlock(update, tx)
    IN  /\ Accept(tx, update)
        /\ Full(block)
        /\ (IF sent THEN "repeated" ELSE "retry") \in Failures
        /\ pending' = block
        /\ proposals' = IF sent THEN Append(proposals, SerializeBlock(block)) ELSE proposals
        /\ faults' = faults \cup Flaws(tx) \cup (IF sent THEN {"repeated"} ELSE {})

(* A new process: NewAggregator starts from block 0, the empty tree and    *)
(* the tables of the last run; the flag may have been changed.             *)
RestartAggregator ==
    /\ "restart" \in Failures
    /\ restarts < MaxRestarts
    /\ agg' = Reopened(agg)
    /\ aggStatus' = "running"
    /\ pending' = NewBlock(0)
    /\ fraudTransfer' \in FraudFlags
    /\ faults' = faults \cup {"restart"}
    /\ restarts' = restarts + 1
    /\ UNCHANGED <<proposals, chain, valVars, built, rejected>>

-----------------------------------------------------------------------------
(* Committee and main chain *)

(* Consensus on the oldest proposal was reached and commitBlock succeeds.  *)
CommitBlock ==
    /\ proposals # <<>>
    /\ chain' = Append(chain, Head(proposals))
    /\ proposals' = Tail(proposals)
    /\ UNCHANGED <<aggVars, valVars, faults, built, rejected, restarts>>

(* commitBlock returns an error, which watchBlockCommittee drops.          *)
CommitFails ==
    /\ proposals # <<>>
    /\ "lost" \in Failures
    /\ proposals' = Tail(proposals)
    /\ faults' = faults \cup {"lost"}
    /\ UNCHANGED <<aggVars, chain, valVars, built, rejected, restarts>>

-----------------------------------------------------------------------------
(* Validator *)

(* Its token watcher stores the index of a token.                          *)
ObserveToken(i) ==
    /\ ~TokenMapped(val, TokenOrder[i])
    /\ val' = [val EXCEPT !.tokenIndex = Put(@, TokenOrder[i], i - 1)]
    /\ UNCHANGED <<aggVars, proposals, chain, valStatus, blocks, cursor, alarms,
                   skipped, faults, built, rejected, restarts>>

Event == DeserializeBlock(chain[cursor.event])

(* Variant: the block is filed under the position of its event.            *)
ReceiveBlockByPosition ==
    /\ valStatus = "running"
    /\ cursor.event \in DOMAIN chain
    /\ cursor.next = 0
    /\ \E block \in {Event} : blocks' = Put(blocks, cursor.event, block)
    /\ cursor' = [cursor EXCEPT !.next = 1]
    /\ UNCHANGED <<aggVars, proposals, chain, val, valStatus, alarms,
                   skipped, faults, built, rejected, restarts>>

(* A RollupBlockCommitted event: the block is stored under its number.     *)
ReceiveBlock ==
    /\ valStatus = "running"
    /\ cursor.event \in DOMAIN chain
    /\ cursor.next = 0
    /\ \E block \in {Event} : blocks' = Put(blocks, block.number, block)
    /\ cursor' = [cursor EXCEPT !.next = 1]
    /\ UNCHANGED <<aggVars, proposals, chain, val, valStatus, alarms,
                   skipped, faults, built, rejected, restarts>>

(* The block validateBlock is at.                                          *)
Block == blocks[chain[cursor.event].number]

(* The cursor after transition i of the current block, or after the block. *)
Advanced(i) ==
    IF i < Len(Block.transitions)
    THEN [cursor EXCEPT !.next = i + 1]
    ELSE [event |-> cursor.event + 1, next |-> 0]

AbandonedBlock == [event |-> cursor.event + 1, next |-> 0]

(* Once round the loop of validateBlock.                                   *)
Validating == valStatus = "running" /\ cursor.next > 0

Result == ValidateTransition(val, Block.transitions[cursor.next])

(* It agrees.                                                              *)
ValidatePasses(result) ==
    /\ result.verdict = "valid"
    /\ val' = result.st
    /\ cursor' = Advanced(cursor.next)
    /\ UNCHANGED <<aggVars, proposals, chain, valStatus, blocks, alarms,
                   skipped, faults, built, rejected, restarts>>

(* Variant: validateBlock returns when a transition cannot be looked up.    *)
ValidateErrorsReturning(result) ==
    /\ result.verdict = "error"
    /\ cursor' = AbandonedBlock
    /\ skipped' = skipped \cup {<<cursor.event, cursor.next>>}
    /\ faults' = IF TokenAtIndex(val, Block.transitions[cursor.next].tokenIndex) = {}
                 THEN faults \cup {"lag"} ELSE faults
    /\ UNCHANGED <<aggVars, proposals, chain, val, valStatus, blocks, alarms,
                   built, rejected, restarts>>

(* The transition cannot be looked up: the error is logged and the loop    *)
(* goes on to the next transition with this one not applied.               *)
ValidateErrors(result) ==
    /\ result.verdict = "error"
    /\ cursor' = Advanced(cursor.next)
    /\ skipped' = skipped \cup {<<cursor.event, cursor.next>>}
    /\ faults' = IF TokenAtIndex(val, Block.transitions[cursor.next].tokenIndex) = {}
                 THEN faults \cup {"lag"} ELSE faults
    /\ UNCHANGED <<aggVars, proposals, chain, val, valStatus, blocks, alarms,
                   built, rejected, restarts>>

(* It disagrees and submits a fraud proof; the loop goes on.               *)
RaiseAlarm(result, submitted) ==
    /\ result.verdict = "fraud"
    /\ submitted \/ "submit" \in Failures
    /\ ~ProofPanics(result.inputs)
    /\ HasPreState(blocks, Block.number, cursor.next)
    /\ val' = result.st
    /\ alarms' = IF submitted
                 THEN Append(alarms, FraudProof(blocks, Block, cursor.next, result.inputs))
                 ELSE alarms
    /\ cursor' = Advanced(cursor.next)
    /\ UNCHANGED <<aggVars, proposals, chain, valStatus, blocks,
                   skipped, faults, built, rejected, restarts>>

(* It disagrees but finds no previous block: validateBlock returns, and    *)
(* the rest of the block is never looked at.                               *)
AbandonBlock(result) ==
    /\ result.verdict = "fraud"
    /\ ~ProofPanics(result.inputs)
    /\ ~HasPreState(blocks, Block.number, cursor.next)
    /\ val' = result.st
    /\ cursor' = AbandonedBlock
    /\ skipped' = skipped \cup ({cursor.event} \X (cursor.next..Len(Block.transitions)))
    /\ UNCHANGED <<aggVars, proposals, chain, valStatus, blocks, alarms,
                   faults, built, rejected, restarts>>

(* The transaction, or building the proof, crashes the process.            *)
ValidatorPanics(result) ==
    /\ Crashes(result)
    /\ val' = result.st
    /\ valStatus' = "panicked"
    /\ UNCHANGED <<aggVars, proposals, chain, blocks, cursor, alarms,
                   skipped, faults, built, rejected, restarts>>

(* A new validator process: empty tree, and only the events to come.       *)
RestartValidator ==
    /\ "missed" \in Failures
    /\ restarts < MaxRestarts
    /\ val' = Reopened(val)
    /\ valStatus' = "running"
    /\ cursor' = [event |-> Len(chain) + 1, next |-> 0]
    /\ faults' = faults \cup {"missed"}
    /\ restarts' = restarts + 1
    /\ UNCHANGED <<aggVars, proposals, chain, blocks, alarms, skipped, built, rejected>>

-----------------------------------------------------------------------------
TxNext(tx) ==
    \/ Reject(tx)
    \/ Crash(tx)
    \/ Collect(tx)
    \/ \E b \in BOOLEAN : Propose(tx, b) \/ ProposeFails(tx, b)

AggregatorNext ==
    \/ RestartAggregator
    \/ \E a \in Accounts, t \in Tokens, n \in Amounts :
           \/ TxNext(DepositTx(a, t, n))
           \/ \E c \in Nonces :
                \/ TxNext(WithdrawTx(a, t, n, c))
                \/ \E r \in Accounts : TxNext(TransferTx(a, r, t, n, c))

ValidateOne ==
    /\ Validating
    /\ \E result \in {Result} :
           \/ ValidatePasses(result)
           \/ ValidateErrors(result)
           \/ RaiseAlarm(result, TRUE)
           \/ RaiseAlarm(result, FALSE)
           \/ AbandonBlock(result)
           \/ ValidatorPanics(result)

ValidateNext == ReceiveBlock \/ ValidateOne

Next ==
    \/ AggregatorNext
    \/ CommitBlock
    \/ CommitFails
    \/ \E i \in DOMAIN TokenOrder : ObserveToken(i)
    \/ ValidateNext
    \/ RestartValidator

Spec == Init /\ [][Next]_vars

(* The validator's goroutine keeps looping; nothing else is assumed to     *)
(* happen.                                                                 *)
FairSpec == Spec /\ WF_vars(ValidateNext)

-----------------------------------------------------------------------------
(* Properties *)

(* The transitions of a sequence of blocks, one after the other.           *)
Flatten(bs) ==
    LET Of[n \in 0..Len(bs)] == IF n = 0 THEN <<>> ELSE Of[n - 1] \o bs[n].transitions
    IN  Of[Len(bs)]

Decoded(bs) == [i \in DOMAIN bs |-> DeserializeBlock(bs[i])]

IsBlock(b) ==
    /\ b.number \in Nat
    /\ \A i \in DOMAIN b.transitions :
          /\ b.transitions[i].slots \in Seq(Nat)
          /\ Cardinality(b.transitions[i].names) <= 1

(* Types.  A block is filed under its own number, the cursor is at a       *)
(* transition that exists.                                                 *)
TypeOK ==
    /\ IsBlock(pending)
    /\ \A i \in DOMAIN proposals : IsBlock(DeserializeBlock(proposals[i]))
    /\ \A i \in DOMAIN chain : IsBlock(DeserializeBlock(chain[i]))
    /\ \A n \in DOMAIN blocks : IsBlock(blocks[n]) /\ blocks[n].number = n
    /\ cursor.event \in 1..(Len(chain) + 1)
    /\ cursor.next > 0 => cursor.next <= Len(chain[cursor.event].transitions)
    /\ faults \subseteq AllFailures \cup {"orphan", "fraud", "ghost", "lag"}

(* Every block committed, proposed or pending.                             *)
AllBlocks == Append(Decoded(chain \o proposals), pending)

(* The transitions the validator is done with, and all that come after.    *)
Looked ==
    Len(Flatten(SubSeq(Decoded(chain), 1, cursor.event - 1)))
    + (IF cursor.next = 0 THEN 0 ELSE cursor.next - 1)

Remaining ==
    LET all == Flatten(AllBlocks)
    IN  SubSeq(all, Looked + 1, Len(all))

(* The transitions trs replayed on st, as validateTransition does.         *)
Replay(st, trs) ==
    LET To[n \in 0..Len(trs)] ==
            IF n = 0 THEN [ok |-> TRUE, st |-> st]
            ELSE LET result == ValidateTransition(To[n - 1].st, trs[n])
                 IN  [ok |-> To[n - 1].ok /\ result.verdict = "valid", st |-> result.st]
    IN  To[Len(trs)]

(* The validator's tables and tree once it knows every token.              *)
Informed == [val EXCEPT !.tokenIndex = Mapped]

(* As long as nothing has gone wrong, replaying on the validator what is   *)
(* committed, proposed and pending agrees with every claimed root and ends *)
(* in exactly the aggregator's tables and tree.  Nothing the validator     *)
(* needs is missing from a transition, wherever the blocks are cut.        *)
ReplayReachesAggregator ==
    faults = {} /\ aggStatus = "running" =>
        LET end == Replay(Informed, Remaining) IN end.ok /\ end.st = agg

(* No false alarm: the validator submits a proof, skips a transition or    *)
(* crashes only after a bad root was claimed, an orphan account was left   *)
(* behind, an account sent to itself that did not exist, or the            *)
(* environment failed.                                                     *)
NoFalseAlarm ==
    faults = {} => alarms = <<>> /\ skipped = {} /\ valStatus = "running"

(* Every transition built is in exactly one block, in the order it was     *)
(* built, and blocks are numbered from 0 without gaps, however often a     *)
(* proposal had to be retried.                                             *)
NothingLostOrRepeated ==
    faults \cap {"lost", "dropped", "repeated", "restart"} = {} =>
        /\ Flatten(AllBlocks) = built
        /\ \A i \in DOMAIN AllBlocks : AllBlocks[i].number = i - 1

(* Where the transitions of a block are among all that were built.         *)
Start(block) ==
    IF block.transitions = <<>> THEN Len(built)
    ELSE (CHOOSE k \in DOMAIN built : built[k] = block.transitions[1]) - 1

End(block) == Start(block) + Len(block.transitions)

(* A proposal with its number made again, longer, is the block that counts.*)
Standing(i) == \A j \in DOMAIN AllBlocks : j > i => AllBlocks[j].number # AllBlocks[i].number

(* What is missing can be told from the numbers.  Blocks hold what was     *)
(* built, in order; one with a number that was proposed before begins      *)
(* where that began and holds all it held; and where two numbers follow on *)
(* each other, so do the transitions.  Numbers are missing only where a    *)
(* commit failed or the node was not the proposer.  It holds until the     *)
(* aggregator is restarted, and as long as no block that was sent, but not *)
(* confirmed, can be the one that is missing.                              *)
GapsAreNumbered ==
    /\ "restart" \notin faults
    /\ "repeated" \notin faults \/ faults \cap {"lost", "dropped"} = {}
    => LET B == AllBlocks
       IN  /\ \A i \in DOMAIN B :
                /\ End(B[i]) <= Len(built)
                /\ SubSeq(built, Start(B[i]) + 1, End(B[i])) = B[i].transitions
                /\ B[i].number = 0 => Start(B[i]) = 0
           /\ \A i, j \in DOMAIN B : i < j =>
                \/ B[i].number < B[j].number /\ End(B[i]) <= Start(B[j])
                \/ B[i].number = B[j].number /\ Start(B[i]) = Start(B[j]) /\ End(B[i]) <= End(B[j])
           /\ \A i, j \in DOMAIN B :
                Standing(i) /\ B[j].number = B[i].number + 1 => End(B[i]) = Start(B[j])
           /\ End(pending) = Len(built)
           /\ faults \cap {"lost", "dropped"} = {} =>
                \A n \in 0..pending.number : \E i \in DOMAIN B : B[i].number = n

(* The first fraud proof is one the contract can verify: the account       *)
(* snapshots in it are proved against the very root that the pre-state     *)
(* transition of the proof claims.                                         *)
FirstAlarmAnchored ==
    /\ alarms # <<>>
    /\ skipped = {}
    /\ faults \cap {"lost", "dropped", "repeated", "restart", "missed"} = {}
    /\ "submit" \notin Failures
    => \A i \in DOMAIN alarms[1].inputs : alarms[1].inputs[i].root = alarms[1].pre.root

Answered(b, i) ==
    \/ \E k \in DOMAIN alarms : alarms[k].block = chain[b].number /\ alarms[k].index = i
    \/ <<b, i>> \in skipped
    \/ valStatus = "panicked"

(* A transition committed with a bad root is eventually answered with a    *)
(* fraud proof for it, unless the validator crashed or had to skip that    *)
(* very transition: again and again there comes a moment when every bad    *)
(* root committed so far has been answered.  One that was skipped before   *)
(* it, so that the validator's tree is another, does not hide it.          *)
FraudEventuallyProven ==
    []<>(\A b \in DOMAIN chain : \A i \in DOMAIN chain[b].transitions :
            chain[b].transitions[i][2].zero => Answered(b, i))

(* The documented meaning of the flag fraudtransfer = false: no bad state  *)
(* root is submitted.  So nobody proves one, when the environment does     *)
(* nothing wrong: users may send transfers that are rejected.              *)
HonestNeverAccused ==
    ~fraudTransfer /\ faults \subseteq {"orphan"} => alarms = <<>>

(* The second snapshot of createAndTransfer is nil on purpose; building a  *)
(* proof from it must not crash the validator.                             *)
ValidatorNeverPanics == valStatus # "panicked"
=============================================================================
