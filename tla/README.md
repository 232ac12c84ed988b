# A verification project for go-rollup

TLA+ modules for the Go node of the Celer optimistic rollup, the TLC
configurations that check them on small instances, and theorems about them with
proofs checked by TLAPS. Every definition is translated from the Go source at
the lines `PROJECT.json` names under `map`; nothing is taken from the contracts
repository, whose contracts appear only as far as the node's calls show what
they do (`external` in the map).

Running it, in this directory:

    tlc -workers 2 -config MCStateMachine.cfg MCStateMachine.tla
    for m in *Proofs.tla; do tlapm $m; done

## 1. The system

A node is one Go process (`cmd/aggregator`). It runs in one of two modes, chosen
by a flag: as an aggregator it proposes and commits blocks, as a validator it
replays committed blocks; in both it applies the transactions of the sidechain
to its own account state. It owns two BadgerDB stores, one for the aggregator's
and one for the validator's state machine, and talks to two Ethereum chains.

### Components

| component | source | state it keeps | operations |
|---|---|---|---|
| StateMachine | `statemachine/state_machine.go` | four tables of the store (last key; account -> slot; slot -> AccountInfo; token -> index), an in-memory sparse Merkle tree | `ApplyTransaction` (deposit, withdraw, transfer), `GetStateSnapshot`, `GetStateRoot` |
| Aggregator | `aggregator/aggregator.go` | the pending block | `processTransactions`, `applyTransaction`, `addToPendingBlock` |
| BlockSubmitter | `aggregator/block_submitter.go` | a lock, the table of committed blocks | `proposeBlock`, `submitSignature`, `commitBlock`, `watchRollupBlockCommitted` |
| TransactionGenerator | `aggregator/transaction_generator.go` | `txQueue` (10 places), the token tables of both stores | `watchTokenRegistry`, `watchTokenMapper`, `watchToken` |
| Validator | `validator/validator.go` | its own state machine, the table of committed blocks | `watchRollupBlockCommitted`, `validateBlock`, `validateTransition`, `generateContractFraudProof`, `submitContractFraudProof` |
| SparseMerkleTree | `smt/` | root; table hash -> node | `Get`, `Update`, `Prove`, `VerifyProof`, compaction |
| Bridge | `relayer/deposit_bridge.go` | none | `relayDeposit` |
| WithdrawManager | `relayer/withdraw_manager.go` | none; reads the table of committed blocks | `Withdraw` over gRPC |
| Accounts on the chains | `aggregator.go`, `utils/transactions.go` | one `*bind.TransactOpts` per chain, shared by every goroutine | sending, `WaitMined` |
| Types and serializer | `types/` | none | transitions, blocks, ABI encoding, the Merkle tree of a block |
| Key/value stores | `db/memorydb`, `db/badgerdb` | a map under a lock | get, set, delete, transactions, bulks, iterators |

### How they interact

* The main-chain contract DepositWithdrawManager emits a deposit; Bridge relays
  it to the ERC-20 on the sidechain. The ERC-20 emits Transfer, Deposit and
  Withdraw; `watchToken` of every node turns them into transactions and puts
  them in `txQueue`, a channel.
* `processTransactions` takes them out one by one. `ApplyTransaction` changes
  tables and tree and returns a StateUpdate; `addToPendingBlock` turns it into
  a transition carrying the new state root; a block that is full goes to
  `proposeBlock`. An error anywhere drops the transaction: nobody looks at the
  error `applyTransaction` returns.
* The BlockCommittee contract on the sidechain announces proposals (the other
  nodes sign) and consensus (the committer calls RollupChain.CommitBlock on the
  main chain).
* The node files committed blocks in its store (`watchRollupBlockCommitted` of
  BlockSubmitter). A client asks the WithdrawManager over gRPC to withdraw; it
  reads the block, builds the Merkle tree of its transitions and calls the main
  chain with a proof. Only a node in aggregator mode files blocks.
* RollupChain announces committed blocks. `validateBlock` replays every
  transition on the validator's own state machine and compares the root; where
  it differs it builds a fraud proof from its own tree and from the claimed
  root of the transition before.
* TokenRegistry numbers tokens. `watchTokenRegistry` copies the numbering into
  both stores of the node, long after or long before the first transaction
  that needs it.

### What is hard about it

* **Failed transfers change state.** `applyTransfer` creates the recipient's
  account before it validates anything.
* **Ghosts.** Since the recipient is created before the sender is looked up
  (`state_machine.go:230`), a transfer of 0 to oneself by an account that does
  not exist creates the sender it then finds. The aggregator builds a transition
  for it, for which the validator has no leaf and which it skips.
* **Aliasing.** Sender and recipient may be the same account, and both infos
  are read before either is written.
* **Partial writes.** A transfer is two `setAccountInfo` calls, each a write to
  the table and one to the tree; account creation is three writes in one store
  transaction and then the tree.
* **Restarts.** The tables survive, the tree does not ("TODO: restore from
  db"), block numbers start at 0 again, events that came meanwhile are missed.
* **Late tokens.** Slices of balances and nonces are indexed by token index and
  grow on demand; the two stores of a node, and different nodes, learn of a
  token at different times.
* **Retries.** A proposal that failed is repeated with one transition more, and
  "failed" may mean that only its receipt did not come.
* **Errors that are dropped** by `commitBlock`'s caller, `validateBlock`'s loop
  and `relayDeposit`'s caller.
* **Shared accounts.** Proposing, signing, committing, relaying and withdrawing
  are goroutines of their own and send from the same two accounts. The nonce is
  read by the call and not reserved, so two calls may use the same one.
* **Waiting.** `WaitMined` has no deadline, and is called with the lock held.
* **Ends of a process.** An error that is not looked at, or an index that comes
  from a client, ends the process, and with it every other goroutine.
* **Two engines.** memorydb and badgerdb implement the same interface by very
  different means; a bulk of badger is committed in parts.
* **Keys.** A block number is a map key made by `big.Int.Bytes`,
  which drops the sign.

### What makes each component correct

* StateMachine: slots form a bijection with accounts; the tree commits to the
  tables; every unit of a token is accounted for; nonces never come back; users
  see nothing but deposits, withdrawals and transfers.
* Aggregator, BlockSubmitter: every transition built is in exactly one block, in
  order; numbers have no gaps, or where blocks are lost the gaps tell of it.
* Validator: with a correct aggregator its replay ends in the same root and it
  is silent; a bad root is answered by a proof, anchored in the claimed root of
  the pre-state.
* Whole system: an alarm has a cause.
* SparseMerkleTree: a root determines a map from keys to values; a proof
  verifies exactly for the value at its root; compaction is lossless.
* Committee: numbers reach the main chain in order; a node leaves no number
  behind that was its own to propose; what is proposed is committed.
* Relayer: a deposit on the main chain arrives once on the sidechain; a proof
  fits the chain; who is told that he was paid was paid.
* Types: what is decoded is what was encoded.
* Stores: a transaction is applied as a whole or not at all; a tree that is
  marked as initialised has all its default nodes; both engines agree.

The concrete places are in `PROJECT.json` under `hazards`, each with its line
and the properties that watch it.

## 2. The modules

    AccountState          tables, tree, ApplyTransaction: operators
      |-- StateMachine    one process on them: actions, crashes, restarts
      |     |-- Ledger    (INSTANCE) what its users were promised
      |     |-- MCStateMachine
      |     `-- StateMachineProofs  (with OperatorProofs)
      |-- Sequencer       watchers of the sidechain, queue, consumer
      |     |-- MCSequencer
      |     `-- SequencerProofs  (with OperatorProofs)
      `-- Transitions     transitions, replay, fraud proofs: operators
            `-- Encoding  their ABI encoding, and that of blocks: operators
                  |-- OperatorProofs  facts about the operators above
                  |-- Rollup    aggregator, committee, chain, validator
                  |     |-- MCRollup
                  |     `-- RollupProofs  (with OperatorProofs)
                  `-- Relayer   bridge, table of blocks, withdrawals (with ChainAccount)
                        |-- MCRelayer
                        `-- RelayerProofs  (with OperatorProofs)

    ChainAccount          an account on a chain, calls and receipts: operators
      `-- BlockCommittee  several nodes propose, sign and commit
            `-- BlockCommitteeProofs

    SparseMerkleTree      the tree itself: nodes by hash, proofs, compaction
      |-- MCSparseMerkleTree
      `-- SparseMerkleTreeProofs

    Store                 both implementations of db.DB, and a tree being opened
      |-- AtomicStore     (INSTANCE) what db.DB promises
      |-- MCStore
      `-- StoreProofs

**AccountState** is `statemachine.StateMachine` as pure operators on a record
with one field per table (`lastKey`, `keyOf`, `infoAt`, `tokenIndex`) and one
for the tree (`trie`). A table is a function whose domain is the keys present; a
slice is a sequence, so index *i* of the code is *i + 1*. Hashing is injective,
so a tree stands for its root. `Deposited`, `Withdrawn`, `Transferred` are what
the three handlers leave behind, `...Accepted` the conjunction of their checks
in order, `RecipientReady` the account `applyTransfer` creates before it checks,
`TransferPanics` the index that passes the check on line 255 and is out of
range on line 259, `SenderDebited` the state between the two writes. Amounts
and nonces come from uint256 event fields, so they are naturals; sums of
deposits are far from 2^256 and `big.Int` does not overflow. Signatures are
carried but never checked by this code and are left out.

**StateMachine** makes actions of them: `Deposit`, `Withdraw`, `Transfer`,
`SelfTransfer` (the same handler with sender = recipient), `RejectTransfer`,
`Panic`, and the process being killed after `createAccount` (`CrashAfterCreate`)
or between the two writes of a transfer (`CrashInTransfer`). Other points at
which a kill could fall leave the same tables as one of these or as no step.
`Restart` opens the tables again with an empty tree. `RegisterToken` is the
contract, `ObserveToken` the watcher. Rejected deposits and withdrawals change
nothing and are stuttering. `supply`, `drift`, `spent`, `numTx` are history
variables; no action reads them but for the bound `MaxTx`. One process is
modelled, with one goroutine on the tables (`processTransactions`): the code has
no other writer.

**Ledger** is the abstract specification: balances and nonces per account and
token, no slots, trees, indexes or orphan accounts. It names the two deviations
of the implementation as actions, `SelfCredit` and `LoseInTransit`, so that
everything else is shown to be exact.

**Transitions** holds `addToPendingBlock` (`TransitionOf`), the way back
(`TransactionOf`, with snapshots read from the validator's tree),
`validateTransition` with its three outcomes, and `generateContractFraudProof`
(`PreState`, `PreviousBlockKey` with the lost sign, `ProofPanics`).

**Encoding** is the ABI encoding between them. `Serialize` packs the fields of a
transition by position, `DeserializeTransition` reads them back by the names in
the argument list, and the two lists are written down in different functions:
`...Packed` and `...Arguments`. Encoded data is a sequence of words. Rollup and
Relayer encode and decode at the places where the code does, so that two lists
that disagree reach the validator and the clients.

**Rollup** composes two nodes. Aggregator: `Reject`, `Crash`, `Collect` (block
not full), `Propose`, `ProposeFails` (before sending, or after), and
`RestartAggregator`. Committee and chain: `CommitBlock`, `CommitFails`.
Validator: `ObserveToken`, `ReceiveBlock`, then one action per way round
the loop of `validateBlock`: `ValidatePasses`, `ValidateErrors`, `RaiseAlarm`,
`AbandonBlock`, `ValidatorPanics`; `RestartValidator`. Its loop is broken up at
each transition, so blocks, tokens and restarts arrive in the middle of a
block. What the aggregator proposes is encoded, and what the validator replays is
decoded. `fraudTransfer`, the flag that makes an aggregator claim bad roots for
transfers, is chosen in the initial state. `CommitBlock` stands for the whole
committee, which BlockCommittee shows in detail; the two are not composed, since
a block is only its number and size there, and only its contents here.
`Failures` is a constant: a run names what its environment does wrong,
and `faults` records what really happened, so a property can say "unless". The
aggregator's watcher is complete from the start here (`Mapped`); the
validator's is not. Late tokens on the aggregator are in StateMachine.

**Sequencer** is what happens before the state machine. `Watch` starts a
watcher for a TokenMapped event (twice, if the event comes twice), `Subscribe`
is one of its three subscriptions, `Take` the select, `Enqueue` the send to the
bounded queue, `Close` the end of a subscription, which the code ignores,
`Process` one round of `processTransactions`, `Restart` a new process: queue and
watchers gone, tables kept, old TokenMapped events not seen. A subscription is a
position (`next`) in the stream of events of its kind; `held` is the event
between the select and the send. The ERC-20 contract is external: it emits what
its balances allow, with nonces that count from 0. The code relies on that and
on nothing else. Proposing blocks, which `processTransactions` does too, is in
Rollup. As there, `Failures` names what may go wrong and `faults` what did.

**SparseMerkleTree** is the package `smt`, which the other modules use as a map
that is its own root. Its state is the table of nodes under their hashes and the
current root. A hash is the term it was made of, so equal hashes are equal
contents; the hashes of empty subtrees are `DefaultNode(level)`, numbered from
the top of a tree as deep as the hash has bits, as in `defaultNodes`. Paths turn
on the bits `isLeft` reads. `UpdateAt` is `Update` and `UpdateForRoot` at any
root there ever was, `SetRoot` a restart at a given root or at the empty one.
`AddBranches` and `UpdateSubtree` are the deep subtree. Both kinds of tree, with
hashed keys and without, are in the initial states. Errors other than "Corrupt
db" come from the store and leave everything as it was.

**ChainAccount** is an account on one chain as the goroutines of a node share it:
the transactions the chain accepted, by nonce, and the receipts of those that
were mined. A call reads the nonce (`Sending`), sends (`Sent`, or `Replaced`
when another call was first and this one pays more, or an error), and waits for
the receipt of its own transaction (`HasReceipt`), which does not come when
another one replaced it.

**BlockCommittee** is BlockSubmitter on several nodes with the two contracts.
Per node: `Propose`, `PassOver` and `ProposerUnknown` (a block is full, the node
is the proposer, is not, or cannot ask), `Proposed`; `HearProposed`
(`submitSignature`) and `HearAgreed` (`commitBlock`) under the lock, `Handled`,
`CommitPanics`; `HearProposedInVain` and `HearAgreedInVain`, where the contract
cannot be asked and `watchBlockCommittee` drops the error and with it the event;
`OtherCall` for the goroutines of Relayer that use the same accounts; `Drop` and
`Restart`. Every call to a contract is `Send`, `SendReplaces` or `SendFails`,
after what the nonce it read has become, or `SendErrors`: the chain's node cannot
be reached or refuses the transaction although the nonce is right. Then it is
`WaitErrors`, `WaitReverted` or the success. `WaitErrors` is also the error of a
call whose transaction arrived all the same. The contracts are external: `Mine...`
and `RotateProposer`; a commit may revert (`MineCommitReverts`), which
`block_submitter.go:175` turns into an error that line 103 drops. What is assumed
of them is what the calls show, and the module's header says it. `lost` is
history: the blocks whose one call that matters was refused, replaced, reverted or
given up. The
comparison on line 197 takes the main-chain address for the sidechain one, so
`DistinctKeys`, the nodes with two keys, is a constant. A block is its number
and its size.

**Relayer** is the rest of what a node does between the chains: the bridge
(`TakeDeposit`, `SendMint`, `Relayed` and their failures), the table of blocks
(`FileBlock`, `FileBlockFails`) and the requests to withdraw, several at a
time (`Ask`, `ReadBlock`, `BuildProof`, `SendWithdraw`, `Paid`). Everything that
ends the process is an action: a tree higher than the hash has bits
(`rollup_block_info.go:23`: the height is the number of transitions; a height of
0, of an empty block, too), an index beyond the block (`withdraw_manager.go:111`),
a refused call whose nil transaction is logged before its error is looked at
(line 128), and two goroutines in the global map of default nodes at once
(`smt/defaultnodes.go`), which Go detects as a concurrent map access.

**Store** is `db.DB` twice. memorydb applies the operations of a Commit one by
one under a mutex (`Commit`, `ApplyOp`, `Committed`); badgerdb hands a
transaction to badger, which is atomic and durable, and a bulk to its
WriteBatch, which commits what it has when it is full (`CommitFull`). One of the
clients opens a sparse Merkle tree: its default nodes and then the marker go
into one bulk (`OpenTree`, `PutNext`, `PutFails`). `MemoryScan` and `BadgerScan`
are the keys that the iterators of either engine go through.

**AtomicStore** is the abstract specification of a store: writes and reads of
one moment, transactions that take effect at once and at most once, bulks of
which a first part may come ahead, and a crash that loses only what was not
committed. `KeepsPromise` is the refinement: the table is the map, with what the
holder of the mutex has still to apply counted as applied.

**MCStateMachine, MCRollup, MCSequencer, MCSparseMerkleTree, MCRelayer, MCStore**
give values to the constants. The properties are stated in the modules they are
about, so that the proofs and the runs speak of the same definitions; only what a
violated run checks is in the MC module. Sums, and sequences that are filtered or
joined, are recursive functions.

Operators marked "Variant" in a comment are deliberate defects. No
specification uses them; they are there to see each property fail when the code
it is about is changed.

## 3. The runs

| run | instance | what it shows |
|---|---|---|
| `state_machine` | 2 accounts, 2 tokens, amounts 1-2, nonces 0-2, 4 transactions, 1 restart | type, directory, tree, unmapped slots, replay protection, conservation, and that StateMachine implements Ledger (53 thousand states) |
| `sender_no_such_token` | violation | the check before "Sender no such token" is off by one: the process panics |
| `rollup` | `fraudtransfer` on or off, blocks of 2, 4 transactions, proposals retried, fair | replay reaches an honest aggregator's state; no false alarm; nothing lost or repeated; the first proof is anchored; every bad root is eventually answered, also behind a transition that was skipped (52 thousand states) |
| `rollup_failures` | blocks of 1, 1 account, 2 tokens, 3 transactions, at most 1 of them rejected, 1 restart, every failure | blocks are filed under their numbers; what is missing on the chain can be told from the numbers (1.1 million states) |
| `honest_accused` | violation, flag off, 1 rejected transfer | an honest aggregator is accused |
| `nil_snapshot` | violation, flag on | a bad root on createAndTransfer crashes the validator |
| `sequencer_ordered` | 2 accounts, 2 tokens, amounts 1-2, 3 events, queue of 1, fair | what arrives in order is accepted; a rollup that caught up agrees with the sidechain; everything is processed |
| `sequencer_failures` | 1 token, amounts 0-1, 2 events, 2 watchers, 1 subscription that ends, 1 restart, every failure | streams that are heard are conveyed; nothing is spent twice although events are repeated and missed |
| `tree_versions` | 3 keys, 1 value and the default, height 4 of 8, 3 updates, 2 branches | old roots, canonical roots, proofs, compaction; a subtree reads and updates like the whole tree |
| `committee` | 2 nodes, one with two keys, quorum 2, 2 transactions, every failure of a call, a commit, a receipt, a subscription, a process and the proposer, 1 of them or 1 call of another goroutine, fair | numbers reach the main chain in order; no number is left out; what is proposed is committed, but for the very block that was lost; nobody waits for ever (278 thousand states) |
| `relayer` | 2 requests at a time, up to 2 deposits, 2 blocks, 2 requests, 3 of these together, trees of height 2 at most, every failure, 2 of them, fair | deposits are minted once and the bridge says what is so; proofs fit; a hash means paid; deposits are minted, blocks filed and requests answered (227 thousand states) |
| `store` | both engines, 2 clients, 5 keys, 1 value, a WriteBatch of 2, 6 calls, 1 crash or failed write | AtomicStore is implemented; the marker means every default node; iterators agree (80 thousand states) |

### The bounds, and why they are enough

* Two accounts give every aliasing there is: an operation names at most two, and
  the third account a slot computation could confuse is the one being created.
  The theorems of section 4 are for any number.
* Two tokens, registered and observed in either order, give a slice that is too
  short, one long enough, and an index inside the slice that no token has.
* Four transactions: create, fund, spend and spend again. Nonces up to 2 allow
  the two spends, a replay and a nonce from the future. Amounts 1 and 2 allow a
  partial and an excessive spend.
* One restart suffices to be on the wrong side of one; two differ from one only
  in the tree, which is empty after either.
* Blocks of 2 with 4 transactions give a full block, a block proposed again with
  3 transitions, and a proof whose pre-state is in the block or in the previous
  one. `RollupFailures` has blocks of 1, where each transaction is a block and
  all failures of blocks can follow each other: three transactions give a block
  that is lost or passed over between two that are not, and a proposal that fails,
  is made again with two transitions, and is followed by another. One account is
  enough there, since who transfers to whom makes no difference to the blocks; the
  second token is for the transfer that panics.
* Three events of the sidechain give a deposit, a spending and another event to
  overtake or be overtaken. A queue of 1 is full as soon as two watchers have
  something; 10 places would need 11 events to show the same. Two watchers are
  two tokens, or one token watched twice.
* In the tree, keys 0 and 1 are neighbours and 6 is in the other half; hashing
  makes others neighbours. Three updates set a key, its neighbour, and set it
  again or back, at the newest root or an old one. A height below the number of
  bits of the hash separates the two ways of counting levels.
* `sequencer_failures` has two events, a deposit and a spending of it, since each
  may be heard twice, once, or not at all.
* `rollup` has no rejected transactions and `rollup_failures` has: a rejected
  transfer is `honest_accused`, after which no root is right.
* In `committee` one disturbance at a time keeps the run small and still meets
  every failure in every state; `WaitErrors` followed by a second proposal of the
  number, a change of proposer between two events, or a call of the bridge with
  the nonce of a proposal need no second one. Two nodes and a quorum of both are
  the least for which a missing signature stops the committee.
* In `relayer` a failure that needs another's transaction takes two
  disturbances, and two requests and a block three events. Blocks of 1, 2 and 3
  transitions with indexes 0 and 1 and heights up to 2 give a right request, a
  wrong type, an index beyond the block and a tree too high. A request for block
  -1 reads block 1.
* In `store` the two default nodes are above and below the marker in the order of
  keys, and the WriteBatch of 2 is full before the marker goes in. Scans are
  compared for every pair of bounds, nil included, in every reachable table.
* `SYMMETRY` is used over accounts and tokens in safety runs only; no
  CHOOSE depends on their order, because one token has one index.
* `CHECK_DEADLOCK FALSE` throughout: the behaviours end when the bounds are
  used up, and a panicked process that nobody restarts is an end the code has.

### Fairness

`rollup` assumes `WF_vars(ValidateNext)`, that the validator's
goroutine goes on. It never waits for anything but events and its own calls,
so whenever a committed event or a transition is there it will take the next
step. Nothing is assumed of the aggregator, the users, the committee, the chain
or the token watcher. The property says that again and again there is a moment
when every bad root committed so far has been answered; it excepts a crashed
validator, and the transitions that were themselves passed over: those that could
not be looked up (`ValidateErrors`), and the rest of a block that was given up for
want of a previous one (`AbandonBlock`; the first transition of all among them).
`skipped` records each of them by its place. A bad root behind one that could not
be looked up is not excepted, although the validator's tree is another by then.

`sequencer_ordered` assumes weak fairness of `Process` and of each watcher as a
whole: each is a goroutine in an endless loop, and a send to the queue waits only
for `Process`, which takes from it unconditionally. `Process` stands for a call
that waits for the receipt of a proposal without a deadline
(`block_submitter.go:136`), so the assumption includes that a proposal is mined
or refused in the end. Weak fairness of a watcher does not say which channel
select picks; that is enough because the events are finitely many. Nothing is
assumed of the users, nor of the events that register and map tokens.

`committee` assumes weak fairness of each goroutine of a node that is in a call
or has an event to take (`ProposeLoop`, `CommitteeLoop`, `OtherLoop`), and of
each chain for each account (`MineSide`, `MineMain`): what was sent is mined or
reverts. It is not assumed that transactions arrive, that anybody else calls,
nor that a failure happens or stops happening; a process that has died stays
dead. `relayer` assumes the same of the bridge, the table, the handlers and the
chains.

The code retries nothing but proposals, so a failure loses something. What is
excepted is that, and nothing next to it:

* `EventuallyCommitted` speaks of each proposed block. It is committed, or its own
  signature or commit was lost (`lost`: the call failed, the commit reverted, the
  transaction was replaced, the proposal superseded, the event taken by a node that
  does not act on it or gone with a process), or a node that is dead, has no
  subscription or waits for ever with the lock held had still to hear of it
  (`Unheard`). A failed proposal, a receipt not heard of, a panic after a commit
  and every failure of another block are no excuse. Two nodes and a quorum of both
  make every lost signature a lost block.
* `EventuallyMinted` speaks of each deposit. It is minted, or the bridge reported
  an error of it and no transaction that would mint it is under way, or the bridge
  has still to take it and never will (`BridgeDeaf`), or had taken it when the
  process ended or began to wait for ever.
* `EventuallyFiled` speaks of each block, in the same way.

`WaitMined` asks for ever, so `EveryCallReturns` and `EveryRequestAnswered`
except a call whose transaction was replaced: it really never returns.

### Findings

1. `statemachine/state_machine.go:255` compares `tokenIndexInt >
   len(senderBalances)`. An index equal to the length is let through and line
   259 indexes out of range; any sidechain transfer of a token the sender never
   held can do it. (`sender_no_such_token`)
2. `statemachine/state_machine.go:230` creates the recipient before validation.
   A rejected transfer leaves an account in the tree that no transition tells
   the validator of; every later root of an honest aggregator is then "bad".
   (`honest_accused`)
3. `validator/validator.go:311` dereferences the nil snapshot that line 179 puts
   in for a new account. (`nil_snapshot`)

Other things the code does that a reader of the properties should know. No line
of the repository says otherwise, so they are not runs of their own:

* `statemachine/state_machine.go:298` writes the recipient's copy last. With
  sender = recipient the debit and the nonce are overwritten and the amount is
  created; `SupplyAccounted` counts it as `drift`, Ledger has it as `SelfCredit`.
* `statemachine/state_machine.go:230` again: a transfer of amount 0 to oneself by
  an account that does not exist is accepted, as the recipient's new account is
  the sender's. The validator looks for the sender in its tree before it creates
  anything (`validator.go`, `validateTransition`), finds no leaf and skips the
  transition. `Flaws` in Rollup has it as "ghost" beside "fraud", and the
  properties of the validator except it. It was found by the proof of
  `NoFalseAlarm`, which failed without it. TLC shows it with `Amounts = {0, 1}`;
  the configurations keep {1} for their size, and the theorems hold for both.
* `aggregator/transaction_generator.go:203` selects among separate channels for
  deposits and transfers. A transfer that comes out before the deposit it spends
  is rejected and never tried again; `InOrderAccepted` and `CaughtUpAgrees` are
  about the other orders.
* A node that is not the proposer passes its block number over
  (`aggregator.go:238` looks at the error only), so the numbers of nodes drift
  apart; nobody compares them. `NoNumberSkipped` has it as `passed`, and
  `CommittedInOrder` excepts a change of proposer. What is passed over, and what a
  failed commit loses, leaves a number that is missing: `GapsAreNumbered`.
* A proposal that is sent while its receipt is not heard of, and that is then passed
  over or lost when it is made again, longer, leaves transitions missing that no
  number tells of: the shorter version is committed, the next block has the next
  number. `GapsAreNumbered` excepts the two failures together.
* A subscription that ends makes its loop go round without a pause and hear
  nothing more (`Drop` in three modules; in Sequencer `Close`).
* A deposit whose relay fails is lost, and `relayDeposit` reports an error also
  when only the receipt was not heard of; `OutcomeTrue` excepts that case.
* The comments of the iterators say that an end above the start reverses the
  order; the code of both engines reverses when the end is below
  (`db/memorydb/iterator.go:48`). Nothing in the program uses iterators.
* The badger iterator opens a transaction of its own that nobody discards; that is
  memory, not state of the model.

Two properties of the tree are stated around what the code does, and a reader
should know it:

* `CompactionLossless` holds because `smt/proofs.go:79` compares a sibling counted
  from the leaf with a default node counted from the top of a deeper tree, so
  that nothing is ever left out. With that comparison put right
  (`CompactProofByLevel`, the mutant of the property) the mask written by
  `setBit` is read at other places by `isLeft`, and the property fails.
* `ProofsDecide` and `SubtreeFaithful` are about trees that hash their keys.
  `smt/proofs.go:27` and `smt/deepsubtree.go:30` hash the key whatever the tree
  does; the account tree, which does not hash, refuses its own proofs. Only the
  tests use these functions, and with trees that hash.

Two more things the runs exclude by name, because what they would show follows
from the external contract alone: a token mapped twice has its deposits credited
twice (`remapped`; deposits have no nonce), and an account that moves an amount
of 0 before it ever held the token advances its nonce on the sidechain and not in
the rollup (`nothing`).

## 4. What is proved

Eight modules hold theorems: one for each component, and `OperatorProofs` for the
operators several of them are built from, those of AccountState and Encoding. A component's
theorems are about every value of its constants that its assumption admits: any
accounts, tokens, amounts, block sizes, nodes, keys, and any bounds. The
assumptions are named in the modules that declare the constants, and TLC evaluates
them in every run.

### StateMachine

`StateMachineProofs` proves, for every set of accounts and tokens, every set of
naturals as amounts and nonces, and any bounds:

| theorem | says |
|---|---|
| `Invariant` | `Spec => []IInv` |
| `TypeCorrect` | `Spec => []TypeOK` |
| `DirectoryCorrect` | `Spec => []DirectoryConsistent` |
| `TrieCorrect` | `Spec => []TrieCommitsStore` |
| `UnmappedSlots` | `Spec => []UnmappedSlotsEmpty` |
| `ReplayProtection` | `Spec => []SpentNoncesPassed` |
| `ImplementsLedger` | `Spec => RefinesLedger` |
| `Conservation` | `Spec => []SupplyAccounted` |

Assumptions: `AmountsAssumption`, `NoncesAssumption` and `BoundsAssumption` of
StateMachine, which say that the constants are numbers. TLC evaluates them in
every run of the module.

**The argument.** `OperatorProofs` goes from the inside out: what `Put`,
`Pad` and `MaybeExpandAccountInfo` do; that `SetAccountInfo`, `CreateAccount`
and `EnsureAccount` keep `Consistent` (types, directory, tree); and then, for
each handler, its effect on *holdings*: `Bal(s, a, j)`, `TNonce`, `WNonce` give
what account *a* has at position *j*, zero where the account or the position
does not exist. In holdings a deposit is one addition and everything else stays
(`DepositedHoldings`), padding and account creation are invisible
(`ExpandHoldings`, `EnsureHoldings`), and a transfer is a debit, a nonce and a
credit (`TransferredHoldings`, `SelfTransferredHoldings`).

**The invariant.** None of the properties is inductive alone. `IInv` adds: the
token table repeats the registry's numbering, hence is injective, without
which a deposit of one token could change another; a position without a token
is empty, without which a token observed late would start with a balance and
with nonces from nowhere; spent nonces name mapped tokens, so that
observing a token cannot move them; and the tree is complete until the first
restart. `Grows` is the common reason most steps keep it: nonces do not go back
and unmapped positions stay empty.

**The refinement.** The views (`BalanceView` ...) are the holdings at the index
of each token (`ViewsAreHoldings`). Each handler's holdings lemma thus gives one
step of Ledger, and rejection, creation, registration, observation, panics and
restarts give a stutter (`InvisibleActions`).

**Conservation.** `SupplyAccounted` sums what the slots hold, by a recursive
function over the slots. `Conservation` follows an operation by what it does to the
slots (`SameSlots`: none is added or moved, or one is added that is empty) and by
what it does to one balance; the sum changes by as much, by induction over the
slots (`InductionTo`). The directory being a bijection is what makes a balance
come exactly once in the sum.

### BlockCommittee

`BlockCommitteeProofs` proves, for any set of nodes, any of them with one key or
two, any quorum, any bounds, and whichever failures the environment may have:

| theorem | says |
|---|---|
| `CommitteeInvariant` | `Spec => []IInv` |
| `CommitteeTypes` | `Spec => []TypeOK` |
| `NumbersAccounted` | `Spec => []NoNumberSkipped` |
| `CommitsInOrder` | `Spec => []CommittedInOrder` |

Assumption: `CommitteeAssumption` of BlockCommittee, which gives the constants
their types. TLC evaluates it in `committee`.

**NoNumberSkipped.** A node leaves a number behind in `Proposed`, when a receipt says
that its proposal was mined with success. That an event with this number exists
must therefore follow from the receipt, however many other goroutines sent from
the same account in the meantime, replaced a transaction, or hold one with the
same nonce. None of this is in `NoNumberSkipped`, so `IInv` adds it:

* `AccountsOK`: in every account of every node a receipt belongs to a transaction
  that was sent, and every proposal mined with success is in an event (`Sound`).
  Sending adds behind what is mined, replacing changes only what is not mined,
  and mining adds a receipt together with the event (`SentSound`,
  `ReplacedSound`, `MinedSound`);
* `CallsOK`: the nonce of a call is not beyond its account, so that the
  place it looks for its receipt is its own;
* `Proposes`: what the proposing goroutine waits for is a proposal of the pending
  block, with the number it has now, since no other goroutine of the node changes
  number or size while it waits;
* `NodesOK`, `ContractsOK`, `HeardOK`, `LostOK`: the types, and that no event was
  taken before it happened.

There is one lemma for each action. Those that end or begin a call, or let it go
on, rest on `ReturnKeeps`, `StartKeeps` and `SentKeeps`; those that mine, on
`MineKeeps`; both ways to the next number, on `NextNumber`.

**CommittedInOrder.** The order on the main chain comes from the order of the
proposals, and both from one fact: a goroutine that waits for its receipt has no
second transaction of its own under way. `OrderInv`, on top of `IInv`, has four parts:

* `OwnInv`, whatever fails: each goroutine sends only its own methods, and while
  its process lives; only the committer commits.
* `Serial`, of the goroutine that proposes and of the one that commits: at most one
  of its transactions is sent and not mined, the goroutine waits for exactly that
  one, and its block is a good one. Other goroutines of the node may come before
  it in the account, collide with it or replace it: that leaves the same open
  transaction or none (`OtherPlaced`, `OwnPlaced`). A goroutine that got a receipt
  or an error from sending leaves none (`NothingOpen`).
* `ProposerInOrder`: the good block of a proposal has the proposer's pending number,
  and every number proposed is below it until the receipt of the last is there to be
  heard. `AgreedInOrder`: what is agreed was proposed, in ascending order, also when a
  proposal supersedes one that was not agreed.
* `CommitterInOrder`: the good block of a commit is the event heard last, and every
  number committed is that of an event heard before. A process that ends
  after a commit leaves its commit open and sends nothing after it.

The last two and the two `Serial` hold while `Quiet` does: no receipt went unheard, the
proposer did not change, no node was restarted. Each of the three breaks `Serial` or
the number (a proposal is sent again while the first is still to be mined; another
node's number is another count; a new process starts at block 0), which is why the
property excepts them, and no others.

### Encoding

`RoundTrip`: for each of the five types, `DeserializeTransition` undoes `Serialize`.
The first word tells the type (`TypeRead`); the names packed and the names read are
the same list with no name twice, so each field is read where it was written
(`WordRead`). `BlockRoundTrip` carries it to blocks. Rollup and Relayer rest on it:
what a validator or a client decodes is what the aggregator built. A transition
is `Encodable` when it has one of the five types and its fields, which the proofs
show of every transition the aggregator builds.

### Sequencer

`SequencerProofs` proves, for any accounts, tokens and amounts, any order of the
tokens, any capacity of the queue and whichever failures may happen:

| theorem | says |
|---|---|
| `Invariant` | `Spec => []IInv` |
| `StreamsKept` | `Spec => []StreamsConveyed` |
| `NoDoubleSpend` | `Spec => []SpendsOnce` |
| `InOrder` | `Spec => []InOrderAccepted` |
| `Agreement` | `Spec => []CaughtUpAgrees` |

Assumption: `SequencerAssumption`, which gives the constants their types.

**SpendsOnce.** Nothing about events helps here: they may be repeated, missed or
come again after a restart. `IInv` says that the tables are consistent and past
every nonce among `Spends`, the set of all spendings accepted (`TablesInv`, the
invariant of the tables that StateMachine has too); a spending is accepted only at
the stored nonce, so it is not among them, and the step moves the stored nonce past
it. This is the nonce lemma of AccountState for a second process.

**StreamsConveyed.** What has been processed, queued and held of a kind is, for
each token, the beginning of its stream that its watcher has passed. The property
is inductive together with four facts (`StreamInv`): everything in the node is of a
mapped token, no watcher is past the end of its stream, a token has one watcher,
and what was emitted was watched. `OfKind` is a recursive filter;
`OfKindUnfolds` gives it as a function that exists by `RecursionExists` and is
unique by induction, and from there what it returns for an empty, a longer, or a
joined sequence.

**InOrderAccepted and CaughtUpAgrees** say of two processes that never meet, the
contracts and the tables, that they compute the same. Neither is inductive; both
follow from sums (`SumsInv`). `Total` is what a sequence of transactions adds to a
balance or a nonce, taken kind by kind, so that the order between kinds does not
matter to it:

* `SideAdded` and `TablesAdded`: what the contracts have is the total of what they
  emitted, and what the tables show, if nothing was rejected, that of what was
  processed. `SideAdded` excepts an account's transfer to itself, which the
  contract and the state machine count differently.
* `EmittedCovered`: the total of the events before it covers every event, with the
  nonce it carries. If what was processed is a beginning of what was emitted, the
  next event finds that total in the tables, and `CoveredAccepted` says that
  `ApplyTransaction` then accepts.
* `Counted`: every event is processed, queued, held by a watcher or still in a
  stream; their numbers add up. When as many are processed as were emitted there is
  nothing anywhere else, so each stream has been conveyed to its end
  (`StreamsConveyed`), and equal streams have equal totals. It is also what keeps
  the beginning that was processed inside what was emitted.
* `MappedWatched`: until a restart, a mapped token has a watcher.

### Rollup

`RollupProofs` proves, for any accounts, tokens, amounts and nonces, any block size,
with the flag on or off:

| theorem | says |
|---|---|
| `Typed` | `Spec => []TypeOK` |
| `Cut` | `Spec => []NothingLostOrRepeated` |
| `AlarmAnchored` | `Spec => []FirstAlarmAnchored` |
| `Unprovoked` | `Spec => []NoFalseAlarm` |
| `Reaches` | `Spec => []ReplayReachesAggregator` |

Assumption: `RollupAssumption`. Besides types it says that the registry gives no
two tokens one index, as the contract does; with one index for two tokens, a
validator could not tell which of them a transition moves.

**The invariants**, each resting on those before it:

* `TypeInv`: proposals and committed blocks are encodings of blocks that are not
  empty, blocks are filed under their numbers, the validator's cursor is at a
  transition that exists in a block it has filed, and the aggregator's tables are
  `Consistent`.
* `NothingLostOrRepeated` is inductive as it stands, once it is known what
  `Flatten` does to a block that is appended (`Joining`). A proposal that
  failed stays pending with its number and grows; only a failure after sending
  would have it twice, and that one is a fault the property names.
* `AnchorInv`: while the validator has skipped nothing and missed nothing, the
  blocks it has filed are the chain's in order, and as long as it has not raised an
  alarm its root is what the previous transition claims, in this block or at the
  end of the one before (`AtPreviousRoot`). The inputs of a proof are snapshots of
  that tree; the pre-state of the proof is that previous transition.
* `ReplayInv`: while `faults` is empty, there is a path `S` of states, one for each
  transition built (`Follows`). The aggregator is at its end, the validator, once it
  is told every token, at `S[Looked]`. Each transition of the path `Replays` from
  its state to the next *for whoever knows the transition's token*, and whoever does not
  gets an error and stays where it is. This takes the place of any statement
  about when the validator learns of a token, and makes cutting blocks, proposing
  again and committing invisible: they change neither `built` nor `S`.

**The step of the path.** `PathGrows` is the heart of it: the transition the
aggregator builds for an accepted transaction is valid on the state it was applied to
and leads to the aggregator's new state, slots, balances, nonces and tree alike. It
rests on three facts: the transaction read back from the transition is the one
applied (`TransactionRead`, kind by kind); a state with fewer tokens known gives
the same result when the one at hand is known (`AppliedAlike`); and each account
named by its slot has its leaf in the tree (`LeafOfAccount`). `Replayed` puts them
together. The last one fails for a ghost, which is how it was found.

From `ReplayInv`, `Unprovoked` is its first line. `Reaches` replays what remains
of the path by induction over its length (`ReplayAlong`).

### Relayer

`RelayerProofs` proves, for any number of deposits, blocks and requests, any
collisions of handlers, and whatever fails:

| theorem | says |
|---|---|
| `Invariant` | `Spec => []IInv` |
| `NoDoubleMint` | `Spec => []MintedOnce` |
| `OutcomesTold` | `Spec => []OutcomeTrue` |
| `ProofsAccepted` | `Spec => []ProofsFit` |
| `HashMeansPaid` | `Spec => []AnsweredIsPaid` |

Assumption: `RelayerAssumption`: types, and that a block of `BlockContents` is a
sequence of transitions that can be encoded, which is what the aggregator builds
(Rollup has it as part of `TypeInv`).

**The invariant** is about the two accounts, which every goroutine of the node
sends from. On the sidechain (`SideInv`) a deposit stands at no more than one nonce
(`Distinct`) and nowhere before it is sent, what was minted is exactly what was
mined with success, and an outcome that was told stays true: `nil` because receipts
do not change, an error because the transaction failed or was never sent. A replaced
transaction is gone from its place, so a later deposit cannot stand twice. On the
main chain (`MainInv`) every withdrawal anywhere in the account is a withdraw
transition of a committed block with the proof of its place (`PoolFits`,
`FitsIn`); what each handler holds was made for its own request out of the table,
and the table out of the chain (`HandlerOK`, `TableOK`); and a receipt with success
at a call's own transaction means paid (`PaidOK`, `AnswersOK`). The two halves share
no variable, and each action has one lemma for each half it touches.

### Store

`StoreProofs` proves, for any goroutines, keys, values, default nodes and size of a
WriteBatch, and for both engines:

| theorem | says |
|---|---|
| `Typed` | `Spec => []TypeInv` |
| `KeepsItsPromise` | `Spec => KeepsPromise` |
| `MarkerComesLast` | `Spec => []MarkerMeansDefaults` |
| `ScansTheSame` | `Spec => []ScansAgree` |

Assumption: `StoreAssumption`: types; the value that means absent is no value; the
marker's key is no default node's; and the sign that nobody holds the lock is no
goroutine.

**The refinement.** `Table` is what the map will be when the holder of memorydb's
mutex is done, and a client's batch (`Collected`) is empty from the moment it has the
mutex. So `Commit` is the step of AtomicStore that applies a whole batch, and
`ApplyOp` and `Committed` are invisible: `AfterAll` of an operation and the rest
is `AfterAll` of both. Badger's `CommitFull` is a part of a bulk coming ahead. A kill,
which matters with badger only, since memorydb's map ends with the process, loses
the batches and nothing that was committed.

**The marker.** `MarkerInv` says of every list of writes in which the marker may be
(the bulk, what is left of it, what is still to be put into it) that each default
node is in the table already or before the marker in the list (`Ready`), and that
nobody else writes these keys. Whatever part of a bulk is committed, because the
WriteBatch was full or because a memorydb commit is under way, the marker comes last.

**The scans.** memorydb picks the keys in the range and sorts them; badger walks all
keys in order, from the first that `Seek` accepts until one that `Valid` refuses. Both
are enumerations of a set of keys (`Enumerates`: each once, in order). A finite set
has one in either direction (`AscendingExists`, from its least key and a smaller set;
`DescendingExists` turns it round), and no other, because a key stands at the place
that its number of predecessors says (`RankOf`); so it is what `Sorted` gives
(`SortedIs`). What `Seek` accepts and what `Valid` refuses both go on to the end of the
order (`ScanBounds`), so cutting an enumeration there leaves an enumeration of the
keys between (`FromEnumerates`, `UntilEnumerates`), and these are the keys
`isKeyInRange` picks. `Keys` may be infinite; that finitely many have a value is an
invariant of its own (`FinInv`): a step adds at most the keys of the operations it
applies. `Sorted` says for each place which key comes there, instead of using
`SetToSortSeq`: the prover has no definition of the `SortSeq` underneath.

### SparseMerkleTree

`SparseMerkleTreeProofs` proves, for any height from 2 to the bits of the hash, any
size of the hash, any keys and values, hashed keys or not, and any number of updates
and branches:

| theorem | says |
|---|---|
| `Invariant` | `Spec => []IInv` |
| `OwnHash` | `Spec => []TypeOK` |
| `Readable` | `Spec => []OldRootsReadable` |
| `Canonical` | `Spec => []RootsCanonical` |
| `ProofDecides` | `Spec => []ProofsDecide` |
| `Lossless` | `Spec => []CompactionLossless` |
| `Faithful` | `Spec => []SubtreeFaithful` |

Assumptions: `TreeAssumption`, types and that the tree is no higher than a hash has
bits, which `NewSparseMerkleTree` needs for its default nodes; and
`PathsAssumption`: the paths of two keys, as they are and hashed, differ at some turn.
Two keys that agree in the bits a tree looks at are one key to it. That hashing is
injective is not an assumption but how the model writes hashes.

**The invariant** relates the table of nodes to Merkle trees as they are defined
(`MerkleTree`, where a node is named by the turns that lead to it): of every
version, each node of the tree of its map is in the table under its own hash; of
every branch, each node on the path of its key is in the subtree's. None of the
six properties but the first is inductive, and all of them follow.

* `DigestInjective`: data of one digest is one. The default nodes have names of their
  own, so this is where their levels matter: a pair of default nodes is never the
  default of another level. From it `StoredKeeps`: a flush adds and takes nothing
  away, which is why old versions stay.
* `DescentFollows`, by induction from the root down: a descent at a stored root meets
  the nodes of its path. `Readable` follows, and what `sideNodesForRoot` collects.
* `OffPath` and `UpdateOnPath`, by induction from the leaves up: the trees of two maps
  that differ at one key differ along its path at most, and the data an update writes
  are the nodes there. So the new root is the root of the new map.
* `Rebuilt`: whatever the siblings, data that hash to a root of a tree are the nodes of
  a path in it, down to the leaf. This is `ProofDecides`, for proofs that nobody made
  with `ProveForRoot` too, and it shows that branches of one root are of one map
  (`SameRoot`), which an update of the subtree needs for the branches it renews.
* `OwnLevel` and `NeverDropped`: a node that is a default node is that of its own
  level, so the sibling at place i from the leaf is default node `HashBits - 1 - i` if
  any; `CompactProof` compares it with default node i, and the two numbers are never
  equal, `HashBits` being even. So nothing is dropped, no bit is set, and the numbering
  of the bits, which two functions do differently, does not matter.

### Only model-checked

Every invariant and both refinements that the passing runs check are proved. What TLC
alone checks is liveness, here and everywhere, which is beyond the
prover: `FraudEventuallyProven`, `EventuallyProcessed`, `EventuallyCommitted`,
`EveryCallReturns`, `EventuallyMinted`, `EventuallyFiled` and `EveryRequestAnswered`.

The library's induction theorems take an operator as a parameter, which the provers
here cannot instantiate. Where these proofs need induction they apply it to a set:
the numbers up to which a fact holds contain 0 and the successor of each, so a least
number outside does not exist (`InductionTo`, from the well-foundedness of the
naturals). What a recursive function returns is then proved from its equations.

## 5. What is not modelled

* How badger works inside, its memory, and the garbage collection of its value
  log: third party; the model has what `db/badgerdb` asks of it, an atomic and
  durable transaction and a WriteBatch in parts.
* The cursor of an iterator and the values it returns. Nothing in the program uses
  iterators; only the keys they visit are compared.
* `WaitMined` with confirmations, which has no caller, and `watchNewHead` and
  `watchTransition`, which throw away what they receive.
* Signatures: no code in the repository checks one, except the contracts.
* What happens inside the contracts beyond what the node's calls and events show.
* Configuration and flags, logging, deployment and revert-reason tools, the demo,
  manual tests and generated gRPC code: no protocol state of their own.

BlockCommittee and Rollup are not composed: the product is too large for a run,
and they share only what is named above, a block's number and size on one side
and its contents on the other.

What would come next is a composition of BlockCommittee and Rollup by their proofs:
that the blocks the one commits in order are the ones the other replays.
