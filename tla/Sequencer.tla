----------------------------- MODULE Sequencer ------------------------------
(***************************************************************************)
(* How the events of the sidechain become the transactions of the rollup.  *)
(*                                                                         *)
(* For every TokenMapped event a goroutine watchToken subscribes to the    *)
(* Transfer, Deposit and Withdraw events of one SidechainERC20, three      *)
(* subscriptions with a channel each, takes an event from whichever        *)
(* channel select picks and puts it into txQueue, waiting while the queue  *)
(* is full.  processTransactions takes the transactions out one at a time, *)
(* applies them and drops those that fail.                                 *)
(*                                                                         *)
(* The token contracts are external: their events are what the code reads  *)
(* of them, a Deposit of any amount, and a Transfer or Withdraw of what    *)
(* the account has, with a nonce that counts from 0.                       *)
(***************************************************************************)
EXTENDS AccountState, FiniteSets

CONSTANTS
    Amounts,       \* the amounts of the events
    TokenOrder,    \* the tokens as the TokenRegistry numbered them
    QueueSize,     \* txQueueSize
    Failures,      \* subset of AllFailures the environment may produce
    MaxEvents,     \* bound on the events of the sidechain
    MaxWatchers,   \* bound on the watchers in the life of one process
    MaxClosed,     \* bound on the subscriptions that have ended
    MaxRestarts    \* bound on the restarts

AllFailures ==
    { "missed",     \* a token is used before it is watched
      "remapped",   \* a TokenMapped event repeats a token
      "closed",     \* a subscription ends with an error
      "late",       \* a token is used before its index is stored
      "self",       \* an account transfers to itself
      "nothing",    \* an amount of 0, which needs no balance
      "restart" }   \* the process is restarted

ASSUME SequencerAssumption ==
    /\ Amounts \subseteq Nat
    /\ TokenOrder \in Seq(Tokens)
    /\ QueueSize \in Nat \ {0}
    /\ Failures \subseteq AllFailures
    /\ MaxEvents \in Nat /\ MaxWatchers \in Nat
    /\ MaxClosed \in Nat /\ MaxRestarts \in Nat

VARIABLES
    side,        \* the token contracts: balances and nonces
    emitted,     \* the events they emitted, in order
    mapped,      \* tokens that had a TokenMapped event
    watchers,    \* the watchToken goroutines
    queue,       \* txQueue
    st,          \* the aggregator's tables and tree
    status,      \* "running" or "panicked"
    processed,   \* history: transactions taken from the queue, with outcome
    faults,      \* history: what went wrong so far
    restarts     \* number of restarts

vars == <<side, emitted, mapped, watchers, queue, st, status, processed, faults, restarts>>

(* The order in which watchToken subscribes.                               *)
Kinds == <<"transfer", "deposit", "withdraw">>

KindSet == { Kinds[i] : i \in DOMAIN Kinds }

IsOf(tx, t, kind) == tx.token = t /\ tx.type = kind

Kept(s, tx, t, kind) == IF IsOf(tx, t, kind) THEN Append(s, tx) ELSE s

(* What is of a token and kind, in the same order.                         *)
OfKind(txs, t, kind) ==
    LET Of[n \in 0..Len(txs)] ==
            IF n = 0 THEN <<>> ELSE Kept(Of[n - 1], txs[n], t, kind)
    IN  Of[Len(txs)]

Stream(t, kind) == OfKind(emitted, t, kind)

(* A new watchToken: next counts the events of a kind it is past, open     *)
(* holds the live subscriptions, held what it has taken and not yet queued.*)
NewWatcher(t) ==
    [token |-> t, subscribed |-> 0, next |-> [k \in KindSet |-> 0],
     open |-> KindSet, held |-> <<>>]

Looping(w) == watchers[w].subscribed = Len(Kinds)

Ended == { e \in (DOMAIN watchers) \X KindSet : e[2] \notin watchers[e[1]].open }

Zero == [a \in Accounts |-> [t \in Tokens |-> 0]]

Mapped == [t \in { TokenOrder[i] : i \in DOMAIN TokenOrder } |->
              (CHOOSE i \in DOMAIN TokenOrder : TokenOrder[i] = t) - 1]

Init ==
    /\ side = [balance |-> Zero, transferNonce |-> Zero, withdrawNonce |-> Zero]
    /\ emitted = <<>>
    /\ mapped = {}
    /\ watchers = <<>>
    /\ queue = <<>>
    /\ st = IF "late" \in Failures THEN InitState
            ELSE [InitState EXCEPT !.tokenIndex = Mapped]
    /\ status = "running"
    /\ processed = <<>>
    /\ faults = {}
    /\ restarts = 0

-----------------------------------------------------------------------------
(* Sidechain *)

Watched(t) == \E w \in DOMAIN watchers : watchers[w].token = t /\ Looping(w)

Emit(tx) ==
    /\ Len(emitted) < MaxEvents
    /\ Watched(tx.token) \/ Failures \cap {"missed", "restart"} # {}
    /\ tx.amount > 0 \/ "nothing" \in Failures
    /\ emitted' = Append(emitted, tx)
    /\ faults' = faults
         \cup (IF Watched(tx.token) THEN {} ELSE {"missed"})
         \cup (IF tx.type = "transfer" /\ tx.sender = tx.recipient THEN {"self"} ELSE {})
         \cup (IF tx.amount = 0 THEN {"nothing"} ELSE {})
    /\ UNCHANGED <<mapped, watchers, queue, st, status, processed, restarts>>

ERC20Deposit(a, t, n) ==
    /\ side' = [side EXCEPT !.balance[a][t] = @ + n]
    /\ Emit(DepositTx(a, t, n))

ERC20Withdraw(a, t, n) ==
    /\ side.balance[a][t] >= n
    /\ side' = [side EXCEPT !.balance[a][t] = @ - n, !.withdrawNonce[a][t] = @ + 1]
    /\ Emit(WithdrawTx(a, t, n, side.withdrawNonce[a][t]))

ERC20Transfer(s, r, t, n) ==
    /\ s # r \/ "self" \in Failures
    /\ side.balance[s][t] >= n
    /\ side' = [side EXCEPT !.balance[s][t] = @ - n,
                            !.balance[r][t] = @ + n,
                            !.transferNonce[s][t] = @ + 1]
    /\ Emit(TransferTx(s, r, t, n, side.transferNonce[s][t]))

-----------------------------------------------------------------------------
(* Node *)

(* watchTokenRegistry stores the index of a token.                         *)
ObserveToken(i) ==
    /\ ~TokenMapped(st, TokenOrder[i])
    /\ st' = [st EXCEPT !.tokenIndex = Put(@, TokenOrder[i], i - 1)]
    /\ UNCHANGED <<side, emitted, mapped, watchers, queue, status, processed, faults, restarts>>

(* watchTokenMapper catches TokenMapped and starts a watcher, without      *)
(* asking whether the token has one.  Nothing reads the table of sidechain *)
(* addresses that it writes.                                               *)
Watch(t) ==
    /\ status = "running"
    /\ t \notin mapped \/ "remapped" \in Failures
    /\ Len(watchers) < MaxWatchers
    /\ mapped' = mapped \cup {t}
    /\ watchers' = Append(watchers, NewWatcher(t))
    /\ faults' = IF t \in mapped THEN faults \cup {"remapped"} ELSE faults
    /\ UNCHANGED <<side, emitted, queue, st, status, processed, restarts>>

(* The next of the three subscriptions.  Only events to come are seen.  A  *)
(* watcher whose subscription is refused ends: it is one that never goes   *)
(* on.                                                                     *)
Subscribe(w) ==
    LET kind == Kinds[watchers[w].subscribed + 1]
    IN  /\ status = "running"
        /\ ~Looping(w)
        /\ watchers' = [watchers EXCEPT ![w] =
                [watchers[w] EXCEPT
                    !.subscribed = @ + 1,
                    !.next[kind] = Len(Stream(watchers[w].token, kind))]]
        /\ UNCHANGED <<side, emitted, mapped, queue, st, status, processed, faults, restarts>>

(* select takes the next event of a kind.                                  *)
Take(w, kind) ==
    LET stream == Stream(watchers[w].token, kind)
    IN  /\ status = "running"
        /\ Looping(w)
        /\ watchers[w].held = <<>>
        /\ kind \in watchers[w].open
        /\ watchers[w].next[kind] < Len(stream)
        /\ watchers' = [watchers EXCEPT ![w] =
                [watchers[w] EXCEPT
                    !.next[kind] = @ + 1,
                    !.held = <<stream[watchers[w].next[kind] + 1]>>]]
        /\ UNCHANGED <<side, emitted, mapped, queue, st, status, processed, faults, restarts>>

(* Variant: what does not fit into the queue is dropped.                   *)
EnqueueOrDrop(w) ==
    /\ status = "running"
    /\ watchers[w].held # <<>>
    /\ queue' = IF Len(queue) < QueueSize THEN queue \o watchers[w].held ELSE queue
    /\ watchers' = [watchers EXCEPT ![w].held = <<>>]
    /\ UNCHANGED <<side, emitted, mapped, st, status, processed, faults, restarts>>

(* The send to txQueue, which waits while the queue is full.               *)
Enqueue(w) ==
    /\ status = "running"
    /\ watchers[w].held # <<>>
    /\ Len(queue) < QueueSize
    /\ queue' = queue \o watchers[w].held
    /\ watchers' = [watchers EXCEPT ![w].held = <<>>]
    /\ UNCHANGED <<side, emitted, mapped, st, status, processed, faults, restarts>>

(* A subscription ends; the case of its Err channel does nothing.          *)
Close(w, kind) ==
    /\ "closed" \in Failures
    /\ Cardinality(Ended) < MaxClosed
    /\ Looping(w)
    /\ kind \in watchers[w].open
    /\ watchers' = [watchers EXCEPT ![w].open = @ \ {kind}]
    /\ faults' = faults \cup {"closed"}
    /\ UNCHANGED <<side, emitted, mapped, queue, st, status, processed, restarts>>

(* Variant: processTransactions ends at the first transaction that fails.  *)
ProcessUntilError ==
    LET update == ApplyTransaction(st, Head(queue))
    IN  /\ status = "running"
        /\ queue # <<>>
        /\ \A i \in DOMAIN processed : processed[i].outcome = "ok"
        /\ queue' = Tail(queue)
        /\ st' = update.st
        /\ status' = IF update.outcome = "panic" THEN "panicked" ELSE "running"
        /\ processed' = Append(processed, [tx |-> Head(queue), outcome |-> update.outcome])
        /\ faults' = IF TokenMapped(st, Head(queue).token) THEN faults ELSE faults \cup {"late"}
        /\ UNCHANGED <<side, emitted, mapped, watchers, restarts>>

(* processTransactions: the result of applyTransaction is not looked at.   *)
Process ==
    LET update == ApplyTransaction(st, Head(queue))
    IN  /\ status = "running"
        /\ queue # <<>>
        /\ queue' = Tail(queue)
        /\ st' = update.st
        /\ status' = IF update.outcome = "panic" THEN "panicked" ELSE "running"
        /\ processed' = Append(processed, [tx |-> Head(queue), outcome |-> update.outcome])
        /\ faults' = IF TokenMapped(st, Head(queue).token) THEN faults ELSE faults \cup {"late"}
        /\ UNCHANGED <<side, emitted, mapped, watchers, restarts>>

(* A new process: the channels and goroutines are gone, and the            *)
(* TokenMapped events of the past are not seen again.                      *)
Restart ==
    /\ "restart" \in Failures
    /\ restarts < MaxRestarts
    /\ watchers' = <<>>
    /\ queue' = <<>>
    /\ st' = Reopened(st)
    /\ status' = "running"
    /\ faults' = faults \cup {"restart"}
    /\ restarts' = restarts + 1
    /\ UNCHANGED <<side, emitted, mapped, processed>>

-----------------------------------------------------------------------------
SidechainNext ==
    \E a \in Accounts, t \in Tokens, n \in Amounts :
        \/ ERC20Deposit(a, t, n)
        \/ ERC20Withdraw(a, t, n)
        \/ \E r \in Accounts : ERC20Transfer(a, r, t, n)

Watcher(w) == Subscribe(w) \/ Enqueue(w) \/ \E kind \in KindSet : Take(w, kind)

Next ==
    \/ SidechainNext
    \/ \E i \in DOMAIN TokenOrder : ObserveToken(i)
    \/ \E t \in Tokens : Watch(t)
    \/ \E w \in DOMAIN watchers : Watcher(w)
    \/ \E w \in DOMAIN watchers, kind \in KindSet : Close(w, kind)
    \/ Process
    \/ Restart

Spec == Init /\ [][Next]_vars

(* Every goroutine goes on, the one that processes transactions once the   *)
(* block it proposes is mined or refused.  Nothing is assumed of the users *)
(* of the sidechain, nor of the events that map and register tokens.       *)
FairSpec ==
    /\ Spec
    /\ WF_vars(Process)
    /\ \A w \in 1..MaxWatchers : WF_vars(w \in DOMAIN watchers /\ Watcher(w))

-----------------------------------------------------------------------------
(* Properties *)

Transactions == [i \in DOMAIN processed |-> processed[i].tx]

(* Between the contract and the state machine no event of a watched token  *)
(* is lost, repeated or moved past another of its kind, however full the   *)
(* queue and however many watchers share it: what was processed, is queued *)
(* and is held is what the contract emitted, up to where the watcher is.   *)
(* A subscription that ends cuts its stream short and disturbs no other.   *)
StreamsConveyed ==
    faults \cap {"missed", "remapped", "restart"} = {} =>
        \A w \in DOMAIN watchers, kind \in KindSet :
            OfKind(Transactions \o queue \o watchers[w].held, watchers[w].token, kind)
              = SubSeq(Stream(watchers[w].token, kind), 1, watchers[w].next[kind])

Spender(tx) == IF tx.type = "transfer" THEN tx.sender ELSE tx.account

IsSpend(tx) == tx.type = "withdraw" \/ (tx.type = "transfer" /\ tx.sender # tx.recipient)

(* Whatever is missed, repeated, closed, restarted or out of order, a      *)
(* nonce of an account and token is accepted once for a withdrawal and     *)
(* once for a transfer to another account.                                 *)
SpendsOnce ==
    \A i, j \in DOMAIN processed :
        /\ i < j /\ processed[i].outcome = "ok" /\ processed[j].outcome = "ok"
        /\ IsSpend(processed[i].tx) /\ IsSpend(processed[j].tx)
        /\ processed[i].tx.type = processed[j].tx.type
        /\ processed[i].tx.token = processed[j].tx.token
        /\ Spender(processed[i].tx) = Spender(processed[j].tx)
        => processed[i].tx.nonce # processed[j].tx.nonce

(* The rollup accepts whatever the sidechain did: as long as transactions  *)
(* arrive in the order of their events, none is rejected.                  *)
InOrderAccepted ==
    faults = {} /\ Transactions = SubSeq(emitted, 1, Len(processed)) =>
        \A i \in DOMAIN processed : processed[i].outcome = "ok"

(* When the rollup has caught up and nothing was rejected it agrees with   *)
(* the sidechain about every balance and nonce, in whatever order it got   *)
(* the events.                                                             *)
CaughtUpAgrees ==
    /\ faults = {}
    /\ Len(processed) = Len(emitted)
    /\ \A i \in DOMAIN processed : processed[i].outcome = "ok"
    => \A a \in Accounts, t \in Tokens :
          /\ BalanceOf(st, a, t) = side.balance[a][t]
          /\ TransferNonceOf(st, a, t) = side.transferNonce[a][t]
          /\ WithdrawNonceOf(st, a, t) = side.withdrawNonce[a][t]

(* Every event of a watched token reaches the state machine: a full queue  *)
(* delays the watchers and never stops them, and a transaction that fails  *)
(* does not hold up the next.  A panic of the state machine ends it all.   *)
EventuallyProcessed ==
    []<>(faults # {} \/ status = "panicked" \/ Len(processed) = Len(emitted))
=============================================================================
