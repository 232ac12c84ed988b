------------------------ MODULE BlockCommitteeProofs ------------------------
(***************************************************************************)
(* Proofs about BlockCommittee: its types, that no block number is         *)
(* skipped, and that blocks are committed in order, for any nodes, any     *)
(* quorum and any bounds.                                                  *)
(***************************************************************************)
EXTENDS BlockCommittee, TLAPS

Chains == {"side", "main"}
Methods == {"propose", "sign", "commit", "bridge", "withdraw"}
Txs == [method : Methods, block : Blocks]
Accounts == [pool : Seq(Txs), receipts : Seq(BOOLEAN)]
Calls == [at : {"idle", "sending", "waiting"}, tx : Txs \cup {NoTx}, nonce : Nat]

IsIn(block, events) == \E j \in DOMAIN events : events[j] = block

(* A receipt belongs to a transaction that was sent, and a proposal mined  *)
(* with success is in an event.                                            *)
Sound(acc, events) ==
    /\ Len(acc.receipts) <= Len(acc.pool)
    /\ \A i \in DOMAIN acc.receipts :
          acc.receipts[i] /\ acc.pool[i].method = "propose" => IsIn(acc.pool[i].block, events)

-----------------------------------------------------------------------------
(* Accounts: sending and replacing leave what is mined alone.              *)

(* A transaction sent with a nonce nobody used changes nothing that is     *)
(* mined.                                                                  *)
LEMMA SentSound ==
    ASSUME NEW acc \in Accounts, NEW tx \in Txs, NEW events, Sound(acc, events)
    PROVE  /\ Sent(acc, tx) \in Accounts
           /\ Sound(Sent(acc, tx), events)
           /\ Len(Sent(acc, tx).pool) = Len(acc.pool) + 1
<1>1. /\ acc.pool \in Seq(Txs) /\ acc.receipts \in Seq(BOOLEAN)
      /\ Sent(acc, tx) \in Accounts
      /\ Sent(acc, tx).pool = Append(acc.pool, tx) /\ Sent(acc, tx).receipts = acc.receipts
  BY SMTT(30) DEF Accounts, Sent
<1>2. /\ Append(acc.pool, tx) \in Seq(Txs)
      /\ Len(Append(acc.pool, tx)) = Len(acc.pool) + 1
      /\ \A i \in 1..Len(acc.pool) : Append(acc.pool, tx)[i] = acc.pool[i]
  BY <1>1
<1>3. \A i \in DOMAIN acc.receipts : i \in 1..Len(acc.pool)
  BY <1>1 DEF Sound
<1>. QED  BY <1>1, <1>2, <1>3 DEF Accounts, Sound

(* ... nor does one that takes the nonce of another.                       *)
LEMMA ReplacedSound ==
    ASSUME NEW acc \in Accounts, NEW tx \in Txs, NEW events, NEW nonce \in Nat,
           Sound(acc, events), Replaceable(acc, nonce)
    PROVE  /\ Replaced(acc, nonce, tx) \in Accounts
           /\ Sound(Replaced(acc, nonce, tx), events)
           /\ Len(Replaced(acc, nonce, tx).pool) = Len(acc.pool)
<1>. DEFINE pool == [acc.pool EXCEPT ![nonce + 1] = tx]
<1>1. /\ acc.pool \in Seq(Txs) /\ acc.receipts \in Seq(BOOLEAN)
      /\ Replaced(acc, nonce, tx) \in Accounts
      /\ Replaced(acc, nonce, tx).pool = pool
      /\ Replaced(acc, nonce, tx).receipts = acc.receipts
      /\ nonce + 1 \in 1..Len(acc.pool) /\ Len(acc.receipts) < nonce + 1
  BY SMTT(30) DEF Accounts, Replaced, Replaceable
<1>2. /\ pool \in Seq(Txs) /\ Len(pool) = Len(acc.pool)
      /\ \A i \in 1..Len(acc.pool) : i # nonce + 1 => pool[i] = acc.pool[i]
  BY <1>1
<1>3. \A i \in DOMAIN acc.receipts : i \in 1..Len(acc.pool) /\ i # nonce + 1
  BY <1>1 DEF Sound
<1>. QED  BY <1>1, <1>2, <1>3 DEF Accounts, Sound

(* Mining needs an event only for a proposal that succeeds.                *)
LEMMA MinedSound ==
    ASSUME NEW acc \in Accounts, NEW ok \in BOOLEAN, NEW events, Sound(acc, events), Unmined(acc),
           ok /\ NextTx(acc).method = "propose" => IsIn(NextTx(acc).block, events)
    PROVE  /\ Mined(acc, ok) \in Accounts
           /\ Sound(Mined(acc, ok), events)
           /\ Mined(acc, ok).pool = acc.pool
<1>. DEFINE receipts == Append(acc.receipts, ok)
<1>1. /\ acc.pool \in Seq(Txs) /\ acc.receipts \in Seq(BOOLEAN)
      /\ Mined(acc, ok) \in Accounts
      /\ Mined(acc, ok).pool = acc.pool /\ Mined(acc, ok).receipts = receipts
      /\ Len(acc.receipts) < Len(acc.pool)
      /\ NextTx(acc) = acc.pool[Len(acc.receipts) + 1]
  BY DEF Accounts, Mined, Unmined, NextTx
<1>2. /\ receipts \in Seq(BOOLEAN) /\ Len(receipts) = Len(acc.receipts) + 1
      /\ \A i \in 1..Len(acc.receipts) : receipts[i] = acc.receipts[i]
      /\ receipts[Len(acc.receipts) + 1] = ok
      /\ DOMAIN receipts = 1..(Len(acc.receipts) + 1)
  BY <1>1
<1>3. ASSUME NEW i \in DOMAIN receipts, receipts[i], acc.pool[i].method = "propose"
      PROVE  IsIn(acc.pool[i].block, events)
  <2>1. CASE i \in 1..Len(acc.receipts)
    BY <1>1, <1>2, <1>3, <2>1 DEF Sound
  <2>2. CASE i = Len(acc.receipts) + 1
    BY <1>1, <1>2, <1>3, <2>2
  <2>. QED  BY <1>1, <1>2, <2>1, <2>2
<1>. QED  BY <1>1, <1>2, <1>3 DEF Accounts, Sound

(* An event more, and the earlier ones are still there.                    *)
LEMMA AppendIsIn ==
    ASSUME NEW events \in Seq(Blocks), NEW b \in Blocks
    PROVE  /\ IsIn(b, Append(events, b))
           /\ \A x : IsIn(x, events) => IsIn(x, Append(events, b))
<1>1. /\ Append(events, b) \in Seq(Blocks)
      /\ Len(Append(events, b)) = Len(events) + 1
      /\ \A i \in 1..Len(events) : Append(events, b)[i] = events[i]
      /\ Append(events, b)[Len(events) + 1] = b
  OBVIOUS
<1>. QED  BY <1>1 DEF IsIn

(* What was accounted for stays so when events are added.                  *)
LEMMA MoreEvents ==
    ASSUME NEW acc \in Accounts, NEW events \in Seq(Blocks), NEW b \in Blocks, Sound(acc, events)
    PROVE  Sound(acc, Append(events, b))
BY AppendIsIn DEF Sound

-----------------------------------------------------------------------------
(* The accounts of all nodes, and the calls made with them.                *)

AccountsOK(accts, events) ==
    /\ accts \in [Nodes -> [Chains -> Accounts]]
    /\ \A n \in Nodes, c \in Chains : Sound(accts[n][c], events)

(* Whoever is in a call has a nonce that its account has reached.          *)
CallOK(call, accts) ==
    /\ call \in Calls
    /\ call.at # "idle" =>
          call.tx \in Txs /\ call.nonce <= Len(accts[ChainOf(call.tx)].pool)

CallsOK(calls, accts) ==
    /\ calls \in [Nodes -> [Threads -> Calls]]
    /\ \A n \in Nodes, t \in Threads : CallOK(calls[n][t], accts[n])

(* Every transaction belongs to one of the two chains.                     *)
LEMMA ChainOfTx == ASSUME NEW tx PROVE ChainOf(tx) \in Chains
BY DEF ChainOf, Chains

(* One account is changed to another that is accounted for.                *)
LEMMA AccountChange ==
    ASSUME NEW accts, NEW events, AccountsOK(accts, events),
           NEW n \in Nodes, NEW c \in Chains,
           NEW acc \in Accounts, Sound(acc, events)
    PROVE  /\ AccountsOK([accts EXCEPT ![n][c] = acc], events)
           /\ [accts EXCEPT ![n][c] = acc][n][c] = acc
<1>. DEFINE new == [accts EXCEPT ![n][c] = acc]
<1>1. new \in [Nodes -> [Chains -> Accounts]]
  BY DEF AccountsOK
<1>2. ASSUME NEW m \in Nodes, NEW d \in Chains
      PROVE  new[m][d] = IF m = n /\ d = c THEN acc ELSE accts[m][d]
  BY DEF AccountsOK
<1>. QED  BY <1>1, <1>2 DEF AccountsOK

(* Calls in progress do not mind an account that grows.                    *)
LEMMA CallsKept ==
    ASSUME NEW accts, NEW events, AccountsOK(accts, events),
           NEW calls, CallsOK(calls, accts),
           NEW n \in Nodes, NEW c \in Chains, NEW acc \in Accounts,
           Len(accts[n][c].pool) <= Len(acc.pool)
    PROVE  CallsOK(calls, [accts EXCEPT ![n][c] = acc])
<1>. DEFINE new == [accts EXCEPT ![n][c] = acc]
<1>1. ASSUME NEW m \in Nodes, NEW t \in Threads PROVE CallOK(calls[m][t], new[m])
  <2>. DEFINE d == ChainOf(calls[m][t].tx)
  <2>1. d \in Chains /\ CallOK(calls[m][t], accts[m]) /\ calls[m][t] \in Calls
    BY ChainOfTx DEF CallsOK
  <2>2. new[m][d] = IF m = n /\ d = c THEN acc ELSE accts[m][d]
    BY <2>1 DEF AccountsOK
  <2>3. /\ Len(accts[m][d].pool) \in Nat /\ Len(new[m][d].pool) \in Nat
        /\ Len(accts[m][d].pool) <= Len(new[m][d].pool)
    <3>1. acc.pool \in Seq(Txs) /\ accts[m][d].pool \in Seq(Txs)
      BY <2>1 DEF AccountsOK, Accounts
    <3>. QED  BY <2>2, <3>1
  <2>4. calls[m][t].nonce \in Nat
    BY <2>1 DEF Calls
  <2>. QED  BY <2>1, <2>3, <2>4 DEF CallOK
<1>. QED  BY <1>1 DEF CallsOK

(* One call is changed.                                                    *)
LEMMA CallChange ==
    ASSUME NEW accts, NEW calls, CallsOK(calls, accts),
           NEW n \in Nodes, NEW t \in Threads, NEW call, CallOK(call, accts[n])
    PROVE  CallsOK([calls EXCEPT ![n][t] = call], accts)
<1>. DEFINE new == [calls EXCEPT ![n][t] = call]
<1>1. call \in Calls
  BY DEF CallOK
<1>2. new \in [Nodes -> [Threads -> Calls]]
  BY <1>1 DEF CallsOK
<1>3. ASSUME NEW m \in Nodes, NEW u \in Threads
      PROVE  new[m][u] = IF m = n /\ u = t THEN call ELSE calls[m][u]
  BY DEF CallsOK
<1>. QED  BY <1>2, <1>3 DEF CallsOK

(* A goroutine between two calls is right about any account.               *)
LEMMA IdleOK == ASSUME NEW accts PROVE CallOK(Idle, accts) /\ Idle.at = "idle"
BY DEF CallOK, Calls, Idle, NoTx

-----------------------------------------------------------------------------
(* The inductive invariant.  A number counts as used because a transaction *)
(* of the node with it was mined with success, so it is kept that such a   *)
(* transaction made an event, for every transaction of every account, and  *)
(* that what a node waits for is a proposal of its pending block.          *)

NodesOK ==
    /\ number \in [Nodes -> Nat] /\ size \in [Nodes -> Nat]
    /\ running \in [Nodes -> BOOLEAN]
    /\ heard \in [Nodes -> [proposed : Nat, agreed : Nat]]
    /\ DOMAIN passed = Nodes

ContractsOK ==
    /\ proposer \in Nodes
    /\ proposed \in Seq(Blocks) /\ agreed \in Seq(Blocks) /\ chain \in Seq(Blocks)
    /\ proposal.block \in Blocks /\ proposal.signers \subseteq Nodes
    /\ proposal = [block |-> proposal.block, signers |-> proposal.signers,
                   decided |-> proposal.decided]

HeardOK ==
    \A n \in Nodes :
        heard[n].proposed <= Len(proposed) /\ heard[n].agreed <= Len(agreed)

Proposal(n, numbers, sizes) ==
    Tx("propose", [by |-> n, number |-> numbers[n], size |-> sizes[n]])

Proposes(calls, numbers, sizes) ==
    \A n \in Nodes :
        calls[n]["propose"].at # "idle" => calls[n]["propose"].tx = Proposal(n, numbers, sizes)

IInv ==
    /\ NodesOK
    /\ ContractsOK
    /\ HeardOK
    /\ AccountsOK(account, proposed)
    /\ CallsOK(thread, account)
    /\ Proposes(thread, number, size)
    /\ NoNumberSkipped

(* What a node proposes is a transaction.                                  *)
LEMMA ProposalIsTx ==
    ASSUME NEW n \in Nodes, NEW numbers \in [Nodes -> Nat], NEW sizes \in [Nodes -> Nat]
    PROVE  Proposal(n, numbers, sizes) \in Txs
BY DEF Proposal, Blocks, Tx, Txs, Methods

(* A proposal that was sent is still of the pending block.                 *)
LEMMA WaitingProposes ==
    ASSUME NEW calls \in [Nodes -> [Threads -> Calls]], NEW numbers, NEW sizes,
           Proposes(calls, numbers, sizes),
           NEW n \in Nodes, NEW t \in Threads, calls[n][t].at = "sending"
    PROVE  Proposes([calls EXCEPT ![n][t] = Waiting(calls[n][t])], numbers, sizes)
<1>. DEFINE call == Waiting(calls[n][t])
            new == [calls EXCEPT ![n][t] = call]
<1>1. call.at = "waiting" /\ call.tx = calls[n][t].tx
  BY DEF Calls, Waiting
<1>. HIDE DEF call
<1>2. ASSUME NEW m \in Nodes
      PROVE  new[m]["propose"] = IF m = n /\ t = "propose" THEN call ELSE calls[m]["propose"]
  BY DEF Threads
<1>. HIDE DEF new
<1>3. ASSUME NEW m \in Nodes, new[m]["propose"].at # "idle"
      PROVE  new[m]["propose"].tx = Proposal(m, numbers, sizes)
  <2>1. CASE m = n /\ t = "propose"
    BY <1>1, <1>2, <2>1 DEF Proposes
  <2>2. CASE ~(m = n /\ t = "propose")
    BY <1>2, <1>3, <2>2 DEF Proposes
  <2>. QED  BY <2>1, <2>2
<1>4. Proposes(new, numbers, sizes)
  BY <1>3 DEF Proposes
<1>. QED  BY <1>4 DEF new, call

(* It holds when the nodes are started first.                              *)
LEMMA InitKeeps == ASSUME Init PROVE IInv
<1>1. NewAccount \in Accounts /\ Sound(NewAccount, <<>>)
  BY DEF NewAccount, Accounts, Sound
<1>2. AccountsOK(account, proposed)
  BY <1>1 DEF Init, AccountsOK, Chains
<1>3. Idle \in Calls /\ Idle.at = "idle"
  BY DEF Idle, Calls, NoTx
<1>4. CallsOK(thread, account) /\ Proposes(thread, number, size)
  <2>1. thread = [n \in Nodes |-> [t \in Threads |-> Idle]]
    BY DEF Init
  <2>2. "propose" \in Threads
    BY DEF Threads
  <2>. QED  BY <1>3, <2>1, <2>2 DEF CallsOK, CallOK, Proposes
<1>5. NodesOK /\ HeardOK /\ NoNumberSkipped
  BY DEF Init, NodesOK, HeardOK, NoNumberSkipped
<1>6. ContractsOK
  BY DEF Init, ContractsOK, NoBlock, Blocks
<1>. QED  BY <1>2, <1>4, <1>5, <1>6 DEF IInv

-----------------------------------------------------------------------------
(* Steps of the goroutines.                                                *)

(* A step that changes no counter of a node.                               *)
LEMMA NodesKept ==
    ASSUME NodesOK, UNCHANGED <<number, size, running, passed, heard>>
    PROVE  NodesOK'
BY DEF NodesOK

(* A step that touches no contract.                                        *)
LEMMA ContractsKept ==
    ASSUME ContractsOK, UNCHANGED contractVars
    PROVE  ContractsOK'
BY DEF ContractsOK, contractVars

(* Only calls and accounts change.                                         *)
LEMMA CallsAndAccounts ==
    ASSUME IInv, UNCHANGED <<nodeVars, contractVars>>,
           AccountsOK(account', proposed), CallsOK(thread', account'), Proposes(thread', number, size)
    PROVE  IInv'
<1>1. /\ UNCHANGED <<number, size, running, passed, heard>>
      /\ UNCHANGED contractVars /\ UNCHANGED <<proposed, agreed>>
  BY DEF nodeVars, contractVars
<1>2. NodesOK' /\ ContractsOK'
  BY <1>1, NodesKept, ContractsKept DEF IInv
<1>3. HeardOK' /\ NoNumberSkipped'
  BY <1>1 DEF IInv, HeardOK, NoNumberSkipped
<1>4. /\ AccountsOK(account, proposed)' /\ CallsOK(thread, account)'
      /\ Proposes(thread, number, size)'
  BY <1>1
<1>. QED  BY <1>2, <1>3, <1>4 DEF IInv

(* A call that ends with nothing else changed.                             *)
LEMMA ReturnKeeps ==
    ASSUME IInv, NEW n \in Nodes, NEW t \in Threads, Return(n, t),
           UNCHANGED <<nodeVars, account, contractVars>>
    PROVE  IInv'
<1>1. thread' = [thread EXCEPT ![n][t] = Idle] /\ CallOK(Idle, account[n])
  BY IdleOK DEF Return
<1>2. CallsOK(thread', account)
  BY <1>1, CallChange DEF IInv
<1>3. Proposes(thread', number, size)
  <2>1. \A m \in Nodes, u \in Threads :
            thread'[m][u] = IF m = n /\ u = t THEN Idle ELSE thread[m][u]
    BY <1>1 DEF IInv, CallsOK
  <2>2. "propose" \in Threads
    BY DEF Threads
  <2>. QED  BY <2>1, <2>2, IdleOK DEF IInv, Proposes
<1>4. AccountsOK(account', proposed) /\ CallsOK(thread', account')
  BY <1>2 DEF IInv
<1>. QED  BY <1>3, <1>4, CallsAndAccounts

(* A call that starts, of another goroutine than the one that proposes.    *)
LEMMA StartKeeps ==
    ASSUME IInv, NEW n \in Nodes, NEW t \in Threads \ {"propose"}, NEW tx \in Txs,
           Start(n, t, tx),
           UNCHANGED <<number, size, running, passed, account, contractVars>>,
           heard' \in [Nodes -> [proposed : Nat, agreed : Nat]], HeardOK'
    PROVE  IInv'
<1>. DEFINE call == Sending(account[n][ChainOf(tx)], tx)
<1>1. CallOK(call, account[n])
  <2>1. account[n][ChainOf(tx)] \in Accounts
    BY ChainOfTx DEF IInv, AccountsOK
  <2>2. Len(account[n][ChainOf(tx)].pool) \in Nat
    BY <2>1 DEF Accounts
  <2>. QED  BY <2>2 DEF CallOK, Calls, Sending, PendingNonce
<1>2. thread' = [thread EXCEPT ![n][t] = call]
  BY DEF Start
<1>. HIDE DEF call
<1>3. CallsOK(thread', account)
  BY <1>1, <1>2, CallChange DEF IInv
<1>4. Proposes(thread', number, size)
  <2>1. \A m \in Nodes : thread'[m]["propose"] = thread[m]["propose"]
    BY <1>2 DEF IInv, CallsOK, Threads
  <2>. QED  BY <2>1 DEF IInv, Proposes
<1>5. NodesOK' /\ ContractsOK'
  BY ContractsKept DEF IInv, NodesOK
<1>6. proposed' = proposed /\ account' = account
  BY DEF contractVars
<1>7. AccountsOK(account, proposed)' /\ CallsOK(thread, account)'
      /\ Proposes(thread, number, size)' /\ NoNumberSkipped'
  BY <1>3, <1>4, <1>6 DEF IInv, NoNumberSkipped
<1>. QED  BY <1>5, <1>7 DEF IInv

(* Another transaction in the account of a node, and its call goes on.     *)
LEMMA SentKeeps ==
    ASSUME IInv, NEW n \in Nodes, NEW t \in Threads, NEW acc \in Accounts,
           thread[n][t].at = "sending", Sound(acc, proposed),
           LET c == ChainOf(thread[n][t].tx)
           IN  /\ Len(account[n][c].pool) <= Len(acc.pool)
               /\ account' = [account EXCEPT ![n][c] = acc],
           thread' = [thread EXCEPT ![n][t] = Waiting(thread[n][t])],
           UNCHANGED <<nodeVars, contractVars>>
    PROVE  IInv'
<1>. DEFINE c == ChainOf(thread[n][t].tx)
            call == Waiting(thread[n][t])
<1>1. c \in Chains
  BY ChainOfTx
<1>2. AccountsOK(account', proposed) /\ CallsOK(thread, account')
  BY <1>1, AccountChange, CallsKept DEF IInv
<1>3. call.at = "waiting" /\ call.tx = thread[n][t].tx /\ CallOK(call, account'[n])
  BY <1>2 DEF CallsOK, CallOK, Calls, Waiting
<1>6. thread' = [thread EXCEPT ![n][t] = call]
  OBVIOUS
<1>. HIDE DEF call
<1>4. CallsOK(thread', account')
  <2>1. CallsOK([thread EXCEPT ![n][t] = call], account')
    BY <1>2, <1>3, CallChange
  <2>. QED  BY <1>6, <2>1
<1>5. Proposes(thread', number, size)
  <2>1. /\ Proposes(thread, number, size)
        /\ thread \in [Nodes -> [Threads -> Calls]]
    BY DEF IInv, CallsOK
  <2>2. Proposes([thread EXCEPT ![n][t] = Waiting(thread[n][t])], number, size)
    BY <2>1, WaitingProposes
  <2>. QED  BY <2>2
<1>. QED  BY <1>2, <1>4, <1>5, CallsAndAccounts

(* A transaction is sent with a nonce of its own.                          *)
LEMMA SendKeeps ==
    ASSUME IInv, NEW n \in Nodes, NEW t \in Threads, Send(n, t)
    PROVE  IInv'
<1>. DEFINE call == thread[n][t]
            acc == account[n][ChainOf(call.tx)]
<1>1. acc \in Accounts /\ Sound(acc, proposed) /\ call.tx \in Txs
  BY ChainOfTx DEF IInv, AccountsOK, CallsOK, CallOK, Send
<1>2. /\ Sent(acc, call.tx) \in Accounts /\ Sound(Sent(acc, call.tx), proposed)
      /\ Len(Sent(acc, call.tx).pool) = Len(acc.pool) + 1
  BY <1>1, SentSound
<1>5. Len(acc.pool) <= Len(Sent(acc, call.tx).pool)
  <2>1. acc.pool \in Seq(Txs)
    BY <1>1 DEF Accounts
  <2>. QED  BY <1>2, <2>1
<1>3. account' = [account EXCEPT ![n][ChainOf(call.tx)] = Sent(acc, call.tx)]
  BY DEF Send
<1>4. /\ call.at = "sending" /\ thread' = [thread EXCEPT ![n][t] = Waiting(call)]
      /\ UNCHANGED <<nodeVars, contractVars>>
  BY DEF Send
<1>. QED  BY <1>2, <1>3, <1>4, <1>5, SentKeeps

(* A transaction is sent with a nonce another one has.                     *)
LEMMA SendReplacesKeeps ==
    ASSUME IInv, NEW n \in Nodes, NEW t \in Threads, SendReplaces(n, t)
    PROVE  IInv'
<1>. DEFINE call == thread[n][t]
            acc == account[n][ChainOf(call.tx)]
            new == Replaced(acc, call.nonce, call.tx)
<1>1. acc \in Accounts /\ Sound(acc, proposed) /\ call.tx \in Txs /\ call.nonce \in Nat
  BY ChainOfTx DEF IInv, AccountsOK, CallsOK, CallOK, Calls, SendReplaces
<1>2. Replaceable(acc, call.nonce)
  BY DEF SendReplaces
<1>3. new \in Accounts /\ Sound(new, proposed) /\ Len(new.pool) = Len(acc.pool)
  BY <1>1, <1>2, ReplacedSound
<1>4. Len(acc.pool) <= Len(new.pool)
  BY <1>1, <1>3 DEF Accounts
<1>5. account' = [account EXCEPT ![n][ChainOf(call.tx)] = new]
  BY DEF SendReplaces
<1>6. /\ call.at = "sending" /\ thread' = [thread EXCEPT ![n][t] = Waiting(call)]
      /\ UNCHANGED <<nodeVars, contractVars>>
  BY DEF SendReplaces
<1>. HIDE DEF new
<1>. QED  BY <1>3, <1>4, <1>5, <1>6, SentKeeps

(* The calls of the goroutines that use the account.                       *)
LEMMA GoOnKeeps ==
    ASSUME IInv, NEW n \in Nodes, NEW t \in Threads, GoOn(n, t)
    PROVE  IInv'
<1>1. CASE Send(n, t)
  BY <1>1, SendKeeps
<1>2. CASE SendFails(n, t)
  BY <1>2, ReturnKeeps DEF SendFails
<1>3. CASE WaitReverted(n, t)
  BY <1>3, ReturnKeeps DEF WaitReverted
<1>. QED  BY <1>1, <1>2, <1>3 DEF GoOn

(* A transaction is not sent, or its receipt not heard of.                 *)
LEMMA ErrorsKeep ==
    ASSUME IInv, NEW n \in Nodes, NEW t \in Threads, SendErrors(n, t) \/ WaitErrors(n, t)
    PROVE  IInv'
BY ReturnKeeps DEF SendErrors, WaitErrors

(* The pending block has one transition more and is proposed.              *)
LEMMA ProposeKeeps ==
    ASSUME IInv, NEW n \in Nodes, Propose(n)
    PROVE  IInv'
<1>. DEFINE tx == Tx("propose", Pending(n, size[n] + 1))
            acc == account[n][ChainOf(tx)]
            call == Sending(acc, tx)
<1>1. /\ size' = [size EXCEPT ![n] = @ + 1]
      /\ thread' = [thread EXCEPT ![n]["propose"] = call]
      /\ UNCHANGED <<number, heard, subscribed, running, passed, account, contractVars>>
  BY DEF Propose, Start
<1>2. /\ size \in [Nodes -> Nat] /\ number \in [Nodes -> Nat]
      /\ size' \in [Nodes -> Nat] /\ size'[n] = size[n] + 1
      /\ \A m \in Nodes : m # n => size'[m] = size[m]
  BY <1>1 DEF IInv, NodesOK
<1>3. tx = Proposal(n, number, size') /\ tx \in Txs
  <2>1. tx = Proposal(n, number, size')
    BY <1>2 DEF Proposal, Pending
  <2>. QED  BY <1>2, <2>1, ProposalIsTx
<1>4. call.at = "sending" /\ call.tx = tx /\ CallOK(call, account[n])
  <2>1. acc \in Accounts
    BY ChainOfTx DEF IInv, AccountsOK
  <2>2. Len(acc.pool) \in Nat
    BY <2>1 DEF Accounts
  <2>. QED  BY <1>3, <2>2 DEF CallOK, Calls, Sending, PendingNonce
<1>. HIDE DEF tx, call
<1>5. CallsOK(thread', account)
  <2>1. CallsOK([thread EXCEPT ![n]["propose"] = call], account)
    BY <1>4, CallChange DEF IInv, Threads
  <2>. QED  BY <1>1, <2>1
<1>6. Proposes(thread', number, size')
  <2>1. /\ thread'[n]["propose"] = call
        /\ \A m \in Nodes : m # n => thread'[m]["propose"] = thread[m]["propose"]
    BY <1>1 DEF IInv, CallsOK, Threads
  <2>2. ASSUME NEW m \in Nodes, thread'[m]["propose"].at # "idle"
        PROVE  thread'[m]["propose"].tx = Proposal(m, number, size')
    <3>1. CASE m = n
      BY <1>3, <1>4, <2>1, <3>1
    <3>2. CASE m # n
      <4>1. thread[m]["propose"].tx = Proposal(m, number, size)
        BY <2>1, <2>2, <3>2 DEF IInv, Proposes
      <4>. QED  BY <1>2, <2>1, <3>2, <4>1 DEF Proposal
    <3>. QED  BY <3>1, <3>2
  <2>. QED  BY <2>2 DEF Proposes
<1>7. NodesOK' /\ ContractsOK'
  BY <1>1, <1>2, ContractsKept DEF IInv, NodesOK
<1>8. HeardOK' /\ NoNumberSkipped' /\ proposed' = proposed
  BY <1>1 DEF IInv, HeardOK, NoNumberSkipped, contractVars
<1>9. /\ AccountsOK(account, proposed)' /\ CallsOK(thread, account)'
      /\ Proposes(thread, number, size)'
  BY <1>1, <1>5, <1>6, <1>8 DEF IInv
<1>. QED  BY <1>7, <1>8, <1>9 DEF IInv

(* The pending block has one transition more, and that is all.             *)
LEMMA ProposerUnknownKeeps ==
    ASSUME IInv, NEW n \in Nodes, ProposerUnknown(n)
    PROVE  IInv'
<1>1. /\ size' = [size EXCEPT ![n] = @ + 1] /\ thread[n]["propose"].at = "idle"
      /\ UNCHANGED <<number, heard, running, passed, thread, account>>
      /\ UNCHANGED contractVars /\ UNCHANGED <<proposed, agreed>>
  BY DEF ProposerUnknown, Free, contractVars
<1>2. size' \in [Nodes -> Nat] /\ \A m \in Nodes : m # n => size'[m] = size[m]
  BY <1>1 DEF IInv, NodesOK
<1>3. Proposes(thread, number, size')
  <2>1. ASSUME NEW m \in Nodes, thread[m]["propose"].at # "idle"
        PROVE  thread[m]["propose"].tx = Proposal(m, number, size')
    BY <1>1, <1>2, <2>1 DEF IInv, Proposes, Proposal
  <2>. QED  BY <2>1 DEF Proposes
<1>4. NodesOK' /\ ContractsOK'
  BY <1>1, <1>2, ContractsKept DEF IInv, NodesOK
<1>5. HeardOK' /\ NoNumberSkipped'
  BY <1>1 DEF IInv, HeardOK, NoNumberSkipped
<1>6. /\ AccountsOK(account, proposed)' /\ CallsOK(thread, account)'
      /\ Proposes(thread, number, size)'
  BY <1>1, <1>3 DEF IInv
<1>. QED  BY <1>4, <1>5, <1>6 DEF IInv

(* The number of a node grows by one: the last is accounted for, and no    *)
(* call of the goroutine that proposes is about it any more.               *)
LEMMA NextNumber ==
    ASSUME IInv, NEW n \in Nodes,
           number' = [number EXCEPT ![n] = @ + 1], size' = [size EXCEPT ![n] = 0],
           DOMAIN passed' = Nodes, \A m \in Nodes : passed[m] \subseteq passed'[m],
           number[n] \in passed'[n] \/ \E i \in DOMAIN proposed :
                proposed[i].by = n /\ proposed[i].number = number[n],
           CallsOK(thread', account),
           \A m \in Nodes : m # n => thread'[m] = thread[m],
           thread'[n]["propose"].at = "idle",
           UNCHANGED <<heard, running, account, contractVars>>
    PROVE  IInv'
<1>1. /\ number \in [Nodes -> Nat] /\ number' \in [Nodes -> Nat]
      /\ size \in [Nodes -> Nat] /\ size' \in [Nodes -> Nat]
      /\ number'[n] = number[n] + 1
      /\ \A m \in Nodes : m # n => number'[m] = number[m] /\ size'[m] = size[m]
  BY DEF IInv, NodesOK
<1>2. NodesOK' /\ ContractsOK'
  BY <1>1, ContractsKept DEF IInv, NodesOK
<1>3. proposed' = proposed /\ agreed' = agreed
  BY DEF contractVars
<1>4. HeardOK'
  BY <1>3 DEF IInv, HeardOK
<1>5. NoNumberSkipped'
  <2>1. ASSUME NEW m \in Nodes, NEW k \in 0..(number'[m] - 1)
        PROVE  \/ k \in passed'[m]
               \/ \E i \in DOMAIN proposed : proposed[i].by = m /\ proposed[i].number = k
    <3>1. CASE m = n /\ k = number[n]
      BY <3>1
    <3>2. CASE ~(m = n /\ k = number[n])
      <4>1. k \in 0..(number[m] - 1)
        BY <1>1, <3>2
      <4>. QED  BY <4>1 DEF IInv, NoNumberSkipped
    <3>. QED  BY <3>1, <3>2
  <2>. QED  BY <1>3, <2>1 DEF NoNumberSkipped
<1>6. Proposes(thread', number', size')
  <2>1. ASSUME NEW m \in Nodes, thread'[m]["propose"].at # "idle"
        PROVE  thread'[m]["propose"].tx = Proposal(m, number', size')
    <3>1. m # n
      BY <2>1
    <3>2. thread[m]["propose"].tx = Proposal(m, number, size)
      BY <2>1, <3>1 DEF IInv, Proposes
    <3>. QED  BY <1>1, <3>1, <3>2 DEF Proposal
  <2>. QED  BY <2>1 DEF Proposes
<1>7. /\ AccountsOK(account, proposed)' /\ CallsOK(thread, account)'
      /\ Proposes(thread, number, size)'
  BY <1>3, <1>6 DEF IInv
<1>. QED  BY <1>2, <1>4, <1>5, <1>7 DEF IInv

(* A number is passed over.                                                *)
LEMMA PassOverKeeps ==
    ASSUME IInv, NEW n \in Nodes, PassOver(n)
    PROVE  IInv'
<1>1. /\ number' = [number EXCEPT ![n] = @ + 1] /\ size' = [size EXCEPT ![n] = 0]
      /\ passed' = [passed EXCEPT ![n] = @ \cup {number[n]}]
      /\ thread[n]["propose"].at = "idle" /\ thread' = thread
      /\ UNCHANGED <<heard, running, account, contractVars>>
  BY DEF PassOver, Free
<1>2. /\ DOMAIN passed' = Nodes /\ \A m \in Nodes : passed[m] \subseteq passed'[m]
      /\ number[n] \in passed'[n]
  BY <1>1 DEF IInv, NodesOK
<1>3. CallsOK(thread', account)
  BY <1>1 DEF IInv
<1>. QED  BY <1>1, <1>2, <1>3, NextNumber

(* The receipt is of the transaction that was waited for, so its proposal  *)
(* is in an event.                                                         *)
LEMMA ProposedKeeps ==
    ASSUME IInv, NEW n \in Nodes, Proposed(n)
    PROVE  IInv'
<1>. DEFINE call == thread[n]["propose"]
            acc == account[n][ChainOf(call.tx)]
            block == [by |-> n, number |-> number[n], size |-> size[n]]
<1>1. /\ number' = [number EXCEPT ![n] = @ + 1] /\ size' = [size EXCEPT ![n] = 0]
      /\ passed' = passed /\ thread' = [thread EXCEPT ![n]["propose"] = Idle]
      /\ UNCHANGED <<heard, running, account, contractVars>>
  BY DEF Proposed, Return
<1>2. /\ call.at = "waiting" /\ call.nonce < Len(acc.receipts)
      /\ acc.pool[call.nonce + 1] = call.tx /\ acc.receipts[call.nonce + 1]
  BY DEF Proposed, Receipt, Succeeded, HasReceipt, Status
<1>3. call.tx = Tx("propose", block)
  BY <1>2 DEF IInv, Proposes, Proposal
<1>4. IsIn(block, proposed)
  <2>1. call \in Calls /\ acc \in Accounts /\ Sound(acc, proposed)
    BY ChainOfTx DEF IInv, CallsOK, AccountsOK, Threads
  <2>2. call.nonce + 1 \in DOMAIN acc.receipts
    BY <1>2, <2>1 DEF Calls, Accounts
  <2>3. acc.pool[call.nonce + 1].method = "propose" /\ acc.pool[call.nonce + 1].block = block
    BY <1>2, <1>3 DEF Tx
  <2>. QED  BY <1>2, <2>1, <2>2, <2>3 DEF Sound
<1>5. \E i \in DOMAIN proposed : proposed[i].by = n /\ proposed[i].number = number[n]
  BY <1>4 DEF IsIn
<1>6. CallsOK(thread', account)
  <2>1. CallsOK([thread EXCEPT ![n]["propose"] = Idle], account)
    BY IdleOK, CallChange DEF IInv, Threads
  <2>. QED  BY <1>1, <2>1
<1>7. /\ \A m \in Nodes : m # n => thread'[m] = thread[m]
      /\ thread'[n]["propose"].at = "idle"
  BY <1>1, IdleOK DEF IInv, CallsOK, Threads
<1>8. DOMAIN passed' = Nodes
  BY <1>1 DEF IInv, NodesOK
<1>. QED  BY <1>1, <1>5, <1>6, <1>7, <1>8, NextNumber

(* Events of the committee.                                                *)
LEMMA HearProposedKeeps ==
    ASSUME IInv, NEW n \in Nodes, HearProposed(n)
    PROVE  IInv'
<1>. DEFINE event == proposed[heard[n].proposed + 1]
            tx == Tx("sign", event)
<1>1. /\ heard[n].proposed < Len(proposed)
      /\ heard' = [heard EXCEPT ![n].proposed = @ + 1]
      /\ UNCHANGED <<number, size, running, passed, account, contractVars>>
  BY DEF HearProposed
<1>2. tx \in Txs
  <2>1. heard[n].proposed + 1 \in DOMAIN proposed
    BY <1>1 DEF IInv, NodesOK, ContractsOK
  <2>2. event \in Blocks
    BY <2>1 DEF IInv, ContractsOK
  <2>. QED  BY <2>2 DEF Tx, Txs, Methods
<1>3. heard' \in [Nodes -> [proposed : Nat, agreed : Nat]] /\ HeardOK'
  <2>1. /\ heard' \in [Nodes -> [proposed : Nat, agreed : Nat]]
        /\ heard'[n].proposed = heard[n].proposed + 1 /\ heard'[n].agreed = heard[n].agreed
        /\ \A m \in Nodes : m # n => heard'[m] = heard[m]
    <3>1. heard \in [Nodes -> [proposed : Nat, agreed : Nat]]
      BY DEF IInv, NodesOK
    <3>. QED  BY <1>1, <3>1
  <2>2. Len(proposed) \in Nat /\ heard[n].proposed \in Nat
    BY DEF IInv, ContractsOK, NodesOK
  <2>3. proposed' = proposed /\ agreed' = agreed
    BY <1>1 DEF contractVars
  <2>. QED  BY <1>1, <2>1, <2>2, <2>3 DEF IInv, HeardOK
<1>4. CASE TakesItselfForProposer(n)
  <2>1. thread' = thread
    BY <1>4 DEF HearProposed
  <2>2. NodesOK' /\ ContractsOK'
    BY <1>1, <1>3, ContractsKept DEF IInv, NodesOK
  <2>3. proposed' = proposed
    BY <1>1 DEF contractVars
  <2>4. /\ AccountsOK(account, proposed)' /\ CallsOK(thread, account)'
        /\ Proposes(thread, number, size)' /\ NoNumberSkipped'
    BY <1>1, <2>1, <2>3 DEF IInv, NoNumberSkipped
  <2>. QED  BY <1>3, <2>2, <2>4 DEF IInv
<1>5. CASE ~TakesItselfForProposer(n)
  <2>1. Start(n, "committee", tx)
    BY <1>5 DEF HearProposed
  <2>. HIDE DEF tx
  <2>. QED  BY <1>1, <1>2, <1>3, <2>1, StartKeeps DEF Threads
<1>. QED  BY <1>4, <1>5

(* A node hears of an agreed block and commits it.                         *)
LEMMA HearAgreedKeeps ==
    ASSUME IInv, NEW n \in Nodes, HearAgreed(n)
    PROVE  IInv'
<1>. DEFINE event == agreed[heard[n].agreed + 1]
            tx == Tx("commit", event)
<1>1. /\ heard[n].agreed < Len(agreed)
      /\ heard' = [heard EXCEPT ![n].agreed = @ + 1]
      /\ UNCHANGED <<number, size, running, passed, account, contractVars>>
  BY DEF HearAgreed
<1>2. tx \in Txs
  <2>1. heard[n].agreed + 1 \in DOMAIN agreed
    BY <1>1 DEF IInv, NodesOK, ContractsOK
  <2>2. event \in Blocks
    BY <2>1 DEF IInv, ContractsOK
  <2>. QED  BY <2>2 DEF Tx, Txs, Methods
<1>3. heard' \in [Nodes -> [proposed : Nat, agreed : Nat]] /\ HeardOK'
  <2>1. /\ heard' \in [Nodes -> [proposed : Nat, agreed : Nat]]
        /\ heard'[n].agreed = heard[n].agreed + 1 /\ heard'[n].proposed = heard[n].proposed
        /\ \A m \in Nodes : m # n => heard'[m] = heard[m]
    <3>1. heard \in [Nodes -> [proposed : Nat, agreed : Nat]]
      BY DEF IInv, NodesOK
    <3>. QED  BY <1>1, <3>1
  <2>2. Len(agreed) \in Nat /\ heard[n].agreed \in Nat
    BY DEF IInv, ContractsOK, NodesOK
  <2>3. proposed' = proposed /\ agreed' = agreed
    BY <1>1 DEF contractVars
  <2>. QED  BY <1>1, <2>1, <2>2, <2>3 DEF IInv, HeardOK
<1>4. CASE n # Committer
  <2>1. thread' = thread
    BY <1>4 DEF HearAgreed
  <2>2. NodesOK' /\ ContractsOK'
    BY <1>1, <1>3, ContractsKept DEF IInv, NodesOK
  <2>3. proposed' = proposed
    BY <1>1 DEF contractVars
  <2>4. /\ AccountsOK(account, proposed)' /\ CallsOK(thread, account)'
        /\ Proposes(thread, number, size)' /\ NoNumberSkipped'
    BY <1>1, <2>1, <2>3 DEF IInv, NoNumberSkipped
  <2>. QED  BY <1>3, <2>2, <2>4 DEF IInv
<1>5. CASE n = Committer
  <2>1. Start(n, "committee", tx)
    BY <1>5 DEF HearAgreed
  <2>. HIDE DEF tx
  <2>. QED  BY <1>1, <1>2, <1>3, <2>1, StartKeeps DEF Threads
<1>. QED  BY <1>4, <1>5

(* An event is taken, and no call comes of it.                             *)
LEMMA TakenKeeps ==
    ASSUME IInv, NEW n \in Nodes, HearProposedInVain(n) \/ HearAgreedInVain(n)
    PROVE  IInv'
<1>1. /\ UNCHANGED <<number, size, running, passed, thread, account>>
      /\ UNCHANGED contractVars /\ UNCHANGED <<proposed, agreed>>
  BY DEF HearProposedInVain, HearAgreedInVain, contractVars
<1>2. /\ heard \in [Nodes -> [proposed : Nat, agreed : Nat]]
      /\ Len(proposed) \in Nat /\ Len(agreed) \in Nat
  BY DEF IInv, NodesOK, ContractsOK
<1>3. heard' \in [Nodes -> [proposed : Nat, agreed : Nat]] /\ HeardOK'
  <2>1. CASE HearProposedInVain(n)
    <3>1. /\ heard[n].proposed < Len(proposed)
          /\ heard' = [heard EXCEPT ![n].proposed = @ + 1]
      BY <2>1 DEF HearProposedInVain
    <3>2. /\ heard' \in [Nodes -> [proposed : Nat, agreed : Nat]]
          /\ heard'[n].proposed = heard[n].proposed + 1 /\ heard'[n].agreed = heard[n].agreed
          /\ \A m \in Nodes : m # n => heard'[m] = heard[m]
      BY <1>2, <3>1
    <3>. QED  BY <1>1, <1>2, <3>1, <3>2 DEF IInv, HeardOK
  <2>2. CASE HearAgreedInVain(n)
    <3>1. /\ heard[n].agreed < Len(agreed)
          /\ heard' = [heard EXCEPT ![n].agreed = @ + 1]
      BY <2>2 DEF HearAgreedInVain
    <3>2. /\ heard' \in [Nodes -> [proposed : Nat, agreed : Nat]]
          /\ heard'[n].agreed = heard[n].agreed + 1 /\ heard'[n].proposed = heard[n].proposed
          /\ \A m \in Nodes : m # n => heard'[m] = heard[m]
      BY <1>2, <3>1
    <3>. QED  BY <1>1, <1>2, <3>1, <3>2 DEF IInv, HeardOK
  <2>. QED  BY <2>1, <2>2
<1>4. NodesOK' /\ ContractsOK'
  BY <1>1, <1>3, ContractsKept DEF IInv, NodesOK
<1>5. /\ AccountsOK(account, proposed)' /\ CallsOK(thread, account)'
      /\ Proposes(thread, number, size)' /\ NoNumberSkipped'
  BY <1>1 DEF IInv, NoNumberSkipped
<1>. QED  BY <1>3, <1>4, <1>5 DEF IInv

(* The bridge or the withdraw manager enters a call.                       *)
LEMMA OtherCallKeeps ==
    ASSUME IInv, NEW n \in Nodes, NEW t \in {"bridge", "withdraw"}, OtherCall(n, t)
    PROVE  IInv'
<1>. DEFINE tx == Tx(t, NoBlock(n))
<1>1. /\ Start(n, t, tx)
      /\ UNCHANGED <<number, size, heard, running, passed, account, contractVars>>
  BY DEF OtherCall, nodeVars
<1>2. tx \in Txs
  BY DEF Tx, Txs, NoBlock, Blocks, Methods
<1>3. heard' \in [Nodes -> [proposed : Nat, agreed : Nat]] /\ HeardOK'
  BY <1>1 DEF IInv, NodesOK, HeardOK, contractVars
<1>4. t \in Threads \ {"propose"}
  BY DEF Threads
<1>. HIDE DEF tx
<1>. QED  BY <1>1, <1>2, <1>3, <1>4, StartKeeps

(* A call that proposes nothing ends.                                      *)
LEMMA EndsKeep ==
    ASSUME IInv, NEW n \in Nodes, NEW t \in {"bridge", "withdraw"},
           Handled(n) \/ OtherDone(n, t)
    PROVE  IInv'
BY ReturnKeeps DEF Handled, OtherDone, Threads

(* Subscriptions end: only subscribed changes.                             *)
LEMMA DropKeeps ==
    ASSUME IInv, NEW n \in Nodes, NEW subscriptions, Drop(n, subscriptions)
    PROVE  IInv'
<1>1. /\ UNCHANGED <<number, size, running, passed, heard>>
      /\ UNCHANGED contractVars /\ UNCHANGED <<proposed, agreed>>
      /\ UNCHANGED <<thread, account>>
  BY DEF Drop, contractVars
<1>2. NodesOK' /\ ContractsOK'
  BY <1>1, NodesKept, ContractsKept DEF IInv
<1>3. /\ AccountsOK(account, proposed)' /\ CallsOK(thread, account)'
      /\ Proposes(thread, number, size)'
  BY <1>1 DEF IInv
<1>4. HeardOK' /\ NoNumberSkipped'
  BY <1>1 DEF IInv, HeardOK, NoNumberSkipped
<1>. QED  BY <1>2, <1>3, <1>4 DEF IInv

-----------------------------------------------------------------------------
(* A process ends, and starts again.                                       *)

NoCalls == [t \in Threads |-> Idle]

(* The calls of one node end, those of the others go on.                   *)
LEMMA CallsEnd ==
    ASSUME NEW calls, NEW accts, CallsOK(calls, accts), NEW n \in Nodes
    PROVE  CallsOK([calls EXCEPT ![n] = NoCalls], accts)
<1>. DEFINE new == [calls EXCEPT ![n] = NoCalls]
<1>1. NoCalls \in [Threads -> Calls] /\ \A t \in Threads : NoCalls[t] = Idle
  BY DEF NoCalls, Idle, Calls, NoTx
<1>2. /\ new \in [Nodes -> [Threads -> Calls]]
      /\ new[n] = NoCalls
      /\ \A m \in Nodes : m # n => new[m] = calls[m]
  BY <1>1 DEF CallsOK
<1>3. \A t \in Threads : CallOK(new[n][t], accts[n])
  BY <1>1, <1>2, IdleOK
<1>4. \A m \in Nodes, t \in Threads : CallOK(new[m][t], accts[m])
  BY <1>2, <1>3 DEF CallsOK
<1>. QED  BY <1>2, <1>4 DEF CallsOK

(* What is left of the calls of all nodes when those of one end.           *)
LEMMA ProcessEnds ==
    ASSUME IInv, NEW n \in Nodes, thread' = [thread EXCEPT ![n] = NoCalls]
    PROVE  /\ CallsOK(thread', account)
           /\ \A m \in Nodes : m # n => thread'[m] = thread[m]
           /\ thread'[n]["propose"].at = "idle"
<1>1. CallsOK([thread EXCEPT ![n] = NoCalls], account)
  BY CallsEnd DEF IInv
<1>2. \A m \in Nodes : thread'[m] = IF m = n THEN NoCalls ELSE thread[m]
  BY DEF IInv, CallsOK
<1>3. NoCalls["propose"] = Idle
  BY DEF NoCalls, Threads
<1>. QED  BY <1>1, <1>2, <1>3, IdleOK

(* A process dies.                                                         *)
LEMMA CommitPanicsKeeps ==
    ASSUME IInv, NEW n \in Nodes, CommitPanics(n)
    PROVE  IInv'
<1>1. /\ thread' = [thread EXCEPT ![n] = NoCalls]
      /\ running' = [running EXCEPT ![n] = FALSE]
      /\ UNCHANGED <<number, size, heard, passed, account>>
      /\ UNCHANGED contractVars /\ UNCHANGED <<proposed, agreed>>
  BY DEF CommitPanics, NoCalls, contractVars
<1>2. /\ CallsOK(thread', account)
      /\ \A m \in Nodes : m # n => thread'[m] = thread[m]
      /\ thread'[n]["propose"].at = "idle"
  BY <1>1, ProcessEnds
<1>3. Proposes(thread', number, size)
  BY <1>2 DEF IInv, Proposes
<1>4. NodesOK' /\ ContractsOK'
  BY <1>1, ContractsKept DEF IInv, NodesOK
<1>5. /\ AccountsOK(account, proposed)' /\ CallsOK(thread, account)'
      /\ Proposes(thread, number, size)'
  BY <1>1, <1>2, <1>3 DEF IInv
<1>6. HeardOK' /\ NoNumberSkipped'
  BY <1>1 DEF IInv, HeardOK, NoNumberSkipped
<1>. QED  BY <1>4, <1>5, <1>6 DEF IInv

(* A node starts anew, from block 0 and with no memory of what it          *)
(* proposed.                                                               *)
LEMMA RestartKeeps ==
    ASSUME IInv, NEW n \in Nodes, Restart(n)
    PROVE  IInv'
<1>1. /\ thread' = [thread EXCEPT ![n] = NoCalls]
      /\ number' = [number EXCEPT ![n] = 0] /\ size' = [size EXCEPT ![n] = 0]
      /\ heard' = [heard EXCEPT ![n] = [proposed |-> Len(proposed), agreed |-> Len(agreed)]]
      /\ running' = [running EXCEPT ![n] = TRUE] /\ passed' = [passed EXCEPT ![n] = {}]
      /\ UNCHANGED account /\ UNCHANGED contractVars /\ UNCHANGED <<proposed, agreed>>
  BY DEF Restart, NoCalls, contractVars
<1>2. /\ CallsOK(thread', account)
      /\ \A m \in Nodes : m # n => thread'[m] = thread[m]
      /\ thread'[n]["propose"].at = "idle"
  BY <1>1, ProcessEnds
<1>3. /\ number'[n] = 0 /\ \A m \in Nodes : m # n => number'[m] = number[m] /\ size'[m] = size[m]
      /\ \A m \in Nodes : m # n => passed'[m] = passed[m]
  BY <1>1 DEF IInv, NodesOK
<1>4. Proposes(thread', number', size')
  <2>1. ASSUME NEW m \in Nodes, thread'[m]["propose"].at # "idle"
        PROVE  thread'[m]["propose"].tx = Proposal(m, number', size')
    <3>1. m # n
      BY <1>2, <2>1
    <3>2. thread[m]["propose"].tx = Proposal(m, number, size)
      BY <1>2, <2>1, <3>1 DEF IInv, Proposes
    <3>. QED  BY <1>2, <1>3, <3>1, <3>2 DEF Proposal
  <2>. QED  BY <2>1 DEF Proposes
<1>5. Len(proposed) \in Nat /\ Len(agreed) \in Nat
  BY DEF IInv, ContractsOK
<1>6. NodesOK' /\ ContractsOK'
  BY <1>1, <1>5, ContractsKept DEF IInv, NodesOK
<1>7. HeardOK'
  BY <1>1, <1>5 DEF IInv, HeardOK, NodesOK
<1>8. NoNumberSkipped'
  BY <1>1, <1>3 DEF IInv, NoNumberSkipped
<1>9. /\ AccountsOK(account, proposed)' /\ CallsOK(thread, account)'
      /\ Proposes(thread, number, size)'
  BY <1>1, <1>2, <1>4 DEF IInv
<1>. QED  BY <1>6, <1>7, <1>8, <1>9 DEF IInv

-----------------------------------------------------------------------------
(* Steps of the chains.                                                    *)

(* What is mined next is a transaction.                                    *)
LEMMA NextTxTyped ==
    ASSUME IInv, NEW n \in Nodes, NEW c \in Chains, Unmined(account[n][c])
    PROVE  /\ account[n][c] \in Accounts /\ Sound(account[n][c], proposed)
           /\ NextTx(account[n][c]) \in Txs /\ NextTx(account[n][c]).block \in Blocks
<1>1. account[n][c] \in Accounts /\ Sound(account[n][c], proposed)
  BY DEF IInv, AccountsOK
<1>2. NextTx(account[n][c]) \in Txs
  BY <1>1 DEF Accounts, Unmined, NextTx
<1>. QED  BY <1>1, <1>2 DEF Txs

(* A transaction is mined, and the contracts do what they do.              *)
LEMMA MineKeeps ==
    ASSUME IInv, NEW n \in Nodes, NEW c \in Chains, NEW ok \in BOOLEAN,
           Unmined(account[n][c]), MineTx(n, c, ok), UNCHANGED <<nodeVars, thread>>,
           ContractsOK', AccountsOK(account, proposed'),
           NextTx(account[n][c]).method = "propose" /\ ok =>
                IsIn(NextTx(account[n][c]).block, proposed'),
           \A b : IsIn(b, proposed) => IsIn(b, proposed'),
           Len(proposed) <= Len(proposed'), Len(agreed) <= Len(agreed')
    PROVE  IInv'
<1>. DEFINE acc == account[n][c]
            new == Mined(acc, ok)
<1>1. acc \in Accounts /\ Sound(acc, proposed')
  BY DEF AccountsOK
<1>2. new \in Accounts /\ Sound(new, proposed') /\ new.pool = acc.pool
  BY <1>1, MinedSound
<1>3. account' = [account EXCEPT ![n][c] = new]
  BY DEF MineTx
<1>4. Len(acc.pool) <= Len(new.pool)
  BY <1>1, <1>2 DEF Accounts
<1>. HIDE DEF new
<1>5. AccountsOK(account', proposed')
  <2>1. AccountsOK([account EXCEPT ![n][c] = new], proposed')
    BY <1>2, AccountChange
  <2>. QED  BY <1>3, <2>1
<1>6. CallsOK(thread, account')
  <2>1. CallsOK(thread, [account EXCEPT ![n][c] = new])
    BY <1>2, <1>4, CallsKept DEF IInv
  <2>. QED  BY <1>3, <2>1
<1>7. UNCHANGED <<number, size, running, passed, heard, thread>>
  BY DEF nodeVars
<1>8. NodesOK'
  BY <1>7, NodesKept DEF IInv
<1>9. HeardOK'
  <2>1. /\ Len(proposed) \in Nat /\ Len(proposed') \in Nat
        /\ Len(agreed) \in Nat /\ Len(agreed') \in Nat
    BY DEF IInv, ContractsOK
  <2>2. \A m \in Nodes : heard[m].proposed \in Nat /\ heard[m].agreed \in Nat
    BY DEF IInv, NodesOK
  <2>. QED  BY <1>7, <2>1, <2>2 DEF IInv, HeardOK
<1>10. NoNumberSkipped'
  <2>1. ASSUME NEW m \in Nodes, NEW k \in 0..(number[m] - 1), k \notin passed[m]
        PROVE  \E i \in DOMAIN proposed' : proposed'[i].by = m /\ proposed'[i].number = k
    <3>1. PICK i \in DOMAIN proposed : proposed[i].by = m /\ proposed[i].number = k
      BY <2>1 DEF IInv, NoNumberSkipped
    <3>2. IsIn(proposed[i], proposed')
      BY DEF IsIn
    <3>. QED  BY <3>1, <3>2 DEF IsIn
  <2>. QED  BY <1>7, <2>1 DEF NoNumberSkipped
<1>11. /\ AccountsOK(account, proposed)' /\ CallsOK(thread, account)'
       /\ Proposes(thread, number, size)'
  BY <1>5, <1>6, <1>7 DEF IInv
<1>. QED  BY <1>8, <1>9, <1>10, <1>11 DEF IInv

(* ... and there is no new event of a proposal.                            *)
LEMMA MineOnly ==
    ASSUME IInv, NEW n \in Nodes, NEW c \in Chains, NEW ok \in BOOLEAN,
           Unmined(account[n][c]), MineTx(n, c, ok),
           UNCHANGED <<nodeVars, thread>>, ContractsOK', proposed' = proposed,
           Len(agreed) <= Len(agreed'), ~(NextTx(account[n][c]).method = "propose" /\ ok)
    PROVE  IInv'
<1>1. AccountsOK(account, proposed') /\ Len(proposed) <= Len(proposed')
  BY DEF IInv, ContractsOK
<1>2. \A b : IsIn(b, proposed) => IsIn(b, proposed')
  OBVIOUS
<1>. QED  BY <1>1, <1>2, MineKeeps

(* A proposal is mined and becomes an event.                               *)
LEMMA MineProposalKeeps ==
    ASSUME IInv, NEW n \in Nodes, MineProposal(n)
    PROVE  IInv'
<1>. DEFINE block == NextTx(account[n]["side"]).block
<1>1. /\ Unmined(account[n]["side"]) /\ MineTx(n, "side", TRUE)
      /\ proposal' = [block |-> block, signers |-> {n}, decided |-> Quorum = 1]
      /\ proposed' = Append(proposed, block)
      /\ agreed' = IF Quorum = 1 THEN Append(agreed, block) ELSE agreed
      /\ UNCHANGED <<nodeVars, thread>> /\ UNCHANGED <<proposer, chain>>
  BY DEF MineProposal, IsNext
<1>2. "side" \in Chains
  BY DEF Chains
<1>3. block \in Blocks /\ proposed \in Seq(Blocks) /\ agreed \in Seq(Blocks)
  BY <1>1, <1>2, NextTxTyped DEF IInv, ContractsOK
<1>. HIDE DEF block
<1>4. /\ proposed' \in Seq(Blocks) /\ agreed' \in Seq(Blocks)
      /\ Len(proposed) <= Len(proposed') /\ Len(agreed) <= Len(agreed')
  BY <1>1, <1>3
<1>5. ContractsOK'
  BY <1>1, <1>3, <1>4 DEF IInv, ContractsOK
<1>6. /\ IsIn(block, proposed')
      /\ \A b : IsIn(b, proposed) => IsIn(b, proposed')
  BY <1>1, <1>3, AppendIsIn
<1>7. AccountsOK(account, proposed')
  <2>1. \A m \in Nodes, c \in Chains : Sound(account[m][c], proposed')
    BY <1>1, <1>3, MoreEvents DEF IInv, AccountsOK
  <2>. QED  BY <2>1 DEF IInv, AccountsOK
<1>. QED  BY <1>1, <1>2, <1>4, <1>5, <1>6, <1>7, MineKeeps DEF block

(* A proposal or a signature is refused.                                   *)
LEMMA MineRevertsKeeps ==
    ASSUME IInv, NEW n \in Nodes, MineProposalReverts(n) \/ MineSignatureReverts(n)
    PROVE  IInv'
<1>1. /\ Unmined(account[n]["side"]) /\ MineTx(n, "side", FALSE)
      /\ UNCHANGED <<nodeVars, thread>> /\ UNCHANGED contractVars
  BY DEF MineProposalReverts, MineSignatureReverts, IsNext
<1>2. ContractsOK' /\ proposed' = proposed /\ Len(agreed) <= Len(agreed')
  BY <1>1, ContractsKept DEF IInv, ContractsOK, contractVars
<1>. QED  BY <1>1, <1>2, MineOnly DEF Chains

(* A signature is mined, and may be the last that was needed.              *)
LEMMA MineSignatureKeeps ==
    ASSUME IInv, NEW n \in Nodes, MineSignature(n)
    PROVE  IInv'
<1>. DEFINE signers == proposal.signers \cup {n}
            enough == Cardinality(signers) >= Quorum
<1>1. /\ Unmined(account[n]["side"]) /\ MineTx(n, "side", TRUE)
      /\ NextTx(account[n]["side"]).method = "sign"
      /\ proposal' = [proposal EXCEPT !.signers = signers, !.decided = enough]
      /\ agreed' = IF enough THEN Append(agreed, proposal.block) ELSE agreed
      /\ UNCHANGED <<nodeVars, thread>> /\ UNCHANGED <<proposer, proposed, chain>>
  BY DEF MineSignature, IsNext
<1>. HIDE DEF enough
<1>2. agreed' \in Seq(Blocks) /\ Len(agreed) <= Len(agreed')
  BY <1>1 DEF IInv, ContractsOK
<1>3. /\ proposal'.block = proposal.block /\ proposal'.signers = signers
      /\ proposal' = [block |-> proposal'.block, signers |-> proposal'.signers,
                      decided |-> proposal'.decided]
  <2>1. proposal = [block |-> proposal.block, signers |-> proposal.signers,
                    decided |-> proposal.decided]
    BY DEF IInv, ContractsOK
  <2>. QED  BY <1>1, <2>1
<1>4. ContractsOK'
  BY <1>1, <1>2, <1>3 DEF IInv, ContractsOK
<1>. QED  BY <1>1, <1>2, <1>4, MineOnly DEF Chains

(* A block is committed.                                                   *)
LEMMA MineCommitKeeps ==
    ASSUME IInv, NEW n \in Nodes, MineCommit(n)
    PROVE  IInv'
<1>1. /\ Unmined(account[n]["main"]) /\ MineTx(n, "main", TRUE)
      /\ NextTx(account[n]["main"]).method = "commit"
      /\ chain' = Append(chain, NextTx(account[n]["main"]).block)
      /\ UNCHANGED <<nodeVars, thread>> /\ UNCHANGED <<proposer, proposal, proposed, agreed>>
  BY DEF MineCommit, IsNext
<1>2. NextTx(account[n]["main"]).block \in Blocks
  BY <1>1, NextTxTyped DEF Chains
<1>3. ContractsOK' /\ Len(agreed) <= Len(agreed')
  BY <1>1, <1>2 DEF IInv, ContractsOK
<1>. QED  BY <1>1, <1>3, MineOnly DEF Chains

(* A commit is refused.                                                    *)
LEMMA MineCommitRevertsKeeps ==
    ASSUME IInv, NEW n \in Nodes, MineCommitReverts(n)
    PROVE  IInv'
<1>1. /\ Unmined(account[n]["main"]) /\ MineTx(n, "main", FALSE)
      /\ UNCHANGED <<nodeVars, thread>> /\ UNCHANGED contractVars
  BY DEF MineCommitReverts, IsNext
<1>2. ContractsOK' /\ proposed' = proposed /\ Len(agreed) <= Len(agreed')
  BY <1>1, ContractsKept DEF IInv, ContractsOK, contractVars
<1>. QED  BY <1>1, <1>2, MineOnly DEF Chains

(* A transaction of the bridge or of the withdraw manager is mined.        *)
LEMMA MineOtherKeeps ==
    ASSUME IInv, NEW n \in Nodes, NEW t \in {"bridge", "withdraw"}, NEW c \in Chains,
           MineOther(n, t, c)
    PROVE  IInv'
<1>1. PICK ok \in BOOLEAN : MineTx(n, c, ok)
  BY DEF MineOther
<1>2. /\ Unmined(account[n][c]) /\ NextTx(account[n][c]).method # "propose"
      /\ UNCHANGED <<nodeVars, thread>> /\ UNCHANGED contractVars
  BY DEF MineOther, IsNext
<1>3. ContractsOK' /\ proposed' = proposed /\ Len(agreed) <= Len(agreed')
  BY <1>2, ContractsKept DEF IInv, ContractsOK, contractVars
<1>. QED  BY <1>1, <1>2, <1>3, MineOnly

(* It is another node's turn.                                              *)
LEMMA RotateProposerKeeps ==
    ASSUME IInv, NEW n \in Nodes, RotateProposer(n)
    PROVE  IInv'
<1>1. /\ proposer' = n /\ UNCHANGED <<proposal, proposed, agreed, chain, thread, account>>
      /\ UNCHANGED <<number, size, running, passed, heard>>
  BY DEF RotateProposer, nodeVars
<1>2. NodesOK' /\ ContractsOK'
  BY <1>1, NodesKept DEF IInv, ContractsOK
<1>3. /\ AccountsOK(account, proposed)' /\ CallsOK(thread, account)'
      /\ Proposes(thread, number, size)'
  BY <1>1 DEF IInv
<1>4. HeardOK' /\ NoNumberSkipped'
  BY <1>1 DEF IInv, HeardOK, NoNumberSkipped
<1>. QED  BY <1>2, <1>3, <1>4 DEF IInv

-----------------------------------------------------------------------------
(* Every step of a node keeps the invariant.                               *)
LEMMA NodeKeeps ==
    ASSUME IInv, NEW n \in Nodes, NodeNext(n)
    PROVE  IInv'
<1>1. CASE Propose(n) \/ PassOver(n) \/ ProposerUnknown(n)
  BY <1>1, ProposeKeeps, PassOverKeeps, ProposerUnknownKeeps
<1>2. CASE ProposeLoop(n)
  BY <1>2, GoOnKeeps, ProposedKeeps DEF ProposeLoop, Threads
<1>3. CASE CommitteeLoop(n)
  BY <1>3, HearProposedKeeps, HearAgreedKeeps, GoOnKeeps, EndsKeep DEF CommitteeLoop, Threads
<1>4. CASE CommitPanics(n) \/ Restart(n)
  BY <1>4, CommitPanicsKeeps, RestartKeeps
<1>5. CASE \E t \in {"bridge", "withdraw"} : OtherCall(n, t) \/ OtherLoop(n, t)
  BY <1>5, OtherCallKeeps, GoOnKeeps, EndsKeep DEF OtherLoop, Threads
<1>6. CASE \E t \in Threads : SendReplaces(n, t) \/ SendErrors(n, t) \/ WaitErrors(n, t)
  BY <1>6, SendReplacesKeeps, ErrorsKeep
<1>7. CASE \E subscriptions \in SUBSET {"proposed", "agreed"} : Drop(n, subscriptions)
  BY <1>7, DropKeeps
<1>8. CASE HearProposedInVain(n) \/ HearAgreedInVain(n)
  BY <1>8, TakenKeeps
<1>. QED  BY <1>1, <1>2, <1>3, <1>4, <1>5, <1>6, <1>7, <1>8 DEF NodeNext

(* Every step does.                                                        *)
LEMMA NextKeeps ==
    ASSUME IInv, [Next]_vars
    PROVE  IInv'
<1>1. CASE UNCHANGED vars
  <2>1. UNCHANGED <<nodeVars, contractVars>> /\ thread' = thread /\ account' = account
    BY <1>1 DEF vars
  <2>2. /\ AccountsOK(account', proposed) /\ CallsOK(thread', account')
        /\ Proposes(thread', number, size)
    BY <2>1 DEF IInv
  <2>. QED  BY <2>1, <2>2, CallsAndAccounts
<1>2. CASE Next
  <2>1. PICK n \in Nodes : \/ NodeNext(n) \/ MineSide(n) \/ MineMain(n)
                          \/ MineCommitReverts(n) \/ RotateProposer(n)
    BY <1>2 DEF Next
  <2>2. CASE NodeNext(n)
    BY <2>2, NodeKeeps
  <2>3. CASE MineSide(n)
    BY <2>3, MineProposalKeeps, MineRevertsKeeps, MineSignatureKeeps, MineOtherKeeps
    DEF MineSide, Chains
  <2>4. CASE MineMain(n)
    BY <2>4, MineCommitKeeps, MineOtherKeeps DEF MineMain, Chains
  <2>5. CASE MineCommitReverts(n) \/ RotateProposer(n)
    BY <2>5, MineCommitRevertsKeeps, RotateProposerKeeps
  <2>. QED  BY <2>1, <2>2, <2>3, <2>4, <2>5
<1>. QED  BY <1>1, <1>2

(* The inductive invariant holds, whatever fails and however often.        *)
THEOREM CommitteeInvariant == Spec => []IInv
<1>1. Init => IInv
  BY InitKeeps
<1>2. IInv /\ [Next]_vars => IInv'
  BY NextKeeps
<1>. QED  BY <1>1, <1>2, PTL DEF Spec

-----------------------------------------------------------------------------
(* What is lost is blocks.                                                 *)

LostOK == lost \subseteq Blocks

(* A transaction takes at most its own block with it.                      *)
LEMMA LostWithTyped ==
    ASSUME NEW n, NEW tx \in Txs \cup {NoTx}
    PROVE  LostWith(n, tx) \subseteq Blocks
BY DEF LostWith, Txs, NoTx

(* The events a node has not taken are of blocks.                          *)
LEMMA ToHearTyped ==
    ASSUME IInv, NEW n \in Nodes
    PROVE  ProposalsToHear(n) \subseteq Blocks /\ AgreementsToHear(n) \subseteq Blocks
<1>1. /\ proposed \in Seq(Blocks) /\ agreed \in Seq(Blocks)
      /\ heard[n].proposed \in Nat /\ heard[n].agreed \in Nat
  BY DEF IInv, ContractsOK, NodesOK
<1>2. ASSUME NEW i \in (heard[n].proposed + 1)..Len(proposed) PROVE proposed[i] \in Blocks
  <2>1. i \in DOMAIN proposed
    BY <1>1
  <2>. QED  BY <1>1, <2>1
<1>3. ASSUME NEW i \in (heard[n].agreed + 1)..Len(agreed) PROVE agreed[i] \in Blocks
  <2>1. i \in DOMAIN agreed
    BY <1>1
  <2>. QED  BY <1>1, <2>1
<1>. QED  BY <1>2, <1>3 DEF ProposalsToHear, AgreementsToHear

(* What a node can lose.                                                   *)
LEMMA NodeLoses ==
    ASSUME IInv, LostOK, NEW n \in Nodes, NodeNext(n)
    PROVE  LostOK'
<1>1. ASSUME NEW t \in Threads PROVE LostWith(n, thread[n][t].tx) \subseteq Blocks
  <2>1. thread[n][t].tx \in Txs \cup {NoTx}
    BY DEF IInv, CallsOK, Calls
  <2>. QED  BY <2>1, LostWithTyped
<1>2. ASSUME NEW t \in Threads, SendFails(n, t) \/ SendErrors(n, t)
      PROVE  LostOK'
  <2>1. lost' = lost \cup LostWith(n, thread[n][t].tx)
    BY <1>2 DEF SendFails, SendErrors
  <2>. QED  BY <1>1, <2>1 DEF LostOK
<1>3. ASSUME NEW t \in Threads, SendReplaces(n, t)
      PROVE  LostOK'
  <2>. DEFINE acc == account[n][ChainOf(thread[n][t].tx)]
              i == thread[n][t].nonce + 1
  <2>1. lost' = lost \cup LostWith(n, acc.pool[i]) /\ Replaceable(acc, thread[n][t].nonce)
    BY <1>3 DEF SendReplaces
  <2>2. acc.pool \in Seq(Txs) /\ thread[n][t].nonce \in Nat
    BY ChainOfTx DEF IInv, AccountsOK, Accounts, CallsOK, Calls
  <2>. DEFINE nonce == thread[n][t].nonce
              pool == acc.pool
  <2>3. nonce \in Nat /\ nonce < Len(pool) /\ pool \in Seq(Txs) /\ i = nonce + 1
    BY <2>1, <2>2 DEF Replaceable
  <2>. HIDE DEF nonce, pool, i
  <2>4. i \in DOMAIN pool
    BY <2>3
  <2>. USE DEF pool
  <2>5. acc.pool[i] \in Txs \cup {NoTx}
    BY <2>3, <2>4
  <2>6. LostWith(n, acc.pool[i]) \subseteq Blocks
    BY <2>5, LostWithTyped
  <2>. QED  BY <2>1, <2>6 DEF LostOK
<1>4. ASSUME HearProposedInVain(n) PROVE LostOK'
  <2>. DEFINE tx == Tx("sign", proposed[heard[n].proposed + 1])
  <2>1. lost' = lost \cup LostWith(n, tx) /\ heard[n].proposed < Len(proposed)
    BY <1>4 DEF HearProposedInVain
  <2>2. heard[n].proposed + 1 \in DOMAIN proposed /\ proposed \in Seq(Blocks)
    BY <2>1 DEF IInv, ContractsOK, NodesOK
  <2>3. tx \in Txs \cup {NoTx}
    BY <2>2 DEF Tx, Txs, Methods
  <2>4. LostWith(n, tx) \subseteq Blocks
    BY <2>3, LostWithTyped
  <2>. QED  BY <2>1, <2>4 DEF LostOK
<1>5. ASSUME HearAgreedInVain(n) PROVE LostOK'
  <2>1. lost' \subseteq lost \cup {agreed[heard[n].agreed + 1]} /\ heard[n].agreed < Len(agreed)
    BY <1>5 DEF HearAgreedInVain
  <2>2. heard[n].agreed + 1 \in DOMAIN agreed /\ agreed \in Seq(Blocks)
    BY <2>1 DEF IInv, ContractsOK, NodesOK
  <2>. QED  BY <2>1, <2>2 DEF LostOK
<1>6. ASSUME Restart(n) PROVE LostOK'
  <2>1. lost' = lost \cup ProposalsToHear(n) \cup AgreementsToHear(n) \cup LostUnsent(n)
    BY <1>6 DEF Restart
  <2>2. LostUnsent(n) \subseteq Blocks
    BY <1>1 DEF LostUnsent, Threads
  <2>. QED  BY <2>1, <2>2, ToHearTyped DEF LostOK
<1>7. ASSUME \/ Propose(n) \/ PassOver(n) \/ ProposerUnknown(n) \/ Proposed(n)
             \/ HearProposed(n) \/ HearAgreed(n) \/ Handled(n) \/ CommitPanics(n)
             \/ \E t \in Threads : \/ Send(n, t) \/ WaitReverted(n, t) \/ WaitErrors(n, t)
                                  \/ OtherCall(n, t) \/ OtherDone(n, t)
             \/ \E subscriptions : Drop(n, subscriptions)
      PROVE  LostOK'
  <2>1. UNCHANGED lost
    BY <1>7 DEF Propose, PassOver, ProposerUnknown, Proposed, HearProposed, HearAgreed,
                Handled, CommitPanics, Send, WaitReverted, WaitErrors, OtherCall, OtherDone, Drop
  <2>. QED  BY <2>1 DEF LostOK
<1>8. "propose" \in Threads /\ "committee" \in Threads /\ {"bridge", "withdraw"} \subseteq Threads
  BY DEF Threads
<1>. QED  BY <1>2, <1>3, <1>4, <1>5, <1>6, <1>7, <1>8
          DEF NodeNext, ProposeLoop, CommitteeLoop, OtherLoop, GoOn

(* What the contracts can.                                                 *)
LEMMA ChainsLose ==
    ASSUME IInv, LostOK, NEW n \in Nodes,
           MineSide(n) \/ MineMain(n) \/ MineCommitReverts(n) \/ RotateProposer(n)
    PROVE  LostOK'
<1>1. ASSUME MineProposal(n) PROVE LostOK'
  <2>1. lost' \subseteq lost \cup {proposal.block} /\ proposal.block \in Blocks
    BY <1>1 DEF MineProposal, IInv, ContractsOK
  <2>. QED  BY <2>1 DEF LostOK
<1>2. ASSUME MineCommitReverts(n) PROVE LostOK'
  <2>1. /\ lost' = lost \cup {NextTx(account[n]["main"]).block}
        /\ Unmined(account[n]["main"])
    BY <1>2 DEF MineCommitReverts, IsNext
  <2>2. NextTx(account[n]["main"]).block \in Blocks
    BY <2>1, NextTxTyped DEF Chains
  <2>. QED  BY <2>1, <2>2 DEF LostOK
<1>3. ASSUME RotateProposer(n) PROVE LostOK'
  <2>1. lost' \subseteq lost \cup ProposalsToHear(n)
    BY <1>3 DEF RotateProposer
  <2>. QED  BY <2>1, ToHearTyped DEF LostOK
<1>4. ASSUME \/ MineProposalReverts(n) \/ MineSignature(n) \/ MineSignatureReverts(n)
             \/ MineCommit(n) \/ MineOther(n, "bridge", "side")
             \/ MineOther(n, "withdraw", "main")
      PROVE  LostOK'
  <2>1. UNCHANGED lost
    BY <1>4 DEF MineProposalReverts, MineSignature, MineSignatureReverts, MineCommit, MineOther
  <2>. QED  BY <2>1 DEF LostOK
<1>. QED  BY <1>1, <1>2, <1>3, <1>4 DEF MineSide, MineMain

(* No step loses anything else.                                            *)
LEMMA LostKept ==
    ASSUME IInv, LostOK, [Next]_vars
    PROVE  LostOK'
<1>1. CASE UNCHANGED vars
  BY <1>1 DEF vars, LostOK
<1>2. CASE Next
  BY <1>2, NodeLoses, ChainsLose DEF Next
<1>. QED  BY <1>1, <1>2

(* No goroutine has taken an event that did not happen, no receipt is of a *)
(* transaction that was not sent, and what a node waits for is a proposal  *)
(* of its whole pending block, for any nodes, quorum and failures.         *)
THEOREM CommitteeTypes == Spec => []TypeOK
<1>1. IInv /\ LostOK => TypeOK
  <2>. SUFFICES ASSUME IInv, LostOK PROVE TypeOK
    OBVIOUS
  <2>1. /\ NodesOK /\ ContractsOK /\ HeardOK
        /\ AccountsOK(account, proposed) /\ CallsOK(thread, account)
        /\ Proposes(thread, number, size)
    BY DEF IInv
  <2>2. ASSUME NEW n \in Nodes
        PROVE  heard[n].proposed \in 0..Len(proposed) /\ heard[n].agreed \in 0..Len(agreed)
    BY <2>1 DEF NodesOK, ContractsOK, HeardOK
  <2>3. ASSUME NEW n \in Nodes, NEW c \in {"side", "main"}
        PROVE  Len(account[n][c].receipts) <= Len(account[n][c].pool)
    BY <2>1 DEF AccountsOK, Sound, Chains
  <2>4. ASSUME NEW n \in Nodes, thread[n]["propose"].at # "idle"
        PROVE  thread[n]["propose"].tx = Tx("propose", Pending(n, size[n]))
    BY <2>1, <2>4 DEF Proposes, Proposal, Pending
  <2>5. ASSUME NEW n \in Nodes, NEW t \in Threads, thread[n][t].at # "idle"
        PROVE  thread[n][t].nonce <= Len(account[n][ChainOf(thread[n][t].tx)].pool)
    BY <2>1, <2>5 DEF CallsOK, CallOK
  <2>6. /\ number \in [Nodes -> Nat] /\ size \in [Nodes -> Nat]
        /\ running \in [Nodes -> BOOLEAN] /\ proposer \in Nodes
        /\ proposed \in Seq(Blocks) /\ agreed \in Seq(Blocks) /\ chain \in Seq(Blocks)
        /\ proposal.block \in Blocks /\ proposal.signers \subseteq Nodes
    BY <2>1 DEF NodesOK, ContractsOK
  <2>. QED  BY <2>2, <2>3, <2>4, <2>5, <2>6 DEF TypeOK, LostOK
<1>2. Init => LostOK
  BY DEF Init, LostOK
<1>3. IInv /\ LostOK /\ [Next]_vars => LostOK'
  BY LostKept
<1>. QED  BY <1>1, <1>2, <1>3, CommitteeInvariant, PTL DEF Spec

(* A node goes on to its next block number only when its proposal of this  *)
(* one made an event, or it was not the proposer, for any nodes, quorum    *)
(* and failures.                                                           *)
THEOREM NumbersAccounted == Spec => []NoNumberSkipped
<1>1. IInv => NoNumberSkipped
  BY DEF IInv
<1>. QED  BY <1>1, CommitteeInvariant, PTL

-----------------------------------------------------------------------------
(* Order.  A proposer has one proposal under way at a time, and a          *)
(* committer one commit: the goroutine that sent it waits for its receipt, *)
(* whatever the other goroutines do with the account.  So the number of a  *)
(* proposal that is still to be mined, and of a commit, is known from the  *)
(* state of that goroutine.                                                *)

Ascending(events) ==
    \A i, j \in DOMAIN events : i < j => events[i].number < events[j].number

Below(events, k) == \A i \in DOMAIN events : events[i].number < k

(* The transactions of a method that are sent and not mined.               *)
Open(acc, m) ==
    { i \in DOMAIN acc.pool : i \notin DOMAIN acc.receipts /\ acc.pool[i].method = m }

(* The call waits for the receipt of transaction i.                        *)
InCall(call, acc, i) == call.at = "waiting" /\ i = call.nonce + 1 /\ acc.pool[i] = call.tx

(* At most one is open, it is of a good block, and while the process lives *)
(* its call waits for it; what is about to be sent is of a good block too. *)
Serial(acc, call, m, alive, good) ==
    /\ \A i, j \in Open(acc, m) : i = j
    /\ \A i \in Open(acc, m) : acc.pool[i].block \in good /\ (alive => InCall(call, acc, i))
    /\ call.at = "sending" /\ call.tx.method = m => call.tx.block \in good

(* The call does not wait for a transaction of the method that is open.    *)
Settled(call, acc, m) ==
    call.at = "waiting" => call.tx.method # m \/ HasReceipt(call, acc)

(* The call has heard of success.                                          *)
Told(call, acc) == HasReceipt(call, acc) /\ Status(call, acc)

Shaped(acc) == acc \in Accounts /\ Len(acc.receipts) <= Len(acc.pool)

(* What the places of an account are.                                      *)
LEMMA ShapeOf ==
    ASSUME NEW acc, Shaped(acc)
    PROVE  /\ DOMAIN acc.receipts \subseteq DOMAIN acc.pool
           /\ Len(acc.pool) \in Nat /\ Len(acc.receipts) \in Nat
           /\ \A i \in DOMAIN acc.pool : i \in Nat /\ acc.pool[i] \in Txs
           /\ \A i : i \in DOMAIN acc.receipts <=> i \in Nat /\ 1 <= i /\ i <= Len(acc.receipts)
<1>1. /\ acc.pool \in Seq(Txs) /\ acc.receipts \in Seq(BOOLEAN)
      /\ Len(acc.receipts) <= Len(acc.pool)
    BY DEF Shaped, Accounts
<1>. QED  BY <1>1

(* A transaction takes a place that is not mined.                          *)
Placed(new, acc, p, tx) ==
    /\ new.receipts = acc.receipts
    /\ p \notin DOMAIN acc.receipts
    /\ DOMAIN new.pool = DOMAIN acc.pool \cup {p}
    /\ new.pool[p] = tx
    /\ \A i \in DOMAIN acc.pool : i # p => new.pool[i] = acc.pool[i]

(* Sending with a nonce nobody used places it behind the others.           *)
LEMMA SentPlaced ==
    ASSUME NEW acc, Shaped(acc), NEW tx \in Txs
    PROVE  Placed(Sent(acc, tx), acc, Len(acc.pool) + 1, tx)
<1>. DEFINE pool == Append(acc.pool, tx)
<1>1. /\ acc.pool \in Seq(Txs)
      /\ Sent(acc, tx).pool = pool /\ Sent(acc, tx).receipts = acc.receipts
    BY DEF Shaped, Accounts, Sent
<1>2. /\ DOMAIN pool = 1..(Len(acc.pool) + 1) /\ DOMAIN acc.pool = 1..Len(acc.pool)
      /\ Len(acc.pool) \in Nat
      /\ pool[Len(acc.pool) + 1] = tx
      /\ \A i \in DOMAIN acc.pool : pool[i] = acc.pool[i]
    BY <1>1
<1>3. Len(acc.pool) + 1 \notin DOMAIN acc.receipts
    BY ShapeOf DEF Shaped
<1>. HIDE DEF pool
<1>4. DOMAIN pool = DOMAIN acc.pool \cup {Len(acc.pool) + 1}
    BY <1>2
<1>. QED  BY <1>1, <1>2, <1>3, <1>4 DEF Placed

(* Sending with a nonce that is used but not mined takes that place.       *)
LEMMA ReplacedPlaced ==
    ASSUME NEW acc, Shaped(acc), NEW tx \in Txs, NEW nonce \in Nat, Replaceable(acc, nonce)
    PROVE  Placed(Replaced(acc, nonce, tx), acc, nonce + 1, tx)
<1>. DEFINE pool == [acc.pool EXCEPT ![nonce + 1] = tx]
<1>1. /\ acc.pool \in Seq(Txs)
      /\ Replaced(acc, nonce, tx).pool = pool
      /\ Replaced(acc, nonce, tx).receipts = acc.receipts
      /\ nonce + 1 \in DOMAIN acc.pool
    BY DEF Shaped, Accounts, Replaced, Replaceable
<1>2. /\ DOMAIN pool = DOMAIN acc.pool /\ pool[nonce + 1] = tx
      /\ \A i \in DOMAIN acc.pool : i # nonce + 1 => pool[i] = acc.pool[i]
    BY <1>1
<1>3. nonce + 1 \notin DOMAIN acc.receipts
    BY ShapeOf DEF Replaceable
<1>. HIDE DEF pool
<1>. QED  BY <1>1, <1>2, <1>3 DEF Placed

(* The next transaction gets a receipt.                                    *)
MinedAt(new, acc, p, ok) ==
    /\ new.pool = acc.pool
    /\ p \in DOMAIN acc.pool /\ p \notin DOMAIN acc.receipts
    /\ DOMAIN new.receipts = DOMAIN acc.receipts \cup {p}
    /\ new.receipts[p] = ok
    /\ \A i \in DOMAIN acc.receipts : new.receipts[i] = acc.receipts[i]
    /\ NextTx(acc) = acc.pool[p]

(* Mining is that, for the transaction that was next.                      *)
LEMMA MinedIsAt ==
    ASSUME NEW acc, Shaped(acc), NEW ok \in BOOLEAN, Unmined(acc)
    PROVE  MinedAt(Mined(acc, ok), acc, Len(acc.receipts) + 1, ok)
<1>. DEFINE receipts == Append(acc.receipts, ok)
            p == Len(acc.receipts) + 1
<1>1. /\ acc.pool \in Seq(Txs) /\ acc.receipts \in Seq(BOOLEAN)
      /\ Mined(acc, ok).pool = acc.pool /\ Mined(acc, ok).receipts = receipts
      /\ Len(acc.receipts) < Len(acc.pool)
      /\ NextTx(acc) = acc.pool[p]
    BY DEF Shaped, Accounts, Mined, Unmined, NextTx
<1>2. /\ receipts[p] = ok
      /\ \A i \in DOMAIN acc.receipts : receipts[i] = acc.receipts[i]
      /\ DOMAIN receipts = 1..p /\ DOMAIN acc.receipts = 1..Len(acc.receipts)
      /\ Len(acc.receipts) \in Nat
      /\ p \in DOMAIN acc.pool /\ p \notin DOMAIN acc.receipts
    BY <1>1
<1>3. 1..p = 1..Len(acc.receipts) \cup {p}
    BY <1>2
<1>. HIDE DEF receipts, p
<1>4. DOMAIN receipts = DOMAIN acc.receipts \cup {p}
    BY <1>2, <1>3
<1>. QED  BY <1>1, <1>2, <1>4 DEF MinedAt, p

(* There are no more receipts than transactions.                           *)
LEMMA MinedShaped ==
    ASSUME NEW acc, Shaped(acc), NEW ok \in BOOLEAN, Unmined(acc)
    PROVE  Shaped(Mined(acc, ok))
<1>1. /\ acc \in Accounts /\ acc.pool \in Seq(Txs) /\ acc.receipts \in Seq(BOOLEAN)
      /\ Len(acc.receipts) < Len(acc.pool)
    BY DEF Shaped, Accounts, Unmined
<1>2. /\ Append(acc.receipts, ok) \in Seq(BOOLEAN)
      /\ Len(Append(acc.receipts, ok)) <= Len(acc.pool)
    BY <1>1
<1>3. /\ Mined(acc, ok) \in Accounts
      /\ Mined(acc, ok).pool = acc.pool /\ Mined(acc, ok).receipts = Append(acc.receipts, ok)
    BY <1>1, <1>2 DEF Accounts, Mined
<1>. QED  BY <1>2, <1>3 DEF Shaped

(* While a process lives and its call does not wait for a transaction that *)
(* is open, none is.                                                       *)
LEMMA NothingOpen ==
    ASSUME NEW acc, Shaped(acc), NEW call \in Calls, NEW m, NEW good,
           Serial(acc, call, m, TRUE, good), Settled(call, acc, m)
    PROVE  Open(acc, m) = {}
<1>. SUFFICES ASSUME NEW i \in Open(acc, m) PROVE FALSE
    OBVIOUS
<1>1. InCall(call, acc, i) /\ i \notin DOMAIN acc.receipts /\ acc.pool[i].method = m
    BY DEF Serial, Open
<1>2. call.tx.method = m /\ HasReceipt(call, acc)
    BY <1>1 DEF InCall, Settled
<1>3. call.nonce \in Nat /\ i = call.nonce + 1 /\ call.nonce < Len(acc.receipts)
    BY <1>1, <1>2 DEF InCall, HasReceipt, Calls
<1>. QED  BY <1>1, <1>3, ShapeOf

(* When none is open, any call will do that sends nothing bad.             *)
LEMMA NoneOpen ==
    ASSUME NEW acc, NEW call, NEW m, NEW alive, NEW good, Open(acc, m) = {},
           call.at = "sending" /\ call.tx.method = m => call.tx.block \in good
    PROVE  Serial(acc, call, m, alive, good)
BY DEF Serial

(* Another goroutine sends something else.                                 *)
LEMMA OtherPlaced ==
    ASSUME NEW acc, NEW new, NEW p, NEW tx, Placed(new, acc, p, tx),
           NEW call, NEW m, NEW alive, NEW good,
           Serial(acc, call, m, alive, good), tx.method # m
    PROVE  Serial(new, call, m, alive, good)
<1>1. ASSUME NEW i \in Open(new, m)
      PROVE  i \in Open(acc, m) /\ new.pool[i] = acc.pool[i]
    BY <1>1 DEF Open, Placed
<1>2. ASSUME NEW i \in Open(new, m), alive PROVE InCall(call, new, i)
    BY <1>1, <1>2 DEF Serial, InCall
<1>. QED  BY <1>1, <1>2 DEF Serial

(* The goroutine itself sends, and waits.                                  *)
LEMMA OwnPlaced ==
    ASSUME NEW acc, Shaped(acc), NEW new, NEW call \in Calls, call.at = "sending",
           Placed(new, acc, call.nonce + 1, call.tx),
           NEW m, NEW good, Serial(acc, call, m, TRUE, good)
    PROVE  Serial(new, Waiting(call), m, TRUE, good)
<1>1. Open(acc, m) = {}
    BY NothingOpen DEF Settled
<1>2. /\ Waiting(call).at = "waiting" /\ Waiting(call).tx = call.tx
      /\ Waiting(call).nonce = call.nonce
    BY DEF Waiting, Calls
<1>3. ASSUME NEW i \in Open(new, m)
      PROVE  i = call.nonce + 1 /\ new.pool[i] = call.tx /\ call.tx.method = m
  <2>1. /\ i \in DOMAIN acc.pool \cup {call.nonce + 1} /\ i \notin DOMAIN acc.receipts
        /\ new.pool[i].method = m
      BY DEF Open, Placed
  <2>2. CASE i = call.nonce + 1
      BY <2>1, <2>2 DEF Placed
  <2>3. CASE i # call.nonce + 1
    <3>1. i \in Open(acc, m)
        BY <2>1, <2>3 DEF Open, Placed
    <3>. QED  BY <1>1, <3>1
  <2>. QED  BY <2>2, <2>3
<1>4. ASSUME NEW i \in Open(new, m)
      PROVE  new.pool[i].block \in good /\ InCall(Waiting(call), new, i)
    BY <1>2, <1>3 DEF Serial, InCall
<1>. QED  BY <1>2, <1>3, <1>4 DEF Serial

(* Something is mined.                                                     *)
LEMMA MinedSerial ==
    ASSUME NEW acc, NEW new, NEW p, NEW ok, MinedAt(new, acc, p, ok),
           NEW call, NEW m, NEW alive, NEW good, Serial(acc, call, m, alive, good)
    PROVE  /\ Serial(new, call, m, alive, good)
           /\ acc.pool[p].method = m =>
                 /\ Open(new, m) = {} /\ acc.pool[p].block \in good
                 /\ alive => InCall(call, acc, p)
<1>1. ASSUME NEW i \in Open(new, m)
      PROVE  i \in Open(acc, m) /\ new.pool[i] = acc.pool[i] /\ i # p
    BY <1>1 DEF Open, MinedAt
<1>2. ASSUME NEW i \in Open(new, m), alive PROVE InCall(call, new, i)
    BY <1>1, <1>2 DEF Serial, InCall
<1>3. Serial(new, call, m, alive, good)
    BY <1>1, <1>2 DEF Serial
<1>4. ASSUME acc.pool[p].method = m
      PROVE  /\ Open(new, m) = {} /\ acc.pool[p].block \in good
             /\ alive => InCall(call, acc, p)
  <2>1. p \in Open(acc, m)
      BY <1>4 DEF Open, MinedAt
  <2>2. Open(new, m) = {}
      BY <1>1, <2>1 DEF Serial
  <2>. QED  BY <2>1, <2>2 DEF Serial
<1>. QED  BY <1>3, <1>4

(* A process that ends leaves open what was open.                          *)
LEMMA DeadSerial ==
    ASSUME NEW acc, NEW call, NEW m, NEW alive, NEW good, Serial(acc, call, m, alive, good)
    PROVE  Serial(acc, Idle, m, FALSE, good)
BY DEF Serial, Idle

(* What a call has heard of stays in the account.                          *)
LEMMA ToldStays ==
    ASSUME NEW acc, Shaped(acc), NEW new, NEW p, NEW tx, NEW ok, NEW call \in Calls,
           Placed(new, acc, p, tx) \/ (MinedAt(new, acc, p, ok) /\ Shaped(new)),
           Told(call, acc)
    PROVE  Told(call, new)
<1>. DEFINE i == call.nonce + 1
<1>1. /\ call.at = "waiting" /\ call.nonce < Len(acc.receipts)
      /\ acc.pool[i] = call.tx /\ acc.receipts[i] /\ call.nonce \in Nat
    BY DEF Told, HasReceipt, Status, Calls
<1>2. i \in DOMAIN acc.receipts /\ i \in DOMAIN acc.pool
  <2>1. i \in DOMAIN acc.receipts
      BY <1>1, ShapeOf
  <2>. QED  BY <2>1, ShapeOf
<1>3. CASE Placed(new, acc, p, tx)
  <2>1. new.receipts = acc.receipts /\ new.pool[i] = acc.pool[i]
      BY <1>2, <1>3 DEF Placed
  <2>. QED  BY <1>1, <2>1 DEF Told, HasReceipt, Status
<1>4. CASE MinedAt(new, acc, p, ok) /\ Shaped(new)
  <2>1. new.pool = acc.pool /\ i \in DOMAIN new.receipts /\ new.receipts[i] = acc.receipts[i]
      BY <1>2, <1>4 DEF MinedAt
  <2>2. call.nonce < Len(new.receipts)
    <3>1. i <= Len(new.receipts) /\ Len(new.receipts) \in Nat
        BY <1>4, <2>1, ShapeOf
    <3>. QED  BY <1>1, <3>1
  <2>. QED  BY <1>1, <2>1, <2>2 DEF Told, HasReceipt, Status
<1>. QED  BY <1>3, <1>4

(* A call whose transaction is mined with success has heard of it.         *)
LEMMA ToldNow ==
    ASSUME NEW acc, NEW new, Shaped(new), NEW p, MinedAt(new, acc, p, TRUE),
           NEW call \in Calls, InCall(call, acc, p)
    PROVE  Told(call, new)
<1>1. /\ call.at = "waiting" /\ p = call.nonce + 1 /\ call.nonce \in Nat
      /\ new.pool[p] = call.tx /\ p \in DOMAIN new.receipts /\ new.receipts[p]
    BY DEF InCall, MinedAt, Calls
<1>2. p <= Len(new.receipts) /\ Len(new.receipts) \in Nat
    BY <1>1, ShapeOf
<1>3. call.nonce < Len(new.receipts)
    BY <1>1, <1>2
<1>. QED  BY <1>1, <1>3 DEF Told, HasReceipt, Status

-----------------------------------------------------------------------------
(* What a step does to the goroutines and accounts, one by one.            *)

CallNow(n, t, call) ==
    \A x \in Nodes, u \in Threads :
        thread'[x][u] = IF x = n /\ u = t THEN call ELSE thread[x][u]

AccountNow(n, c, acc) ==
    \A x \in Nodes, d \in Chains :
        account'[x][d] = IF x = n /\ d = c THEN acc ELSE account[x][d]

SameCalls == \A x \in Nodes, u \in Threads : thread'[x][u] = thread[x][u]
SameAccounts == \A x \in Nodes, d \in Chains : account'[x][d] = account[x][d]

(* The types the invariant gives them.                                     *)
LEMMA PartsTyped ==
    ASSUME IInv
    PROVE  /\ \A n \in Nodes, t \in Threads : thread[n][t] \in Calls
           /\ \A n \in Nodes, t \in Threads : thread[n][t].at # "idle" => thread[n][t].tx \in Txs
           /\ \A n \in Nodes, c \in Chains : Shaped(account[n][c])
BY DEF IInv, CallsOK, CallOK, AccountsOK, Sound, Shaped

(* One call is replaced.                                                   *)
LEMMA CallReplaced ==
    ASSUME IInv, NEW n \in Nodes, NEW t \in Threads, NEW call,
           thread' = [thread EXCEPT ![n][t] = call]
    PROVE  CallNow(n, t, call)
<1>1. thread \in [Nodes -> [Threads -> Calls]]
    BY DEF IInv, CallsOK
<1>. QED  BY <1>1 DEF CallNow

(* One account is replaced.                                                *)
LEMMA AccountReplaced ==
    ASSUME IInv, NEW n \in Nodes, NEW c \in Chains, NEW acc,
           account' = [account EXCEPT ![n][c] = acc]
    PROVE  AccountNow(n, c, acc)
<1>1. account \in [Nodes -> [Chains -> Accounts]]
    BY DEF IInv, AccountsOK
<1>. QED  BY <1>1 DEF AccountNow

(* A goroutine sends: its transaction takes the place of its nonce, and it *)
(* waits.                                                                  *)
Sends(n, t) ==
    LET call == thread[n][t]
        c    == ChainOf(call.tx)
    IN  /\ call.at = "sending"
        /\ CallNow(n, t, Waiting(call))
        /\ \E new : /\ Placed(new, account[n][c], call.nonce + 1, call.tx)
                    /\ AccountNow(n, c, new)
        /\ UNCHANGED <<nodeVars, contractVars>>

(* Both ways of sending are.                                               *)
LEMMA SendSends ==
    ASSUME IInv, NEW n \in Nodes, NEW t \in Threads, Send(n, t) \/ SendReplaces(n, t)
    PROVE  Sends(n, t)
<1>. DEFINE call == thread[n][t]
            c == ChainOf(call.tx)
            acc == account[n][c]
<1>1. call.at = "sending" /\ c \in Chains /\ UNCHANGED <<nodeVars, contractVars>>
    BY ChainOfTx DEF Send, SendReplaces
<1>2. Shaped(acc) /\ call.tx \in Txs /\ call.nonce \in Nat
    BY <1>1, PartsTyped DEF Calls
<1>3. CallNow(n, t, Waiting(call))
  <2>1. thread' = [thread EXCEPT ![n][t] = Waiting(call)]
      BY DEF Send, SendReplaces
  <2>. QED  BY <2>1, CallReplaced
<1>4. CASE Send(n, t)
  <2>1. account' = [account EXCEPT ![n][c] = Sent(acc, call.tx)] /\ call.nonce = Len(acc.pool)
      BY <1>4 DEF Send, Fresh
  <2>2. AccountNow(n, c, Sent(acc, call.tx))
      BY <1>1, <2>1, AccountReplaced
  <2>3. Placed(Sent(acc, call.tx), acc, call.nonce + 1, call.tx)
      BY <1>2, <2>1, SentPlaced
  <2>. QED  BY <1>1, <1>3, <2>2, <2>3 DEF Sends
<1>5. CASE SendReplaces(n, t)
  <2>1. /\ account' = [account EXCEPT ![n][c] = Replaced(acc, call.nonce, call.tx)]
        /\ Replaceable(acc, call.nonce)
      BY <1>5 DEF SendReplaces
  <2>2. AccountNow(n, c, Replaced(acc, call.nonce, call.tx))
      BY <1>1, <2>1, AccountReplaced
  <2>3. Placed(Replaced(acc, call.nonce, call.tx), acc, call.nonce + 1, call.tx)
      BY <1>2, <2>1, ReplacedPlaced
  <2>. QED  BY <1>1, <1>3, <2>2, <2>3 DEF Sends
<1>. QED  BY <1>4, <1>5

(* A goroutine is done with its call.                                      *)
Ends(n, t) ==
    /\ CallNow(n, t, Idle)
    /\ SameAccounts
    /\ thread[n][t].at = "sending" \/ Receipt(n, t)
    /\ UNCHANGED running

(* A call ends when it fails, reverts, or is mined.                        *)
LEMMA ReturnEnds ==
    ASSUME IInv, NEW n \in Nodes, NEW t \in Threads, Return(n, t), UNCHANGED <<account, running>>,
           thread[n][t].at = "sending" \/ Receipt(n, t)
    PROVE  Ends(n, t)
<1>1. CallNow(n, t, Idle)
    BY CallReplaced DEF Return
<1>. QED  BY <1>1 DEF Ends, SameAccounts

(* A chain mines a transaction of a node.                                  *)
Mines(n, c, ok) ==
    /\ SameCalls
    /\ \E new, p : /\ MinedAt(new, account[n][c], p, ok) /\ Shaped(new)
                   /\ AccountNow(n, c, new)
    /\ UNCHANGED running

LEMMA MineTxMines ==
    ASSUME IInv, NEW n \in Nodes, NEW c \in Chains, NEW ok \in BOOLEAN,
           Unmined(account[n][c]), MineTx(n, c, ok), UNCHANGED <<thread, running>>
    PROVE  Mines(n, c, ok)
<1>. DEFINE acc == account[n][c]
            new == Mined(acc, ok)
<1>1. Shaped(acc)
    BY PartsTyped
<1>2. MinedAt(new, acc, Len(acc.receipts) + 1, ok)
    BY <1>1, MinedIsAt
<1>3. AccountNow(n, c, new)
    BY AccountReplaced DEF MineTx
<1>4. Shaped(new)
    BY <1>1, MinedShaped
<1>5. SameCalls
    BY DEF SameCalls
<1>. QED  BY <1>2, <1>3, <1>4, <1>5 DEF Mines

-----------------------------------------------------------------------------
(* Each goroutine sends what is its own, while its process lives, and only *)
(* the committer commits.                                                  *)

MethodsOf(t) == IF t = "committee" THEN {"sign", "commit"} ELSE {t}

OwnCall(n, t, call, alive) ==
    call.at # "idle" =>
        /\ alive
        /\ call.tx.method \in MethodsOf(t)
        /\ call.tx.method = "commit" => n = Committer

OwnPool(n, acc) ==
    \A i \in DOMAIN acc.pool : acc.pool[i].method = "commit" => n = Committer

OwnInv ==
    /\ \A n \in Nodes, t \in Threads : OwnCall(n, t, thread[n][t], running[n])
    /\ \A n \in Nodes, c \in Chains : OwnPool(n, account[n][c])

(* Two goroutines whose transactions come one after the other: the one     *)
(* that proposes and the one that commits.                                 *)
Role(t, c, m) ==
    \/ t = "propose" /\ c = "side" /\ m = "propose"
    \/ t = "committee" /\ c = "main" /\ m = "commit"

(* No other goroutine has their methods.                                   *)
LEMMA RoleAlone ==
    ASSUME NEW t, NEW c, NEW m, Role(t, c, m)
    PROVE  /\ t \in Threads /\ c \in Chains
           /\ \A u \in Threads : u # t => m \notin MethodsOf(u)
           /\ \A tx : tx.method = m => ChainOf(tx) = c
BY DEF Role, Threads, Chains, MethodsOf, ChainOf

(* A step leaves the transactions of these goroutines in order, and what   *)
(* the one that proposes has heard of.                                     *)
SerialKept(x, t, c, m) ==
    \A good : Serial(account[x][c], thread[x][t], m, running[x], good)
                => Serial(account'[x][c], thread'[x][t], m, running'[x], good)

RolesKept == \A x \in Nodes : \A t, c, m : Role(t, c, m) => SerialKept(x, t, c, m)

ToldKept(x) ==
    Told(thread[x]["propose"], account[x]["side"])
        => Told(thread'[x]["propose"], account'[x]["side"])

(* Nothing is open when the goroutine is between two calls, sends, waits   *)
(* for something else, or has a receipt.                                   *)
LEMMA RoleSettled ==
    ASSUME IInv, OwnInv, NEW x \in Nodes, NEW t, NEW c, NEW m, Role(t, c, m), NEW good,
           Serial(account[x][c], thread[x][t], m, running[x], good), running[x] = TRUE,
           thread[x][t].at = "waiting" => Receipt(x, t)
    PROVE  Open(account[x][c], m) = {}
<1>1. t \in Threads /\ c \in Chains /\ \A tx : tx.method = m => ChainOf(tx) = c
    BY RoleAlone
<1>2. Shaped(account[x][c]) /\ thread[x][t] \in Calls
    BY <1>1, PartsTyped
<1>3. Settled(thread[x][t], account[x][c], m)
    BY <1>1 DEF Settled, Receipt
<1>. QED  BY <1>2, <1>3, NothingOpen

(* Sending.                                                                *)
LEMMA SendsOrdered ==
    ASSUME IInv, OwnInv, NEW n \in Nodes, NEW t \in Threads, Sends(n, t)
    PROVE  OwnInv' /\ RolesKept /\ \A x \in Nodes : ToldKept(x)
<1>. DEFINE call == thread[n][t]
            d == ChainOf(call.tx)
<1>1. /\ call.at = "sending" /\ CallNow(n, t, Waiting(call)) /\ UNCHANGED running
      /\ d \in Chains /\ call \in Calls
    BY ChainOfTx, PartsTyped DEF Sends, nodeVars
<1>2. PICK new : /\ Placed(new, account[n][d], call.nonce + 1, call.tx)
                 /\ AccountNow(n, d, new)
    BY DEF Sends
<1>3. /\ Waiting(call).at = "waiting" /\ Waiting(call).tx = call.tx
    BY <1>1 DEF Waiting, Calls
<1>4. /\ running[n] /\ call.tx.method \in MethodsOf(t)
      /\ call.tx.method = "commit" => n = Committer
    BY <1>1 DEF OwnInv, OwnCall
<1>5. Shaped(account[n][d])
    BY <1>1, PartsTyped
<1>. HIDE DEF d
<1>6. OwnInv'
  <2>1. ASSUME NEW x \in Nodes, NEW u \in Threads
        PROVE  OwnCall(x, u, thread'[x][u], running'[x])
    <3>1. CASE x = n /\ u = t
      <4>1. thread'[x][u] = Waiting(call)
          BY <1>1, <3>1 DEF CallNow
      <4>. QED  BY <1>1, <1>3, <1>4, <3>1, <4>1 DEF OwnCall
    <3>2. CASE ~(x = n /\ u = t)
      <4>1. thread'[x][u] = thread[x][u]
          BY <1>1, <3>2 DEF CallNow
      <4>. QED  BY <1>1, <4>1 DEF OwnInv
    <3>. QED  BY <3>1, <3>2
  <2>2. ASSUME NEW x \in Nodes, NEW e \in Chains PROVE OwnPool(x, account'[x][e])
    <3>1. CASE x = n /\ e = d
      <4>1. account'[x][e] = new
          BY <1>2, <3>1 DEF AccountNow
      <4>2. OwnPool(n, account[n][d])
          BY <1>1 DEF OwnInv
      <4>. QED  BY <1>2, <1>4, <3>1, <4>1, <4>2 DEF OwnPool, Placed
    <3>2. CASE ~(x = n /\ e = d)
      <4>1. account'[x][e] = account[x][e]
          BY <1>2, <3>2 DEF AccountNow
      <4>. QED  BY <4>1 DEF OwnInv
    <3>. QED  BY <3>1, <3>2
  <2>. QED  BY <2>1, <2>2 DEF OwnInv
<1>7. RolesKept
  <2>. SUFFICES ASSUME NEW x \in Nodes, NEW u, NEW c, NEW m, Role(u, c, m), NEW good,
                       Serial(account[x][c], thread[x][u], m, running[x], good)
                PROVE  Serial(account'[x][c], thread'[x][u], m, running'[x], good)
      BY DEF RolesKept, SerialKept
  <2>1. u \in Threads /\ c \in Chains /\ \A tx : tx.method = m => ChainOf(tx) = c
      BY RoleAlone
  <2>2. CASE x = n /\ u = t
    <3>1. thread'[x][u] = Waiting(call) /\ running'[x] = running[x] /\ running[x] = TRUE
      <4>1. running[n] \in BOOLEAN
          BY DEF IInv, NodesOK
      <4>. QED  BY <1>1, <1>4, <2>1, <2>2, <4>1 DEF CallNow
    <3>2. CASE c = d
      <4>1. account'[x][c] = new
          BY <1>2, <2>1, <2>2, <3>2 DEF AccountNow
      <4>2. Serial(new, Waiting(call), m, TRUE, good)
          BY <1>1, <1>2, <1>5, <2>2, <3>1, <3>2, OwnPlaced
      <4>. QED  BY <2>2, <3>1, <4>1, <4>2
    <3>3. CASE c # d
      <4>1. account'[x][c] = account[x][c]
          BY <1>2, <2>1, <3>3 DEF AccountNow
      <4>2. Open(account[x][c], m) = {}
          BY <1>1, <2>2, <3>1, RoleSettled
      <4>. QED  BY <1>3, <3>1, <4>1, <4>2, NoneOpen
    <3>. QED  BY <3>2, <3>3
  <2>3. CASE ~(x = n /\ u = t)
    <3>1. thread'[x][u] = thread[x][u] /\ running'[x] = running[x]
        BY <1>1, <2>1, <2>3 DEF CallNow
    <3>2. CASE x = n /\ c = d
      <4>1. account'[x][c] = new
          BY <1>2, <2>1, <3>2 DEF AccountNow
      <4>2. call.tx.method # m
          BY <1>4, <2>3, <3>2, RoleAlone
      <4>. QED  BY <1>2, <3>1, <3>2, <4>1, <4>2, OtherPlaced
    <3>3. CASE ~(x = n /\ c = d)
      <4>1. account'[x][c] = account[x][c]
          BY <1>2, <2>1, <3>3 DEF AccountNow
      <4>. QED  BY <3>1, <4>1
    <3>. QED  BY <3>2, <3>3
  <2>. QED  BY <2>2, <2>3
<1>8. ASSUME NEW x \in Nodes PROVE ToldKept(x)
  <2>. SUFFICES ASSUME Told(thread[x]["propose"], account[x]["side"])
                PROVE  Told(thread'[x]["propose"], account'[x]["side"])
      BY DEF ToldKept
  <2>1. "propose" \in Threads /\ "side" \in Chains
      BY DEF Threads, Chains
  <2>2. thread[x]["propose"].at = "waiting"
      BY DEF Told, HasReceipt
  <2>3. thread'[x]["propose"] = thread[x]["propose"]
      BY <1>1, <2>1, <2>2 DEF CallNow
  <2>4. CASE x = n /\ "side" = d
    <3>1. account'[x]["side"] = new
        BY <1>2, <2>1, <2>4 DEF AccountNow
    <3>2. thread[x]["propose"] \in Calls
        BY <2>1, PartsTyped
    <3>3. Told(thread[x]["propose"], new)
        BY <1>2, <1>5, <2>4, <3>2, ToldStays
    <3>. QED  BY <2>3, <3>1, <3>3
  <2>5. CASE ~(x = n /\ "side" = d)
    <3>1. account'[x]["side"] = account[x]["side"]
        BY <1>2, <2>1, <2>5 DEF AccountNow
    <3>. QED  BY <2>3, <3>1
  <2>. QED  BY <2>4, <2>5
<1>. QED  BY <1>6, <1>7, <1>8

(* Whatever a goroutine does that is not in a call or leaves one.          *)
LEMMA OwnChanges ==
    ASSUME IInv, OwnInv, NEW n \in Nodes, NEW t \in Threads, NEW call, CallNow(n, t, call),
           OwnCall(n, t, call, running[n]), SameAccounts, UNCHANGED running
    PROVE  OwnInv'
<1>1. ASSUME NEW x \in Nodes, NEW u \in Threads
      PROVE  OwnCall(x, u, thread'[x][u], running'[x])
  <2>1. CASE x = n /\ u = t
      BY <2>1 DEF CallNow
  <2>2. CASE ~(x = n /\ u = t)
      BY <2>2 DEF CallNow, OwnInv
  <2>. QED  BY <2>1, <2>2
<1>2. ASSUME NEW x \in Nodes, NEW e \in Chains PROVE OwnPool(x, account'[x][e])
    BY DEF SameAccounts, OwnInv
<1>. QED  BY <1>1, <1>2 DEF OwnInv

(* ... keeps the order, unless it begins to send what its role is about.   *)
LEMMA ChangesOrdered ==
    ASSUME IInv, OwnInv, NEW n \in Nodes, NEW t \in Threads, NEW call, CallNow(n, t, call),
           SameAccounts, UNCHANGED running, running[n] = TRUE,
           thread[n][t].at = "waiting" => Receipt(n, t),
           NEW x \in Nodes, NEW u, NEW c, NEW m, Role(u, c, m),
           x = n /\ u = t => ~(call.at = "sending" /\ call.tx.method = m)
    PROVE  SerialKept(x, u, c, m)
<1>. SUFFICES ASSUME NEW good, Serial(account[x][c], thread[x][u], m, running[x], good)
              PROVE  Serial(account'[x][c], thread'[x][u], m, running'[x], good)
    BY DEF SerialKept
<1>1. u \in Threads /\ c \in Chains
    BY RoleAlone
<1>2. account'[x][c] = account[x][c] /\ running'[x] = running[x]
    BY <1>1 DEF SameAccounts
<1>3. CASE x = n /\ u = t
  <2>1. thread'[x][u] = call
      BY <1>1, <1>3 DEF CallNow
  <2>2. Open(account[x][c], m) = {}
      BY <1>3, RoleSettled
  <2>. QED  BY <1>2, <1>3, <2>1, <2>2, NoneOpen
<1>4. CASE ~(x = n /\ u = t)
  <2>1. thread'[x][u] = thread[x][u]
      BY <1>1, <1>4 DEF CallNow
  <2>. QED  BY <1>2, <2>1
<1>. QED  BY <1>3, <1>4

(* ... and leaves alone what others have heard.                            *)
LEMMA ChangesTold ==
    ASSUME NEW n \in Nodes, NEW t \in Threads, NEW call, CallNow(n, t, call), SameAccounts,
           NEW x \in Nodes, ~(x = n /\ t = "propose" /\ Told(thread[n][t], account[n]["side"]))
    PROVE  ToldKept(x)
<1>. SUFFICES ASSUME Told(thread[x]["propose"], account[x]["side"])
              PROVE  Told(thread'[x]["propose"], account'[x]["side"])
    BY DEF ToldKept
<1>1. "propose" \in Threads /\ "side" \in Chains
    BY DEF Threads, Chains
<1>2. thread'[x]["propose"] = thread[x]["propose"]
    BY <1>1 DEF CallNow
<1>. QED  BY <1>1, <1>2 DEF SameAccounts

(* A call ends.                                                            *)
LEMMA EndsOrdered ==
    ASSUME IInv, OwnInv, NEW n \in Nodes, NEW t \in Threads, Ends(n, t)
    PROVE  /\ OwnInv' /\ RolesKept
           /\ \A x \in Nodes :
                 ~(x = n /\ t = "propose" /\ Told(thread[n][t], account[n]["side"])) => ToldKept(x)
<1>1. /\ CallNow(n, t, Idle) /\ SameAccounts /\ UNCHANGED running /\ Idle.at = "idle"
      /\ thread[n][t].at = "waiting" => Receipt(n, t)
      /\ thread[n][t].at # "idle"
    BY DEF Ends, Idle, Receipt, HasReceipt
<1>2. running[n] = TRUE
    BY <1>1 DEF OwnInv, OwnCall, IInv, NodesOK
<1>3. OwnInv'
  <2>1. OwnCall(n, t, Idle, running[n])
      BY <1>1 DEF OwnCall
  <2>. QED  BY <1>1, <2>1, OwnChanges
<1>4. RolesKept
    BY <1>1, <1>2, ChangesOrdered DEF RolesKept
<1>. QED  BY <1>1, <1>3, <1>4, ChangesTold

(* A call begins, of another method than the role is about.                *)
Begins(n, t, tx) ==
    /\ Free(n, t)
    /\ CallNow(n, t, Sending(account[n][ChainOf(tx)], tx))
    /\ SameAccounts
    /\ UNCHANGED running
    /\ tx.method \in MethodsOf(t) /\ (tx.method = "commit" => n = Committer)

LEMMA BeginsOrdered ==
    ASSUME IInv, OwnInv, NEW n \in Nodes, NEW t \in Threads, NEW tx, Begins(n, t, tx)
    PROVE  /\ OwnInv'
           /\ \A x \in Nodes : ToldKept(x)
           /\ \A x \in Nodes : \A u, c, m :
                 Role(u, c, m) /\ ~(x = n /\ u = t /\ tx.method = m) => SerialKept(x, u, c, m)
<1>. DEFINE call == Sending(account[n][ChainOf(tx)], tx)
<1>1. /\ CallNow(n, t, call) /\ SameAccounts /\ UNCHANGED running
      /\ call.at = "sending" /\ call.tx = tx
      /\ thread[n][t].at = "idle" /\ running[n]
      /\ tx.method \in MethodsOf(t) /\ (tx.method = "commit" => n = Committer)
    BY DEF Begins, Free, Sending
<1>. HIDE DEF call
<1>2. running[n] = TRUE
    BY <1>1 DEF IInv, NodesOK
<1>3. OwnInv'
  <2>1. OwnCall(n, t, call, running[n])
      BY <1>1 DEF OwnCall
  <2>. QED  BY <1>1, <2>1, OwnChanges
<1>4. ASSUME NEW x \in Nodes, NEW u, NEW c, NEW m, Role(u, c, m),
             ~(x = n /\ u = t /\ tx.method = m)
      PROVE  SerialKept(x, u, c, m)
    BY <1>1, <1>2, <1>4, ChangesOrdered
<1>5. \A x \in Nodes : ToldKept(x)
  <2>1. ~Told(thread[n][t], account[n]["side"])
      BY <1>1 DEF Told, HasReceipt
  <2>. QED  BY <1>1, <2>1, ChangesTold
<1>. QED  BY <1>3, <1>4, <1>5

(* No call and no account changes.                                         *)
LEMMA RestOrdered ==
    ASSUME OwnInv, SameCalls, SameAccounts, UNCHANGED running
    PROVE  OwnInv' /\ RolesKept /\ \A x \in Nodes : ToldKept(x)
<1>1. OwnInv'
    BY DEF OwnInv, SameCalls, SameAccounts
<1>2. RolesKept
  <2>. SUFFICES ASSUME NEW x \in Nodes, NEW u, NEW c, NEW m, Role(u, c, m)
                PROVE  SerialKept(x, u, c, m)
      BY DEF RolesKept
  <2>. QED  BY RoleAlone DEF SerialKept, SameCalls, SameAccounts
<1>3. "propose" \in Threads /\ "side" \in Chains
    BY DEF Threads, Chains
<1>. QED  BY <1>1, <1>2, <1>3 DEF ToldKept, SameCalls, SameAccounts

(* A chain mines.                                                          *)
LEMMA MinesOrdered ==
    ASSUME IInv, OwnInv, NEW n \in Nodes, NEW d \in Chains, NEW ok, Mines(n, d, ok)
    PROVE  OwnInv' /\ RolesKept /\ \A x \in Nodes : ToldKept(x)
<1>1. SameCalls /\ UNCHANGED running
    BY DEF Mines
<1>2. PICK new, p : MinedAt(new, account[n][d], p, ok) /\ Shaped(new) /\ AccountNow(n, d, new)
    BY DEF Mines
<1>3. OwnInv'
  <2>1. ASSUME NEW x \in Nodes, NEW u \in Threads
        PROVE  OwnCall(x, u, thread'[x][u], running'[x])
      BY <1>1 DEF SameCalls, OwnInv
  <2>2. ASSUME NEW x \in Nodes, NEW e \in Chains PROVE OwnPool(x, account'[x][e])
    <3>1. OwnPool(n, account[n][d]) => OwnPool(n, new)
        BY <1>2 DEF OwnPool, MinedAt
    <3>. QED  BY <1>2, <3>1 DEF AccountNow, OwnInv
  <2>. QED  BY <2>1, <2>2 DEF OwnInv
<1>4. RolesKept
  <2>. SUFFICES ASSUME NEW x \in Nodes, NEW u, NEW c, NEW m, Role(u, c, m), NEW good,
                       Serial(account[x][c], thread[x][u], m, running[x], good)
                PROVE  Serial(account'[x][c], thread'[x][u], m, running'[x], good)
      BY DEF RolesKept, SerialKept
  <2>1. u \in Threads /\ c \in Chains
      BY RoleAlone
  <2>2. thread'[x][u] = thread[x][u] /\ running'[x] = running[x]
      BY <1>1, <2>1 DEF SameCalls
  <2>3. CASE x = n /\ c = d
    <3>1. account'[x][c] = new
        BY <1>2, <2>1, <2>3 DEF AccountNow
    <3>2. Serial(new, thread[x][u], m, running[x], good)
        BY <1>2, <2>3, MinedSerial
    <3>. QED  BY <2>2, <3>1, <3>2
  <2>4. CASE ~(x = n /\ c = d)
      BY <1>2, <2>1, <2>2, <2>4 DEF AccountNow
  <2>. QED  BY <2>3, <2>4
<1>5. ASSUME NEW x \in Nodes PROVE ToldKept(x)
  <2>1. "propose" \in Threads /\ "side" \in Chains
      BY DEF Threads, Chains
  <2>2. /\ thread'[x]["propose"] = thread[x]["propose"] /\ thread[x]["propose"] \in Calls
        /\ Shaped(account[x]["side"])
      BY <1>1, <2>1, PartsTyped DEF SameCalls
  <2>3. CASE x = n /\ "side" = d
    <3>1. account'[x]["side"] = new
        BY <1>2, <2>1, <2>3 DEF AccountNow
    <3>2. Told(thread[x]["propose"], account[x]["side"]) => Told(thread[x]["propose"], new)
        BY <1>2, <2>2, <2>3, ToldStays
    <3>. QED  BY <2>2, <3>1, <3>2 DEF ToldKept
  <2>4. CASE ~(x = n /\ "side" = d)
    <3>1. account'[x]["side"] = account[x]["side"]
        BY <1>2, <2>1, <2>4 DEF AccountNow
    <3>. QED  BY <2>2, <3>1 DEF ToldKept
  <2>. QED  BY <2>3, <2>4
<1>. QED  BY <1>3, <1>4, <1>5

(* The process of a node ends.                                             *)
Dies(n) ==
    /\ \A x \in Nodes, u \in Threads : thread'[x][u] = IF x = n THEN Idle ELSE thread[x][u]
    /\ \A x \in Nodes : running'[x] = IF x = n THEN FALSE ELSE running[x]
    /\ SameAccounts

LEMMA DiesOrdered ==
    ASSUME OwnInv, NEW n \in Nodes, Dies(n)
    PROVE  OwnInv' /\ RolesKept /\ \A x \in Nodes : x # n => ToldKept(x)
<1>1. Idle.at = "idle"
    BY DEF Idle
<1>2. OwnInv'
  <2>1. ASSUME NEW x \in Nodes, NEW u \in Threads
        PROVE  OwnCall(x, u, thread'[x][u], running'[x])
    <3>1. CASE x = n
        BY <1>1, <3>1 DEF Dies, OwnCall
    <3>2. CASE x # n
        BY <3>2 DEF Dies, OwnInv
    <3>. QED  BY <3>1, <3>2
  <2>2. ASSUME NEW x \in Nodes, NEW e \in Chains PROVE OwnPool(x, account'[x][e])
      BY DEF Dies, SameAccounts, OwnInv
  <2>. QED  BY <2>1, <2>2 DEF OwnInv
<1>3. RolesKept
  <2>. SUFFICES ASSUME NEW x \in Nodes, NEW u, NEW c, NEW m, Role(u, c, m), NEW good,
                       Serial(account[x][c], thread[x][u], m, running[x], good)
                PROVE  Serial(account'[x][c], thread'[x][u], m, running'[x], good)
      BY DEF RolesKept, SerialKept
  <2>1. u \in Threads /\ c \in Chains
      BY RoleAlone
  <2>2. account'[x][c] = account[x][c]
      BY <2>1 DEF Dies, SameAccounts
  <2>3. CASE x = n
    <3>1. thread'[x][u] = Idle /\ running'[x] = FALSE
        BY <2>1, <2>3 DEF Dies
    <3>. QED  BY <2>2, <3>1, DeadSerial
  <2>4. CASE x # n
    <3>1. thread'[x][u] = thread[x][u] /\ running'[x] = running[x]
        BY <2>1, <2>4 DEF Dies
    <3>. QED  BY <2>2, <3>1
  <2>. QED  BY <2>3, <2>4
<1>4. "propose" \in Threads /\ "side" \in Chains
    BY DEF Threads, Chains
<1>5. ASSUME NEW x \in Nodes, x # n PROVE ToldKept(x)
    BY <1>4, <1>5 DEF ToldKept, Dies, SameAccounts
<1>. QED  BY <1>2, <1>3, <1>5

-----------------------------------------------------------------------------
(* The invariant.  A proposer's next proposal is above all that were       *)
(* accepted, until it is told that the last was; what is agreed was        *)
(* proposed, one after the other; and the committer commits what it heard  *)
(* of last, above all that was committed.                                  *)

Quiet == faults \cap {"receipt", "rotated", "restart"} = {}

ToPropose(k, events) == { b \in Blocks : b.number = k /\ Below(events, k) }

ToCommit(h, events, done) ==
    { b \in Blocks : 0 < h /\ b = events[h] /\ Below(done, b.number) }

ProposerInOrder ==
    /\ Serial(account[proposer]["side"], thread[proposer]["propose"], "propose",
              running[proposer], ToPropose(number[proposer], proposed))
    /\ Ascending(proposed)
    /\ Below(proposed, number[proposer] + 1)
    /\ running[proposer] =>
          \/ Below(proposed, number[proposer])
          \/ Told(thread[proposer]["propose"], account[proposer]["side"])

AgreedInOrder ==
    /\ Ascending(agreed)
    /\ \A i \in DOMAIN agreed : IsIn(agreed[i], proposed)
    /\ ~proposal.decided =>
          IsIn(proposal.block, proposed) /\ Below(agreed, proposal.block.number)

CommitterInOrder ==
    /\ Serial(account[Committer]["main"], thread[Committer]["committee"], "commit",
              running[Committer], ToCommit(heard[Committer].agreed, agreed, chain))
    /\ Ascending(chain)
    /\ \A i \in DOMAIN chain :
          \E j \in 1..heard[Committer].agreed : chain[i].number = agreed[j].number

OrderInv ==
    /\ OwnInv
    /\ Quiet => ProposerInOrder /\ AgreedInOrder /\ CommitterInOrder

(* A proposer whose number and events stay.                                *)
LEMMA ProposerKept ==
    ASSUME ProposerInOrder, SerialKept(proposer, "propose", "side", "propose"),
           UNCHANGED <<proposer, proposed>>, number'[proposer] = number[proposer],
           running'[proposer] => running[proposer] /\ ToldKept(proposer)
    PROVE  ProposerInOrder'
<1>. DEFINE good == ToPropose(number[proposer], proposed)
<1>1. Serial(account'[proposer]["side"], thread'[proposer]["propose"], "propose",
             running'[proposer], good)
    BY DEF ProposerInOrder, SerialKept
<1>2. running'[proposer] =>
          \/ Below(proposed, number[proposer])
          \/ Told(thread'[proposer]["propose"], account'[proposer]["side"])
    BY DEF ProposerInOrder, ToldKept
<1>3. Ascending(proposed) /\ Below(proposed, number[proposer] + 1)
    BY DEF ProposerInOrder
<1>. QED  BY <1>1, <1>2, <1>3 DEF ProposerInOrder

(* Events that stay.                                                       *)
LEMMA AgreedKept ==
    ASSUME AgreedInOrder, UNCHANGED <<agreed, proposed, proposal>>
    PROVE  AgreedInOrder'
BY DEF AgreedInOrder

(* A committer that hears nothing, whatever more is agreed.                *)
LEMMA CommitterKept ==
    ASSUME CommitterInOrder, SerialKept(Committer, "committee", "main", "commit"),
           UNCHANGED chain, heard'[Committer].agreed = heard[Committer].agreed,
           heard[Committer].agreed \in Nat,
           \A j \in 1..heard[Committer].agreed : agreed'[j] = agreed[j]
    PROVE  CommitterInOrder'
<1>. DEFINE h == heard[Committer].agreed
<1>1. ToCommit(h, agreed', chain) = ToCommit(h, agreed, chain)
    BY DEF ToCommit
<1>2. Serial(account'[Committer]["main"], thread'[Committer]["committee"], "commit",
             running'[Committer], ToCommit(h, agreed', chain))
    BY <1>1 DEF CommitterInOrder, SerialKept
<1>3. \A i \in DOMAIN chain : \E j \in 1..h : chain[i].number = agreed'[j].number
    BY DEF CommitterInOrder
<1>4. Ascending(chain)
    BY DEF CommitterInOrder
<1>. QED  BY <1>2, <1>3, <1>4 DEF CommitterInOrder

(* The types this needs.                                                   *)
LEMMA OrderTyped ==
    ASSUME IInv
    PROVE  /\ proposer \in Nodes /\ Committer \in Nodes
           /\ \A n \in Nodes : /\ number[n] \in Nat /\ running[n] \in BOOLEAN
                               /\ heard[n].agreed \in Nat /\ heard[n].agreed <= Len(agreed)
           /\ proposed \in Seq(Blocks) /\ agreed \in Seq(Blocks) /\ chain \in Seq(Blocks)
           /\ proposal.block \in Blocks
BY CommitteeAssumption DEF IInv, ContractsOK, NodesOK, HeardOK

(* A step of the goroutines that tells the contracts nothing.              *)
LEMMA OrderKept ==
    ASSUME IInv, OrderInv, OwnInv', RolesKept, Quiet' => Quiet, UNCHANGED contractVars,
           number'[proposer] = number[proposer],
           heard'[Committer].agreed = heard[Committer].agreed,
           running'[proposer] => running[proposer] /\ ToldKept(proposer)
    PROVE  OrderInv'
<1>. SUFFICES ASSUME Quiet'
              PROVE  ProposerInOrder' /\ AgreedInOrder' /\ CommitterInOrder'
    BY DEF OrderInv
<1>1. ProposerInOrder /\ AgreedInOrder /\ CommitterInOrder
    BY DEF OrderInv
<1>2. UNCHANGED <<proposer, proposal, proposed, agreed, chain>>
    BY DEF contractVars
<1>3. /\ SerialKept(proposer, "propose", "side", "propose")
      /\ SerialKept(Committer, "committee", "main", "commit")
    BY OrderTyped DEF RolesKept, Role
<1>4. ProposerInOrder'
    BY <1>1, <1>2, <1>3, ProposerKept
<1>5. AgreedInOrder'
    BY <1>1, <1>2, AgreedKept
<1>6. CommitterInOrder'
    BY <1>1, <1>2, <1>3, OrderTyped, CommitterKept
<1>. QED  BY <1>4, <1>5, <1>6

-----------------------------------------------------------------------------
(* Steps that keep the order as they keep the invariant of the calls.      *)

(* A transaction is sent.                                                  *)
LEMMA SendsInOrder ==
    ASSUME IInv, OrderInv, NEW n \in Nodes, NEW t \in Threads, Send(n, t) \/ SendReplaces(n, t)
    PROVE  OrderInv'
<1>1. Sends(n, t) /\ UNCHANGED <<nodeVars, contractVars>>
    BY SendSends DEF Sends
<1>2. OwnInv' /\ RolesKept /\ \A x \in Nodes : ToldKept(x)
    BY <1>1, SendsOrdered DEF OrderInv
<1>3. Quiet' => Quiet
    BY DEF Quiet, Send, SendReplaces, Fail
<1>4. UNCHANGED <<number, heard, running>>
    BY <1>1 DEF nodeVars
<1>. QED  BY <1>1, <1>2, <1>3, <1>4, OrderTyped, OrderKept

(* A call ends that tells nothing, or nothing to the proposer.             *)
LEMMA EndsInOrder ==
    ASSUME IInv, OrderInv, NEW n \in Nodes, NEW t \in Threads, Ends(n, t),
           t = "propose" => ~Told(thread[n][t], account[n]["side"]),
           UNCHANGED <<nodeVars, contractVars>>, Quiet' => Quiet
    PROVE  OrderInv'
<1>1. OwnInv' /\ RolesKept /\ \A x \in Nodes : ToldKept(x)
    BY EndsOrdered DEF OrderInv
<1>2. UNCHANGED <<number, heard, running>>
    BY DEF nodeVars
<1>. QED  BY <1>1, <1>2, OrderTyped, OrderKept

(* What the one that proposes waits for is on the sidechain.               *)
LEMMA ProposesOnSide ==
    ASSUME OwnInv, NEW n \in Nodes, thread[n]["propose"].at # "idle"
    PROVE  ChainOf(thread[n]["propose"].tx) = "side"
<1>1. thread[n]["propose"].tx.method \in MethodsOf("propose")
    BY DEF OwnInv, OwnCall, Threads
<1>. QED  BY <1>1 DEF MethodsOf, ChainOf

(* A transaction is not sent.                                              *)
LEMMA UnsentInOrder ==
    ASSUME IInv, OrderInv, NEW n \in Nodes, NEW t \in Threads, SendFails(n, t) \/ SendErrors(n, t)
    PROVE  OrderInv'
<1>1. /\ thread[n][t].at = "sending" /\ Return(n, t)
      /\ UNCHANGED <<nodeVars, account, contractVars>>
    BY DEF SendFails, SendErrors
<1>2. UNCHANGED <<account, running>> /\ UNCHANGED <<nodeVars, contractVars>>
    BY <1>1 DEF nodeVars
<1>3. Ends(n, t)
    BY <1>1, <1>2, ReturnEnds
<1>4. ~Told(thread[n][t], account[n]["side"])
    BY <1>1 DEF Told, HasReceipt
<1>5. Quiet' => Quiet
    BY DEF SendFails, SendErrors, Fail, Quiet
<1>. QED  BY <1>2, <1>3, <1>4, <1>5, EndsInOrder

(* A call goes on, or fails.                                               *)
LEMMA GoOnInOrder ==
    ASSUME IInv, OrderInv, NEW n \in Nodes, NEW t \in Threads, GoOn(n, t)
    PROVE  OrderInv'
<1>1. CASE Send(n, t)
    BY <1>1, SendsInOrder
<1>2. CASE SendFails(n, t)
    BY <1>2, UnsentInOrder
<1>3. CASE WaitReverted(n, t)
  <2>1. /\ Receipt(n, t) /\ ~Succeeded(n, t) /\ Return(n, t)
        /\ UNCHANGED <<nodeVars, account, contractVars, faults>>
      BY <1>3 DEF WaitReverted
  <2>2. /\ UNCHANGED <<account, running>> /\ UNCHANGED <<nodeVars, contractVars>>
        /\ (Quiet' => Quiet)
      BY <2>1 DEF nodeVars, Quiet
  <2>3. Ends(n, t)
      BY <2>1, <2>2, ReturnEnds
  <2>4. ASSUME t = "propose" PROVE ~Told(thread[n][t], account[n]["side"])
    <3>1. ChainOf(thread[n][t].tx) = "side"
        BY <2>1, <2>4, ProposesOnSide DEF Receipt, HasReceipt, OrderInv
    <3>. QED  BY <2>1, <3>1 DEF Succeeded, Told
  <2>. QED  BY <2>2, <2>3, <2>4, EndsInOrder
<1>. QED  BY <1>1, <1>2, <1>3 DEF GoOn

(* The calls of the other goroutines are done.                             *)
LEMMA DoneInOrder ==
    ASSUME IInv, OrderInv, NEW n \in Nodes, NEW t \in Threads, t # "propose",
           (Handled(n) /\ t = "committee") \/ OtherDone(n, t)
    PROVE  OrderInv'
<1>1. /\ Receipt(n, t) /\ Return(n, t)
      /\ UNCHANGED <<nodeVars, account, contractVars, faults>>
    BY DEF Handled, OtherDone
<1>2. UNCHANGED <<account, running>> /\ UNCHANGED <<nodeVars, contractVars>> /\ (Quiet' => Quiet)
    BY <1>1 DEF nodeVars, Quiet
<1>3. Ends(n, t)
    BY <1>1, <1>2, ReturnEnds
<1>. QED  BY <1>2, <1>3, EndsInOrder

(* A call starts.                                                          *)
LEMMA StartBegins ==
    ASSUME IInv, NEW n \in Nodes, NEW t \in Threads, NEW tx, Free(n, t), Start(n, t, tx),
           UNCHANGED <<account, running>>,
           tx.method \in MethodsOf(t), tx.method = "commit" => n = Committer
    PROVE  Begins(n, t, tx)
<1>1. CallNow(n, t, Sending(account[n][ChainOf(tx)], tx))
    BY CallReplaced DEF Start
<1>. QED  BY <1>1 DEF Begins, SameAccounts

(* ... that is neither a proposal nor a commit.                            *)
LEMMA BeginsInOrder ==
    ASSUME IInv, OrderInv, NEW n \in Nodes, NEW t \in Threads, NEW tx, Begins(n, t, tx),
           tx.method \notin {"propose", "commit"}, UNCHANGED <<number, contractVars>>,
           heard'[Committer].agreed = heard[Committer].agreed, Quiet' => Quiet
    PROVE  OrderInv'
<1>1. /\ OwnInv' /\ \A x \in Nodes : ToldKept(x)
      /\ \A x \in Nodes : \A u, c, m :
            Role(u, c, m) /\ ~(x = n /\ u = t /\ tx.method = m) => SerialKept(x, u, c, m)
    BY BeginsOrdered DEF OrderInv
<1>2. RolesKept
    BY <1>1 DEF RolesKept, Role
<1>3. UNCHANGED running
    BY DEF Begins
<1>. QED  BY <1>1, <1>2, <1>3, OrderTyped, OrderKept

(* The bridge or the withdraw manager calls.                               *)
LEMMA OtherCallInOrder ==
    ASSUME IInv, OrderInv, NEW n \in Nodes, NEW t \in Threads, OtherCall(n, t)
    PROVE  OrderInv'
<1>. DEFINE tx == Tx(t, NoBlock(n))
<1>1. /\ t \in {"bridge", "withdraw"} /\ Free(n, t) /\ Start(n, t, tx)
      /\ UNCHANGED <<nodeVars, account, contractVars, faults>>
    BY DEF OtherCall
<1>2. UNCHANGED <<account, running>> /\ UNCHANGED <<number, contractVars>> /\ UNCHANGED heard
    BY <1>1 DEF nodeVars
<1>3. tx.method = t /\ tx.method \in MethodsOf(t) /\ tx.method \notin {"propose", "commit"}
    BY <1>1 DEF Tx, MethodsOf
<1>4. Begins(n, t, tx)
    BY <1>1, <1>2, <1>3, StartBegins
<1>5. Quiet' => Quiet
    BY <1>1 DEF Quiet
<1>. QED  BY <1>2, <1>3, <1>4, <1>5, BeginsInOrder

(* Nothing of the calls changes.                                           *)
LEMMA RestsInOrder ==
    ASSUME IInv, OrderInv, UNCHANGED <<thread, account, running, contractVars>>, Quiet' => Quiet,
           number'[proposer] = number[proposer],
           heard'[Committer].agreed = heard[Committer].agreed
    PROVE  OrderInv'
<1>1. SameCalls /\ SameAccounts /\ UNCHANGED running
    BY DEF SameCalls, SameAccounts
<1>2. OwnInv' /\ RolesKept /\ \A x \in Nodes : ToldKept(x)
    BY <1>1, RestOrdered DEF OrderInv
<1>. QED  BY <1>1, <1>2, OrderTyped, OrderKept

(* A proposal is heard of, and signed or not.                              *)
LEMMA HearProposedInOrder ==
    ASSUME IInv, OrderInv, NEW n \in Nodes, HearProposed(n)
    PROVE  OrderInv'
<1>. DEFINE tx == Tx("sign", proposed[heard[n].proposed + 1])
<1>1. /\ Free(n, "committee") /\ UNCHANGED <<number, running, account, contractVars, faults>>
      /\ heard' = [heard EXCEPT ![n].proposed = @ + 1]
      /\ UNCHANGED thread \/ Start(n, "committee", tx)
    BY DEF HearProposed
<1>2. heard'[Committer].agreed = heard[Committer].agreed /\ (Quiet' => Quiet)
    BY <1>1, OrderTyped DEF IInv, NodesOK, Quiet
<1>3. CASE UNCHANGED thread
  <2>1. UNCHANGED <<thread, account, running, contractVars>> /\ number'[proposer] = number[proposer]
      BY <1>1, <1>3
  <2>. QED  BY <1>2, <2>1, RestsInOrder
<1>4. CASE Start(n, "committee", tx)
  <2>1. /\ tx.method \in MethodsOf("committee") /\ tx.method # "commit" /\ tx.method # "propose"
        /\ "committee" \in Threads
      BY DEF Tx, MethodsOf, Threads
  <2>2. UNCHANGED <<account, running>> /\ UNCHANGED <<number, contractVars>>
      BY <1>1
  <2>3. Begins(n, "committee", tx)
      BY <1>1, <1>4, <2>1, <2>2, StartBegins
  <2>. QED  BY <1>2, <2>1, <2>2, <2>3, BeginsInOrder
<1>. QED  BY <1>1, <1>3, <1>4

(* A block is pending still because the proposer could not be asked for.   *)
LEMMA ProposerUnknownInOrder ==
    ASSUME IInv, OrderInv, NEW n \in Nodes, ProposerUnknown(n)
    PROVE  OrderInv'
<1>1. /\ UNCHANGED <<number, heard, running, thread, account, contractVars>>
      /\ Quiet' => Quiet
    BY DEF ProposerUnknown, Fail, Quiet
<1>. QED  BY <1>1, RestsInOrder

(* A proposal is heard of, and whom to compare with cannot be read.        *)
LEMMA HearProposedInVainInOrder ==
    ASSUME IInv, OrderInv, NEW n \in Nodes, HearProposedInVain(n)
    PROVE  OrderInv'
<1>1. /\ heard' = [heard EXCEPT ![n].proposed = @ + 1]
      /\ UNCHANGED <<thread, account, running, contractVars>> /\ UNCHANGED number
      /\ Quiet' => Quiet
    BY DEF HearProposedInVain, Fail, Quiet
<1>2. heard'[Committer].agreed = heard[Committer].agreed
    BY <1>1, OrderTyped DEF IInv, NodesOK
<1>. QED  BY <1>1, <1>2, RestsInOrder

(* A number is passed over, not by the proposer.                           *)
LEMMA PassOverInOrder ==
    ASSUME IInv, OrderInv, NEW n \in Nodes, PassOver(n)
    PROVE  OrderInv'
<1>1. /\ n # proposer /\ number' = [number EXCEPT ![n] = @ + 1]
      /\ UNCHANGED <<heard, running, thread, account, contractVars, faults>>
    BY DEF PassOver
<1>2. number'[proposer] = number[proposer] /\ (Quiet' => Quiet)
    BY <1>1, OrderTyped DEF IInv, NodesOK, Quiet
<1>. QED  BY <1>1, <1>2, RestsInOrder

(* Subscriptions end.                                                      *)
LEMMA DropInOrder ==
    ASSUME IInv, OrderInv, NEW n \in Nodes, NEW s, Drop(n, s)
    PROVE  OrderInv'
<1>1. /\ UNCHANGED <<number, heard, running, thread, account, contractVars>>
      /\ Quiet' => Quiet
    BY DEF Drop, Fail, Quiet
<1>. QED  BY <1>1, RestsInOrder

(* The process ends after a commit.                                        *)
LEMMA CommitPanicsInOrder ==
    ASSUME IInv, OrderInv, NEW n \in Nodes, CommitPanics(n)
    PROVE  OrderInv'
<1>1. /\ thread' = [thread EXCEPT ![n] = [t \in Threads |-> Idle]]
      /\ running' = [running EXCEPT ![n] = FALSE]
      /\ UNCHANGED <<number, heard, account, contractVars>> /\ (Quiet' => Quiet)
    BY DEF CommitPanics, Fail, Quiet
<1>2. Dies(n)
    BY <1>1 DEF Dies, SameAccounts, IInv, NodesOK, CallsOK
<1>3. OwnInv' /\ RolesKept /\ \A x \in Nodes : x # n => ToldKept(x)
    BY <1>2, DiesOrdered DEF OrderInv
<1>4. running'[proposer] => running[proposer] /\ ToldKept(proposer)
    BY <1>2, <1>3, OrderTyped DEF Dies
<1>. QED  BY <1>1, <1>3, <1>4, OrderKept

(* A receipt is not heard of, a node is restarted, or the proposer         *)
(* changes: after that the order is not kept, but each goroutine still     *)
(* sends what is its own.                                                  *)
LEMMA NotQuiet ==
    ASSUME IInv, OrderInv, NEW n \in Nodes,
           \/ \E t \in Threads : WaitErrors(n, t)
           \/ Restart(n)
           \/ RotateProposer(n)
    PROVE  OrderInv'
<1>1. ~Quiet'
    BY DEF WaitErrors, Restart, RotateProposer, Fail, Quiet
<1>2. OwnInv'
  <2>1. CASE \E t \in Threads : WaitErrors(n, t)
    <3>1. PICK t \in Threads : Return(n, t) /\ UNCHANGED <<nodeVars, account>>
        BY <2>1 DEF WaitErrors
    <3>2. CallNow(n, t, Idle)
        BY <3>1, CallReplaced DEF Return
    <3>3. OwnCall(n, t, Idle, running[n]) /\ SameAccounts /\ UNCHANGED running
        BY <3>1 DEF OwnCall, Idle, SameAccounts, nodeVars
    <3>. QED  BY <3>2, <3>3, OwnChanges DEF OrderInv
  <2>2. CASE Restart(n)
    <3>1. /\ thread' = [thread EXCEPT ![n] = [t \in Threads |-> Idle]]
          /\ running' = [running EXCEPT ![n] = TRUE] /\ UNCHANGED account
        BY <2>2 DEF Restart
    <3>2. \A x \in Nodes, u \in Threads :
              /\ thread'[x][u] = IF x = n THEN Idle ELSE thread[x][u]
              /\ x # n => running'[x] = running[x]
        BY <3>1 DEF IInv, NodesOK, CallsOK
    <3>3. Idle.at = "idle"
        BY DEF Idle
    <3>4. ASSUME NEW x \in Nodes, NEW u \in Threads
          PROVE  OwnCall(x, u, thread'[x][u], running'[x])
      <4>1. CASE x = n
          BY <3>2, <3>3, <4>1 DEF OwnCall
      <4>2. CASE x # n
          BY <3>2, <4>2 DEF OrderInv, OwnInv
      <4>. QED  BY <4>1, <4>2
    <3>. QED  BY <3>1, <3>4 DEF OrderInv, OwnInv
  <2>3. CASE RotateProposer(n)
      BY <2>3 DEF RotateProposer, nodeVars, OrderInv, OwnInv
  <2>. QED  BY <2>1, <2>2, <2>3
<1>. QED  BY <1>1, <1>2 DEF OrderInv

-----------------------------------------------------------------------------
(* Steps that begin or end a proposal or a commit, and that mine one.      *)

(* An event above all others.                                              *)
LEMMA AscendingGrows ==
    ASSUME NEW events \in Seq(Blocks), NEW b \in Blocks,
           Ascending(events), Below(events, b.number)
    PROVE  Ascending(Append(events, b)) /\ Below(Append(events, b), b.number + 1)
<1>. DEFINE more == Append(events, b)
            n == Len(events)
<1>0. \A x \in Blocks : x.number \in Nat
    BY DEF Blocks
<1>1. /\ n \in Nat /\ DOMAIN events = 1..n /\ DOMAIN more = 1..(n + 1)
      /\ more[n + 1] = b /\ b.number \in Nat
      /\ \A i \in 1..n : more[i] = events[i] /\ events[i] \in Blocks /\ events[i].number \in Nat
    BY <1>0
<1>2. \A i \in 1..n : events[i].number < b.number
    BY <1>1 DEF Below
<1>. HIDE DEF more, n
<1>3. Ascending(more)
  <2>. SUFFICES ASSUME NEW i \in 1..(n + 1), NEW j \in 1..(n + 1), i < j
                PROVE  more[i].number < more[j].number
      BY <1>1 DEF Ascending
  <2>1. i \in 1..n
      BY <1>1
  <2>2. CASE j \in 1..n
      BY <1>1, <2>1, <2>2 DEF Ascending
  <2>3. CASE j = n + 1
      BY <1>1, <1>2, <2>1, <2>3
  <2>. QED  BY <1>1, <2>2, <2>3
<1>4. Below(more, b.number + 1)
  <2>. SUFFICES ASSUME NEW i \in 1..(n + 1) PROVE more[i].number < b.number + 1
      BY <1>1 DEF Below
  <2>1. CASE i \in 1..n
      BY <1>1, <1>2, <2>1
  <2>2. CASE i = n + 1
      BY <1>1, <2>2
  <2>. QED  BY <1>1, <2>1, <2>2
<1>. QED  BY <1>3, <1>4 DEF more

(* What is below a number is below the next.                               *)
LEMMA BelowNext ==
    ASSUME NEW events \in Seq(Blocks), NEW k \in Nat, Below(events, k)
    PROVE  Below(events, k + 1)
<1>0. \A x \in Blocks : x.number \in Nat
    BY DEF Blocks
<1>1. \A i \in DOMAIN events : events[i].number \in Nat
    BY <1>0
<1>. QED  BY <1>1 DEF Below

(* The proposer proposes.                                                  *)
LEMMA ProposeInOrder ==
    ASSUME IInv, OrderInv, NEW n \in Nodes, Propose(n)
    PROVE  OrderInv'
<1>. DEFINE tx == Tx("propose", Pending(n, size[n] + 1))
            good == ToPropose(number[n], proposed)
            acc == account[n]["side"]
            call == Sending(account[n][ChainOf(tx)], tx)
<1>1. /\ n = proposer /\ Free(n, "propose") /\ Start(n, "propose", tx)
      /\ UNCHANGED <<number, heard, running, account, contractVars, faults>>
    BY DEF Propose
<1>2. /\ tx.method = "propose" /\ tx.method \in MethodsOf("propose")
      /\ "propose" \in Threads /\ "side" \in Chains
    BY DEF Tx, MethodsOf, Threads, Chains
<1>3. UNCHANGED <<account, running>> /\ UNCHANGED <<proposer, proposal, proposed, agreed, chain>>
    BY <1>1 DEF contractVars
<1>4. Begins(n, "propose", tx)
    BY <1>1, <1>2, <1>3, StartBegins
<1>5. /\ OwnInv' /\ SerialKept(Committer, "committee", "main", "commit")
      /\ OwnInv
    BY <1>2, <1>4, BeginsOrdered, OrderTyped DEF OrderInv, Role
<1>6. ASSUME Quiet' PROVE ProposerInOrder' /\ AgreedInOrder' /\ CommitterInOrder'
  <2>1. ProposerInOrder /\ AgreedInOrder /\ CommitterInOrder
      BY <1>1, <1>6 DEF OrderInv, Quiet
  <2>2. AgreedInOrder' /\ CommitterInOrder'
      BY <1>1, <1>3, <1>5, <2>1, AgreedKept, CommitterKept, OrderTyped
  <2>3. running[n] = TRUE /\ thread[n]["propose"].at = "idle"
      BY <1>1, OrderTyped DEF Free
  <2>4. Below(proposed, number[n])
      BY <1>1, <2>1, <2>3 DEF ProposerInOrder, Told, HasReceipt
  <2>5. tx.block \in good
    <3>1. size[n] + 1 \in Nat /\ number[n] \in Nat
        BY DEF IInv, NodesOK
    <3>2. tx.block = Pending(n, size[n] + 1) /\ Pending(n, size[n] + 1).number = number[n]
        BY DEF Tx, Pending
    <3>3. Pending(n, size[n] + 1) \in Blocks
        BY <3>1 DEF Pending, Blocks
    <3>. QED  BY <2>4, <3>2, <3>3 DEF ToPropose
  <2>6. Open(acc, "propose") = {}
    <3>1. Serial(acc, thread[n]["propose"], "propose", running[n], good)
        BY <1>1, <2>1 DEF ProposerInOrder
    <3>. QED  BY <1>5, <2>3, <3>1, RoleSettled DEF Role
  <2>7. thread'[n]["propose"] = call /\ call.tx = tx /\ account'[n]["side"] = acc
      BY <1>2, <1>3, <1>4 DEF Begins, CallNow, Sending
  <2>. HIDE DEF tx, call, good
  <2>8. Serial(acc, call, "propose", running[n], good)
      BY <2>5, <2>6, <2>7, NoneOpen
  <2>. QED  BY <1>1, <1>3, <2>1, <2>2, <2>4, <2>7, <2>8 DEF ProposerInOrder, good
<1>. QED  BY <1>5, <1>6 DEF OrderInv

(* It is told that the block was accepted, and goes on to the next number. *)
LEMMA ProposedInOrder ==
    ASSUME IInv, OrderInv, NEW n \in Nodes, Proposed(n)
    PROVE  OrderInv'
<1>. DEFINE acc == account[n]["side"]
            next == number[n] + 1
            good == ToPropose(next, proposed)
<1>1. /\ Receipt(n, "propose") /\ Return(n, "propose")
      /\ number' = [number EXCEPT ![n] = @ + 1]
      /\ UNCHANGED <<heard, running, account, contractVars, faults>>
    BY DEF Proposed
<1>2. /\ "propose" \in Threads /\ "side" \in Chains
      /\ Quiet' => Quiet
      /\ UNCHANGED <<account, running>> /\ UNCHANGED <<proposer, proposal, proposed, agreed, chain>>
      /\ number'[n] = next /\ \A x \in Nodes : x # n => number'[x] = number[x]
    BY <1>1 DEF Threads, Chains, contractVars, Quiet, IInv, NodesOK
<1>3. Ends(n, "propose")
    BY <1>1, <1>2, ReturnEnds
<1>4. /\ OwnInv' /\ RolesKept /\ \A x \in Nodes : x # n => ToldKept(x)
      /\ OwnInv
    BY <1>2, <1>3, EndsOrdered DEF OrderInv
<1>5. CASE n # proposer
    BY <1>1, <1>2, <1>4, <1>5, OrderTyped, OrderKept
<1>6. CASE n = proposer
  <2>1. ASSUME Quiet' PROVE ProposerInOrder' /\ AgreedInOrder' /\ CommitterInOrder'
    <3>1. ProposerInOrder /\ AgreedInOrder /\ CommitterInOrder
        BY <1>2, <2>1 DEF OrderInv
    <3>2. SerialKept(Committer, "committee", "main", "commit")
        BY <1>4, OrderTyped DEF RolesKept, Role
    <3>3. AgreedInOrder' /\ CommitterInOrder'
        BY <1>1, <1>2, <3>1, <3>2, AgreedKept, CommitterKept, OrderTyped
    <3>4. running[n] = TRUE
        BY <1>1, <1>2, OrderTyped, <1>4 DEF Receipt, HasReceipt, OwnInv, OwnCall
    <3>5. Below(proposed, next) /\ Below(proposed, next + 1)
      <4>1. next \in Nat /\ Below(proposed, next)
          BY <1>6, <3>1, OrderTyped DEF ProposerInOrder
      <4>. QED  BY <4>1, OrderTyped, BelowNext
    <3>6. Open(acc, "propose") = {}
      <4>1. Serial(acc, thread[n]["propose"], "propose", running[n], ToPropose(number[n], proposed))
          BY <1>6, <3>1 DEF ProposerInOrder
      <4>. QED  BY <1>1, <1>4, <3>4, <4>1, RoleSettled DEF Role
    <3>7. thread'[n]["propose"] = Idle /\ account'[n]["side"] = acc /\ Idle.at = "idle"
        BY <1>2, <1>3 DEF Ends, CallNow, Idle
    <3>8. Serial(acc, Idle, "propose", running[n], good)
        BY <3>6, <3>7, NoneOpen
    <3>. HIDE DEF next, good
    <3>9. Ascending(proposed)
        BY <3>1 DEF ProposerInOrder
    <3>. QED  BY <1>2, <1>6, <3>3, <3>5, <3>7, <3>8, <3>9 DEF ProposerInOrder, good
  <2>. QED  BY <1>4, <2>1 DEF OrderInv
<1>. QED  BY <1>5, <1>6

(* A consensus is heard of; the committer commits.                         *)
LEMMA HearAgreedInOrder ==
    ASSUME IInv, OrderInv, NEW n \in Nodes, HearAgreed(n)
    PROVE  OrderInv'
<1>. DEFINE h == heard[n].agreed
            next == h + 1
            block == agreed[next]
            tx == Tx("commit", block)
            good == ToCommit(next, agreed, chain)
            acc == account[n]["main"]
            call == Sending(account[n][ChainOf(tx)], tx)
<1>1. /\ Free(n, "committee") /\ h < Len(agreed)
      /\ heard' = [heard EXCEPT ![n].agreed = @ + 1]
      /\ IF n = Committer THEN Start(n, "committee", tx) ELSE UNCHANGED thread
      /\ UNCHANGED <<number, running, account, contractVars, faults>>
    BY DEF HearAgreed
<1>2. /\ "committee" \in Threads /\ "main" \in Chains
      /\ Quiet' => Quiet
      /\ UNCHANGED <<account, running>> /\ UNCHANGED <<proposer, proposal, proposed, agreed, chain>>
      /\ heard'[n].agreed = next /\ \A x \in Nodes : x # n => heard'[x] = heard[x]
    BY <1>1 DEF Threads, Chains, contractVars, Quiet, IInv, NodesOK
<1>3. CASE n # Committer
    BY <1>1, <1>2, <1>3, OrderTyped, RestsInOrder
<1>4. CASE n = Committer
  <2>1. tx.method = "commit" /\ tx.method \in MethodsOf("committee") /\ tx.block = block
      BY DEF Tx, MethodsOf
  <2>2. Begins(n, "committee", tx)
      BY <1>1, <1>2, <1>4, <2>1, StartBegins
  <2>3. /\ OwnInv' /\ OwnInv
        /\ \A x \in Nodes : ToldKept(x)
        /\ SerialKept(proposer, "propose", "side", "propose")
      BY <1>2, <2>1, <2>2, BeginsOrdered, OrderTyped DEF OrderInv, Role
  <2>4. ASSUME Quiet' PROVE ProposerInOrder' /\ AgreedInOrder' /\ CommitterInOrder'
    <3>1. ProposerInOrder /\ AgreedInOrder /\ CommitterInOrder
        BY <1>2, <2>4 DEF OrderInv
    <3>2. ProposerInOrder' /\ AgreedInOrder'
        BY <1>1, <1>2, <2>3, <3>1, AgreedKept, ProposerKept, OrderTyped
    <3>3. running[n] = TRUE /\ thread[n]["committee"].at = "idle"
        BY <1>1, OrderTyped DEF Free
    <3>4. /\ h \in Nat /\ next \in 1..Len(agreed) /\ block \in Blocks
          /\ \A j \in 1..h : j \in DOMAIN agreed /\ next \in DOMAIN agreed /\ j < next
          /\ next \in 1..next /\ \A j \in 1..h : j \in 1..next
        BY <1>1, OrderTyped
    <3>5. Below(chain, block.number)
      <4>. SUFFICES ASSUME NEW i \in DOMAIN chain PROVE chain[i].number < block.number
          BY DEF Below
      <4>1. PICK j \in 1..h : chain[i].number = agreed[j].number
          BY <1>4, <3>1 DEF CommitterInOrder
      <4>. QED  BY <3>1, <3>4, <4>1 DEF AgreedInOrder, Ascending
    <3>6. block \in good
        BY <3>4, <3>5 DEF ToCommit
    <3>7. Open(acc, "commit") = {}
      <4>1. Serial(acc, thread[n]["committee"], "commit", running[n], ToCommit(h, agreed, chain))
          BY <1>4, <3>1 DEF CommitterInOrder
      <4>. QED  BY <2>3, <3>3, <4>1, RoleSettled DEF Role
    <3>8. thread'[n]["committee"] = call /\ call.tx = tx /\ account'[n]["main"] = acc
        BY <1>2, <2>2 DEF Begins, CallNow, Sending
    <3>9. Ascending(chain) /\ \A i \in DOMAIN chain : \E j \in 1..next : chain[i].number = agreed[j].number
        BY <1>4, <3>1, <3>4 DEF CommitterInOrder
    <3>. HIDE DEF tx, call, good, next, block
    <3>10. Serial(acc, call, "commit", running[n], good)
        BY <2>1, <3>6, <3>7, <3>8, NoneOpen
    <3>. QED  BY <1>2, <1>4, <3>2, <3>8, <3>9, <3>10 DEF CommitterInOrder, good
  <2>. QED  BY <2>3, <2>4 DEF OrderInv
<1>. QED  BY <1>3, <1>4

(* A consensus is heard of, and whether it is for this node to commit      *)
(* cannot be read: what was heard of last is not committed, and nothing is *)
(* under way.                                                              *)
LEMMA HearAgreedInVainInOrder ==
    ASSUME IInv, OrderInv, NEW n \in Nodes, HearAgreedInVain(n)
    PROVE  OrderInv'
<1>. DEFINE h == heard[n].agreed
            next == h + 1
            acc == account[n]["main"]
            call == thread[n]["committee"]
            good == ToCommit(next, agreed, chain)
<1>1. /\ Free(n, "committee") /\ h < Len(agreed)
      /\ heard' = [heard EXCEPT ![n].agreed = @ + 1]
      /\ UNCHANGED <<number, running, thread, account, contractVars>>
      /\ Quiet' => Quiet
    BY DEF HearAgreedInVain, Fail, Quiet
<1>2. /\ UNCHANGED <<thread, account, running, contractVars>>
      /\ UNCHANGED <<proposer, proposal, proposed, agreed, chain>>
      /\ number'[proposer] = number[proposer]
      /\ heard'[n].agreed = next /\ \A x \in Nodes : x # n => heard'[x] = heard[x]
    BY <1>1 DEF contractVars, IInv, NodesOK
<1>3. CASE n # Committer
    BY <1>1, <1>2, <1>3, OrderTyped, RestsInOrder
<1>4. CASE n = Committer
  <2>1. SameCalls /\ SameAccounts /\ UNCHANGED running
      BY <1>2 DEF SameCalls, SameAccounts
  <2>2. OwnInv' /\ RolesKept /\ (\A x \in Nodes : ToldKept(x)) /\ OwnInv
      BY <2>1, RestOrdered DEF OrderInv
  <2>3. ASSUME Quiet' PROVE ProposerInOrder' /\ AgreedInOrder' /\ CommitterInOrder'
    <3>1. ProposerInOrder /\ AgreedInOrder /\ CommitterInOrder
        BY <1>1, <2>3 DEF OrderInv
    <3>2. SerialKept(proposer, "propose", "side", "propose")
        BY <2>2, OrderTyped DEF RolesKept, Role
    <3>3. ProposerInOrder' /\ AgreedInOrder'
        BY <1>2, <2>2, <3>1, <3>2, AgreedKept, ProposerKept, OrderTyped
    <3>4. running[n] = TRUE /\ call.at = "idle"
        BY <1>1, OrderTyped DEF Free
    <3>5. Open(acc, "commit") = {}
      <4>1. Serial(acc, call, "commit", running[n], ToCommit(h, agreed, chain))
          BY <1>4, <3>1 DEF CommitterInOrder
      <4>. QED  BY <1>4, <2>2, <3>4, <4>1, RoleSettled DEF Role
    <3>6. /\ Ascending(chain)
          /\ \A i \in DOMAIN chain : \E j \in 1..next : chain[i].number = agreed[j].number
      <4>1. \A j \in 1..h : j \in 1..next
          BY OrderTyped
      <4>. QED  BY <1>4, <3>1, <4>1 DEF CommitterInOrder
    <3>. HIDE DEF good, next
    <3>7. Serial(acc, call, "commit", running[n], good)
        BY <3>4, <3>5, NoneOpen
    <3>. QED  BY <1>2, <1>4, <3>3, <3>6, <3>7 DEF CommitterInOrder, good
  <2>. QED  BY <2>2, <2>3 DEF OrderInv
<1>. QED  BY <1>3, <1>4

(* What is next in an account, when it is of a method.                     *)
LEMMA MinesNext ==
    ASSUME IInv, NEW n \in Nodes, NEW c \in Chains, NEW m, NEW ok \in BOOLEAN,
           IsNext(n, c, m), MineTx(n, c, ok), UNCHANGED <<thread, running>>
    PROVE  /\ Mines(n, c, ok)
           /\ NextTx(account[n][c]).block \in Blocks
           /\ \E new, p : /\ MinedAt(new, account[n][c], p, ok) /\ Shaped(new)
                          /\ AccountNow(n, c, new)
                          /\ account[n][c].pool[p] = NextTx(account[n][c])
                          /\ account[n][c].pool[p].method = m
<1>1. Mines(n, c, ok) /\ NextTx(account[n][c]).method = m
    BY MineTxMines DEF IsNext
<1>2. PICK new, p : MinedAt(new, account[n][c], p, ok) /\ Shaped(new) /\ AccountNow(n, c, new)
    BY <1>1 DEF Mines
<1>3. account[n][c].pool[p] = NextTx(account[n][c])
    BY <1>2 DEF MinedAt
<1>4. NextTx(account[n][c]).block \in Blocks
    BY NextTxTyped DEF IsNext
<1>. QED  BY <1>1, <1>2, <1>3, <1>4

(* Something is mined that changes no contract.                            *)
LEMMA MinedInOrder ==
    ASSUME IInv, OrderInv, NEW n \in Nodes, NEW c \in Chains, NEW m, NEW ok \in BOOLEAN,
           IsNext(n, c, m), MineTx(n, c, ok), UNCHANGED <<nodeVars, thread, contractVars>>,
           Quiet' => Quiet
    PROVE  OrderInv'
<1>1. UNCHANGED <<number, heard, running, thread>> /\ UNCHANGED contractVars
    BY DEF nodeVars
<1>2. Mines(n, c, ok)
    BY <1>1, MinesNext
<1>3. OwnInv' /\ RolesKept /\ \A x \in Nodes : ToldKept(x)
    BY <1>2, MinesOrdered DEF OrderInv
<1>. QED  BY <1>1, <1>3, OrderTyped, OrderKept

(* A proposal is accepted: it is above all that were, and the one that     *)
(* sent it can be told.                                                    *)
LEMMA MineProposalInOrder ==
    ASSUME IInv, OrderInv, NEW n \in Nodes, MineProposal(n)
    PROVE  OrderInv'
<1>. DEFINE acc == account[n]["side"]
            block == NextTx(acc).block
            call == thread[n]["propose"]
            good == ToPropose(number[n], proposed)
<1>1. /\ IsNext(n, "side", "propose") /\ n = proposer /\ MineTx(n, "side", TRUE)
      /\ proposal' = [block |-> block, signers |-> {n}, decided |-> Quorum = 1]
      /\ proposed' = Append(proposed, block)
      /\ agreed' = IF Quorum = 1 THEN Append(agreed, block) ELSE agreed
      /\ UNCHANGED <<number, heard, running, thread, proposer, chain>>
      /\ Quiet' => Quiet
    BY DEF MineProposal, nodeVars, Fail, Quiet
<1>2. "side" \in Chains /\ "propose" \in Threads
    BY DEF Chains, Threads
<1>3. /\ Mines(n, "side", TRUE) /\ block \in Blocks
      /\ \E new, p : /\ MinedAt(new, acc, p, TRUE) /\ Shaped(new)
                     /\ AccountNow(n, "side", new)
                     /\ acc.pool[p] = NextTx(acc) /\ acc.pool[p].method = "propose"
  <2>1. IsNext(n, "side", "propose") /\ MineTx(n, "side", TRUE) /\ UNCHANGED <<thread, running>>
      BY <1>1
  <2>. QED  BY <1>2, <2>1, MinesNext
<1>4. PICK new, p : /\ MinedAt(new, acc, p, TRUE) /\ Shaped(new) /\ AccountNow(n, "side", new)
                    /\ acc.pool[p] = NextTx(acc) /\ acc.pool[p].method = "propose"
    BY <1>3
<1>5. OwnInv' /\ RolesKept
    BY <1>3, <1>2, MinesOrdered DEF OrderInv
<1>6. ASSUME Quiet' PROVE ProposerInOrder' /\ AgreedInOrder' /\ CommitterInOrder'
  <2>1. ProposerInOrder /\ AgreedInOrder /\ CommitterInOrder
      BY <1>1, <1>6 DEF OrderInv
  <2>2. Serial(acc, call, "propose", running[n], good)
      BY <1>1, <2>1 DEF ProposerInOrder
  <2>3. /\ Open(new, "propose") = {} /\ block \in good
        /\ running[n] => InCall(call, acc, p)
    <3>1. acc.pool[p].block = block
        BY <1>4
    <3>. DEFINE m == "propose"
                alive == running[n]
                ok == TRUE
    <3>2. MinedAt(new, acc, p, ok) /\ Serial(acc, call, m, alive, good) /\ acc.pool[p].method = m
        BY <1>4, <2>2
    <3>. HIDE DEF acc, block, call, good, m, alive, ok
    <3>3. Open(new, m) = {} /\ acc.pool[p].block \in good /\ (alive => InCall(call, acc, p))
        BY <3>2, MinedSerial
    <3>. QED  BY <3>1, <3>3 DEF m, alive
  <2>4. block.number = number[n] /\ Below(proposed, block.number)
      BY <2>3 DEF ToPropose
  <2>5. Ascending(proposed') /\ Below(proposed', number[n] + 1)
      BY <1>1, <1>3, <2>1, <2>4, AscendingGrows, OrderTyped DEF ProposerInOrder
  <2>6. /\ thread'[n]["propose"] = call /\ running'[n] = running[n] /\ number'[n] = number[n]
        /\ account'[n]["side"] = new /\ proposer' = n
      BY <1>1, <1>2, <1>4 DEF AccountNow
  <2>7. ProposerInOrder'
    <3>1. call \in Calls
        BY <1>2, PartsTyped
    <3>2. running[n] => Told(call, new)
        BY <1>4, <2>3, <3>1, ToldNow
    <3>3. call.at = "sending" => running[n]
        BY <1>2 DEF OrderInv, OwnInv, OwnCall
    <3>4. call.at # "sending"
        BY <2>3, <3>3 DEF InCall
    <3>5. Serial(new, call, "propose", running[n], ToPropose(number[n], proposed'))
        BY <2>3, <3>4, NoneOpen
    <3>. QED  BY <2>5, <2>6, <3>2, <3>5 DEF ProposerInOrder
  <2>8. /\ IsIn(block, proposed') /\ \A b : IsIn(b, proposed) => IsIn(b, proposed')
      BY <1>1, <1>3, AppendIsIn, OrderTyped
  <2>9. Below(agreed, block.number)
    <3>. SUFFICES ASSUME NEW i \in DOMAIN agreed PROVE agreed[i].number < block.number
        BY DEF Below
    <3>1. PICK j \in DOMAIN proposed : proposed[j] = agreed[i]
        BY <2>1 DEF AgreedInOrder, IsIn
    <3>2. proposed[j].number < block.number
        BY <2>4 DEF Below
    <3>. QED  BY <3>1, <3>2
  <2>10. AgreedInOrder'
    <3>1. CASE Quorum = 1
      <4>1. agreed' = Append(agreed, block) /\ proposal'.decided
          BY <1>1, <3>1
      <4>2. Ascending(agreed')
          BY <1>3, <2>1, <2>9, <4>1, AscendingGrows, OrderTyped DEF AgreedInOrder
      <4>3. ASSUME NEW i \in DOMAIN agreed' PROVE IsIn(agreed'[i], proposed')
        <5>1. /\ agreed \in Seq(Blocks) /\ DOMAIN agreed' = 1..(Len(agreed) + 1)
              /\ DOMAIN agreed = 1..Len(agreed) /\ Len(agreed) \in Nat
              /\ agreed'[Len(agreed) + 1] = block
              /\ \A j \in 1..Len(agreed) : agreed'[j] = agreed[j]
            BY <1>3, <4>1, OrderTyped
        <5>2. CASE i \in 1..Len(agreed)
            BY <2>1, <2>8, <5>1, <5>2 DEF AgreedInOrder
        <5>3. CASE i = Len(agreed) + 1
            BY <2>8, <5>1, <5>3
        <5>. QED  BY <5>1, <5>2, <5>3
      <4>. QED  BY <4>1, <4>2, <4>3 DEF AgreedInOrder
    <3>2. CASE Quorum # 1
      <4>1. agreed' = agreed /\ proposal'.block = block
          BY <1>1, <3>2
      <4>. QED  BY <2>1, <2>8, <2>9, <4>1 DEF AgreedInOrder
    <3>. QED  BY <3>1, <3>2
  <2>11. CommitterInOrder'
    <3>1. \A j \in 1..heard[Committer].agreed : agreed'[j] = agreed[j]
      <4>1. \A j \in 1..Len(agreed) : Append(agreed, block)[j] = agreed[j]
          BY <1>3, OrderTyped
      <4>. QED  BY <1>1, <4>1, OrderTyped
    <3>2. SerialKept(Committer, "committee", "main", "commit")
        BY <1>5, OrderTyped DEF RolesKept, Role
    <3>. QED  BY <1>1, <2>1, <3>1, <3>2, OrderTyped, CommitterKept
  <2>. QED  BY <2>7, <2>10, <2>11
<1>. QED  BY <1>5, <1>6 DEF OrderInv

(* A signature is accepted, and the proposal may be agreed: it is above    *)
(* all that were.                                                          *)
LEMMA MineSignatureInOrder ==
    ASSUME IInv, OrderInv, NEW n \in Nodes, MineSignature(n)
    PROVE  OrderInv'
<1>. DEFINE block == proposal.block
            enough == Cardinality(proposal.signers \cup {n}) >= Quorum
<1>1. /\ IsNext(n, "side", "sign") /\ MineTx(n, "side", TRUE)
      /\ ~proposal.decided
      /\ proposal' = [proposal EXCEPT !.signers = proposal.signers \cup {n}, !.decided = enough]
      /\ agreed' = IF enough THEN Append(agreed, block) ELSE agreed
      /\ UNCHANGED <<number, heard, running, thread, proposer, proposed, chain, faults>>
    BY DEF MineSignature, SignatureFits, nodeVars
<1>. HIDE DEF enough
<1>2. /\ proposal'.block = block /\ proposal'.decided = enough /\ (Quiet' => Quiet)
      /\ "side" \in Chains
  <2>1. proposal = [block |-> proposal.block, signers |-> proposal.signers,
                    decided |-> proposal.decided]
      BY DEF IInv, ContractsOK
  <2>2. proposal'.block = block /\ proposal'.decided = enough
      BY <1>1, <2>1
  <2>. QED  BY <1>1, <2>2 DEF Quiet, Chains
<1>3. Mines(n, "side", TRUE)
    BY <1>1, <1>2, MinesNext
<1>4. OwnInv' /\ RolesKept /\ \A x \in Nodes : ToldKept(x)
    BY <1>2, <1>3, MinesOrdered DEF OrderInv
<1>5. ASSUME Quiet' PROVE ProposerInOrder' /\ AgreedInOrder' /\ CommitterInOrder'
  <2>1. ProposerInOrder /\ AgreedInOrder /\ CommitterInOrder
      BY <1>2, <1>5 DEF OrderInv
  <2>2. /\ SerialKept(Committer, "committee", "main", "commit")
        /\ SerialKept(proposer, "propose", "side", "propose")
      BY <1>4, OrderTyped DEF RolesKept, Role
  <2>3. ProposerInOrder'
      BY <1>1, <1>4, <2>1, <2>2, OrderTyped, ProposerKept
  <2>4. block \in Blocks /\ IsIn(block, proposed) /\ Below(agreed, block.number)
      BY <1>1, <2>1, OrderTyped DEF AgreedInOrder
  <2>5. AgreedInOrder'
    <3>1. CASE enough
      <4>1. agreed' = Append(agreed, block) /\ proposal'.decided
          BY <1>1, <1>2, <3>1
      <4>2. Ascending(agreed')
          BY <2>1, <2>4, <4>1, AscendingGrows, OrderTyped DEF AgreedInOrder
      <4>3. ASSUME NEW i \in DOMAIN agreed' PROVE IsIn(agreed'[i], proposed)
        <5>1. /\ agreed \in Seq(Blocks) /\ DOMAIN agreed' = 1..(Len(agreed) + 1)
              /\ DOMAIN agreed = 1..Len(agreed) /\ Len(agreed) \in Nat
              /\ agreed'[Len(agreed) + 1] = block
              /\ \A j \in 1..Len(agreed) : agreed'[j] = agreed[j]
            BY <2>4, <4>1, OrderTyped
        <5>2. CASE i \in 1..Len(agreed)
            BY <2>1, <5>1, <5>2 DEF AgreedInOrder
        <5>3. CASE i = Len(agreed) + 1
            BY <2>4, <5>1, <5>3
        <5>. QED  BY <5>1, <5>2, <5>3
      <4>4. proposed' = proposed
          BY <1>1
      <4>. QED  BY <4>1, <4>2, <4>3, <4>4 DEF AgreedInOrder
    <3>2. CASE ~enough
      <4>1. agreed' = agreed /\ proposed' = proposed
          BY <1>1, <3>2
      <4>. QED  BY <1>2, <2>1, <2>4, <4>1 DEF AgreedInOrder
    <3>. QED  BY <3>1, <3>2
  <2>6. CommitterInOrder'
    <3>1. \A j \in 1..heard[Committer].agreed : agreed'[j] = agreed[j]
      <4>1. \A j \in 1..Len(agreed) : Append(agreed, block)[j] = agreed[j]
          BY <2>4, OrderTyped
      <4>. QED  BY <1>1, <4>1, OrderTyped
    <3>. QED  BY <1>1, <2>1, <2>2, <3>1, OrderTyped, CommitterKept
  <2>. QED  BY <2>3, <2>5, <2>6
<1>. QED  BY <1>4, <1>5 DEF OrderInv

(* A block is committed: what the committer heard of last, which is above  *)
(* all that were.                                                          *)
LEMMA MineCommitInOrder ==
    ASSUME IInv, OrderInv, NEW n \in Nodes, MineCommit(n)
    PROVE  OrderInv'
<1>. DEFINE acc == account[n]["main"]
            block == NextTx(acc).block
            call == thread[n]["committee"]
            h == heard[n].agreed
            good == ToCommit(h, agreed, chain)
<1>1. /\ IsNext(n, "main", "commit") /\ MineTx(n, "main", TRUE)
      /\ chain' = Append(chain, block)
      /\ UNCHANGED <<number, heard, running, thread, proposer, proposal, proposed, agreed, faults>>
    BY DEF MineCommit, nodeVars
<1>2. "main" \in Chains /\ "committee" \in Threads /\ (Quiet' => Quiet)
    BY <1>1 DEF Chains, Threads, Quiet
<1>3. Mines(n, "main", TRUE) /\ block \in Blocks
    BY <1>1, <1>2, MinesNext
<1>4. PICK new, p : /\ MinedAt(new, acc, p, TRUE) /\ Shaped(new) /\ AccountNow(n, "main", new)
                    /\ acc.pool[p] = NextTx(acc) /\ acc.pool[p].method = "commit"
    BY <1>1, <1>2, MinesNext
<1>5. OwnInv' /\ RolesKept /\ \A x \in Nodes : ToldKept(x)
    BY <1>2, <1>3, MinesOrdered DEF OrderInv
<1>6. n = Committer
    BY <1>2, <1>4 DEF OrderInv, OwnInv, OwnPool, MinedAt
<1>7. ASSUME Quiet' PROVE ProposerInOrder' /\ AgreedInOrder' /\ CommitterInOrder'
  <2>1. ProposerInOrder /\ AgreedInOrder /\ CommitterInOrder
      BY <1>2, <1>7 DEF OrderInv
  <2>2. SerialKept(proposer, "propose", "side", "propose")
      BY <1>5, OrderTyped DEF RolesKept, Role
  <2>3. ProposerInOrder' /\ AgreedInOrder'
      BY <1>1, <1>5, <2>1, <2>2, OrderTyped, ProposerKept, AgreedKept
  <2>4. Serial(acc, call, "commit", running[n], good)
      BY <1>6, <2>1 DEF CommitterInOrder
  <2>5. /\ Open(new, "commit") = {} /\ block \in good
        /\ running[n] => InCall(call, acc, p)
    <3>1. acc.pool[p].block = block
        BY <1>4
    <3>. DEFINE m == "commit"
                alive == running[n]
                ok == TRUE
    <3>2. MinedAt(new, acc, p, ok) /\ Serial(acc, call, m, alive, good) /\ acc.pool[p].method = m
        BY <1>4, <2>4
    <3>. HIDE DEF acc, block, call, good, m, alive, ok
    <3>3. Open(new, m) = {} /\ acc.pool[p].block \in good /\ (alive => InCall(call, acc, p))
        BY <3>2, MinedSerial
    <3>. QED  BY <3>1, <3>3 DEF m, alive
  <2>6. 0 < h /\ block = agreed[h] /\ Below(chain, block.number) /\ h \in Nat
      BY <2>5, OrderTyped DEF ToCommit
  <2>7. Ascending(chain')
      BY <1>1, <1>3, <2>1, <2>6, AscendingGrows, OrderTyped DEF CommitterInOrder
  <2>8. ASSUME NEW i \in DOMAIN chain' PROVE \E j \in 1..h : chain'[i].number = agreed[j].number
    <3>1. /\ chain \in Seq(Blocks) /\ DOMAIN chain' = 1..(Len(chain) + 1)
          /\ DOMAIN chain = 1..Len(chain) /\ Len(chain) \in Nat
          /\ chain'[Len(chain) + 1] = block
          /\ \A j \in 1..Len(chain) : chain'[j] = chain[j]
        BY <1>1, <1>3, OrderTyped
    <3>2. CASE i \in 1..Len(chain)
        BY <1>6, <2>1, <3>1, <3>2 DEF CommitterInOrder
    <3>3. CASE i = Len(chain) + 1
      <4>1. h \in 1..h
          BY <2>6
      <4>. QED  BY <2>6, <3>1, <3>3, <4>1
    <3>. QED  BY <3>1, <3>2, <3>3
  <2>9. call.at # "sending"
    <3>1. call.at = "sending" => running[n]
        BY <1>2 DEF OrderInv, OwnInv, OwnCall
    <3>. QED  BY <2>5, <3>1 DEF InCall
  <2>10. Serial(new, call, "commit", running[n], ToCommit(h, agreed, chain'))
      BY <2>5, <2>9, NoneOpen
  <2>11. /\ thread'[n]["committee"] = call /\ running'[n] = running[n] /\ heard'[n].agreed = h
         /\ account'[n]["main"] = new /\ agreed' = agreed
      BY <1>1, <1>2, <1>4 DEF AccountNow
  <2>12. CommitterInOrder'
      BY <1>6, <2>7, <2>8, <2>10, <2>11 DEF CommitterInOrder
  <2>. QED  BY <2>3, <2>12
<1>. QED  BY <1>5, <1>7 DEF OrderInv

-----------------------------------------------------------------------------
(* The order is kept by every step.                                        *)

(* Nothing is sent, proposed, agreed or committed at first.                *)
LEMMA OrderInit == ASSUME Init PROVE OrderInv
<1>1. /\ thread = [n \in Nodes |-> [t \in Threads |-> Idle]]
      /\ account = [n \in Nodes |-> [c \in {"side", "main"} |-> NewAccount]]
      /\ proposer \in Nodes /\ proposal.decided
      /\ proposed = <<>> /\ agreed = <<>> /\ chain = <<>>
    BY DEF Init
<1>2. \A n \in Nodes : /\ \A t \in Threads : thread[n][t] = Idle
                       /\ \A c \in Chains : account[n][c] = NewAccount
    BY <1>1 DEF Chains
<1>3. Idle.at = "idle" /\ DOMAIN NewAccount.pool = {} /\ \A m : Open(NewAccount, m) = {}
    BY DEF Idle, NewAccount, Open
<1>4. OwnInv
    BY <1>2, <1>3 DEF OwnInv, OwnCall, OwnPool
<1>5. "propose" \in Threads /\ "committee" \in Threads /\ "side" \in Chains /\ "main" \in Chains
    BY DEF Threads, Chains
<1>6. \A m, alive, good : Serial(NewAccount, Idle, m, alive, good)
    BY <1>3, NoneOpen
<1>7. DOMAIN proposed = {} /\ DOMAIN agreed = {} /\ DOMAIN chain = {}
    BY <1>1
<1>8. ProposerInOrder
  <2>1. Serial(account[proposer]["side"], thread[proposer]["propose"], "propose",
               running[proposer], ToPropose(number[proposer], proposed))
      BY <1>1, <1>2, <1>5, <1>6
  <2>. QED  BY <1>7, <2>1 DEF ProposerInOrder, Ascending, Below
<1>9. AgreedInOrder
    BY <1>1, <1>7 DEF AgreedInOrder, Ascending
<1>10. CommitterInOrder
  <2>1. Serial(account[Committer]["main"], thread[Committer]["committee"], "commit",
               running[Committer], ToCommit(heard[Committer].agreed, agreed, chain))
      BY <1>2, <1>5, <1>6, CommitteeAssumption
  <2>. QED  BY <1>7, <2>1 DEF CommitterInOrder, Ascending
<1>. QED  BY <1>4, <1>8, <1>9, <1>10 DEF OrderInv

(* A step of a node keeps it.                                              *)
LEMMA NodeInOrder ==
    ASSUME IInv, OrderInv, NEW n \in Nodes, NodeNext(n)
    PROVE  OrderInv'
<1>0. "propose" \in Threads /\ "committee" \in Threads /\ {"bridge", "withdraw"} \subseteq Threads
    BY DEF Threads
<1>1. CASE Propose(n) \/ PassOver(n) \/ ProposerUnknown(n)
    BY <1>1, ProposeInOrder, PassOverInOrder, ProposerUnknownInOrder
<1>2. CASE ProposeLoop(n)
    BY <1>0, <1>2, GoOnInOrder, ProposedInOrder DEF ProposeLoop
<1>3. CASE CommitteeLoop(n)
    BY <1>0, <1>3, HearProposedInOrder, HearAgreedInOrder, GoOnInOrder, DoneInOrder
    DEF CommitteeLoop
<1>4. CASE CommitPanics(n) \/ Restart(n)
    BY <1>4, CommitPanicsInOrder, NotQuiet
<1>5. CASE \E t \in {"bridge", "withdraw"} : OtherCall(n, t) \/ OtherLoop(n, t)
  <2>1. PICK t \in {"bridge", "withdraw"} : OtherCall(n, t) \/ GoOn(n, t) \/ OtherDone(n, t)
      BY <1>5 DEF OtherLoop
  <2>2. t \in Threads /\ t # "propose"
      BY <1>0
  <2>. QED  BY <2>1, <2>2, OtherCallInOrder, GoOnInOrder, DoneInOrder
<1>6. CASE \E t \in Threads : SendReplaces(n, t) \/ SendErrors(n, t) \/ WaitErrors(n, t)
    BY <1>6, SendsInOrder, UnsentInOrder, NotQuiet
<1>7. CASE \E subscriptions \in SUBSET {"proposed", "agreed"} : Drop(n, subscriptions)
    BY <1>7, DropInOrder
<1>8. CASE HearProposedInVain(n) \/ HearAgreedInVain(n)
    BY <1>8, HearProposedInVainInOrder, HearAgreedInVainInOrder
<1>. QED  BY <1>1, <1>2, <1>3, <1>4, <1>5, <1>6, <1>7, <1>8 DEF NodeNext

(* What a chain mines does.                                                *)
LEMMA ChainsInOrder ==
    ASSUME IInv, OrderInv, NEW n \in Nodes, MineSide(n) \/ MineMain(n) \/ MineCommitReverts(n)
    PROVE  OrderInv'
<1>1. CASE MineProposal(n) \/ MineSignature(n) \/ MineCommit(n)
    BY <1>1, MineProposalInOrder, MineSignatureInOrder, MineCommitInOrder
<1>2. CASE MineProposalReverts(n) \/ MineSignatureReverts(n)
  <2>1. PICK m : /\ IsNext(n, "side", m) /\ MineTx(n, "side", FALSE)
                 /\ UNCHANGED <<nodeVars, thread, contractVars, faults>>
      BY <1>2 DEF MineProposalReverts, MineSignatureReverts
  <2>2. UNCHANGED <<nodeVars, thread, contractVars>> /\ (Quiet' => Quiet)
      BY <2>1 DEF Quiet
  <2>. QED  BY <2>1, <2>2, MinedInOrder DEF Chains
<1>3. CASE MineOther(n, "bridge", "side") \/ MineOther(n, "withdraw", "main")
  <2>1. PICK t, c : c \in Chains /\ MineOther(n, t, c)
      BY <1>3 DEF Chains
  <2>2. PICK ok \in BOOLEAN : MineTx(n, c, ok)
      BY <2>1 DEF MineOther
  <2>3. IsNext(n, c, t) /\ UNCHANGED <<nodeVars, thread, contractVars>> /\ (Quiet' => Quiet)
      BY <2>1 DEF MineOther, Quiet
  <2>. QED  BY <2>1, <2>2, <2>3, MinedInOrder
<1>4. CASE MineCommitReverts(n)
  <2>1. /\ IsNext(n, "main", "commit") /\ MineTx(n, "main", FALSE)
        /\ UNCHANGED <<nodeVars, thread, contractVars>> /\ (Quiet' => Quiet)
      BY <1>4 DEF MineCommitReverts, Fail, Quiet
  <2>. QED  BY <2>1, MinedInOrder DEF Chains
<1>. QED  BY <1>1, <1>2, <1>3, <1>4 DEF MineSide, MineMain

(* Every step does.                                                        *)
LEMMA NextInOrder ==
    ASSUME IInv, OrderInv, [Next]_vars
    PROVE  OrderInv'
<1>1. CASE UNCHANGED vars
  <2>1. /\ UNCHANGED <<thread, account, running, contractVars>> /\ (Quiet' => Quiet)
        /\ number'[proposer] = number[proposer]
        /\ heard'[Committer].agreed = heard[Committer].agreed
      BY <1>1 DEF vars, nodeVars, Quiet
  <2>. QED  BY <2>1, RestsInOrder
<1>2. CASE Next
  <2>1. PICK n \in Nodes : \/ NodeNext(n) \/ MineSide(n) \/ MineMain(n)
                          \/ MineCommitReverts(n) \/ RotateProposer(n)
      BY <1>2 DEF Next
  <2>. QED  BY <2>1, NodeInOrder, ChainsInOrder, NotQuiet
<1>. QED  BY <1>1, <1>2

(* The main chain gets every block number at most once and in ascending    *)
(* order, unless a receipt was not heard of, the proposer changed, or a    *)
(* node was restarted: for any nodes, quorum, sizes and number of the      *)
(* other failures, and whatever the bridge and the withdrawals do with the *)
(* same accounts.                                                          *)
THEOREM CommitsInOrder == Spec => []CommittedInOrder
<1>1. Init => OrderInv
    BY OrderInit
<1>2. IInv /\ OrderInv /\ [Next]_vars => OrderInv'
    BY NextInOrder
<1>3. OrderInv => CommittedInOrder
    BY DEF OrderInv, Quiet, CommitterInOrder, Ascending, CommittedInOrder
<1>. QED  BY <1>1, <1>2, <1>3, CommitteeInvariant, PTL DEF Spec
=============================================================================
