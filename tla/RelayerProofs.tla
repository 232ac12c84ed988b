--------------------------- MODULE RelayerProofs ----------------------------
(***************************************************************************)
(* What holds of Relayer for any number of handlers, any blocks and any    *)
(* bounds: that no deposit is minted twice, that relayDeposit does not lie *)
(* about what became of one, that every proof sent to the main chain fits, *)
(* and that a client who gets a hash was paid.                             *)
(***************************************************************************)
EXTENDS Relayer, OperatorProofs

-----------------------------------------------------------------------------
(* Blocks *)

Blocks == [number : Nat, transitions : BlockContents]

(* A block the aggregator committed is read back from the chain and from   *)
(* the table as it was.                                                    *)
LEMMA CommittedRoundTrip ==
    ASSUME NEW b \in Blocks
    PROVE  DeserializeBlock(SerializeBlock(b)) = b
<1> DEFINE content == b.transitions
           S == {content[i] : i \in DOMAIN content}
<1>1. content \in BlockContents /\ b = [number |-> b.number, transitions |-> content]
    BY DEF Blocks
<1>2. content \in Seq(S) /\ \A i \in DOMAIN content : Encodable(content[i])
    BY <1>1, RelayerAssumption
<1> HIDE DEF S
<1> QED  BY <1>1, <1>2, BlockRoundTrip

-----------------------------------------------------------------------------
(* The accounts.  A transaction is placed at a nonce, new or used but not  *)
(* mined; what is mined stays as it is.                                    *)

Mints == {[method |-> "deposit", deposit |-> d] : d \in 1..MaxDeposits}
Claims == {IncludedTransition(b, i) : b \in Blocks, i \in Int}
Withdrawals == {[method |-> "withdraw", included |-> x] : x \in Claims}

SideTxs == Mints \cup {OtherTx}
MainTxs == Withdrawals \cup {OtherTx}

AccountsOf(T) == {acc \in [pool : Seq(T), receipts : Seq(BOOLEAN)] :
                     Len(acc.receipts) <= Len(acc.pool)}

Placed(new, acc, p, tx) ==
    /\ new.receipts = acc.receipts
    /\ p \notin DOMAIN acc.receipts
    /\ DOMAIN new.pool = DOMAIN acc.pool \cup {p}
    /\ new.pool[p] = tx
    /\ \A i \in DOMAIN acc.pool : i # p => new.pool[i] = acc.pool[i]

(* A transaction sent with a nonce nobody used is placed behind the        *)
(* others.                                                                 *)
LEMMA SentPlaces ==
    ASSUME NEW T, NEW acc \in AccountsOf(T), NEW tx \in T
    PROVE  LET new == Sent(acc, tx)
           IN  /\ new \in AccountsOf(T)
               /\ Placed(new, acc, Len(acc.pool) + 1, tx)
               /\ Len(new.pool) = Len(acc.pool) + 1
<1> DEFINE new == Sent(acc, tx)
           pool == Append(acc.pool, tx)
<1>0. /\ acc \in [pool : Seq(T), receipts : Seq(BOOLEAN)]
      /\ Len(acc.receipts) <= Len(acc.pool)
    BY DEF AccountsOf
<1>1. /\ acc.pool \in Seq(T) /\ acc.receipts \in Seq(BOOLEAN)
      /\ new \in [pool : Seq(T), receipts : Seq(BOOLEAN)]
      /\ new.pool = pool /\ new.receipts = acc.receipts
    BY <1>0 DEF Sent
<1>2. /\ pool \in Seq(T) /\ Len(pool) = Len(acc.pool) + 1
      /\ pool[Len(acc.pool) + 1] = tx
      /\ \A i \in DOMAIN acc.pool : pool[i] = acc.pool[i]
    BY <1>1
<1> HIDE DEF new, pool
<1>3. new \in AccountsOf(T)
    BY <1>0, <1>1, <1>2 DEF AccountsOf
<1>4. DOMAIN pool = DOMAIN acc.pool \cup {Len(acc.pool) + 1}
  <2>1. /\ DOMAIN acc.pool = 1..Len(acc.pool) /\ Len(acc.pool) \in Nat
        /\ DOMAIN pool = 1..(Len(acc.pool) + 1)
      BY <1>1, <1>2
  <2> QED  BY <2>1
<1>5. Len(acc.pool) + 1 \notin DOMAIN acc.receipts
    BY <1>0
<1>6. Placed(new, acc, Len(acc.pool) + 1, tx)
    BY <1>1, <1>2, <1>4, <1>5 DEF Placed
<1> QED  BY <1>1, <1>2, <1>3, <1>6 DEF new

(* One sent with a nonce that is used but not mined takes its place.       *)
LEMMA ReplacedPlaces ==
    ASSUME NEW T, NEW acc \in AccountsOf(T), NEW tx \in T,
           NEW nonce \in Nat, Replaceable(acc, nonce)
    PROVE  LET new == Replaced(acc, nonce, tx)
           IN  /\ new \in AccountsOf(T)
               /\ Placed(new, acc, nonce + 1, tx)
               /\ Len(new.pool) = Len(acc.pool)
<1> DEFINE new == Replaced(acc, nonce, tx)
           pool == [acc.pool EXCEPT ![nonce + 1] = tx]
<1>0. /\ acc \in [pool : Seq(T), receipts : Seq(BOOLEAN)]
      /\ Len(acc.receipts) <= Len(acc.pool)
      /\ Len(acc.receipts) <= nonce /\ nonce + 1 \in 1..Len(acc.pool)
    BY DEF AccountsOf, Replaceable
<1>1. /\ acc.pool \in Seq(T) /\ acc.receipts \in Seq(BOOLEAN)
      /\ new \in [pool : Seq(T), receipts : Seq(BOOLEAN)]
      /\ new.pool = pool /\ new.receipts = acc.receipts
    BY <1>0, SMTT(30) DEF Replaced
<1>2. /\ pool \in Seq(T) /\ Len(pool) = Len(acc.pool) /\ DOMAIN pool = DOMAIN acc.pool
      /\ pool[nonce + 1] = tx
      /\ \A i \in DOMAIN acc.pool : i # nonce + 1 => pool[i] = acc.pool[i]
    BY <1>0, <1>1
<1> HIDE DEF new, pool
<1>3. new \in AccountsOf(T)
    BY <1>0, <1>1, <1>2 DEF AccountsOf
<1>4. nonce + 1 \notin DOMAIN acc.receipts /\ nonce + 1 \in DOMAIN acc.pool
    BY <1>0, <1>1
<1>5. Placed(new, acc, nonce + 1, tx)
    BY <1>1, <1>2, <1>4 DEF Placed
<1> QED  BY <1>1, <1>2, <1>3, <1>5 DEF new

(* Mining gives the next transaction a receipt.                            *)
MinedNext(new, acc, p, ok) ==
    /\ new.pool = acc.pool
    /\ p \in DOMAIN acc.pool
    /\ p \notin DOMAIN acc.receipts
    /\ DOMAIN new.receipts = DOMAIN acc.receipts \cup {p}
    /\ new.receipts[p] = ok
    /\ \A i \in DOMAIN acc.receipts : new.receipts[i] = acc.receipts[i]
    /\ NextTx(acc) = acc.pool[p]

(* Mined adds one receipt, for the transaction that was next.              *)
LEMMA MinedExtends ==
    ASSUME NEW T, NEW acc \in AccountsOf(T), NEW ok \in BOOLEAN, Unmined(acc)
    PROVE  LET new == Mined(acc, ok)
           IN  /\ new \in AccountsOf(T)
               /\ MinedNext(new, acc, Len(acc.receipts) + 1, ok)
<1> DEFINE new == Mined(acc, ok)
           receipts == Append(acc.receipts, ok)
           p == Len(acc.receipts) + 1
<1>0. /\ acc \in [pool : Seq(T), receipts : Seq(BOOLEAN)]
      /\ Len(acc.receipts) < Len(acc.pool)
      /\ NextTx(acc) = acc.pool[p]
    BY DEF AccountsOf, Unmined, NextTx
<1>1. /\ acc.pool \in Seq(T) /\ acc.receipts \in Seq(BOOLEAN)
      /\ new \in [pool : Seq(T), receipts : Seq(BOOLEAN)]
      /\ new.pool = acc.pool /\ new.receipts = receipts
    BY <1>0, SMTT(30) DEF Mined
<1>2. /\ receipts \in Seq(BOOLEAN) /\ Len(receipts) = p /\ receipts[p] = ok
      /\ \A i \in DOMAIN acc.receipts : receipts[i] = acc.receipts[i]
      /\ DOMAIN receipts = DOMAIN acc.receipts \cup {p}
      /\ p \in DOMAIN acc.pool /\ p \notin DOMAIN acc.receipts
    BY <1>0, <1>1
<1>3. p <= Len(acc.pool)
    BY <1>0, <1>1
<1> HIDE DEF new, receipts, p
<1>4. new \in AccountsOf(T)
    BY <1>1, <1>2, <1>3 DEF AccountsOf
<1> QED  BY <1>0, <1>1, <1>2, <1>4 DEF MinedNext, new, p

(* What has a receipt was sent.                                            *)
LEMMA AccountShape ==
    ASSUME NEW T, NEW acc \in AccountsOf(T)
    PROVE  /\ DOMAIN acc.receipts \subseteq DOMAIN acc.pool
           /\ Len(acc.pool) \in Nat /\ Len(acc.receipts) \in Nat
           /\ \A i \in DOMAIN acc.pool : acc.pool[i] \in T
           /\ \A i \in DOMAIN acc.receipts : acc.receipts[i] \in BOOLEAN
           /\ \A i : i \in DOMAIN acc.receipts <=> i \in Nat /\ 1 <= i /\ i <= Len(acc.receipts)
<1>1. /\ acc.pool \in Seq(T) /\ acc.receipts \in Seq(BOOLEAN)
      /\ Len(acc.receipts) <= Len(acc.pool)
    BY DEF AccountsOf
<1> QED  BY <1>1

-----------------------------------------------------------------------------
(* Mints.  A deposit stands at one nonce, and is minted when its           *)
(* transaction is mined with success.                                      *)

IsMint(tx) == tx.method = "deposit"

Absent(acc, d) ==
    \A i \in DOMAIN acc.pool : IsMint(acc.pool[i]) => acc.pool[i].deposit # d

(* Wherever the deposit stands, its transaction failed.                    *)
Refused(acc, d) ==
    \A i \in DOMAIN acc.pool :
        IsMint(acc.pool[i]) /\ acc.pool[i].deposit = d =>
            i \in DOMAIN acc.receipts /\ ~acc.receipts[i]

IsMinted(d, done) == \E k \in DOMAIN done : done[k] = d

Distinct(acc) ==
    \A i, j \in DOMAIN acc.pool :
        IsMint(acc.pool[i]) /\ IsMint(acc.pool[j]) /\ acc.pool[i].deposit = acc.pool[j].deposit
            => i = j

Succeeded(acc, i) == i \in DOMAIN acc.receipts /\ acc.receipts[i] /\ IsMint(acc.pool[i])

MintsOK(acc, done) ==
    /\ Distinct(acc)
    /\ \A k \in DOMAIN done : \E i : Succeeded(acc, i) /\ acc.pool[i].deposit = done[k]
    /\ \A i : Succeeded(acc, i) => IsMinted(acc.pool[i].deposit, done)
    /\ \A k, l \in DOMAIN done : done[k] = done[l] => k = l

(* A transaction placed where nothing is mined mints nothing, and the      *)
(* books stay as they are when its deposit stands nowhere yet.             *)
LEMMA PlacedMints ==
    ASSUME NEW acc \in AccountsOf(SideTxs), NEW new, NEW p, NEW tx, Placed(new, acc, p, tx),
           NEW done, MintsOK(acc, done),
           IsMint(tx) => Absent(acc, tx.deposit)
    PROVE  /\ MintsOK(new, done)
           /\ \A d : ~(IsMint(tx) /\ tx.deposit = d) =>
                 /\ Absent(acc, d) => Absent(new, d)
                 /\ Refused(acc, d) => Refused(new, d)
<1>1. DOMAIN acc.receipts \subseteq DOMAIN acc.pool
    BY AccountShape
<1>2. \A i : Succeeded(new, i) <=> Succeeded(acc, i)
    BY <1>1 DEF Succeeded, Placed
<1>3. \A i : Succeeded(acc, i) => new.pool[i] = acc.pool[i]
    BY <1>1 DEF Succeeded, Placed
<1>4. Distinct(new)
    BY DEF MintsOK, Distinct, Absent, Placed
<1>5. MintsOK(new, done)
    BY <1>2, <1>3, <1>4 DEF MintsOK
<1>6. ASSUME NEW d, ~(IsMint(tx) /\ tx.deposit = d)
      PROVE  /\ Absent(acc, d) => Absent(new, d)
             /\ Refused(acc, d) => Refused(new, d)
    BY <1>6 DEF Absent, Refused, Placed
<1> QED  BY <1>5, <1>6

(* A transaction without success, or that does not mint, is mined.         *)
LEMMA MinedWithout ==
    ASSUME NEW acc \in AccountsOf(SideTxs), NEW new, NEW p, NEW ok \in BOOLEAN,
           MinedNext(new, acc, p, ok), ~(ok /\ IsMint(acc.pool[p])),
           NEW done, MintsOK(acc, done)
    PROVE  /\ MintsOK(new, done)
           /\ \A d : (Absent(acc, d) => Absent(new, d)) /\ (Refused(acc, d) => Refused(new, d))
<1>1. \A i : Succeeded(new, i) <=> Succeeded(acc, i)
    BY DEF Succeeded, MinedNext
<1>2. MintsOK(new, done)
    BY <1>1 DEF MintsOK, Distinct, MinedNext
<1> QED  BY <1>2 DEF Absent, Refused, MinedNext

(* A deposit is minted.                                                    *)
LEMMA MinedMint ==
    ASSUME NEW acc \in AccountsOf(SideTxs), NEW new, NEW p, MinedNext(new, acc, p, TRUE),
           IsMint(acc.pool[p]), NEW S, NEW done \in Seq(S), MintsOK(acc, done),
           acc.pool[p].deposit \in S,
           NEW more, more = Append(done, acc.pool[p].deposit)
    PROVE  /\ MintsOK(new, more) /\ more \in Seq(S)
           /\ \A d : IsMinted(d, done) => IsMinted(d, more)
           /\ \A d : (Absent(acc, d) => Absent(new, d)) /\ (Refused(acc, d) => Refused(new, d))
<1> DEFINE d == acc.pool[p].deposit
           n == Len(done) + 1
<1>1. /\ more \in Seq(S)
      /\ DOMAIN more = DOMAIN done \cup {n} /\ n \notin DOMAIN done
      /\ more[n] = d /\ \A k \in DOMAIN done : more[k] = done[k]
    OBVIOUS
<1> HIDE DEF n
<1>2. \A i : Succeeded(new, i) <=> Succeeded(acc, i) \/ i = p
    BY DEF Succeeded, MinedNext
<1>3. /\ new.pool = acc.pool /\ Distinct(new) /\ p \in DOMAIN acc.pool
      /\ p \notin DOMAIN acc.receipts
    BY DEF MintsOK, Distinct, MinedNext
<1>4. \A k \in DOMAIN done : done[k] # d
  <2> SUFFICES ASSUME NEW k \in DOMAIN done, done[k] = d PROVE FALSE
      OBVIOUS
  <2>1. PICK i : Succeeded(acc, i) /\ acc.pool[i].deposit = d
      BY DEF MintsOK
  <2>2. i \in DOMAIN acc.pool
      BY <2>1, AccountShape DEF Succeeded
  <2>3. i = p
      BY <1>3, <2>1, <2>2 DEF Distinct, Succeeded
  <2> QED  BY <1>3, <2>1, <2>3 DEF Succeeded
<1>5. \A k \in DOMAIN more : \E i : Succeeded(new, i) /\ new.pool[i].deposit = more[k]
    BY <1>1, <1>2, <1>3 DEF MintsOK
<1>6. \A i : Succeeded(new, i) => IsMinted(new.pool[i].deposit, more)
    BY <1>1, <1>2, <1>3, SMTT(30) DEF MintsOK, IsMinted
<1>7. \A k, l \in DOMAIN more : more[k] = more[l] => k = l
    BY <1>1, <1>4 DEF MintsOK
<1>8. MintsOK(new, more)
    BY <1>3, <1>5, <1>6, <1>7 DEF MintsOK
<1>9. \A x : IsMinted(x, done) => IsMinted(x, more)
    BY <1>1 DEF IsMinted
<1>10. \A x : (Absent(acc, x) => Absent(new, x)) /\ (Refused(acc, x) => Refused(new, x))
    BY DEF Absent, Refused, MinedNext
<1> QED  BY <1>1, <1>8, <1>9, <1>10

-----------------------------------------------------------------------------
(* The bridge.  It is at the deposit it took last; that deposit is at no   *)
(* nonce until it is sent, and nothing was said about it yet.              *)

MintTx(d) == [method |-> "deposit", deposit |-> d]

BridgeOK(acc, r, b) ==
    /\ b \in [at : {"idle", "sending", "waiting"}, tx : Mints \cup {NoTx}, nonce : Nat]
    /\ b.at # "idle" => r >= 1 /\ b.tx = MintTx(r)
    /\ b.at = "sending" => Absent(acc, r)

OutcomesOK(acc, done, r, b, o, unheard) ==
    \A d \in 1..MaxDeposits :
        /\ o[d] = "nil" => IsMinted(d, done)
        /\ o[d] = "error" /\ ~unheard => Refused(acc, d)
        /\ o[d] # "none" => d <= r /\ (b.at # "idle" => d # r)

SideOK(acc, done, r, b, o, unheard) ==
    /\ acc \in AccountsOf(SideTxs)
    /\ done \in Seq(1..MaxDeposits)
    /\ r \in 0..MaxDeposits
    /\ o \in [1..MaxDeposits -> {"none", "nil", "error"}]
    /\ MintsOK(acc, done)
    /\ \A d \in 1..MaxDeposits : d > r => Absent(acc, d)
    /\ BridgeOK(acc, r, b)
    /\ OutcomesOK(acc, done, r, b, o, unheard)

(* A bridge between two calls is right about any deposit.                  *)
LEMMA IdleBridge ==
    ASSUME NEW acc, NEW r
    PROVE  BridgeOK(acc, r, Idle) /\ Idle.at = "idle"
BY DEF BridgeOK, Idle

(* What other goroutines send is a transaction, and mints nothing.         *)
LEMMA OtherIsNoMint == OtherTx \in SideTxs /\ OtherTx \in MainTxs /\ ~IsMint(OtherTx)
BY DEF SideTxs, MainTxs, IsMint, OtherTx

(* The transaction for a deposit mints that deposit.                       *)
LEMMA MintTxIsMint ==
    ASSUME NEW d \in 1..MaxDeposits
    PROVE  /\ MintTx(d) \in Mints /\ MintTx(d) \in SideTxs
           /\ IsMint(MintTx(d)) /\ MintTx(d).deposit = d
BY DEF MintTx, Mints, SideTxs, IsMint

(* The bridge takes the next deposit.                                      *)
LEMMA SideTakes ==
    ASSUME NEW acc, NEW done, NEW r, NEW b, NEW o, NEW u \in BOOLEAN, SideOK(acc, done, r, b, o, u),
           b.at = "idle", r + 1 \in 1..MaxDeposits
    PROVE  SideOK(acc, done, r + 1, Sending(acc, MintTx(r + 1)), o, u)
<1> DEFINE c == Sending(acc, MintTx(r + 1))
<1>1. /\ acc \in AccountsOf(SideTxs) /\ r \in 0..MaxDeposits /\ MaxDeposits \in Nat
      /\ r \in Nat /\ r + 1 > r
    BY RelayerAssumption DEF SideOK
<1>2. c.at = "sending" /\ c.tx = MintTx(r + 1) /\ c.nonce = Len(acc.pool)
      /\ c = [at |-> "sending", tx |-> MintTx(r + 1), nonce |-> Len(acc.pool)]
    BY DEF Sending, PendingNonce
<1>3. Absent(acc, r + 1)
    BY <1>1 DEF SideOK
<1>4. BridgeOK(acc, r + 1, c)
    BY <1>1, <1>2, <1>3, AccountShape, MintTxIsMint DEF BridgeOK
<1> HIDE DEF c
<1>5. OutcomesOK(acc, done, r + 1, c, o, u)
  <2> SUFFICES ASSUME NEW d \in 1..MaxDeposits
               PROVE  /\ o[d] = "nil" => IsMinted(d, done)
                      /\ o[d] = "error" /\ ~u => Refused(acc, d)
                      /\ o[d] # "none" => d <= r + 1 /\ d # r + 1
      BY DEF OutcomesOK
  <2>1. /\ o[d] = "nil" => IsMinted(d, done)
        /\ o[d] = "error" /\ ~u => Refused(acc, d)
        /\ o[d] # "none" => d <= r
      BY DEF SideOK, OutcomesOK
  <2> QED  BY <1>1, <2>1
<1>6. \A d \in 1..MaxDeposits : d > r + 1 => Absent(acc, d)
    BY <1>1 DEF SideOK
<1>7. r + 1 \in 0..MaxDeposits
    BY <1>1
<1> QED  BY <1>4, <1>5, <1>6, <1>7 DEF SideOK, c

(* The bridge sends.                                                       *)
LEMMA SideSends ==
    ASSUME NEW acc, NEW done, NEW r, NEW b, NEW o, NEW u \in BOOLEAN, SideOK(acc, done, r, b, o, u),
           b.at = "sending", NEW new \in AccountsOf(SideTxs), NEW p, Placed(new, acc, p, b.tx)
    PROVE  SideOK(new, done, r, Waiting(b), o, u)
<1> DEFINE c == Waiting(b)
<1>1. /\ acc \in AccountsOf(SideTxs) /\ r \in 0..MaxDeposits /\ MintsOK(acc, done)
      /\ r >= 1 /\ b.tx = MintTx(r) /\ Absent(acc, r)
      /\ b \in [at : {"idle", "sending", "waiting"}, tx : Mints \cup {NoTx}, nonce : Nat]
    BY DEF SideOK, BridgeOK
<1>2. r \in 1..MaxDeposits
    BY <1>1, RelayerAssumption
<1>3. IsMint(b.tx) /\ b.tx.deposit = r
    BY <1>1, <1>2, MintTxIsMint
<1>4. /\ MintsOK(new, done)
      /\ \A d : d # r => /\ Absent(acc, d) => Absent(new, d)
                         /\ Refused(acc, d) => Refused(new, d)
    BY <1>1, <1>3, PlacedMints
<1>5. /\ c \in [at : {"idle", "sending", "waiting"}, tx : Mints \cup {NoTx}, nonce : Nat]
      /\ c.at = "waiting" /\ c.tx = b.tx
    BY <1>1 DEF Waiting
<1> HIDE DEF c
<1>6. BridgeOK(new, r, c)
    BY <1>1, <1>5 DEF BridgeOK
<1>7. OutcomesOK(new, done, r, c, o, u)
  <2> SUFFICES ASSUME NEW d \in 1..MaxDeposits
               PROVE  /\ o[d] = "nil" => IsMinted(d, done)
                      /\ o[d] = "error" /\ ~u => Refused(new, d)
                      /\ o[d] # "none" => d <= r /\ d # r
      BY <1>5 DEF OutcomesOK
  <2>1. /\ o[d] = "nil" => IsMinted(d, done)
        /\ o[d] = "error" /\ ~u => Refused(acc, d)
        /\ o[d] # "none" => d <= r /\ d # r
      BY DEF SideOK, OutcomesOK
  <2> QED  BY <1>4, <2>1
<1>8. \A d \in 1..MaxDeposits : d > r => Absent(new, d)
    BY <1>1, <1>4 DEF SideOK
<1> QED  BY <1>4, <1>6, <1>7, <1>8 DEF SideOK, c

(* Another goroutine of the node sends.                                    *)
LEMMA SideOther ==
    ASSUME NEW acc, NEW done, NEW r, NEW b, NEW o, NEW u \in BOOLEAN, SideOK(acc, done, r, b, o, u),
           NEW new \in AccountsOf(SideTxs), NEW p, Placed(new, acc, p, OtherTx)
    PROVE  SideOK(new, done, r, b, o, u)
<1>1. /\ MintsOK(new, done)
      /\ \A d : /\ Absent(acc, d) => Absent(new, d)
                /\ Refused(acc, d) => Refused(new, d)
    BY OtherIsNoMint, PlacedMints DEF SideOK
<1>2. BridgeOK(new, r, b) /\ OutcomesOK(new, done, r, b, o, u)
    BY <1>1 DEF SideOK, BridgeOK, OutcomesOK
<1> QED  BY <1>1, <1>2 DEF SideOK

(* The next transaction is mined.                                          *)
LEMMA SideMines ==
    ASSUME NEW acc, NEW done, NEW r, NEW b, NEW o, NEW u \in BOOLEAN, SideOK(acc, done, r, b, o, u),
           NEW new \in AccountsOf(SideTxs), NEW p, NEW ok \in BOOLEAN, MinedNext(new, acc, p, ok),
           NEW more, more = IF ok /\ IsMint(acc.pool[p]) THEN Append(done, acc.pool[p].deposit) ELSE done
    PROVE  SideOK(new, more, r, b, o, u)
<1>1. /\ acc \in AccountsOf(SideTxs) /\ MintsOK(acc, done) /\ done \in Seq(1..MaxDeposits)
      /\ p \in DOMAIN acc.pool
    BY DEF SideOK, MinedNext
<1>2. /\ MintsOK(new, more) /\ more \in Seq(1..MaxDeposits)
      /\ \A d : IsMinted(d, done) => IsMinted(d, more)
      /\ \A d : (Absent(acc, d) => Absent(new, d)) /\ (Refused(acc, d) => Refused(new, d))
  <2>1. CASE ok /\ IsMint(acc.pool[p])
    <3>1. acc.pool[p] \in SideTxs
        BY <1>1, AccountShape
    <3>2. acc.pool[p].deposit \in 1..MaxDeposits
        BY <2>1, <3>1, OtherIsNoMint DEF SideTxs, Mints
    <3>3. ok = TRUE
        BY <2>1
    <3>4. MinedNext(new, acc, p, TRUE)
        BY <3>3
    <3>5. more = Append(done, acc.pool[p].deposit)
        BY <2>1
    <3> DEFINE T == 1..MaxDeposits
    <3>6. done \in Seq(T) /\ acc.pool[p].deposit \in T /\ IsMint(acc.pool[p])
        BY <1>1, <2>1, <3>2
    <3> HIDE DEF T
    <3>7. /\ MintsOK(new, more) /\ more \in Seq(T)
          /\ \A d : IsMinted(d, done) => IsMinted(d, more)
          /\ \A d : (Absent(acc, d) => Absent(new, d)) /\ (Refused(acc, d) => Refused(new, d))
        BY <1>1, <3>4, <3>5, <3>6, MinedMint
    <3> QED  BY <3>7 DEF T
  <2>2. CASE ~(ok /\ IsMint(acc.pool[p]))
      BY <1>1, <2>2, MinedWithout
  <2> QED  BY <2>1, <2>2
<1>3. BridgeOK(new, r, b) /\ OutcomesOK(new, more, r, b, o, u)
    BY <1>2 DEF SideOK, BridgeOK, OutcomesOK
<1> QED  BY <1>2, <1>3 DEF SideOK

(* relayDeposit returns.                                                   *)
LEMMA SideReturns ==
    ASSUME NEW acc, NEW done, NEW r, NEW b, NEW o, NEW u \in BOOLEAN, SideOK(acc, done, r, b, o, u),
           b.at # "idle", NEW v \in BOOLEAN, u => v, NEW result \in {"nil", "error"},
           result = "nil" => IsMinted(r, done),
           result = "error" /\ ~v => Refused(acc, r),
           NEW q, q = [o EXCEPT ![r] = result]
    PROVE  SideOK(acc, done, r, Idle, q, v)
<1>1. r \in 1..MaxDeposits
    BY RelayerAssumption DEF SideOK, BridgeOK
<1>2. /\ q \in [1..MaxDeposits -> {"none", "nil", "error"}]
      /\ \A d \in 1..MaxDeposits : q[d] = IF d = r THEN result ELSE o[d]
    BY <1>1 DEF SideOK
<1>3. OutcomesOK(acc, done, r, Idle, q, v)
  <2> SUFFICES ASSUME NEW d \in 1..MaxDeposits
               PROVE  /\ q[d] = "nil" => IsMinted(d, done)
                      /\ q[d] = "error" /\ ~v => Refused(acc, d)
                      /\ q[d] # "none" => d <= r
      BY IdleBridge DEF OutcomesOK
  <2>1. CASE d = r
      BY <1>1, <1>2, <2>1
  <2>2. CASE d # r
      BY <1>2, <2>2 DEF SideOK, OutcomesOK
  <2> QED  BY <2>1, <2>2
<1> QED  BY <1>2, <1>3, IdleBridge DEF SideOK

(* A deposit that stands nowhere was not minted.                           *)
LEMMA NotSentRefused ==
    ASSUME NEW acc, NEW d, Absent(acc, d)
    PROVE  Refused(acc, d)
BY DEF Absent, Refused

(* What the receipt says of the deposit is so.                             *)
LEMMA ReceiptTrue ==
    ASSUME NEW acc, NEW done, NEW r, NEW b, NEW o, NEW u \in BOOLEAN, SideOK(acc, done, r, b, o, u),
           HasReceipt(b, acc)
    PROVE  IF Status(b, acc) THEN IsMinted(r, done) ELSE Refused(acc, r)
<1> DEFINE p == b.nonce + 1
<1>1. /\ b.at = "waiting" /\ acc.pool[p] = b.tx /\ b.nonce < Len(acc.receipts)
      /\ b.tx = MintTx(r) /\ r \in 1..MaxDeposits /\ b.nonce \in Nat
      /\ acc \in AccountsOf(SideTxs) /\ MintsOK(acc, done)
    BY RelayerAssumption DEF HasReceipt, SideOK, BridgeOK
<1>2. p \in DOMAIN acc.receipts /\ p \in DOMAIN acc.pool
    BY <1>1, AccountShape
<1>3. IsMint(acc.pool[p]) /\ acc.pool[p].deposit = r
    BY <1>1, MintTxIsMint
<1>4. Status(b, acc) = acc.receipts[p]
    BY DEF Status
<1> HIDE DEF p
<1>5. CASE acc.receipts[p]
    BY <1>1, <1>2, <1>3, <1>4, <1>5 DEF MintsOK, Succeeded
<1>6. CASE ~acc.receipts[p]
    BY <1>1, <1>2, <1>3, <1>4, <1>6 DEF MintsOK, Distinct, Refused
<1> QED  BY <1>5, <1>6

(* The process ends or starts anew, and events are skipped.                *)
LEMMA SideForgets ==
    ASSUME NEW acc, NEW done, NEW r, NEW b, NEW o, NEW u \in BOOLEAN, SideOK(acc, done, r, b, o, u),
           NEW q \in 0..MaxDeposits, r <= q, NEW v \in BOOLEAN, u => v
    PROVE  SideOK(acc, done, q, Idle, o, v)
<1>1. OutcomesOK(acc, done, q, Idle, o, v)
  <2> SUFFICES ASSUME NEW d \in 1..MaxDeposits
               PROVE  /\ o[d] = "nil" => IsMinted(d, done)
                      /\ o[d] = "error" /\ ~v => Refused(acc, d)
                      /\ o[d] # "none" => d <= q
      BY IdleBridge DEF OutcomesOK
  <2>1. /\ o[d] = "nil" => IsMinted(d, done)
        /\ o[d] = "error" /\ ~u => Refused(acc, d)
        /\ o[d] # "none" => d <= r
      BY DEF SideOK, OutcomesOK
  <2> QED  BY <2>1, RelayerAssumption DEF SideOK
<1>2. \A d \in 1..MaxDeposits : d > q => Absent(acc, d)
    BY RelayerAssumption DEF SideOK
<1> QED  BY <1>1, <1>2, IdleBridge DEF SideOK

(* Only the faults grow.                                                   *)
LEMMA SideUnheard ==
    ASSUME NEW acc, NEW done, NEW r, NEW b, NEW o, NEW u \in BOOLEAN, SideOK(acc, done, r, b, o, u),
           NEW v \in BOOLEAN, u => v
    PROVE  SideOK(acc, done, r, b, o, v)
BY DEF SideOK, OutcomesOK

-----------------------------------------------------------------------------
(* Withdrawals.  The chain has encoded blocks; the table, the handlers and *)
(* the transactions have what was read of them.                            *)

Encoded == {SerializeBlock(b) : b \in Blocks}

(* What the contract accepts, of a withdraw transition.                    *)
FitsIn(ch, x) ==
    \E i \in DOMAIN ch : /\ ch[i].number = x.number
                         /\ ch[i].transitions = x.leaves
                         /\ x.index + 1 \in DOMAIN x.leaves
                         /\ x.transition = x.leaves[x.index + 1]

Good(ch, x) == FitsIn(ch, x) /\ DeserializeTransition(x.transition).type = "withdraw"

Filed(ch, k, x) == \E i \in DOMAIN ch : ch[i] = x /\ x.number = k

TableOK(table, ch) == \A k \in DOMAIN table : Filed(ch, k, table[k])

Asked == [number : Int, index : Int]

MainCalls == [at : {"idle", "sending", "waiting"}, tx : MainTxs \cup {NoTx}, nonce : Nat]

States == [at : {"idle", "asked", "building", "calling"}, request : Asked,
           block : Blocks \cup {NoBlock}, call : MainCalls]

(* The transaction is for what the request asked.                          *)
For(tx, request, ch) ==
    /\ tx \in Withdrawals
    /\ Good(ch, tx.included)
    /\ tx.included.number = TableKey(request.number)
    /\ tx.included.index = request.index

HandlerOK(x, ch) ==
    /\ x \in States
    /\ x.at = "building" =>
          \E i \in DOMAIN ch : /\ x.block = DeserializeBlock(ch[i])
                               /\ ch[i].number = TableKey(x.request.number)
    /\ x.call.at # "idle" => For(x.call.tx, x.request, ch)

HandlersOK(hs, ch) ==
    /\ hs = [h \in Handlers |-> hs[h]]
    /\ \A h \in Handlers : HandlerOK(hs[h], ch)

PoolFits(acc, ch) ==
    \A i \in DOMAIN acc.pool :
        acc.pool[i].method = "withdraw" => Good(ch, acc.pool[i].included)

PaidOut(x, wd) == \E j \in DOMAIN wd : wd[j] = x

PaidOK(acc, wd) ==
    \A i \in DOMAIN acc.receipts :
        acc.receipts[i] /\ acc.pool[i].method = "withdraw" => PaidOut(acc.pool[i].included, wd)

Answers == [request : Asked, result : {"hash", "error"}, tx : MainTxs \cup {NoTx}]

AnswerOK(a, wd) ==
    a.result = "hash" => /\ PaidOut(a.tx.included, wd)
                         /\ a.tx.included.number = TableKey(a.request.number)
                         /\ a.tx.included.index = a.request.index

AnswersOK(ans, wd) == ans \in Seq(Answers) /\ \A i \in DOMAIN ans : AnswerOK(ans[i], wd)

MainOK(acc, ch, table, hs, ans, wd) ==
    /\ acc \in AccountsOf(MainTxs)
    /\ ch \in Seq(Encoded)
    /\ wd \in Seq(Claims)
    /\ TableOK(table, ch)
    /\ HandlersOK(hs, ch)
    /\ PoolFits(acc, ch)
    /\ PaidOK(acc, wd)
    /\ AnswersOK(ans, wd)

(* A handler that serves nobody is right on any chain.                     *)
LEMMA RestingOK == ASSUME NEW ch PROVE HandlerOK(Resting, ch)
<1>1. NoRequest \in Asked /\ Idle \in MainCalls /\ Idle.at = "idle"
    BY DEF NoRequest, Asked, Idle, MainCalls
<1> QED  BY <1>1 DEF HandlerOK, Resting, States

(* One handler changed, and all are right.                                 *)
LEMMA HandlerChange ==
    ASSUME NEW hs, NEW ch, HandlersOK(hs, ch), NEW h \in Handlers,
           NEW new, DOMAIN new = Handlers, new = [g \in Handlers |-> new[g]],
           HandlerOK(new[h], ch), \A g \in Handlers : g # h => new[g] = hs[g]
    PROVE  HandlersOK(new, ch)
BY DEF HandlersOK

(* After a crash or a restart no handler serves anybody.                   *)
LEMMA AllResting == ASSUME NEW ch PROVE HandlersOK([h \in Handlers |-> Resting], ch)
BY RestingOK DEF HandlersOK

(* More blocks on the chain take nothing away.                             *)
LEMMA MoreBlocks ==
    ASSUME NEW ch \in Seq(Encoded), NEW x \in Encoded
    PROVE  LET more == Append(ch, x)
           IN  /\ more \in Seq(Encoded)
               /\ \A y : Good(ch, y) => Good(more, y)
               /\ \A k, y : Filed(ch, k, y) => Filed(more, k, y)
               /\ \A y : HandlerOK(y, ch) => HandlerOK(y, more)
<1> DEFINE more == Append(ch, x)
<1>1. more \in Seq(Encoded) /\ \A i \in DOMAIN ch : i \in DOMAIN more /\ more[i] = ch[i]
    OBVIOUS
<1> HIDE DEF more
<1>2. \A y : Good(ch, y) => Good(more, y)
    BY <1>1 DEF Good, FitsIn
<1>3. \A k, y : Filed(ch, k, y) => Filed(more, k, y)
    BY <1>1 DEF Filed
<1>4. ASSUME NEW y, HandlerOK(y, ch) PROVE HandlerOK(y, more)
  <2>1. /\ y \in States
        /\ y.at = "building" =>
             \E i \in DOMAIN ch : /\ y.block = DeserializeBlock(ch[i])
                                  /\ ch[i].number = TableKey(y.request.number)
        /\ y.call.at # "idle" => For(y.call.tx, y.request, ch)
      BY <1>4 DEF HandlerOK
  <2>2. y.at = "building" =>
             \E i \in DOMAIN more : /\ y.block = DeserializeBlock(more[i])
                                    /\ more[i].number = TableKey(y.request.number)
      BY <1>1, <2>1
  <2>3. y.call.at # "idle" => For(y.call.tx, y.request, more)
      BY <1>2, <2>1 DEF For
  <2> QED  BY <2>1, <2>2, <2>3 DEF HandlerOK
<1> QED  BY <1>1, <1>2, <1>3, <1>4 DEF more

(* A block is committed.                                                   *)
LEMMA MainCommits ==
    ASSUME NEW acc, NEW ch, NEW table, NEW hs, NEW ans, NEW wd, MainOK(acc, ch, table, hs, ans, wd),
           NEW x \in Encoded, NEW more, more = Append(ch, x)
    PROVE  MainOK(acc, more, table, hs, ans, wd)
<1>1. ch \in Seq(Encoded)
    BY DEF MainOK
<1>2. /\ more \in Seq(Encoded)
      /\ \A y : Good(ch, y) => Good(more, y)
      /\ \A k, y : Filed(ch, k, y) => Filed(more, k, y)
      /\ \A y : HandlerOK(y, ch) => HandlerOK(y, more)
    BY <1>1, MoreBlocks
<1> QED  BY <1>2 DEF MainOK, TableOK, HandlersOK, PoolFits

(* A block of the chain is filed as it is.                                 *)
LEMMA MainFiles ==
    ASSUME NEW acc, NEW ch, NEW table, NEW hs, NEW ans, NEW wd, MainOK(acc, ch, table, hs, ans, wd),
           NEW i \in DOMAIN ch, NEW block, block = DeserializeBlock(ch[i])
    PROVE  MainOK(acc, ch, Put(table, TableKey(block.number), SerializeBlock(block)), hs, ans, wd)
<1> DEFINE new == Put(table, TableKey(block.number), SerializeBlock(block))
<1>1. ch[i] \in Encoded
    BY DEF MainOK
<1>2. PICK b \in Blocks : ch[i] = SerializeBlock(b)
    BY <1>1 DEF Encoded
<1>3. block = b
    BY <1>2, CommittedRoundTrip
<1>4. ch[i].number = b.number /\ b.number \in Nat /\ TableKey(b.number) = b.number
    BY <1>2 DEF SerializeBlock, Blocks, TableKey
<1>5. \A k \in DOMAIN new :
         new[k] = (IF k = b.number THEN ch[i] ELSE table[k]) /\ (k = b.number \/ k \in DOMAIN table)
    BY <1>2, <1>3, <1>4 DEF Put
<1>6. TableOK(new, ch)
    BY <1>4, <1>5 DEF MainOK, TableOK, Filed
<1> QED  BY <1>6 DEF MainOK

(* A handler goes on.                                                      *)
LEMMA MainHandles ==
    ASSUME NEW acc, NEW ch, NEW table, NEW hs, NEW ans, NEW wd, MainOK(acc, ch, table, hs, ans, wd),
           NEW h \in Handlers, NEW x, HandlerOK(x, ch)
    PROVE  MainOK(acc, ch, table, [hs EXCEPT ![h] = x], ans, wd)
<1> DEFINE new == [hs EXCEPT ![h] = x]
<1>1. HandlersOK(hs, ch)
    BY DEF MainOK
<1>2. DOMAIN hs = Handlers
    BY <1>1 DEF HandlersOK
<1>3. /\ new = [g \in Handlers |-> new[g]] /\ new[h] = x /\ DOMAIN new = Handlers
      /\ \A g \in Handlers : g # h => new[g] = hs[g]
    BY <1>2
<1> HIDE DEF new
<1>4. HandlersOK(new, ch)
    BY <1>1, <1>3, HandlerChange
<1> QED  BY <1>4 DEF MainOK, new

(* A handler answers.                                                      *)
LEMMA MainAnswers ==
    ASSUME NEW acc, NEW ch, NEW table, NEW hs, NEW ans, NEW wd, MainOK(acc, ch, table, hs, ans, wd),
           NEW h \in Handlers, NEW a \in Answers, AnswerOK(a, wd)
    PROVE  MainOK(acc, ch, table, [hs EXCEPT ![h] = Resting], Append(ans, a), wd)
<1>1. MainOK(acc, ch, table, [hs EXCEPT ![h] = Resting], ans, wd)
    BY MainHandles, RestingOK
<1> DEFINE more == Append(ans, a)
           new == [hs EXCEPT ![h] = Resting]
<1>2. ans \in Seq(Answers)
    BY DEF MainOK, AnswersOK
<1>3. /\ more \in Seq(Answers) /\ DOMAIN more = 1..(Len(ans) + 1)
      /\ more[Len(ans) + 1] = a /\ \A i \in DOMAIN ans : more[i] = ans[i]
      /\ DOMAIN ans = 1..Len(ans) /\ Len(ans) \in Nat
    BY <1>2
<1> HIDE DEF more, new
<1>4. \A i \in DOMAIN more : AnswerOK(more[i], wd)
    BY <1>3 DEF MainOK, AnswersOK
<1> QED  BY <1>1, <1>3, <1>4 DEF MainOK, AnswersOK, more, new

(* A transaction of the node is sent to the main chain.                    *)
LEMMA MainSends ==
    ASSUME NEW acc, NEW ch, NEW table, NEW hs, NEW ans, NEW wd, MainOK(acc, ch, table, hs, ans, wd),
           NEW new \in AccountsOf(MainTxs), NEW p, NEW tx, Placed(new, acc, p, tx),
           tx.method = "withdraw" => Good(ch, tx.included)
    PROVE  MainOK(new, ch, table, hs, ans, wd)
<1>1. DOMAIN acc.receipts \subseteq DOMAIN acc.pool
    BY AccountShape DEF MainOK
<1>2. PoolFits(new, ch)
    BY DEF MainOK, PoolFits, Placed
<1>3. PaidOK(new, wd)
    BY <1>1 DEF MainOK, PaidOK, Placed
<1> QED  BY <1>2, <1>3 DEF MainOK

(* ... and mined.                                                          *)
LEMMA MainMines ==
    ASSUME NEW acc, NEW ch, NEW table, NEW hs, NEW ans, NEW wd, MainOK(acc, ch, table, hs, ans, wd),
           NEW new \in AccountsOf(MainTxs), NEW p, NEW ok \in BOOLEAN, MinedNext(new, acc, p, ok),
           NEW more, more = IF ok /\ acc.pool[p].method = "withdraw"
                            THEN Append(wd, acc.pool[p].included) ELSE wd
    PROVE  MainOK(new, ch, table, hs, ans, more)
<1>1. /\ acc \in AccountsOf(MainTxs) /\ wd \in Seq(Claims) /\ p \in DOMAIN acc.pool
    BY DEF MainOK, MinedNext
<1>2. /\ more \in Seq(Claims)
      /\ \A x : PaidOut(x, wd) => PaidOut(x, more)
      /\ ok /\ acc.pool[p].method = "withdraw" => PaidOut(acc.pool[p].included, more)
  <2>1. CASE ok /\ acc.pool[p].method = "withdraw"
    <3>1. acc.pool[p] \in MainTxs
        BY <1>1, AccountShape
    <3>2. acc.pool[p].included \in Claims
        BY <2>1, <3>1 DEF MainTxs, Withdrawals, OtherTx
    <3> DEFINE x == acc.pool[p].included
    <3>3. more = Append(wd, x)
        BY <2>1
    <3> HIDE DEF x
    <3>4. /\ more \in Seq(Claims) /\ Len(wd) + 1 \in DOMAIN more
          /\ more[Len(wd) + 1] = x /\ \A i \in DOMAIN wd : i \in DOMAIN more /\ more[i] = wd[i]
        BY <1>1, <3>2, <3>3 DEF x
    <3> QED  BY <3>4 DEF PaidOut, x
  <2>2. CASE ~(ok /\ acc.pool[p].method = "withdraw")
      BY <1>1, <2>2
  <2> QED  BY <2>1, <2>2
<1>3. PoolFits(new, ch)
    BY DEF MainOK, PoolFits, MinedNext
<1>4. PaidOK(new, more)
    BY <1>2 DEF MainOK, PaidOK, MinedNext
<1>5. AnswersOK(ans, more)
    BY <1>2 DEF MainOK, AnswersOK, AnswerOK
<1> QED  BY <1>2, <1>3, <1>4, <1>5 DEF MainOK

-----------------------------------------------------------------------------
(* The inductive invariant *)

CountsOK ==
    /\ account = [c \in {"side", "main"} |-> account[c]]
    /\ deposits \in 0..MaxDeposits
    /\ relayed <= deposits
    /\ filed \in Nat

SideInv == SideOK(account["side"], minted, relayed, bridge, outcome, "receipt" \in faults)

MainInv == MainOK(account["main"], chain, blockAt, handler, answers, withdrawn)

IInv == CountsOK /\ SideInv /\ MainInv

(* It holds when the node is started first.                                *)
LEMMA InitIInv == Init => IInv
<1> SUFFICES ASSUME Init PROVE IInv
    OBVIOUS
<1>1. \A T : NewAccount \in AccountsOf(T) /\ DOMAIN NewAccount.pool = {} /\ DOMAIN NewAccount.receipts = {}
    BY DEF NewAccount, AccountsOf
<1>2. account["side"] = NewAccount /\ account["main"] = NewAccount
    BY DEF Init
<1>3. CountsOK
    BY RelayerAssumption DEF Init, CountsOK
<1>4. MintsOK(NewAccount, <<>>)
    BY <1>1 DEF MintsOK, Distinct, Succeeded
<1>5. \A d : Absent(NewAccount, d)
    BY <1>1 DEF Absent
<1>6. /\ outcome \in [1..MaxDeposits -> {"none", "nil", "error"}]
      /\ \A d \in 1..MaxDeposits : outcome[d] = "none"
    BY DEF Init
<1>7. SideInv
    BY <1>1, <1>2, <1>4, <1>5, <1>6, IdleBridge, RelayerAssumption
       DEF SideInv, SideOK, OutcomesOK, Init
<1>8. DOMAIN EmptyTable = {}
    BY DEF EmptyTable
<1>9. PoolFits(NewAccount, <<>>) /\ PaidOK(NewAccount, <<>>)
    BY <1>1 DEF PoolFits, PaidOK
<1>10. MainInv
    BY <1>1, <1>2, <1>8, <1>9, AllResting
       DEF MainInv, MainOK, TableOK, AnswersOK, Init
<1> QED  BY <1>3, <1>7, <1>10 DEF IInv

-----------------------------------------------------------------------------
(* Steps that leave a side alone, and the accounts as functions.           *)

(* A step that touches neither the bridge nor the sidechain.               *)
LEMMA KeptSide ==
    ASSUME IInv, account'["side"] = account["side"], UNCHANGED <<minted, relayed, bridge, outcome>>,
           faults \subseteq faults'
    PROVE  SideInv'
<1>1. ("receipt" \in faults) \in BOOLEAN /\ ("receipt" \in faults') \in BOOLEAN
      /\ ("receipt" \in faults => "receipt" \in faults')
    OBVIOUS
<1>2. SideInv
    BY DEF IInv
<1> QED  BY <1>1, <1>2, SideUnheard DEF SideInv

(* A step that touches neither the handlers, the table nor the main chain. *)
LEMMA KeptMain ==
    ASSUME IInv, account'["main"] = account["main"],
           UNCHANGED <<chain, blockAt, handler, answers, withdrawn>>
    PROVE  MainInv'
BY DEF IInv, MainInv

(* One of the two accounts is changed.                                     *)
LEMMA AccountEdit ==
    ASSUME CountsOK, NEW c \in {"side", "main"}, NEW new, account' = [account EXCEPT ![c] = new]
    PROVE  /\ account' = [d \in {"side", "main"} |-> account'[d]]
           /\ account'[c] = new
           /\ \A d \in {"side", "main"} : d # c => account'[d] = account[d]
BY DEF CountsOK

-----------------------------------------------------------------------------
(* The bridge *)

(* The bridge takes the next deposit.                                      *)
LEMMA TakeDepositIInv == ASSUME IInv, TakeDeposit PROVE IInv'
<1> DEFINE u == "receipt" \in faults
<1>1. u \in BOOLEAN /\ faults' = faults /\ account' = account
    BY DEF TakeDeposit, nodeVars
<1>2. /\ bridge.at = "idle" /\ relayed' = relayed + 1 /\ relayed < deposits
      /\ bridge' = Sending(account["side"], MintTx(relayed + 1))
      /\ UNCHANGED <<outcome, minted, deposits, filed>>
      /\ UNCHANGED <<chain, blockAt, handler, answers, withdrawn>>
    BY DEF TakeDeposit, Relay, MintTx, chainVars, fileVars, handlerVars
<1>3. relayed \in 0..MaxDeposits /\ deposits \in 0..MaxDeposits
    BY DEF IInv, CountsOK, SideInv, SideOK
<1>4. relayed + 1 \in 1..MaxDeposits /\ relayed + 1 <= deposits
    BY <1>2, <1>3, RelayerAssumption
<1> HIDE DEF u
<1>5. SideOK(account["side"], minted, relayed + 1, Sending(account["side"], MintTx(relayed + 1)), outcome, u)
    BY <1>1, <1>2, <1>4, SideTakes DEF IInv, SideInv, u
<1>6. SideInv'
    BY <1>1, <1>2, <1>5 DEF SideInv, u
<1>7. MainInv'
    BY <1>1, <1>2, KeptMain
<1>8. CountsOK'
    BY <1>1, <1>2, <1>4 DEF IInv, CountsOK
<1> QED  BY <1>6, <1>7, <1>8 DEF IInv

(* A mint is sent, with a nonce of its own or another's.                   *)
LEMMA SendMintIInv ==
    ASSUME IInv, SendMint \/ SendMintReplaces
    PROVE  IInv'
<1> DEFINE acc == account["side"]
           new == account'["side"]
           u == "receipt" \in faults
           v == "receipt" \in faults'
<1>1. /\ acc \in AccountsOf(SideTxs) /\ bridge.nonce \in Nat /\ u \in BOOLEAN
      /\ bridge.tx = MintTx(relayed) /\ relayed \in 1..MaxDeposits
      /\ bridge.at = "sending" /\ SideOK(acc, minted, relayed, bridge, outcome, u)
    BY RelayerAssumption DEF IInv, SideInv, SideOK, BridgeOK, SendMint, SendMintReplaces
<1>2. bridge.tx \in SideTxs
    BY <1>1, MintTxIsMint
<1>3. /\ bridge' = Waiting(bridge) /\ v \in BOOLEAN /\ (u => v)
      /\ UNCHANGED <<outcome, relayed, minted, deposits, filed>>
      /\ UNCHANGED <<chain, blockAt, handler, answers, withdrawn>>
    BY DEF SendMint, SendMintReplaces, Fail, nodeVars, chainVars, fileVars, handlerVars
<1>4. \E p : /\ account' = [account EXCEPT !["side"] = account'["side"]]
             /\ new \in AccountsOf(SideTxs) /\ Placed(new, acc, p, bridge.tx)
  <2>1. CASE SendMint
    <3> DEFINE x == Sent(acc, bridge.tx)
    <3>1. account' = [account EXCEPT !["side"] = x]
        BY <2>1 DEF SendMint
    <3>2. x \in AccountsOf(SideTxs) /\ Placed(x, acc, Len(acc.pool) + 1, bridge.tx)
        BY <1>1, <1>2, SentPlaces
    <3> HIDE DEF x
    <3>3. new = x
        BY <3>1, AccountEdit DEF IInv
    <3> QED  BY <3>1, <3>2, <3>3
  <2>2. CASE SendMintReplaces
    <3> DEFINE x == Replaced(acc, bridge.nonce, bridge.tx)
    <3>1. account' = [account EXCEPT !["side"] = x] /\ Replaceable(acc, bridge.nonce)
        BY <2>2 DEF SendMintReplaces
    <3>2. x \in AccountsOf(SideTxs) /\ Placed(x, acc, bridge.nonce + 1, bridge.tx)
        BY <1>1, <1>2, <3>1, ReplacedPlaces
    <3> HIDE DEF x
    <3>3. new = x
        BY <3>1, AccountEdit DEF IInv
    <3> QED  BY <3>1, <3>2, <3>3
  <2> QED  BY <2>1, <2>2
<1>5. PICK p : /\ account' = [account EXCEPT !["side"] = new]
               /\ new \in AccountsOf(SideTxs) /\ Placed(new, acc, p, bridge.tx)
    BY <1>4
<1> HIDE DEF u, v
<1>6. SideOK(new, minted, relayed, Waiting(bridge), outcome, u)
    BY <1>1, <1>5, SideSends
<1>7. SideOK(new, minted, relayed, Waiting(bridge), outcome, v)
    BY <1>1, <1>3, <1>6, SideUnheard
<1>8. SideInv'
    BY <1>3, <1>7 DEF SideInv, v
<1>9. account'["main"] = account["main"] /\ account' = [d \in {"side", "main"} |-> account'[d]]
    BY <1>5, AccountEdit DEF IInv
<1>10. MainInv'
    BY <1>3, <1>9, KeptMain
<1>11. CountsOK'
    BY <1>3, <1>9 DEF IInv, CountsOK
<1> QED  BY <1>8, <1>10, <1>11 DEF IInv

(* relayDeposit returns.                                                   *)
LEMMA RelayReturnsIInv ==
    ASSUME IInv, SendMintFails \/ WaitMintErrors \/ Relayed
    PROVE  IInv'
<1> DEFINE acc == account["side"]
           u == "receipt" \in faults
           v == "receipt" \in faults'
           Returns(result) == /\ bridge' = Idle
                              /\ outcome' = [outcome EXCEPT ![relayed] = result]
<1>1. /\ u \in BOOLEAN /\ v \in BOOLEAN
      /\ bridge.at # "idle" /\ SideOK(acc, minted, relayed, bridge, outcome, u)
      /\ bridge.at = "sending" => Absent(acc, relayed)
      /\ bridge.tx = MintTx(relayed) /\ relayed \in 1..MaxDeposits
    BY RelayerAssumption
       DEF IInv, SideInv, SideOK, BridgeOK, SendMintFails, WaitMintErrors, Relayed, HasReceipt
<1>2. bridge.tx.deposit = relayed
    BY <1>1, MintTxIsMint
<1>3. /\ u => v
      /\ UNCHANGED <<relayed, minted, deposits, filed, account>>
      /\ UNCHANGED <<chain, blockAt, handler, answers, withdrawn>>
    BY DEF SendMintFails, WaitMintErrors, Relayed, RelayReturns, Fail, nodeVars, chainVars,
           fileVars, handlerVars
<1>4. \E result \in {"nil", "error"} :
         /\ Returns(result)
         /\ result = "nil" => IsMinted(relayed, minted)
         /\ result = "error" /\ ~v => Refused(acc, relayed)
  <2>1. CASE SendMintFails
    <3>1. Returns("error") /\ Refused(acc, relayed)
        BY <1>1, <1>2, <2>1, NotSentRefused DEF SendMintFails, RelayReturns
    <3> QED  BY <3>1
  <2>2. CASE WaitMintErrors
    <3>1. Returns("error") /\ v
        BY <1>2, <2>2 DEF WaitMintErrors, RelayReturns, Fail
    <3> QED  BY <3>1
  <2>3. CASE Relayed
    <3>1. /\ HasReceipt(bridge, acc)
          /\ Returns(IF Status(bridge, acc) THEN "nil" ELSE "error")
        BY <1>2, <2>3 DEF Relayed, RelayReturns
    <3>2. IF Status(bridge, acc) THEN IsMinted(relayed, minted) ELSE Refused(acc, relayed)
        BY <1>1, <3>1, ReceiptTrue
    <3> QED  BY <3>1, <3>2
  <2> QED  BY <2>1, <2>2, <2>3
<1>5. PICK result \in {"nil", "error"} :
         /\ Returns(result)
         /\ result = "nil" => IsMinted(relayed, minted)
         /\ result = "error" /\ ~v => Refused(acc, relayed)
    BY <1>4
<1> HIDE DEF u, v
<1>6. SideOK(acc, minted, relayed, Idle, outcome', v)
  <2>1. u \in BOOLEAN /\ v \in BOOLEAN /\ bridge.at # "idle"
      BY <1>1
  <2>2. SideOK(acc, minted, relayed, bridge, outcome, u)
      BY <1>1
  <2>3. u => v
      BY <1>3
  <2>4. result = "nil" => IsMinted(relayed, minted)
      BY <1>5
  <2>5. result = "error" /\ ~v => Refused(acc, relayed)
      BY <1>5
  <2>6. outcome' = [outcome EXCEPT ![relayed] = result]
      BY <1>5
  <2> HIDE DEF acc
  <2> QED  BY <2>1, <2>2, <2>3, <2>4, <2>5, <2>6, SideReturns
<1>7. SideInv'
    BY <1>3, <1>5, <1>6 DEF SideInv, v
<1>8. MainInv'
    BY <1>3, KeptMain
<1>9. CountsOK'
    BY <1>3 DEF IInv, CountsOK
<1> QED  BY <1>7, <1>8, <1>9 DEF IInv

-----------------------------------------------------------------------------
(* The file keeper *)

(* A block is filed, or the store fails.                                   *)
LEMMA FileBlockIInv == ASSUME IInv, FileBlock \/ FileBlockFails PROVE IInv'
<1>1. /\ UNCHANGED <<account, relayed, bridge, outcome, minted, deposits>>
      /\ UNCHANGED <<chain, handler, answers, withdrawn>>
      /\ filed' = filed + 1 /\ filed \in Nat /\ filed < Len(chain)
      /\ faults \subseteq faults'
    BY DEF FileBlock, FileBlockFails, Fail, bridgeVars, handlerVars, chainVars, nodeVars,
           IInv, CountsOK
<1>2. MainOK(account["main"], chain, blockAt, handler, answers, withdrawn)
    BY DEF IInv, MainInv
<1>3. filed + 1 \in DOMAIN chain /\ filed + 1 \in Nat
  <2>1. chain \in Seq(Encoded)
      BY <1>2 DEF MainOK
  <2> QED  BY <1>1, <2>1
<1>4. MainInv'
  <2>1. CASE FileBlock
    <3> DEFINE block == DeserializeBlock(chain[filed + 1])
               table == Put(blockAt, TableKey(block.number), SerializeBlock(block))
    <3>1. blockAt' = table
        BY <2>1 DEF FileBlock
    <3>2. MainOK(account["main"], chain, table, handler, answers, withdrawn)
        BY <1>2, <1>3, MainFiles
    <3> HIDE DEF table
    <3> QED  BY <1>1, <3>1, <3>2 DEF MainInv
  <2>2. CASE FileBlockFails
      BY <1>1, <1>2, <2>2 DEF FileBlockFails, MainInv
  <2> QED  BY <2>1, <2>2
<1>5. SideInv'
    BY <1>1, KeptSide
<1>6. CountsOK'
    BY <1>1, <1>3 DEF IInv, CountsOK
<1> QED  BY <1>4, <1>5, <1>6 DEF IInv

-----------------------------------------------------------------------------
(* The handlers *)

(* A step of a handler that sends nothing, of which only its own state     *)
(* matters.                                                                *)
LEMMA HandlerStep ==
    ASSUME IInv, NEW h \in Handlers, NEW x, HandlerOK(x, chain),
           handler' = [handler EXCEPT ![h] = x],
           UNCHANGED <<account, relayed, bridge, outcome, minted, deposits, filed>>,
           UNCHANGED <<chain, blockAt, answers, withdrawn>>,
           faults \subseteq faults'
    PROVE  IInv'
<1>1. MainOK(account["main"], chain, blockAt, [handler EXCEPT ![h] = x], answers, withdrawn)
    BY MainHandles DEF IInv, MainInv
<1>2. MainInv'
    BY <1>1 DEF MainInv
<1>3. SideInv'
    BY KeptSide
<1>4. CountsOK'
    BY DEF IInv, CountsOK
<1> QED  BY <1>2, <1>3, <1>4 DEF IInv

(* What the invariant says of one handler.                                 *)
LEMMA TheHandler ==
    ASSUME IInv, NEW h \in Handlers
    PROVE  /\ HandlerOK(handler[h], chain) /\ handler[h] \in States
           /\ DOMAIN handler = Handlers /\ chain \in Seq(Encoded)
BY DEF IInv, MainInv, MainOK, HandlersOK, HandlerOK

(* A client asks.                                                          *)
LEMMA AskIInv ==
    ASSUME IInv, NEW h \in Handlers, NEW number \in RequestNumbers, NEW index \in RequestIndexes,
           Ask(h, number, index)
    PROVE  IInv'
<1> DEFINE x == [Resting EXCEPT !.at = "asked", !.request = [number |-> number, index |-> index]]
<1>1. [number |-> number, index |-> index] \in Asked
    BY RelayerAssumption DEF Asked
<1>2. HandlerOK(Resting, chain)
    BY RestingOK
<1>3. x \in States /\ x.at = "asked" /\ x.call = Idle
    BY <1>1, <1>2 DEF HandlerOK, States, Resting
<1> HIDE DEF x
<1>4. HandlerOK(x, chain)
    BY <1>3 DEF HandlerOK, Idle
<1>5. /\ handler' = [handler EXCEPT ![h] = x] /\ faults' = faults
      /\ UNCHANGED <<account, relayed, bridge, outcome, minted, deposits, filed>>
      /\ UNCHANGED <<chain, blockAt, answers, withdrawn>>
    BY DEF Ask, x, bridgeVars, fileVars, chainVars, nodeVars
<1> QED  BY <1>4, <1>5, HandlerStep

(* The block read is one of the chain with the number that was asked for.  *)
LEMMA ReadBlockIInv == ASSUME IInv, NEW h \in Handlers, ReadBlock(h) PROVE IInv'
<1> DEFINE k == BlockAsked(h)
           block == DeserializeBlock(blockAt[k])
           x == [handler[h] EXCEPT !.at = "building", !.block = block]
<1>1. /\ HandlerOK(handler[h], chain) /\ handler[h] \in States
      /\ DOMAIN handler = Handlers /\ chain \in Seq(Encoded)
    BY TheHandler
<1>2. k \in DOMAIN blockAt
    BY DEF ReadBlock
<1>3. PICK i \in DOMAIN chain : chain[i] = blockAt[k] /\ blockAt[k].number = k
    BY <1>2 DEF IInv, MainInv, MainOK, TableOK, Filed
<1>4. PICK b \in Blocks : chain[i] = SerializeBlock(b)
    BY <1>1 DEF Encoded
<1>5. block = b
    BY <1>3, <1>4, CommittedRoundTrip
<1>6. /\ x \in States /\ x.at = "building" /\ x.block = block
      /\ x.request = handler[h].request /\ x.call = handler[h].call
    BY <1>1, <1>5 DEF States
<1>7. k = TableKey(handler[h].request.number)
    BY DEF BlockAsked
<1> HIDE DEF k, block
<1>8. block = DeserializeBlock(chain[i])
    BY <1>3 DEF block
<1>9. /\ handler' = [handler EXCEPT ![h] = x] /\ faults' = faults
      /\ UNCHANGED <<account, relayed, bridge, outcome, minted, deposits, filed>>
      /\ UNCHANGED <<chain, blockAt, answers, withdrawn>>
  <2>1. handler' = [handler EXCEPT ![h].at = "building", ![h].block = block]
      BY DEF ReadBlock, block, k
  <2>2. handler' = [handler EXCEPT ![h] = x]
      BY <1>1, <2>1
  <2> QED  BY <2>2 DEF ReadBlock, bridgeVars, fileVars, chainVars, nodeVars
<1> HIDE DEF x
<1>10. HandlerOK(x, chain)
    BY <1>1, <1>3, <1>6, <1>7, <1>8 DEF HandlerOK
<1> QED  BY <1>9, <1>10, HandlerStep

(* An answer.                                                              *)
LEMMA AnswerIInv ==
    ASSUME IInv, NEW h \in Handlers, NEW result \in {"hash", "error"}, Answer(h, result),
           AnswerOK([request |-> handler[h].request, result |-> result, tx |-> handler[h].call.tx],
                    withdrawn),
           faults \subseteq faults'
    PROVE  IInv'
<1> DEFINE a == [request |-> handler[h].request, result |-> result, tx |-> handler[h].call.tx]
<1>1. a \in Answers
    BY TheHandler DEF States, MainCalls, Answers
<1>2. /\ answers' = Append(answers, a) /\ handler' = [handler EXCEPT ![h] = Resting]
      /\ UNCHANGED <<account, relayed, bridge, outcome, minted, deposits, filed>>
      /\ UNCHANGED <<chain, blockAt, withdrawn>>
    BY DEF Answer, bridgeVars, fileVars, chainVars
<1>3. AnswerOK(a, withdrawn)
    OBVIOUS
<1> HIDE DEF a
<1>4. MainOK(account["main"], chain, blockAt, [handler EXCEPT ![h] = Resting],
             Append(answers, a), withdrawn)
    BY <1>1, <1>3, MainAnswers DEF IInv, MainInv
<1>5. MainInv'
    BY <1>2, <1>4 DEF MainInv
<1>6. SideInv'
    BY <1>2, KeptSide
<1>7. CountsOK'
    BY <1>2 DEF IInv, CountsOK
<1> QED  BY <1>5, <1>6, <1>7 DEF IInv

(* Nothing is claimed by an error.                                         *)
LEMMA ErrorIInv ==
    ASSUME IInv, NEW h \in Handlers, BlockNotFound(h) \/ WrongType(h) \/ WaitWithdrawErrors(h)
    PROVE  IInv'
<1>1. Answer(h, "error") /\ faults \subseteq faults'
    BY DEF BlockNotFound, WrongType, WaitWithdrawErrors, Fail, nodeVars
<1>2. AnswerOK([request |-> handler[h].request, result |-> "error", tx |-> handler[h].call.tx],
               withdrawn)
    BY DEF AnswerOK
<1> QED  BY <1>1, <1>2, AnswerIInv

(* The proof is made from the block as the chain has it, and for what was  *)
(* asked.                                                                  *)
LEMMA BuiltFor ==
    ASSUME IInv, NEW h \in Handlers, Included(h), AskedType(h) = "withdraw"
    PROVE  For([method |-> "withdraw",
                included |-> IncludedTransition(handler[h].block, handler[h].request.index)],
               handler[h].request, chain)
<1> DEFINE n == handler[h].request.index
           x == IncludedTransition(handler[h].block, n)
           tx == [method |-> "withdraw", included |-> x]
<1>1. /\ HandlerOK(handler[h], chain) /\ handler[h] \in States /\ chain \in Seq(Encoded)
      /\ handler[h].at = "building"
    BY TheHandler DEF Included
<1>2. PICK i \in DOMAIN chain : /\ handler[h].block = DeserializeBlock(chain[i])
                                /\ chain[i].number = TableKey(handler[h].request.number)
    BY <1>1 DEF HandlerOK
<1>3. PICK b \in Blocks : chain[i] = SerializeBlock(b)
    BY <1>1 DEF Encoded
<1>4. handler[h].block = b
    BY <1>2, <1>3, CommittedRoundTrip
<1>5. n \in Int
    BY <1>1 DEF States, Asked
<1>6. /\ x.number = b.number /\ x.index = n /\ x.leaves = SerializeBlock(b).transitions
      /\ x.transition = x.leaves[n + 1]
    BY <1>4 DEF IncludedTransition, Leaves
<1>7. /\ n + 1 \in DOMAIN b.transitions /\ b.transitions[n + 1].type = "withdraw"
    BY <1>4 DEF Included, InBlock, AskedType
<1>8. b.transitions \in BlockContents
    BY DEF Blocks
<1>9. Encodable(b.transitions[n + 1])
    BY <1>7, <1>8, RelayerAssumption
<1>10. /\ SerializeBlock(b).number = b.number
       /\ DOMAIN SerializeBlock(b).transitions = DOMAIN b.transitions
       /\ SerializeBlock(b).transitions[n + 1] = Serialize(b.transitions[n + 1])
    BY <1>7 DEF SerializeBlock
<1>11. x \in Claims
    BY <1>4, <1>5 DEF Claims
<1> HIDE DEF x
<1>12. FitsIn(chain, x)
    BY <1>3, <1>6, <1>7, <1>10 DEF FitsIn
<1>13. DeserializeTransition(x.transition) = b.transitions[n + 1]
    BY <1>6, <1>9, <1>10, RoundTrip
<1>14. tx \in Withdrawals /\ tx.included = x
    BY <1>11 DEF Withdrawals
<1> HIDE DEF tx
<1>15. For(tx, handler[h].request, chain)
    BY <1>2, <1>3, <1>6, <1>7, <1>10, <1>12, <1>13, <1>14 DEF For, Good
<1> QED  BY <1>15 DEF tx, x

(* The handler has its proof and enters the call.                          *)
LEMMA BuildProofIInv == ASSUME IInv, NEW h \in Handlers, BuildProof(h) PROVE IInv'
<1> DEFINE tx == [method |-> "withdraw",
                  included |-> IncludedTransition(handler[h].block, handler[h].request.index)]
           c == Sending(account["main"], tx)
           x == [handler[h] EXCEPT !.at = "calling", !.call = c]
<1>1. /\ handler[h] \in States /\ DOMAIN handler = Handlers
    BY TheHandler
<1>2. For(tx, handler[h].request, chain)
    BY BuiltFor DEF BuildProof
<1>3. handler' = [handler EXCEPT ![h].at = "calling", ![h].call = c]
    BY DEF BuildProof
<1>4. tx \in Withdrawals
    BY <1>2 DEF For
<1> HIDE DEF tx
<1>5. account["main"] \in AccountsOf(MainTxs)
    BY DEF IInv, MainInv, MainOK
<1>6. Len(account["main"].pool) \in Nat
    BY <1>5, AccountShape
<1>7. c \in MainCalls /\ c.tx = tx
    BY <1>4, <1>6 DEF Sending, PendingNonce, MainCalls, MainTxs
<1> HIDE DEF c
<1>8. handler' = [handler EXCEPT ![h] = x]
    BY <1>1, <1>3
<1>9. /\ x \in States /\ x.at = "calling" /\ x.call = c /\ x.request = handler[h].request
    BY <1>1, <1>7 DEF States
<1> HIDE DEF x
<1>10. HandlerOK(x, chain)
    BY <1>2, <1>7, <1>9 DEF HandlerOK
<1>11. /\ faults' = faults
       /\ UNCHANGED <<account, relayed, bridge, outcome, minted, deposits, filed>>
       /\ UNCHANGED <<chain, blockAt, answers, withdrawn>>
    BY DEF BuildProof, bridgeVars, fileVars, chainVars, nodeVars
<1> QED  BY <1>8, <1>10, <1>11, HandlerStep

(* The transaction is sent, with a nonce of its own or another's.          *)
LEMMA SendWithdrawIInv ==
    ASSUME IInv, NEW h \in Handlers, SendWithdraw(h) \/ SendWithdrawReplaces(h)
    PROVE  IInv'
<1> DEFINE acc == account["main"]
           call == handler[h].call
           new == account'["main"]
           c == Waiting(call)
           x == [handler[h] EXCEPT !.call = c]
<1>1. /\ acc \in AccountsOf(MainTxs) /\ HandlerOK(handler[h], chain) /\ handler[h] \in States
      /\ DOMAIN handler = Handlers /\ call \in MainCalls /\ call.at = "sending"
    BY TheHandler DEF IInv, MainInv, MainOK, States, SendWithdraw, SendWithdrawReplaces
<1>2. For(call.tx, handler[h].request, chain) /\ call.nonce \in Nat
    BY <1>1 DEF HandlerOK, MainCalls
<1>3. call.tx \in MainTxs /\ Good(chain, call.tx.included)
    BY <1>2 DEF For, MainTxs
<1>4. /\ handler' = [handler EXCEPT ![h].call = Waiting(@)] /\ faults \subseteq faults'
      /\ UNCHANGED <<outcome, relayed, bridge, minted, deposits, filed>>
      /\ UNCHANGED <<chain, blockAt, answers, withdrawn>>
    BY DEF SendWithdraw, SendWithdrawReplaces, Fail, nodeVars, chainVars, fileVars, bridgeVars
<1>5. \E p : /\ account' = [account EXCEPT !["main"] = account'["main"]]
             /\ new \in AccountsOf(MainTxs) /\ Placed(new, acc, p, call.tx)
  <2>1. CASE SendWithdraw(h)
    <3> DEFINE y == Sent(acc, call.tx)
    <3>1. account' = [account EXCEPT !["main"] = y]
        BY <2>1 DEF SendWithdraw
    <3>2. y \in AccountsOf(MainTxs) /\ Placed(y, acc, Len(acc.pool) + 1, call.tx)
        BY <1>1, <1>3, SentPlaces
    <3> HIDE DEF y
    <3>3. new = y
        BY <3>1, AccountEdit DEF IInv
    <3> QED  BY <3>1, <3>2, <3>3
  <2>2. CASE SendWithdrawReplaces(h)
    <3> DEFINE y == Replaced(acc, call.nonce, call.tx)
    <3>1. account' = [account EXCEPT !["main"] = y] /\ Replaceable(acc, call.nonce)
        BY <2>2 DEF SendWithdrawReplaces
    <3>2. y \in AccountsOf(MainTxs) /\ Placed(y, acc, call.nonce + 1, call.tx)
        BY <1>1, <1>2, <1>3, <3>1, ReplacedPlaces
    <3> HIDE DEF y
    <3>3. new = y
        BY <3>1, AccountEdit DEF IInv
    <3> QED  BY <3>1, <3>2, <3>3
  <2> QED  BY <2>1, <2>2
<1>6. PICK p : /\ account' = [account EXCEPT !["main"] = new]
               /\ new \in AccountsOf(MainTxs) /\ Placed(new, acc, p, call.tx)
    BY <1>5
<1>7. c \in MainCalls /\ c.tx = call.tx
    BY <1>1 DEF Waiting, MainCalls
<1>8. handler' = [handler EXCEPT ![h] = x]
    BY <1>1, <1>4
<1> HIDE DEF c
<1>9. /\ x \in States /\ x.at = handler[h].at /\ x.block = handler[h].block
      /\ x.request = handler[h].request /\ x.call = c
    BY <1>1, <1>7 DEF States
<1> HIDE DEF x
<1>10. HandlerOK(x, chain)
    BY <1>1, <1>2, <1>7, <1>9 DEF HandlerOK
<1>11. MainOK(acc, chain, blockAt, [handler EXCEPT ![h] = x], answers, withdrawn)
    BY <1>10, MainHandles DEF IInv, MainInv
<1>12. MainOK(acc, chain, blockAt, handler', answers, withdrawn)
    BY <1>8, <1>11
<1> HIDE DEF acc, call, new
<1>13. MainOK(new, chain, blockAt, handler', answers, withdrawn)
    BY <1>3, <1>6, <1>12, MainSends
<1>14. MainInv'
    BY <1>4, <1>13 DEF MainInv, new
<1>15. account'["side"] = account["side"] /\ account' = [d \in {"side", "main"} |-> account'[d]]
    BY <1>6, AccountEdit DEF IInv, new
<1>16. SideInv'
    BY <1>4, <1>15, KeptSide
<1>17. CountsOK'
    BY <1>4, <1>15 DEF IInv, CountsOK
<1> QED  BY <1>14, <1>16, <1>17 DEF IInv

(* A receipt with success is for the transaction of the request.           *)
LEMMA PaidIInv == ASSUME IInv, NEW h \in Handlers, Paid(h) PROVE IInv'
<1> DEFINE acc == account["main"]
           call == handler[h].call
           p == call.nonce + 1
           result == IF Status(call, acc) THEN "hash" ELSE "error"
           a == [request |-> handler[h].request, result |-> result, tx |-> call.tx]
<1>1. /\ acc \in AccountsOf(MainTxs) /\ HandlerOK(handler[h], chain) /\ handler[h] \in States
      /\ PaidOK(acc, withdrawn) /\ call \in MainCalls
    BY TheHandler DEF IInv, MainInv, MainOK, States
<1>2. /\ call.at = "waiting" /\ acc.pool[p] = call.tx /\ call.nonce < Len(acc.receipts)
      /\ call.nonce \in Nat /\ Answer(h, result) /\ faults' = faults
    BY <1>1 DEF Paid, HasReceipt, MainCalls, nodeVars
<1>3. p \in DOMAIN acc.receipts
    BY <1>1, <1>2, AccountShape
<1>4. For(call.tx, handler[h].request, chain)
    BY <1>1, <1>2 DEF HandlerOK
<1>5. call.tx.method = "withdraw"
    BY <1>4 DEF For, Withdrawals
<1>6. /\ result \in {"hash", "error"}
      /\ result = "hash" => acc.receipts[p]
    BY DEF Status
<1> HIDE DEF result
<1>7. result = "hash" => PaidOut(call.tx.included, withdrawn)
    BY <1>1, <1>2, <1>3, <1>5, <1>6 DEF PaidOK
<1>8. AnswerOK(a, withdrawn)
    BY <1>4, <1>7 DEF AnswerOK, For
<1> QED  BY <1>2, <1>6, <1>8, AnswerIInv

-----------------------------------------------------------------------------
(* The process dies or is restarted *)

(* What the goroutines were doing is gone; events may have been skipped.   *)
LEMMA GoneIInv ==
    ASSUME IInv, bridge' = Idle, handler' = [h \in Handlers |-> Resting],
           relayed \in Nat => relayed' \in Nat /\ relayed <= relayed' /\ relayed' <= deposits,
           filed' \in Nat, faults \subseteq faults',
           UNCHANGED <<account, outcome, minted, deposits>>,
           UNCHANGED <<chain, blockAt, answers, withdrawn>>
    PROVE  IInv'
<1> DEFINE u == "receipt" \in faults
           v == "receipt" \in faults'
<1>1. /\ u \in BOOLEAN /\ v \in BOOLEAN /\ (u => v)
      /\ SideOK(account["side"], minted, relayed, bridge, outcome, u)
      /\ relayed \in 0..MaxDeposits /\ deposits \in 0..MaxDeposits
    BY DEF IInv, SideInv, SideOK, CountsOK
<1>2. relayed' \in 0..MaxDeposits /\ relayed <= relayed' /\ relayed' <= deposits
    BY <1>1, RelayerAssumption
<1> HIDE DEF u, v
<1>3. SideOK(account["side"], minted, relayed', Idle, outcome, v)
    BY <1>1, <1>2, SideForgets
<1>4. SideInv'
    BY <1>3 DEF SideInv, v
<1>5. MainInv'
    BY AllResting DEF IInv, MainInv, MainOK
<1>6. CountsOK'
    BY <1>2 DEF IInv, CountsOK
<1> QED  BY <1>4, <1>5, <1>6 DEF IInv

(* A panic or a detected race ends the process.                            *)
LEMMA DieIInv ==
    ASSUME IInv, NEW h \in Handlers,
           BuildersCollide(h) \/ BuildPanics(h) \/ IndexPanics(h) \/ SendWithdrawPanics(h)
    PROVE  IInv'
<1>1. /\ \E cause : Die(cause)
      /\ account' = account
    BY DEF BuildersCollide, BuildPanics, IndexPanics, SendWithdrawPanics
<1>2. /\ bridge' = Idle /\ handler' = [g \in Handlers |-> Resting] /\ faults \subseteq faults'
      /\ UNCHANGED <<relayed, outcome, minted, deposits, filed>>
      /\ UNCHANGED <<chain, blockAt, answers, withdrawn>>
    BY <1>1 DEF Die, chainVars, fileVars
<1>3. relayed \in Nat => relayed' \in Nat /\ relayed <= relayed' /\ relayed' <= deposits
    BY <1>2 DEF IInv, CountsOK
<1> QED  BY <1>1, <1>2, <1>3, GoneIInv DEF IInv, CountsOK

(* The node is restarted, and of the events only those to come are heard.  *)
LEMMA RestartIInv == ASSUME IInv, Restart PROVE IInv'
<1>1. /\ bridge' = Idle /\ handler' = [g \in Handlers |-> Resting] /\ faults \subseteq faults'
      /\ relayed' = deposits /\ filed' = Len(chain)
      /\ UNCHANGED <<account, outcome, minted, deposits>>
      /\ UNCHANGED <<chain, blockAt, answers, withdrawn>>
    BY DEF Restart, chainVars
<1>2. chain \in Seq(Encoded) /\ relayed <= deposits /\ deposits \in Nat
    BY RelayerAssumption DEF IInv, CountsOK, MainInv, MainOK
<1>3. filed' \in Nat
    BY <1>1, <1>2
<1> QED  BY <1>1, <1>2, <1>3, GoneIInv

(* A subscription ends.                                                    *)
LEMMA DropIInv == ASSUME IInv, NEW subscription, Drop(subscription) PROVE IInv'
<1>1. /\ UNCHANGED <<account, relayed, bridge, outcome, minted, deposits, filed>>
      /\ UNCHANGED <<chain, blockAt, handler, answers, withdrawn>>
      /\ faults \subseteq faults'
    BY DEF Drop, bridgeVars, fileVars, handlerVars, chainVars
<1>2. SideInv' /\ MainInv'
    BY <1>1, KeptSide, KeptMain
<1> QED  BY <1>1, <1>2 DEF IInv, CountsOK

-----------------------------------------------------------------------------
(* The node's other goroutines *)

(* Other goroutines send, with a nonce of their own or another's.          *)
LEMMA OtherIInv ==
    ASSUME IInv, NEW c \in {"side", "main"}, OtherSends(c) \/ OtherReplaces(c)
    PROVE  IInv'
<1> DEFINE acc == account[c]
           new == account'[c]
           T == IF c = "side" THEN SideTxs ELSE MainTxs
           u == "receipt" \in faults
           v == "receipt" \in faults'
<1>1. acc \in AccountsOf(T) /\ OtherTx \in T
    BY OtherIsNoMint DEF IInv, SideInv, SideOK, MainInv, MainOK
<1>2. /\ UNCHANGED <<relayed, bridge, outcome, minted, deposits, filed>>
      /\ UNCHANGED <<chain, blockAt, handler, answers, withdrawn>>
      /\ faults \subseteq faults'
    BY DEF OtherSends, OtherReplaces, Fail, bridgeVars, fileVars, handlerVars, chainVars
<1> HIDE DEF T
<1>3. \E p : /\ account' = [account EXCEPT ![c] = account'[c]]
             /\ new \in AccountsOf(T) /\ Placed(new, acc, p, OtherTx)
  <2>1. CASE OtherSends(c)
    <3> DEFINE y == Sent(acc, OtherTx)
    <3>1. account' = [account EXCEPT ![c] = y]
        BY <2>1 DEF OtherSends
    <3>2. y \in AccountsOf(T) /\ Placed(y, acc, Len(acc.pool) + 1, OtherTx)
        BY <1>1, SentPlaces
    <3> HIDE DEF y
    <3>3. new = y
        BY <3>1, AccountEdit DEF IInv
    <3> QED  BY <3>1, <3>2, <3>3
  <2>2. CASE OtherReplaces(c)
    <3>1. PICK nonce \in 0..(Len(acc.pool) - 1) :
             /\ Replaceable(acc, nonce)
             /\ account' = [account EXCEPT ![c] = Replaced(acc, nonce, OtherTx)]
        BY <2>2 DEF OtherReplaces
    <3> DEFINE y == Replaced(acc, nonce, OtherTx)
    <3>2. nonce \in Nat
        OBVIOUS
    <3>3. y \in AccountsOf(T) /\ Placed(y, acc, nonce + 1, OtherTx)
        BY <1>1, <3>1, <3>2, ReplacedPlaces
    <3>4. account' = [account EXCEPT ![c] = y]
        BY <3>1
    <3> HIDE DEF y
    <3>5. new = y
        BY <3>4, AccountEdit DEF IInv
    <3> QED  BY <3>3, <3>4, <3>5
  <2> QED  BY <2>1, <2>2
<1>4. PICK p : /\ account' = [account EXCEPT ![c] = new]
               /\ new \in AccountsOf(T) /\ Placed(new, acc, p, OtherTx)
    BY <1>3
<1>5. /\ account' = [d \in {"side", "main"} |-> account'[d]]
      /\ \A d \in {"side", "main"} : d # c => account'[d] = account[d]
    BY <1>4, AccountEdit DEF IInv
<1>6. CountsOK'
    BY <1>2, <1>5 DEF IInv, CountsOK
<1>7. u \in BOOLEAN /\ v \in BOOLEAN /\ (u => v)
    BY <1>2
<1> HIDE DEF u, v
<1>8. CASE c = "side"
  <2>1. SideOK(account["side"], minted, relayed, bridge, outcome, u)
      BY DEF IInv, SideInv, u
  <2>2. SideOK(new, minted, relayed, bridge, outcome, u)
      BY <1>4, <1>7, <1>8, <2>1, SideOther DEF T
  <2>3. SideOK(new, minted, relayed, bridge, outcome, v)
      BY <1>7, <2>2, SideUnheard
  <2>4. SideInv'
      BY <1>2, <1>8, <2>3 DEF SideInv, v
  <2>5. MainInv'
      BY <1>2, <1>5, <1>8, KeptMain
  <2> QED  BY <1>6, <2>4, <2>5 DEF IInv
<1>9. CASE c = "main"
  <2>1. MainOK(account["main"], chain, blockAt, handler, answers, withdrawn)
      BY DEF IInv, MainInv
  <2>2. OtherTx.method # "withdraw"
      BY DEF OtherTx
  <2>3. MainOK(new, chain, blockAt, handler, answers, withdrawn)
      BY <1>4, <1>9, <2>1, <2>2, MainSends DEF T
  <2>4. MainInv'
      BY <1>2, <1>9, <2>3 DEF MainInv
  <2>5. SideInv'
      BY <1>2, <1>5, <1>9, KeptSide
  <2> QED  BY <1>6, <2>4, <2>5 DEF IInv
<1> QED  BY <1>8, <1>9

-----------------------------------------------------------------------------
(* The chains *)

(* A deposit is made.                                                      *)
LEMMA DepositIInv == ASSUME IInv, Deposit PROVE IInv'
<1>1. /\ UNCHANGED <<account, relayed, bridge, outcome, minted, filed>>
      /\ UNCHANGED <<chain, blockAt, handler, answers, withdrawn>>
      /\ faults' = faults /\ deposits' = deposits + 1 /\ deposits < MaxDeposits
    BY DEF Deposit, bridgeVars, fileVars, handlerVars, nodeVars
<1>2. SideInv' /\ MainInv'
    BY <1>1, KeptSide, KeptMain
<1>3. relayed \in 0..MaxDeposits
    BY DEF IInv, SideInv, SideOK
<1> QED  BY <1>1, <1>2, <1>3, RelayerAssumption DEF IInv, CountsOK

(* A block is committed, with its number or one that was used.             *)
LEMMA CommitBlockIInv ==
    ASSUME IInv, NEW content \in BlockContents, CommitBlock(content)
    PROVE  IInv'
<1>1. PICK number \in 0..Len(chain) :
         chain' = Append(chain, SerializeBlock([number |-> number, transitions |-> content]))
    BY DEF CommitBlock
<1> DEFINE x == SerializeBlock([number |-> number, transitions |-> content])
<1>2. x \in Encoded
    BY DEF Encoded, Blocks
<1>3. /\ UNCHANGED <<account, relayed, bridge, outcome, minted, deposits, filed>>
      /\ UNCHANGED <<blockAt, handler, answers, withdrawn>>
      /\ faults \subseteq faults'
    BY DEF CommitBlock, Fail, bridgeVars, fileVars, handlerVars, nodeVars
<1> HIDE DEF x
<1>4. chain' = Append(chain, x)
    BY <1>1 DEF x
<1>5. MainOK(account["main"], chain', blockAt, handler, answers, withdrawn)
    BY <1>2, <1>4, MainCommits DEF IInv, MainInv
<1>6. MainInv'
    BY <1>3, <1>5 DEF MainInv
<1>7. SideInv'
    BY <1>3, KeptSide
<1> QED  BY <1>3, <1>6, <1>7 DEF IInv, CountsOK

(* The sidechain mines the next transaction of the node's account.         *)
LEMMA MinesSide ==
    ASSUME IInv, NEW ok \in BOOLEAN, Unmined(account["side"]), MineTx("side", ok),
           LET tx == NextTx(account["side"])
           IN  minted' = IF ok /\ IsMint(tx) THEN Append(minted, tx.deposit) ELSE minted,
           UNCHANGED <<relayed, bridge, outcome, deposits, filed>>,
           UNCHANGED <<chain, blockAt, handler, answers, withdrawn>>,
           faults \subseteq faults'
    PROVE  IInv'
<1> DEFINE acc == account["side"]
           new == Mined(acc, ok)
           p == Len(acc.receipts) + 1
           u == "receipt" \in faults
           v == "receipt" \in faults'
<1>1. /\ SideOK(acc, minted, relayed, bridge, outcome, u) /\ acc \in AccountsOf(SideTxs)
      /\ u \in BOOLEAN /\ v \in BOOLEAN /\ (u => v)
    BY DEF IInv, SideInv, SideOK
<1>2. new \in AccountsOf(SideTxs) /\ MinedNext(new, acc, p, ok)
    BY <1>1, MinedExtends
<1>3. NextTx(acc) = acc.pool[p]
    BY DEF NextTx
<1>4. minted' = IF ok /\ IsMint(acc.pool[p]) THEN Append(minted, acc.pool[p].deposit) ELSE minted
    BY <1>3
<1>5. account' = [account EXCEPT !["side"] = new]
    BY DEF MineTx
<1> HIDE DEF new, p, u, v
<1>6. /\ account' = [d \in {"side", "main"} |-> account'[d]]
      /\ account'["side"] = new /\ account'["main"] = account["main"]
    BY <1>5, AccountEdit DEF IInv
<1>7. SideOK(new, minted', relayed, bridge, outcome, u)
    BY <1>1, <1>2, <1>4, SideMines
<1>8. SideOK(new, minted', relayed, bridge, outcome, v)
    BY <1>1, <1>7, SideUnheard
<1>9. SideInv'
    BY <1>6, <1>8 DEF SideInv, v
<1>10. MainInv'
    BY <1>6, KeptMain
<1>11. CountsOK'
    BY <1>6 DEF IInv, CountsOK
<1> QED  BY <1>9, <1>10, <1>11 DEF IInv

(* Whatever is next on the sidechain is mined.                             *)
LEMMA MineSideIInv == ASSUME IInv, MineSide PROVE IInv'
<1> DEFINE tx == NextTx(account["side"])
           More(ok) == IF ok /\ IsMint(tx) THEN Append(minted, tx.deposit) ELSE minted
<1>1. /\ Unmined(account["side"]) /\ faults \subseteq faults'
      /\ UNCHANGED <<relayed, bridge, outcome, deposits, filed>>
      /\ UNCHANGED <<chain, blockAt, handler, answers, withdrawn>>
    BY DEF MineSide, MineMint, MineReverts, MineOther, IsNext, Fail, bridgeVars, fileVars,
           handlerVars, chainVars, nodeVars
<1>2. \E ok \in BOOLEAN : MineTx("side", ok) /\ minted' = More(ok)
  <2>1. CASE MineMint
    <3>1. MineTx("side", TRUE) /\ minted' = More(TRUE)
        BY <2>1 DEF MineMint, IsNext, IsMint
    <3> QED  BY <3>1
  <2>2. CASE MineReverts("side", "deposit")
    <3>1. MineTx("side", FALSE) /\ minted' = More(FALSE)
        BY <2>2 DEF MineReverts, chainVars
    <3> QED  BY <3>1
  <2>3. CASE MineOther("side")
    <3>1. MineTx("side", TRUE) /\ minted' = More(TRUE)
        BY <2>3 DEF MineOther, IsNext, IsMint, chainVars
    <3> QED  BY <3>1
  <2> QED  BY <2>1, <2>2, <2>3 DEF MineSide
<1>3. PICK ok \in BOOLEAN : MineTx("side", ok) /\ minted' = More(ok)
    BY <1>2
<1> QED  BY <1>1, <1>3, MinesSide

(* ... and the main chain.                                                 *)
LEMMA MinesMain ==
    ASSUME IInv, NEW ok \in BOOLEAN, Unmined(account["main"]), MineTx("main", ok),
           LET tx == NextTx(account["main"])
           IN  withdrawn' = IF ok /\ tx.method = "withdraw" THEN Append(withdrawn, tx.included)
                                                           ELSE withdrawn,
           UNCHANGED <<relayed, bridge, outcome, minted, deposits, filed>>,
           UNCHANGED <<chain, blockAt, handler, answers>>,
           faults \subseteq faults'
    PROVE  IInv'
<1> DEFINE acc == account["main"]
           new == Mined(acc, ok)
           p == Len(acc.receipts) + 1
<1>1. /\ MainOK(acc, chain, blockAt, handler, answers, withdrawn) /\ acc \in AccountsOf(MainTxs)
    BY DEF IInv, MainInv, MainOK
<1>2. new \in AccountsOf(MainTxs) /\ MinedNext(new, acc, p, ok)
    BY <1>1, MinedExtends
<1>3. NextTx(acc) = acc.pool[p]
    BY DEF NextTx
<1>4. withdrawn' = IF ok /\ acc.pool[p].method = "withdraw"
                   THEN Append(withdrawn, acc.pool[p].included) ELSE withdrawn
    BY <1>3
<1>5. account' = [account EXCEPT !["main"] = new]
    BY DEF MineTx
<1> HIDE DEF new, p
<1>6. /\ account' = [d \in {"side", "main"} |-> account'[d]]
      /\ account'["main"] = new /\ account'["side"] = account["side"]
    BY <1>5, AccountEdit DEF IInv
<1> DEFINE more == withdrawn'
<1> HIDE DEF acc, more
<1>7. MainOK(new, chain, blockAt, handler, answers, more)
  <2>1. more = IF ok /\ acc.pool[p].method = "withdraw"
               THEN Append(withdrawn, acc.pool[p].included) ELSE withdrawn
      BY <1>4 DEF more
  <2> QED  BY <1>1, <1>2, <2>1, MainMines, ZenonT(40)
<1>8. MainInv'
    BY <1>6, <1>7 DEF MainInv, more
<1>9. SideInv'
    BY <1>6, KeptSide
<1>10. CountsOK'
    BY <1>6 DEF IInv, CountsOK
<1> QED  BY <1>8, <1>9, <1>10 DEF IInv

(* Whatever is next on the main chain is mined.                            *)
LEMMA MineMainIInv == ASSUME IInv, MineMain PROVE IInv'
<1> DEFINE tx == NextTx(account["main"])
           More(ok) == IF ok /\ tx.method = "withdraw" THEN Append(withdrawn, tx.included)
                                                       ELSE withdrawn
<1>1. /\ Unmined(account["main"]) /\ faults \subseteq faults'
      /\ UNCHANGED <<relayed, bridge, outcome, minted, deposits, filed>>
      /\ UNCHANGED <<chain, blockAt, handler, answers>>
    BY DEF MineMain, MineWithdraw, MineReverts, MineOther, IsNext, Fail, bridgeVars, fileVars,
           handlerVars, chainVars, nodeVars
<1>2. \E ok \in BOOLEAN : MineTx("main", ok) /\ withdrawn' = More(ok)
  <2>1. CASE MineWithdraw
    <3>1. MineTx("main", TRUE) /\ withdrawn' = More(TRUE)
        BY <2>1 DEF MineWithdraw, IsNext
    <3> QED  BY <3>1
  <2>2. CASE MineReverts("main", "withdraw")
    <3>1. MineTx("main", FALSE) /\ withdrawn' = More(FALSE)
        BY <2>2 DEF MineReverts, chainVars
    <3> QED  BY <3>1
  <2>3. CASE MineOther("main")
    <3>1. MineTx("main", TRUE) /\ withdrawn' = More(TRUE)
        BY <2>3 DEF MineOther, IsNext, chainVars
    <3> QED  BY <3>1
  <2> QED  BY <2>1, <2>2, <2>3 DEF MineMain
<1>3. PICK ok \in BOOLEAN : MineTx("main", ok) /\ withdrawn' = More(ok)
    BY <1>2
<1> QED  BY <1>1, <1>3, MinesMain

-----------------------------------------------------------------------------
(* The theorems *)

(* Every step keeps the invariant.                                         *)
LEMMA StepIInv == IInv /\ [Next]_vars => IInv'
<1> SUFFICES ASSUME IInv, [Next]_vars PROVE IInv'
    OBVIOUS
<1>1. CASE UNCHANGED vars
  <2>1. /\ UNCHANGED <<account, relayed, bridge, outcome, minted, deposits, filed>>
        /\ UNCHANGED <<chain, blockAt, handler, answers, withdrawn>>
        /\ faults' = faults
      BY <1>1 DEF vars, bridgeVars, fileVars, handlerVars, chainVars, nodeVars
  <2> QED  BY <2>1, KeptSide, KeptMain DEF IInv, CountsOK
<1>2. CASE BridgeLoop \/ SendMintReplaces \/ WaitMintErrors
    BY <1>2, TakeDepositIInv, SendMintIInv, RelayReturnsIInv DEF BridgeLoop
<1>3. CASE FileBlock \/ FileBlockFails
    BY <1>3, FileBlockIInv
<1>4. ASSUME NEW h \in Handlers, NEW number \in RequestNumbers, NEW index \in RequestIndexes,
             Ask(h, number, index)
      PROVE  IInv'
    BY <1>4, AskIInv
<1>5. ASSUME NEW h \in Handlers, Serve(h) PROVE IInv'
  <2>1. CASE ReadBlock(h)
      BY <2>1, ReadBlockIInv
  <2>2. CASE BlockNotFound(h) \/ WrongType(h)
      BY <2>2, ErrorIInv
  <2>3. CASE BuildPanics(h) \/ IndexPanics(h) \/ SendWithdrawPanics(h)
      BY <2>3, DieIInv
  <2>4. CASE BuildProof(h)
      BY <2>4, BuildProofIInv
  <2>5. CASE SendWithdraw(h)
      BY <2>5, SendWithdrawIInv
  <2>6. CASE Paid(h)
      BY <2>6, PaidIInv
  <2> QED  BY <1>5, <2>1, <2>2, <2>3, <2>4, <2>5, <2>6 DEF Serve
<1>6. ASSUME NEW h \in Handlers,
             BuildersCollide(h) \/ SendWithdrawReplaces(h) \/ WaitWithdrawErrors(h)
      PROVE  IInv'
    BY <1>6, DieIInv, SendWithdrawIInv, ErrorIInv
<1>7. ASSUME NEW c \in {"side", "main"}, OtherSends(c) \/ OtherReplaces(c) PROVE IInv'
    BY <1>7, OtherIInv
<1>8. ASSUME NEW subscription \in {"deposits", "blocks"}, Drop(subscription) PROVE IInv'
    BY <1>8, DropIInv
<1>9. CASE Restart
    BY <1>9, RestartIInv
<1>10. CASE Deposit
    BY <1>10, DepositIInv
<1>11. ASSUME NEW content \in BlockContents, CommitBlock(content) PROVE IInv'
    BY <1>11, CommitBlockIInv
<1>12. CASE MineSide \/ MineMain
    BY <1>12, MineSideIInv, MineMainIInv
<1> QED
    BY <1>1, <1>2, <1>3, <1>4, <1>5, <1>6, <1>7, <1>8, <1>9, <1>10, <1>11, <1>12 DEF Next

(* The accounts, the bridge, the table, the handlers and the answers agree *)
(* with the chains, whatever fails and however often the node restarts.    *)
THEOREM Invariant == Spec => []IInv
<1>1. Init => IInv
    BY InitIInv
<1>2. IInv /\ [Next]_vars => IInv'
    BY StepIInv
<1> QED  BY <1>1, <1>2, PTL DEF Spec

(* No deposit is minted twice, however relaying it failed: a deposit taken *)
(* is never taken again, and its transaction stands at one nonce.          *)
THEOREM NoDoubleMint == Spec => []MintedOnce
<1>1. IInv => MintedOnce
    BY DEF IInv, SideInv, SideOK, MintsOK, MintedOnce
<1> QED  BY <1>1, Invariant, PTL

(* relayDeposit's nil means that the deposit is minted; its error, that no *)
(* transaction for it was mined or ever will be, when WaitMined did not    *)
(* give up early.                                                          *)
THEOREM OutcomesTold == Spec => []OutcomeTrue
<1>1. IInv => OutcomeTrue
  <2> SUFFICES ASSUME IInv, NEW d \in 1..MaxDeposits
               PROVE  /\ outcome[d] = "nil" => \E i \in DOMAIN minted : minted[i] = d
                      /\ outcome[d] = "error" /\ "receipt" \notin faults =>
                            \A i \in DOMAIN minted : minted[i] # d
      BY DEF OutcomeTrue
  <2>1. /\ MintsOK(account["side"], minted) /\ account["side"] \in AccountsOf(SideTxs)
        /\ outcome[d] = "nil" => IsMinted(d, minted)
        /\ outcome[d] = "error" /\ "receipt" \notin faults => Refused(account["side"], d)
      BY DEF IInv, SideInv, SideOK, OutcomesOK
  <2>2. ASSUME Refused(account["side"], d), NEW k \in DOMAIN minted, minted[k] = d
        PROVE  FALSE
    <3>1. PICK i : Succeeded(account["side"], i) /\ account["side"].pool[i].deposit = d
        BY <2>1, <2>2 DEF MintsOK
    <3>2. i \in DOMAIN account["side"].pool
        BY <2>1, <3>1, AccountShape DEF Succeeded
    <3> QED  BY <2>2, <3>1, <3>2 DEF Refused, Succeeded
  <2> QED  BY <2>1, <2>2 DEF IsMinted
<1> QED  BY <1>1, Invariant, PTL

(* Every withdrawal sent has a proof the contract accepts, of a withdraw   *)
(* transition: through two decodings and two encodings nothing is lost.    *)
THEOREM ProofsAccepted == Spec => []ProofsFit
<1>1. IInv => ProofsFit
    BY DEF IInv, MainInv, MainOK, PoolFits, Good, FitsIn, ProofsFit, Fits
<1> QED  BY <1>1, Invariant, PTL

(* The hash a client gets is that of a transaction that paid, for the      *)
(* block and the index it asked for, and of no other handler's.            *)
THEOREM HashMeansPaid == Spec => []AnsweredIsPaid
<1>1. IInv => AnsweredIsPaid
    BY DEF IInv, MainInv, MainOK, AnswersOK, AnswerOK, PaidOut, AnsweredIsPaid
<1> QED  BY <1>1, Invariant, PTL
=============================================================================
