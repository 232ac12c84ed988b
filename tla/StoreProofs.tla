---------------------------- MODULE StoreProofs -----------------------------
(***************************************************************************)
(* What holds of Store for any clients, keys, values, default nodes and    *)
(* bounds: both engines keep the promise of db.DB, a tree that finds its   *)
(* marker finds its default nodes, and the iterators of the engines agree. *)
(***************************************************************************)
EXTENDS Store, FiniteSetTheorems, WellFoundedInduction, TLAPS

-----------------------------------------------------------------------------
(* Applying operations *)

(* Of some numbers there is a least one.                                   *)
LEMMA LeastExists ==
    ASSUME NEW T, T \subseteq Nat, T # {}
    PROVE  \E m \in T : \A k \in T : m <= k
<1>1. PICK m \in T : \A k \in T : ~(<<k, m>> \in OpToRel(<, Nat))
  BY NatLessThanWellFounded, WFMin
<1>2. \A k \in T : m <= k
  <2> SUFFICES ASSUME NEW k \in T, k < m PROVE FALSE
    OBVIOUS
  <2>1. <<k, m>> \in OpToRel(<, Nat)
    BY DEF OpToRel
  <2>. QED  BY <1>1, <2>1
<1>. QED  BY <1>2

(* Of several operations on a key there is a last one.                     *)
LEMMA LastExists ==
    ASSUME NEW n \in Nat, NEW S, S \subseteq 1..n, S # {}
    PROVE  Max(S) \in S /\ \A i \in S : i <= Max(S)
<1> DEFINE T == { n - i : i \in S }
<1>1. T \subseteq Nat /\ T # {}
  <2>1. PICK i \in S : TRUE
    OBVIOUS
  <2>2. n - i \in T
    OBVIOUS
  <2>3. \A j \in S : n - j \in Nat
    OBVIOUS
  <2>. QED  BY <2>2, <2>3
<1> HIDE DEF T
<1>2. PICK m \in T : \A k \in T : m <= k
  BY <1>1, LeastExists
<1>3. PICK x \in S : m = n - x
  BY DEF T
<1>4. \A i \in S : i <= x
  <2> SUFFICES ASSUME NEW i \in S PROVE i <= x
    OBVIOUS
  <2>1. n - i \in T
    BY DEF T
  <2>2. n - x <= n - i
    BY <1>2, <1>3, <2>1
  <2>. QED  BY <2>2
<1>5. \E z \in S : \A y \in S : z >= y
  BY <1>4
<1>. QED  BY <1>5 DEF Max

OpSet == [key : Keys, value : Values \cup {NoValue}]
Tables == [Keys -> Values \cup {NoValue}]

OnKey(ops, k) == { i \in DOMAIN ops : ops[i].key = k }

(* What a key has after some operations, and how the last is found.        *)
LEMMA AfterAllAt ==
    ASSUME NEW table \in Tables, NEW ops \in Seq(OpSet), NEW k \in Keys
    PROVE  /\ OnKey(ops, k) = {} => AfterAll(table, ops)[k] = table[k]
           /\ OnKey(ops, k) # {} =>
                 \E m \in OnKey(ops, k) : /\ AfterAll(table, ops)[k] = ops[m].value
                                          /\ \A i \in OnKey(ops, k) : i <= m
<1> DEFINE on == OnKey(ops, k)
<1>1. /\ k \in DOMAIN table /\ on \subseteq 1..Len(ops) /\ Len(ops) \in Nat
  BY DEF Tables, OnKey
<1>2. AfterAll(table, ops)[k] = IF on = {} THEN table[k] ELSE ops[Max(on)].value
  BY <1>1 DEF AfterAll, OnKey
<1>3. on # {} => Max(on) \in on /\ \A i \in on : i <= Max(on)
  BY <1>1, LastExists
<1>. QED  BY <1>2, <1>3

(* Operations on a table make a table.                                     *)
LEMMA AfterAllTyped ==
    ASSUME NEW table \in Tables, NEW ops \in Seq(OpSet)
    PROVE  AfterAll(table, ops) \in Tables
<1>1. AfterAll(table, ops) = [k \in Keys |-> AfterAll(table, ops)[k]]
  BY DEF AfterAll, Tables
<1>2. ASSUME NEW k \in Keys PROVE AfterAll(table, ops)[k] \in Values \cup {NoValue}
  <2>1. CASE OnKey(ops, k) = {}
    BY <2>1, AfterAllAt DEF Tables
  <2>2. CASE OnKey(ops, k) # {}
    <3>1. PICK m \in OnKey(ops, k) : AfterAll(table, ops)[k] = ops[m].value
      BY <2>2, AfterAllAt
    <3>2. ops[m] \in OpSet
      BY DEF OnKey
    <3>. QED  BY <3>1, <3>2 DEF OpSet
  <2>. QED  BY <2>1, <2>2
<1>. QED  BY <1>1, <1>2 DEF Tables

(* So does one.                                                            *)
LEMMA AfterTyped ==
    ASSUME NEW table \in Tables, NEW op \in OpSet
    PROVE  After(table, op) \in Tables
BY DEF Tables, OpSet, After

(* Nothing to apply.                                                       *)
LEMMA AfterNone ==
    ASSUME NEW table \in Tables
    PROVE  AfterAll(table, <<>>) = table
BY DEF AfterAll, Tables

(* The first operation is applied, the others are left.                    *)
LEMMA AfterFirst ==
    ASSUME NEW table \in Tables, NEW ops \in Seq(OpSet), ops # <<>>
    PROVE  AfterAll(After(table, Head(ops)), Tail(ops)) = AfterAll(table, ops)
<1> DEFINE op == Head(ops)
           rest == Tail(ops)
           mid == After(table, op)
<1>1. /\ op \in OpSet /\ rest \in Seq(OpSet) /\ op = ops[1] /\ 1 \in DOMAIN ops
      /\ Len(ops) \in Nat
      /\ \A i \in DOMAIN rest : i \in Nat /\ i + 1 \in DOMAIN ops /\ rest[i] = ops[i + 1]
      /\ \A i \in DOMAIN ops : i = 1 \/ (i - 1 \in DOMAIN rest /\ rest[i - 1] = ops[i] /\ i \in Nat)
  OBVIOUS
<1> HIDE DEF op, rest
<1>2. mid \in Tables
  BY <1>1, AfterTyped
<1>3. \A k \in Keys : mid[k] = IF k = op.key THEN op.value ELSE table[k]
  BY <1>1 DEF After, Tables, OpSet
<1> HIDE DEF mid
<1>4. ASSUME NEW k \in Keys PROVE AfterAll(mid, rest)[k] = AfterAll(table, ops)[k]
  <2>1. CASE OnKey(rest, k) = {}
    <3>1. AfterAll(mid, rest)[k] = mid[k]
      BY <1>1, <1>2, <2>1, AfterAllAt
    <3>2. \A i \in OnKey(ops, k) : i = 1
      BY <1>1, <2>1 DEF OnKey
    <3>3. CASE op.key = k
      <4>1. OnKey(ops, k) # {}
        BY <1>1, <3>3 DEF OnKey
      <4>2. PICK m \in OnKey(ops, k) : AfterAll(table, ops)[k] = ops[m].value
        BY <4>1, AfterAllAt
      <4>. QED  BY <1>1, <1>3, <3>1, <3>2, <3>3, <4>2
    <3>4. CASE op.key # k
      <4>1. OnKey(ops, k) = {}
        BY <1>1, <3>2, <3>4 DEF OnKey
      <4>. QED  BY <1>3, <3>1, <3>4, <4>1, AfterAllAt
    <3>. QED  BY <3>3, <3>4
  <2>2. CASE OnKey(rest, k) # {}
    <3>1. PICK p \in OnKey(rest, k) : /\ AfterAll(mid, rest)[k] = rest[p].value
                                      /\ \A i \in OnKey(rest, k) : i <= p
      BY <1>1, <1>2, <2>2, AfterAllAt
    <3>2. /\ p \in DOMAIN rest /\ p \in Nat
          /\ p + 1 \in OnKey(ops, k) /\ rest[p] = ops[p + 1]
      BY <1>1 DEF OnKey
    <3>3. PICK m \in OnKey(ops, k) : /\ AfterAll(table, ops)[k] = ops[m].value
                                     /\ \A i \in OnKey(ops, k) : i <= m
      BY <3>2, AfterAllAt
    <3>4. p + 1 <= m /\ m \in DOMAIN ops /\ m \in Nat
      BY <3>2, <3>3 DEF OnKey
    <3>5. m - 1 \in OnKey(rest, k)
      BY <1>1, <3>2, <3>4 DEF OnKey
    <3>6. m - 1 <= p
      BY <3>1, <3>5
    <3>7. m = p + 1
      BY <3>2, <3>4, <3>6
    <3>. QED  BY <3>1, <3>2, <3>3, <3>7
  <2>. QED  BY <2>1, <2>2
<1>5. AfterAll(mid, rest) \in Tables /\ AfterAll(table, ops) \in Tables
  BY <1>1, <1>2, AfterAllTyped
<1>6. AfterAll(mid, rest) = AfterAll(table, ops)
  BY <1>4, <1>5 DEF Tables
<1>. QED  BY <1>6 DEF op, rest, mid

-----------------------------------------------------------------------------
(* Types, and badger does without the lock *)

Batches == [kind : {"none", "tx", "bulk"}, ops : Seq(OpSet), isDiscard : BOOLEAN,
            isCommit : BOOLEAN, left : Seq(OpSet)]

TypeInv ==
    /\ db \in Tables
    /\ lock \in Clients \cup {NoOne}
    /\ batch \in [Clients -> Batches]
    /\ seen \in [Clients -> Values \cup {NoValue}]
    /\ opening \in Seq(OpSet)
    /\ engine = "badgerdb" => lock = NoOne

(* What the Opener puts in its Bulk are operations.                        *)
LEMMA TreeOpsTyped ==
    /\ TreeOps \in Seq(OpSet)
    /\ Len(TreeOps) = Len(Defaults) + 1
    /\ \A i \in DOMAIN Defaults : TreeOps[i] = Op(Defaults[i], TheValue)
    /\ TreeOps[Len(Defaults) + 1] = Op(Marker, TheValue)
<1>1. TheValue \in Values
  BY StoreAssumption DEF TheValue
<1>2. Op(Marker, TheValue) \in OpSet
  BY <1>1, StoreAssumption DEF Op, OpSet
<1>3. ASSUME NEW i \in DOMAIN Defaults PROVE Op(Defaults[i], TheValue) \in OpSet
  BY <1>1, StoreAssumption DEF Op, OpSet
<1> DEFINE puts == [i \in DOMAIN Defaults |-> Op(Defaults[i], TheValue)]
<1>4. puts \in Seq(OpSet) /\ Len(puts) = Len(Defaults) /\ Len(puts) \in Nat
  BY <1>3, StoreAssumption
<1>5. \A i \in DOMAIN Defaults : i \in 1..Len(puts) /\ puts[i] = Op(Defaults[i], TheValue)
  BY <1>4, StoreAssumption
<1>6. TreeOps = puts \o <<Op(Marker, TheValue)>>
  BY DEF TreeOps
<1> HIDE DEF puts
<1> DEFINE last == Op(Marker, TheValue)
<1> HIDE DEF last
<1>7. last \in OpSet
  BY <1>2 DEF last
<1>8. /\ puts \o <<last>> \in Seq(OpSet) /\ Len(puts \o <<last>>) = Len(puts) + 1
      /\ \A i \in 1..Len(puts) : (puts \o <<last>>)[i] = puts[i]
      /\ (puts \o <<last>>)[Len(puts) + 1] = last
  BY <1>4, <1>7
<1>. QED  BY <1>4, <1>5, <1>6, <1>8 DEF last

(* What the actions make of a batch.                                       *)
Begun(kind) == [NoBatch EXCEPT !.kind = kind]
WithOps(b, o) == [b EXCEPT !.ops = o]
WithLeft(b, o) == [b EXCEPT !.left = o]
Done(b) == [b EXCEPT !.isCommit = TRUE]
Dropped(b) == [b EXCEPT !.isDiscard = TRUE]

(* A new batch is empty and not over.                                      *)
LEMMA NoBatchTyped ==
    NoBatch \in Batches /\ NoBatch.kind = "none" /\ NoBatch.ops = <<>> /\ NoBatch.left = <<>>
BY DEF NoBatch, Batches

(* A batch that was begun.                                                 *)
LEMMA BatchBegun ==
    ASSUME NEW kind \in {"tx", "bulk"}
    PROVE  /\ Begun(kind) \in Batches
           /\ Begun(kind).kind = kind /\ Begun(kind).ops = <<>> /\ Begun(kind).left = <<>>
           /\ ~Over(Begun(kind))
<1>1. NoBatch \in Batches /\ NoBatch.ops = <<>> /\ NoBatch.left = <<>> /\ ~Over(NoBatch)
  BY DEF NoBatch, Batches, Over
<1>2. kind \in {"none", "tx", "bulk"}
  OBVIOUS
<1>. QED  BY <1>1, <1>2 DEF Begun, Batches, Over

(* A batch with other operations.                                          *)
LEMMA OpsReplaced ==
    ASSUME NEW b \in Batches, NEW o \in Seq(OpSet)
    PROVE  /\ WithOps(b, o) \in Batches
           /\ WithOps(b, o).kind = b.kind /\ WithOps(b, o).ops = o /\ WithOps(b, o).left = b.left
           /\ Over(WithOps(b, o)) <=> Over(b)
BY DEF Batches, WithOps, Over

(* A batch of which other operations are left.                             *)
LEMMA LeftReplaced ==
    ASSUME NEW b \in Batches, NEW o \in Seq(OpSet)
    PROVE  /\ WithLeft(b, o) \in Batches
           /\ WithLeft(b, o).kind = b.kind /\ WithLeft(b, o).ops = b.ops /\ WithLeft(b, o).left = o
           /\ Over(WithLeft(b, o)) <=> Over(b)
BY DEF Batches, WithLeft, Over

(* A batch that is committed.                                              *)
LEMMA BatchDone ==
    ASSUME NEW b \in Batches
    PROVE  /\ Done(b) \in Batches
           /\ Done(b).kind = b.kind /\ Done(b).ops = b.ops /\ Done(b).left = b.left
           /\ Over(Done(b))
BY DEF Batches, Done, Over

(* A batch that is discarded.                                              *)
LEMMA BatchDropped ==
    ASSUME NEW b \in Batches
    PROVE  /\ Dropped(b) \in Batches
           /\ Dropped(b).kind = b.kind /\ Dropped(b).ops = b.ops /\ Dropped(b).left = b.left
           /\ Over(Dropped(b))
BY DEF Batches, Dropped, Over

(* At the start there is no batch.                                         *)
LEMMA InitTyped == Init => TypeInv
<1> SUFFICES ASSUME Init PROVE TypeInv
  OBVIOUS
<1>1. NoBatch \in Batches
  BY DEF NoBatch, Batches
<1>2. db \in Tables
  BY DEF Init, Tables
<1>. QED  BY <1>1, <1>2 DEF Init, TypeInv

(* What the type invariant says of a batch.                                *)
LEMMA BatchTyped ==
    ASSUME TypeInv, NEW c \in Clients
    PROVE  /\ batch[c] \in Batches /\ batch[c].ops \in Seq(OpSet) /\ batch[c].left \in Seq(OpSet)
           /\ batch[c].kind \in {"none", "tx", "bulk"}
<1>1. batch[c] \in Batches
  BY DEF TypeInv
<1>. QED  BY <1>1 DEF Batches

(* batch' is batch with another batch of c.                                *)
Becomes(c, b) == batch' = [batch EXCEPT ![c] = b]

(* A client has a batch of operations in place of the one it had.          *)
LEMMA BecomesTyped ==
    ASSUME TypeInv, NEW c \in Clients, NEW b \in Batches, Becomes(c, b)
    PROVE  /\ batch' \in [Clients -> Batches]
           /\ batch'[c] = b /\ \A d \in Clients : d # c => batch'[d] = batch[d]
BY DEF TypeInv, Becomes

(* What each action makes of the batch, and the types of what it moves.    *)
LEMMA CollectBatch ==
    ASSUME TypeInv, NEW c \in Clients, NEW k \in OtherKeys, NEW v \in Values \cup {NoValue},
           Collect(c, Op(k, v))
    PROVE  /\ Op(k, v) \in OpSet /\ Append(batch[c].ops, Op(k, v)) \in Seq(OpSet)
           /\ Becomes(c, WithOps(batch[c], Append(batch[c].ops, Op(k, v))))
<1>1. Op(k, v) \in OpSet
  BY DEF Op, OpSet, OtherKeys
<1>2. Becomes(c, WithOps(batch[c], Append(batch[c].ops, Op(k, v))))
  BY BatchTyped DEF Collect, Becomes, WithOps
<1>. QED  BY <1>1, <1>2, BatchTyped

(* PutNext appends the head of the pending puts to the opener's bulk batch. *)
LEMMA PutNextBatch ==
    ASSUME TypeInv, PutNext
    PROVE  /\ Opener \in Clients
           /\ Head(opening) \in OpSet /\ Tail(opening) \in Seq(OpSet)
           /\ Append(batch[Opener].ops, Head(opening)) \in Seq(OpSet)
           /\ Becomes(Opener, WithOps(batch[Opener], Append(batch[Opener].ops, Head(opening))))
<1>1. Opener \in Clients
  BY StoreAssumption
<1>2. Head(opening) \in OpSet /\ Tail(opening) \in Seq(OpSet)
  BY DEF PutNext, TypeInv
<1>3. Becomes(Opener, WithOps(batch[Opener], Append(batch[Opener].ops, Head(opening))))
  BY <1>1, BatchTyped DEF PutNext, Becomes, WithOps
<1>. QED  BY <1>1, <1>2, <1>3, BatchTyped

(* A bulk write committed because it is full goes on with no operations. *)
LEMMA CommitFullBatch ==
    ASSUME TypeInv, NEW c \in Clients, CommitFull(c)
    PROVE  <<>> \in Seq(OpSet) /\ Becomes(c, WithOps(batch[c], <<>>))
BY DEF CommitFull, Becomes, WithOps

(* A Badger transaction is done with its commit and keeps no operations. *)
LEMMA CommitBadgerBatch ==
    ASSUME TypeInv, NEW c \in Clients, CommitBadger(c)
    PROVE  <<>> \in Seq(OpSet) /\ Becomes(c, WithOps(Done(batch[c]), <<>>))
<1>1. batch' = [batch EXCEPT ![c] = [[batch[c] EXCEPT !.isCommit = TRUE] EXCEPT !.ops = <<>>]]
  BY DEF CommitBadger, TypeInv
<1>. QED  BY <1>1 DEF Becomes, WithOps, Done

(* The memory store sets out to apply all that was collected, *)
LEMMA CommitBatch ==
    ASSUME TypeInv, NEW c \in Clients, Commit(c)
    PROVE  Becomes(c, WithLeft(batch[c], batch[c].ops))
BY DEF Commit, Becomes, WithLeft

(* takes one operation at a time, *)
LEMMA ApplyOpBatch ==
    ASSUME TypeInv, NEW c \in Clients, ApplyOp(c)
    PROVE  /\ Tail(batch[c].left) \in Seq(OpSet) /\ Head(batch[c].left) \in OpSet
           /\ Becomes(c, WithLeft(batch[c], Tail(batch[c].left)))
<1>1. Tail(batch[c].left) \in Seq(OpSet) /\ Head(batch[c].left) \in OpSet
  BY BatchTyped DEF ApplyOp
<1>2. Becomes(c, WithLeft(batch[c], Tail(batch[c].left)))
  BY DEF ApplyOp, Becomes, WithLeft
<1>. QED  BY <1>1, <1>2

(* and is done after the last. *)
LEMMA CommittedBatch ==
    ASSUME TypeInv, NEW c \in Clients, Committed(c)
    PROVE  Becomes(c, Done(batch[c]))
BY DEF Committed, Becomes, Done

(* Discard drops the batch. *)
LEMMA DiscardBatch ==
    ASSUME TypeInv, NEW c \in Clients, Discard(c)
    PROVE  Becomes(c, Dropped(batch[c]))
BY DEF Discard, Becomes, Dropped

(* Every step keeps the types.                                             *)
LEMMA StepTyped == TypeInv /\ [Next]_vars => TypeInv'
<1> SUFFICES ASSUME TypeInv, [Next]_vars PROVE TypeInv'
  OBVIOUS
<1>0. Opener \in Clients /\ <<>> \in Seq(OpSet)
  BY StoreAssumption
<1>1. CASE UNCHANGED vars
  BY <1>1 DEF vars, TypeInv
<1>2. ASSUME NEW c \in Clients, NEW k \in OtherKeys, NEW v \in Values \cup {NoValue}, Set(c, k, v)
      PROVE TypeInv'
  <2>1. Op(k, v) \in OpSet
    BY DEF Op, OpSet, OtherKeys
  <2>. QED  BY <1>2, <2>1, AfterTyped DEF TypeInv, Set, Call
<1>3. ASSUME NEW c \in Clients, NEW k \in Keys, Get(c, k) PROVE TypeInv'
  BY <1>3 DEF TypeInv, Get, Call, Tables
<1>4. ASSUME NEW c \in Clients, CommitFull(c) PROVE TypeInv'
  <2>1. batch' \in [Clients -> Batches]
    BY <1>4, BatchTyped, CommitFullBatch, OpsReplaced, BecomesTyped
  <2>. QED  BY <1>4, <2>1, BatchTyped, AfterAllTyped DEF TypeInv, CommitFull
<1>5. ASSUME NEW c \in Clients, CommitBadger(c) PROVE TypeInv'
  <2>1. batch' \in [Clients -> Batches]
    BY <1>5, BatchTyped, CommitBadgerBatch, BatchDone, OpsReplaced, BecomesTyped
  <2>. QED  BY <1>5, <2>1, BatchTyped, AfterAllTyped DEF TypeInv, CommitBadger, Call
<1>6. ASSUME NEW c \in Clients, CommitFails(c) PROVE TypeInv'
  BY <1>6, NoBatchTyped DEF TypeInv, CommitFails, Fail
<1>7. ASSUME NEW c \in Clients, Commit(c) PROVE TypeInv'
  <2>1. batch' \in [Clients -> Batches]
    BY <1>7, BatchTyped, CommitBatch, LeftReplaced, BecomesTyped
  <2>. QED  BY <1>7, <2>1 DEF TypeInv, Commit, Call
<1>8. ASSUME NEW c \in Clients, ApplyOp(c) PROVE TypeInv'
  <2>1. batch' \in [Clients -> Batches]
    BY <1>8, BatchTyped, ApplyOpBatch, LeftReplaced, BecomesTyped
  <2>. QED  BY <1>8, <2>1, ApplyOpBatch, AfterTyped DEF TypeInv, ApplyOp
<1>9. ASSUME NEW c \in Clients, Committed(c) PROVE TypeInv'
  <2>1. batch' \in [Clients -> Batches]
    BY <1>9, BatchTyped, CommittedBatch, BatchDone, BecomesTyped
  <2>. QED  BY <1>9, <2>1 DEF TypeInv, Committed
<1>10. ASSUME NEW c \in Clients, Forget(c) PROVE TypeInv'
  BY <1>10, NoBatchTyped DEF TypeInv, Forget
<1>11. ASSUME NEW c \in Clients, NEW kind \in {"tx", "bulk"}, NewBatch(c, kind) PROVE TypeInv'
  BY <1>11, BatchBegun DEF TypeInv, NewBatch, Call, Begun
<1>12. ASSUME NEW c \in Clients, NEW k \in OtherKeys, NEW v \in Values \cup {NoValue}, Collect(c, Op(k, v))
       PROVE TypeInv'
  <2>1. batch' \in [Clients -> Batches]
    BY <1>12, BatchTyped, CollectBatch, OpsReplaced, BecomesTyped
  <2>. QED  BY <1>12, <2>1 DEF TypeInv, Collect, Call
<1>13. ASSUME NEW c \in Clients, Discard(c) PROVE TypeInv'
  <2>1. batch' \in [Clients -> Batches]
    BY <1>13, BatchTyped, DiscardBatch, BatchDropped, BecomesTyped
  <2>. QED  BY <1>13, <2>1 DEF TypeInv, Discard, Call
<1>14. ASSUME OpenTree PROVE TypeInv'
  BY <1>0, <1>14, BatchBegun, TreeOpsTyped DEF TypeInv, OpenTree, Call, Begun
<1>15. ASSUME PutNext PROVE TypeInv'
  <2>1. batch' \in [Clients -> Batches] /\ Tail(opening) \in Seq(OpSet)
    BY <1>15, BatchTyped, PutNextBatch, OpsReplaced, BecomesTyped
  <2>. QED  BY <1>15, <2>1 DEF TypeInv, PutNext
<1>16. ASSUME PutFails PROVE TypeInv'
  <2>1. batch' \in [Clients -> Batches]
    BY <1>0, <1>16, NoBatchTyped DEF PutFails, TypeInv
  <2>2. opening' \in Seq(OpSet)
    <3>1. Tail(opening) \in Seq(OpSet) /\ <<>> \in Seq(OpSet)
      BY <1>16 DEF PutFails, TypeInv
    <3>2. opening' = Tail(opening) \/ opening' = <<>>
      BY <1>16 DEF PutFails
    <3>. QED  BY <3>1, <3>2
  <2>3. UNCHANGED <<db, lock, seen, engine>>
    BY <1>16 DEF PutFails, Fail
  <2>. QED  BY <2>1, <2>2, <2>3 DEF TypeInv
<1>17. ASSUME Crash PROVE TypeInv'
  BY <1>0, <1>17, NoBatchTyped DEF TypeInv, Crash, Fail
<1>. QED  BY <1>1, <1>2, <1>3, <1>4, <1>5, <1>6, <1>7, <1>8, <1>9, <1>10, <1>11, <1>12, <1>13, <1>14,
             <1>15, <1>16, <1>17 DEF Next

-----------------------------------------------------------------------------
(* The refinement *)

(* What an abstract batch shows of a concrete one, held or not.            *)
View(b, held) ==
    IF b.kind = "none" \/ Over(b) \/ held
    THEN [bulk |-> FALSE, ops |-> <<>>]
    ELSE [bulk |-> b.kind = "bulk", ops |-> b.ops]

Views == [c \in Clients |-> Collected(c)]

(* What the refinement mapping shows of a client depends on its own batch and on
   whether it holds the lock, and is what AtomicStore calls collected. *)
LEMMA ViewOf == \A c \in Clients : Views[c] = View(batch[c], lock = c) /\ Views[c] = Collected(c)
BY DEF Views, Collected, View

(* A view changes with the batch of its client only.                       *)
LEMMA ViewBecomes ==
    ASSUME TypeInv, NEW c \in Clients, NEW b \in Batches, Becomes(c, b),
           \A d \in Clients : d # c => ((lock' = d) <=> (lock = d))
    PROVE  Views' = [Views EXCEPT ![c] = View(b, lock' = c)]
<1>1. batch'[c] = b /\ \A d \in Clients : d # c => batch'[d] = batch[d]
  BY BecomesTyped
<1>2. ASSUME NEW d \in Clients, d # c PROVE Collected(d)' = Collected(d)
  BY <1>1, <1>2 DEF Collected
<1>3. Collected(c)' = View(b, lock' = c)
  BY <1>1 DEF Collected, View
<1>. QED  BY <1>2, <1>3 DEF Views

(* Nor does it when what it shows stays.                                   *)
LEMMA ViewStays ==
    ASSUME TypeInv, NEW c \in Clients, NEW b \in Batches, Becomes(c, b),
           \A d \in Clients : d # c => ((lock' = d) <=> (lock = d)),
           View(b, lock' = c) = View(batch[c], lock = c)
    PROVE  Views' = Views
<1>1. batch'[c] = b /\ \A d \in Clients : d # c => batch'[d] = batch[d]
  BY BecomesTyped
<1>2. ASSUME NEW d \in Clients, d # c PROVE Collected(d)' = Collected(d)
  BY <1>1, <1>2 DEF Collected
<1>3. Collected(c)' = Collected(c)
  BY <1>1 DEF Collected, View
<1>4. \A d \in Clients : Collected(d)' = Collected(d)
  BY <1>2, <1>3
<1>. QED  BY <1>4 DEF Views

(* The mapped table is a table of AtomicStore. *)
LEMMA TableTyped == TypeInv => Table \in Tables
BY BatchTyped, AfterAllTyped DEF TypeInv, Table

(* The empty batch of the abstract store.                                  *)
Gone == [bulk |-> FALSE, ops |-> <<>>]

(* Both stores apply operations alike.                                     *)
LEMMA SameAfterAll == \A table, ops : Promise!AfterAll(table, ops) = AfterAll(table, ops)
BY DEF Promise!AfterAll, AfterAll, Promise!Max, Max

(* An abstract batch with another field.                                   *)
Shown(u, o) == [bulk |-> u, ops |-> o]

WithShown(w, p) == [w EXCEPT !.ops = p]

(* Replacing the operations of a shown batch gives the shown batch of the
   new operations. *)
LEMMA ShownOps ==
    ASSUME NEW u \in BOOLEAN, NEW o \in Seq(OpSet), NEW p \in Seq(OpSet)
    PROVE  WithShown(Shown(u, o), p) = Shown(u, p)
<1> DEFINE R == [bulk : BOOLEAN, ops : Seq(OpSet)]
           w == Shown(u, o)
           x == WithShown(w, p)
           y == Shown(u, p)
<1>1. w \in R /\ y \in R /\ w.bulk = u /\ y.bulk = u /\ y.ops = p
  BY DEF Shown
<1> HIDE DEF w
<1>2. x \in R /\ x.bulk = u /\ x.ops = p
  BY <1>1 DEF WithShown
<1> HIDE DEF x, y
<1>3. x = y
  BY <1>1, <1>2
<1>. QED  BY <1>3 DEF x, y, w

(* Likewise for the flag that tells a bulk write. *)
LEMMA ShownBulk ==
    ASSUME NEW u \in BOOLEAN, NEW v \in BOOLEAN, NEW o \in Seq(OpSet)
    PROVE  [Shown(v, o) EXCEPT !.bulk = u] = Shown(u, o)
<1> DEFINE R == [bulk : BOOLEAN, ops : Seq(OpSet)]
           w == Shown(v, o)
           x == [w EXCEPT !.bulk = u]
           y == Shown(u, o)
<1>1. w \in R /\ y \in R /\ w.ops = o /\ y.bulk = u /\ y.ops = o
  BY DEF Shown
<1> HIDE DEF w
<1>2. x \in R /\ x.bulk = u /\ x.ops = o
  BY <1>1
<1> HIDE DEF x, y
<1>3. x = y
  BY <1>1, <1>2
<1>. QED  BY <1>3 DEF x, y, w

(* What is shown of a batch that is open.                                  *)
LEMMA ViewOpen ==
    ASSUME NEW b, b.kind # "none", ~Over(b), NEW h \in BOOLEAN, ~h
    PROVE  View(b, h) = Shown(b.kind = "bulk", b.ops)
BY DEF View, Shown

(* The actions of the abstract store, on the mapped variables.             *)
LEMMA AbstractWrite ==
    ASSUME NEW op \in OpSet, Table' = After(Table, op), Views' = Views, seen' = seen
    PROVE  Promise!Next
<1>1. Promise!Write(op)
  BY DEF Promise!Write, Promise!After, After, Views
<1>2. op \in Promise!Ops
  BY DEF OpSet, Promise!Ops
<1>. QED  BY <1>1, <1>2 DEF Promise!Next

(* A step that shows as a read of one key is a step of the promise. *)
LEMMA AbstractRead ==
    ASSUME NEW c \in Clients, NEW k \in Keys, seen' = [seen EXCEPT ![c] = Table[k]],
           Views' = Views, Table' = Table
    PROVE  Promise!Next
<1>1. Promise!Read(c, k)
  BY DEF Promise!Read, Views
<1>. QED  BY <1>1 DEF Promise!Next

(* So is one that shows as the opening of a batch, *)
LEMMA AbstractBegin ==
    ASSUME NEW c \in Clients, NEW u \in BOOLEAN, Views[c] = Gone,
           Views' = [Views EXCEPT ![c] = Shown(u, <<>>)], Table' = Table, seen' = seen
    PROVE  Promise!Next
<1>1. [Views[c] EXCEPT !.bulk = u] = Shown(u, <<>>)
  BY ShownBulk DEF Gone, Shown
<1>2. Views' = [Views EXCEPT ![c] = [Views[c] EXCEPT !.bulk = u]]
  BY <1>1
<1>3. Promise!Begin(c, u)
  BY <1>2 DEF Promise!Begin, Promise!Empty, Views, Gone
<1>. QED  BY <1>3 DEF Promise!Next

(* as the collecting of one more operation, *)
LEMMA AbstractCollect ==
    ASSUME NEW c \in Clients, NEW op \in OpSet, NEW u \in BOOLEAN, NEW o \in Seq(OpSet),
           Views[c] = Shown(u, o), Views' = [Views EXCEPT ![c] = Shown(u, Append(o, op))],
           Table' = Table, seen' = seen
    PROVE  Promise!Next
<1>1. Append(o, op) \in Seq(OpSet) /\ Views[c].ops = o
  BY DEF Shown
<1>2. WithShown(Views[c], Append(o, op)) = Shown(u, Append(o, op))
  BY <1>1, ShownOps, ZenonT(40)
<1>3. Views' = [Views EXCEPT ![c] = WithShown(Views[c], Append(Views[c].ops, op))]
  BY <1>1, <1>2
<1>4. Promise!Collect(c, op)
  BY <1>3 DEF Promise!Collect, Views, WithShown
<1>5. op \in Promise!Ops
  BY DEF OpSet, Promise!Ops
<1>. QED  BY <1>4, <1>5 DEF Promise!Next

(* as the writing of all that a batch collected, at once, *)
LEMMA AbstractCommit ==
    ASSUME NEW c \in Clients, Table' = AfterAll(Table, Views[c].ops),
           Views' = [Views EXCEPT ![c] = Gone], seen' = seen
    PROVE  Promise!Next
<1>1. Promise!Commit(c)
  BY SameAfterAll DEF Promise!Commit, Promise!Empty, Gone, Views
<1>. QED  BY <1>1 DEF Promise!Next

(* as the writing of what a bulk write collected so far, *)
LEMMA AbstractCommitPart ==
    ASSUME NEW c \in Clients, NEW o \in Seq(OpSet), Views[c] = Shown(TRUE, o),
           Table' = AfterAll(Table, o), Views' = [Views EXCEPT ![c] = Shown(TRUE, <<>>)], seen' = seen
    PROVE  Promise!Next
<1>1. <<>> \in Seq(OpSet) /\ Views[c].ops = o /\ Views[c].bulk
  BY DEF Shown
<1>2. WithShown(Views[c], <<>>) = Shown(TRUE, <<>>)
  BY <1>1, ShownOps, ZenonT(40)
<1>3. Views' = [Views EXCEPT ![c] = WithShown(Views[c], <<>>)]
  BY <1>2
<1>4. Promise!CommitPart(c)
  BY <1>1, <1>3, SameAfterAll DEF Promise!CommitPart, Views, WithShown
<1>. QED  BY <1>4 DEF Promise!Next

(* as the dropping of a batch, *)
LEMMA AbstractAbandon ==
    ASSUME NEW c \in Clients, Views' = [Views EXCEPT ![c] = Gone], Table' = Table, seen' = seen
    PROVE  Promise!Next
<1>1. Promise!Abandon(c)
  BY DEF Promise!Abandon, Promise!Empty, Gone, Views
<1>. QED  BY <1>1 DEF Promise!Next

(* or as a restart, after which no batch is left. *)
LEMMA AbstractCrash ==
    ASSUME Views' = [c \in Clients |-> Gone], seen' = [c \in Clients |-> NoValue], Table' = Table
    PROVE  Promise!Next
<1>1. Promise!Crash
  BY DEF Promise!Crash, Promise!Empty, Gone, Views
<1>. QED  BY <1>1 DEF Promise!Next

(* A step the promise does not see leaves its variables alone. *)
LEMMA AbstractStutter ==
    ASSUME Views' = Views, Table' = Table, seen' = seen
    PROVE  UNCHANGED Promise!vars
BY DEF Promise!vars, Views

(* The initial states of the code are initial states of the promise. *)
LEMMA InitImplements == Init => Promise!Init
<1> SUFFICES ASSUME Init PROVE Promise!Init
  OBVIOUS
<1>1. Table = [k \in Keys |-> NoValue]
  BY DEF Init, Table
<1>2. \A c \in Clients : batch[c].kind = "none"
  BY DEF Init, NoBatch
<1>3. \A c \in Clients : Collected(c) = Gone
  BY <1>2 DEF Collected, Gone
<1>4. Views = [c \in Clients |-> Gone]
  BY <1>3 DEF Views
<1>. QED  BY <1>1, <1>4 DEF Promise!Init, Promise!Empty, Gone, Views, Init

(* An operation more in a batch that is open is one more in the abstract    *)
(* batch; in one that is over or being applied it shows nothing.           *)
LEMMA CollectImplements ==
    ASSUME TypeInv, NEW c \in Clients, NEW op \in OpSet,
           Becomes(c, WithOps(batch[c], Append(batch[c].ops, op))),
           lock' = lock, seen' = seen, db' = db
    PROVE  Promise!Next \/ UNCHANGED Promise!vars
<1> DEFINE o == Append(batch[c].ops, op)
           b == WithOps(batch[c], o)
<1>1. o \in Seq(OpSet) /\ batch[c].ops \in Seq(OpSet)
  BY BatchTyped
<1> HIDE DEF o
<1>2. /\ b \in Batches /\ b.kind = batch[c].kind /\ b.ops = o /\ b.left = batch[c].left
      /\ Over(b) <=> Over(batch[c])
  BY <1>1, OpsReplaced, BatchTyped
<1>3. Becomes(c, b)
  BY DEF o
<1> HIDE DEF b
<1>4. batch'[c] = b /\ \A d \in Clients : d # c => batch'[d] = batch[d]
  BY <1>2, <1>3, BecomesTyped
<1>5. Table' = Table
  BY <1>2, <1>4 DEF Table, TypeInv
<1>6. CASE batch[c].kind = "none" \/ Over(batch[c]) \/ lock = c
  <2>1. View(b, lock' = c) = View(batch[c], lock = c)
    BY <1>2, <1>6 DEF View
  <2>2. Views' = Views
    BY <1>2, <1>3, <2>1, ViewStays
  <2>. QED  BY <1>5, <2>2, AbstractStutter
<1>7. CASE ~(batch[c].kind = "none" \/ Over(batch[c]) \/ lock = c)
  <2> DEFINE u == batch[c].kind = "bulk"
  <2>1. View(b, lock' = c) = Shown(b.kind = "bulk", b.ops)
    BY <1>2, <1>7, ViewOpen
  <2>2. View(batch[c], lock = c) = Shown(batch[c].kind = "bulk", batch[c].ops)
    BY <1>7, ViewOpen
  <2>3. Views' = [Views EXCEPT ![c] = View(b, lock' = c)]
    BY <1>2, <1>3, ViewBecomes
  <2>4. u \in BOOLEAN
    OBVIOUS
  <2>5. Views' = [Views EXCEPT ![c] = Shown(u, Append(batch[c].ops, op))]
    BY <1>2, <2>1, <2>3 DEF o
  <2>6. Views[c] = Shown(u, batch[c].ops)
    BY <2>2, ViewOf
  <2> HIDE DEF u
  <2>. QED  BY <1>1, <1>5, <2>4, <2>5, <2>6, AbstractCollect
<1>. QED  BY <1>6, <1>7

(* Each action does what an action of the abstract store does, or nothing  *)
(* that it shows.                                                          *)
LEMMA StepImplements ==
    ASSUME TypeInv, [Next]_vars
    PROVE  Promise!Next \/ UNCHANGED Promise!vars
<1>0. Opener \in Clients /\ NoOne \notin Clients /\ <<>> \in Seq(OpSet)
  BY StoreAssumption
<1>00. NoBatch \in Batches /\ NoBatch.kind = "none"
  BY NoBatchTyped
<1>1. CASE UNCHANGED vars
  <2>1. Views' = Views /\ Table' = Table /\ seen' = seen
    BY <1>1 DEF vars, Views, Table, Collected
  <2>. QED  BY <2>1, AbstractStutter
<1>2. ASSUME NEW c \in Clients, NEW k \in OtherKeys, NEW v \in Values \cup {NoValue}, Set(c, k, v)
      PROVE Promise!Next
  <2>1. Op(k, v) \in OpSet
    BY DEF Op, OpSet, OtherKeys
  <2>2. Table' = After(Table, Op(k, v)) /\ Views' = Views /\ seen' = seen
    BY <1>2 DEF Set, Unlocked, Table, Views, Collected
  <2>. QED  BY <2>1, <2>2, AbstractWrite
<1>3. ASSUME NEW c \in Clients, NEW k \in Keys, Get(c, k) PROVE Promise!Next
  <2>1. seen' = [seen EXCEPT ![c] = Table[k]] /\ Views' = Views /\ Table' = Table
    BY <1>3 DEF Get, Unlocked, Table, Views, Collected
  <2>. QED  BY <2>1, AbstractRead
<1>4. ASSUME NEW c \in Clients, CommitFull(c) PROVE Promise!Next
  <2>1. /\ lock = NoOne /\ lock' = NoOne /\ batch[c].kind = "bulk" /\ ~Over(batch[c])
        /\ db' = AfterAll(db, batch[c].ops) /\ seen' = seen
    BY <1>4 DEF CommitFull, TypeInv, Full
  <2> DEFINE b == WithOps(batch[c], <<>>)
  <2>2. Becomes(c, b) /\ b \in Batches /\ b.kind = "bulk" /\ b.ops = <<>> /\ ~Over(b)
    BY <1>4, <2>1, CommitFullBatch, OpsReplaced, BatchTyped, ZenonT(40)
  <2> HIDE DEF b
  <2>3. Views' = [Views EXCEPT ![c] = View(b, lock' = c)]
    BY <2>1, <2>2, ViewBecomes
  <2>4. View(b, lock' = c) = Shown(TRUE, <<>>)
    BY <1>0, <2>1, <2>2 DEF View, Shown
  <2>5. Views[c] = Shown(TRUE, batch[c].ops)
    BY <1>0, <2>1, ViewOf DEF View, Shown
  <2>6. Table' = AfterAll(Table, batch[c].ops)
    BY <2>1 DEF Table
  <2>. QED  BY <2>1, <2>3, <2>4, <2>5, <2>6, BatchTyped, AbstractCommitPart
<1>5. ASSUME NEW c \in Clients, CommitBadger(c) PROVE Promise!Next
  <2>1. /\ lock = NoOne /\ lock' = NoOne /\ batch[c].kind # "none" /\ ~Over(batch[c])
        /\ db' = AfterAll(db, batch[c].ops) /\ seen' = seen
    BY <1>5 DEF CommitBadger, TypeInv, MayCommit, Call
  <2> DEFINE b == WithOps(Done(batch[c]), <<>>)
  <2>2. Becomes(c, b) /\ b \in Batches /\ Over(b)
    BY <1>5, CommitBadgerBatch, BatchDone, OpsReplaced, BatchTyped
  <2> HIDE DEF b
  <2>3. Views' = [Views EXCEPT ![c] = View(b, lock' = c)] /\ View(b, lock' = c) = Gone
    BY <2>1, <2>2, ViewBecomes DEF View, Gone
  <2>4. Views[c].ops = batch[c].ops
    <3>1. Views[c] = View(batch[c], lock = c) /\ lock # c
      BY <1>0, <2>1, ViewOf
    <3>2. View(batch[c], lock = c) = Shown(batch[c].kind = "bulk", batch[c].ops)
      BY <2>1, <3>1, ViewOpen
    <3>. QED  BY <3>1, <3>2 DEF Shown
  <2>5. Table' = AfterAll(Table, Views[c].ops)
    BY <2>1, <2>4 DEF Table
  <2>. QED  BY <2>1, <2>3, <2>5, AbstractCommit
<1>6. ASSUME NEW c \in Clients, CommitFails(c) PROVE Promise!Next
  <2>1. lock = NoOne /\ lock' = NoOne /\ seen' = seen /\ db' = db /\ Becomes(c, NoBatch)
    BY <1>6 DEF CommitFails, TypeInv, Becomes
  <2>2. Views' = [Views EXCEPT ![c] = View(NoBatch, lock' = c)] /\ View(NoBatch, lock' = c) = Gone
    BY <1>00, <2>1, ViewBecomes DEF View, Gone
  <2>3. Table' = Table
    BY <2>1 DEF Table
  <2>. QED  BY <2>1, <2>2, <2>3, AbstractAbandon
<1>7. ASSUME NEW c \in Clients, Commit(c) PROVE Promise!Next
  <2>1. /\ lock = NoOne /\ lock' = c /\ batch[c].kind # "none" /\ ~Over(batch[c])
        /\ db' = db /\ seen' = seen
    BY <1>7 DEF Commit, Unlocked, MayCommit, Call
  <2> DEFINE b == WithLeft(batch[c], batch[c].ops)
  <2>2. Becomes(c, b) /\ b \in Batches /\ b.left = batch[c].ops
    BY <1>7, CommitBatch, LeftReplaced, BatchTyped
  <2> HIDE DEF b
  <2>3. Views' = [Views EXCEPT ![c] = View(b, lock' = c)] /\ View(b, lock' = c) = Gone
    BY <1>0, <2>1, <2>2, ViewBecomes DEF View, Gone
  <2>4. Views[c].ops = batch[c].ops
    <3>1. Views[c] = View(batch[c], lock = c) /\ lock # c
      BY <1>0, <2>1, ViewOf
    <3>2. View(batch[c], lock = c) = Shown(batch[c].kind = "bulk", batch[c].ops)
      BY <2>1, <3>1, ViewOpen
    <3>. QED  BY <3>1, <3>2 DEF Shown
  <2>5. batch'[c].left = batch[c].ops
    BY <2>2, BecomesTyped
  <2>6. Table' = AfterAll(Table, Views[c].ops)
    BY <1>0, <2>1, <2>4, <2>5 DEF Table
  <2>. QED  BY <2>1, <2>3, <2>6, AbstractCommit
<1>8. ASSUME NEW c \in Clients, ApplyOp(c) PROVE UNCHANGED Promise!vars
  <2>1. /\ lock = c /\ lock' = c /\ db' = After(db, Head(batch[c].left)) /\ seen' = seen
        /\ batch[c].left # <<>> /\ db \in Tables
    BY <1>8 DEF ApplyOp, TypeInv
  <2> DEFINE b == WithLeft(batch[c], Tail(batch[c].left))
  <2>2. Becomes(c, b) /\ b \in Batches /\ b.left = Tail(batch[c].left)
    BY <1>8, ApplyOpBatch, LeftReplaced, BatchTyped
  <2> HIDE DEF b
  <2>3. Views' = Views
    <3>1. View(b, lock' = c) = View(batch[c], lock = c)
      BY <2>1 DEF View
    <3>. QED  BY <2>1, <2>2, <3>1, ViewStays
  <2>4. batch'[c].left = Tail(batch[c].left)
    BY <2>2, BecomesTyped
  <2>5. Table' = Table
    BY <1>0, <2>1, <2>4, AfterFirst, BatchTyped DEF Table
  <2>. QED  BY <2>1, <2>3, <2>5, AbstractStutter
<1>9. ASSUME NEW c \in Clients, Committed(c) PROVE UNCHANGED Promise!vars
  <2>1. /\ lock = c /\ lock' = NoOne /\ db' = db /\ seen' = seen
        /\ batch[c].left = <<>> /\ db \in Tables
    BY <1>9 DEF Committed, TypeInv
  <2> DEFINE b == Done(batch[c])
  <2>2. Becomes(c, b) /\ b \in Batches /\ Over(b)
    BY <1>9, CommittedBatch, BatchDone, BatchTyped
  <2> HIDE DEF b
  <2>3. Views' = Views
    <3>1. View(b, lock' = c) = View(batch[c], lock = c)
      BY <2>1, <2>2 DEF View
    <3>2. \A d \in Clients : d # c => ((lock' = d) <=> (lock = d))
      BY <1>0, <2>1
    <3>. QED  BY <2>2, <3>1, <3>2, ViewStays
  <2>4. Table' = Table
    BY <1>0, <2>1, AfterNone DEF Table
  <2>. QED  BY <2>1, <2>3, <2>4, AbstractStutter
<1>10. ASSUME NEW c \in Clients, Forget(c) PROVE Promise!Next
  <2>1. lock # c /\ lock' = lock /\ seen' = seen /\ db' = db /\ Becomes(c, NoBatch)
    BY <1>10 DEF Forget, Becomes
  <2>2. Views' = [Views EXCEPT ![c] = View(NoBatch, lock' = c)] /\ View(NoBatch, lock' = c) = Gone
    BY <1>00, <2>1, ViewBecomes DEF View, Gone
  <2>3. Table' = Table
    BY <1>00, <2>1, BecomesTyped DEF Table, TypeInv
  <2>. QED  BY <2>1, <2>2, <2>3, AbstractAbandon
<1>11. ASSUME NEW c \in Clients, NEW kind \in {"tx", "bulk"}, NewBatch(c, kind) PROVE Promise!Next
  <2>1. lock # c /\ lock' = lock /\ seen' = seen /\ db' = db /\ batch[c].kind = "none"
        /\ Becomes(c, Begun(kind))
    BY <1>11 DEF NewBatch, Call, Becomes, Begun
  <2> DEFINE b == Begun(kind)
  <2>2. b \in Batches /\ b.kind = kind /\ b.ops = <<>> /\ ~Over(b)
    BY BatchBegun
  <2>3. Becomes(c, b)
    BY <2>1
  <2> HIDE DEF b
  <2>4. Views' = [Views EXCEPT ![c] = View(b, lock' = c)]
    BY <2>1, <2>2, <2>3, ViewBecomes
  <2>5. View(b, lock' = c) = Shown(b.kind = "bulk", b.ops)
    BY <2>1, <2>2, ViewOpen
  <2> DEFINE u == b.kind = "bulk"
  <2>6. u \in BOOLEAN
    OBVIOUS
  <2>7. Views' = [Views EXCEPT ![c] = Shown(u, <<>>)]
    BY <2>2, <2>4, <2>5
  <2> HIDE DEF u
  <2>8. Views[c] = Gone
    BY <2>1, ViewOf DEF View, Gone
  <2>9. Table' = Table
    BY <2>1, <2>2, <2>3, BecomesTyped DEF Table, TypeInv
  <2>. QED  BY <2>1, <2>6, <2>7, <2>8, <2>9, AbstractBegin
<1>12. ASSUME NEW c \in Clients, NEW k \in OtherKeys, NEW v \in Values \cup {NoValue}, Collect(c, Op(k, v))
       PROVE Promise!Next \/ UNCHANGED Promise!vars
  <2>1. lock # c /\ lock' = lock /\ seen' = seen /\ db' = db
    BY <1>12 DEF Collect, Call
  <2>2. Op(k, v) \in OpSet /\ Becomes(c, WithOps(batch[c], Append(batch[c].ops, Op(k, v))))
    BY <1>12, CollectBatch
  <2>. QED  BY <2>1, <2>2, CollectImplements
<1>13. ASSUME NEW c \in Clients, Discard(c) PROVE Promise!Next
  <2>1. lock # c /\ lock' = lock /\ seen' = seen /\ db' = db
    BY <1>13 DEF Discard, Call
  <2> DEFINE b == Dropped(batch[c])
  <2>2. Becomes(c, b) /\ b \in Batches /\ Over(b)
    BY <1>13, DiscardBatch, BatchDropped, BatchTyped
  <2> HIDE DEF b
  <2>3. Views' = [Views EXCEPT ![c] = View(b, lock' = c)] /\ View(b, lock' = c) = Gone
    BY <2>1, <2>2, ViewBecomes DEF View, Gone
  <2>4. Table' = Table
    BY <2>1, <2>2, BecomesTyped DEF Table, TypeInv
  <2>. QED  BY <2>1, <2>3, <2>4, AbstractAbandon
<1>14. ASSUME OpenTree PROVE Promise!Next
  <2>1. lock = NoOne /\ lock' = NoOne /\ seen' = seen /\ db' = db /\ batch[Opener].kind = "none"
        /\ Becomes(Opener, Begun("bulk"))
    BY <1>14 DEF OpenTree, Call, Unlocked, Becomes, Begun
  <2> DEFINE b == Begun("bulk")
  <2>2. b \in Batches /\ b.kind = "bulk" /\ b.ops = <<>> /\ ~Over(b)
    BY BatchBegun
  <2>3. Becomes(Opener, b)
    BY <2>1
  <2> HIDE DEF b
  <2>4. Views' = [Views EXCEPT ![Opener] = View(b, lock' = Opener)]
    BY <1>0, <2>1, <2>2, <2>3, ViewBecomes
  <2>5. View(b, lock' = Opener) = Shown(TRUE, <<>>)
    BY <1>0, <2>1, <2>2 DEF View, Shown
  <2>6. Views[Opener] = Gone
    BY <1>0, <2>1, ViewOf DEF View, Gone
  <2>7. Table' = Table
    BY <2>1 DEF Table
  <2>. QED  BY <1>0, <2>1, <2>4, <2>5, <2>6, <2>7, AbstractBegin
<1>15. ASSUME PutNext PROVE Promise!Next \/ UNCHANGED Promise!vars
  <2>1. lock' = lock /\ seen' = seen /\ db' = db
    BY <1>15 DEF PutNext
  <2>2. /\ Head(opening) \in OpSet
        /\ Becomes(Opener, WithOps(batch[Opener], Append(batch[Opener].ops, Head(opening))))
    BY <1>15, PutNextBatch
  <2>. QED  BY <1>0, <2>1, <2>2, CollectImplements
<1>16. ASSUME PutFails PROVE Promise!Next \/ UNCHANGED Promise!vars
  <2>1. lock = NoOne /\ lock' = NoOne /\ seen' = seen /\ db' = db
    BY <1>16 DEF PutFails, TypeInv
  <2>2. Table' = Table
    BY <2>1 DEF Table
  <2>3. CASE UNCHANGED batch
    <3>1. Views' = Views
      BY <2>1, <2>3 DEF Views, Collected
    <3>. QED  BY <2>1, <2>2, <3>1, AbstractStutter
  <2>4. CASE Becomes(Opener, NoBatch)
    <3>1. Views' = [Views EXCEPT ![Opener] = View(NoBatch, lock' = Opener)]
      BY <1>0, <1>00, <2>1, <2>4, ViewBecomes
    <3>2. View(NoBatch, lock' = Opener) = Gone
      BY <1>00 DEF View, Gone
    <3>. QED  BY <1>0, <2>1, <2>2, <3>1, <3>2, AbstractAbandon
  <2>. QED  BY <1>16, <2>3, <2>4 DEF PutFails, Becomes
<1>17. ASSUME Crash PROVE Promise!Next
  <2>1. /\ lock = NoOne /\ lock' = NoOne /\ seen' = [c \in Clients |-> NoValue] /\ db' = db
        /\ batch' = [c \in Clients |-> NoBatch]
    BY <1>17 DEF Crash, TypeInv
  <2>2. Table' = Table
    BY <2>1 DEF Table
  <2>3. \A c \in Clients : Collected(c)' = Gone
    BY <1>00, <2>1 DEF Collected, Gone
  <2>4. Views' = [c \in Clients |-> Gone]
    BY <2>3 DEF Views
  <2>. QED  BY <2>1, <2>2, <2>4, AbstractCrash
<1>. QED  BY <1>1, <1>2, <1>3, <1>4, <1>5, <1>6, <1>7, <1>8, <1>9, <1>10, <1>11, <1>12, <1>13, <1>14,
             <1>15, <1>16, <1>17 DEF Next

(* The invariant of types holds.                                           *)
THEOREM Typed == Spec => []TypeInv
<1>1. Init => TypeInv
  BY InitTyped
<1>2. TypeInv /\ [Next]_vars => TypeInv'
  BY StepTyped
<1>. QED  BY <1>1, <1>2, PTL DEF Spec

(* Both engines keep the promise of db.DB, whatever the clients do and     *)
(* wherever a crash or a failed write falls: memorydb, which applies the   *)
(* operations of a Commit one by one under its mutex, and badgerdb, whose  *)
(* WriteBatch commits a Bulk in parts.                                     *)
THEOREM KeepsItsPromise == Spec => KeepsPromise
<1>1. Init => Promise!Init
  BY InitImplements
<1>2. TypeInv /\ [Next]_vars => [Promise!Next]_(Promise!vars)
  BY StepImplements DEF Promise!vars
<1>. QED  BY <1>1, <1>2, Typed, PTL DEF Spec, KeepsPromise, Promise!Spec

-----------------------------------------------------------------------------
(* The marker *)

TreeKeys == Range(Defaults) \cup {Marker}

(* The keys of a tree are keys, the marker is no node, and nobody else     *)
(* uses them.                                                              *)
LEMMA TreeKeysApart ==
    /\ TreeKeys \subseteq Keys /\ Range(Defaults) \subseteq Keys /\ Marker \in Keys
    /\ Marker \notin Range(Defaults) /\ TreeKeys \cap OtherKeys = {}
BY StoreAssumption DEF TreeKeys, Range, OtherKeys

Puts(list) == \A i \in DOMAIN list : list[i].value # NoValue
Elsewhere(list) == \A i \in DOMAIN list : list[i].key \in OtherKeys

(* Where list has the marker, each default node is in the table, in what   *)
(* comes before list, or before the marker.                                *)
Ready(table, before, list) ==
    \A p \in DOMAIN list : list[p].key = Marker =>
        \A d \in Range(Defaults) :
            \/ table[d] # NoValue
            \/ \E j \in DOMAIN before : before[j].key = d
            \/ \E j \in DOMAIN list : j < p /\ list[j].key = d

Anchored(table) == table[Marker] # NoValue => \A d \in Range(Defaults) : table[d] # NoValue

(* A table that has the nodes another has.                                 *)
Grows(t, u) == \A d \in Range(Defaults) : t[d] # NoValue => u[d] # NoValue

MarkerInv ==
    /\ \A c \in Clients \ {Opener} : Elsewhere(batch[c].ops) /\ Elsewhere(batch[c].left)
    /\ Puts(batch[Opener].ops) /\ Puts(batch[Opener].left) /\ Puts(opening)
    /\ Ready(db, <<>>, batch[Opener].ops) /\ Ready(db, <<>>, batch[Opener].left)
    /\ Ready(db, batch[Opener].ops, opening)
    /\ opening # <<>> => lock # Opener /\ ~Over(batch[Opener])
    /\ Anchored(db)

(* Writes that are no deletions add their keys and take none away.         *)
LEMMA PutsAdd ==
    ASSUME NEW t \in Tables, NEW ops \in Seq(OpSet), Puts(ops), NEW k \in Keys
    PROVE  AfterAll(t, ops)[k] # NoValue <=> (t[k] # NoValue \/ \E i \in DOMAIN ops : ops[i].key = k)
<1>1. CASE OnKey(ops, k) = {}
  <2>1. AfterAll(t, ops)[k] = t[k]
    BY <1>1, AfterAllAt
  <2>2. ~ \E i \in DOMAIN ops : ops[i].key = k
    BY <1>1 DEF OnKey
  <2>. QED  BY <2>1, <2>2
<1>2. CASE OnKey(ops, k) # {}
  <2>1. PICK m \in OnKey(ops, k) : AfterAll(t, ops)[k] = ops[m].value
    BY <1>2, AfterAllAt
  <2>2. m \in DOMAIN ops /\ ops[m].key = k
    BY DEF OnKey
  <2>. QED  BY <2>1, <2>2 DEF Puts
<1>. QED  BY <1>1, <1>2

(* Operations on other keys leave the tree's alone.                        *)
LEMMA ElsewhereLeaves ==
    ASSUME NEW t \in Tables, NEW ops \in Seq(OpSet), Elsewhere(ops), NEW k \in TreeKeys
    PROVE  AfterAll(t, ops)[k] = t[k]
<1>1. OnKey(ops, k) = {}
  BY TreeKeysApart DEF OnKey, Elsewhere
<1>. QED  BY <1>1, AfterAllAt, TreeKeysApart

(* More nodes in the table do no harm.                                     *)
LEMMA ReadyGrows ==
    ASSUME NEW t, NEW u, NEW before, NEW list, Grows(t, u), Ready(t, before, list)
    PROVE  Ready(u, before, list)
BY DEF Grows, Ready

(* Nothing is always ready.                                                *)
LEMMA ReadyEmpty == \A t, before : Ready(t, before, <<>>)
BY DEF Ready

(* Applying a list that is ready, as a whole                               *)
LEMMA ReadyAll ==
    ASSUME NEW t \in Tables, NEW ops \in Seq(OpSet), Puts(ops), Ready(t, <<>>, ops), Anchored(t)
    PROVE  Anchored(AfterAll(t, ops)) /\ Grows(t, AfterAll(t, ops))
<1>1. Grows(t, AfterAll(t, ops))
  BY PutsAdd, TreeKeysApart DEF Grows
<1>2. ASSUME AfterAll(t, ops)[Marker] # NoValue, NEW d \in Range(Defaults)
      PROVE  AfterAll(t, ops)[d] # NoValue
  <2>1. d \in Keys /\ Marker \in Keys
    BY TreeKeysApart
  <2>2. CASE t[Marker] # NoValue
    BY <2>1, <2>2, PutsAdd DEF Anchored
  <2>3. CASE \E i \in DOMAIN ops : ops[i].key = Marker
    <3>1. PICK i \in DOMAIN ops : ops[i].key = Marker
      BY <2>3
    <3>2. t[d] # NoValue \/ \E j \in DOMAIN ops : ops[j].key = d
      BY <3>1 DEF Ready
    <3>. QED  BY <2>1, <3>2, PutsAdd
  <2>. QED  BY <1>2, <2>1, <2>2, <2>3, PutsAdd
<1>. QED  BY <1>1, <1>2 DEF Anchored

(* or its first.                                                           *)
LEMMA ReadyFirst ==
    ASSUME NEW t \in Tables, NEW ops \in Seq(OpSet), ops # <<>>, Puts(ops), Ready(t, <<>>, ops), Anchored(t)
    PROVE  /\ Anchored(After(t, Head(ops))) /\ Grows(t, After(t, Head(ops)))
           /\ Ready(After(t, Head(ops)), <<>>, Tail(ops)) /\ Puts(Tail(ops))
<1> DEFINE op == Head(ops)
           rest == Tail(ops)
           u == After(t, op)
<1>1. /\ op \in OpSet /\ rest \in Seq(OpSet) /\ op = ops[1] /\ 1 \in DOMAIN ops
      /\ Len(ops) \in Nat
      /\ \A i \in DOMAIN rest : i \in Nat /\ i + 1 \in DOMAIN ops /\ rest[i] = ops[i + 1]
      /\ \A i \in DOMAIN ops : i = 1 \/ (i - 1 \in DOMAIN rest /\ rest[i - 1] = ops[i] /\ i \in Nat)
  OBVIOUS
<1> HIDE DEF op, rest
<1>2. \A k \in Keys : u[k] = IF k = op.key THEN op.value ELSE t[k]
  BY <1>1 DEF After, Tables, OpSet
<1> HIDE DEF u
<1>3. op.value # NoValue
  BY <1>1 DEF Puts
<1>4. Grows(t, u)
  BY <1>2, <1>3, TreeKeysApart DEF Grows
<1>5. Anchored(u)
  <2>1. ASSUME u[Marker] # NoValue, NEW d \in Range(Defaults) PROVE u[d] # NoValue
    <3>1. CASE op.key = Marker
      <4>1. t[d] # NoValue
        BY <1>1, <3>1 DEF Ready
      <4>. QED  BY <1>4, <4>1 DEF Grows
    <3>2. CASE op.key # Marker
      <4>1. t[d] # NoValue
        BY <1>2, <2>1, <3>2, TreeKeysApart DEF Anchored
      <4>. QED  BY <1>4, <4>1 DEF Grows
    <3>. QED  BY <3>1, <3>2
  <2>. QED  BY <2>1 DEF Anchored
<1>6. Ready(u, <<>>, rest)
  <2> SUFFICES ASSUME NEW p \in DOMAIN rest, rest[p].key = Marker, NEW d \in Range(Defaults), u[d] = NoValue
               PROVE  \E j \in DOMAIN rest : j < p /\ rest[j].key = d
    BY DEF Ready
  <2>1. p \in Nat /\ p + 1 \in DOMAIN ops /\ ops[p + 1].key = Marker
    BY <1>1
  <2>2. t[d] = NoValue /\ op.key # d
    BY <1>2, <1>3, <1>4, TreeKeysApart DEF Grows
  <2>3. PICK j \in DOMAIN ops : j < p + 1 /\ ops[j].key = d
    BY <2>1, <2>2 DEF Ready
  <2>4. j # 1
    BY <1>1, <2>2, <2>3
  <2>5. j - 1 \in DOMAIN rest /\ rest[j - 1] = ops[j] /\ j \in Nat
    BY <1>1, <2>4
  <2>. QED  BY <2>1, <2>3, <2>5
<1>7. Puts(rest)
  BY <1>1 DEF Puts
<1>. QED  BY <1>4, <1>5, <1>6, <1>7 DEF op, rest, u

(* The next of a list goes to the end of the one before it.                *)
LEMMA ReadyMoves ==
    ASSUME NEW t \in Tables, NEW before \in Seq(OpSet), NEW list \in Seq(OpSet), list # <<>>,
           Puts(before), Puts(list), Ready(t, <<>>, before), Ready(t, before, list)
    PROVE  /\ Ready(t, <<>>, Append(before, Head(list))) /\ Ready(t, Append(before, Head(list)), Tail(list))
           /\ Puts(Append(before, Head(list))) /\ Puts(Tail(list))
<1> DEFINE op == Head(list)
           rest == Tail(list)
           longer == Append(before, op)
<1>1. /\ op \in OpSet /\ rest \in Seq(OpSet) /\ op = list[1] /\ 1 \in DOMAIN list
      /\ \A i \in DOMAIN rest : i \in Nat /\ i + 1 \in DOMAIN list /\ rest[i] = list[i + 1]
      /\ \A i \in DOMAIN list : i = 1 \/ (i - 1 \in DOMAIN rest /\ rest[i - 1] = list[i] /\ i \in Nat)
  OBVIOUS
<1> HIDE DEF op, rest
<1> DEFINE n == Len(before)
<1>2. /\ n \in Nat /\ longer \in Seq(OpSet) /\ n + 1 \in DOMAIN longer /\ longer[n + 1] = op
      /\ \A i \in DOMAIN before : i \in 1..n /\ i \in DOMAIN longer /\ longer[i] = before[i]
      /\ \A i \in DOMAIN longer : i = n + 1 \/ (i \in DOMAIN before /\ longer[i] = before[i])
  BY <1>1
<1> HIDE DEF longer, n
<1>3. Ready(t, <<>>, longer)
  <2> SUFFICES ASSUME NEW p \in DOMAIN longer, longer[p].key = Marker, NEW d \in Range(Defaults), t[d] = NoValue
               PROVE  \E j \in DOMAIN longer : j < p /\ longer[j].key = d
    BY DEF Ready
  <2>1. CASE p = n + 1
    <3>1. op.key = Marker
      BY <1>2, <2>1
    <3>2. \A j \in DOMAIN list : ~(j < 1)
      BY <1>1
    <3>3. PICK j \in DOMAIN before : before[j].key = d
      BY <1>1, <3>1, <3>2 DEF Ready
    <3>. QED  BY <1>2, <2>1, <3>3
  <2>2. CASE p # n + 1
    <3>1. p \in DOMAIN before /\ before[p].key = Marker
      BY <1>2, <2>2
    <3>2. PICK j \in DOMAIN before : j < p /\ before[j].key = d
      BY <3>1 DEF Ready
    <3>. QED  BY <1>2, <3>2
  <2>. QED  BY <2>1, <2>2
<1>4. Ready(t, longer, rest)
  <2> SUFFICES ASSUME NEW p \in DOMAIN rest, rest[p].key = Marker, NEW d \in Range(Defaults), t[d] = NoValue
               PROVE  \/ \E j \in DOMAIN longer : longer[j].key = d
                      \/ \E j \in DOMAIN rest : j < p /\ rest[j].key = d
    BY DEF Ready
  <2>1. p \in Nat /\ p + 1 \in DOMAIN list /\ list[p + 1].key = Marker
    BY <1>1
  <2>2. \/ \E j \in DOMAIN before : before[j].key = d
        \/ \E j \in DOMAIN list : j < p + 1 /\ list[j].key = d
    BY <2>1 DEF Ready
  <2>3. CASE \E j \in DOMAIN before : before[j].key = d
    BY <1>2, <2>3
  <2>4. CASE \E j \in DOMAIN list : j < p + 1 /\ list[j].key = d
    <3>1. PICK j \in DOMAIN list : j < p + 1 /\ list[j].key = d
      BY <2>4
    <3>2. CASE j = 1
      BY <1>1, <1>2, <3>1, <3>2
    <3>3. CASE j # 1
      <4>1. j - 1 \in DOMAIN rest /\ rest[j - 1] = list[j] /\ j \in Nat
        BY <1>1, <3>3
      <4>. QED  BY <2>1, <3>1, <4>1
    <3>. QED  BY <3>2, <3>3
  <2>. QED  BY <2>2, <2>3, <2>4
<1>5. Puts(longer) /\ Puts(rest)
  BY <1>1, <1>2 DEF Puts
<1>. QED  BY <1>3, <1>4, <1>5 DEF op, rest, longer

(* What came before a list is in the table.                                *)
LEMMA ReadyCommitted ==
    ASSUME NEW t \in Tables, NEW before \in Seq(OpSet), NEW list, Puts(before), Ready(t, before, list)
    PROVE  Ready(AfterAll(t, before), <<>>, list)
<1> DEFINE u == AfterAll(t, before)
<1>1. \A d \in Range(Defaults) :
        u[d] # NoValue <=> (t[d] # NoValue \/ \E i \in DOMAIN before : before[i].key = d)
  BY PutsAdd, TreeKeysApart
<1> HIDE DEF u
<1>2. Ready(u, <<>>, list)
  BY <1>1 DEF Ready
<1>. QED  BY <1>2 DEF u

(* The marker is left out.                                                 *)
LEMMA ReadyWithout ==
    ASSUME NEW t, NEW before, NEW list \in Seq(OpSet), list # <<>>, Head(list).key = Marker,
           Puts(list), Ready(t, before, list)
    PROVE  Ready(t, before, Tail(list)) /\ Puts(Tail(list))
<1> DEFINE op == Head(list)
           rest == Tail(list)
<1>1. /\ op = list[1] /\ 1 \in DOMAIN list
      /\ \A i \in DOMAIN rest : i \in Nat /\ i + 1 \in DOMAIN list /\ rest[i] = list[i + 1]
      /\ \A i \in DOMAIN list : i = 1 \/ (i - 1 \in DOMAIN rest /\ rest[i - 1] = list[i] /\ i \in Nat)
  OBVIOUS
<1>2. op.key = Marker
  OBVIOUS
<1> HIDE DEF op, rest
<1>3. Ready(t, before, rest)
  <2> SUFFICES ASSUME NEW p \in DOMAIN rest, rest[p].key = Marker, NEW d \in Range(Defaults), t[d] = NoValue,
                      ~ \E j \in DOMAIN before : before[j].key = d
               PROVE  \E j \in DOMAIN rest : j < p /\ rest[j].key = d
    BY DEF Ready
  <2>1. p \in Nat /\ p + 1 \in DOMAIN list /\ list[p + 1].key = Marker
    BY <1>1
  <2>2. PICK j \in DOMAIN list : j < p + 1 /\ list[j].key = d
    BY <2>1 DEF Ready
  <2>3. j # 1
    BY <1>1, <1>2, <2>2, TreeKeysApart
  <2>4. j - 1 \in DOMAIN rest /\ rest[j - 1] = list[j] /\ j \in Nat
    BY <1>1, <2>3
  <2>. QED  BY <2>1, <2>2, <2>4
<1>4. Puts(rest)
  BY <1>1 DEF Puts
<1>. QED  BY <1>3, <1>4 DEF rest

(* The nodes, then the marker: the order in which they are put.            *)
LEMMA ReadyTree == \A t : Ready(t, <<>>, TreeOps) /\ Puts(TreeOps)
<1> DEFINE n == Len(Defaults)
<1>1. /\ n \in Nat /\ DOMAIN Defaults = 1..n /\ DOMAIN TreeOps = 1..(n + 1)
      /\ \A i \in 1..n : TreeOps[i] = Op(Defaults[i], TheValue)
      /\ TreeOps[n + 1] = Op(Marker, TheValue)
  BY TreeOpsTyped, StoreAssumption
<1>2. TheValue \in Values /\ TheValue # NoValue
  BY StoreAssumption DEF TheValue
<1> HIDE DEF n
<1>10. ASSUME NEW i \in 1..n PROVE TreeOps[i].key = Defaults[i] /\ i \in DOMAIN TreeOps /\ i < n + 1
  <2>1. TreeOps[i] = Op(Defaults[i], TheValue)
    BY <1>1
  <2>. QED  BY <1>1, <2>1 DEF Op
<1>3. Puts(TreeOps)
  <2>1. ASSUME NEW i \in 1..(n + 1) PROVE TreeOps[i].value = TheValue
    <3>1. \E k : TreeOps[i] = Op(k, TheValue)
      <4>1. CASE i = n + 1
        BY <1>1, <4>1
      <4>2. CASE i # n + 1
        <5>1. i \in 1..n
          BY <1>1, <4>2
        <5>. QED  BY <1>1, <5>1
      <4>. QED  BY <4>1, <4>2
    <3>. QED  BY <3>1 DEF Op
  <2>. QED  BY <1>1, <1>2, <2>1 DEF Puts
<1>4. ASSUME NEW p \in DOMAIN TreeOps, TreeOps[p].key = Marker, NEW d \in Range(Defaults)
      PROVE  \E j \in DOMAIN TreeOps : j < p /\ TreeOps[j].key = d
  <2>1. PICK i \in 1..n : Defaults[i] = d
    BY <1>1 DEF Range
  <2>2. p = n + 1
    <3>1. CASE p \in 1..n
      BY <1>1, <1>4, <1>10, <3>1, TreeKeysApart DEF Range
    <3>. QED  BY <1>1, <3>1
  <2>3. TreeOps[i].key = d /\ i < p /\ i \in DOMAIN TreeOps
    BY <1>10, <2>1, <2>2
  <2>. QED  BY <2>3
<1>5. ASSUME NEW t PROVE Ready(t, <<>>, TreeOps)
  BY <1>4 DEF Ready
<1>. QED  BY <1>3, <1>5

(* At the start there is neither node nor marker.                          *)
LEMMA MarkerInit == Init => MarkerInv
<1> SUFFICES ASSUME Init PROVE MarkerInv
  OBVIOUS
<1>1. \A c \in Clients : batch[c].ops = <<>> /\ batch[c].left = <<>>
  BY NoBatchTyped DEF Init
<1>2. opening = <<>> /\ Anchored(db)
  BY TreeKeysApart DEF Init, Anchored
<1>3. Opener \in Clients
  BY StoreAssumption
<1>4. \A list : list = <<>> => Puts(list) /\ Elsewhere(list)
  BY DEF Puts, Elsewhere
<1>. QED  BY <1>1, <1>2, <1>3, <1>4, ReadyEmpty DEF MarkerInv

(* What the other conjuncts say once the table has grown.                  *)
LEMMA MarkerGrows ==
    ASSUME MarkerInv, Grows(db, db'), Anchored(db'), UNCHANGED <<batch, opening, lock>>
    PROVE  MarkerInv'
BY ReadyGrows DEF MarkerInv

(* The table stays as it is, and another client's batch changes.           *)
LEMMA MarkerOther ==
    ASSUME TypeInv, MarkerInv, NEW c \in Clients \ {Opener}, NEW b \in Batches, Becomes(c, b),
           Elsewhere(b.ops), Elsewhere(b.left), Grows(db, db'), Anchored(db'),
           opening' = opening, (lock' = Opener) => (lock = Opener)
    PROVE  MarkerInv'
<1>1. Opener \in Clients
  BY StoreAssumption
<1>2. batch'[c] = b /\ \A d \in Clients : d # c => batch'[d] = batch[d]
  BY BecomesTyped
<1>3. batch'[Opener] = batch[Opener]
  BY <1>1, <1>2
<1>4. \A d \in Clients \ {Opener} : Elsewhere(batch'[d].ops) /\ Elsewhere(batch'[d].left)
  BY <1>2 DEF MarkerInv
<1>. QED  BY <1>3, <1>4, ReadyGrows DEF MarkerInv

(* Nothing of the Opener's is under way.                                   *)
LEMMA MarkerOwn ==
    ASSUME TypeInv, MarkerInv, NEW b \in Batches, Becomes(Opener, b), Anchored(db'),
           Puts(b.ops), Puts(b.left), Puts(opening'),
           Ready(db', <<>>, b.ops), Ready(db', <<>>, b.left), Ready(db', b.ops, opening'),
           opening' # <<>> => lock' # Opener /\ ~Over(b)
    PROVE  MarkerInv'
<1>1. Opener \in Clients
  BY StoreAssumption
<1>2. batch'[Opener] = b /\ \A d \in Clients : d # Opener => batch'[d] = batch[d]
  BY <1>1, BecomesTyped
<1>3. \A d \in Clients \ {Opener} : Elsewhere(batch'[d].ops) /\ Elsewhere(batch'[d].left)
  BY <1>2 DEF MarkerInv
<1>. QED  BY <1>2, <1>3 DEF MarkerInv

(* A batch, or the first part of one, is committed by badger.              *)
LEMMA MarkerCommitted ==
    ASSUME TypeInv, MarkerInv, NEW c \in Clients, NEW b \in Batches, Becomes(c, b),
           b.ops = <<>>, b.left = batch[c].left, db' = AfterAll(db, batch[c].ops),
           c = Opener => opening = <<>> \/ ~Over(b), UNCHANGED <<lock, opening>>
    PROVE  MarkerInv'
<1>1. db \in Tables /\ batch[c].ops \in Seq(OpSet) /\ Puts(<<>>) /\ Elsewhere(<<>>)
  BY BatchTyped DEF TypeInv, Puts, Elsewhere
<1>2. CASE c = Opener
  <2>1. Anchored(db') /\ Grows(db, db')
    BY <1>1, <1>2, ReadyAll DEF MarkerInv
  <2>2. Ready(db', <<>>, opening)
    BY <1>1, <1>2, ReadyCommitted DEF MarkerInv
  <2>3. Puts(b.left) /\ Ready(db', <<>>, b.left) /\ Puts(opening)
    BY <1>2, <2>1, ReadyGrows DEF MarkerInv
  <2>4. opening # <<>> => lock # Opener /\ ~Over(b)
    BY <1>2 DEF MarkerInv
  <2>. QED  BY <1>1, <1>2, <2>1, <2>2, <2>3, <2>4, ReadyEmpty, MarkerOwn
<1>3. CASE c # Opener
  <2>1. Elsewhere(batch[c].ops) /\ Elsewhere(b.left) /\ Anchored(db)
    BY <1>3 DEF MarkerInv
  <2>2. \A d \in TreeKeys : db'[d] = db[d]
    BY <1>1, <2>1, ElsewhereLeaves
  <2>3. Grows(db, db') /\ Anchored(db')
    BY <2>1, <2>2 DEF Grows, Anchored, TreeKeys
  <2>. QED  BY <1>1, <1>3, <2>1, <2>3, MarkerOther
<1>. QED  BY <1>2, <1>3

(* A batch is forgotten, or dropped by an error.                           *)
LEMMA MarkerCleared ==
    ASSUME TypeInv, MarkerInv, NEW c \in Clients, Becomes(c, NoBatch),
           c = Opener => opening = <<>>, UNCHANGED <<db, lock, opening>>
    PROVE  MarkerInv'
<1>1. /\ NoBatch \in Batches /\ NoBatch.ops = <<>> /\ NoBatch.left = <<>>
      /\ Puts(<<>>) /\ Elsewhere(<<>>) /\ Grows(db, db') /\ Anchored(db')
  BY NoBatchTyped DEF Puts, Elsewhere, Grows, MarkerInv
<1>2. CASE c = Opener
  BY <1>1, <1>2, ReadyEmpty, MarkerOwn
<1>3. CASE c # Opener
  BY <1>1, <1>3, MarkerOther
<1>. QED  BY <1>2, <1>3

(* The mutex is released and the batch marked as committed.                *)
LEMMA MarkerMarked ==
    ASSUME TypeInv, MarkerInv, NEW c \in Clients, NEW b \in Batches, Becomes(c, b),
           b.ops = batch[c].ops, b.left = batch[c].left, c = Opener => opening = <<>>,
           lock' # Opener, UNCHANGED <<db, opening>>
    PROVE  MarkerInv'
<1>1. Grows(db, db') /\ Anchored(db')
  BY DEF Grows, MarkerInv
<1>2. CASE c = Opener
  BY <1>1, <1>2, MarkerOwn DEF MarkerInv
<1>3. CASE c # Opener
  <2>1. Elsewhere(b.ops) /\ Elsewhere(b.left)
    BY <1>3 DEF MarkerInv
  <2>. QED  BY <1>1, <1>3, <2>1, MarkerOther
<1>. QED  BY <1>2, <1>3

(* Every step keeps the invariant.                                         *)
LEMMA MarkerStep == TypeInv /\ MarkerInv /\ [Next]_vars => MarkerInv'
<1> SUFFICES ASSUME TypeInv, MarkerInv, [Next]_vars PROVE MarkerInv'
  OBVIOUS
<1>0. Opener \in Clients /\ NoOne \notin Clients /\ db \in Tables /\ opening \in Seq(OpSet)
  BY StoreAssumption DEF TypeInv
<1>00. /\ NoBatch \in Batches /\ NoBatch.kind = "none" /\ NoBatch.ops = <<>> /\ NoBatch.left = <<>>
       /\ Puts(<<>>) /\ Elsewhere(<<>>)
  BY NoBatchTyped DEF Puts, Elsewhere
<1>000. Grows(db, db) /\ Anchored(db)
  BY DEF Grows, MarkerInv
<1>1. CASE UNCHANGED vars
  BY <1>1, <1>000, MarkerGrows DEF vars
<1>2. ASSUME NEW c \in Clients, NEW k \in OtherKeys, NEW v \in Values \cup {NoValue}, Set(c, k, v)
      PROVE MarkerInv'
  <2>1. db' = After(db, Op(k, v)) /\ UNCHANGED <<batch, opening, lock>>
    BY <1>2 DEF Set
  <2>2. \A d \in TreeKeys : db'[d] = db[d]
    BY <1>0, <2>1, TreeKeysApart DEF After, Op, Tables
  <2>3. Grows(db, db') /\ Anchored(db')
    BY <1>000, <2>2 DEF Grows, Anchored, TreeKeys
  <2>. QED  BY <2>1, <2>3, MarkerGrows
<1>3. ASSUME NEW c \in Clients, NEW k \in Keys, Get(c, k) PROVE MarkerInv'
  BY <1>000, <1>3, MarkerGrows DEF Get
<1>4. ASSUME NEW c \in Clients, CommitFull(c) PROVE MarkerInv'
  <2>1. db' = AfterAll(db, batch[c].ops) /\ UNCHANGED <<lock, opening>> /\ ~Over(batch[c])
    BY <1>4 DEF CommitFull
  <2> DEFINE b == WithOps(batch[c], <<>>)
  <2>2. Becomes(c, b) /\ b \in Batches /\ b.ops = <<>> /\ b.left = batch[c].left /\ ~Over(b)
    BY <1>4, <2>1, CommitFullBatch, OpsReplaced, BatchTyped
  <2> HIDE DEF b
  <2>. QED  BY <1>0, <2>1, <2>2, MarkerCommitted
<1>5. ASSUME NEW c \in Clients, CommitBadger(c) PROVE MarkerInv'
  <2>1. /\ db' = AfterAll(db, batch[c].ops) /\ UNCHANGED <<lock, opening>> /\ ~Over(batch[c])
        /\ c = Opener => opening = <<>>
    BY <1>5 DEF CommitBadger, MayCommit
  <2> DEFINE b == WithOps(Done(batch[c]), <<>>)
  <2>2. Becomes(c, b) /\ b \in Batches /\ b.ops = <<>> /\ b.left = batch[c].left
    BY <1>5, <2>1, CommitBadgerBatch, BatchDone, OpsReplaced, BatchTyped, ZenonT(40)
  <2> HIDE DEF b
  <2>. QED  BY <1>0, <2>1, <2>2, MarkerCommitted
<1>6. ASSUME NEW c \in Clients, CommitFails(c) PROVE MarkerInv'
  <2>1. Becomes(c, NoBatch) /\ UNCHANGED <<db, lock, opening>> /\ (c = Opener => opening = <<>>)
    BY <1>6 DEF CommitFails, MayCommit, Becomes
  <2>. QED  BY <2>1, MarkerCleared
<1>7. ASSUME NEW c \in Clients, Commit(c) PROVE MarkerInv'
  <2>1. UNCHANGED <<db, opening>> /\ lock' = c /\ (c = Opener => opening = <<>>)
    BY <1>7 DEF Commit, MayCommit
  <2> DEFINE b == WithLeft(batch[c], batch[c].ops)
  <2>2. Becomes(c, b) /\ b \in Batches /\ b.ops = batch[c].ops /\ b.left = batch[c].ops
    BY <1>7, CommitBatch, LeftReplaced, BatchTyped
  <2> HIDE DEF b
  <2>3. CASE c = Opener
    <3>1. /\ Puts(b.ops) /\ Puts(b.left) /\ Puts(opening')
          /\ Ready(db', <<>>, b.ops) /\ Ready(db', <<>>, b.left) /\ Ready(db', b.ops, opening')
          /\ opening' = <<>> /\ Anchored(db')
      BY <2>1, <2>2, <2>3 DEF MarkerInv
    <3>. QED  BY <2>2, <2>3, <3>1, MarkerOwn
  <2>4. CASE c # Opener
    <3>1. Elsewhere(b.ops) /\ Elsewhere(b.left)
      BY <2>2, <2>4 DEF MarkerInv
    <3>. QED  BY <1>000, <2>1, <2>2, <2>4, <3>1, MarkerOther
  <2>. QED  BY <2>3, <2>4
<1>8. ASSUME NEW c \in Clients, ApplyOp(c) PROVE MarkerInv'
  <2>1. /\ db' = After(db, Head(batch[c].left)) /\ UNCHANGED <<lock, opening>> /\ lock = c
        /\ batch[c].left # <<>>
    BY <1>8 DEF ApplyOp
  <2> DEFINE b == WithLeft(batch[c], Tail(batch[c].left))
  <2>2. /\ Becomes(c, b) /\ b \in Batches /\ b.ops = batch[c].ops /\ b.left = Tail(batch[c].left)
        /\ batch[c].left \in Seq(OpSet)
    BY <1>8, ApplyOpBatch, LeftReplaced, BatchTyped
  <2> HIDE DEF b
  <2>3. CASE c = Opener
    <3>1. /\ Anchored(db') /\ Grows(db, db') /\ Ready(db', <<>>, b.left) /\ Puts(b.left)
      BY <1>0, <2>1, <2>2, <2>3, ReadyFirst DEF MarkerInv
    <3>2. opening' = <<>> /\ Puts(opening')
      BY <1>00, <2>1, <2>3 DEF MarkerInv
    <3>3. Puts(b.ops) /\ Ready(db', <<>>, b.ops)
      BY <2>2, <2>3, <3>1, ReadyGrows DEF MarkerInv
    <3>. QED  BY <2>2, <2>3, <3>1, <3>2, <3>3, ReadyEmpty, MarkerOwn
  <2>4. CASE c # Opener
    <3>1. Elsewhere(batch[c].ops) /\ Elsewhere(batch[c].left)
      BY <2>4 DEF MarkerInv
    <3>2. Elsewhere(b.ops) /\ Elsewhere(b.left)
      <4>1. \A i \in DOMAIN Tail(batch[c].left) :
               i + 1 \in DOMAIN batch[c].left /\ Tail(batch[c].left)[i] = batch[c].left[i + 1]
        BY <2>1, <2>2
      <4>. QED  BY <2>2, <3>1, <4>1 DEF Elsewhere
    <3>3. Head(batch[c].left).key \in OtherKeys
      BY <2>1, <2>2, <3>1 DEF Elsewhere
    <3>4. \A d \in TreeKeys : db'[d] = db[d]
      BY <1>0, <2>1, <3>3, TreeKeysApart DEF After, Tables
    <3>5. Grows(db, db') /\ Anchored(db')
      BY <1>000, <3>4 DEF Grows, Anchored, TreeKeys
    <3>. QED  BY <2>1, <2>2, <2>4, <3>2, <3>5, MarkerOther
  <2>. QED  BY <2>3, <2>4
<1>9. ASSUME NEW c \in Clients, Committed(c) PROVE MarkerInv'
  <2>1. lock = c /\ lock' = NoOne /\ UNCHANGED <<db, opening>>
    BY <1>9 DEF Committed
  <2> DEFINE b == Done(batch[c])
  <2>2. Becomes(c, b) /\ b \in Batches /\ b.ops = batch[c].ops /\ b.left = batch[c].left
    BY <1>9, CommittedBatch, BatchDone, BatchTyped
  <2> HIDE DEF b
  <2>3. c = Opener => opening = <<>>
    BY <2>1 DEF MarkerInv
  <2>. QED  BY <1>0, <2>1, <2>2, <2>3, MarkerMarked
<1>10. ASSUME NEW c \in Clients, Forget(c) PROVE MarkerInv'
  <2>1. Becomes(c, NoBatch) /\ UNCHANGED <<db, lock, opening>> /\ (c = Opener => Over(batch[Opener]))
    BY <1>10 DEF Forget, Becomes
  <2>2. c = Opener => opening = <<>>
    BY <2>1 DEF MarkerInv
  <2>. QED  BY <2>1, <2>2, MarkerCleared
<1>11. ASSUME NEW c \in Clients \ {Opener}, NEW kind \in {"tx", "bulk"}, NewBatch(c, kind) PROVE MarkerInv'
  <2>1. Becomes(c, Begun(kind)) /\ UNCHANGED <<db, lock, opening>>
    BY <1>11 DEF NewBatch, Becomes, Begun
  <2> DEFINE b == Begun(kind)
  <2>2. Becomes(c, b) /\ b \in Batches /\ Elsewhere(b.ops) /\ Elsewhere(b.left)
    BY <1>00, <2>1, BatchBegun
  <2> HIDE DEF b
  <2>. QED  BY <1>000, <2>1, <2>2, MarkerOther
<1>12. ASSUME NEW c \in Clients \ {Opener}, NEW k \in OtherKeys, NEW v \in Values \cup {NoValue}, Collect(c, Op(k, v))
       PROVE MarkerInv'
  <2>1. UNCHANGED <<db, lock, opening>>
    BY <1>12 DEF Collect
  <2> DEFINE o == Append(batch[c].ops, Op(k, v))
             b == WithOps(batch[c], o)
  <2>2. Becomes(c, b) /\ o \in Seq(OpSet)
    BY <1>12, CollectBatch
  <2>3. b \in Batches /\ b.ops = o /\ b.left = batch[c].left
    BY <2>2, OpsReplaced, BatchTyped
  <2>4. Elsewhere(b.left) /\ Elsewhere(batch[c].ops)
    BY <2>3 DEF MarkerInv
  <2>5. Elsewhere(o)
    <3>1. \A i \in DOMAIN o : (i \in DOMAIN batch[c].ops /\ o[i] = batch[c].ops[i]) \/ o[i] = Op(k, v)
      BY BatchTyped
    <3>2. Op(k, v).key \in OtherKeys
      BY DEF Op
    <3> HIDE DEF o
    <3>. QED  BY <2>4, <3>1, <3>2 DEF Elsewhere
  <2> HIDE DEF o, b
  <2>. QED  BY <1>000, <2>1, <2>2, <2>3, <2>4, <2>5, MarkerOther
<1>13. ASSUME NEW c \in Clients \ {Opener}, Discard(c) PROVE MarkerInv'
  <2>1. UNCHANGED <<db, lock, opening>>
    BY <1>13 DEF Discard
  <2> DEFINE b == Dropped(batch[c])
  <2>2. Becomes(c, b) /\ b \in Batches /\ b.ops = batch[c].ops /\ b.left = batch[c].left
    BY <1>13, DiscardBatch, BatchDropped, BatchTyped
  <2> HIDE DEF b
  <2>3. Elsewhere(b.ops) /\ Elsewhere(b.left)
    BY <2>2 DEF MarkerInv
  <2>. QED  BY <1>000, <2>1, <2>2, <2>3, MarkerOther
<1>14. ASSUME OpenTree PROVE MarkerInv'
  <2>1. Becomes(Opener, Begun("bulk")) /\ opening' = TreeOps /\ lock' = NoOne /\ db' = db
    BY <1>14 DEF OpenTree, Unlocked, Becomes, Begun
  <2> DEFINE b == Begun("bulk")
  <2>2. Becomes(Opener, b) /\ b \in Batches /\ b.ops = <<>> /\ b.left = <<>> /\ ~Over(b)
    BY <1>00, <2>1, BatchBegun
  <2> HIDE DEF b
  <2>3. /\ Puts(b.ops) /\ Puts(b.left) /\ Puts(opening') /\ Anchored(db')
        /\ Ready(db', <<>>, b.ops) /\ Ready(db', <<>>, b.left) /\ Ready(db', b.ops, opening')
        /\ lock' # Opener
    BY <1>0, <1>00, <1>000, <2>1, <2>2, ReadyEmpty, ReadyTree
  <2>. QED  BY <2>2, <2>3, MarkerOwn
<1>15. ASSUME PutNext PROVE MarkerInv'
  <2>1. UNCHANGED <<db, lock>> /\ opening' = Tail(opening) /\ opening # <<>>
    BY <1>15 DEF PutNext
  <2> DEFINE o == Append(batch[Opener].ops, Head(opening))
             b == WithOps(batch[Opener], o)
  <2>2. Becomes(Opener, b) /\ o \in Seq(OpSet)
    BY <1>15, PutNextBatch
  <2>3. b \in Batches /\ b.ops = o /\ b.left = batch[Opener].left /\ ~Over(b)
    BY <1>0, <2>1, <2>2, OpsReplaced, BatchTyped, ZenonT(40) DEF MarkerInv
  <2>4. Ready(db, <<>>, o) /\ Ready(db, o, Tail(opening)) /\ Puts(o) /\ Puts(Tail(opening))
    <3>1. /\ batch[Opener].ops \in Seq(OpSet) /\ Puts(batch[Opener].ops) /\ Puts(opening)
          /\ Ready(db, <<>>, batch[Opener].ops) /\ Ready(db, batch[Opener].ops, opening)
      BY <1>0, BatchTyped DEF MarkerInv
    <3>. QED  BY <1>0, <2>1, <3>1, ReadyMoves
  <2> HIDE DEF o, b
  <2>5. Puts(b.left) /\ Ready(db, <<>>, b.left) /\ lock # Opener /\ Anchored(db)
    BY <2>1, <2>3 DEF MarkerInv
  <2>. QED  BY <2>1, <2>2, <2>3, <2>4, <2>5, MarkerOwn
<1>16. ASSUME PutFails PROVE MarkerInv'
  <2>1. UNCHANGED <<db, lock>> /\ opening # <<>>
    BY <1>16 DEF PutFails
  <2>2. CASE Head(opening).key = Marker /\ opening' = Tail(opening) /\ UNCHANGED batch
    <3>1. Puts(opening) /\ Ready(db, batch[Opener].ops, opening)
      BY DEF MarkerInv
    <3>2. Ready(db, batch[Opener].ops, Tail(opening)) /\ Puts(Tail(opening))
      BY <1>0, <2>1, <2>2, <3>1, ReadyWithout
    <3>. QED  BY <2>1, <2>2, <3>2 DEF MarkerInv
  <2>3. CASE opening' = <<>> /\ Becomes(Opener, NoBatch)
    <3>1. /\ Puts(NoBatch.ops) /\ Puts(NoBatch.left) /\ Puts(opening') /\ Anchored(db')
          /\ Ready(db', <<>>, NoBatch.ops) /\ Ready(db', <<>>, NoBatch.left)
          /\ Ready(db', NoBatch.ops, opening')
      BY <1>00, <1>000, <2>1, <2>3, ReadyEmpty
    <3>. QED  BY <1>00, <2>3, <3>1, MarkerOwn
  <2>. QED  BY <1>16, <2>2, <2>3 DEF PutFails, Becomes
<1>17. ASSUME Crash PROVE MarkerInv'
  <2>1. db' = db /\ opening' = <<>> /\ \A c \in Clients : batch'[c] = NoBatch
    BY <1>17 DEF Crash
  <2>. QED  BY <1>0, <1>00, <1>000, <2>1, ReadyEmpty DEF MarkerInv
<1>. QED  BY <1>1, <1>2, <1>3, <1>4, <1>5, <1>6, <1>7, <1>8, <1>9, <1>10, <1>11, <1>12, <1>13, <1>14,
             <1>15, <1>16, <1>17 DEF Next

(* A tree that is opened and finds initMarker finds every default node:    *)
(* the nodes go into the Bulk before the marker, badger commits its parts  *)
(* in that order, and nothing deletes a node.                              *)
THEOREM MarkerComesLast == Spec => []MarkerMeansDefaults
<1>1. Init => MarkerInv
  BY MarkerInit
<1>2. TypeInv /\ MarkerInv /\ [Next]_vars => MarkerInv'
  BY MarkerStep
<1>3. MarkerInv => MarkerMeansDefaults
  BY DEF MarkerInv, Anchored, MarkerMeansDefaults, Range
<1>. QED  BY <1>1, <1>2, <1>3, Typed, PTL DEF Spec

-----------------------------------------------------------------------------
(* Scans *)

(* s goes through the keys of S, each once, in order.                      *)
Enumerates(s, S, reverse) ==
    /\ s \in Seq(S)
    /\ \A k \in S : \E i \in 1..Len(s) : s[i] = k
    /\ \A i, j \in 1..Len(s) : i < j => Before(s[i], s[j], reverse)

(* The order of keys is strict and total, either way.                      *)
LEMMA BeforeOrders ==
    ASSUME NEW reverse, NEW a \in Int, NEW b \in Int
    PROVE  /\ ~Before(a, a, reverse)
           /\ a # b => Before(a, b, reverse) \/ Before(b, a, reverse)
           /\ Before(a, b, reverse) => ~Before(b, a, reverse)
BY DEF Before

KeysBefore(S, k, reverse) == { j \in S : Before(j, k, reverse) }
FirstOf(s, n) == { s[m] : m \in 1..n }

(* The first n keys of an enumeration are n.                               *)
LEMMA CountBefore ==
    ASSUME NEW S, S \subseteq Int, NEW reverse, NEW s, Enumerates(s, S, reverse),
           NEW n \in 0..Len(s)
    PROVE  Cardinality(FirstOf(s, n)) = n
<1> DEFINE T == FirstOf(s, n)
           f == [m \in 1..n |-> s[m]]
<1>0. /\ Len(s) \in Nat /\ \A m \in 1..Len(s) : s[m] \in S
      /\ \A m, j \in 1..Len(s) : m < j => Before(s[m], s[j], reverse)
  BY DEF Enumerates
<1>1. /\ n \in Nat /\ \A m \in 1..n : s[m] \in Int
      /\ \A m, j \in 1..n : m < j => Before(s[m], s[j], reverse)
  <2>1. n \in Nat /\ 1..n \subseteq 1..Len(s)
    BY <1>0
  <2>. QED  BY <1>0, <2>1
<1>2. \A m, j \in 1..n : m # j => s[m] # s[j]
  <2> SUFFICES ASSUME NEW m \in 1..n, NEW j \in 1..n, m # j PROVE s[m] # s[j]
    OBVIOUS
  <2>1. m < j \/ j < m
    OBVIOUS
  <2>. QED  BY <1>1, <2>1, BeforeOrders
<1>3. f \in Bijection(1..n, T)
  <2>1. f \in [1..n -> T]
    BY DEF FirstOf
  <2>2. \A a, b \in 1..n : f[a] = f[b] => a = b
    BY <1>2
  <2>3. \A t \in T : \E a \in 1..n : f[a] = t
    BY DEF FirstOf
  <2>. QED  BY <2>1, <2>2, <2>3 DEF Bijection, Injection, Surjection, IsInjective
<1>4. ExistsBijection(1..n, T)
  BY <1>3 DEF ExistsBijection
<1>. QED  BY <1>1, <1>4, FS_CountingElements

(* Before its i-th key come the keys at the places before i.               *)
LEMMA RankOf ==
    ASSUME NEW S, S \subseteq Int, NEW reverse, NEW s, Enumerates(s, S, reverse), NEW i \in 1..Len(s)
    PROVE  Cardinality(KeysBefore(S, s[i], reverse)) = i - 1
<1>1. /\ Len(s) \in Nat /\ \A m \in 1..Len(s) : s[m] \in S
      /\ \A k \in S : \E m \in 1..Len(s) : s[m] = k
      /\ \A m, j \in 1..Len(s) : m < j => Before(s[m], s[j], reverse)
  BY DEF Enumerates
<1>2. ASSUME NEW j \in S, Before(j, s[i], reverse) PROVE \E m \in 1..(i - 1) : j = s[m]
  <2>1. PICK m \in 1..Len(s) : s[m] = j
    BY <1>1
  <2>2. ~(i < m) /\ i # m
    BY <1>1, <1>2, <2>1, BeforeOrders
  <2>3. m \in 1..(i - 1)
    BY <1>1, <2>2
  <2>. QED  BY <2>1, <2>3
<1>3. ASSUME NEW m \in 1..(i - 1) PROVE s[m] \in S /\ Before(s[m], s[i], reverse)
  <2>1. m \in 1..Len(s) /\ m < i
    BY <1>1
  <2>. QED  BY <1>1, <2>1
<1>4. KeysBefore(S, s[i], reverse) = FirstOf(s, i - 1)
  BY <1>2, <1>3 DEF KeysBefore, FirstOf
<1>5. i - 1 \in 0..Len(s)
  BY <1>1
<1>6. Cardinality(FirstOf(s, i - 1)) = i - 1
  BY <1>5, CountBefore
<1>. QED  BY <1>4, <1>6

(* There is one enumeration of a set of keys, and Sorted gives it.         *)
LEMMA SortedIs ==
    ASSUME NEW S, S \subseteq Int, NEW reverse, NEW s, Enumerates(s, S, reverse)
    PROVE  Sorted(S, reverse) = s
<1>1. /\ Len(s) \in Nat /\ s = [i \in 1..Len(s) |-> s[i]]
      /\ \A m \in 1..Len(s) : s[m] \in S
      /\ \A k \in S : \E m \in 1..Len(s) : s[m] = k
  BY DEF Enumerates
<1>2. Cardinality(S) = Len(s)
  <2>1. S = FirstOf(s, Len(s))
    BY <1>1 DEF FirstOf
  <2>. QED  BY <1>1, <2>1, CountBefore
<1>3. ASSUME NEW m \in 1..Len(s)
      PROVE  Cardinality(KeysBefore(S, s[m], reverse)) = m - 1
  BY RankOf
<1>4. ASSUME NEW i \in 1..Len(s)
      PROVE (CHOOSE k \in S : Cardinality(KeysBefore(S, k, reverse)) = i - 1) = s[i]
  <2>1. ASSUME NEW k \in S, Cardinality(KeysBefore(S, k, reverse)) = i - 1 PROVE k = s[i]
    <3>1. PICK m \in 1..Len(s) : s[m] = k
      BY <1>1
    <3>2. m - 1 = i - 1
      BY <1>3, <2>1, <3>1
    <3>3. m = i
      BY <1>1, <3>2
    <3>. QED  BY <3>1, <3>3
  <2>2. s[i] \in S /\ Cardinality(KeysBefore(S, s[i], reverse)) = i - 1
    BY <1>1, <1>3
  <2>. QED  BY <2>1, <2>2
<1>. QED  BY <1>1, <1>2, <1>4 DEF Sorted, KeysBefore

(* A finite set of keys has an enumeration: the least key, then the rest.  *)
LEMMA AscendingExists ==
    ASSUME NEW S, S \subseteq Nat, IsFiniteSet(S)
    PROVE  \E s : Enumerates(s, S, FALSE)
<1> DEFINE Bad == { T \in SUBSET S : ~ \E s : Enumerates(s, T, FALSE) }
           Sizes == { Cardinality(T) : T \in Bad }
<1> SUFFICES ASSUME S \in Bad PROVE FALSE
  OBVIOUS
<1>1. \A T \in Bad : T \subseteq Nat /\ IsFiniteSet(T) /\ Cardinality(T) \in Nat
  BY FS_Subset, FS_CardinalityType
<1>2. \E n \in Sizes : \A m \in Sizes : n <= m
  <2>1. Sizes \subseteq Nat /\ Sizes # {}
    BY <1>1
  <2> HIDE DEF Sizes
  <2>. QED  BY <2>1, LeastExists
<1>3. PICK T \in Bad : \A U \in Bad : Cardinality(T) <= Cardinality(U)
  BY <1>2
<1>4. T # {}
  <2>1. Enumerates(<<>>, {}, FALSE)
    BY DEF Enumerates
  <2>. QED  BY <2>1
<1>5. PICK k \in T : \A j \in T : k <= j
  <2>1. \E k \in T : \A j \in T : k <= j
    BY <1>1, <1>4, LeastExists
  <2>. QED  BY <2>1
<1> DEFINE U == T \ {k}
<1>6. Cardinality(U) = Cardinality(T) - 1
  BY <1>1, FS_RemoveElement
<1>7. U \notin Bad
  <2>1. Cardinality(T) \in Nat
    BY <1>1
  <2> HIDE DEF Bad, U
  <2>. QED  BY <1>3, <1>6, <2>1
<1>8. PICK s : Enumerates(s, U, FALSE)
  BY <1>7
<1> DEFINE t == [i \in 1..(Len(s) + 1) |-> IF i = 1 THEN k ELSE s[i - 1]]
<1>9. /\ s \in Seq(U) /\ Len(s) \in Nat /\ \A i \in 1..Len(s) : s[i] \in U
      /\ \A j \in U : \E i \in 1..Len(s) : s[i] = j
      /\ \A i, j \in 1..Len(s) : i < j => s[i] < s[j]
  <2> HIDE DEF U
  <2>. QED  BY <1>8 DEF Enumerates, Before
<1>10. \A i \in 1..(Len(s) + 1) : i # 1 => i - 1 \in 1..Len(s) /\ t[i] = s[i - 1]
  BY <1>9
<1>11. Len(s) + 1 \in Nat /\ t[1] = k
  BY <1>9
<1>12. \A i \in 1..(Len(s) + 1) : t[i] \in T
  BY <1>9, <1>10, <1>11
<1>13. t \in Seq(T) /\ Len(t) = Len(s) + 1
  BY <1>11, <1>12
<1>14. \A j \in T : \E i \in 1..(Len(s) + 1) : t[i] = j
  <2> SUFFICES ASSUME NEW j \in T, j # k PROVE \E i \in 1..(Len(s) + 1) : t[i] = j
    BY <1>9, <1>11
  <2>1. PICK i \in 1..Len(s) : s[i] = j
    BY <1>9
  <2>2. i + 1 \in 1..(Len(s) + 1) /\ i + 1 # 1 /\ (i + 1) - 1 = i
    BY <1>9
  <2>. QED  BY <1>10, <2>1, <2>2
<1>15. ASSUME NEW i \in 1..(Len(s) + 1), NEW j \in 1..(Len(s) + 1), i < j PROVE t[i] < t[j]
  <2>1. j # 1 /\ j - 1 \in 1..Len(s) /\ t[j] = s[j - 1] /\ s[j - 1] \in U
    BY <1>9, <1>10, <1>15
  <2>2. CASE i = 1
    <3>1. k <= t[j] /\ k # t[j] /\ k \in Nat /\ t[j] \in Nat
      BY <1>1, <1>5, <2>1
    <3>. QED  BY <1>11, <2>2, <3>1
  <2>3. CASE i # 1
    <3>1. i - 1 \in 1..Len(s) /\ t[i] = s[i - 1] /\ i - 1 < j - 1
      BY <1>10, <1>15, <2>3
    <3>. QED  BY <1>9, <2>1, <3>1
  <2>. QED  BY <2>2, <2>3
<1> HIDE DEF t
<1>16. Enumerates(t, T, FALSE)
  BY <1>13, <1>14, <1>15 DEF Enumerates, Before
<1>. QED  BY <1>16

(* Backwards it is an enumeration in reverse.                              *)
LEMMA DescendingExists ==
    ASSUME NEW S, S \subseteq Nat, IsFiniteSet(S)
    PROVE  \E s : Enumerates(s, S, TRUE)
<1>1. PICK s : Enumerates(s, S, FALSE)
  BY AscendingExists
<1> DEFINE n == Len(s)
           t == [i \in 1..n |-> s[n + 1 - i]]
<1>2. /\ n \in Nat /\ \A i \in 1..n : s[i] \in S
      /\ \A k \in S : \E i \in 1..n : s[i] = k
      /\ \A i, j \in 1..n : i < j => s[i] < s[j]
  BY <1>1 DEF Enumerates, Before
<1>3. \A i \in 1..n : n + 1 - i \in 1..n /\ t[i] = s[n + 1 - i]
  BY <1>2
<1>4. t \in Seq(S) /\ Len(t) = n
  BY <1>2, <1>3
<1>5. \A k \in S : \E i \in 1..n : t[i] = k
  <2> SUFFICES ASSUME NEW k \in S PROVE \E i \in 1..n : t[i] = k
    OBVIOUS
  <2>1. PICK i \in 1..n : s[i] = k
    BY <1>2
  <2>2. n + 1 - i \in 1..n /\ n + 1 - (n + 1 - i) = i
    BY <1>2
  <2>. QED  BY <1>3, <2>1, <2>2
<1>6. ASSUME NEW i \in 1..n, NEW j \in 1..n, i < j PROVE t[i] > t[j]
  <2>1. n + 1 - j < n + 1 - i
    BY <1>2, <1>6
  <2>2. s[n + 1 - j] < s[n + 1 - i] /\ s[n + 1 - j] \in Nat /\ s[n + 1 - i] \in Nat
    BY <1>2, <1>3, <2>1
  <2>. QED  BY <1>3, <2>2
<1> HIDE DEF t
<1>7. Enumerates(t, S, TRUE)
  BY <1>4, <1>5, <1>6 DEF Enumerates, Before
<1>. QED  BY <1>7

(* So Sorted does what its name says.                                      *)
LEMMA SortedEnumerates ==
    ASSUME NEW S, S \subseteq Nat, IsFiniteSet(S), NEW reverse \in BOOLEAN
    PROVE  Enumerates(Sorted(S, reverse), S, reverse)
<1>1. PICK s : Enumerates(s, S, reverse)
  BY AscendingExists, DescendingExists
<1>2. Sorted(S, reverse) = s
  <2>1. S \subseteq Int
    OBVIOUS
  <2>. QED  BY <1>1, <2>1, SortedIs
<1>. QED  BY <1>1, <1>2

From(s, I) == IF I = {} THEN <<>> ELSE SubSeq(s, Min(I), Len(s))
Until(s, I) == IF I = {} THEN s ELSE SubSeq(s, 1, Min(I) - 1)
Places(s, T) == { i \in 1..Len(s) : s[i] \in T }

(* T has each key that comes after one it has.                             *)
Onwards(S, T, reverse) == \A a \in S \cap T, b \in S : Before(a, b, reverse) => b \in T

(* Such a set begins at its first place and goes on to the end.            *)
LEMMA FirstPlace ==
    ASSUME NEW S, S \subseteq Int, NEW reverse, NEW s, Enumerates(s, S, reverse),
           NEW T, Onwards(S, T, reverse), Places(s, T) # {}
    PROVE  /\ Min(Places(s, T)) \in 1..Len(s)
           /\ \A i \in 1..Len(s) : s[i] \in T <=> i >= Min(Places(s, T))
<1> DEFINE I == Places(s, T)
           m == Min(I)
<1>1. I \subseteq 1..Len(s) /\ I \subseteq Nat /\ I # {}
  BY DEF Places
<1>2. m \in I /\ \A i \in I : m <= i
  <2>1. \E x \in I : \A y \in I : x <= y
    <3> HIDE DEF I
    <3>. QED  BY <1>1, LeastExists
  <2> HIDE DEF I
  <2>. QED  BY <2>1 DEF Min
<1>3. m \in 1..Len(s) /\ s[m] \in T
  BY <1>2 DEF Places
<1>4. /\ \A i \in 1..Len(s) : s[i] \in S
      /\ \A i, j \in 1..Len(s) : i < j => Before(s[i], s[j], reverse)
  BY DEF Enumerates
<1>5. ASSUME NEW i \in 1..Len(s), i >= m PROVE s[i] \in T
  <2>1. i = m \/ m < i
    BY <1>3, <1>5
  <2> HIDE DEF m
  <2>. QED  BY <1>3, <1>4, <2>1 DEF Onwards
<1>6. ASSUME NEW i \in 1..Len(s), s[i] \in T PROVE i >= m
  <2>1. i \in I
    BY <1>6 DEF Places
  <2>. QED  BY <1>2, <1>3, <2>1
<1>. QED  BY <1>3, <1>5, <1>6

(* From its first place on an enumeration goes through it,                 *)
LEMMA FromEnumerates ==
    ASSUME NEW S, S \subseteq Int, NEW reverse, NEW s, Enumerates(s, S, reverse),
           NEW T, Onwards(S, T, reverse)
    PROVE  Enumerates(From(s, Places(s, T)), S \cap T, reverse)
<1>0. /\ Len(s) \in Nat /\ s \in Seq(S) /\ \A i \in 1..Len(s) : s[i] \in S
      /\ \A k \in S : \E i \in 1..Len(s) : s[i] = k
      /\ \A i, j \in 1..Len(s) : i < j => Before(s[i], s[j], reverse)
  BY DEF Enumerates
<1>1. CASE Places(s, T) = {}
  <2>1. S \cap T = {}
    BY <1>0, <1>1 DEF Places
  <2>. QED  BY <1>1, <2>1 DEF Enumerates, From
<1>2. CASE Places(s, T) # {}
  <2> DEFINE m == Min(Places(s, T))
             r == SubSeq(s, m, Len(s))
  <2>1. m \in 1..Len(s) /\ \A i \in 1..Len(s) : s[i] \in T <=> i >= m
    BY <1>2, FirstPlace
  <2> HIDE DEF m
  <2>2. /\ Len(r) = Len(s) - m + 1 /\ Len(r) \in Nat
        /\ \A i \in 1..Len(r) : r[i] = s[m + i - 1] /\ m + i - 1 \in 1..Len(s) /\ m + i - 1 >= m
        /\ r = [i \in 1..Len(r) |-> r[i]]
    BY <1>0, <2>1
  <2> HIDE DEF r
  <2>3. r \in Seq(S \cap T)
    <3>1. \A i \in 1..Len(r) : r[i] \in S \cap T
      BY <1>0, <2>1, <2>2
    <3>. QED  BY <2>2, <3>1
  <2>4. ASSUME NEW k \in S \cap T PROVE \E i \in 1..Len(r) : r[i] = k
    <3>1. PICK j \in 1..Len(s) : s[j] = k
      BY <1>0
    <3>2. j >= m
      BY <2>1, <3>1
    <3>3. j - m + 1 \in 1..Len(r) /\ m + (j - m + 1) - 1 = j
      <4>1. m \in Int /\ j \in Int /\ j <= Len(s) /\ Len(s) \in Int /\ Len(r) = Len(s) - m + 1
        BY <1>0, <2>1, <2>2
      <4> HIDE DEF r, m
      <4>. QED  BY <3>2, <4>1
    <3>. QED  BY <2>2, <3>1, <3>3
  <2>5. ASSUME NEW i \in 1..Len(r), NEW j \in 1..Len(r), i < j PROVE Before(r[i], r[j], reverse)
    <3>1. m + i - 1 < m + j - 1
      BY <2>1, <2>2, <2>5
    <3>. QED  BY <1>0, <2>2, <3>1
  <2>6. From(s, Places(s, T)) = r
    BY <1>2 DEF From, r, m
  <2>. QED  BY <2>3, <2>4, <2>5, <2>6 DEF Enumerates
<1>. QED  BY <1>1, <1>2

(* and up to there through what is not in it.                              *)
LEMMA UntilEnumerates ==
    ASSUME NEW S, S \subseteq Int, NEW reverse, NEW s, Enumerates(s, S, reverse),
           NEW T, Onwards(S, T, reverse)
    PROVE  Enumerates(Until(s, Places(s, T)), S \ T, reverse)
<1>0. /\ Len(s) \in Nat /\ s \in Seq(S) /\ \A i \in 1..Len(s) : s[i] \in S
      /\ \A k \in S : \E i \in 1..Len(s) : s[i] = k
      /\ \A i, j \in 1..Len(s) : i < j => Before(s[i], s[j], reverse)
  BY DEF Enumerates
<1>1. CASE Places(s, T) = {}
  <2>1. S \ T = S
    BY <1>0, <1>1 DEF Places
  <2>. QED  BY <1>1, <2>1 DEF Until
<1>2. CASE Places(s, T) # {}
  <2> DEFINE m == Min(Places(s, T))
             r == SubSeq(s, 1, m - 1)
  <2>1. m \in 1..Len(s) /\ \A i \in 1..Len(s) : s[i] \in T <=> i >= m
    BY <1>2, FirstPlace
  <2> HIDE DEF m
  <2>2. /\ Len(r) = m - 1 /\ Len(r) \in Nat
        /\ \A i \in 1..Len(r) : r[i] = s[i] /\ i \in 1..Len(s) /\ ~(i >= m)
        /\ r = [i \in 1..Len(r) |-> r[i]]
    BY <1>0, <2>1
  <2> HIDE DEF r
  <2>3. r \in Seq(S \ T)
    <3>1. \A i \in 1..Len(r) : r[i] \in S \ T
      BY <1>0, <2>1, <2>2
    <3>. QED  BY <2>2, <3>1
  <2>4. ASSUME NEW k \in S \ T PROVE \E i \in 1..Len(r) : r[i] = k
    <3>1. PICK j \in 1..Len(s) : s[j] = k
      BY <1>0
    <3>2. j \in 1..Len(r)
      BY <2>1, <2>2, <3>1
    <3>. QED  BY <2>2, <3>1, <3>2
  <2>5. ASSUME NEW i \in 1..Len(r), NEW j \in 1..Len(r), i < j PROVE Before(r[i], r[j], reverse)
    BY <1>0, <2>2, <2>5
  <2>6. Until(s, Places(s, T)) = r
    BY <1>2 DEF Until, r, m
  <2>. QED  BY <2>3, <2>4, <2>5, <2>6 DEF Enumerates
<1>. QED  BY <1>1, <1>2

-----------------------------------------------------------------------------
(* What is stored *)

(* Finitely many keys have a value.                                        *)
FinInv == IsFiniteSet(Present)

(* A step makes present only keys of the operations it applies.            *)
LEMMA PresentAfterAll ==
    ASSUME NEW t \in Tables, NEW ops \in Seq(OpSet), IsFiniteSet({ k \in Keys : t[k] # NoValue })
    PROVE  IsFiniteSet({ k \in Keys : AfterAll(t, ops)[k] # NoValue })
<1> DEFINE P == { k \in Keys : t[k] # NoValue }
           Q == { k \in Keys : AfterAll(t, ops)[k] # NoValue }
           W == { ops[i].key : i \in 1..Len(ops) }
<1>1. IsFiniteSet(W)
  <2> DEFINE f == [i \in 1..Len(ops) |-> ops[i].key]
  <2>1. Len(ops) \in Nat
    OBVIOUS
  <2>2. f \in Surjection(1..Len(ops), W)
    BY DEF Surjection
  <2>3. ExistsSurjection(1..Len(ops), W)
    BY <2>2 DEF ExistsSurjection
  <2> HIDE DEF W
  <2>. QED  BY <2>1, <2>3, FS_NatSurjection
<1>2. Q \subseteq P \cup W
  <2> SUFFICES ASSUME NEW k \in Keys, AfterAll(t, ops)[k] # NoValue, k \notin W PROVE t[k] # NoValue
    OBVIOUS
  <2>1. OnKey(ops, k) = {}
    BY DEF OnKey
  <2>. QED  BY <2>1, AfterAllAt
<1>3. IsFiniteSet(P \cup W)
  <2> HIDE DEF P, W
  <2>. QED  BY <1>1, FS_Union DEF P
<1> HIDE DEF P, W, Q
<1>4. IsFiniteSet(Q)
  BY <1>2, <1>3, FS_Subset
<1>. QED  BY <1>4 DEF Q

(* One operation adds at most its key.                                     *)
LEMMA PresentAfter ==
    ASSUME NEW t \in Tables, NEW op \in OpSet, IsFiniteSet({ k \in Keys : t[k] # NoValue })
    PROVE  IsFiniteSet({ k \in Keys : After(t, op)[k] # NoValue })
<1> DEFINE P == { k \in Keys : t[k] # NoValue }
           Q == { k \in Keys : After(t, op)[k] # NoValue }
<1>1. Q \subseteq P \cup {op.key}
  BY DEF After, Tables, OpSet
<1>2. IsFiniteSet(P \cup {op.key})
  BY FS_AddElement
<1> HIDE DEF P, Q
<1>3. IsFiniteSet(Q)
  BY <1>1, <1>2, FS_Subset
<1>. QED  BY <1>3 DEF Q

(* Nothing is stored at first.                                             *)
LEMMA PresentInit == Init => FinInv
<1> SUFFICES ASSUME Init PROVE FinInv
  OBVIOUS
<1>1. Present = {}
  BY DEF Init, Present
<1>. QED  BY <1>1, FS_EmptySet DEF FinInv

(* Every step leaves finitely many.                                        *)
LEMMA PresentStep == TypeInv /\ FinInv /\ [Next]_vars => FinInv'
<1> SUFFICES ASSUME TypeInv, FinInv, [Next]_vars PROVE FinInv'
  OBVIOUS
<1>0. db \in Tables /\ IsFiniteSet({ k \in Keys : db[k] # NoValue })
  BY DEF TypeInv, FinInv, Present
<1>1. ASSUME db' = db PROVE FinInv'
  BY <1>0, <1>1 DEF FinInv, Present
<1>2. ASSUME NEW op \in OpSet, db' = After(db, op) PROVE FinInv'
  BY <1>0, <1>2, PresentAfter DEF FinInv, Present
<1>3. ASSUME NEW ops \in Seq(OpSet), db' = AfterAll(db, ops) PROVE FinInv'
  BY <1>0, <1>3, PresentAfterAll DEF FinInv, Present
<1>4. ASSUME NEW c \in Clients, NEW k \in OtherKeys, NEW v \in Values \cup {NoValue}, Set(c, k, v)
      PROVE FinInv'
  <2>1. Op(k, v) \in OpSet /\ db' = After(db, Op(k, v))
    BY <1>4 DEF Set, Op, OpSet, OtherKeys
  <2>. QED  BY <1>2, <2>1
<1>5. ASSUME NEW c \in Clients, CommitFull(c) \/ CommitBadger(c) PROVE FinInv'
  <2>1. batch[c].ops \in Seq(OpSet) /\ db' = AfterAll(db, batch[c].ops)
    BY <1>5, BatchTyped DEF CommitFull, CommitBadger
  <2>. QED  BY <1>3, <2>1
<1>6. ASSUME NEW c \in Clients, ApplyOp(c) PROVE FinInv'
  <2>1. batch[c].left \in Seq(OpSet) /\ batch[c].left # <<>> /\ db' = After(db, Head(batch[c].left))
    BY <1>6, BatchTyped DEF ApplyOp
  <2>2. Head(batch[c].left) \in OpSet
    BY <2>1
  <2>. QED  BY <1>2, <2>1, <2>2
<1>7. ASSUME NEW c \in Clients, CommitFails(c) \/ Commit(c) \/ Committed(c) \/ Forget(c) \/ Discard(c)
      PROVE db' = db
  BY <1>7 DEF CommitFails, Commit, Committed, Forget, Discard
<1>8. ASSUME NEW c \in Clients, NEW k \in Keys, Get(c, k) PROVE db' = db
  BY <1>8 DEF Get
<1>9. ASSUME NEW c \in Clients, NEW kind \in {"tx", "bulk"}, NewBatch(c, kind) PROVE db' = db
  BY <1>9 DEF NewBatch
<1>10. ASSUME NEW c \in Clients, NEW op, Collect(c, op) PROVE db' = db
  BY <1>10 DEF Collect
<1>11. ASSUME OpenTree \/ PutNext \/ PutFails \/ Crash \/ UNCHANGED vars PROVE db' = db
  BY <1>11 DEF OpenTree, PutNext, PutFails, Crash, vars
<1>. QED  BY <1>1, <1>4, <1>5, <1>6, <1>7, <1>8, <1>9, <1>10, <1>11 DEF Next

-----------------------------------------------------------------------------
(* The scans of the engines *)

(* The keys a scan of badger has sought, and those beyond its end.         *)
SoughtKeys(start, reverse) == { k \in Nat : IF reverse THEN k <= start ELSE k >= start }
BeyondKeys(end, reverse) == { k \in Nat : end # Nil /\ IF reverse THEN k <= end ELSE end <= k }

(* Both go on to the end of the order.                                     *)
LEMMA ScanBounds ==
    ASSUME NEW S, S \subseteq Nat, NEW start \in Int, NEW end \in Int, NEW reverse
    PROVE  /\ Onwards(S, SoughtKeys(start, reverse), reverse)
           /\ Onwards(S, BeyondKeys(end, reverse), reverse)
BY DEF Onwards, SoughtKeys, BeyondKeys, Before

(* The first place of some, counted from 1.                                *)
LEMMA FirstPositive ==
    ASSUME NEW I, I \subseteq Nat \ {0}, I # {}
    PROVE  Min(I) \in I /\ Min(I) # 0
<1>1. \E x \in I : \A y \in I : x <= y
  BY LeastExists
<1>2. Min(I) \in I
  BY <1>1 DEF Min
<1>. QED  BY <1>2

(* What badger goes through is what comes from the first sought key until  *)
(* the first one beyond.                                                   *)
LEMMA BadgerCuts ==
    ASSUME NEW start \in Int, NEW end \in Int,
           Sorted(Present, Reversed(start, end)) \in Seq(Nat)
    PROVE  LET order == Sorted(Present, Reversed(start, end))
               rest == From(order, Places(order, SoughtKeys(start, Reversed(start, end))))
           IN  BadgerScan(start, end) = Until(rest, Places(rest, BeyondKeys(end, Reversed(start, end))))
<1> DEFINE reverse == Reversed(start, end)
           order == Sorted(Present, reverse)
           I == Places(order, SoughtKeys(start, reverse))
           I0 == { i \in 1..Len(order) : IF reverse THEN order[i] <= start ELSE order[i] >= start }
           seek == IF I0 # {} THEN Min(I0) ELSE 0
           rest == From(order, I)
           rest0 == IF seek = 0 THEN <<>> ELSE SubSeq(order, seek, Len(order))
           J == Places(rest, BeyondKeys(end, reverse))
           J0 == { i \in 1..Len(rest0) : end # Nil /\ IF reverse THEN rest0[i] <= end ELSE end <= rest0[i] }
           stop == IF J0 # {} THEN Min(J0) ELSE 0
           cut == IF stop = 0 THEN rest0 ELSE SubSeq(rest0, 1, stop - 1)
<1>1. BadgerScan(start, end) = cut
  BY DEF BadgerScan, SelectInSeq
<1>2. I = I0
  <2>1. \A i \in 1..Len(order) : order[i] \in Nat
    OBVIOUS
  <2> HIDE DEF order, reverse
  <2>. QED  BY <2>1 DEF Places, SoughtKeys
<1>3. rest = rest0
  <2>1. I0 \subseteq Nat \ {0}
    OBVIOUS
  <2> HIDE DEF I0, I, order
  <2>. QED  BY <1>2, <2>1, FirstPositive DEF From
<1>4. rest0 \in Seq(Nat)
  <2>1. I0 \subseteq 1..Len(order) /\ Len(order) \in Nat /\ order \in Seq(Nat) /\ I0 \subseteq Nat \ {0}
    OBVIOUS
  <2> HIDE DEF I0, order
  <2>2. seek # 0 => seek \in 1..Len(order)
    BY <2>1, FirstPositive
  <2> HIDE DEF seek
  <2>. QED  BY <2>1, <2>2
<1>5. J = J0
  <2>1. \A i \in 1..Len(rest0) : rest0[i] \in Nat
    <3> HIDE DEF rest0
    <3>. QED  BY <1>4
  <2> HIDE DEF rest, rest0, reverse
  <2>. QED  BY <1>3, <2>1 DEF Places, BeyondKeys
<1>6. Until(rest, J) = cut
  <2>1. J0 \subseteq Nat \ {0}
    OBVIOUS
  <2> HIDE DEF J0, J, rest, rest0
  <2>. QED  BY <1>3, <1>5, <2>1, FirstPositive DEF Until
<1> HIDE DEF cut
<1>. QED  BY <1>1, <1>6

(* An iterator of either engine goes through the same keys, in the same    *)
(* order.                                                                  *)
LEMMA ScansSame ==
    ASSUME FinInv, NEW start \in Keys \cup {Nil}, NEW end \in Keys \cup {Nil}
    PROVE  MemoryScan(start, end) = BadgerScan(start, end)
<1> DEFINE reverse == Reversed(start, end)
           order == Sorted(Present, reverse)
           Sought == SoughtKeys(start, reverse)
           Beyond == BeyondKeys(end, reverse)
           rest == From(order, Places(order, Sought))
           scan == Until(rest, Places(rest, Beyond))
           R == { k \in Present : isKeyInRange(k, start, end, reverse) }
<1>0. IsFiniteSet(Present) /\ Keys \subseteq Nat
  BY StoreAssumption DEF FinInv
<1>1. Present \subseteq Nat /\ start \in Int /\ end \in Int /\ reverse \in BOOLEAN
  <2>1. Present \subseteq Keys
    BY DEF Present
  <2>2. start \in Int /\ end \in Int
    BY <1>0 DEF Nil
  <2>3. reverse \in BOOLEAN
    BY DEF Reversed
  <2>. QED  BY <1>0, <2>1, <2>2, <2>3
<1>2. R = (Present \cap Sought) \ Beyond
  <2>1. ASSUME NEW k \in Present
        PROVE  isKeyInRange(k, start, end, reverse) <=> k \in Sought /\ k \notin Beyond
    <3>1. k \in Nat /\ start \in Nat \cup {Nil} /\ end \in Nat \cup {Nil}
      BY <1>0, <1>1
    <3>2. CASE reverse
      BY <3>1, <3>2 DEF SoughtKeys, BeyondKeys, isKeyInRange, Reversed, Nil
    <3>3. CASE ~reverse
      BY <3>1, <3>3 DEF SoughtKeys, BeyondKeys, isKeyInRange, Nil
    <3>. QED  BY <3>2, <3>3
  <2> HIDE DEF reverse, Sought, Beyond
  <2>. QED  BY <2>1
<1>3. order \in Seq(Nat) /\ Enumerates(order, Present, reverse)
  <2> HIDE DEF reverse
  <2>1. Enumerates(order, Present, reverse)
    BY <1>0, <1>1, SortedEnumerates
  <2>2. order \in Seq(Present)
    BY <2>1 DEF Enumerates
  <2> HIDE DEF order
  <2>3. /\ Len(order) \in Nat /\ order = [i \in 1..Len(order) |-> order[i]]
        /\ \A i \in 1..Len(order) : order[i] \in Present
    BY <2>2
  <2>4. \A i \in 1..Len(order) : order[i] \in Nat
    BY <1>1, <2>3
  <2>5. order \in Seq(Nat)
    BY <2>3, <2>4
  <2>. QED  BY <2>1, <2>5
<1>4. BadgerScan(start, end) = scan
  BY <1>1, <1>3, BadgerCuts
<1> HIDE DEF reverse, order, Sought, Beyond
<1>5. /\ Onwards(Present, Sought, reverse)
      /\ Onwards(Present \cap Sought, Beyond, reverse)
  <2>1. Present \cap Sought \subseteq Nat
    BY <1>1
  <2>. QED  BY <1>1, <2>1, ScanBounds DEF Sought, Beyond
<1>6. Present \subseteq Int /\ Present \cap Sought \subseteq Int /\ R \subseteq Int
  <2> HIDE DEF R
  <2>1. Present \subseteq Int
    BY <1>1
  <2>2. R \subseteq Present
    BY <1>2
  <2>. QED  BY <2>1, <2>2
<1>7. Enumerates(rest, Present \cap Sought, reverse)
  BY <1>3, <1>5, <1>6, FromEnumerates
<1> HIDE DEF rest
<1>8. Enumerates(scan, R, reverse)
  BY <1>2, <1>5, <1>6, <1>7, UntilEnumerates
<1> HIDE DEF scan, R
<1>9. Sorted(R, reverse) = scan
  BY <1>6, <1>8, SortedIs
<1>. QED  BY <1>4, <1>9 DEF MemoryScan, R, reverse

(* An iterator of either engine goes through the same keys: memorydb sorts *)
(* those it finds in the range, badger walks all keys in order from the    *)
(* first it seeks until the end it checks in Valid.                        *)
THEOREM ScansTheSame == Spec => []ScansAgree
<1>1. Init => FinInv
  BY PresentInit
<1>2. TypeInv /\ FinInv /\ [Next]_vars => FinInv'
  BY PresentStep
<1>3. FinInv => ScansAgree
  BY ScansSame DEF ScansAgree
<1>. QED  BY <1>1, <1>2, <1>3, Typed, PTL DEF Spec
=============================================================================
