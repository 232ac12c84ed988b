------------------------------- MODULE Store --------------------------------
(***************************************************************************)
(* The two implementations of db.DB.                                       *)
(*                                                                         *)
(* memorydb is a map under a mutex.  A Transaction or Bulk collects        *)
(* operations in a list; Commit and Flush take the mutex and apply them    *)
(* one by one.  badgerdb hands everything to badger, which is external:    *)
(* its transactions are atomic and durable; its WriteBatch commits what it *)
(* has when it is full and goes on with a new one, and Cancel drops only   *)
(* what is not committed yet.                                              *)
(*                                                                         *)
(* The table is a function on all keys, absent keys having no value.  A    *)
(* key is the bytes PrependNamespace makes, a number here: the order is    *)
(* what counts.  Nil is the nil slice, before every key.                   *)
(*                                                                         *)
(* One of the clients opens a sparse Merkle tree: it puts the tree's       *)
(* default nodes, then initMarker, in one Bulk, unless the marker is       *)
(* there.  The others use other keys (a node is stored under its hash).    *)
(***************************************************************************)
EXTENDS Integers, Sequences, SequencesExt, FiniteSets

CONSTANTS
    Clients,         \* goroutines, each with one batch at a time
    Opener,          \* the one that opens a tree (NewSparseMerkleTree)
    Engines,         \* subset of {"memorydb", "badgerdb"}
    Keys, Values, NoValue,
    Defaults,        \* keys of the tree's default nodes, from the root down
    Marker,          \* initMarker
    BatchSize,       \* operations a WriteBatch holds
    MaxCalls,        \* bound on the calls made
    MaxFailures      \* bound on crashes and failed writes

NoOne == "no one"

ASSUME StoreAssumption ==
    /\ Opener \in Clients /\ NoOne \notin Clients
    /\ Keys \subseteq Nat
    /\ NoValue \notin Values /\ Values # {}
    /\ Defaults \in Seq(Keys) /\ Marker \in Keys \ Range(Defaults)
    /\ BatchSize \in Nat \ {0}
    /\ MaxCalls \in Nat /\ MaxFailures \in Nat

VARIABLES
    engine,          \* the implementation in use
    db,              \* the map, or badger's database
    lock,            \* memorydb: who holds DB.lock, or NoOne
    batch,           \* the Transaction or Bulk of each client
    seen,            \* what each client's last Get returned
    opening,         \* what the Opener has still to put in its Bulk
    calls, failures  \* to bound them

vars == <<engine, db, lock, batch, seen, opening, calls, failures>>

Nil == -1

Op(key, value) == [key |-> key, value |-> value]
After(table, op) == [table EXCEPT ![op.key] = op.value]

(* One after the other; of those on the same key the last counts.          *)
AfterAll(table, ops) ==
    [k \in DOMAIN table |->
        LET on == {i \in DOMAIN ops : ops[i].key = k}
        IN  IF on = {} THEN table[k] ELSE ops[Max(on)].value]

(* isDiscard, isCommit; left is what Commit or Flush has still to apply.   *)
NoBatch == [kind |-> "none", ops |-> <<>>, isDiscard |-> FALSE, isCommit |-> FALSE, left |-> <<>>]

(* The keys the other clients use.                                         *)
OtherKeys == Keys \ (Range(Defaults) \cup {Marker})

TheValue == CHOOSE v \in Values : TRUE

(* Variant: the marker goes in first.                                      *)
TreeOpsMarkerFirst == <<Op(Marker, TheValue)>> \o [i \in DOMAIN Defaults |-> Op(Defaults[i], TheValue)]

(* The default nodes, then initMarker.                                     *)
TreeOps == [i \in DOMAIN Defaults |-> Op(Defaults[i], TheValue)] \o <<Op(Marker, TheValue)>>

Init ==
    /\ engine \in Engines
    /\ db = [k \in Keys |-> NoValue]
    /\ lock = NoOne
    /\ batch = [c \in Clients |-> NoBatch]
    /\ seen = [c \in Clients |-> NoValue]
    /\ opening = <<>>
    /\ calls = 0
    /\ failures = 0

(* A client that is not in the middle of a Commit makes a call.            *)
Call(c) ==
    /\ lock # c
    /\ calls < MaxCalls
    /\ calls' = calls + 1
    /\ UNCHANGED <<engine, failures>>

Unlocked == lock = NoOne

Fail ==
    /\ failures < MaxFailures
    /\ failures' = failures + 1
    /\ UNCHANGED <<engine, calls>>

-----------------------------------------------------------------------------
(* DB *)

(* Set, and Delete when v is NoValue.                                      *)
Set(c, k, v) ==
    /\ Call(c)
    /\ Unlocked
    /\ db' = After(db, Op(k, v))
    /\ UNCHANGED <<lock, batch, seen, opening>>

(* Variant: Get does not take the lock.                                    *)
GetUnlocked(c, k) ==
    /\ Call(c)
    /\ seen' = [seen EXCEPT ![c] = db[k]]
    /\ UNCHANGED <<db, lock, batch, opening>>

(* Get; Exist says whether it would find something.                        *)
Get(c, k) ==
    /\ Call(c)
    /\ Unlocked
    /\ seen' = [seen EXCEPT ![c] = db[k]]
    /\ UNCHANGED <<db, lock, batch, opening>>

-----------------------------------------------------------------------------
(* Transaction and Bulk *)

NewBatch(c, kind) ==
    /\ Call(c)
    /\ batch[c].kind = "none"
    /\ batch' = [batch EXCEPT ![c] = [NoBatch EXCEPT !.kind = kind]]
    /\ UNCHANGED <<db, lock, seen, opening>>

(* badger takes nothing more after a commit or a discard, memorydb does    *)
(* but will not commit it.                                                 *)
Over(b) == b.isCommit \/ b.isDiscard

Full(b) == b.kind = "bulk" /\ Len(b.ops) >= BatchSize

HasRoom(c) ==
    /\ batch[c].kind # "none"
    /\ engine = "badgerdb" => ~Over(batch[c]) /\ ~Full(batch[c])

(* Set and Delete of either kind.                                          *)
Collect(c, op) ==
    /\ Call(c)
    /\ HasRoom(c)
    /\ batch' = [batch EXCEPT ![c].ops = Append(@, op)]
    /\ UNCHANGED <<db, lock, seen, opening>>

(* WriteBatch: what it has is committed when there is no room for more.    *)
CommitFull(c) ==
    /\ engine = "badgerdb"
    /\ Full(batch[c])
    /\ ~Over(batch[c])
    /\ db' = AfterAll(db, batch[c].ops)
    /\ batch' = [batch EXCEPT ![c].ops = <<>>]
    /\ UNCHANGED <<engine, lock, seen, opening, calls, failures>>

(* A Commit or Flush that is allowed to.                                   *)
MayCommit(c) ==
    /\ batch[c].kind # "none"
    /\ ~Over(batch[c])
    /\ c = Opener => opening = <<>>

(* Commit and Flush of badger: one transaction, or the WriteBatch's last.  *)
CommitBadger(c) ==
    /\ Call(c)
    /\ engine = "badgerdb"
    /\ MayCommit(c)
    /\ db' = AfterAll(db, batch[c].ops)
    /\ batch' = [batch EXCEPT ![c].isCommit = TRUE, ![c].ops = <<>>]
    /\ UNCHANGED <<lock, seen, opening>>

(* badger could not write: the callers return the error.                   *)
CommitFails(c) ==
    /\ Fail
    /\ engine = "badgerdb"
    /\ MayCommit(c)
    /\ batch' = [batch EXCEPT ![c] = NoBatch]
    /\ UNCHANGED <<db, lock, seen, opening>>

(* Commit and Flush of memorydb: refused after a Discard and when done     *)
(* before; then the mutex is taken,                                        *)
Commit(c) ==
    /\ Call(c)
    /\ engine = "memorydb"
    /\ MayCommit(c)
    /\ Unlocked
    /\ lock' = c
    /\ batch' = [batch EXCEPT ![c].left = batch[c].ops]
    /\ UNCHANGED <<db, seen, opening>>

(* the operations are applied in their order,                              *)
ApplyOp(c) ==
    /\ lock = c
    /\ batch[c].left # <<>>
    /\ db' = After(db, Head(batch[c].left))
    /\ batch' = [batch EXCEPT ![c].left = Tail(@)]
    /\ UNCHANGED <<engine, lock, seen, opening, calls, failures>>

(* and the mutex released.                                                 *)
Committed(c) ==
    /\ lock = c
    /\ batch[c].left = <<>>
    /\ batch' = [batch EXCEPT ![c].isCommit = TRUE]
    /\ lock' = NoOne
    /\ UNCHANGED <<engine, db, seen, opening, calls, failures>>

(* Discard, DiscardLast: of a Bulk of badger only what is not committed.   *)
Discard(c) ==
    /\ Call(c)
    /\ batch[c].kind # "none"
    /\ batch' = [batch EXCEPT ![c].isDiscard = TRUE]
    /\ UNCHANGED <<db, lock, seen, opening>>

(* The client is done with its batch.                                      *)
Forget(c) ==
    /\ lock # c
    /\ batch[c].kind # "none"
    /\ c = Opener => Over(batch[c])
    /\ batch' = [batch EXCEPT ![c] = NoBatch]
    /\ UNCHANGED <<engine, db, lock, seen, opening, calls, failures>>

-----------------------------------------------------------------------------
(* NewSparseMerkleTree *)

OpenTree ==
    /\ Call(Opener)
    /\ batch[Opener].kind = "none"
    /\ Unlocked
    /\ db[Marker] = NoValue
    /\ batch' = [batch EXCEPT ![Opener] = [NoBatch EXCEPT !.kind = "bulk"]]
    /\ opening' = TreeOps
    /\ UNCHANGED <<db, lock, seen>>

PutNext ==
    /\ opening # <<>>
    /\ HasRoom(Opener)
    /\ batch' = [batch EXCEPT ![Opener].ops = Append(@, Head(opening))]
    /\ opening' = Tail(opening)
    /\ UNCHANGED <<engine, db, lock, seen, calls, failures>>

(* A failed Set of a default node ends it; the error of the marker's Set   *)
(* is overwritten by Flush's.                                              *)
PutFails ==
    /\ Fail
    /\ engine = "badgerdb"
    /\ opening # <<>>
    /\ \/ /\ Head(opening).key = Marker
          /\ opening' = Tail(opening)
          /\ UNCHANGED batch
       \/ /\ Head(opening).key # Marker
          /\ opening' = <<>>
          /\ batch' = [batch EXCEPT ![Opener] = NoBatch]
    /\ UNCHANGED <<db, lock, seen>>

(* The process ends; badger's database stays.                              *)
Crash ==
    /\ Fail
    /\ engine = "badgerdb"
    /\ batch' = [c \in Clients |-> NoBatch]
    /\ seen' = [c \in Clients |-> NoValue]
    /\ opening' = <<>>
    /\ UNCHANGED <<db, lock>>

Next ==
    \/ \E c \in Clients :
          \/ \E k \in OtherKeys, v \in Values \cup {NoValue} : Set(c, k, v)
          \/ \E k \in Keys : Get(c, k)
          \/ CommitFull(c)
          \/ CommitBadger(c)
          \/ CommitFails(c)
          \/ Commit(c)
          \/ ApplyOp(c)
          \/ Committed(c)
          \/ Forget(c)
    \/ \E c \in Clients \ {Opener} :
          \/ \E kind \in {"tx", "bulk"} : NewBatch(c, kind)
          \/ \E k \in OtherKeys, v \in Values \cup {NoValue} : Collect(c, Op(k, v))
          \/ Discard(c)
    \/ OpenTree
    \/ PutNext
    \/ PutFails
    \/ Crash

Spec == Init /\ [][Next]_vars

-----------------------------------------------------------------------------
(* Iterators, which nothing in the program uses yet.  badger's Seek and    *)
(* Next, and Valid, go from the first key that is not before start (after  *)
(* it, in reverse) to end.                                                 *)

Reversed(start, end) == start > end

Present == { k \in Keys : db[k] # NoValue }

Before(a, b, reverse) == IF reverse THEN a > b ELSE a < b

(* The keys of S in order: at place i the one that i - 1 come before.      *)
Sorted(S, reverse) ==
    [i \in 1..Cardinality(S) |-> CHOOSE k \in S : Cardinality({j \in S : Before(j, k, reverse)}) = i - 1]

(* Variant: end is in the range of a reverse scan.                         *)
isKeyInRangeClosed(key, start, end, reverse) ==
    IF reverse
    THEN (start # Nil => start >= key) /\ (end # Nil => key >= end)
    ELSE key >= start /\ (end # Nil => end > key)

isKeyInRange(key, start, end, reverse) ==
    IF reverse
    THEN (start # Nil => start >= key) /\ (end # Nil => key > end)
    ELSE key >= start /\ (end # Nil => end > key)

MemoryScan(start, end) ==
    LET reverse == Reversed(start, end) IN
    Sorted({ k \in Present : isKeyInRange(k, start, end, reverse) }, reverse)

BadgerScan(start, end) ==
    LET reverse == Reversed(start, end)
        order == Sorted(Present, reverse)
        Sought(k) == IF reverse THEN k <= start ELSE k >= start
        Beyond(k) == end # Nil /\ IF reverse THEN k <= end ELSE end <= k
        seek == SelectInSeq(order, Sought)
        rest == IF seek = 0 THEN <<>> ELSE SubSeq(order, seek, Len(order))
        stop == SelectInSeq(rest, Beyond) IN
    IF stop = 0 THEN rest ELSE SubSeq(rest, 1, stop - 1)

-----------------------------------------------------------------------------
(* Properties *)

(* What a Commit of memorydb still has to apply counts as applied once it  *)
(* holds the mutex, and the batch as gone.                                 *)
Table == IF lock = NoOne THEN db ELSE AfterAll(db, batch[lock].left)

Collected(c) ==
    IF batch[c].kind = "none" \/ Over(batch[c]) \/ lock = c
    THEN [bulk |-> FALSE, ops |-> <<>>]
    ELSE [bulk |-> batch[c].kind = "bulk", ops |-> batch[c].ops]

(* Both engines keep the promise of db.DB: a reader never sees a part of a *)
(* transaction, a batch is applied at most once and never after a discard, *)
(* and a crash of badger loses what was not committed and nothing else.    *)
Promise == INSTANCE AtomicStore WITH state <- Table, batch <- [c \in Clients |-> Collected(c)]

KeepsPromise == Promise!Spec

(* A tree that is opened and finds initMarker finds every default node,    *)
(* though badger may have committed the Bulk in parts and the process may  *)
(* have ended, or a write failed, between them.                            *)
MarkerMeansDefaults ==
    Unlocked /\ db[Marker] # NoValue => \A i \in DOMAIN Defaults : db[Defaults[i]] # NoValue

(* An iterator of either engine goes through the same keys.                *)
ScansAgree ==
    \A start \in Keys \cup {Nil}, end \in Keys \cup {Nil} : MemoryScan(start, end) = BadgerScan(start, end)

=============================================================================
