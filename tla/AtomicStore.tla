---------------------------- MODULE AtomicStore -----------------------------
(***************************************************************************)
(* What db.DB promises its callers: a table; single writes and reads that  *)
(* are of the whole table at one moment; transactions, which change        *)
(* nothing until they are committed, then everything at once, and only     *)
(* once; and bulks, of which a first part may be committed ahead.          *)
(***************************************************************************)
EXTENDS Integers, Sequences, SequencesExt

CONSTANTS Clients, Keys, Values, NoValue

VARIABLES
    state,           \* the value of each key, or NoValue
    batch,           \* the operations each client has collected
    seen             \* what each client read last

vars == <<state, batch, seen>>

(* An operation is a key and its new value; NoValue deletes.               *)
Ops == [key : Keys, value : Values \cup {NoValue}]

After(table, op) == [table EXCEPT ![op.key] = op.value]

(* Of several operations on a key the last counts.                         *)
AfterAll(table, ops) ==
    [k \in DOMAIN table |->
        LET on == {i \in DOMAIN ops : ops[i].key = k}
        IN  IF on = {} THEN table[k] ELSE ops[Max(on)].value]

Empty == [bulk |-> FALSE, ops |-> <<>>]

Init ==
    /\ state = [k \in Keys |-> NoValue]
    /\ batch = [c \in Clients |-> Empty]
    /\ seen = [c \in Clients |-> NoValue]

Write(op) == state' = After(state, op) /\ UNCHANGED <<batch, seen>>

Read(c, k) == seen' = [seen EXCEPT ![c] = state[k]] /\ UNCHANGED <<state, batch>>

Begin(c, bulk) ==
    /\ batch[c] = Empty
    /\ batch' = [batch EXCEPT ![c].bulk = bulk]
    /\ UNCHANGED <<state, seen>>

Collect(c, op) ==
    /\ batch' = [batch EXCEPT ![c].ops = Append(@, op)]
    /\ UNCHANGED <<state, seen>>

Commit(c) ==
    /\ state' = AfterAll(state, batch[c].ops)
    /\ batch' = [batch EXCEPT ![c] = Empty]
    /\ UNCHANGED seen

CommitPart(c) ==
    /\ batch[c].bulk
    /\ state' = AfterAll(state, batch[c].ops)
    /\ batch' = [batch EXCEPT ![c].ops = <<>>]
    /\ UNCHANGED seen

Abandon(c) == batch' = [batch EXCEPT ![c] = Empty] /\ UNCHANGED <<state, seen>>

(* The process ends: what was committed is there, what was collected not.  *)
Crash ==
    /\ batch' = [c \in Clients |-> Empty]
    /\ seen' = [c \in Clients |-> NoValue]
    /\ UNCHANGED state

Next ==
    \/ \E op \in Ops : Write(op)
    \/ \E c \in Clients :
          \/ \E k \in Keys : Read(c, k)
          \/ \E bulk \in BOOLEAN : Begin(c, bulk)
          \/ \E op \in Ops : Collect(c, op)
          \/ Commit(c)
          \/ CommitPart(c)
          \/ Abandon(c)
    \/ Crash

Spec == Init /\ [][Next]_vars
=============================================================================
