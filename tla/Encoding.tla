------------------------------ MODULE Encoding ------------------------------
(***************************************************************************)
(* How a transition and a block travel over a chain and into the tables:   *)
(* ABI encoded.  Serialize packs the fields of a transition by position,   *)
(* Deserialize reads them back by the names of the argument list; the two  *)
(* lists of a type are written down in different functions, and most of    *)
(* their fields have the same type, uint256.                               *)
(*                                                                         *)
(* Encoded data is the sequence of its words.  A word is the value it      *)
(* stands for; signatures, which nothing here reads, are left out.         *)
(***************************************************************************)
EXTENDS Transitions

TypeNames == <<"createAndDeposit", "deposit", "withdraw", "createAndTransfer", "transfer">>

(* The type is packed as its number, counted from 0.                       *)
TypeNumber(type) == (CHOOSE i \in DOMAIN TypeNames : TypeNames[i] = type) - 1

(* The position of each field in what Serialize packs ...                  *)
CreateAndDepositPacked ==
    <<"transitionType", "stateRoot", "accountSlotIndex", "account", "tokenIndex", "amount">>
DepositPacked ==
    <<"transitionType", "stateRoot", "accountSlotIndex", "tokenIndex", "amount">>
WithdrawPacked ==
    <<"transitionType", "stateRoot", "accountSlotIndex", "tokenIndex", "amount", "nonce">>
CreateAndTransferPacked ==
    <<"transitionType", "stateRoot", "senderSlotIndex", "recipientSlotIndex", "recipient",
      "tokenIndex", "amount", "nonce">>
(* Variant: two slots, both uint256, packed the wrong way round.           *)
TransferPackedRecipientFirst ==
    <<"transitionType", "stateRoot", "recipientSlotIndex", "senderSlotIndex",
      "tokenIndex", "amount", "nonce">>

TransferPacked ==
    <<"transitionType", "stateRoot", "senderSlotIndex", "recipientSlotIndex",
      "tokenIndex", "amount", "nonce">>

Packed(type) ==
    CASE type = "createAndDeposit"  -> CreateAndDepositPacked
      [] type = "deposit"           -> DepositPacked
      [] type = "withdraw"          -> WithdrawPacked
      [] type = "createAndTransfer" -> CreateAndTransferPacked
      [] type = "transfer"          -> TransferPacked

(* ... and in the argument list by which Unpack fills the struct.          *)
CreateAndDepositArguments ==
    <<"transitionType", "stateRoot", "accountSlotIndex", "account", "tokenIndex", "amount">>
DepositArguments ==
    <<"transitionType", "stateRoot", "accountSlotIndex", "tokenIndex", "amount">>
WithdrawArguments ==
    <<"transitionType", "stateRoot", "accountSlotIndex", "tokenIndex", "amount", "nonce">>
CreateAndTransferArguments ==
    <<"transitionType", "stateRoot", "senderSlotIndex", "recipientSlotIndex", "recipient",
      "tokenIndex", "amount", "nonce">>
TransferArguments ==
    <<"transitionType", "stateRoot", "senderSlotIndex", "recipientSlotIndex",
      "tokenIndex", "amount", "nonce">>

Arguments(type) ==
    CASE type = "createAndDeposit"  -> CreateAndDepositArguments
      [] type = "deposit"           -> DepositArguments
      [] type = "withdraw"          -> WithdrawArguments
      [] type = "createAndTransfer" -> CreateAndTransferArguments
      [] type = "transfer"          -> TransferArguments

(* The field of a transition by its name in the code.                      *)
Field(transition, name) ==
    CASE name = "transitionType" -> TypeNumber(transition.type)
      [] name = "stateRoot"      -> transition.root
      [] name \in {"accountSlotIndex", "senderSlotIndex"} -> transition.slots[1]
      [] name = "recipientSlotIndex" -> transition.slots[2]
      [] name \in {"account", "recipient"} -> CHOOSE a \in transition.names : TRUE
      [] name = "tokenIndex"     -> transition.tokenIndex
      [] name = "amount"         -> transition.amount
      [] name = "nonce"          -> transition.nonce

Serialize(transition) ==
    [i \in DOMAIN Packed(transition.type) |-> Field(transition, Packed(transition.type)[i])]

(* A transition has what its type packs and nothing else.                  *)
Encodable(transition) ==
    /\ transition = [type |-> transition.type, root |-> transition.root,
                     slots |-> transition.slots, names |-> transition.names,
                     tokenIndex |-> transition.tokenIndex, amount |-> transition.amount,
                     nonce |-> transition.nonce]
    /\ \E i \in DOMAIN TypeNames : TypeNames[i] = transition.type
    /\ LET two == transition.type \in {"createAndTransfer", "transfer"}
       IN  transition.slots = IF two THEN <<transition.slots[1], transition.slots[2]>>
                                     ELSE <<transition.slots[1]>>
    /\ IF transition.type \in {"createAndDeposit", "createAndTransfer"}
       THEN \E a \in transition.names : transition.names = {a}
       ELSE transition.names = {}
    /\ transition.type \in {"createAndDeposit", "deposit"} => transition.nonce = 0

(* DeserializeTransition looks at the first word for the type, and each of *)
(* the five functions behind it fills the fields its type has.             *)
DeserializeTransition(data) ==
    LET type    == TypeNames[data[1] + 1]
        args    == Arguments(type)
        Word(n) == data[CHOOSE i \in DOMAIN args : args[i] = n]
    IN  [type  |-> type,
         root  |-> Word("stateRoot"),
         slots |-> IF type \in {"createAndTransfer", "transfer"}
                   THEN <<Word("senderSlotIndex"), Word("recipientSlotIndex")>>
                   ELSE <<Word("accountSlotIndex")>>,
         names |-> CASE type = "createAndDeposit"  -> {Word("account")}
                     [] type = "createAndTransfer" -> {Word("recipient")}
                     [] OTHER -> {},
         tokenIndex |-> Word("tokenIndex"),
         amount |-> Word("amount"),
         nonce  |-> IF type \in {"createAndDeposit", "deposit"} THEN 0 ELSE Word("nonce")]

SerializeBlock(block) ==
    [number |-> block.number,
     transitions |-> [i \in DOMAIN block.transitions |-> Serialize(block.transitions[i])]]

DeserializeBlock(data) ==
    [number |-> data.number,
     transitions |-> [i \in DOMAIN data.transitions |->
                         DeserializeTransition(data.transitions[i])]]
=============================================================================
