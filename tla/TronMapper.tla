----------------------------- MODULE TronMapper -----------------------------
(***************************************************************************)
(* How one Tron transaction, as the node and its list of token transfers   *)
(* tell it, becomes an entry of the history: what kind it is, who gave and *)
(* got what, its status and fees, and whether it is hidden as spam.        *)
(***************************************************************************)
EXTENDS Integers, Sequences, SequencesExt, FiniteSets, FiniteSetsExt

CONSTANTS
    Parties, Me,    \* addresses, and that of the account
    Tokens,         \* TRC-20 tokens
    Dust            \* TRX received below this is spam

TronMapperAssumption ==
    /\ IsFiniteSet(Parties) /\ Me \in Parties /\ IsFiniteSet(Tokens) /\ Dust \in Nat
    /\ Tokens \cap {"trx", "trc10", "staked"} = {}

VARIABLES given, entry

mapperVars == <<given, entry>>

Nothing  == [type |-> "nothing"]
NoParty  == "nobody"
SmartContract == "TriggerSmartContract"

\* contract: its type; internal: the TRX that moves inside of the call, which the list often leaves out
\* and the full transaction has; transfers: the token transfers listed for it; alone: only those are listed;
\* priced: the assets with a price, or NoPrices when the request failed.
NoPrices == {"no prices"}
Given ==
    [contract  : {"TransferContract", "TransferAssetContract", "FreezeBalance", "UnfreezeBalance",
                  SmartContract, "other", "none"},
     owner     : Parties, target : Parties, amount : Nat,
     resource  : {"ENERGY", "BANDWIDTH", "none"},
     block     : BOOLEAN, ret : {"SUCCESS", "REVERT", "none"}, paid : Nat,
     internal  : SUBSET [from : Parties, to : Parties, value : Nat],
     listed    : BOOLEAN, found : BOOLEAN,
     transfers : Seq([type : {"Transfer", "Approval"}, from : Parties, to : Parties, token : Tokens, value : Nat]),
     alone     : BOOLEAN,
     priced    : SUBSET (Tokens \cup {"trc10"}) \cup {NoPrices}]

------------------------------------------------------------------------------
\* The full transaction is asked for when a call with value shows nothing moving inside; when that fails
\* the entry is built from what is there.
enrichPotentialSwaps ==
    IF given.listed THEN given.internal
    ELSE IF given.contract = SmartContract /\ given.amount > 0 /\ given.found THEN given.internal ELSE {}

computeTransactionStatus ==
    IF ~given.block THEN "unconfirmed" ELSE IF given.ret = "REVERT" THEN "failed" ELSE "confirmed"

computeTransactionType(from, to, trc20Type) ==
    IF trc20Type = "Approval" THEN "token:approve"
    ELSE IF from = Me /\ to = Me THEN "swap"
    ELSE IF from = Me THEN "send"
    ELSE IF to = Me THEN "receive" ELSE "unknown"

calculateTronFees == IF given.paid > 0 THEN {given.paid} ELSE {}

Move(party, asset, amount) == [address |-> party, asset |-> asset, amount |-> amount]
Entry(type, from, to, status, fees) ==
    [type |-> type, from |-> from, to |-> to, status |-> status, fees |-> fees]

mapTransferContract ==
    Entry(computeTransactionType(given.owner, given.target, "none"),
          <<Move(given.owner, "trx", given.amount)>>, <<Move(given.target, "trx", given.amount)>>,
          computeTransactionStatus, calculateTronFees)

mapTransferAssetContract ==
    Entry(computeTransactionType(given.owner, given.target, "none"),
          <<Move(given.owner, "trc10", given.amount)>>, <<Move(given.target, "trc10", given.amount)>>,
          computeTransactionStatus, calculateTronFees)

\* Without a resource it is not told what was staked; the status is not looked at.
mapFreezeBalanceContract ==
    IF given.resource = "none" THEN Nothing
    ELSE Entry("stake:deposit", <<Move(given.owner, "trx", given.amount)>>,
               <<Move(given.owner, "staked", given.amount)>>, "confirmed", calculateTronFees)

mapUnfreezeBalanceContract ==
    IF given.resource = "none" THEN Nothing
    ELSE Entry("stake:withdraw", <<Move(given.owner, "staked", given.amount)>>,
               <<Move(given.owner, "trx", given.amount)>>, "confirmed", calculateTronFees)

First(Test(_)) == SelectSeq(given.transfers, Test)
Sent     == First(LAMBDA t : t.type = "Transfer" /\ t.from = Me)
Received == First(LAMBDA t : t.type = "Transfer" /\ t.to = Me)

hasTrxMovementInTransaction(internal) == \E i \in internal : i.value > 0 /\ Me \in {i.from, i.to}
hasAnyInternalTrxMovement(internal)   == \E i \in internal : i.value > 0

mapSwapTransaction ==
    Entry("swap", <<Move(Sent[1].from, Sent[1].token, Sent[1].value)>>,
          <<Move(Received[1].to, Received[1].token, Received[1].value)>>,
          computeTransactionStatus, calculateTronFees)

\* The TRX given: what the call carried, else what the account moved inside of it, else all that moved.
swappedTrx(internal) ==
    LET own == {i.value : i \in {j \in internal : j.from = Me /\ j.value > 0}}
    IN  IF given.amount > 0 THEN {given.amount}
        ELSE IF own # {} THEN own
        ELSE {MapThenSumSet(LAMBDA i : i.value, internal)}

mapTrxToTrc20Swap(internal) ==
    Entry("swap", <<Move(Me, "trx", CHOOSE n \in swappedTrx(internal) : TRUE)>>,
          <<Move(Me, Received[1].token, Received[1].value)>>, computeTransactionStatus, calculateTronFees)

mapFirstTransfer ==
    LET t == given.transfers[1]
    IN  Entry(computeTransactionType(t.from, t.to, t.type), <<Move(t.from, t.token, t.value)>>,
              <<Move(t.to, t.token, t.value)>>, computeTransactionStatus, calculateTronFees)

mapTriggerSmartContract(internal) ==
    IF computeTransactionStatus = "failed" THEN Entry("unknown", <<>>, <<>>, "failed", calculateTronFees)
    ELSE IF given.transfers = <<>> /\ given.amount = 0 THEN Nothing
    ELSE IF given.transfers = <<>>
    THEN Entry("send", <<Move(given.owner, "trx", given.amount)>>, <<Move(given.target, "trx", given.amount)>>,
               computeTransactionStatus, calculateTronFees)
    ELSE IF Sent # <<>> /\ Received # <<>> /\ Sent[1].token # Received[1].token THEN mapSwapTransaction
    ELSE IF /\ Received # <<>> /\ Sent = <<>>
            /\ \/ hasTrxMovementInTransaction(internal) \/ given.amount > 0
               \/ hasAnyInternalTrxMovement(internal)
    THEN mapTrxToTrc20Swap(internal)
    ELSE mapFirstTransfer

mapTransaction(internal) ==
    CASE given.contract = "TransferContract"      -> mapTransferContract
      [] given.contract = "TransferAssetContract" -> mapTransferAssetContract
      [] given.contract = "FreezeBalance"         -> mapFreezeBalanceContract
      [] given.contract = "UnfreezeBalance"       -> mapUnfreezeBalanceContract
      [] given.contract = SmartContract           -> mapTriggerSmartContract(internal)
      [] OTHER                                    -> Nothing

\* Tokens that came without the account asking: the first transfer stands for the transaction.
mapTrc20OnlyTransaction ==
    LET t == given.transfers[1]
    IN  Entry(computeTransactionType(t.from, t.to, t.type), <<Move(t.from, t.token, t.value)>>,
              <<Move(t.to, t.token, t.value)>>, "confirmed", {})

mapTransactions ==
    LET mapped == IF given.alone THEN Nothing ELSE mapTransaction(enrichPotentialSwaps)
    IN  IF mapped = Nothing /\ given.transfers # <<>> THEN mapTrc20OnlyTransaction ELSE mapped

\* Spam: a little TRX, or tokens of which none has a price.
ToMe(tx, Assets) == {i \in DOMAIN tx.to : tx.to[i].address = Me /\ tx.to[i].asset \in Assets}

isTrxAmountLowerThanThreshold(tx) ==
    /\ tx.type = "receive" /\ ToMe(tx, {"trx"}) # {}
    /\ MapThenSumSet(LAMBDA i : tx.to[i].amount, ToMe(tx, {"trx"})) < Dust

\* Only asked for, and only failing, when a token was received; nothing is spam when that failed.
fetchSpotPricesForTokens(tx) ==
    IF tx.type = "receive" /\ ToMe(tx, Tokens \cup {"trc10"}) # {} THEN given.priced ELSE {}

isUnpricedReceivedToken(tx, prices) ==
    /\ prices # NoPrices /\ tx.type = "receive"
    /\ ToMe(tx, Tokens \cup {"trc10"}) # {}
    /\ \A i \in ToMe(tx, Tokens \cup {"trc10"}) : tx.to[i].asset \notin prices

isSpam(tx) == isTrxAmountLowerThanThreshold(tx) \/ isUnpricedReceivedToken(tx, fetchSpotPricesForTokens(tx))

NotYet == [type |-> "not yet"]

Map ==
    /\ entry = NotYet
    /\ entry' = IF mapTransactions = Nothing \/ isSpam(mapTransactions) THEN Nothing ELSE mapTransactions
    /\ UNCHANGED given

Next == Map

------------------------------------------------------------------------------
Told == entry \notin {NotYet, Nothing}
Paid == given.owner = Me /\ ~given.alone

\* The history never shows the account giving what it did not: a send or a swap of a token was sent by the
\* account, a receipt came to it, and what cost the account a fee is never hidden as spam.
DirectionTold ==
    /\ Told /\ entry.type = "receive" => entry.to[1].address = Me /\ entry.from[1].address # Me
    /\ Told /\ entry.type = "swap" /\ entry.from[1].asset \in Tokens =>
          /\ \E i \in DOMAIN given.transfers : given.transfers[i].from = Me /\ given.transfers[i].token = entry.from[1].asset
          /\ entry.to[1].address = Me
    /\ entry = Nothing /\ Paid /\ given.contract \in {"TransferContract", "TransferAssetContract"} => given.target = Me

\* What did not happen is not shown as having happened: a transfer or call that failed is shown as
\* failed, one without a block as unconfirmed, unless its tokens arrived. (Stakes are always shown as confirmed.)
StatusTold ==
    Told /\ given.contract \notin {"FreezeBalance", "UnfreezeBalance"} =>
        \/ entry.status = computeTransactionStatus
        \/ entry.status = "confirmed" /\ entry.fees = {} /\ given.transfers # <<>>

\* "TRX moves in the opposite direction": an entry that is a swap of TRX for a token was paid in TRX.
SwapWasPaid ==
    Told /\ entry.type = "swap" /\ entry.from[1].asset = "trx" /\ entry.to[1].asset \in Tokens =>
        \/ Paid /\ given.amount > 0
        \/ \E i \in given.internal : i.from = Me /\ i.value > 0

==============================================================================
