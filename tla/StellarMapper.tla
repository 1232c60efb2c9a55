---------------------------- MODULE StellarMapper ----------------------------
(***************************************************************************)
(* What the wallet shows of a Stellar transaction. Of one of the ledger it *)
(* makes an entry of the account's history: what its result and its        *)
(* contract events say is read as far as it can be (xdrParser), its shape  *)
(* is classified (utils), and the entry is built or, when the wallet saved *)
(* one before, brought up to date (TransactionMapper,                      *)
(* KeyringTransactionBuilder). Of one that is to be signed it shows rows   *)
(* of named values for every operation, and every call that the signature  *)
(* authorises contracts to make (OperationMapper, AuthorizationMapper);    *)
(* values are members of small sets, wording and layout are left out.      *)
(***************************************************************************)
EXTENDS Integers, Sequences, SequencesExt, FiniteSets

CONSTANTS Me,       \* the account whose history it is
          Native,
          Dust,     \* payments of at most so much of the native asset are spam
          Known,    \* contract tokens whose metadata the wallet has
          Nothing,  \* no amount, no asset, no saved entry
          NoSource,   \* an operation that names no source
          Undefined,  \* an option that is not set
          Broken      \* an address or a name that cannot be read

StellarMapperAssumption == Dust \in Nat /\ Native # Nothing

VARIABLES given,  \* a transaction of the ledger and the entry the wallet has of it
          entry,  \* the entry of the history
          proposed,  \* a transaction that is to be signed
          shown      \* what the dialog shows of it, <<>> before

mapperVars   == <<given, entry>>
readableVars == <<proposed, shown>>

tx    == given.tx
Ops   == tx.ops
Paths == {"path send", "path receive"}

------------------------------------------------------------------------------
\* What the ledger says of each operation, as the parsers read it.
\* The last hop's receiver of a strict send, the first offer's seller of a strict receive.
extractLastReceiveSide(result)    == result.last
extractFirstOfferSendSide(result) == IF result.offers = <<>> \/ result.last = Nothing THEN Nothing ELSE Head(result.offers)

\* An operation's amount by its result; Nothing for what is no path payment, failed or is not understood.
OperationResult(result) ==
    CASE result.type = "path send"    -> extractLastReceiveSide(result)
      [] result.type = "path receive" -> extractFirstOfferSendSide(result)
      [] OTHER                        -> Nothing

\* No results of a failed transaction, of a garbled one, and of one with another number of operations.
SuccessfulResults ==
    IF tx.failed \/ tx.result = "none" \/ Len(tx.results) # Len(Ops) THEN [i \in DOMAIN Ops |-> Nothing]
    ELSE [i \in DOMAIN Ops |-> OperationResult(tx.results[i])]

extractSwapDestOrSourceAmount(i, default) == IF SuccessfulResults[i] = Nothing THEN default ELSE SuccessfulResults[i]

\* A transfer to the account among the events of a contract; one that cannot be read is passed over.
TransfersToMe == SelectSeq(tx.events, LAMBDA e : e.name = "transfer" /\ e.to = Me /\ e.asset # Nothing)

------------------------------------------------------------------------------
\* What kind of transaction it is to the account.
isSource       == tx.source = Me
isSend         == isSource /\ \A i \in DOMAIN Ops : Ops[i].type \in {"payment", "create"}
isTrust(limit) == isSource /\ \A i \in DOMAIN Ops : Ops[i].type = "trust" /\ (Ops[i].amount = 0) = (limit = "zero")
isReceive(op)  == op.type \in {"payment", "create"} \cup Paths /\ op.dest = Me
isDust         == ~isSource /\ \E i \in DOMAIN Ops :
                    Ops[i].type = "payment" /\ Ops[i].dest = Me /\ Ops[i].asset = Native /\ Ops[i].amount <= Dust

\* The shapes a swap may have: a path payment, perhaps after a new line and before the fee's payment.
SwapShape ==
    LET types == [i \in DOMAIN Ops |-> IF Ops[i].type \in Paths THEN "path" ELSE Ops[i].type]
    IN  types \in {<<"invoke">>, <<"payment">>, <<"path">>, <<"path", "payment">>, <<"trust", "path">>,
                   <<"payment", "payment">>, <<"trust", "path", "payment">>}

isSwap == SwapShape /\ isSource /\ \E i \in DOMAIN Ops : Ops[i].type \in Paths /\ Ops[i].dest = Me

------------------------------------------------------------------------------
\* The entries that the builder makes.
Status == IF tx.failed THEN "failed" ELSE "confirmed"

Entry(type, from, to, give, given_, get, got) ==
    [type |-> type, from |-> from, to |-> to, give |-> give, given |-> given_, get |-> get, got |-> got,
     status |-> Status, events |-> <<Status>>]

Hidden  == [type |-> "hidden"]
Unknown == Entry("unknown", Nothing, Nothing, Nothing, Nothing, Nothing, Nothing)

mapSend == LET op == Ops[1] IN Entry("send", Me, op.dest, op.asset, op.amount, op.asset, op.amount)

SwapIndex == SelectInSeq(Ops, LAMBDA op : op.type \in Paths)

\* What was sent and received: the transaction's own bound unless the result says better.
mapSwap ==
    LET i  == SwapIndex
        op == Ops[i]
        sent     == IF op.type = "path send" THEN op.amount ELSE extractSwapDestOrSourceAmount(i, op.amount)
        received == IF op.type = "path send" THEN extractSwapDestOrSourceAmount(i, op.out) ELSE op.out
    IN  Entry("swap", Me, op.dest, op.asset, sent, op.out_asset, received)

\* A line of a liquidity pool is no asset: mapping it fails.
mapTrust(type) ==
    IF Ops[1].pool THEN Unknown ELSE Entry(type, Me, Me, Ops[1].asset, 0, Ops[1].asset, 0)

ReceivedAmount(i) ==
    CASE Ops[i].type = "path send"    -> extractSwapDestOrSourceAmount(i, Ops[i].out)
      [] Ops[i].type = "path receive" -> Ops[i].out
      [] OTHER                        -> Ops[i].amount

ReceivedAsset(op) == IF op.type \in Paths THEN op.out_asset ELSE op.asset

\* The first asset received; of several amounts of it the last.
mapReceive ==
    LET mine  == {i \in DOMAIN Ops : isReceive(Ops[i])}
        first == CHOOSE i \in mine : \A j \in mine : i <= j
        asset == ReceivedAsset(Ops[first])
        same  == {i \in mine : ReceivedAsset(Ops[i]) = asset}
        last  == CHOOSE i \in same : \A j \in same : j <= i
    IN  IF tx.failed THEN Hidden
        ELSE Entry("receive", tx.source, Me, asset, ReceivedAmount(last), asset, ReceivedAmount(last))

\* A contract's transfer that the account sent, or else the first one to it that somebody else caused.
isSep41Send == Ops[1].transfer /\ Ops[1].sender = Me /\ Ops[1].asset \in Known

mapContract ==
    CASE Ops[1].transfer /\ ~Ops[1].wellFormed  -> Unknown
      [] isSep41Send                             -> mapSend
      [] ~tx.failed /\ Me \notin {tx.source, tx.fee_source} /\ TransfersToMe # <<>> ->
            LET e == Head(TransfersToMe) IN Entry("receive", e.from, Me, e.asset, e.amount, e.asset, e.amount)
      [] OTHER -> Unknown

------------------------------------------------------------------------------
mapTransaction ==
    CASE Len(Ops) = 1 /\ Ops[1].type = "invoke"      -> mapContract
      [] isSend                                      -> mapSend
      [] isSwap                                      -> mapSwap
      [] isTrust("positive")                         -> mapTrust("opt in")
      [] isTrust("zero")                             -> mapTrust("opt out")
      [] \E i \in DOMAIN Ops : isReceive(Ops[i])     -> mapReceive
      [] ~isSource                                   -> Hidden
      [] OTHER                                       -> Unknown

\* A saved entry stays what it was but for its status, its events and, for a swap, the amounts.
mapUpdatedTransaction(saved) ==
    LET moved == IF saved.type = "swap" /\ SwapIndex # 0 THEN mapSwap ELSE saved
    IN  [saved EXCEPT !.from = moved.from, !.to = moved.to, !.give = moved.give, !.given = moved.given,
                      !.get = moved.get, !.got = moved.got, !.status = Status, !.events = Append(@, Status)]

Map ==
    /\ entry = Nothing
    /\ entry' = CASE given.saved # Nothing -> mapUpdatedTransaction(given.saved)
                  [] isDust                -> Hidden
                  [] OTHER                 -> mapTransaction
    /\ UNCHANGED given

Next == Map

------------------------------------------------------------------------------
(* What the account itself caused is in its history, with the status the ledger gives it, unless it failed and would
   have paid the account; and what a stranger does to it never shows as something it sent, changed or swapped. *)
OwnIsShown ==
    entry # Nothing =>
        /\ isSource /\ ~tx.failed => entry.type # "hidden" /\ entry.status = Status
        /\ given.saved # Nothing => entry.type = given.saved.type /\ Last(entry.events) = Status
        /\ ~isSource /\ given.saved = Nothing =>
              (entry.type \in {"swap", "opt in", "opt out"} => FALSE)
              /\ (entry.type = "send" => Ops[1].type = "invoke" /\ Ops[1].sender = Me)

\* What really left and reached the account by one operation that succeeded.
Sent(i)     == IF Ops[i].type = "path receive" THEN FoldLeft(LAMBDA a, b : a + b, 0, tx.results[i].offers) ELSE Ops[i].amount
Reached(i)  == IF Ops[i].type = "path send" THEN tx.results[i].last
               ELSE IF Ops[i].type = "path receive" THEN Ops[i].out ELSE Ops[i].amount

(* Amounts are the ledger's, not the bounds the transaction was signed with: of a transaction that succeeded and whose
   result can be read, a swap shows what was really given (as long as one offer filled it) and really received, and a
   receipt what really reached the account (as long as one operation paid that asset), whoever sent it. *)
AmountsReal ==
    entry # Nothing /\ ~tx.failed /\ tx.result = "read" /\ Len(tx.results) = Len(Ops) =>
        /\ entry.type = "swap" /\ SwapIndex # 0 =>
              /\ entry.got = Reached(SwapIndex)
              /\ (Ops[SwapIndex].type = "path receive" => Len(tx.results[SwapIndex].offers) = 1)
                    => entry.given = Sent(SwapIndex)
        /\ entry.type = "receive" /\ given.saved = Nothing /\ Ops[1].type # "invoke" =>
              \A i \in DOMAIN Ops :
                  isReceive(Ops[i]) /\ (\A j \in DOMAIN Ops \ {i} : ~isReceive(Ops[j])) =>
                      entry.got = Reached(i) /\ entry.get = ReceivedAsset(Ops[i])

MappedRight == OwnIsShown /\ AmountsReal

------------------------------------------------------------------------------
\* The rows of each kind of operation, as the mapper writes them; an asset with its amount is one row.
PaymentFields ==
    [payment       |-> <<"destination", "asset", "amount">>,
     createAccount |-> <<"destination", "startingBalance">>,
     changeTrust   |-> <<"line", "limit">>,
     accountMerge  |-> <<"destination">>,
     pathReceive   |-> <<"sendAsset", "sendMax", "destination", "destAsset", "destAmount", "path">>,
     pathSend      |-> <<"sendAsset", "sendAmount", "destination", "destAsset", "destMin", "path">>]

OfferFields ==
    [sellOffer    |-> <<"selling", "amount", "buying", "price", "offerId">>,
     buyOffer     |-> <<"buying", "buyAmount", "selling", "price", "offerId">>,
     passiveOffer |-> <<"selling", "amount", "buying", "price">>]

OptionFields ==
    [setOptions |-> <<"inflationDest", "clearFlags", "setFlags", "masterWeight", "lowThreshold", "medThreshold",
                      "highThreshold", "homeDomain", "signer", "signerWeight">>]

OtherFields ==
    [allowTrust             |-> <<"trustor", "assetCode", "authorize">>,
     manageData             |-> <<"name", "value">>,
     bumpSequence           |-> <<"bumpTo">>,
     inflation              |-> <<>>,
     createClaimableBalance |-> <<"asset", "amount", "claimants">>,
     claimClaimableBalance  |-> <<"balanceId">>,
     beginSponsoring        |-> <<"sponsoredId">>,
     endSponsoring          |-> <<>>,
     clawback               |-> <<"asset", "amount", "from">>,
     clawbackClaimable      |-> <<"balanceId">>,
     setTrustLineFlags      |-> <<"trustor", "asset", "setFlags", "clearFlags">>,
     poolDeposit            |-> <<"liquidityPoolId", "maxAmountA", "maxAmountB", "minPrice", "maxPrice">>,
     poolWithdraw           |-> <<"liquidityPoolId", "amount", "minAmountA", "minAmountB">>]

\* A revoked sponsorship shows by the fields it has which entry it is about.
RevokeFields(value) ==
    LET has == {k \in DOMAIN value : value[k] # Undefined}
    IN  CASE {"seller", "offerId"} \subseteq has                      -> <<"seller", "offerId">>
          [] "balanceId" \in has /\ "account" \notin has              -> <<"balanceId">>
          [] "liquidityPoolId" \in has /\ "account" \notin has        -> <<"liquidityPoolId">>
          [] {"account", "name"} \subseteq has                        -> <<"account", "name">>
          [] {"account", "signer"} \subseteq has                      -> <<"account", "signer">>
          [] {"account", "asset"} \subseteq has                       -> <<"account", "asset">>
          [] "account" \in has                                        -> <<"account">>
          [] OTHER                                                    -> <<>>

Fields(op) ==
    CASE op.type \in DOMAIN PaymentFields -> PaymentFields[op.type]
      [] op.type \in DOMAIN OfferFields   -> OfferFields[op.type]
      [] op.type \in DOMAIN OptionFields  -> OptionFields[op.type]
      [] op.type \in DOMAIN OtherFields   -> OtherFields[op.type]
      [] op.type = "revoke"               -> RevokeFields(op.value)

------------------------------------------------------------------------------
\* Values that are written in words: account flags and predicates of claimable balances.
accountAuthFlags(flags) ==
    LET known == {f \in flags : f \in {"authRequired", "authRevocable", "authImmutable", "authClawbackEnabled"}}
    IN  [known |-> known, unknown |-> flags \ known]

\* A combination that lacks an operand is not understood as a whole.
RECURSIVE formatPredicate(_)
formatPredicate(p) ==
    CASE p.type \in {"unconditional", "before", "within"} -> <<p.type, p.time>>
      [] p.type \in {"and", "or"} -> IF Len(p.of) < 2 THEN <<"unknown predicate">>
                                     ELSE <<p.type, formatPredicate(p.of[1]), formatPredicate(p.of[2])>>
      [] p.type = "not"           -> IF p.of = <<>> THEN <<"not", "null">> ELSE <<"not", formatPredicate(p.of[1])>>
      [] OTHER                    -> <<"unknown predicate">>

Written(key, value) ==
    CASE key \in {"setFlags", "clearFlags"} -> <<"flags", accountAuthFlags(value)>>
      [] key = "claimants"                  -> [i \in DOMAIN value |-> <<value[i].destination, formatPredicate(value[i].predicate)>>]
      [] OTHER                              -> value

------------------------------------------------------------------------------
\* Contract calls: what is called with what, or what is made of what; nothing of one that cannot be read.
InvokeRows(call) ==
    <<<<"contractId", call.contract>>, <<"functionName", call.name>>>>
        \o (IF call.args = <<>> THEN <<>> ELSE <<<<"arguments", call.args>>>>)

\* A creation is shown as far as it could be read.
CreateRows(call) ==
    LET from  == IF call.preimage = "asset" THEN <<<<"asset", call.asset>>>>
                 ELSE <<<<"deployer", call.deployer>>, <<"salt", call.salt>>>>
        rest  == <<<<"executable", call.executable>>>>
                     \o (IF call.args = <<>> THEN <<>> ELSE <<<<"arguments", call.args>>>>)
    IN  <<<<"functionName", call.kind>>>>
            \o (IF call.preimage = "address" /\ call.deployer = Broken THEN <<>> ELSE from \o rest)

CallRows(call) ==
    CASE call.kind = "invoke"                                -> InvokeRows(call)
      [] call.kind \in {"createContract", "createContractV2"} -> CreateRows(call)
      [] call.kind = "upload"                                -> <<<<"functionName", "uploadContractWasm">>, <<"hash", call.wasm>>>>

Throws(call) == call.kind = "invoke" /\ Broken \in {call.contract, call.name}

SorobanRows(op) ==
    CASE op.type = "invokeHostFunction" -> IF Throws(op.call) THEN <<<<"note", "review elsewhere">>>> ELSE CallRows(op.call)
      [] op.type = "extendFootprintTtl" -> <<<<"extendTo", op.value.extendTo>>>>
      [] OTHER                          -> <<<<"note", op.type>>>>

ClassicRows(op) ==
    LET set == SelectSeq(Fields(op), LAMBDA k : op.value[k] # Undefined)
    IN  [i \in DOMAIN set |-> <<set[i], Written(set[i], op.value[set[i]])>>]

Soroban == {"invokeHostFunction", "extendFootprintTtl", "restoreFootprint"}

mapOperation(op) ==
    [type |-> op.type, source |-> IF op.source = NoSource THEN proposed.source ELSE op.source,
     rows |-> IF op.type \in Soroban THEN SorobanRows(op) ELSE ClassicRows(op)]

------------------------------------------------------------------------------
\* An authorised call, then those it may make, all in the name of the same address.
RECURSIVE mapInvocation(_, _)
mapInvocation(invocation, address) ==
    <<<<"authorizedAddress", address>>>> \o CallRows(invocation.call)
        \o FlattenSeq([i \in DOMAIN invocation.sub |-> mapInvocation(invocation.sub[i], address)])

RECURSIVE Unreadable(_)
Unreadable(invocation) ==
    Throws(invocation.call) \/ \E i \in DOMAIN invocation.sub : Unreadable(invocation.sub[i])

\* An entry with a call that cannot be read is left out as a whole.
mapAuthorizations(entries) ==
    FlattenSeq([i \in DOMAIN entries |->
        IF Unreadable(entries[i].root) THEN <<>> ELSE mapInvocation(entries[i].root, entries[i].address)])

mapReadable ==
    [source |-> proposed.source, fee_source |-> proposed.fee_source, fee |-> proposed.fee, memo |-> proposed.memo,
     operations     |-> [i \in DOMAIN proposed.ops |-> mapOperation(proposed.ops[i])],
     authorizations |-> FlattenSeq([i \in DOMAIN proposed.ops |->
                            IF proposed.ops[i].type = "invokeHostFunction" THEN mapAuthorizations(proposed.ops[i].auth) ELSE <<>>])]

Show == shown = <<>> /\ shown' = <<mapReadable>> /\ UNCHANGED proposed

ReadableNext == Show

------------------------------------------------------------------------------
RECURSIVE CallsOf(_)
CallsOf(invocation) == {invocation.call} \cup UNION {CallsOf(invocation.sub[i]) : i \in DOMAIN invocation.sub}

Appears(row) == \E i \in DOMAIN shown[1].authorizations : shown[1].authorizations[i] = row
AppearsIn(i, name) == \E j \in DOMAIN shown[1].operations[i].rows : shown[1].operations[i].rows[j][1] = name

(* What is signed is shown: whoever acts in an operation, whatever it moves, sets or names, and every call that the
   signature lets a contract make, however deep, as long as it can be read. What cannot be read never looks like a
   shorter list of calls of an operation, which then says so; of an authorisation it does. *)
NothingHidden ==
    shown # <<>> => \A i \in DOMAIN proposed.ops :
        LET op == proposed.ops[i]
        IN  /\ shown[1].operations[i].source = (IF op.source = NoSource THEN proposed.source ELSE op.source)
            /\ op.type \notin Soroban => \A k \in DOMAIN op.value :
                    op.value[k] # Undefined => AppearsIn(i, k)
            /\ op.type = "invokeHostFunction" =>
                 /\ Throws(op.call) => AppearsIn(i, "note")
                 /\ \A e \in DOMAIN op.auth : ~Unreadable(op.auth[e].root) =>
                       /\ Appears(<<"authorizedAddress", op.auth[e].address>>)
                       /\ \A call \in CallsOf(op.auth[e].root) : \A r \in DOMAIN CallRows(call) : Appears(CallRows(call)[r])

\* What an operation that was shown in that way may have been.
SameRows(a, b) == a.type = b.type /\ ClassicRows(a) = ClassicRows(b)

(* Two operations that differ never look the same, up to what a predicate that lacks an operand would have been. *)
ShownApart ==
    \A i, j \in DOMAIN proposed.ops :
        proposed.ops[i].type \notin Soroban /\ proposed.ops[j].type \notin Soroban /\ SameRows(proposed.ops[i], proposed.ops[j])
            => proposed.ops[i].value = proposed.ops[j].value
==============================================================================
