---------------------------- MODULE SolanaSending ----------------------------
(***************************************************************************)
(* One request that ends in a Solana transaction: a send checked field by  *)
(* field and built here, an approval built here, or a transaction given by *)
(* the client or a dapp. Its fee is calculated from what is given, it is   *)
(* prepared and signed, and it lands while the chain goes on changing.     *)
(***************************************************************************)
EXTENDS Integers, FiniteSets

CONSTANTS
    Kinds,          \* requests to consider: "native", "token", "approve", "given"
    Base, Price,    \* the fee of a signature and the default price of a compute unit, in lamports
    SendLimit, TokenLimit, DefaultLimit, \* compute units of a send, of a token send, and if no limit is set
    Rent, TokenRent,\* what an account of no data, and one of a token, must hold
    Given,          \* the messages that may be given
    Top,            \* bound: balances
    Ages            \* bound: how often the newest blockhash changes

SolanaSendingAssumption ==
    /\ Kinds \subseteq {"native", "token", "approve", "given"}
    /\ \A n \in {Base, Price, SendLimit, TokenLimit, DefaultLimit, Rent, TokenRent, Top, Ages} : n \in Nat
    /\ 0 < Price /\ 0 < SendLimit /\ Rent <= TokenRent

VARIABLES
    chain,    \* the chain: balances of the account, what is at the recipient's address, the newest blockhash
    saved,    \* the balances the state holds
    request,  \* what is asked for, and how far it is
    verdict,  \* the answers to the amount and to the address
    message,  \* the message, and what is shown of its fee
    signed    \* what is signed

sendingVars == <<chain, saved, request, verdict, message, signed>>

\* verified: signatures its instructions verify; a limit or a price of 0 is not set; touched: somebody signed it
\* before; create: it makes a token account.
Message == [signers : 1..2, verified : 0..1, limit : Nat, price : Nat, hash : 0..Ages, encoded : {"message", "transaction"},
            touched : BOOLEAN, source : {"metamask", "dapp"}, create : BOOLEAN]
Answers == {"none", "valid", "invalid", "insufficient", "insufficient for fee"}
NoMessage == [none |-> TRUE]
Places  == {"none", "system", "token account", "other token account", "program"}

TypeOK ==
    /\ chain \in [sol : 0..Top, tokens : 0..Top, place : Places, theirs : BOOLEAN, mine : BOOLEAN, hash : 0..Ages]
    /\ saved \in [sol : 0..Top, tokens : 0..Top]
    /\ request \in [kind : Kinds, amount : 0..Top, at : {"amount", "address", "build", "confirm", "sign", "send",
                                                         "landed", "failed", "refused"}]
    /\ verdict \in [amount : Answers, address : Answers]
    /\ message # NoMessage => message \in [tx : Message, shown : Nat, kind : {"system", "token account", "none"}]
    /\ signed # NoMessage => signed \in Message

Init ==
    /\ chain \in [sol : 0..Top, tokens : 0..Top, place : Places, theirs : BOOLEAN, mine : BOOLEAN, hash : {0}]
    /\ chain.mine = (chain.tokens > 0)
    /\ saved = [sol |-> chain.sol, tokens |-> chain.tokens]
    /\ request \in [kind : Kinds, amount : 1..Top, at : {"amount", "build"}]
    /\ request.at = "amount" <=> request.kind \in {"native", "token"}
    /\ verdict = [amount |-> "none", address |-> "none"]
    /\ message = NoMessage /\ signed = NoMessage

To(at) == request' = [request EXCEPT !.at = at]
Native == request.kind = "native"

------------------------------------------------------------------------------
\* FeeCalculator: signatures and priority, as far as they can be read from the message. One given as a message
\* counts as signed once; no limit counts as none.
PriorityFee(limit, price) == limit * price
Normalized(tx) == IF tx.encoded = "message" THEN 1 ELSE tx.signers
CountSignatures(tx) == Normalized(tx) + tx.verified
calculateFee(tx) == Base * CountSignatures(tx) + PriorityFee(tx.limit, tx.price)

\* What the chain charges.
Charged(tx) == Base * (tx.signers + tx.verified)
               + PriorityFee(IF tx.limit = 0 THEN DefaultLimit ELSE tx.limit, tx.price)

\* SendFeeCalculator, of the builder alone.
SendFee == Base + PriorityFee(IF Native THEN SendLimit ELSE TokenLimit, Price)

------------------------------------------------------------------------------
\* onAmountInput, on the balances of the state.
AmountAnswer ==
    IF saved.sol = 0 THEN "insufficient"
    ELSE IF Native
    THEN IF request.amount > saved.sol THEN "insufficient"
         ELSE IF request.amount + SendFee + Rent > saved.sol THEN "insufficient for fee" ELSE "valid"
    ELSE IF request.amount > saved.tokens THEN "insufficient"
         ELSE IF SendFee + Rent > saved.sol THEN "insufficient for fee" ELSE "valid"

OnAmountInput ==
    /\ request.at = "amount"
    /\ verdict' = [verdict EXCEPT !.amount = AmountAnswer] /\ To("address")
    /\ UNCHANGED <<chain, saved, message, signed>>

\* The classifier takes an address where nothing is for one of a wallet.
classify == CASE chain.place \in {"none", "system"} -> "system"
              [] chain.place \in {"token account", "other token account"} -> "token account"
              [] OTHER -> "unsupported"

OnAddressInput ==
    /\ request.at = "address"
    /\ verdict' = [verdict EXCEPT !.address = IF classify = "unsupported" THEN "invalid" ELSE "valid"]
    /\ To("build")
    /\ UNCHANGED <<chain, saved, message, signed>>

------------------------------------------------------------------------------
Ours(limit, create) ==
    [signers |-> 1, verified |-> 0, limit |-> limit, price |-> Price, hash |-> chain.hash, encoded |-> "transaction",
     touched |-> FALSE, source |-> "metamask", create |-> create]

Built(tx, kind) == message' = [tx |-> tx, shown |-> calculateFee(tx), kind |-> kind]

\* confirmSend does not ask for the verdicts. A wallet gets its token account made if it has none.
BuildNative ==
    /\ request.at = "build" /\ Native
    /\ Built(Ours(SendLimit, FALSE), "none") /\ To("confirm")
    /\ UNCHANGED <<chain, saved, verdict, signed>>

BuildToken ==
    /\ request.at = "build" /\ request.kind = "token"
    /\ IF classify = "unsupported" \/ chain.place = "other token account" THEN To("refused") /\ UNCHANGED message
       ELSE Built(Ours(TokenLimit, classify = "system"), classify) /\ To("confirm")
    /\ UNCHANGED <<chain, saved, verdict, signed>>

\* An approval makes the own token account if there is none, and is not confirmed.
BuildApproval ==
    /\ request.at = "build" /\ request.kind = "approve"
    /\ Built(Ours(TokenLimit, ~chain.mine), "none") /\ To("sign")
    /\ UNCHANGED <<chain, saved, verdict, signed>>

\* A transaction is given; computeFee and the dialog calculate its fee alike.
Take ==
    /\ request.at = "build" /\ request.kind = "given"
    /\ \E tx \in Given : Built(tx, "none")
    /\ To("confirm")
    /\ UNCHANGED <<chain, saved, verdict, signed>>

Confirm ==
    /\ request.at = "confirm"
    /\ To("sign") \/ To("refused")
    /\ UNCHANGED <<chain, saved, verdict, message, signed>>

------------------------------------------------------------------------------
\* estimateAndOverrideComputeUnitLimit: a simulation that fails leaves the message alone.
Estimates(tx) == {tx} \cup {[tx EXCEPT !.limit = n] : n \in {SendLimit, TokenLimit}}
WithPrice(tx) == IF tx.price = 0 THEN [tx EXCEPT !.price = Price] ELSE tx
\* A fault to compare with: the blockhash stays that of the fee's estimation.
PreparedStale(tx) ==
    IF tx.limit = 0 \/ tx.price = 0 THEN Estimates(WithPrice(tx)) ELSE {WithPrice(tx)}

Prepared(tx) ==
    LET timed == [WithPrice(tx) EXCEPT !.hash = IF tx.source = "metamask" THEN chain.hash ELSE @]
    IN  IF tx.limit = 0 \/ tx.price = 0 THEN Estimates(timed) ELSE {timed}

\* partiallySignBase64String keeps the bytes of a dapp and of what carries a signature.
AsIs(tx) == tx.source = "dapp" \/ (tx.encoded = "transaction" /\ tx.touched)

Sign ==
    /\ request.at = "sign"
    /\ \E tx \in IF AsIs(message.tx) THEN {message.tx} ELSE Prepared(message.tx) : signed' = [tx EXCEPT !.encoded = "transaction"]
    /\ To("send")
    /\ UNCHANGED <<chain, saved, verdict, message>>

\* The transaction lands, with what the chain holds by then, or fails; a blockhash lasts for one change.
Cost(tx) == Charged(tx) + (IF tx.create /\ ~(IF request.kind = "approve" THEN chain.mine ELSE chain.theirs)
                           THEN TokenRent ELSE 0)
Sends   == IF Native THEN request.amount ELSE 0
Payable(tx) ==
    /\ Sends + Cost(tx) + Rent <= chain.sol
    /\ Native => chain.place # "none" \/ request.amount >= Rent
    /\ request.kind = "token" =>
           /\ request.amount <= chain.tokens
           /\ message.kind = "system" => chain.place \in {"none", "system"}
           /\ message.kind = "token account" => chain.place = "token account"
    /\ chain.hash - tx.hash <= 1

Land ==
    /\ request.at = "send"
    /\ IF Payable(signed)
       THEN /\ chain' = [chain EXCEPT !.sol = @ - Sends - Cost(signed),
                                      !.tokens = @ - (IF request.kind = "token" THEN request.amount ELSE 0),
                                      !.theirs = @ \/ request.kind = "token", !.mine = @ \/ request.kind = "approve"]
            /\ To("landed")
       ELSE To("failed") /\ UNCHANGED chain
    /\ UNCHANGED <<saved, verdict, message, signed>>

------------------------------------------------------------------------------
\* Meanwhile: another wallet of the same secret spends, the recipient's address is used, blocks pass, the
\* state is synchronised.
Running == request.at \notin {"landed", "failed", "refused"}

Spend ==
    /\ Running /\ chain.sol > 0 /\ chain' = [chain EXCEPT !.sol = @ - 1]
    /\ UNCHANGED <<saved, request, verdict, message, signed>>

Appear ==
    /\ Running /\ chain.place = "none" /\ \E p \in Places \ {"none"} : chain' = [chain EXCEPT !.place = p]
    /\ UNCHANGED <<saved, request, verdict, message, signed>>

Age ==
    /\ Running /\ chain.hash < Ages /\ chain' = [chain EXCEPT !.hash = @ + 1]
    /\ UNCHANGED <<saved, request, verdict, message, signed>>

Synchronize ==
    /\ Running /\ saved' = [sol |-> chain.sol, tokens |-> chain.tokens]
    /\ UNCHANGED <<chain, request, verdict, message, signed>>

Next ==
    \/ OnAmountInput \/ OnAddressInput
    \/ BuildNative \/ BuildToken \/ BuildApproval \/ Take \/ Confirm \/ Sign \/ Land
    \/ Spend \/ Appear \/ Age \/ Synchronize

Spec == Init /\ [][Next]_sendingVars

------------------------------------------------------------------------------
\* The fee that was shown is the fee the chain charges, provided that it can be read from what is given: a
\* transaction (not a bare message of several signers) that sets a limit if it sets a price, and that the
\* signer does not complete (FeeCalculator.calculateFee, Signer.ts:186).
Readable(tx) == /\ tx.encoded = "message" => tx.signers = 1
                /\ tx.price = 0 \/ tx.limit > 0
                /\ AsIs(tx) \/ (tx.price > 0 /\ tx.limit > 0)
FeeAsShown ==
    signed # NoMessage /\ Readable(message.tx) => Charged(signed) = message.shown

\* A send found valid with what the chain still holds when it lands, and whose blockhash is fresh, lands; a
\* token reaches a wallet whose account of it has to be made only if there is SOL for that too, and SOL
\* only a wallet that has some or gets enough of it.
Unchanged == saved.sol = chain.sol /\ saved.tokens = chain.tokens
Likely == /\ verdict.amount = "valid" /\ AmountAnswer = "valid" /\ Unchanged
          /\ chain.hash - signed.hash <= 1
          /\ Native => chain.place # "none" \/ request.amount >= Rent
          /\ request.kind = "token" =>
                /\ message.kind = classify /\ chain.place # "other token account"
                /\ signed.create /\ ~chain.theirs => SendFee + Rent + TokenRent <= chain.sol
ValidSendLands == request.at = "send" /\ request.kind \in {"native", "token"} /\ Likely => Payable(signed)

\* What a dapp gives is signed as it is; what is prepared here carries the newest blockhash when it is signed,
\* a limit unless it cannot be estimated, and a price.
PreparedWell ==
    signed' # signed =>
        IF message.tx.source = "dapp" THEN [signed' EXCEPT !.encoded = message.tx.encoded] = message.tx
        ELSE AsIs(message.tx) \/ (signed'.hash = chain.hash /\ signed'.price > 0)
==============================================================================
