---------------------------- MODULE StellarSend ----------------------------
(***************************************************************************)
(* The Stellar wallet's requests that end in a transaction: a confirmed    *)
(* send, a change of trust, a swap that was made elsewhere, and the two    *)
(* that only look (the fee of a swap, an amount while it is typed).        *)
(* The ledger moves between any two calls: another device spends, fees     *)
(* rise, a destination appears or starts to ask for a memo.                *)
(***************************************************************************)
EXTENDS Integers, FiniteSets

CONSTANTS Kinds,       \* the requests made
          Amounts,     \* amounts asked for
          Swaps,       \* envelopes given: [theirs, contract, fee, seq, amount, type]
          Resource,    \* a contract call's own fee
          CreateMin,   \* least amount that makes an account
          MaxFee,      \* highest base fee
          MaxMoves,    \* how often the ledger moves (bound)
          Nothing

StellarSendAssumption ==
    /\ Kinds \subseteq {"native", "token", "optIn", "optOut", "swap", "quote", "typing native", "typing token"}
    /\ Amounts \subseteq Nat \ {0} /\ Resource \in Nat /\ CreateMin \in Nat /\ MaxFee \in Nat \ {0} /\ MaxMoves \in Nat

VARIABLES chain,    \* the ledger: our account, the destination, the fee
          saved,    \* the account in the keyring's state, as some synchronisation left it
          cache,    \* base fee, destination and simulated transfer kept for a while
          request,  \* what is asked
          call,     \* how far the handler is
          sent,     \* transactions the network took
          after,    \* what was noted of them: pending entry and tracking event
          moves

sendVars == <<chain, saved, cache, request, call, sent, after, moves>>

Typing == {"typing native", "typing token"}
Sends  == {"native", "token"}
Trusts == {"optIn", "optOut"}
Given  == {"swap", "quote"}

\* A send of a contract's token is a contract call.
IsToken == request.kind \in {"token", "typing token"}

------------------------------------------------------------------------------
\* Accounts as they are loaded: Horizon knows no balances in contracts; what
\* was saved may know them; what the client's assets give has no sequence.
fromHorizon(ledger) == [seq |-> ledger.seq, native |-> ledger.native, line |-> ledger.line, token |-> Nothing]

getOnChainAccountFromState(ledger, known) ==
    [fromHorizon(ledger) EXCEPT !.token = IF known THEN ledger.token ELSE Nothing]

getOnChainAccountFromAssets(ledger) == [getOnChainAccountFromState(ledger, TRUE) EXCEPT !.seq = 0]

\* Two base reserves and one per trustline.
Spendable(account) ==
    LET left == account.native - 1 - (IF account.line THEN 1 ELSE 0) IN IF left > 0 THEN left ELSE 0

------------------------------------------------------------------------------
\* Transactions of our own; what is left out of one is the network's business.
Built(op, amount, fee) ==
    [op |-> op, amount |-> amount, fee |-> fee, memo |-> call.memo, seq |-> call.account.seq + 1,
     theirs |-> FALSE, contract |-> op = "transfer"]

changeTrust(fee)   == Built(request.kind, 0, fee)
sep41Transfer(fee) == Built("transfer", request.amount, fee)
transfer(fee)      == Built(IF call.dest = "absent" THEN "create" ELSE "payment", request.amount, fee)

Draft(fee) ==
    CASE request.kind \in Trusts -> changeTrust(fee) [] IsToken -> sep41Transfer(fee) [] OTHER -> transfer(fee)

Envelope ==
    LET swap == request.swap
    IN  [op |-> "swap", amount |-> swap.amount, fee |-> swap.fee, memo |-> FALSE,
         seq |-> swap.seq, theirs |-> swap.theirs, contract |-> swap.contract]

\* assembleTransaction adds what the simulation found to the fee.
Simulated(tx) == [tx EXCEPT !.fee = @ + Resource]

NativeSpent(tx) == IF tx.op \in {"payment", "create", "swap"} /\ ~tx.contract THEN tx.amount ELSE 0

Shortfall(tx, account) == tx.fee + NativeSpent(tx) - Spendable(account)

\* What the validation refuses (StellarSimulation has its details). An account that asks for a memo counts when others pay it.
Refusals(tx, account, dest) ==
    {r \in {"native", "token", "amount", "memo", "line"} :
        CASE r = "native" -> Shortfall(tx, account) > 0
          [] r = "token"  -> tx.op = "transfer" /\ account.token < tx.amount
          [] r = "amount" -> tx.op = "create" /\ tx.amount < CreateMin
          [] r = "memo"   -> tx.op \in {"payment", "transfer"} /\ dest = "memo" /\ ~tx.memo
          [] r = "line"   -> (tx.op = "optOut" /\ ~account.line) \/ (tx.op = "optIn" /\ Spendable(account) < tx.fee + 1)}

------------------------------------------------------------------------------
Unasked == [pc |-> "idle", phase |-> 1, account |-> Nothing, dest |-> "self", memo |-> FALSE, tx |-> Nothing,
           shown |-> Nothing, banner |-> FALSE, again |-> FALSE, answer |-> "none", quoted |-> 0]

NoCache == [fee |-> Nothing, dest |-> Nothing, draft |-> Nothing]

Requests == [kind : Kinds \ Given, amount : Amounts, swap : {Nothing}] \cup [kind : Kinds \cap Given, amount : {0}, swap : Swaps]

Ledgers == [active : BOOLEAN, seq : {1}, native : 1..4, line : BOOLEAN, token : 0..2, base : {1}, dest : {"absent", "plain", "memo"}]

Init ==
    /\ chain \in Ledgers
    /\ saved \in {Nothing, getOnChainAccountFromState(chain, TRUE), getOnChainAccountFromState(chain, FALSE),
                  getOnChainAccountFromAssets(chain)}
    /\ request \in Requests
    /\ cache = NoCache /\ call = Unasked /\ sent = {} /\ moves = 0
    /\ after = [pending |-> FALSE, tracked |-> FALSE]

Still == UNCHANGED <<chain, saved, request, sent, after, moves>>
To(step) == call' = [call EXCEPT !.pc = step]
Answered(answer) == call' = [call EXCEPT !.pc = "done", !.answer = answer]

\* A failure before the dialog is shown in a dialog that can only be dismissed; later ones are thrown.
Fails ==
    Answered(CASE request.kind \in Typing -> "invalid"
               [] request.kind \in Sends \cup Trusts /\ call.phase = 1 -> "rejected"
               [] OTHER -> "failed")

\* Each request is one call; while an amount is typed it is made again and again.
Receive ==
    /\ call.pc = "idle" \/ (call.pc = "done" /\ request.kind \in Typing)
    /\ \E amount \in IF call.pc = "idle" \/ request.swap # Nothing THEN {request.amount} ELSE Amounts :
          request' = [request EXCEPT !.amount = amount]
    /\ call' = [Unasked EXCEPT !.pc = "resolve"]
    /\ UNCHANGED <<chain, saved, cache, sent, after, moves>>

\* The account is loaded, from the state while typing and from the network else.
Resolve ==
    /\ call.pc = "resolve" /\ Still /\ UNCHANGED cache
    /\ LET loaded == IF request.kind \in Typing THEN saved ELSE IF chain.active THEN fromHorizon(chain) ELSE Nothing
           next == CASE request.kind \in Given -> "swap" [] request.kind \in Trusts -> "needed" [] OTHER -> "destination"
       IN  IF loaded = Nothing
           THEN Answered(CASE request.kind \in Typing -> "invalid" [] request.kind \in Trusts -> "no" [] OTHER -> "failed")
           ELSE call' = [call EXCEPT !.pc = next, !.account = loaded]

\* The destination is read afresh and kept; an amount that is typed goes to ourselves.
Destination ==
    /\ call.pc = "destination" /\ Still
    /\ LET dest == IF request.kind \in Typing THEN "self" ELSE chain.dest
       IN  /\ cache' = IF dest = "self" THEN cache ELSE [cache EXCEPT !.dest = IF dest = "absent" THEN @ ELSE dest]
           /\ IF dest = "absent" /\ IsToken THEN Fails ELSE call' = [call EXCEPT !.pc = "build", !.dest = dest]

isChangeTrustOpNeeded ==
    /\ call.pc = "needed" /\ Still /\ UNCHANGED cache
    /\ CASE request.kind = "optIn" /\ call.account.line   -> Answered("done")
         [] request.kind = "optOut" /\ ~call.account.line -> Fails
         [] OTHER                                         -> To("build")

\* The base fee is the kept one or the network's.
Build ==
    /\ call.pc = "build" /\ Still
    /\ LET fee == IF cache.fee = Nothing THEN chain.base ELSE cache.fee
       IN  /\ cache' = [cache EXCEPT !.fee = fee]
           /\ call' = [call EXCEPT !.pc = IF IsToken THEN "balance" ELSE "validate", !.tx = Draft(fee)]

\* A token's balance is read when the account does not know it; one that cannot be read counts as none.
TokenBalance ==
    /\ call.pc = "balance" /\ Still /\ UNCHANGED cache
    /\ \E balance \in IF call.account.token = Nothing THEN {chain.token, 0} ELSE {call.account.token} :
          IF balance < request.amount
          THEN Fails
          ELSE call' = [call EXCEPT !.pc = "simulate", !.account.token = balance]

\* A simulated transfer is kept by its asset and its ends: a typed amount may get another amount's.
Simulate ==
    /\ call.pc = "simulate" /\ Still
    /\ IF request.kind \in Typing /\ cache.draft # Nothing
       THEN UNCHANGED cache /\ call' = [call EXCEPT !.pc = "validate", !.tx = cache.draft]
       ELSE IF chain.token < request.amount
       THEN UNCHANGED cache /\ Fails
       ELSE /\ cache' = [cache EXCEPT !.draft = Simulated(call.tx)]
            /\ call' = [call EXCEPT !.pc = "validate", !.tx = Simulated(call.tx)]

\* assertRefreshedTransactionFeeWithinBuffer: at most twice the fee that was shown.
WithinBuffer(tx) == tx.fee <= 2 * call.shown.fee

\* The first draft is validated without regard to a memo, the one that is signed with it.
Validate ==
    /\ call.pc = "validate" /\ Still /\ UNCHANGED cache
    /\ LET refused == Refusals(call.tx, call.account, call.dest) \ (IF call.phase = 1 THEN {"memo"} ELSE {})
       IN  CASE refused # {}                              -> Fails
             [] refused = {} /\ request.kind \in Typing   -> Answered("valid")
             [] refused = {} /\ request.kind \notin Typing /\ call.phase = 1 ->
                  To(IF request.kind \in Sends THEN "recovery" ELSE "show")
             [] OTHER -> IF WithinBuffer(call.tx) THEN To("send") ELSE Fails

\* createDraftSendTransactionForConfirm: a banner asks for the memo a kept destination requires.
Recovery ==
    /\ call.pc = "recovery" /\ Still
    /\ LET dest == IF cache.dest = Nothing THEN chain.dest ELSE cache.dest
       IN  /\ cache' = IF dest = "absent" THEN cache ELSE [cache EXCEPT !.dest = dest]
           /\ call' = [call EXCEPT !.pc = "show", !.banner = dest = "memo"]

Show ==
    /\ call.pc = "show" /\ Still /\ UNCHANGED cache
    /\ call' = [call EXCEPT !.pc = "dialog", !.shown = call.tx]

WriteMemo ==
    /\ call.pc = "dialog" /\ request.kind = "native" /\ ~call.memo
    /\ call' = [call EXCEPT !.memo = TRUE] /\ Still /\ UNCHANGED cache

\* parseConfirmSendDialogResult: everything is made again from what the network says now.
Confirm ==
    /\ call.pc = "dialog" /\ Still /\ UNCHANGED cache
    /\ call' = [call EXCEPT !.pc = "resolve", !.phase = 2]

Dismiss == call.pc = "dialog" /\ Answered("rejected") /\ Still /\ UNCHANGED cache

\* createValidatedSwapTransaction: a contract call is tried, its fee is taken as it is given.
ValidatedSwap ==
    /\ call.pc = "swap" /\ Still /\ UNCHANGED cache
    /\ LET short == Shortfall(Envelope, call.account)
           valid == short <= 0 /\ (Envelope.contract => chain.token >= Envelope.amount)
       IN  IF valid /\ request.kind = "swap"
           THEN call' = [call EXCEPT !.pc = "send", !.phase = 2, !.tx = Envelope, !.shown = Envelope]
           ELSE IF valid \/ (short > 0 /\ request.kind = "quote")
           THEN call' = [call EXCEPT !.pc = "done", !.answer = IF valid THEN "fee" ELSE "short",
                                     !.quoted = IF valid THEN Envelope.fee ELSE call.account.native + short]
           ELSE Fails

\* What the network does with a transaction that is next in its account's sequence.
Taken(tx) ==
    /\ sent' = sent \cup {tx}
    /\ chain' = [chain EXCEPT !.seq = IF tx.theirs THEN @ ELSE tx.seq]

NextInSequence(tx) == tx.theirs \/ (chain.active /\ tx.seq = chain.seq + 1)

SendAccepted ==
    /\ call.pc = "send" /\ NextInSequence(call.tx) /\ Taken(call.tx)
    /\ To("sent") /\ UNCHANGED <<saved, cache, request, after, moves>>

\* The answer is lost: nothing retries this request (getRawRpcClient).
SendLost ==
    /\ call.pc = "send" /\ NextInSequence(call.tx) /\ Taken(call.tx)
    /\ Fails /\ UNCHANGED <<saved, cache, request, after, moves>>

\* TRY_AGAIN_LATER and errors.
SendRefused == call.pc = "send" /\ Fails /\ Still /\ UNCHANGED cache

\* A sequence that is not the next one is tried once more, if the sequence is ours.
SendBadSeq ==
    /\ call.pc = "send" /\ ~NextInSequence(call.tx) /\ Still /\ UNCHANGED cache
    /\ IF call.again \/ call.tx.theirs THEN Fails ELSE To("bump")

rebuildTxnWithNewSeq ==
    /\ call.pc = "bump" /\ Still /\ UNCHANGED cache
    /\ IF chain.active
       THEN call' = [call EXCEPT !.pc = "send", !.again = TRUE, !.tx.seq = chain.seq + 1]
       ELSE Answered(IF request.kind \in Trusts THEN "no" ELSE "failed")

\* The kind of a swap is found out when it is sent already.
resolveUnifiedSwapTransactionType ==
    /\ call.pc = "sent" /\ Still /\ UNCHANGED cache
    /\ IF request.kind = "swap" /\ request.swap.type = "none" THEN Fails ELSE To("save")

\* An entry that cannot be saved is reported and left out.
savePendingKeyringTransactionSafe ==
    /\ call.pc = "save" /\ To("track") /\ UNCHANGED <<chain, saved, cache, request, sent, moves>>
    /\ \E saves \in BOOLEAN : after' = [after EXCEPT !.pending = saves]

Track ==
    /\ call.pc = "track" /\ Answered("sent") /\ UNCHANGED <<chain, saved, cache, request, sent, moves>>
    /\ after' = [after EXCEPT !.tracked = TRUE]

------------------------------------------------------------------------------
\* The world.
Move(ledger) ==
    /\ moves < MaxMoves /\ moves' = moves + 1 /\ chain' = ledger
    /\ UNCHANGED <<saved, cache, request, call, sent, after>>

Spend   == chain.native > 1 /\ Move([chain EXCEPT !.native = @ - 1, !.seq = @ + 1])
GiveOut == chain.token > 0 /\ Move([chain EXCEPT !.token = @ - 1, !.seq = @ + 1])
Raise   == \E fee \in 1..MaxFee \ {chain.base} : Move([chain EXCEPT !.base = fee])
Turn    == \E dest \in {"absent", "plain", "memo"} \ {chain.dest} : Move([chain EXCEPT !.dest = dest])
Relate  == Move([chain EXCEPT !.line = ~@, !.seq = @ + 1])
Vanish  == chain.active /\ Move([chain EXCEPT !.active = FALSE])

Expire ==
    /\ \E field \in {"fee", "dest", "draft"} : cache[field] # Nothing /\ cache' = [cache EXCEPT ![field] = Nothing]
    /\ UNCHANGED <<chain, saved, request, call, sent, after, moves>>

Handle ==
    \/ Receive \/ Resolve \/ Destination \/ isChangeTrustOpNeeded \/ Build \/ TokenBalance \/ Simulate \/ Validate
    \/ Recovery \/ Show \/ WriteMemo \/ Confirm \/ Dismiss \/ ValidatedSwap \/ SendAccepted \/ SendLost
    \/ SendRefused \/ SendBadSeq \/ rebuildTxnWithNewSeq \/ resolveUnifiedSwapTransactionType
    \/ savePendingKeyringTransactionSafe \/ Track

Next == Handle \/ Spend \/ GiveOut \/ Raise \/ Turn \/ Relate \/ Vanish \/ Expire

------------------------------------------------------------------------------
\* What the network took is what was asked for and shown: the amount, at most twice
\* the fee, the memo as it was written last, never without one that was asked for
\* when the destination was read again; it was taken once, however often it was tried.
SentAsConfirmed ==
    /\ Cardinality(sent) <= 1
    /\ \A tx \in sent :
          /\ request.kind \notin Typing \cup {"quote"} /\ tx.fee <= 2 * call.shown.fee
          /\ request.kind \in Sends => tx.amount = request.amount
          /\ request.kind \in Sends => tx.memo = call.memo /\ (call.dest = "memo" => tx.memo)
          /\ tx.contract = call.shown.contract

\* Only a request that was answered as sent may be waited for; it is tracked even if its entry was not saved.
AnswersAreTrue ==
    /\ call.answer = "sent" => sent # {} /\ after.tracked
    /\ call.answer \in {"rejected", "done", "valid", "invalid", "fee", "short"} => sent = {}
    /\ after.tracked => sent # {}

\* An amount called valid while it is typed can be paid from the state it was looked at,
\* even if the transfer that was looked at was another amount's.
TypedIsAffordable ==
    call.answer = "valid" =>
        /\ Spendable(call.account) >= call.tx.fee + (IF request.kind = "typing native" THEN request.amount ELSE 0)
        /\ request.kind = "typing token" => call.account.token >= request.amount

\* A fee that cannot be paid is quoted above everything the account has.
ShortIsSeen == call.answer = "short" => call.quoted > call.account.native

SendRight == SentAsConfirmed /\ AnswersAreTrue /\ TypedIsAffordable /\ ShortIsSeen
=============================================================================
