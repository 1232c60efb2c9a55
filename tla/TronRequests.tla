---------------------------- MODULE TronRequests -----------------------------
(***************************************************************************)
(* What the client asks of the Tron wallet. A send of TRX or of a token,   *)
(* from the amount the user types to what the network does with it: the    *)
(* typed amount is judged by the saved balances, the confirmed one by      *)
(* balances fetched for it, and the network judges by its own;             *)
(* synchronisations save other snapshots in between. Staking, unstaking    *)
(* and claiming: a list of transactions is built, and one after the other  *)
(* made fresh, signed and broadcast; if any went out, a synchronisation of *)
(* the account is scheduled.                                               *)
(***************************************************************************)
EXTENDS Integers, Sequences

CONSTANTS
    Kinds,         \* what can be sent: "trx" and "token"
    MaxBalance,
    Burned,        \* the TRX burned when the resources of the account do not pay for the transaction
    MaxAmount,     \* of TRX, staked in whole units
    MaxChanges,    \* bound: changes of the account on the node, and further requests of staking
    MaxScheduled,  \* bound: synchronisations that are scheduled
    MaxTroubles    \* bound: requests and steps that fail

TronRequestsAssumption ==
    /\ Kinds \subseteq {"trx", "token"} /\ MaxBalance \in Nat /\ Burned \in Nat \ {0} /\ MaxAmount \in Nat \ {0}
    /\ MaxChanges \in Nat /\ MaxScheduled \in Nat \ {0} /\ MaxTroubles \in Nat

VARIABLES
    node,      \* what the account has: trx, token, and whether its resources pay for one transaction
    cached,    \* the answer in the request cache, or Nothing
    stored,    \* the saved balances
    send,      \* the request under way
    typed,     \* the last verdict on the typed amount
    steady,    \* stored and cached agree with the node, and did since the amount was typed
    fetchedOk, \* the node has not changed since the snapshot of the request, nor another one been saved
    chain,     \* of staking, what the network holds: free, staked for a purpose, unfreezing, rewards, votes
    held,      \* the saved amounts the typed amount is judged by
    remembered, \* the answer in the request cache, and whether a transaction went out since
    call,      \* the request: step, what it does, the transactions left, what became of it
    scheduled, \* the synchronisations that are scheduled
    behind,    \* transactions of ended requests that went out and no synchronisation has seen
    undisturbed, \* held and remembered agree with the network, and did since the amount was typed
    changes, troubles

sendVars    == <<node, cached, stored, send, typed, steady, fetchedOk, changes, troubles>>
stakingVars == <<chain, held, remembered, call, scheduled, behind, undisturbed, changes, troubles>>

None    == -1                       \* a token without an entry
Nothing == [trx |-> None, token |-> None, pays |-> FALSE]

Holdings == [trx : 0..MaxBalance, token : 0..MaxBalance, pays : BOOLEAN]
Saved    == [trx : 0..MaxBalance, token : None..MaxBalance, pays : BOOLEAN]
Verdicts == {"none", "valid", "insufficientBalance", "insufficientBalanceToCoverFee", "invalid"}

NoSend == [pc |-> "none", kind |-> "trx", amount |-> 0, snapshot |-> Nothing, fee |-> 0,
           paid |-> 0, answer |-> "none"]

Sends ==
    [pc : {"none", "fetching", "fetched", "read", "built", "asked", "answered"}, kind : Kinds \cup {"trx"},
     amount : 0..MaxBalance, snapshot : Saved \cup {Nothing}, fee : {0, Burned}, paid : {0, Burned},
     answer : Verdicts \cup {"submitted", "refused", "rejected", "failed"}]

SendTypeOK ==
    /\ node \in Holdings /\ cached \in Holdings \cup {Nothing} /\ stored \in Saved
    /\ send \in Sends
    /\ typed \in Verdicts /\ steady \in BOOLEAN /\ fetchedOk \in BOOLEAN
    /\ changes \in 0..MaxChanges /\ troubles \in 0..MaxTroubles

SendInit ==
    /\ node \in Holdings
    /\ cached = Nothing
    /\ stored \in {node, [node EXCEPT !.token = None]}
    /\ send = NoSend /\ typed = "none" /\ steady = FALSE /\ fetchedOk = FALSE
    /\ changes = 0 /\ troubles = 0

Trouble == troubles < MaxTroubles /\ troubles' = troubles + 1

------------------------------------------------------------------------------
\* computeFee: the native part of the fees.
trxFee(balances) == IF balances.pays THEN 0 ELSE Burned

Amount(n) == IF n = None THEN 0 ELSE n

\* The common part of onAmountInput and validateSend; the fee and the balance are those of one read.
Verdict(kind, amount, balances) ==
    LET total == (IF kind = "trx" THEN amount ELSE 0) + trxFee(balances)
    IN  IF amount > Amount(balances[kind]) THEN "insufficientBalance"
        ELSE IF total > balances.trx THEN "insufficientBalanceToCoverFee" ELSE "valid"

\* While no request is under way. Without an entry for the asset nothing can be sent, and
\* a transaction that cannot be built is an invalid amount.
onAmountInput(kind, amount) ==
    /\ send.pc = "none"
    /\ \/ /\ typed' = IF stored[kind] = None THEN "insufficientBalance" ELSE Verdict(kind, amount, stored)
          /\ UNCHANGED troubles
       \/ /\ Trouble
          /\ typed' = "invalid"
    /\ send' = [NoSend EXCEPT !.kind = kind, !.amount = amount]
    /\ steady' = (stored = node /\ cached \in {Nothing, node})
    /\ UNCHANGED <<node, cached, stored, fetchedOk, changes>>

Answer(verdict) == [send EXCEPT !.pc = "answered", !.answer = verdict]

ConfirmSend ==
    /\ send.pc = "none" /\ typed # "none"
    /\ send' = [send EXCEPT !.pc = "fetching"]
    /\ UNCHANGED <<node, cached, stored, typed, steady, fetchedOk, changes, troubles>>

\* fetchAccountAssetsByIDs: a failed account request fails the request; without prices the token
\* is missing in the snapshot, and saved as gone.
FetchAssets ==
    /\ send.pc = "fetching"
    /\ \/ \E priced \in BOOLEAN :
            LET answer == IF cached = Nothing THEN node ELSE cached
            IN  /\ IF priced THEN UNCHANGED troubles ELSE Trouble
                /\ cached' = answer
                /\ send' = [send EXCEPT !.pc = "fetched",
                                        !.snapshot = IF priced THEN answer ELSE [answer EXCEPT !.token = None]]
                /\ fetchedOk' = (priced /\ answer = node)
                /\ steady' = (steady /\ priced)
       \/ /\ Trouble
          /\ send' = Answer("failed")
          /\ UNCHANGED <<cached, fetchedOk, steady>>
    /\ UNCHANGED <<node, stored, typed, changes>>

Merged(snapshot) ==
    [snapshot EXCEPT !.token = IF @ = None /\ stored.token # None THEN 0 ELSE @]

\* saveMany, then the entries are read back.
SaveAndRead ==
    /\ send.pc = "fetched"
    /\ stored' = Merged(send.snapshot)
    /\ send' = IF stored'[send.kind] = None THEN Answer("insufficientBalance")
               ELSE [send EXCEPT !.pc = "read", !.snapshot = stored']
    /\ UNCHANGED <<node, cached, typed, steady, fetchedOk, changes, troubles>>

\* A fault to compare with: the fee is left out.
ValidateSendAmount ==
    /\ send.pc = "read"
    /\ send' = IF send.amount <= Amount(stored[send.kind]) THEN [send EXCEPT !.pc = "built", !.fee = trxFee(stored)]
               ELSE Answer("insufficientBalance")
    /\ UNCHANGED <<node, cached, stored, typed, steady, fetchedOk, changes, troubles>>

\* validateSend reads the entries once more.
ValidateSend ==
    /\ send.pc = "read"
    /\ LET verdict == Verdict(send.kind, send.amount, stored)
       IN  send' = IF verdict = "valid" THEN [send EXCEPT !.pc = "built", !.fee = trxFee(stored)]
                   ELSE Answer(verdict)
    /\ UNCHANGED <<node, cached, stored, typed, steady, fetchedOk, changes, troubles>>

\* Build and make fresh; the fees the dialog shows are computed from the entries read back first.
AskUser ==
    /\ send.pc = "built"
    /\ \/ /\ send' = [send EXCEPT !.pc = "asked", !.paid = trxFee(send.snapshot)]
          /\ UNCHANGED troubles
       \/ /\ Trouble
          /\ send' = Answer("failed")
    /\ UNCHANGED <<node, cached, stored, typed, steady, fetchedOk, changes>>

UserRejects ==
    /\ send.pc = "asked"
    /\ send' = Answer("rejected")
    /\ UNCHANGED <<node, cached, stored, typed, steady, fetchedOk, changes, troubles>>

\* signAndSendTransaction: the network takes the transaction when the account can pay for it.
Broadcast ==
    /\ send.pc = "asked"
    /\ IF Verdict(send.kind, send.amount, node) = "valid"
       THEN /\ send' = Answer("submitted")
            /\ node' = [node EXCEPT !.trx = @ - trxFee(node) - (IF send.kind = "trx" THEN send.amount ELSE 0),
                                    !.token = @ - (IF send.kind = "token" THEN send.amount ELSE 0)]
       ELSE send' = Answer("refused") /\ UNCHANGED node
    /\ UNCHANGED <<cached, stored, typed, steady, fetchedOk, changes, troubles>>

\* Around the request.
AccountChanges ==
    /\ changes < MaxChanges
    /\ \E h \in Holdings : h # node /\ node' = h
    /\ changes' = changes + 1
    /\ steady' = FALSE /\ fetchedOk' = FALSE
    /\ UNCHANGED <<cached, stored, send, typed, troubles>>

CacheExpires ==
    /\ cached # Nothing
    /\ cached' = Nothing
    /\ UNCHANGED <<node, stored, send, typed, steady, fetchedOk, changes, troubles>>

\* A synchronisation saves the snapshot it took, without the token when its prices failed.
Synchronise(priced) ==
    /\ LET answer == IF cached = Nothing THEN node ELSE cached
       IN  /\ cached' = answer
           /\ stored' = Merged(IF priced THEN answer ELSE [answer EXCEPT !.token = None])
           /\ fetchedOk' = (fetchedOk /\ stored' = node)
           /\ steady' = (steady /\ stored' = node)
    /\ IF priced THEN UNCHANGED troubles ELSE Trouble
    /\ UNCHANGED <<node, send, typed, changes>>

SendStep ==
    \/ \E kind \in Kinds, amount \in 1..MaxBalance : onAmountInput(kind, amount)
    \/ ConfirmSend
    \/ FetchAssets
    \/ SaveAndRead
    \/ ValidateSend
    \/ AskUser
    \/ UserRejects
    \/ Broadcast
    \/ AccountChanges
    \/ CacheExpires
    \/ \E priced \in BOOLEAN : Synchronise(priced)

SendSpec == SendInit /\ [][SendStep]_sendVars

------------------------------------------------------------------------------
\* What was typed and called valid, or not, is not judged differently when it is confirmed, as
\* long as the saved balances were right and nothing changed: two judges that read at different
\* times agree (onAmountInput, fetchAccountAssetsByIDs, validateSend).
ConfirmAgrees ==
    steady /\ send.pc = "answered" /\ typed # "invalid" =>
        send.answer \in {"failed"} \cup (IF typed = "valid" THEN {"submitted", "rejected"} ELSE {typed})

\* The network refuses a confirmed send for its balance only when the account has changed, or
\* another snapshot was saved, since the balances were fetched for it.
RefusedOnlyIfMoved ==
    send.answer = "refused" => ~fetchedOk

\* The fee in the dialog is the one the amount was judged with unless another snapshot was saved between.
FeeShownIsFeeJudged ==
    send.pc = "asked" /\ fetchedOk => send.paid = send.fee

------------------------------------------------------------------------------
\* Staking.
Amounts  == 0..MaxAmount
Purposes == {"bandwidth", "energy"}
Judged   == {"stake", "unstake"}
Actions  == Judged \cup {"claimUnstakedTrx", "claimTrxStakingRewards"}

\* The entries of the saved assets that are judged by: staked TRX has one for each purpose.
Entries == {"free"} \cup Purposes
Entry(action, purpose) == IF action = "stake" THEN "free" ELSE purpose
Snapshot(network) == [e \in Entries |-> network[e]]
NoAnswer == [e \in Entries |-> 0]

NoCall == [pc |-> "none", action |-> "none", purpose |-> "bandwidth", amount |-> 0, typed |-> "none",
           preview |-> "none", todo |-> <<>>, sent |-> FALSE, error |-> "none", answer |-> "none"]

Plans == {<<>>, <<"freeze", "vote">>, <<"vote">>, <<"unfreeze">>, <<"withdraw">>, <<"claim">>}
StakeCalls ==
    [pc : {"none", "fetched", "confirmed", "sending", "ending", "answered"},
     action : Actions \cup {"none"}, purpose : Purposes, amount : Amounts,
     typed : {"none", "valid", "insufficientBalance"}, preview : {"none", "fee", "insufficientBalance", "failed"},
     todo : Plans, sent : BOOLEAN, error : {"none", "action"},
     answer : {"none", "valid", "insufficientBalance", "rejected", "action", "schedule", "fetch"}]

StakingTypeOK ==
    /\ chain \in [Entries \cup {"unfreezing", "rewards", "votes"} -> Nat]
    /\ held \in [Entries -> Nat] /\ remembered \in [age : {"none", "fresh", "old"}, assets : [Entries -> Nat]]
    /\ call \in StakeCalls
    /\ scheduled \in 0..MaxScheduled /\ behind \in BOOLEAN /\ undisturbed \in BOOLEAN
    /\ changes \in 0..MaxChanges /\ troubles \in 0..MaxTroubles

StakingInit ==
    /\ \E free, bandwidth, energy, rest \in Amounts :
         /\ bandwidth + energy <= MaxAmount
         /\ chain = [free |-> free, bandwidth |-> bandwidth, energy |-> energy,
                     unfreezing |-> rest, rewards |-> rest, votes |-> 0]
    /\ held = Snapshot(chain)
    /\ remembered = [age |-> "none", assets |-> NoAnswer]
    /\ call = NoCall
    /\ scheduled = 0 /\ behind = FALSE /\ undisturbed = FALSE
    /\ changes = 0 /\ troubles = 0

------------------------------------------------------------------------------
\* What each transaction does on the network; it is refused when the amount is not there.
Possible(transaction, purpose, amount) ==
    CASE transaction = "freeze"   -> amount <= chain.free
      [] transaction = "unfreeze" -> amount <= chain[purpose]
      [] transaction = "vote"     -> amount > 0 /\ amount <= chain.bandwidth + chain.energy
      [] transaction = "withdraw" -> chain.unfreezing > 0
      [] transaction = "claim"    -> chain.rewards > 0

Applied(transaction, purpose, amount) ==
    CASE transaction = "freeze"   -> [chain EXCEPT !.free = @ - amount, ![purpose] = @ + amount]
      [] transaction = "unfreeze" -> [chain EXCEPT ![purpose] = @ - amount, !.unfreezing = @ + amount]
      [] transaction = "vote"     -> [chain EXCEPT !.votes = amount]         \* replaces the votes there were
      [] transaction = "withdraw" -> [chain EXCEPT !.free = @ + chain.unfreezing, !.unfreezing = 0]
      [] transaction = "claim"    -> [chain EXCEPT !.free = @ + chain.rewards, !.rewards = 0]

buildTransactions(action) ==
    CASE action = "stake"                  -> <<"freeze", "vote">>
      [] action = "unstake"                -> <<"unfreeze">>
      [] action = "claimUnstakedTrx"       -> <<"withdraw">>
      [] action = "claimTrxStakingRewards" -> <<"claim">>

Answered(answer) == [call EXCEPT !.pc = "answered", !.answer = answer]

\* The common judgement of the typed and of the confirmed amount, by one entry of the saved assets;
\* the fee is not asked for.
StakeVerdict(action, purpose, amount) ==
    IF amount > held[Entry(action, purpose)] THEN "insufficientBalance" ELSE "valid"

onStakeAmountInput(purpose, amount) ==
    /\ call.pc = "none"
    /\ call' = [NoCall EXCEPT !.action = "stake", !.purpose = purpose, !.amount = amount,
                              !.typed = StakeVerdict("stake", purpose, amount)]
    /\ undisturbed' = (held = Snapshot(chain) /\ (remembered.age = "none" \/ remembered.assets = Snapshot(chain)))
    /\ UNCHANGED <<chain, held, remembered, scheduled, behind, changes, troubles>>

onUnstakeAmountInput(purpose, amount) ==
    /\ call.pc = "none"
    /\ call' = [NoCall EXCEPT !.action = "unstake", !.purpose = purpose, !.amount = amount,
                              !.typed = StakeVerdict("unstake", purpose, amount)]
    /\ undisturbed' = (held = Snapshot(chain) /\ (remembered.age = "none" \/ remembered.assets = Snapshot(chain)))
    /\ UNCHANGED <<chain, held, remembered, scheduled, behind, changes, troubles>>

\* The fee of the stake that was typed: the balance is judged once more before it is built.
computeStakeFee ==
    /\ call.pc = "none" /\ call.action = "stake" /\ call.preview = "none"
    /\ \/ /\ call' = [call EXCEPT !.preview = IF StakeVerdict("stake", call.purpose, call.amount) = "valid"
                                              THEN "fee" ELSE "insufficientBalance"]
          /\ UNCHANGED troubles
       \/ /\ StakeVerdict("stake", call.purpose, call.amount) = "valid"
          /\ Trouble
          /\ call' = [call EXCEPT !.preview = "failed"]
    /\ UNCHANGED <<chain, held, remembered, scheduled, behind, undisturbed, changes>>

\* An answer is remembered, so that the assets fetched may be those of a moment ago.
Fetched == IF remembered.age = "none" THEN Snapshot(chain) ELSE remembered.assets
Remember == IF remembered.age = "none" THEN [age |-> "fresh", assets |-> Snapshot(chain)] ELSE remembered

\* confirmStake and confirmUnstake fetch, save and read back the balance; a fetch that fails fails
\* the request.
Confirm ==
    /\ call.pc = "none" /\ call.action \in Judged
    /\ \/ /\ held' = Fetched
          /\ remembered' = Remember
          /\ call' = [call EXCEPT !.pc = "fetched"]
          /\ UNCHANGED troubles
       \/ /\ Trouble
          /\ call' = Answered("fetch")
          /\ UNCHANGED <<held, remembered>>
    /\ UNCHANGED <<chain, scheduled, behind, undisturbed, changes>>

JudgeAmount ==
    /\ call.pc = "fetched"
    /\ call' = IF StakeVerdict(call.action, call.purpose, call.amount) = "valid" THEN [call EXCEPT !.pc = "confirmed"]
               ELSE Answered("insufficientBalance")
    /\ UNCHANGED <<chain, held, remembered, scheduled, behind, undisturbed, changes, troubles>>

\* Claims ask for no balance. Withdrawing asks the user: for the fee shown the assets are fetched, and a
\* fetch that fails leaves the worst estimate.
claimUnstakedTrx(agreed) ==
    /\ call.pc = "none"
    /\ \/ /\ held' = Fetched /\ remembered' = Remember /\ UNCHANGED troubles
          /\ undisturbed' = (undisturbed /\ held' = held)
       \/ Trouble /\ UNCHANGED <<held, remembered, undisturbed>>
    /\ call' = IF agreed THEN [NoCall EXCEPT !.pc = "confirmed", !.action = "claimUnstakedTrx"]
               ELSE [NoCall EXCEPT !.pc = "answered", !.action = "claimUnstakedTrx",
                                   !.answer = "rejected"]
    /\ UNCHANGED <<chain, scheduled, behind, changes>>

claimTrxStakingRewards ==
    /\ call.pc = "none"
    /\ call' = [NoCall EXCEPT !.pc = "confirmed", !.action = "claimTrxStakingRewards"]
    /\ UNCHANGED <<chain, held, remembered, scheduled, behind, undisturbed, changes, troubles>>

\* executeOnChainActions: derive the key and build everything; what fails here fails the request.
Build ==
    /\ call.pc = "confirmed"
    /\ \/ /\ call' = [call EXCEPT !.pc = "sending", !.todo = buildTransactions(call.action)]
          /\ UNCHANGED troubles
       \/ /\ Trouble
          /\ call' = Answered("action")
    /\ UNCHANGED <<chain, held, remembered, scheduled, behind, undisturbed, changes>>

\* What was remembered before a transaction is old after it.
Aged == IF remembered.age = "none" THEN remembered ELSE [remembered EXCEPT !.age = "old"]

\* Make fresh, sign and broadcast the next one. The first that fails ends the loop; one that was
\* taken but whose answer is lost counts as failed.
SendNext ==
    /\ call.pc = "sending" /\ call.todo # <<>>
    /\ LET transaction == Head(call.todo)
           out   == Possible(transaction, call.purpose, call.amount)
           after == Applied(transaction, call.purpose, call.amount)
           ended == [call EXCEPT !.pc = "ending", !.todo = <<>>, !.error = "action"]
       IN  \/ /\ out
              /\ chain' = after /\ remembered' = Aged
              /\ call' = [call EXCEPT !.todo = Tail(@), !.sent = TRUE]
              /\ UNCHANGED <<behind, troubles>>
           \/ /\ out
              /\ Trouble
              /\ chain' \in {chain, after} /\ remembered' = Aged
              /\ call' = ended
              /\ behind' = (behind \/ (chain' # chain /\ ~call.sent))
           \/ /\ ~out
              /\ call' = ended
              /\ UNCHANGED <<chain, remembered, behind, troubles>>
    /\ UNCHANGED <<held, scheduled, undisturbed, changes>>

AllSent ==
    /\ call.pc = "sending" /\ call.todo = <<>>
    /\ call' = [call EXCEPT !.pc = "ending"]
    /\ UNCHANGED <<chain, held, remembered, scheduled, behind, undisturbed, changes, troubles>>

\* The error of an action goes before that of the schedule.
Report(scheduleFails) ==
    IF call.error # "none" THEN call.error ELSE IF scheduleFails THEN "schedule" ELSE "valid"

ScheduleAndAnswer ==
    /\ call.pc = "ending"
    /\ IF call.sent
       THEN \/ /\ scheduled < MaxScheduled
               /\ scheduled' = scheduled + 1
               /\ call' = Answered(Report(FALSE))
               /\ UNCHANGED <<behind, troubles>>
            \/ /\ Trouble
               /\ call' = Answered(Report(TRUE))
               /\ behind' = TRUE
               /\ UNCHANGED scheduled
       ELSE /\ call' = Answered(Report(FALSE))
            /\ UNCHANGED <<scheduled, behind, troubles>>
    /\ UNCHANGED <<chain, held, remembered, undisturbed, changes>>

\* A scheduled synchronisation saves what the account holds. It runs as long after the transactions of
\* its request as answers are remembered: the last one that is scheduled, when no later request has
\* sent anything, meets no old answer.
SynchroniseStake ==
    /\ scheduled > 0
    /\ remembered.age = "old" => (scheduled > 1 \/ (call.sent /\ call.pc # "answered"))
    /\ scheduled' = scheduled - 1
    /\ held' = Fetched /\ remembered' = Remember
    /\ behind' = (behind /\ held' # Snapshot(chain))
    /\ undisturbed' = (undisturbed /\ held' = Snapshot(chain))
    /\ UNCHANGED <<chain, call, changes, troubles>>

ForgetAnswer ==
    /\ remembered.age # "none"
    /\ remembered' = [age |-> "none", assets |-> NoAnswer]
    /\ UNCHANGED <<chain, held, call, scheduled, behind, undisturbed, changes, troubles>>

StakeChanges ==
    /\ changes < MaxChanges
    /\ \E free \in Amounts : free # chain.free /\ chain' = [chain EXCEPT !.free = free]
    /\ changes' = changes + 1
    /\ undisturbed' = FALSE
    /\ UNCHANGED <<held, remembered, call, scheduled, behind, troubles>>

AgainStaking ==
    /\ call.pc = "answered" /\ changes < MaxChanges
    /\ call' = NoCall
    /\ changes' = changes + 1
    /\ UNCHANGED <<chain, held, remembered, scheduled, behind, undisturbed, troubles>>

StakingNext ==
    \/ \E purpose \in Purposes, amount \in Amounts \ {0} :
         onStakeAmountInput(purpose, amount) \/ onUnstakeAmountInput(purpose, amount)
    \/ computeStakeFee
    \/ Confirm
    \/ JudgeAmount
    \/ \E agreed \in BOOLEAN : claimUnstakedTrx(agreed)
    \/ claimTrxStakingRewards
    \/ Build
    \/ SendNext
    \/ AllSent
    \/ ScheduleAndAnswer
    \/ SynchroniseStake
    \/ ForgetAnswer
    \/ StakeChanges
    \/ AgainStaking

StakingSpec == StakingInit /\ [][StakingNext]_stakingVars

------------------------------------------------------------------------------
\* The saved stakes differ from the real ones only while a synchronisation is scheduled, a request is
\* under way, or the snap could not know or not schedule: a transaction that went out before another
\* one failed is synchronised as well, and not with an answer from before (executeOnChainActions, after its loop).
SentIsSynchronised ==
    call.pc \in {"none", "answered"} /\ (\E p \in Purposes : held[p] # chain[p]) => scheduled > 0 \/ behind

\* A stake or an unstake is not judged differently when it is typed, when its fee is shown and when it
\* is confirmed, as long as the saved assets were right and nothing changed; the stake of one
\* purpose does not pay for an unstake of the other (onStakeAmountInput, onUnstakeAmountInput, fetchAccountAssetByID).
StakeJudgedAlike ==
    undisturbed /\ call.action \in Judged =>
        /\ call.pc = "answered" /\ call.answer # "fetch" =>
              (call.answer = "insufficientBalance" <=> call.typed = "insufficientBalance")
        /\ call.preview = "fee" => call.typed = "valid"
        /\ call.preview = "insufficientBalance" => call.typed = "insufficientBalance"

\* A request that is answered as valid did all it was to do, and no error of scheduling hides that
\* an action failed: "schedule" is only answered when everything went out (executeOnChainActions).
AllSentWhenValid ==
    call.pc = "answered" /\ call.answer \in {"valid", "schedule"} =>
        call.sent /\ call.todo = <<>> /\ call.error = "none"

==============================================================================
