------------------------------ MODULE TronTerms ------------------------------
(***************************************************************************)
(* What a Tron transaction costs and how long it is good. Its fee is       *)
(* estimated when any of the requests this takes may fail                  *)
(* (FeeCalculatorService); costs are in SUN. It names one of the last      *)
(* blocks by the low bytes of its number and by its hash, and it expires:  *)
(* before it is signed it is made fresh, in a dialog it is only checked    *)
(* (TransactionExpirationRefresherService). One unit of time is one block. *)
(***************************************************************************)
EXTENDS Integers

CONSTANTS
    Chain,         \* the chain parameters: bandwidth, energy, activate, create, upgrade
    Fallback,      \* the constants for a parameter the chain does not name
    MemoFee,
    DefaultEnergy, \* the guess without a fee limit
    Amounts,       \* units of bandwidth and energy, limits and subsidies to check
    Window,        \* REFERENCE_BLOCK_WINDOW: a power of the base the low bytes are written in
    Buffer,        \* TRANSACTION_METADATA_EXPIRATION_BUFFER_MS
    Lifetime,      \* DEFAULT_EXPIRATION_MS
    Longest,       \* MAX_EXPIRATION_MS
    MaxBlock       \* bound: the last block

VARIABLES
    tx,      \* the transaction and what the network knows about its accounts
    failed,  \* the requests that fail
    named,   \* the parameters the chain names
    fee,     \* the answer: trx, energy and bandwidth
    current, \* the current block; its number is its timestamp
    fork,    \* blocks from this one on were replaced by others
    now,     \* the clock of the wallet
    raw,     \* bytes (Malformed when they are no number, Missing), hash, expiration
    signed,  \* ensureFreshRawData returned, at this block
    told     \* what isTransactionExpired said: "none", "good", "expired"

feeVars        == <<tx, failed, named, fee>>
expirationVars == <<current, fork, now, raw, signed, told>>

Parameters  == {"bandwidth", "energy", "activate", "create", "upgrade"}
NotYet      == [trx |-> -2, energy |-> 0, bandwidth |-> 0]
Unavailable == [trx |-> -1, energy |-> 0, bandwidth |-> 0]    \* FeeUnavailableError

TronTermsAssumption ==
    /\ Amounts \subseteq Nat /\ MemoFee \in Nat /\ DefaultEnergy \in Nat
    /\ Chain \in [Parameters -> Nat] /\ Fallback \in [Parameters -> Nat \ {0}]
    \* to create an account costs more than the bandwidth of a transfer
    /\ \A n \in Amounts : /\ n * Chain["bandwidth"] <= Chain["activate"]
                          /\ n * Fallback["bandwidth"] <= Fallback["activate"]
    /\ Window \in Nat \ {0} /\ Buffer \in Nat /\ MaxBlock \in Nat
    /\ Lifetime \in Nat /\ Buffer < Lifetime /\ Longest \in Nat /\ Lifetime < Longest

\* Kinds of contracts: a transfer, a call, a system contract, the one that makes a witness,
\* and one the wallet does not know.
Transfers == [kind : {"transfer"}, size : Amounts, memo : BOOLEAN, activated : BOOLEAN,
              bandwidth : Amounts, staked : Amounts]
Calls     == [kind : {"call"}, size : {1}, memo : {FALSE}, bandwidth : {0},
              uses : Amounts, energy : Amounts, percent : {0, 50, 100}, cap : Amounts,
              deployer : Amounts, limit : Amounts]
Others    == [kind : {"system", "witness", "unknown"}, size : Amounts, memo : BOOLEAN,
              bandwidth : Amounts, energy : Amounts]

RequestsOf(kind) ==
    CASE kind = "transfer" -> {"parameters", "cache", "account", "resources"}
      [] kind = "call"     -> {"parameters", "cache", "simulation", "contract", "deployer"}
      [] OTHER             -> {"parameters", "cache"}

FeeTypeOK ==
    /\ tx \in Transfers \cup Calls \cup Others
    /\ failed \subseteq RequestsOf(tx.kind)
    /\ named \subseteq Parameters
    /\ fee \in [trx : Int, energy : Nat, bandwidth : Nat]

FeeInit ==
    /\ \/ tx \in Transfers
       \/ tx \in Calls
       \/ tx \in Others
    /\ failed \in SUBSET RequestsOf(tx.kind)
    /\ named \in {Parameters, {}}
    /\ fee = NotYet

MaxOf(m, n) == IF m >= n THEN m ELSE n
MinOf(m, n) == IF m <= n THEN m ELSE n

------------------------------------------------------------------------------
Has(field) == field \in DOMAIN tx

\* The parameters: fetched, or the last ones that were cached, or none at all.
NoParameters(fails) == {"parameters", "cache"} \subseteq fails

Price(p) == IF p \in named THEN Chain[p] ELSE Fallback[p]

\* The energy of a call that could not be simulated: all its fee limit buys.
FallbackEnergy == IF tx.limit > 0 THEN tx.limit \div Price("energy") ELSE DefaultEnergy

\* The deployer of a contract pays its share, up to its limit and to the energy it has.
RoundedUp(n, percent) == (n * percent + 99) \div 100

\* A fault to compare with: a deployer whose energy cannot be looked up pays its full share.
UserEnergyTrusting(fails) ==
    LET subsidy == MinOf(tx.uses - RoundedUp(tx.uses, tx.percent), tx.cap)
    IN  IF "contract" \in fails \/ tx.percent >= 100 THEN tx.uses
        ELSE tx.uses - (IF "deployer" \in fails THEN subsidy ELSE MinOf(subsidy, tx.deployer))

UserEnergy(fails) ==
    LET subsidy == MinOf(MinOf(tx.uses - RoundedUp(tx.uses, tx.percent), tx.cap), tx.deployer)
    IN  IF "contract" \in fails \/ "deployer" \in fails \/ tx.percent >= 100 \/ tx.cap <= 0
        THEN tx.uses ELSE tx.uses - subsidy

Energy(fails) ==
    CASE tx.kind = "call"    -> IF "simulation" \in fails THEN FallbackEnergy ELSE UserEnergy(fails)
      [] tx.kind = "unknown" -> DefaultEnergy
      [] OTHER               -> 0

\* The fallback of a call's energy needs the price of energy.
EnergyUnknown(fails) ==
    /\ tx.kind = "call" /\ "simulation" \in fails
    /\ tx.limit > 0 /\ NoParameters(fails)

\* A transfer to an account that does not exist creates it, at a price of its own: it takes
\* the bandwidth the sender staked, or a fee. An account that cannot be looked up counts as
\* one that does not exist.
Activates(fails) == tx.kind = "transfer" /\ (~tx.activated \/ "account" \in fails)

CreateBandwidth == Price("create") \div (IF Price("bandwidth") > 0 THEN Price("bandwidth") ELSE Fallback["bandwidth"])

StakedEnough(fails) == (IF "resources" \in fails THEN 0 ELSE tx.staked) >= CreateBandwidth

Bandwidth(fails) == IF ~Activates(fails) THEN tx.size
                    ELSE IF StakedEnough(fails) THEN CreateBandwidth ELSE 0

\* Bandwidth is paid in full or not at all, energy is paid for what is missing.
PaidBandwidth(fails) == IF Activates(fails) \/ tx.bandwidth >= tx.size THEN 0 ELSE tx.size
PaidEnergy(fails)    == IF Has("energy") THEN MaxOf(Energy(fails) - tx.energy, 0) ELSE 0

UpgradeFee(fails) ==
    IF tx.kind # "witness" THEN 0
    ELSE IF NoParameters(fails) THEN Fallback["upgrade"] ELSE Price("upgrade")

Trx(fails) ==
    PaidBandwidth(fails) * Price("bandwidth") + PaidEnergy(fails) * Price("energy")
    + (IF Activates(fails) THEN Price("activate") ELSE 0)
    + (IF Activates(fails) /\ ~StakedEnough(fails) THEN Price("create") ELSE 0)
    + (IF tx.memo THEN MemoFee ELSE 0)
    + UpgradeFee(fails)

ComputedFee(fails) ==
    IF \/ EnergyUnknown(fails)
       \/ /\ NoParameters(fails)
          /\ Activates(fails) \/ PaidBandwidth(fails) > 0 \/ PaidEnergy(fails) > 0
    THEN Unavailable
    ELSE [trx |-> Trx(fails), energy |-> Energy(fails), bandwidth |-> Bandwidth(fails)]

computeFee ==
    /\ fee = NotYet
    /\ fee' = ComputedFee(failed)
    /\ UNCHANGED <<tx, failed, named>>

FeeNext == computeFee

FeeSpec == FeeInit /\ [][FeeNext]_feeVars

------------------------------------------------------------------------------
\* What the network charges: it knows every fact, and no call pays for more energy than
\* its limit buys.
Charged ==
    LET full   == tx.uses * tx.percent
        given  == MinOf(tx.uses - ((full + 99) \div 100), MinOf(tx.cap, tx.deployer))
        energy == IF tx.kind = "call" THEN MaxOf(tx.uses - given - tx.energy, 0) * Price("energy") ELSE 0
        creates == tx.kind = "transfer" /\ ~tx.activated
        fresh  == IF tx.staked >= CreateBandwidth THEN 0 ELSE Price("create")
    IN  (IF creates THEN Price("activate") + fresh
         ELSE IF tx.bandwidth < tx.size THEN tx.size * Price("bandwidth") ELSE 0)
        + energy
        + (IF tx.kind = "witness" THEN Price("upgrade") ELSE 0)
        + (IF tx.memo THEN MemoFee ELSE 0)

\* A failed request makes the estimate higher or leaves the wallet without one, never lower
\* than the charge. A call that is not simulated is covered if its limit covers it; a simulation that
\* ends in FAILED counts as one that failed.
Covered == tx.kind = "call" => tx.limit >= tx.uses * Price("energy") /\ tx.limit > 0

NeverTooLow == fee \notin {NotYet, Unavailable} /\ Covered => fee.trx >= Charged

\* Without failures the estimate is the charge.
ExactWhenKnown == fee # NotYet /\ failed = {} /\ tx.kind # "unknown" /\ Covered => fee.trx = Charged

------------------------------------------------------------------------------
\* The age of a transaction.
Missing   == -1
Malformed == -2
Never     == -1
Blocks    == 0..MaxBlock

\* The hash of a block; it does not hold the number.
Hash(b) == <<b, b >= fork>>

Raw == [bytes : {Missing, Malformed} \cup 0..(2 * Window - 1), hash : Blocks \X BOOLEAN,
        expiration : 0..(MaxBlock + Longest)]

ExpirationTypeOK ==
    /\ current \in Blocks /\ fork \in 0..(MaxBlock + 1) /\ now \in 0..(MaxBlock + Lifetime)
    /\ raw \in Raw
    /\ signed \in Blocks \cup {Never}
    /\ told \in {"none", "good", "expired"}

\* Any transaction: built here or by another, of any age, or malformed.
ExpirationInit ==
    /\ current \in Blocks /\ fork \in {MaxBlock + 1, MaxBlock}
    /\ now \in {current, current + Lifetime - Buffer - 1, current + Lifetime - Buffer}
    /\ \E b \in Blocks, f \in BOOLEAN, e \in {0, current + Buffer, current + Longest - 1, current + Longest} :
         \E bytes \in {b % Window, (b % Window) + Window, Missing, Malformed} :
             raw = [bytes |-> bytes, hash |-> <<b, f>>, expiration |-> e]
    /\ signed = Never
    /\ told = "none"

------------------------------------------------------------------------------
hasFreshExpiration == raw.expiration > MaxOf(now, current) + Buffer
hasAllowedExpirationWindow == raw.expiration < current + Longest

hasFreshExpirationMetadata ==
    raw.bytes # Missing /\ hasFreshExpiration /\ hasAllowedExpirationWindow

\* The latest block up to the current one with these low bytes.
getReferenceBlockNumber ==
    LET candidate == (current \div Window) * Window + raw.bytes
    IN  IF candidate > current THEN candidate - Window ELSE candidate

hasValidReferenceBlockNumber(n) ==
    raw.bytes # Malformed /\ n >= 0 /\ n <= current /\ current - n < Window

referencedBlockMatchesRawData(n) == n % Window = raw.bytes /\ Hash(n) = raw.hash

Fresh(found) ==
    LET n == getReferenceBlockNumber
    IN  /\ hasFreshExpirationMetadata
        /\ hasValidReferenceBlockNumber(n)
        /\ n = current \/ found              \* the current block is not asked for again
        /\ referencedBlockMatchesRawData(n)

buildRefreshedRawData ==
    [bytes |-> current % Window, hash |-> Hash(current), expiration |-> current + Lifetime]

\* found: the node answers with the referenced block; a failed look-up counts as stale.
EnsureFresh(found) ==
    /\ raw' = IF Fresh(found) THEN raw ELSE buildRefreshedRawData
    /\ signed' = current
    /\ told' = "none"
    /\ UNCHANGED <<current, fork, now>>

IsExpired(found) ==
    /\ told' = IF Fresh(found) THEN "good" ELSE "expired"
    /\ UNCHANGED <<current, fork, now, raw, signed>>

\* Time passes while the dialog is open or before the transaction is sent.
NextBlock ==
    /\ current < MaxBlock
    /\ current' = current + 1
    /\ now' = now + 1
    /\ told' = "none"
    /\ UNCHANGED <<fork, raw, signed>>

ExpirationNext ==
    \/ \E found \in BOOLEAN : EnsureFresh(found)
    \/ \E found \in BOOLEAN : IsExpired(found)
    \/ NextBlock

ExpirationSpec == ExpirationInit /\ [][ExpirationNext]_expirationVars

------------------------------------------------------------------------------
\* What the network asks of a transaction that is to go into the next block.
Accepted ==
    /\ \E b \in Blocks : /\ b <= current /\ current - b < Window
                         /\ raw.bytes = b % Window /\ raw.hash = Hash(b)
    /\ current < raw.expiration /\ raw.expiration < current + Longest

\* Whatever transaction was given to ensureFreshRawData, of whatever age, on a branch that
\* was left, malformed or with an expiry too far away: what is signed is accepted,
\* now and for the time of the buffer, as long as its block is one of the last.
SignedIsAccepted ==
    signed # Never /\ current <= signed + Buffer =>
        Accepted \/ \E b \in Blocks : raw.hash = Hash(b) /\ current - b >= Window

\* The dialog calls a transaction good only if the network would take it, and one that
\* was just made fresh is good unless the clocks are too far apart.
CheckedRight ==
    /\ told = "good" => Accepted
    /\ told = "expired" /\ signed = current => now + Buffer >= raw.expiration \/ raw.hash[1] # current

==============================================================================
