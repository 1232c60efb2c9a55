------------------------- MODULE StellarSimulation -------------------------
(***************************************************************************)
(* How the Stellar wallet tries a transaction before it signs it: the      *)
(* accounts that take part are loaded (TransactionService), a preflight    *)
(* looks at the whole, the fee is taken and then every operation is        *)
(* validated and applied on a copy of the last state (TransactionSimulator *)
(* and its operation simulators).                                          *)
(***************************************************************************)
EXTENDS Integers, Sequences, FiniteSets, SequencesExt, FiniteSetsExt

CONSTANTS Wallet,       \* the account of the wallet
          Native,       \* the asset whose balance is kept apart
          Classic,      \* assets held on trustlines
          Token,        \* a contract's asset
          NoAccount,    \* an operation that names no source
          Reserve,      \* base reserve; an account needs two, and one per entry
          CreateMin,    \* least amount an account is made with (1 XLM)
          Top           \* MAX_INT64

StellarSimulationAssumption == Reserve \in Nat \ {0} /\ CreateMin \in Nat /\ Top \in Nat /\ Native \notin Classic

VARIABLES given,   \* the transaction and the accounts on chain
          stack,   \* the states after the fee and after each operation
          verdict  \* "running", "accepted" or the reason of a refusal

simulationVars == <<given, stack, verdict>>

tx  == given.tx
Ops == tx.ops

------------------------------------------------------------------------------
\* Which accounts take part, and which of them the wallet loads.
effectiveSource(op) == IF op.source = NoAccount THEN tx.source ELSE op.source

hasInvokeHostFunction == \E i \in DOMAIN Ops : Ops[i].type = "invoke"
isSourceAccount       == Wallet \in {tx.source, tx.fee_source}

participatingAccounts ==
    {tx.source, tx.fee_source} \cup {effectiveSource(Ops[i]) : i \in DOMAIN Ops}
    \cup {Ops[i].dest : i \in {j \in DOMAIN Ops : Ops[j].type \in {"payment", "path"}}}

\* A send loads its destination, a given transaction everybody in it.
preloadedAccounts ==
    CASE tx.sent -> {Ops[1].dest} [] hasInvokeHostFunction -> {} [] OTHER -> participatingAccounts

\* An account's state as the simulator starts with it.
AccountState(account) ==
    [account EXCEPT !.lines = [a \in {b \in DOMAIN @ : @[b].limit > 0} |-> @[a]],
                    !.tokens = [a \in {b \in DOMAIN @ : @[b] > 0} |-> @[a]]]

InitialState == [a \in ({Wallet} \cup preloadedAccounts) \cap DOMAIN given.ledger |-> AccountState(given.ledger[a])]

------------------------------------------------------------------------------
MinimumBalance(account) == (2 + account.entries + account.sponsoring - account.sponsored) * Reserve
SpendableNative(account) == Max({0, account.native - MinimumBalance(account)})

Loaded(state, id) == id \in DOMAIN state

\* Operations a caller expects; a send knows which one it built.
ExpectedTypes == IF tx.sent THEN {Ops[1].type} ELSE {"payment", "path", "invoke", "trust"}

Asserted ==
    CASE tx.expired                              -> "expired"
      [] ~isSourceAccount                        -> "source"
      [] hasInvokeHostFunction /\ Len(Ops) # 1   -> "structure"
      [] OTHER                                   -> "ok"

Preflight ==
    CASE Asserted # "ok"                                        -> Asserted
      [] Ops = <<>>                                             -> "empty"
      [] \E i \in DOMAIN Ops : Ops[i].type \notin ExpectedTypes -> "unsupported"
      [] OTHER                                                  -> "ok"

Fee(state) ==
    CASE ~Loaded(state, tx.fee_source)                   -> "not loaded"
      [] SpendableNative(state[tx.fee_source]) < tx.fee  -> "fee"
      [] OTHER                                           -> "ok"

------------------------------------------------------------------------------
\* What the operations ask of a state: validateDebit, validateCredit and the rest.
Debit(account, asset, amount) ==
    IF asset = Native
    THEN IF SpendableNative(account) < amount THEN "balance" ELSE "ok"
    ELSE CASE asset \notin DOMAIN account.lines    -> "no line"
           [] ~account.lines[asset].authorized     -> "unauthorized"
           [] account.lines[asset].balance < amount -> "balance"
           [] OTHER                                -> "ok"

Balance(account, asset) ==
    IF asset = Native THEN account.native ELSE IF asset \in DOMAIN account.lines THEN account.lines[asset].balance ELSE 0

Credit(account, asset, before, amount) ==
    IF asset = Native
    THEN IF before + amount > Top THEN "overflow" ELSE "ok"
    ELSE CASE asset \notin DOMAIN account.lines     -> "no line"
           [] ~account.lines[asset].authorized      -> "unauthorized"
           [] before + amount > account.lines[asset].limit /\ ~tx.skip_limit -> "limit"
           [] OTHER                                 -> "ok"

RequiresMemo(dest) == dest.requiresMemo /\ ~tx.memo /\ ~tx.skip_memo

\* A payment gives what it takes; a path payment takes at most one amount and gives at least another.
Moved(state, op) ==
    LET from == effectiveSource(op)
        same == from = op.dest /\ op.asset = op.out_asset
        debit == Debit(state[from], op.asset, op.amount)
        after == Balance(state[op.dest], op.out_asset) - (IF same THEN op.amount ELSE 0)
    IN  CASE from # op.dest /\ RequiresMemo(state[op.dest]) -> "memo"
          [] debit # "ok" -> debit
          [] OTHER        -> Credit(state[op.dest], op.out_asset, after, op.out)

Created(state, op) ==
    CASE op.amount < CreateMin                                        -> "amount"
      [] SpendableNative(state[effectiveSource(op)]) < op.amount      -> "balance"
      [] Loaded(state, op.dest)                                       -> "exists"
      [] OTHER                                                        -> "ok"

Trusted(state, op) ==
    LET account == state[effectiveSource(op)]
    IN  CASE op.asset = Native                                              -> "native"
          [] op.limit = 0 /\ op.asset \notin DOMAIN account.lines           -> "no line"
          [] op.limit = 0 /\ account.lines[op.asset].balance > 0            -> "not empty"
          [] op.limit = 0                                                   -> "ok"
          [] op.asset \notin DOMAIN account.lines                           ->
                IF SpendableNative(account) < Reserve THEN "reserve" ELSE "ok"
          [] op.limit < account.lines[op.asset].balance                     -> "below balance"
          [] OTHER                                                          -> "ok"

\* Of a contract call only a token's transfer is looked into.
Invoked(state, op) ==
    LET tokens == state[effectiveSource(op)].tokens
    IN  CASE op.asset # Token                    -> "ok"
          [] op.from # effectiveSource(op)       -> "sender"
          [] Token \notin DOMAIN tokens          -> "unknown balance"
          [] tokens[Token] < op.amount           -> "balance"
          [] OTHER                               -> "ok"

Validated(state, op) ==
    CASE ~Loaded(state, effectiveSource(op))                            -> "not loaded"
      [] op.type \in {"payment", "path"} /\ ~Loaded(state, op.dest)     -> "not loaded"
      [] op.type \in {"payment", "path"}                                -> Moved(state, op)
      [] op.type = "create"                                             -> Created(state, op)
      [] op.type = "trust"                                              -> Trusted(state, op)
      [] OTHER                                                          -> Invoked(state, op)

------------------------------------------------------------------------------
\* What the operations do to a state.
Change(account, asset, by) ==
    IF asset = Native THEN [account EXCEPT !.native = @ + by] ELSE [account EXCEPT !.lines[asset].balance = @ + by]

\* A fault to compare with: the line's sponsor is forgotten.
WithoutLineOnly(account, asset) ==
    [account EXCEPT !.entries = Max({0, @ - 1}), !.lines = [a \in DOMAIN @ \ {asset} |-> @[a]]]

WithoutLine(account, asset) ==
    [account EXCEPT !.entries = Max({0, @ - 1}),
                    !.sponsored = IF account.lines[asset].sponsored THEN Max({0, @ - 1}) ELSE @,
                    !.lines = [a \in DOMAIN @ \ {asset} |-> @[a]]]

WithLine(account, asset, limit) ==
    [account EXCEPT !.entries = @ + 1,
                    !.lines = [a \in DOMAIN @ \cup {asset} |->
                        IF a = asset THEN [balance |-> 0, limit |-> limit, authorized |-> TRUE, sponsored |-> FALSE]
                        ELSE @[a]]]

NewAccount(amount) ==
    [native |-> amount, entries |-> 0, sponsoring |-> 0, sponsored |-> 0, requiresMemo |-> FALSE,
     lines |-> [a \in {} |-> 0], tokens |-> [a \in {} |-> 0]]

Trust(account, op) ==
    CASE op.limit = 0                            -> WithoutLine(account, op.asset)
      [] op.asset \notin DOMAIN account.lines    -> WithLine(account, op.asset, op.limit)
      [] OTHER                                   -> [account EXCEPT !.lines[op.asset].limit = op.limit]

Create(state, from, op) ==
    [a \in DOMAIN state \cup {op.dest} |->
        CASE a = op.dest -> NewAccount(op.amount)
          [] a = from    -> Change(state[a], Native, -op.amount)
          [] OTHER       -> state[a]]

Move(state, from, op) ==
    LET taken == [state EXCEPT ![from] = Change(@, op.asset, -op.amount)]
    IN  [taken EXCEPT ![op.dest] = Change(@, op.out_asset, op.out)]

Applied(state, op) ==
    LET from == effectiveSource(op)
    IN  CASE op.type \in {"payment", "path"} -> Move(state, from, op)
          [] op.type = "create"              -> Create(state, from, op)
          [] op.type = "trust"               -> [state EXCEPT ![from] = Trust(@, op)]
          [] OTHER                           -> state

------------------------------------------------------------------------------
Unstarted == stack = <<>> /\ verdict = "running"

Start ==
    /\ verdict = "running" /\ stack = <<>>
    /\ LET preflight == Preflight
           fee       == Fee(InitialState)
           refused   == IF preflight # "ok" THEN preflight ELSE fee
       IN  IF refused # "ok"
           THEN verdict' = refused /\ UNCHANGED stack
           ELSE /\ stack' = <<[InitialState EXCEPT ![tx.fee_source] = Change(@, Native, -tx.fee)]>>
                /\ UNCHANGED verdict
    /\ UNCHANGED given

Operate ==
    /\ verdict = "running" /\ stack # <<>> /\ Len(stack) <= Len(Ops)
    /\ LET op == Ops[Len(stack)] IN
       IF Validated(Last(stack), op) = "ok"
       THEN stack' = Append(stack, Applied(Last(stack), op)) /\ UNCHANGED verdict
       ELSE verdict' = Validated(Last(stack), op) /\ UNCHANGED stack
    /\ UNCHANGED given

Accept ==
    /\ verdict = "running" /\ stack # <<>> /\ Len(stack) > Len(Ops)
    /\ verdict' = "accepted" /\ UNCHANGED <<given, stack>>

Next == Start \/ Operate \/ Accept

------------------------------------------------------------------------------
Total(state, asset) == FoldSet(LAMBDA a, sum : sum + Balance(state[a], asset), 0, DOMAIN state)

(* An account that could keep its reserve before still can after every operation: the fee, the payments and the
   entries that operations add up never eat into what the network would refuse to release. *)
ReserveKept ==
    \A i \in DOMAIN stack : \A a \in DOMAIN stack[i] :
        (a \in DOMAIN InitialState => InitialState[a].native >= MinimumBalance(InitialState[a]))
            => stack[i][a].native >= MinimumBalance(stack[i][a])

(* Nothing is made or lost on the way: over all accounts, operations other than path payments keep the sum of every
   asset, and a path payment moves exactly what it takes and gives. *)
Conserved ==
    \A i \in DOMAIN stack : i > 1 =>
        \A asset \in Classic \cup {Native} :
            LET op == Ops[i - 1]
            IN  Total(stack[i], asset) = Total(stack[i - 1], asset)
                    + (IF op.type = "path" /\ op.out_asset = asset THEN op.out ELSE 0)
                    - (IF op.type = "path" /\ op.asset = asset THEN op.amount ELSE 0)

(* A line never holds less than nothing nor, unless the caller lets it, more than its limit; and entries, sponsored
   ones too, are counted with the lines, so that the next operation's reserve is right. *)
Sponsored(account) == {asset \in DOMAIN account.lines : account.lines[asset].sponsored}

LinesCounted ==
    \A i \in DOMAIN stack : \A a \in DOMAIN stack[i] :
        LET account == stack[i][a]
        IN  /\ \A asset \in DOMAIN account.lines : account.lines[asset].balance >= 0
                    /\ (~tx.skip_limit => account.lines[asset].balance <= account.lines[asset].limit)
            /\ a \in DOMAIN InitialState =>
                 /\ account.entries - Cardinality(DOMAIN account.lines)
                        = InitialState[a].entries - Cardinality(DOMAIN InitialState[a].lines)
                 /\ account.sponsored - Cardinality(Sponsored(account))
                        = InitialState[a].sponsored - Cardinality(Sponsored(InitialState[a]))

(* The transaction as a whole: an accepted one was tried to its end, paid for by a loaded account, and moved nothing
   out of the wallet's account but by operations whose source it is. *)
OnlySourcesPay ==
    verdict = "accepted" /\ Wallet \notin {effectiveSource(Ops[i]) : i \in DOMAIN Ops} =>
        \A asset \in Classic \cup {Native} :
            Balance(Last(stack)[Wallet], asset)
                >= Balance(InitialState[Wallet], asset) - (IF asset = Native /\ tx.fee_source = Wallet THEN tx.fee ELSE 0)

SimulationRight == ReserveKept /\ Conserved /\ LinesCounted /\ OnlySourcesPay
=============================================================================
