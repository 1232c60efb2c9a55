--------------------------- MODULE MCStellarWallet ---------------------------
(***************************************************************************)
(* The parts of the Stellar wallet that are checked together: a behaviour  *)
(* runs one part. Synchronisation keeps its own variables, which the other *)
(* parts leave as they are; those find theirs in v1, ..., v19. Inputs of   *)
(* computations are families.                                              *)
(***************************************************************************)
EXTENDS StellarSynchronize, Sequences, TLC

CONSTANTS Parts, x, y, t, c1, c2, Absent

VARIABLES part, v1, v2, v3, v4, v5, v6, v7, v8, v9, v10, v11, v12, v13, v14, v15, v16, v17, v18, v19

slots      == <<v1, v2, v3, v4, v5, v6, v7, v8, v9, v10, v11, v12, v13, v14, v15, v16, v17, v18, v19>>
walletVars == <<part, vars, slots>>

\* x sends s to y as a SEP-41 token and gets a dust payment d.
Transactions == INSTANCE StellarTransactions WITH
    Accounts <- {"x", "y"}, Txs <- {"s", "d"}, Owner <- [s |-> "x", d |-> "x"], Sent <- {"s"},
    Dust <- {"d"}, Recipient <- [s |-> "y", d |-> "nobody"], NoOne <- "nobody", PageLimit <- 1,
    MaxAttempts <- 2, PromptWallet <- TRUE,
    ledger <- v1, outcome <- v2, wallet <- v3, aged <- v4, held <- v5, tries <- v6, cursor <- v7, first <- v8,
    told <- v9, delivered <- v10, run <- v11, accts <- v12, cHeld <- v13, cTries <- v14, cCursor <- v15,
    cFirst <- v16, page <- v17, lookups <- v18, toSave <- v19

\* A tracked payment between the accounts of the keyring, looked up to three times.
Tracking == INSTANCE StellarSynchronize WITH
    Accounts <- {"x", "y"}, Selections <- {{"x"}}, Txs <- {"t"}, Sender <- [t |-> "x"], Receiver <- [t |-> "y"],
    NoAccount <- "nobody", Calls <- {"c"}, NoCall <- "none", MaxVersion <- 1, MaxReschedules <- 2,
    chain <- v1, tx <- v2, ready <- v3, selected <- v4, events <- v5, snapshot <- v6, lock <- v7, inSync <- v8,
    pc <- v9, accts <- v10, waiting <- v11, got <- v12, saving <- v13, history <- v14, track <- v15, asked <- v16,
    finalized <- v17

Simulation == INSTANCE StellarSimulation WITH
    Wallet <- "w", Native <- "xlm", Classic <- {"c"}, Token <- "tok", NoAccount <- "none", Reserve <- 1,
    CreateMin <- 2, Top <- 6, given <- v1, stack <- v2, verdict <- v3

\* What is mapped and what is written out take turns in the slots.
Mapper == INSTANCE StellarMapper WITH
    Me <- "me", Native <- "xlm", Dust <- 1, Known <- {"tok"}, Nothing <- Absent, NoSource <- Absent, Undefined <- x,
    Broken <- y, given <- v1, entry <- v2, proposed <- v1, shown <- v2

Send == INSTANCE StellarSend WITH
    Kinds <- {"native", "token", "optIn", "optOut", "swap", "quote", "typing native", "typing token"},
    Amounts <- {1, 2}, Resource <- 1, CreateMin <- 2, MaxFee <- 2, MaxMoves <- 1, Nothing <- Absent,
    Swaps <- [theirs : BOOLEAN, contract : BOOLEAN, fee : {1}, seq : {1, 2}, amount : {1}, type : {"swap", "none"}],
    chain <- v1, saved <- v2, cache <- v3, request <- v4, call <- v5, sent <- v6, after <- v7, moves <- v8

Creating == INSTANCE StellarKeyring WITH
    Sources <- {"s"}, Calls <- {"c", "d"}, Kinds <- {"create"}, MaxIndex <- 1, Tokens <- {}, Catalogue <- {},
    Ledger <- [v \in {0} |-> {}], MaxIds <- 2, MaxDeletions <- 1, MaxSignatures <- 0,
    accounts <- v1, drawn <- v2, deleted <- v3, calls <- v4, signed <- v5, chain <- v6, cache <- v7, told <- v8

Signing == INSTANCE StellarKeyring WITH
    Sources <- {"s"}, Calls <- {"c", "d"}, Kinds <- {"create", "sign"}, MaxIndex <- 0, Tokens <- {}, Catalogue <- {},
    Ledger <- [v \in {0} |-> {}], MaxIds <- 1, MaxDeletions <- 1, MaxSignatures <- 1,
    accounts <- v1, drawn <- v2, deleted <- v3, calls <- v4, signed <- v5, chain <- v6, cache <- v7, told <- v8

Reading == INSTANCE StellarKeyring WITH
    Sources <- {"s"}, Calls <- {"c", "d"}, Kinds <- {"read"}, MaxIndex <- 0, Tokens <- {"tok", "new"},
    Catalogue <- {"tok"}, Ledger <- [v \in 0..2 |-> IF v = 0 THEN {} ELSE {"native", IF v = 1 THEN "tok" ELSE "new"}],
    MaxIds <- 0, MaxDeletions <- 0, MaxSignatures <- 0,
    accounts <- v1, drawn <- v2, deleted <- v3, calls <- v4, signed <- v5, chain <- v6, cache <- v7, told <- v8

Proving == INSTANCE OwnershipProofs WITH
    Wallet <- "stellar", Accounts <- {"a", "b"}, Source <- [a |-> "s", b |-> "t"], Names <- {"a", "A", "b", "x"},
    Of <- [a |-> "a", A |-> "a", b |-> "b", x |-> "nobody"], Longest <- 2, MaxFaults <- 2, batch <- v1, results <- v2

ASSUME Assumptions ==
    /\ Simulation!StellarSimulationAssumption /\ Mapper!StellarMapperAssumption /\ Send!StellarSendAssumption
    /\ Creating!StellarKeyringAssumption /\ Signing!StellarKeyringAssumption /\ Reading!StellarKeyringAssumption
    /\ Proving!OwnershipProofsAssumption

MCGrow     == {{y}, {x, y}}
MCSender   == t :> x
MCReceiver == t :> NoAccount
MCSymmetry == Permutations({c1, c2})

------------------------------------------------------------------------------
\* Transactions that are simulated, and the ledger they meet: the wallet w, and d, which there may be.
Line  == {<<>>} \cup {"c" :> l : l \in [balance : 0..1, limit : {2}, authorized : BOOLEAN, sponsored : BOOLEAN]}
Holder(native, line, memo, tokens) ==
    [native |-> native, entries |-> Cardinality(DOMAIN line), sponsoring |-> 0, requiresMemo |-> memo,
     sponsored |-> Cardinality({a \in DOMAIN line : line[a].sponsored}), lines |-> line, tokens |-> tokens]

Wallets == {Holder(n, l, FALSE, "tok" :> 1) : n \in 3..6, l \in Line}
Others  == {Holder(n, l, m, <<>>) : n \in {3}, m \in BOOLEAN,
                l \in {k \in Line : \A a \in DOMAIN k : ~k[a].sponsored /\ k[a].balance = 1}}

Op(type, dest, asset, amount, out_asset, out) ==
    [type |-> type, source |-> "none", dest |-> dest, asset |-> asset, amount |-> amount, out_asset |-> out_asset,
     out |-> out, limit |-> 0, from |-> "w"]

Payments == {Op("payment", d, a, n, a, n) : d \in {"d", "w"}, a \in {"xlm", "c"}, n \in 1..2}
ByOther  == {[op EXCEPT !.source = "d"] : op \in Payments}
Creates  == {Op("create", "d", "xlm", n, "xlm", n) : n \in 1..3}
PathOps  == {Op("path", d, a, 1, b, 1) : d \in {"d", "w"}, a \in {"xlm", "c"}, b \in {"xlm", "c"}}
Trusts   == {[Op("trust", "w", "c", 0, "c", 0) EXCEPT !.limit = l] : l \in 0..2}
Invokes  == {[Op("invoke", "d", a, n, a, n) EXCEPT !.from = f] : a \in {"tok", "other"}, n \in 1..2, f \in {"w", "d"}}

Lists ==
    {<<op>> : op \in Payments \cup ByOther \cup PathOps \cup Trusts \cup Invokes}
    \cup {<<p, q>> : p \in Trusts, q \in Payments \cup PathOps} \cup {<<p, q>> : p \in Payments, q \in Trusts}
    \cup {<<p, q>> : p \in ByOther, q \in {r \in Payments : r.amount = 1}}

Transaction(ops, fee_source, sent, flag) ==
    [ops |-> ops, source |-> "w", fee_source |-> fee_source, fee |-> 1, expired |-> FALSE, sent |-> sent,
     memo |-> FALSE, skip_memo |-> flag, skip_limit |-> flag]

Simulated ==
    \/ \E ops \in Lists, f \in {"w", "d"}, w \in Wallets, d \in {h \in Others : ~h.requiresMemo} :
            v1 = [tx |-> Transaction(ops, f, FALSE, FALSE), ledger |-> "w" :> w @@ "d" :> d]
    \/ \E op \in Payments \cup Trusts, g \in BOOLEAN, w \in Wallets, d \in Others :
            v1 = [tx |-> Transaction(<<op>>, "w", TRUE, g), ledger |-> "w" :> w @@ "d" :> d]
    \/ \E op \in Creates, w \in Wallets : v1 = [tx |-> Transaction(<<op>>, "w", TRUE, FALSE), ledger |-> "w" :> w]

------------------------------------------------------------------------------
\* Transactions of the ledger that are mapped, and what the wallet has of them.
Done(type, dest, asset, amount, out) ==
    [type |-> type, dest |-> dest, asset |-> asset, amount |-> amount, out_asset |-> IF asset = "xlm" THEN "c" ELSE "xlm",
     out |-> out, pool |-> FALSE, transfer |-> FALSE, sender |-> Absent, wellFormed |-> TRUE]

MappedPayments == {Done(k, d, a, n, n) : k \in {"payment", "create"}, d \in {"me", "you"}, a \in {"xlm", "c"}, n \in 1..2}
MappedPaths    == {Done(k, d, "xlm", 3, 1) : k \in {"path send", "path receive"}, d \in {"me", "you"}}
MappedTrusts   == {[Done("trust", "me", "c", n, 0) EXCEPT !.pool = p] : n \in 0..1, p \in BOOLEAN}
MappedInvokes  ==
    {[Done("invoke", d, a, 1, 0) EXCEPT !.transfer = f, !.sender = s, !.wellFormed = w] :
        d \in {"me", "you"}, a \in {"tok", "new"}, f \in BOOLEAN, s \in {"me", "you"}, w \in BOOLEAN}

OpLists ==
    {<<op>> : op \in MappedPayments \cup MappedPaths \cup MappedTrusts \cup MappedInvokes \cup {Done("other", "you", "c", 0, 0)}}
    \cup {<<p, q>> : p \in MappedTrusts, q \in MappedPaths}
    \cup {<<p, q>> : p \in MappedPaths, q \in {o \in MappedPayments : o.type = "payment"}}
    \cup {<<p, q>> : p, q \in {o \in MappedPayments : o.type = "payment" /\ o.asset = "c"}}

ResultsOf(ops) ==
    {[i \in DOMAIN ops |-> [type |-> ops[i].type, last |-> 2, offers |-> o]] : o \in {<<2>>, <<1, 2>>, <<>>}}
    \cup {<<>>}

Transfers == {<<>>, <<[name |-> "transfer", from |-> "you", to |-> "me", asset |-> "tok", amount |-> 1]>>}

SavedEntries ==
    {Absent} \cup {[type |-> k, from |-> "me", to |-> "you", give |-> "xlm", given |-> 1, get |-> "c", got |-> 1,
                    status |-> "submitted", events |-> <<"submitted">>] : k \in {"send", "swap"}}

Mapped ==
    \E ops \in OpLists, s \in {"me", "you"}, f \in BOOLEAN, r \in {"read", "none"} :
    \E results \in ResultsOf(ops), saved \in SavedEntries, e \in IF ops[1].type = "invoke" THEN Transfers ELSE {<<>>} :
        v1 = [tx |-> [ops |-> ops, source |-> s, fee_source |-> s, failed |-> f, result |-> r, results |-> results,
                      events |-> e], saved |-> saved]

------------------------------------------------------------------------------
\* Two operations of one type, that differ in a field, and contract calls with what they authorise.
Table == Mapper!PaymentFields @@ Mapper!OfferFields @@ Mapper!OptionFields @@ Mapper!OtherFields

Unchanged(key) ==
    CASE key \in {"setFlags", "clearFlags"} -> {"authRequired"}
      [] key = "claimants" -> <<[destination |-> 1, predicate |-> [type |-> "before", time |-> 1]]>>
      [] OTHER -> 1
Changed(key) ==
    CASE key \in {"setFlags", "clearFlags"} -> {{"authRevocable", "new"}}
      [] key = "claimants" ->
            {<<[destination |-> 1, predicate |-> p]>> :
                p \in {[type |-> "not", of |-> <<[type |-> "before", time |-> 1]>>], [type |-> "within", time |-> 1],
                       [type |-> "and", of |-> <<[type |-> "before", time |-> 1], [type |-> "within", time |-> 2]>>]}}
      [] OTHER -> {2}

Values(keys, optional) ==
    LET plain == [k \in keys |-> Unchanged(k)]
    IN  {plain} \cup UNION {{[plain EXCEPT ![k] = v] : v \in Changed(k) \cup (IF optional THEN {x} ELSE {})} : k \in keys}

Revoked == {{"seller", "offerId"}, {"balanceId"}, {"liquidityPoolId"}, {"account", "name"}, {"account", "signer"},
            {"account", "asset"}, {"account"}}

Tried(ops) == \E f \in {"me", "you"} : v1 = [source |-> "me", fee_source |-> f, fee |-> 1, memo |-> 1, ops |-> ops]

TriedPair(type, values) ==
    \E v \in values, w \in values, s \in {Absent, "you"}, r \in {Absent, "you"} :
        Tried(<<[type |-> type, source |-> s, value |-> v], [type |-> type, source |-> r, value |-> w]>>)

Invocations == [kind : {"invoke"}, contract : {1, y}, name : {"pay"}, args : {<<>>, <<1>>}]
Creations   == [kind : {"createContract", "createContractV2"}, preimage : {"asset", "address"}, asset : {1},
                deployer : {1, y}, salt : {1}, executable : {1}, args : {<<>>, <<1>>}]
Uploads     == [kind : {"upload"}, wasm : {1}]

Leaves == {[call |-> made, sub |-> <<>>] : made \in Invocations \cup Uploads \cup {c \in Creations : c.args # <<>>}}
Deeper == {[call |-> made, sub |-> <<l>>] : made \in Invocations, l \in Leaves}
Roots  == Leaves \cup Deeper \cup {[call |-> made, sub |-> <<d>>] :
              made \in {c \in Invocations : c.args = <<>>}, d \in {e \in Deeper : e.call.args = <<>>}}

Auths == {<<>>} \cup {<<[root |-> r, address |-> 1]>> : r \in Roots}
         \cup {<<[root |-> r, address |-> 1], [root |-> l, address |-> 2]>> : r \in Deeper, l \in Leaves}

Written ==
    \/ \E k \in DOMAIN Table : TriedPair(k, Values({Table[k][i] : i \in DOMAIN Table[k]}, k = "setOptions"))
    \/ \E keys \in Revoked : TriedPair("revoke", Values(keys, FALSE))
    \/ \E made \in Invocations \cup Creations \cup Uploads, a \in Auths :
            Tried(<<[type |-> "invokeHostFunction", source |-> Absent, call |-> made, auth |-> a]>>)
    \/ Tried(<<[type |-> "extendFootprintTtl", source |-> Absent, value |-> [extendTo |-> 1]],
               [type |-> "restoreFootprint", source |-> Absent, value |-> <<>>]>>)

\* Of the accounts that send, those that differ in what the request looks at.
Requests ==
    /\ v1.line => v4.kind \notin {"token", "typing token"}
    /\ v4.kind \notin {"token", "typing token", "swap"} => v1.token = 0
    /\ v4.kind \notin {"typing native", "typing token"} => v2 = Absent

------------------------------------------------------------------------------
\* Slots a part does not use.
Free9 == v9 = 0 /\ v10 = 0 /\ v11 = 0 /\ v12 = 0 /\ v13 = 0 /\ v14 = 0 /\ v15 = 0 /\ v16 = 0 /\ v17 = 0 /\ v18 = 0 /\ v19 = 0
Free4 == v4 = 0 /\ v5 = 0 /\ v6 = 0 /\ v7 = 0 /\ v8 = 0 /\ Free9
Free3 == v3 = 0 /\ Free4

MCInit ==
    /\ part \in Parts
    /\ Init /\ (part # "synchronize" => selected = {y})
    /\ CASE part = "transactions" -> Transactions!Init
         [] part = "tracking"     -> Tracking!Init /\ v18 = 0 /\ v19 = 0
         [] part = "simulation"   -> Simulated /\ v2 = <<>> /\ v3 = "running" /\ Free4
         [] part = "mapper"       -> Mapped /\ v2 = Absent /\ Free3
         [] part = "readable"     -> Written /\ v2 = <<>> /\ Free3
         [] part = "send"         -> Send!Init /\ Requests /\ Free9
         [] part = "creating"     -> Creating!Init /\ Free9
         [] part = "signing"      -> Signing!Init /\ Free9
         [] part = "reading"      -> Reading!Init /\ Free9
         [] part = "proving"      -> Proving!Init /\ Free3
         [] OTHER                 -> v1 = 0 /\ v2 = 0 /\ Free3

Keep9 == UNCHANGED <<v9, v10, v11, v12, v13, v14, v15, v16, v17, v18, v19>>
Keep4 == UNCHANGED <<v4, v5, v6, v7, v8>> /\ Keep9
Keep3 == UNCHANGED v3 /\ Keep4

Synchronizing(Action) == part = "synchronize" /\ Action /\ UNCHANGED <<part, slots>>
Running(of, Action)   == part = of /\ Action /\ UNCHANGED <<part, vars>>

MCNext ==
    \/ Synchronizing(Next)
    \/ Running("transactions", Transactions!Next)
    \/ Running("tracking", Tracking!Next /\ UNCHANGED <<v18, v19>>)
    \/ Running("simulation", Simulation!Next /\ Keep4)
    \/ Running("mapper", Mapper!Next /\ Keep3)
    \/ Running("readable", Mapper!ReadableNext /\ Keep3)
    \/ Running("send", Send!Next /\ Keep9)
    \/ Running("creating", Creating!Next /\ Keep9)
    \/ Running("signing", Signing!Next /\ Keep9)
    \/ Running("reading", Reading!Next /\ Keep9)
    \/ Running("proving", Proving!Next /\ Keep3)

MCSpec == MCInit /\ [][MCNext]_walletVars

------------------------------------------------------------------------------
\* Between two accounts: what the cursor has passed was told, a payment's recipient included, and what the controller
\* shows as pending can still be corrected; a tracked payment is final once (TransactionSynchronizeService,
\* savePendingKeyringTransaction, trackTransaction).
HistoryRight ==
    /\ part = "transactions" => Transactions!TypeOK /\ Transactions!HistoryComplete /\ Transactions!PendingCorrectable
    /\ part = "tracking" => Tracking!TypeOK /\ Tracking!RunsExclusive

\* What a transaction is said to do is what it does: simulated before it is sent, mapped when the ledger has it, and
\* written out in the dialog (TransactionSimulator, TransactionMapper, OperationMapper).
AmountsRight ==
    /\ part = "simulation" => Simulation!SimulationRight
    /\ part = "mapper" => Mapper!MappedRight
    /\ part = "readable" => Mapper!NothingHidden /\ Mapper!ShownApart

\* What is sent and signed is what was agreed to, for the account that was asked, and the balances that are listed are
\* there to be spent (SendHandler, the SEP-43 handlers, the keyring).
SentRight ==
    /\ part = "send" => Send!SendRight
    /\ part = "creating" => Creating!TypeOK /\ Creating!CreatedAsAsked
    /\ part = "signing" => Signing!TypeOK /\ Signing!CreatedAsAsked /\ Signing!SignedKnowingly
    /\ part = "reading" => Reading!TypeOK /\ Reading!ListedHaveBalances
    /\ part = "proving" => Proving!BatchIsSingles /\ Proving!MessagesAreOwn
==============================================================================
