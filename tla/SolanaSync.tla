----------------------------- MODULE SolanaSync -----------------------------
(***************************************************************************)
(* What the Solana wallet keeps of the chain: the balance and the history  *)
(* of each account. Three writers share them: synchronisations, of which   *)
(* one runs at a time for a set of accounts, the handlers of notifications *)
(* about accounts, and the sender of a transaction with the monitor of its *)
(* signature. A step ends where the code awaits. And how a transaction, as *)
(* the node tells it, becomes an entry of an account's history: who gave   *)
(* and got what is read from the balances before and after when it         *)
(* succeeded and from the instructions when it failed; then its type, its  *)
(* fees and whether it is hidden as spam.                                  *)
(***************************************************************************)
EXTENDS Integers, Sequences, FiniteSets, FiniteSetsExt

CONSTANTS
    Accounts, Txs,
    Touches,     \* the accounts whose address a transaction names, and
    Tokens,      \* those it only reaches at their account of a token
    Sender,      \* the account that sends it from this wallet; others land by themselves
    Spam,        \* pairs of an account and a transaction isSpam drops for it
    Sets,        \* the sets of accounts that are synchronised
    Limit, Total,\* 5 signatures of an address, 20 in a run
    MaxTroubles, \* bound: requests that fail and restarts
    Parties, Me, \* addresses a transaction names, and that of the account it is mapped for
    Mints,       \* tokens
    Dust,        \* SOL received below this is spam: 0.001
    Base         \* the fee of a signature: 5000 lamports

SolanaSyncAssumption ==
    /\ IsFiniteSet(Accounts) /\ IsFiniteSet(Txs) /\ Sets \subseteq SUBSET Accounts
    /\ Touches \in [Txs -> SUBSET Accounts] /\ Tokens \in [Txs -> SUBSET Accounts]
    /\ DOMAIN Sender \subseteq Txs /\ \A t \in DOMAIN Sender : Sender[t] \in Touches[t]
    /\ Spam \subseteq Accounts \X Txs
    /\ Limit \in Nat \ {0} /\ Total \in Nat \ {0} /\ MaxTroubles \in Nat
    /\ IsFiniteSet(Parties) /\ Me \in Parties /\ IsFiniteSet(Mints) /\ "sol" \notin Mints
    /\ Dust \in Nat /\ Base \in Nat

VARIABLES
    chain,    \* the confirmed transactions, oldest first
    stored,   \* the state's transactions, by account: "none", "pending" or "confirmed"
    balance,  \* the balance the state holds: the number of the account's transactions it reflects
    told,     \* the balance the client was told last
    sends,    \* the flow of each transaction sent here
    runs,     \* the synchronisation of each set
    notes,    \* notifications of an account that are being handled
    causes,   \* their searches for the transaction
    troubles,
    given, entry \* a transaction as the node tells it, and what it becomes

syncVars   == <<chain, stored, balance, told, sends, runs, notes, causes, troubles>>
mapperVars == <<given, entry>>

Pairs == Accounts \X Txs
Levels == 0..Cardinality(Txs)
NoRun == [pc |-> "idle", seen |-> <<>>, telling |-> {}, found |-> {}]

TypeOK ==
    /\ chain \in Seq(Txs) /\ stored \in [Pairs -> {"none", "pending", "confirmed"}]
    /\ balance \in [Accounts -> Levels] /\ told \in [Accounts -> Levels]
    /\ sends \in [DOMAIN Sender -> {"idle", "sent", "saved", "monitored", "done"}]
    /\ \A s \in Sets : /\ runs[s].pc \in {"idle", "balances", "save", "tell", "search", "fetch"}
                       /\ DOMAIN runs[s].seen \subseteq s /\ runs[s].found \subseteq s \X Txs
    /\ notes \subseteq [account : Accounts, level : Levels, pc : {"save", "tell"}]
    /\ causes \subseteq [account : Accounts, token : BOOLEAN]
    /\ troubles \in 0..MaxTroubles

Init ==
    /\ chain = <<>> /\ stored = [p \in Pairs |-> "none"]
    /\ balance = [a \in Accounts |-> 0] /\ told = balance
    /\ sends = [t \in DOMAIN Sender |-> "idle"] /\ runs = [s \in Sets |-> NoRun]
    /\ notes = {} /\ causes = {} /\ troubles = 0

Fails == troubles < MaxTroubles /\ troubles' = troubles + 1

------------------------------------------------------------------------------
\* The chain.
Place(t)   == CHOOSE i \in DOMAIN chain : chain[i] = t
Landed     == {chain[i] : i \in DOMAIN chain}
Later(t, u) == Place(t) > Place(u)
Newest(n, T) == {t \in T : Cardinality({u \in T : Later(u, t)}) < n}
Level(a)   == Cardinality({t \in Landed : a \in Touches[t]})

\* A transaction lands. The client may be away: then nobody is notified.
Land(t, notified) ==
    /\ t \notin Landed
    /\ t \in DOMAIN Sender => sends[t] # "idle"
    /\ chain' = Append(chain, t)
    /\ notes' = notes \cup {[account |-> a, level |-> Level(a) + 1, pc |-> "save"] : a \in notified \cap Touches[t]}
    /\ causes' = causes \cup {[account |-> a, token |-> FALSE] : a \in notified \cap Touches[t]}
                         \cup {[account |-> a, token |-> TRUE] : a \in notified \cap Tokens[t]}
    /\ UNCHANGED <<stored, balance, told, sends, runs, troubles>>

------------------------------------------------------------------------------
\* saveMany of the transactions: one of the same signature is replaced.
SaveTransactions(found, status) ==
    stored' = [p \in Pairs |-> IF p \in found THEN status ELSE stored[p]]

\* saveMany of the assets writes them and then tells the client of all of them, whether they changed or not.
Put(old, new) == [a \in Accounts |-> IF a \in DOMAIN new THEN new[a] ELSE old[a]]
ToTell(seen) == DOMAIN seen

\* synchronize; a call for a set that is being synchronised joins that run.
Start(s) ==
    /\ runs[s] = NoRun
    /\ runs' = [runs EXCEPT ![s].pc = "balances"]
    /\ UNCHANGED <<chain, stored, balance, told, sends, notes, causes, troubles>>

\* fetchAccountAssets; an account whose balance cannot be fetched is left out of the run.
FetchBalances(s) ==
    /\ runs[s].pc = "balances"
    /\ \E ok \in SUBSET s :
          /\ IF ok = s THEN UNCHANGED troubles ELSE Fails
          /\ runs' = [runs EXCEPT ![s].pc = "save", ![s].seen = [a \in ok |-> Level(a)]]
    /\ UNCHANGED <<chain, stored, balance, told, sends, notes, causes>>

SaveBalances(s) ==
    /\ runs[s].pc = "save"
    /\ balance' = Put(balance, runs[s].seen)
    /\ runs' = [runs EXCEPT ![s].pc = "tell", ![s].telling = ToTell(runs[s].seen)]
    /\ UNCHANGED <<chain, stored, told, sends, notes, causes, troubles>>

TellBalances(s) ==
    /\ runs[s].pc = "tell"
    /\ told' = Put(told, [a \in runs[s].telling |-> runs[s].seen[a]])
    /\ runs' = [runs EXCEPT ![s].pc = "search", ![s].telling = {}]
    /\ UNCHANGED <<chain, stored, balance, sends, notes, causes, troubles>>

\* fetchAssetsTransactions. The newest saved transaction of a token, whichever account it is saved for, is
\* where the search of that token ends; that of SOL is never found, for its assets are looked up by address.
Names(a)  == {t \in Landed : a \in Touches[t]}
Moves(a)  == {t \in Landed : a \in Tokens[t]}
Known     == {t \in Landed : Tokens[t] # {} /\ \E a \in Accounts : stored[a, t] = "confirmed"}
AfterKnown(T) == {t \in T : \A u \in Known : Later(t, u)}
FoundFor(a) == {a} \X (Newest(Limit, Names(a)) \cup Newest(Limit, AfterKnown(Moves(a))))
Cut(n, F) == {G \in kSubset(IF Cardinality(F) < n THEN Cardinality(F) ELSE n, F) :
                \A p \in F \ G, q \in G : ~Later(p[2], q[2])}

Search(s) ==
    /\ runs[s].pc = "search"
    /\ \E found \in Cut(Total, UNION {FoundFor(a) : a \in DOMAIN runs[s].seen}) :
          runs' = [runs EXCEPT ![s].pc = "fetch", ![s].seen = <<>>, ![s].found = found]
    /\ UNCHANGED <<chain, stored, balance, told, sends, notes, causes, troubles>>

\* Addresses and transactions that cannot be fetched are left out.
FetchAndSave(s) ==
    /\ runs[s].pc = "fetch"
    /\ \E got \in SUBSET runs[s].found :
          /\ IF got = runs[s].found THEN UNCHANGED troubles ELSE Fails
          /\ SaveTransactions(got \ Spam, "confirmed")
    /\ runs' = [runs EXCEPT ![s] = NoRun]
    /\ UNCHANGED <<chain, balance, told, sends, notes, causes>>

RunStep(s) == FetchBalances(s) \/ SaveBalances(s) \/ TellBalances(s) \/ Search(s) \/ FetchAndSave(s)

------------------------------------------------------------------------------
\* A notification carries the balance; the transaction that caused it is looked for beside that.
HandleNote(n) ==
    /\ n \in notes
    /\ IF n.pc = "save"
       THEN /\ balance' = [balance EXCEPT ![n.account] = n.level]
            /\ notes' = (notes \ {n}) \cup {[n EXCEPT !.pc = "tell"]}
            /\ UNCHANGED told
       ELSE /\ told' = [told EXCEPT ![n.account] = n.level]
            /\ notes' = notes \ {n}
            /\ UNCHANGED balance
    /\ UNCHANGED <<chain, stored, sends, runs, causes, troubles>>

\* #saveCausingTransaction takes the newest one of the address.
HandleCause(c) ==
    /\ c \in causes
    /\ causes' = causes \ {c}
    /\ LET newest == Newest(1, IF c.token THEN Moves(c.account) ELSE Names(c.account))
       IN  \/ SaveTransactions(({c.account} \X newest) \ Spam, "confirmed") /\ UNCHANGED troubles
           \/ Fails /\ UNCHANGED stored
    /\ UNCHANGED <<chain, balance, told, sends, runs, notes>>

------------------------------------------------------------------------------
\* signAndSendTransaction: send, save as pending, monitor.
Send(t) ==
    /\ sends[t] = "idle"
    /\ sends' = [sends EXCEPT ![t] = "sent"]
    /\ UNCHANGED <<chain, stored, balance, told, runs, notes, causes, troubles>>

SavePending(t) ==
    /\ sends[t] = "sent"
    /\ sends' = [sends EXCEPT ![t] = "saved"]
    /\ \/ SaveTransactions({<<Sender[t], t>>}, "pending") /\ UNCHANGED troubles
       \/ Fails /\ UNCHANGED stored
    /\ UNCHANGED <<chain, balance, told, runs, notes, causes>>

Monitor(t) ==
    /\ sends[t] = "saved"
    /\ sends' = [sends EXCEPT ![t] = "monitored"]
    /\ UNCHANGED <<chain, stored, balance, told, runs, notes, causes, troubles>>

\* #handleSignatureNotification gives up when it cannot fetch the transaction.
Monitored(t) ==
    /\ sends[t] = "monitored" /\ t \in Landed
    /\ sends' = [sends EXCEPT ![t] = "done"]
    /\ \/ SaveTransactions({<<Sender[t], t>>}, "confirmed") /\ UNCHANGED troubles
       \/ Fails /\ UNCHANGED stored
    /\ UNCHANGED <<chain, balance, told, runs, notes, causes>>

\* Runs, handlers and a send that does not monitor yet end with the snap; subscriptions are stored.
Restart ==
    /\ Fails
    /\ runs' = [s \in Sets |-> NoRun] /\ notes' = {} /\ causes' = {}
    /\ sends' = [t \in DOMAIN Sender |-> IF sends[t] \in {"sent", "saved"} THEN "done" ELSE sends[t]]
    /\ UNCHANGED <<chain, stored, balance, told>>

Working(t) == SavePending(t) \/ Monitor(t) \/ Monitored(t)
Handling == (\E n \in notes : HandleNote(n)) \/ (\E c \in causes : HandleCause(c))

Next ==
    \/ \E t \in Txs : Land(t, {}) \/ Land(t, Touches[t] \cup Tokens[t])
    \/ \E s \in Sets : Start(s) \/ RunStep(s)
    \/ \E t \in DOMAIN Sender : Send(t) \/ Working(t)
    \/ Handling \/ Restart

Spec == Init /\ [][Next]_syncVars

\* What is awaited returns; nobody has to ask for a synchronisation.
FairSpec ==
    /\ Spec
    /\ \A s \in Sets : WF_syncVars(RunStep(s))
    /\ \A t \in DOMAIN Sender : WF_syncVars(Working(t))
    /\ WF_syncVars(Handling)

------------------------------------------------------------------------------
\* What is stored as confirmed is on the chain and the account's, and no spam unless the account sent it; what
\* is stored as pending will be replaced, unless something failed (TransactionsRepository.saveMany,
\* WalletService.ts:378: "The signature monitor replaces it with the fully mapped transaction").
HistoryHonest ==
    \A p \in Pairs :
        LET a == p[1]  t == p[2]
            sent == t \in DOMAIN Sender /\ a = Sender[t]
        IN  /\ stored[p] = "confirmed" => t \in Landed /\ a \in Touches[t] \cup Tokens[t] /\ (p \in Spam => sent)
            /\ stored[p] = "pending"   => sent /\ (troubles = 0 => sends[t] \in {"saved", "monitored"})

\* The newest transactions of the accounts' addresses, as many as a run takes.
Wanted == {p \in UNION {{a} \X Newest(Limit, Names(a)) : a \in Accounts} : p \notin Spam}
Around(p) == {q \in UNION {{a} \X (Newest(Limit, Names(a)) \cup Newest(Limit, Moves(a))) : a \in Accounts} :
                  ~Later(p[2], q[2])}
CaughtUp ==
    /\ \A a \in Accounts : told[a] = balance[a] /\ balance[a] = Level(a)
    /\ \A p \in Wanted : Cardinality(Around(p)) <= Total => stored[p] = "confirmed"

\* While synchronisations of all accounts go on being asked for, the client is told the balances of the chain
\* in the end, which are those of the state, and the newest transactions are stored as confirmed, whatever
\* failed, was restarted or overtook what before (AccountsSynchronizer.synchronize, SnapAssetsAdapter.ts:553:
\* saving all assets "enforces that the client has the same state of assets as the snap").
EventuallyCaughtUp == []<>(runs[Accounts].pc = "balances") => <>[]CaughtUp

------------------------------------------------------------------------------
\* How a transaction is mapped.
\* keys: the accounts, the payer first; moves: the SOL that moves between them, by a transfer of the
\* system program, by another instruction of it, or inside of a program; tokens: the token accounts, with
\* their balances before and after; selves: token transfers from an account to itself, which leave no trace
\* in balances.
Given ==
    [keys : Seq(Parties), moves : Seq([from : Nat, to : Nat, amount : Nat, how : {"transfer", "system", "inner"}]),
     tokens : Seq([owner : Parties, mint : Mints, pre : Nat, post : Nat]),
     selves : Seq([account : Nat, amount : Nat]), failed : BOOLEAN, signatures : Nat, priority : Nat]

Fee == given.signatures * Base + given.priority

Sum(S, Value(_)) == MapThenSumSet(Value, S)

\* What the node says of an account: its balance before less that after.
Lost(i) ==
    LET moved == IF given.failed THEN {} ELSE DOMAIN given.moves
    IN  (IF i = 1 THEN Fee ELSE 0)
        + Sum({k \in moved : given.moves[k].from = i}, LAMBDA k : given.moves[k].amount)
        - Sum({k \in moved : given.moves[k].to = i}, LAMBDA k : given.moves[k].amount)

------------------------------------------------------------------------------
\* Items of the lists from and to; source tells those of one address and asset apart.
Item(address, asset, amount, source) ==
    [address |-> address, asset |-> asset, amount |-> amount, source |-> source]

\* A fault to compare with: the fee of the payer is taken for something it gave.
Given_WithFee(i) == Lost(i)

\* The fee is not among what the payer gave.
Given_(i) == Lost(i) - (IF i = 1 THEN Fee ELSE 0)

\* Instructions of the system program from an account to itself, whatever they do.
ToSelf == {Item(given.keys[given.moves[k].from], "sol", given.moves[k].amount, <<"self", k>>) :
             k \in {l \in DOMAIN given.moves : /\ given.moves[l].how # "inner"
                                               /\ given.moves[l].from = given.moves[l].to}}

parseTransactionNativeTransfers ==
    LET accounts == DOMAIN given.keys
    IN  [from |-> {Item(given.keys[i], "sol", Given_(i), <<"account", i>>) : i \in {j \in accounts : Given_(j) > 0}}
                  \cup ToSelf,
         to   |-> {Item(given.keys[i], "sol", -Given_(i), <<"account", i>>) : i \in {j \in accounts : Given_(j) < 0}}
                  \cup ToSelf]

\* Of a failed transaction: what its transfers would have moved, added up for each address.
parseTransactionNativeTransfersV2 ==
    LET transfers == {k \in DOMAIN given.moves : given.moves[k].how = "transfer"}
        Side(end) == {Item(p, "sol", Sum({k \in transfers : given.keys[given.moves[k][end]] = p},
                                         LAMBDA k : given.moves[k].amount), <<"all", 0>>) :
                        p \in {given.keys[given.moves[k][end]] : k \in transfers}}
    IN  [from |-> Side("from"), to |-> Side("to")]

\* A token belongs to the owner of its account.
TokenDiff(i) == IF given.failed THEN 0 ELSE given.tokens[i].post - given.tokens[i].pre
TokenItem(i, amount, source) == Item(given.tokens[i].owner, given.tokens[i].mint, amount, source)
TokensToSelf == {TokenItem(given.selves[k].account, given.selves[k].amount, <<"token self", k>>) :
                   k \in DOMAIN given.selves}

parseTransactionSplTransfers ==
    LET accounts == DOMAIN given.tokens
    IN  [from |-> {TokenItem(i, -TokenDiff(i), <<"token", i>>) : i \in {j \in accounts : TokenDiff(j) < 0}}
                  \cup TokensToSelf,
         to   |-> {TokenItem(i, TokenDiff(i), <<"token", i>>) : i \in {j \in accounts : TokenDiff(j) > 0}}
                  \cup TokensToSelf]

Mine(items) == {item \in items : item.address = Me}
Matched(items, others) == \A item \in items : \E other \in others : item.asset = other.asset

evaluateTransactionType(from, to) ==
    IF from = {} \/ to = {} \/ given.failed THEN "unknown"
    ELSE IF Matched(from, Mine(to)) /\ Matched(to, Mine(from)) THEN "send"
    ELSE IF Mine(from) # {} /\ Mine(to) # {} THEN "swap"
    ELSE IF Mine(from) # {} THEN "send" ELSE "receive"

\* More than the signatures cost is the price paid for priority.
parseTransactionFees == {<<"base", given.signatures * Base>>}
    \cup {<<"priority", n>> : n \in {Fee - given.signatures * Base} \cap (Nat \ {0})}

mapRpcTransaction ==
    LET native == IF given.failed THEN parseTransactionNativeTransfersV2 ELSE parseTransactionNativeTransfers
        spl    == parseTransactionSplTransfers
        from   == spl.from \cup native.from
        to     == spl.to \cup native.to
        type   == evaluateTransactionType(from, to)
    IN  [type |-> type,
         from |-> IF type = "swap" THEN Mine(from) ELSE from,
         to   |-> IF type \in {"swap", "receive"} THEN Mine(to) ELSE to,
         fees |-> IF type = "receive" THEN {} ELSE parseTransactionFees]

isSpam(tx) ==
    LET sol == {item \in Mine(tx.to) : item.asset = "sol"}
    IN  /\ tx.type = "receive" \/ given.failed
        /\ sol # {} /\ Sum(sol, LAMBDA item : item.amount) < Dust

NotYet == [type |-> "not yet"]
Hidden == [type |-> "hidden"]

Map ==
    /\ entry = NotYet
    /\ entry' = IF isSpam(mapRpcTransaction) THEN Hidden ELSE mapRpcTransaction
    /\ UNCHANGED given

MapNext == Map

------------------------------------------------------------------------------
Told == entry \notin {NotYet, Hidden}
Shown(items, asset) == Sum({item \in Mine(items) : item.asset = asset}, LAMBDA item : item.amount)
IsPayer == given.keys[1] = Me
Lamports == Sum({i \in DOMAIN given.keys : given.keys[i] = Me}, Lost)
Gained(mint) == Sum({i \in DOMAIN given.tokens : given.tokens[i].owner = Me /\ given.tokens[i].mint = mint}, TokenDiff)

\* Whatever items are left out by its type, an entry of a transaction that succeeded shows for every asset
\* what the account got less what it gave, the fee apart (mapRpcTransaction, whose filters work on items).
OwnChangeShown ==
    Told /\ ~given.failed =>
        /\ Shown(entry.from, "sol") - Shown(entry.to, "sol") = Lamports - (IF IsPayer THEN Fee ELSE 0)
        /\ \A m \in Mints : Shown(entry.to, m) - Shown(entry.from, m) = Gained(m)

\* The fees shown add up to the fee charged, and only an account that gave nothing is spared them.
FeesShown ==
    Told => \/ Sum(entry.fees, LAMBDA f : f[2]) = Fee
            \/ entry.fees = {} /\ Mine(entry.from) = {}

\* No transaction in which the account gave something, the fee apart, and that succeeded is hidden.
SpamGaveNothing ==
    entry = Hidden /\ ~given.failed => Lamports - (IF IsPayer THEN Fee ELSE 0) <= 0 /\ \A m \in Mints : Gained(m) >= 0
==============================================================================
