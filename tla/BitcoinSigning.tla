---------------------------- MODULE BitcoinSigning ----------------------------
(***************************************************************************)
(* Requests that build, sign and send transactions of one Bitcoin account: *)
(* each works on a copy of the wallet it loaded, builds from the coins     *)
(* that copy knows, lets the user confirm (or not: the client's own        *)
(* requests), signs, broadcasts, and merges what it learnt into what is    *)
(* stored by then. Also what the history shows of a transaction.           *)
(***************************************************************************)
EXTENDS Integers, Sequences, FiniteSets, FiniteSetsExt

CONSTANTS Requests,
          Coin,        \* the value of each coin of the account
          Templates,   \* what may be asked to be paid: sequences of outputs
          Given,       \* transactions somebody else filled: [inputs, outs]
          Theirs,      \* transactions of others that pay the account
          Estimates,   \* estimates of the fee rate, in tenths; 0 when there is none
          Fallback,    \* the rate without one
          Dust,        \* an output below it is not made
          MaxTroubles, \* synchronisations, lost answers, stops (bound)
          Nothing

\* An output: to the account (its change address number `script`), to an address, or to none.
Outputs == [to : {"own", "other", "data"}, script : Nat, amount : Nat]

BitcoinSigningAssumption ==
    /\ DOMAIN Coin # {} /\ \A c \in DOMAIN Coin : Coin[c] \in Nat \ {0}
    /\ Templates \subseteq Seq(Outputs) \ {<<>>}
    /\ Estimates \cup {Dust, MaxTroubles} \subseteq Nat /\ Fallback >= 10

VARIABLES stored,    \* the account as it is persisted: revealed, coins, frozen, known
          chain,     \* transactions the network has
          inscribed, \* coins something is inscribed on
          request,   \* each request: where it is, its copy of the wallet, what it builds
          troubles

signingVars == <<stored, chain, inscribed, request, troubles>>

Wallet(s) == [revealed |-> s.revealed, coins |-> s.coins, known |-> s.known]

Idle == [pc |-> "idle", kind |-> "none", template |-> <<>>, wallet |-> Nothing, frozen |-> {},
         psbt |-> Nothing, shown |-> Nothing]

Ended == [Idle EXCEPT !.pc = "ended"]   \* each is made once (bound)

Init ==
    /\ inscribed \in SUBSET DOMAIN Coin /\ Cardinality(inscribed) <= 1
    /\ \E frozen \in SUBSET inscribed :
          stored = [revealed |-> 0, coins |-> DOMAIN Coin, frozen |-> frozen, known |-> {}]
    /\ chain = {} /\ troubles = 0
    /\ request = [r \in Requests |-> Idle]

Worth(coins) == FoldSet(LAMBDA c, sum : Coin[c] + sum, 0, coins)
Paid(outs)   == FoldSet(LAMBDA i, sum : outs[i].amount + sum, 0, DOMAIN outs)

------------------------------------------------------------------------------
\* The builder (external). Its change goes to the first address that is not used yet,
\* which may have to be revealed; a drain output takes the place of the change.
UsedBy(tx) == {tx.outs[i].script : i \in {j \in DOMAIN tx.outs : tx.outs[j].to = "own"}}
NextUnused(w) == Min(1..(w.revealed + 1) \ UNION {UsedBy(tx) : tx \in w.known})

Build(w, frozen, fixed, drain, rate) ==
    {[inputs |-> coins,
      outs   |-> LET left == Worth(coins) - Paid(fixed) - rate
                     extra == IF drain # Nothing THEN drain ELSE [to |-> "own", script |-> NextUnused(w), amount |-> 0]
                 IN  IF left >= Dust THEN Append(fixed, [extra EXCEPT !.amount = left]) ELSE fixed] :
        coins \in {s \in SUBSET (w.coins \ frozen) :
                      fixed # <<>> /\ s # {} /\ Worth(s) >= Paid(fixed) + rate}}

\* #fillPsbt. An output of ours at the end takes what is left; when too little is left
\* for it, the transaction is built again with every output as it was asked for.
DrainOf(template) ==
    LET last == template[Len(template)]
    IN  IF last.to = "own" THEN last ELSE Nothing

Preserved(template, psbt, drained) ==
    /\ Len(psbt.outs) \in {Len(template), Len(template) + 1}
    /\ \A i \in (Len(template) + 1)..Len(psbt.outs) : psbt.outs[i].to = "own"
    /\ \A i \in DOMAIN template :
          /\ [psbt.outs[i] EXCEPT !.amount = 0] = [template[i] EXCEPT !.amount = 0]
          /\ (drained /\ i = Len(template)) \/ psbt.outs[i].amount = template[i].amount

fillPsbt(w, frozen, template, rate) ==
    LET drain == DrainOf(template)
        fixed == IF drain = Nothing THEN template ELSE SubSeq(template, 1, Len(template) - 1)
        first == Build(w, frozen, fixed, drain, rate)
        short == {psbt \in first : Len(psbt.outs) < Len(template)}
    IN  {psbt \in first \ short : Preserved(template, psbt, drain # Nothing)}
        \cup (IF short = {} THEN {}
              ELSE {psbt \in Build(w, frozen, template, Nothing, rate) : Preserved(template, psbt, FALSE)})

------------------------------------------------------------------------------
Become(r, c) == request' = [request EXCEPT ![r] = c]
End(r)       == Become(r, Ended)

Fills == {"sign filled", "send", "transfer"}

\* signPsbt of the keyring: to be filled first, or as it is. signAndSend of the client
\* fills, signs and sends at once.
AskToSign(r) ==
    /\ \/ \E template \in Templates :
            Become(r, [Idle EXCEPT !.pc = "frozen", !.kind = "sign filled", !.template = template, !.wallet = Wallet(stored)])
       \/ \E psbt \in Given : Become(r, [Idle EXCEPT !.pc = "confirm", !.kind = "sign", !.psbt = psbt])
    /\ UNCHANGED <<stored, chain, inscribed, troubles>>

AskToSend(r) ==
    /\ \E template \in Templates :
          Become(r, [Idle EXCEPT !.pc = "frozen", !.kind = "send", !.template = template, !.wallet = Wallet(stored)])
    /\ UNCHANGED <<stored, chain, inscribed, troubles>>

\* sendTransfer: exactly one recipient, who is paid in full.
AskToTransfer(r) ==
    /\ \E template \in {t \in Templates : Len(t) = 1 /\ t[1].to = "other"} :
          Become(r, [Idle EXCEPT !.pc = "frozen", !.kind = "transfer", !.template = template, !.wallet = Wallet(stored)])
    /\ UNCHANGED <<stored, chain, inscribed, troubles>>

\* broadcastPsbt: what is already signed.
AskToBroadcast(r) ==
    /\ \E psbt \in Given :
          Become(r, [Idle EXCEPT !.pc = "broadcast", !.kind = "broadcast", !.psbt = psbt, !.wallet = Wallet(stored)])
    /\ UNCHANGED <<stored, chain, inscribed, troubles>>

Ask(r) ==
    /\ request[r].pc = "idle"
    /\ AskToSign(r) \/ AskToSend(r) \/ AskToTransfer(r) \/ AskToBroadcast(r)

\* getFrozenUTXOs; then the fee rate is asked for.
ReadFrozen(r) ==
    /\ request[r].pc = "frozen"
    /\ Become(r, [request[r] EXCEPT !.pc = "fill", !.frozen = stored.frozen])
    /\ UNCHANGED <<stored, chain, inscribed, troubles>>

\* The rate, in tenths, is estimated, or a fallback; less than one is one.
resolveFeeRate(estimate)  == IF estimate > 0 THEN Max({10, estimate}) ELSE Fallback
toFeeRateSatsPerVb(rate)  == IF rate > 0 THEN Max({1, rate \div 10}) ELSE 0

\* A transfer has no drain. Building may reveal an address in the copy of the wallet.
\* What the client asks for itself is not confirmed.
Fill(r) ==
    LET q == request[r]
    IN  /\ q.pc = "fill"
        /\ \E estimate \in Estimates :
              LET rate  == toFeeRateSatsPerVb(resolveFeeRate(estimate))
                  psbts == IF q.kind = "transfer" THEN Build(q.wallet, q.frozen, q.template, Nothing, rate)
                           ELSE fillPsbt(q.wallet, q.frozen, q.template, rate)
              IN  IF psbts = {} THEN End(r)
                  ELSE \E psbt \in psbts :
                          Become(r, [q EXCEPT !.pc = IF q.kind = "send" THEN "sign" ELSE "confirm", !.psbt = psbt,
                                              !.wallet.revealed = Max({@} \cup UsedBy(psbt))])
        /\ UNCHANGED <<stored, chain, inscribed, troubles>>

\* insertSignPsbt: the dialog shows the transaction that will be signed, with a wallet
\* that is loaded again.
ConfirmPsbt(r) ==
    /\ request[r].pc = "confirm" /\ request[r].kind # "transfer"
    /\ \/ End(r)
       \/ Become(r, [request[r] EXCEPT !.shown = request[r].psbt, !.pc = "sign", !.wallet = Wallet(stored)])
    /\ UNCHANGED <<stored, chain, inscribed, troubles>>

\* insertSendTransfer: the same wallet signs.
ConfirmTransfer(r) ==
    /\ request[r].pc = "confirm" /\ request[r].kind = "transfer"
    /\ End(r) \/ Become(r, [request[r] EXCEPT !.shown = request[r].psbt, !.pc = "sign"])
    /\ UNCHANGED <<stored, chain, inscribed, troubles>>

\* Every input has to be signed (external: a coin the wallet knew): else the request fails.
Signable(psbt) == psbt.inputs \subseteq DOMAIN Coin
revealToScript(w, n) == n > w.revealed

\* A fault to compare with: the addresses that were revealed are not stored before it is broadcast.
SignUnstored(r) ==
    LET q == request[r]
    IN  /\ q.pc = "sign"
        /\ IF Signable(q.psbt)
           THEN \/ Become(r, [q EXCEPT !.pc = "broadcast", !.wallet.revealed = Max({@} \cup UsedBy(q.psbt))])
                \/ q.kind \in {"sign", "sign filled"} /\ End(r)
           ELSE End(r)
        /\ UNCHANGED <<stored, chain, inscribed, troubles>>

\* signPsbt: what was filled with another copy of the wallet is revealed in this one, and
\* stored before it is broadcast. A signature that was asked for may be all there is to do.
Sign(r) ==
    LET q == request[r]
        own == UsedBy(q.psbt)
        revealed == q.kind # "transfer" /\ \E n \in own : revealToScript(q.wallet, n)
    IN  /\ q.pc = "sign"
        /\ IF Signable(q.psbt)
           THEN /\ \/ Become(r, [q EXCEPT !.pc = "broadcast", !.wallet.revealed = Max({@} \cup own)])
                   \/ q.kind \in {"sign", "sign filled"} /\ End(r)
                /\ stored' = IF revealed THEN [stored EXCEPT !.revealed = Max({@} \cup own)] ELSE stored
           ELSE End(r) /\ UNCHANGED stored
        /\ UNCHANGED <<chain, inscribed, troubles>>

\* The network takes a transaction whose coins are not spent, or that it already has. Its
\* answer may be lost: the request fails.
Taken(tx) == tx \in chain \/ \A other \in chain : other.inputs \cap tx.inputs = {}

Broadcast(r) ==
    LET q == request[r]
        tx == q.psbt
    IN  /\ q.pc = "broadcast"
        /\ \/ Taken(tx) /\ chain' = chain \cup {tx} /\ Become(r, [q EXCEPT !.pc = "update"]) /\ UNCHANGED troubles
           \/ ~Taken(tx) /\ End(r) /\ UNCHANGED <<chain, troubles>>
           \/ Taken(tx) /\ chain' = chain \cup {tx} /\ End(r) /\ troubles < MaxTroubles /\ troubles' = troubles + 1
        /\ UNCHANGED <<stored, inscribed>>

\* applyUnconfirmedTx and update: merged into what is stored by now. An address that a
\* transaction pays counts as revealed (external, within the look-ahead of the wallet).
Learn(s, txs, n) ==
    [s EXCEPT !.known = @ \cup txs, !.coins = @ \ UNION {tx.inputs : tx \in txs},
              !.revealed = Max({@, n} \cup UNION {UsedBy(tx) : tx \in txs})]

Update(r) ==
    LET q == request[r]
    IN  /\ q.pc = "update"
        /\ stored' = Learn(stored, {q.psbt}, q.wallet.revealed)
        /\ End(r)
        /\ UNCHANGED <<chain, inscribed, troubles>>

\* A synchronisation finds the transactions of the account and what is inscribed; the
\* inscriptions are only stored with something that is new.
Trouble == troubles < MaxTroubles /\ troubles' = troubles + 1

Synchronize ==
    /\ Trouble
    /\ LET s == Learn(stored, chain, 0)
       IN  stored' = IF s = stored THEN stored ELSE [s EXCEPT !.frozen = inscribed]
    /\ UNCHANGED <<chain, inscribed, request>>

Receive(tx) ==
    /\ tx \notin chain /\ Trouble
    /\ chain' = chain \cup {tx}
    /\ UNCHANGED <<stored, inscribed, request>>

Stop ==
    /\ Trouble
    /\ request' = [r \in Requests |-> IF request[r] = Idle THEN Idle ELSE Ended]
    /\ UNCHANGED <<stored, chain, inscribed>>

Handle(r) == Ask(r) \/ ReadFrozen(r) \/ Fill(r) \/ ConfirmPsbt(r) \/ ConfirmTransfer(r) \/ Sign(r) \/ Broadcast(r) \/ Update(r)

Next == (\E r \in Requests : Handle(r)) \/ Synchronize \/ Stop \/ \E tx \in Theirs : Receive(tx)

------------------------------------------------------------------------------
\* What the history shows of a transaction: mapToTransaction. Only what has an address is
\* shown; a send is one that spends a coin of the account.
mapToTransactionType(tx) == IF tx.inputs \cap DOMAIN Coin # {} THEN "send" ELSE "receive"
calculateFee(tx) == Worth(tx.inputs) - Paid(tx.outs)

\* Every own output of this module is on the change keychain, but for the ones with script 0.
isChange(out) == out.to = "own" /\ out.script # 0

mapToTransaction(tx) ==
    LET type == mapToTransactionType(tx)
        shown(out) == out.to # "data" /\ (IF type = "send" THEN ~isChange(out) ELSE out.to = "own")
    IN  [type |-> type, to |-> SelectSeq(tx.outs, shown), fee |-> IF type = "send" THEN calculateFee(tx) ELSE 0]

\* The same for one that has just been signed: mapPsbtToTransaction.
mapPsbtToTransaction(tx) ==
    [type |-> "send", to |-> SelectSeq(tx.outs, LAMBDA out : out.to # "data" /\ ~isChange(out)), fee |-> calculateFee(tx)]

------------------------------------------------------------------------------
\* What is broadcast pays what was asked for, in order, spends nothing that was known to
\* be inscribed when it was filled, and is what the dialog showed.
SignedAsAsked ==
    \A r \in Requests :
        LET q == request[r]
        IN  q.pc \in {"broadcast", "update"} =>
                /\ q.kind \in {"sign", "sign filled", "transfer"} => q.shown = q.psbt
                /\ q.kind \in Fills =>
                      /\ q.psbt.inputs \cap q.frozen = {}
                      /\ calculateFee(q.psbt) >= 1
                      /\ Len(q.psbt.outs) <= Len(q.template) + 1
                      /\ \A i \in DOMAIN q.template :
                            \/ q.psbt.outs[i] = q.template[i]
                            \/ i = Len(q.template) /\ q.template[i].to = "own" /\ q.psbt.outs[i].to = "own"

\* What is recorded was taken by the network, and no coin it spends counts any more.
RecordedIsTaken ==
    /\ stored.known \subseteq chain
    /\ \A tx \in stored.known : tx.inputs \cap stored.coins = {}

\* The change of a signature the user confirmed is found again, whatever happens after: its
\* address is stored as revealed before the network has the transaction.
ChangeIsFound ==
    \A r \in Requests :
        request[r].kind \in {"sign", "sign filled"} /\ request[r].pc \in {"broadcast", "update"}
            => \A n \in UsedBy(request[r].psbt) : n <= stored.revealed

\* The history explains how the balance moved, and shows a transaction as it was announced.
HistoryExplains ==
    \A tx \in stored.known :
        LET shown == mapToTransaction(tx)
            out(to) == Paid(SelectSeq(tx.outs, LAMBDA o : o.to = to))
            kept(to) == Paid(SelectSeq(shown.to, LAMBDA o : o.to = to))
        IN  /\ shown.type = "send" => /\ Worth(tx.inputs) - out("own") = kept("other") + out("data") + shown.fee
                                      /\ shown = mapPsbtToTransaction(tx)
            /\ shown.type = "receive" => kept("own") = out("own")

SigningRight == SignedAsAsked /\ RecordedIsTaken /\ ChangeIsFound /\ HistoryExplains
=============================================================================
