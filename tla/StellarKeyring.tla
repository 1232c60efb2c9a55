---------------------------- MODULE StellarKeyring ----------------------------
(***************************************************************************)
(* The keyring of the Stellar wallet: creating ranges of accounts from a   *)
(* list read before keys are derived, deleting and exporting them, signing *)
(* for one of them once the user has agreed (SEP-43, where every failure   *)
(* becomes an answer), and listing an account's assets and balances        *)
(* through a cache. Calls overlap; each await of a handler is a step.      *)
(***************************************************************************)
EXTENDS Integers, FiniteSets, FiniteSetsExt, Functions

CONSTANTS
    Sources,        \* entropy sources
    Calls,          \* handlers that may be under way at once
    Kinds,          \* what is asked: "create", "sign" or "read"
    MaxIndex,       \* indexes are 0..MaxIndex
    Tokens,         \* SEP-41 tokens; the other assets are "native" and trustlines
    Catalogue,      \* those of which the wallet has metadata
    Ledger,         \* what the account that is read holds, version after version; nothing before it is activated
    MaxIds, MaxDeletions, MaxSignatures     \* bounds

StellarKeyringAssumption ==
    /\ IsFiniteSet(Sources) /\ IsFiniteSet(Calls) /\ Kinds \subseteq {"create", "sign", "read"}
    /\ Catalogue \subseteq Tokens /\ DOMAIN Ledger = 0..(Cardinality(DOMAIN Ledger) - 1)
    /\ "native" \notin Tokens /\ \A v \in DOMAIN Ledger : Ledger[v] # {} => "native" \in Ledger[v]
    /\ {MaxIndex, MaxIds, MaxDeletions, MaxSignatures} \subseteq Nat

Indexes   == 0..MaxIndex
Addresses == Sources \X Indexes         \* the address an entropy source gives at an index
Ids       == 1..MaxIds
Versions  == DOMAIN Ledger
Assets    == {"native"} \cup Tokens \cup UNION Range(Ledger)
Methods   == {"signMessage", "signTransaction", "signAuthEntry"}

VARIABLES
    accounts,   \* keyringAccounts: the address of each account id
    drawn,      \* ids drawn so far
    deleted,    \* ghost: the addresses of the accounts deleted so far
    calls,      \* what each handler is doing
    signed,     \* ghost: the answers to requests to sign
    chain,      \* the version of the account on the chain
    cache,      \* fetchOnChainAccountCache: the versions its parts were read at
    told        \* ghost: the assets last listed, their snapshot, and whether the cache still holds it

stellarKeyringVars == <<accounts, drawn, deleted, calls, signed, chain, cache, told>>

Idle    == [pc |-> "idle"]
Nothing == [main |-> -1, tokens |-> -1]     \* nothing in the cache
Snapshot == [main : Versions, tokens : Versions]

Payload == [method : Methods, readable : BOOLEAN, bound : {"no address", "own", "other"}]

Init ==
    /\ accounts = [i \in {} |-> <<>>] /\ drawn = 0 /\ deleted = accounts /\ calls = [c \in Calls |-> Idle]
    /\ signed = {} /\ chain \in Versions /\ cache = Nothing
    /\ told = [listed |-> {}, at |-> Nothing, fresh |-> FALSE]

------------------------------------------------------------------------------
Goto(c, state) == calls' = [calls EXCEPT ![c] = state]
Finish(c)      == Goto(c, Idle)
Creating       == UNCHANGED <<signed, chain, cache, told>>
Reading        == UNCHANGED <<accounts, drawn, deleted, signed>>

\* createAccounts: one index, a range, or one index if its address is active on the chain.
createAccounts(c, source, from, to, discover) ==
    /\ "create" \in Kinds /\ calls[c] = Idle /\ from <= to /\ discover => from = to
    /\ Goto(c, [pc |-> IF discover THEN "discover" ELSE "list", source |-> source, indexes |-> from..to])
    /\ UNCHANGED <<accounts, drawn, deleted>> /\ Creating

\* hasOnChainActivity: nothing is created for an address nobody activated; a failing node fails the call.
Discover(c, active) ==
    /\ calls[c].pc = "discover"
    /\ IF active THEN Goto(c, [calls[c] EXCEPT !.pc = "list"]) ELSE Finish(c)
    /\ UNCHANGED <<accounts, drawn, deleted>> /\ Creating

\* A fault to compare with: the accounts of another entropy source at these indexes count too.
ExistingAtIndex(call) == {i \in DOMAIN accounts : accounts[i][2] \in call.indexes}

\* Of the accounts there are, those of the source in the range; the last one listed stays in the map of an index.
Existing(call) == {i \in DOMAIN accounts : accounts[i][1] = call.source /\ accounts[i][2] \in call.indexes}

\* batchCreate: reads all accounts.
List(c) ==
    LET found == Existing(calls[c])
        byIndex(n) == {i \in found : accounts[i][2] = n}
    IN  /\ calls[c].pc = "list"
        /\ Goto(c, [pc |-> "derive", source |-> calls[c].source, indexes |-> calls[c].indexes,
                    existing |-> [n \in {accounts[i][2] : i \in found} |-> Max(byIndex(n))]])
        /\ UNCHANGED <<accounts, drawn, deleted>> /\ Creating

\* The missing ones are derived, in batches, and none is saved if one cannot be.
DeriveFails(c) ==
    /\ calls[c].pc = "derive" /\ calls[c].indexes # DOMAIN calls[c].existing
    /\ Finish(c)
    /\ UNCHANGED <<accounts, drawn, deleted>> /\ Creating

\* saveMany puts them into the state there is then; the call answers an account for each index.
saveMany(c) ==
    LET call    == calls[c]
        missing == call.indexes \ DOMAIN call.existing
        Fresh(n) == drawn + 1 + Cardinality({m \in missing : m < n})
    IN  /\ call.pc = "derive" /\ drawn + Cardinality(missing) <= MaxIds
        /\ accounts' = [i \in DOMAIN accounts \cup {Fresh(n) : n \in missing} |->
                            IF i \in DOMAIN accounts THEN accounts[i]
                            ELSE <<call.source, CHOOSE n \in missing : Fresh(n) = i>>]
        /\ drawn' = drawn + Cardinality(missing)
        /\ Goto(c, [pc |-> "created", source |-> call.source, indexes |-> call.indexes,
                    answer |-> [n \in call.indexes |-> IF n \in missing THEN Fresh(n) ELSE call.existing[n]]])
        /\ UNCHANGED deleted /\ Creating

Answer(c) ==
    /\ calls[c].pc = "created"
    /\ Finish(c)
    /\ UNCHANGED <<accounts, drawn, deleted>> /\ Creating

\* deleteAccount: the entry of the account, and nothing that was saved for it.
deleteAccount(id) ==
    /\ Cardinality(DOMAIN deleted) < MaxDeletions /\ id \in DOMAIN accounts
    /\ accounts' = [i \in DOMAIN accounts \ {id} |-> accounts[i]]
    /\ deleted' = [i \in DOMAIN deleted \cup {id} |-> IF i = id THEN accounts[i] ELSE deleted[i]]
    /\ UNCHANGED <<drawn, calls>> /\ Creating

------------------------------------------------------------------------------
\* submitRequest: an account that is not there, and a payload that cannot be read, are answered with an error;
\* the error names the signer if the account was found. The answer goes into signed.
Respond(c, call, signature) ==
    /\ Cardinality(signed) < MaxSignatures
    /\ signed' = signed \cup {[id |-> call.id, payload |-> call.payload, signer |-> call.signer, shown |-> call.shown,
                               agreed |-> call.agreed, signature |-> signature]}
    /\ Finish(c)

Request(id, payload) ==
    [pc |-> "resolve", id |-> id, payload |-> payload, signer |-> "", shown |-> FALSE, agreed |-> FALSE]

submitRequest(c, id, payload) ==
    /\ "sign" \in Kinds /\ calls[c] = Idle
    /\ payload.method # "signAuthEntry" => payload.bound = "no address"
    /\ Goto(c, Request(id, payload))
    /\ UNCHANGED <<accounts, drawn, deleted, signed, chain, cache, told>>

\* A fault to compare with: the bound address is not looked at.
BoundAnywhere(payload) == TRUE

\* assertIsValidBoundAddress: none, or the account's own.
assertIsValidBoundAddress(payload) == payload.bound # "other"

\* resolveAccount, then execute up to the dialog: the payload is decoded, an authorisation's bound address
\* compared.
ResolveAccount(c) ==
    LET call     == calls[c]
        resolved == [call EXCEPT !.signer = accounts[call.id]]
        fine     == call.payload.readable /\ assertIsValidBoundAddress(call.payload)
    IN  /\ call.pc = "resolve"
        /\ IF call.id \notin DOMAIN accounts THEN Respond(c, call, "")
           ELSE IF ~fine THEN Respond(c, resolved, "")
           ELSE Goto(c, [resolved EXCEPT !.pc = "dialog", !.shown = TRUE]) /\ UNCHANGED signed
        /\ UNCHANGED <<accounts, drawn, deleted, chain, cache, told>>

\* The dialog: agreed to, refused, or failing to open. The key was derived before it was shown.
Confirm(c, agrees) ==
    LET call == [calls[c] EXCEPT !.agreed = agrees]
    IN  /\ calls[c].pc = "dialog"
        /\ Respond(c, call, IF agrees THEN call.signer ELSE "")
        /\ UNCHANGED <<accounts, drawn, deleted, chain, cache, told>>

------------------------------------------------------------------------------
\* What is visible of a snapshot: an account that was not activated has no assets.
Held(snapshot) ==
    IF Ledger[snapshot.main] = {} THEN {}
    ELSE (Ledger[snapshot.main] \ Tokens) \cup (Ledger[snapshot.tokens] \cap Catalogue)

VersionOf(snapshot, asset) == IF asset \in Tokens THEN snapshot.tokens ELSE snapshot.main

\* getAccountAssets always fetches; getAccountBalances answers from the cache when there is something in it.
getAccountAssets(c) ==
    /\ "read" \in Kinds /\ calls[c] = Idle
    /\ Goto(c, [pc |-> "load", asked |-> {}, list |-> TRUE, expects |-> Nothing])
    /\ Reading /\ UNCHANGED <<chain, cache, told>>

getAccountBalances(c, asked) ==
    /\ "read" \in Kinds /\ calls[c] = Idle /\ asked # {}
    /\ LET expects == IF told.fresh THEN told.at ELSE Nothing
       IN  IF cache # Nothing THEN Goto(c, [pc |-> "answer", asked |-> asked, expects |-> expects, snapshot |-> cache])
           ELSE Goto(c, [pc |-> "load", asked |-> asked, list |-> FALSE, expects |-> expects])
    /\ Reading /\ UNCHANGED <<chain, cache, told>>

\* loadOnChainAccount, then the balances of the tokens of the catalogue.
LoadOnChainAccount(c) ==
    /\ calls[c].pc = "load"
    /\ Goto(c, [pc |-> IF Ledger[chain] = {} THEN "cache" ELSE "tokens", asked |-> calls[c].asked,
                list |-> calls[c].list, expects |-> calls[c].expects, snapshot |-> [main |-> chain, tokens |-> chain]])
    /\ Reading /\ UNCHANGED <<chain, cache, told>>

FetchAndBindSep41Balances(c) ==
    /\ calls[c].pc = "tokens"
    /\ Goto(c, [calls[c] EXCEPT !.pc = "cache", !.snapshot.tokens = chain])
    /\ Reading /\ UNCHANGED <<chain, cache, told>>

\* A failing fetch fails the call, and what was cached stays.
FetchFails(c) ==
    /\ calls[c].pc \in {"load", "tokens"}
    /\ Finish(c)
    /\ Reading /\ UNCHANGED <<chain, cache, told>>

\* The result is cached without waiting, an account that is not activated too, and a list is answered.
UseCache(c) ==
    LET call == calls[c]
    IN  /\ call.pc = "cache"
        /\ cache' = call.snapshot
        /\ IF call.list
           THEN /\ Finish(c)
                /\ told' = [listed |-> IF Held(call.snapshot) = {} THEN {"native"} ELSE Held(call.snapshot),
                            at |-> call.snapshot, fresh |-> TRUE]
           ELSE /\ Goto(c, [pc |-> "answer", asked |-> call.asked, expects |-> call.expects,
                            snapshot |-> call.snapshot])
                /\ told' = [told EXCEPT !.fresh = FALSE]
        /\ Reading /\ UNCHANGED chain

\* A fault to compare with: the tokens that are not in the snapshot are left out.
NoneMissing(call) == {}

\* Tokens that are not in the snapshot are asked for now.
missingSep41AssetIds(call) == (call.asked \cap Tokens) \ Catalogue

\* The balances that are answered, by the version they are of; of an account that is not activated, a native zero.
Balances(call) ==
    LET live == missingSep41AssetIds(call) \cap Ledger[chain]
    IN  IF Ledger[call.snapshot.main] = {} THEN [a \in call.asked \cap {"native"} |-> call.snapshot.main]
        ELSE [a \in (call.asked \cap Held(call.snapshot)) \cup live |->
                 IF a \in live THEN chain ELSE VersionOf(call.snapshot, a)]

AnswerBalances(c) ==
    /\ calls[c].pc = "answer"
    /\ Finish(c)
    /\ Reading /\ UNCHANGED <<chain, cache, told>>

\* The chain moves on, and the time to live of the cache ends.
Advance ==
    /\ chain + 1 \in Versions /\ "read" \in Kinds
    /\ chain' = chain + 1
    /\ Reading /\ UNCHANGED <<calls, cache, told>>

Expire ==
    /\ cache # Nothing
    /\ cache' = Nothing /\ told' = [told EXCEPT !.fresh = FALSE]
    /\ Reading /\ UNCHANGED <<calls, chain>>

------------------------------------------------------------------------------
Next ==
    \/ \E c \in Calls :
         \/ \E s \in Sources, f, t \in Indexes, d \in BOOLEAN : createAccounts(c, s, f, t, d)
         \/ \E active \in BOOLEAN : Discover(c, active)
         \/ List(c) \/ DeriveFails(c) \/ saveMany(c) \/ Answer(c)
         \/ \E id \in Ids, p \in Payload : submitRequest(c, id, p)
         \/ ResolveAccount(c) \/ (\E agrees \in BOOLEAN : Confirm(c, agrees))
         \/ getAccountAssets(c) \/ (\E asked \in SUBSET Assets : getAccountBalances(c, asked))
         \/ LoadOnChainAccount(c) \/ FetchAndBindSep41Balances(c) \/ FetchFails(c) \/ UseCache(c) \/ AnswerBalances(c)
    \/ \E id \in Ids : deleteAccount(id)
    \/ Advance
    \/ Expire

Spec == Init /\ [][Next]_stellarKeyringVars

------------------------------------------------------------------------------
\* The type invariant.
TypeOK ==
    /\ DOMAIN accounts \subseteq 1..drawn /\ Range(accounts) \subseteq Addresses /\ drawn \in 0..MaxIds
    /\ DOMAIN deleted \subseteq 1..drawn /\ DOMAIN calls = Calls
    /\ chain \in Versions /\ cache \in Snapshot \cup {Nothing}

\* A call answers one account for every index of its range, of its own entropy source and at that index, which
\* is stored unless it was deleted in the meantime, however many calls overlap (batchCreate).
CreatedAsAsked ==
    \A c \in Calls : calls[c].pc = "created" =>
        \A n \in calls[c].indexes :
            LET id == calls[c].answer[n]
            IN  /\ id \in DOMAIN accounts \cup DOMAIN deleted
                /\ (IF id \in DOMAIN accounts THEN accounts[id] ELSE deleted[id]) = <<calls[c].source, n>>

\* A signature is the named account's, whatever happened to the account while the dialog was open, over a payload
\* the user was shown and agreed to; an authorisation is not for somebody else. Anything else is answered without
\* one (the SEP-43 handlers).
SignedKnowingly ==
    \A s \in signed :
        /\ s.signer # "" => (IF s.id \in DOMAIN accounts THEN accounts[s.id] ELSE deleted[s.id]) = s.signer
        /\ s.signature # "" => /\ s.signature = s.signer /\ s.shown /\ s.agreed
                               /\ s.payload.readable /\ s.payload.bound # "other"
        /\ (s.signature = "" /\ s.signer # "" /\ s.payload.readable /\ s.payload.bound # "other") =>
              s.shown /\ ~s.agreed

\* Balances asked for after assets were listed, before the list's snapshot expires or another fetch lands, are of that
\* snapshot, and every listed asset has one; so has, at any time, a token the wallet had not heard of that the
\* account holds (getAccountAssets, getAccountBalances).
ListedHaveBalances ==
    \A c \in Calls : calls[c].pc = "answer" =>
        LET call == calls[c]
            of   == Balances(call)
        IN  /\ call.expects # Nothing =>
                 /\ call.expects.main = call.snapshot.main
                 /\ told.at = call.expects => told.listed \cap call.asked \subseteq DOMAIN of
                 /\ \A a \in DOMAIN of \cap Catalogue : of[a] = call.expects.tokens
            /\ Ledger[call.snapshot.main] # {} =>
                 (call.asked \cap Tokens \cap Ledger[chain]) \ Catalogue \subseteq DOMAIN of

==============================================================================
