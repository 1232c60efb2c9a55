---------------------------- MODULE SolanaKeyring ----------------------------
(***************************************************************************)
(* The accounts of the Solana wallet: creating them from a list read       *)
(* before the lock is taken, deleting them with their data, choosing the   *)
(* ones to watch, and signing for one of them once the user has agreed.    *)
(* Calls overlap; each await of a handler is a step of its call.           *)
(***************************************************************************)
EXTENDS Integers, FiniteSets, FiniteSetsExt, Functions

CONSTANTS
    Sources,        \* entropy sources
    Calls,          \* handlers that may be under way at once
    Methods,        \* the methods a request to sign may name
    MaxIndex,       \* indexes are 0..MaxIndex
    MaxIds,         \* bound: account ids ever drawn
    MaxDeletions    \* bound

SolanaKeyringAssumption ==
    /\ IsFiniteSet(Sources) /\ IsFiniteSet(Calls)
    /\ Methods \subseteq {"signAndSendTransaction", "signTransaction", "signMessage", "signIn"}
    /\ {MaxIndex, MaxIds, MaxDeletions} \subseteq Nat

Indexes   == 0..MaxIndex
Addresses == Sources \X Indexes         \* the address an entropy source gives at an index
Ids       == 1..MaxIds

VARIABLES
    accounts,   \* keyringAccounts: the address of each account id
    owned,      \* the ids with assets and transactions in the state
    watched,    \* the addresses with a subscription
    wanted,     \* ghost: the ids last selected, and whether that selection was alone: no other one overlapped
                \* it and no two accounts had one address
    drawn,      \* ids drawn so far
    deleted,    \* ghost: the accounts deleted so far
    calls,      \* what each handler is doing
    signed      \* ghost: the last signature: what was asked, of which account, by which key

keyringVars == <<accounts, owned, watched, wanted, drawn, deleted, calls, signed>>

Idle == [pc |-> "idle"]

Call ==
    {Idle}
    \cup [pc : {"discover", "save"}, source : Sources, indexes : SUBSET Indexes, seen : SUBSET Addresses,
          found : SUBSET Ids]
    \cup [pc : {"created"}, ids : SUBSET Ids]
    \cup [pc : {"select"}, ids : SUBSET Ids]
    \cup [pc : {"watch"}, stop : SUBSET Addresses, start : SUBSET Ids, addresses : SUBSET Addresses]
    \cup [pc : {"resolved"}, method : Methods, id : Ids, asked : Addresses]
    \cup [pc : {"confirm", "sign"}, method : Methods, id : Ids, account : Addresses, asked : Addresses, routed : BOOLEAN]

Signature == [method : Methods \cup {"exportAccount"}, asked : Addresses, account : Addresses, key : Addresses,
              agreed : BOOLEAN, routed : BOOLEAN]

TypeOK ==
    /\ DOMAIN accounts \subseteq Ids /\ Range(accounts) \subseteq Addresses
    /\ owned \subseteq Ids /\ watched \subseteq Addresses /\ drawn \in 0..MaxIds
    /\ DOMAIN deleted \subseteq Ids /\ Range(deleted) \subseteq Addresses
    /\ wanted \in [ids : SUBSET Ids, alone : BOOLEAN]
    /\ DOMAIN calls = Calls /\ \A c \in Calls : calls[c] \in Call
    /\ signed \subseteq Signature

Init ==
    /\ accounts = [i \in {} |-> <<>>] /\ owned = {} /\ watched = {} /\ wanted = [ids |-> {}, alone |-> TRUE] /\ drawn = 0
    /\ deleted = accounts /\ signed = {} /\ calls = [c \in Calls |-> Idle]

------------------------------------------------------------------------------
AddressesOf(ids) == {accounts[i] : i \in ids \cap DOMAIN accounts}
Goto(c, state) == calls' = [calls EXCEPT ![c] = state]
Finish(c) == Goto(c, Idle)

\* The account that the map of a source's accounts keeps for an index: the last one listed.
Kept(address) == Max({i \in DOMAIN accounts : accounts[i] = address})

Unmixed(of) == \A i, j \in DOMAIN of : i # j => of[i] # of[j]

\* createAccounts: lists the accounts, of which those of the source at the indexes asked for count.
List(c, source, indexes, type) ==
    LET seen == Range(accounts) \cap ({source} \X indexes)
    IN  /\ calls[c] = Idle /\ indexes # {}
        /\ type # "bip44:derive-index-range" => Cardinality(indexes) = 1
        /\ Goto(c, [pc |-> IF type = "bip44:discover" THEN "discover" ELSE "save", source |-> source,
                    indexes |-> indexes, seen |-> seen, found |-> {Kept(a) : a \in seen}])
        /\ UNCHANGED <<accounts, owned, watched, wanted, drawn, deleted, signed>>

\* hasOnChainActivity: without a transaction on any network nothing is created; a failing node fails the call.
Discover(c, outcome) ==
    /\ calls[c].pc = "discover"
    /\ IF outcome = "active" THEN Goto(c, [calls[c] EXCEPT !.pc = "save"]) ELSE Finish(c)
    /\ UNCHANGED <<accounts, owned, watched, wanted, drawn, deleted, signed>>

\* What setKeyWith makes of the accounts there are then: ids of its own for the addresses that were not listed.
merge(new) == [i \in DOMAIN accounts \cup DOMAIN new |-> IF i \in DOMAIN new THEN new[i] ELSE accounts[i]]

Save(c) ==
    LET call == calls[c]
        new  == ({call.source} \X call.indexes) \ call.seen
    IN  /\ call.pc = "save"
        /\ drawn + Cardinality(new) <= MaxIds
        /\ \E fresh \in [(drawn + 1)..(drawn + Cardinality(new)) -> new] :
             /\ Range(fresh) = new
             /\ accounts' = merge(fresh)
             /\ drawn' = drawn + Cardinality(new)
             /\ wanted' = [wanted EXCEPT !.alone = @ /\ Unmixed(merge(fresh))]
             /\ Goto(c, [pc |-> "created", ids |-> call.found \cup DOMAIN fresh])
        /\ UNCHANGED <<owned, watched, deleted, signed>>

\* The accounts are handed to the caller.
Answer(c) ==
    /\ calls[c].pc = "created"
    /\ Finish(c)
    /\ UNCHANGED <<accounts, owned, watched, wanted, drawn, deleted, signed>>

\* deleteAccount: the account, its transactions and its assets in one deleteKeys; its subscriptions stay.
deleteAccount(id) ==
    /\ Cardinality(DOMAIN deleted) < MaxDeletions /\ id \in DOMAIN accounts \cup owned
    /\ accounts' = [i \in DOMAIN accounts \ {id} |-> accounts[i]]
    /\ owned' = owned \ {id}
    /\ deleted' = [i \in DOMAIN deleted \cup ({id} \cap DOMAIN accounts) |->
                    IF i \in DOMAIN deleted THEN deleted[i] ELSE accounts[i]]
    /\ UNCHANGED <<watched, wanted, drawn, calls, signed>>

\* setSelectedAccounts refuses ids it does not find.
setSelectedAccounts(c, ids) ==
    /\ calls[c] = Idle /\ ids \subseteq DOMAIN accounts
    /\ Goto(c, [pc |-> "select", ids |-> ids])
    /\ wanted' = [ids |-> ids, alone |-> Unmixed(accounts) /\ \A d \in Calls : calls[d].pc \notin {"select", "watch"}]
    /\ UNCHANGED <<accounts, owned, watched, drawn, deleted, signed>>

\* setMonitoredAccounts reads the accounts and the subscriptions again, and compares.
setMonitoredAccounts(c) ==
    LET current == {i \in DOMAIN accounts : accounts[i] \in watched}
        chosen  == calls[c].ids
        start   == (DOMAIN accounts \cap chosen) \ current
    IN  /\ calls[c].pc = "select"
        /\ Goto(c, [pc |-> "watch", stop |-> AddressesOf(current \ chosen), start |-> start,
                    addresses |-> AddressesOf(start)])
        /\ UNCHANGED <<accounts, owned, watched, wanted, drawn, deleted, signed>>

\* Then it unsubscribes, subscribes, and synchronises the accounts it found, deleted since or not.
Watch(c) ==
    /\ calls[c].pc = "watch"
    /\ watched' = (watched \ calls[c].stop) \cup calls[c].addresses
    /\ owned' = owned \cup calls[c].start
    /\ Finish(c)
    /\ UNCHANGED <<accounts, wanted, drawn, deleted, signed>>

\* resolveAccountAddress: an account whose address is the one the request names; the client passes the
\* request on to it.
resolveAccountAddress(c, method, asked) ==
    /\ calls[c] = Idle
    /\ \E id \in DOMAIN accounts :
          /\ accounts[id] = asked
          /\ Goto(c, [pc |-> "resolved", method |-> method, id |-> id, asked |-> asked])
    /\ UNCHANGED <<accounts, owned, watched, wanted, drawn, deleted, signed>>

AskFor(c, id, method, asked, routed) ==
    Goto(c, [pc |-> "confirm", method |-> method, id |-> id, account |-> accounts[id], asked |-> asked, routed |-> routed])

\* submitRequest: the account exists, has the scope and the method, and the scopes agree; the user is asked.
submitRequest(c, id, method, asked) ==
    /\ calls[c] = Idle /\ id \in DOMAIN accounts
    /\ AskFor(c, id, method, asked, FALSE)
    /\ UNCHANGED <<accounts, owned, watched, wanted, drawn, deleted, signed>>

\* The request that was passed on: the account may be gone by then.
SubmitRouted(c) ==
    /\ calls[c].pc = "resolved"
    /\ IF calls[c].id \in DOMAIN accounts THEN AskFor(c, calls[c].id, calls[c].method, calls[c].asked, TRUE)
       ELSE Finish(c)
    /\ UNCHANGED <<accounts, owned, watched, wanted, drawn, deleted, signed>>

Confirm(c, agreed) ==
    /\ calls[c].pc = "confirm"
    /\ IF agreed THEN Goto(c, [calls[c] EXCEPT !.pc = "sign"]) ELSE Finish(c)
    /\ UNCHANGED <<accounts, owned, watched, wanted, drawn, deleted, signed>>

\* Only two of the methods compare the address they were asked to sign for with the account's.
validateAccountAddress(call) ==
    call.method \in {"signTransaction", "signMessage"} => call.asked = call.account

\* The keys are derived from the account as it was when the request came.
deriveSolanaKeypair(account) == account

Sign(c) ==
    LET call == calls[c]
    IN  /\ call.pc = "sign"
        /\ signed' = IF ~validateAccountAddress(call) THEN signed
                     ELSE {[method |-> call.method, asked |-> call.asked, account |-> call.account,
                            key |-> deriveSolanaKeypair(call.account), agreed |-> TRUE, routed |-> call.routed]}
        /\ Finish(c)
        /\ UNCHANGED <<accounts, owned, watched, wanted, drawn, deleted>>

\* The client asks for the key of an account that exists.
exportAccount(id) ==
    /\ id \in DOMAIN accounts
    /\ signed' = {[method |-> "exportAccount", asked |-> accounts[id], account |-> accounts[id],
                   key |-> deriveSolanaKeypair(accounts[id]), agreed |-> FALSE, routed |-> FALSE]}
    /\ UNCHANGED <<accounts, owned, watched, wanted, drawn, deleted, calls>>

Creating(c) ==
    \/ \E s \in Sources, x \in SUBSET Indexes,
          t \in {"bip44:derive-index", "bip44:derive-index-range", "bip44:discover"} : List(c, s, x, t)
    \/ \E o \in {"active", "none", "failed"} : Discover(c, o)
    \/ Save(c) \/ Answer(c)

Watching(c) ==
    \/ \E ids \in SUBSET Ids : setSelectedAccounts(c, ids)
    \/ setMonitoredAccounts(c) \/ Watch(c)

Signing(c) ==
    \/ \E m \in Methods, a \in Addresses : resolveAccountAddress(c, m, a)
    \/ SubmitRouted(c)
    \/ \E id \in Ids, m \in Methods, a \in Addresses : submitRequest(c, id, m, a)
    \/ \E b \in BOOLEAN : Confirm(c, b)
    \/ Sign(c)

Next ==
    \/ \E c \in Calls : Creating(c) \/ Watching(c) \/ Signing(c)
    \/ \E id \in Ids : deleteAccount(id) \/ exportAccount(id)

Spec == Init /\ [][Next]_keyringVars

------------------------------------------------------------------------------
\* An account leaves the state by deletion only, however the calls that create accounts overlap with
\* each other and with deletions: what createAccounts writes is merged under the lock into the
\* accounts there are then, so what it answers exists unless it was deleted (Keyring.ts:363).
AccountsStay ==
    /\ 1..drawn \subseteq DOMAIN accounts \cup DOMAIN deleted
    /\ \A c \in Calls : calls[c].pc = "created" => calls[c].ids \subseteq DOMAIN accounts \cup DOMAIN deleted

\* A selection that nothing overlapped ends with exactly the accounts it names being watched, among
\* those that exist, also when accounts were created or deleted while it ran: what a deletion leaves
\* behind concerns the deleted account only (setMonitoredAccounts). Two accounts with one address,
\* which overlapping calls can create, do stop each other's subscriptions.
SelectionHolds ==
    wanted.alone /\ (\A c \in Calls : calls[c].pc \notin {"select", "watch"}) =>
        /\ AddressesOf(wanted.ids) \subseteq watched
        /\ watched \subseteq AddressesOf(wanted.ids) \cup Range(deleted)

\* Transactions and messages are signed by the key of the address the request names, and that is the
\* address of the account the user was shown, also if the account is deleted and its index created
\* again between the question and the answer (submitRequest, validateAccountAddress). What came by way
\* of resolveAccountAddress is signed by the key of the address it names whatever the method.
SignedAsAsked ==
    \A s \in signed : /\ s.key = s.account
                      /\ s.agreed \/ s.method = "exportAccount"
                      /\ s.routed \/ s.method \in {"signTransaction", "signMessage"} => s.key = s.asked

==============================================================================
