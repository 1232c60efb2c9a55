-------------------------- MODULE OwnershipProofs --------------------------
(***************************************************************************)
(* The messages the four wallets sign without asking. Proofs of ownership  *)
(* come one at a time and in batches: a batch finds its accounts whatever  *)
(* the case of their ids, derives keys per entropy source, and puts each   *)
(* result back at the place of its item; what fails for one item or for    *)
(* one source must not reach the others. Messages for rewards and for the  *)
(* card come alone, and are signed for the address they hold.              *)
(***************************************************************************)
EXTENDS Integers, Sequences, SequencesExt, FiniteSets

CONSTANTS
    Wallet,             \* whose code runs: "solana", "tron", "bitcoin" or "stellar"
    Accounts, Source,   \* the accounts there are, and their entropy sources (parent paths, for Bitcoin)
    Names, Of,          \* the ids they are named by, in any case, and whom each means
    Longest, MaxFaults  \* bounds: the length of a batch, and how many things fail

OwnershipProofsAssumption ==
    /\ Wallet \in {"solana", "tron", "bitcoin", "stellar"}
    /\ IsFiniteSet(Accounts) /\ IsFiniteSet(Names) /\ {Longest, MaxFaults} \subseteq Nat
    /\ Of \in [Names -> Accounts \cup {"nobody"}] /\ DOMAIN Source = Accounts

VARIABLES
    batch,      \* the items or the message, and what fails: a source, the derivation of a key, or signing with it
    results     \* one result for each item

ownershipProofsVars == <<batch, results>>

\* An item: the id it names and the account whose address its message holds, if it can be parsed.
Item == [name : Names, message : Accounts \cup {"unreadable"}]

\* drifted accounts derive another address than the one stored; Bitcoin's unable ones lack the capability to
\* sign, and mute ones have a signer that throws.
Batch ==
    {b \in [items : BoundedSeq(Item, Longest), brokenSources : SUBSET {Source[a] : a \in Accounts},
            broken : SUBSET Accounts, drifted : SUBSET Accounts, mute : SUBSET Accounts,
            unable : IF Wallet = "bitcoin" THEN SUBSET Accounts ELSE {{}}] :
        MaxFaults >= Cardinality(b.brokenSources) + Cardinality(b.broken) + Cardinality(b.drifted)
                     + Cardinality(b.mute) + Cardinality(b.unable)}

\* A message for rewards is three parts between commas, one for the card a sentence of fields. Bitcoin's addresses can
\* be written in capitals too.
Written == Accounts \cup {"not an address"} \cup (IF Wallet = "bitcoin" THEN {"CAPITALS"} ELSE {})

Rewards ==
    [kind : {"rewards"}, name : Names, prefix : {"rewards", "other"}, address : Written,
     timestamp : {"whole", "zero", "decimal", "text"}, count : {2, 3, 4}, drifted : SUBSET Accounts, mute : {{}},
     broken : {{}}, brokenSources : {{}}, unable : {{}}]

Cards ==
    IF Wallet # "solana" THEN {}
    ELSE [kind : {"card"}, name : Names, sentence : BOOLEAN, address : Written, uri : {"url", "text"},
          issued : {"date", "text"}, expires : {"never", "date", "text"}, drifted : SUBSET Accounts, mute : {{}},
          broken : {{}}, brokenSources : {{}}, unable : {{}}]

Messages == IF Wallet = "stellar" THEN {} ELSE Rewards \cup Cards

NotYet == [ready |-> FALSE, of |-> <<>>]

Failure(why) == [error |-> why]
Signature(a) == [signedBy |-> a]
Failed(result) == "error" \in DOMAIN result

------------------------------------------------------------------------------
\* What every wallet does: parse the message, and compare its address with the account's.
parseProofOfOwnershipMessage(item) == item.message # "unreadable"

\* Why an item is not signed, of the accounts that were found.
Refusal(item, found) ==
    IF Of[item.name] \notin found THEN "Account not found"
    ELSE IF ~parseProofOfOwnershipMessage(item) THEN "unreadable"
    ELSE IF item.message # Of[item.name] THEN "does not match"
    ELSE "none"

\* The accounts are compared with the ids in lower case and come in the order of the state (Stellar: the same).
findByIds(items) == {Of[items[i].name] : i \in DOMAIN items} \cap Accounts

\* Bitcoin's come in the order of the ids.
getByIds(items) ==
    LET stored == SelectSeq(items, LAMBDA item : Of[item.name] \in Accounts)
    IN  ToSet([i \in DOMAIN stored |-> Of[stored[i].name]])

\* The places, in the batch, of the items that are signed.
signingRequestsMetadata(items, found) ==
    SelectSeq([i \in DOMAIN items |-> i], LAMBDA i : Refusal(items[i], found) = "none")

\* Requests by entropy source: a source that cannot be reached fails its requests, and theirs only.
Grouped(requests, source) == {k \in DOMAIN requests : Source[requests[k]] = source}

BySource(requests, One(_)) ==
    [k \in DOMAIN requests |->
        LET group == CHOOSE g \in {Grouped(requests, s) : s \in {Source[a] : a \in Accounts}} : k \in g
        IN  IF \E j \in group : Source[requests[j]] \in batch.brokenSources
            THEN Failure("Unable to derive private key") ELSE One(requests[k])]

------------------------------------------------------------------------------
\* Solana: the key is derived, and the signature looked for under the address of the account.
deriveSigningPrivateKey(a) == IF a \in batch.broken THEN "Unable to derive private key" ELSE "key"

signMessageWithPrivateKey(a) ==
    IF a \in batch.drifted \cup batch.mute THEN Failure("no signature") ELSE Signature(a)

signMessage(a) ==
    IF deriveSigningPrivateKey(a) # "key" THEN Failure(deriveSigningPrivateKey(a)) ELSE signMessageWithPrivateKey(a)

signMessages(requests) == BySource(requests, signMessage)

signProofOfOwnership(item) ==
    IF Refusal(item, Accounts) # "none" THEN Failure(Refusal(item, Accounts))
    ELSE IF Source[Of[item.name]] \in batch.brokenSources THEN Failure("Unable to derive private key")
    ELSE signMessage(Of[item.name])

------------------------------------------------------------------------------
\* Tron: the keypairs of all the accounts first, then one signature after the other. In a batch a keypair must have
\* the address of the account; alone, the address of the key is not looked at.
getUniqueAccountIds(items) == findByIds(items)

deriveTronKeypair(a) ==
    IF Source[a] \in batch.brokenSources \/ a \in batch.broken THEN Failure("Unable to derive private key")
    ELSE [address |-> IF a \in batch.drifted THEN "other" ELSE a]

deriveTronKeypairs(accounts) == [k \in DOMAIN accounts |-> deriveTronKeypair(accounts[k])]

SignWith(account, keypair) ==
    IF Failed(keypair) THEN keypair
    ELSE IF account \in batch.mute THEN Failure("Failed to sign message")
    ELSE Signature(keypair.address)

signWithKeypairs(requests) ==
    LET keypairs == deriveTronKeypairs(requests)
    IN  [k \in DOMAIN requests |->
            IF ~Failed(keypairs[k]) /\ keypairs[k].address # requests[k] THEN Failure("does not match")
            ELSE SignWith(requests[k], keypairs[k])]

signTronProof(item) ==
    IF Refusal(item, Accounts) # "none" THEN Failure(Refusal(item, Accounts))
    ELSE SignWith(Of[item.name], deriveTronKeypair(Of[item.name]))

------------------------------------------------------------------------------
\* Bitcoin: requests of accounts that may not sign fail before anything is derived; the key is a child of the
\* parent path's, and the signer refuses a key that is not the address's.
canSign(a) == a \notin batch.unable

signBitcoinMessageWithPrivateKey(a) ==
    IF a \in batch.drifted \cup batch.mute THEN Failure("Failed to sign message") ELSE Signature(a)

deriveProofSigningPrivateKey(a) == IF a \in batch.broken THEN "Unable to derive private key" ELSE "key"

signProofOfOwnershipMessages(requests) ==
    LET able == SelectSeq([k \in DOMAIN requests |-> k], LAMBDA k : canSign(requests[k]))
        One(a) == IF deriveProofSigningPrivateKey(a) # "key" THEN Failure(deriveProofSigningPrivateKey(a))
                  ELSE signBitcoinMessageWithPrivateKey(a)
        signed == BySource([n \in DOMAIN able |-> requests[able[n]]], One)
    IN  [k \in DOMAIN requests |->
            IF canSign(requests[k]) THEN signed[CHOOSE n \in DOMAIN able : able[n] = k]
            ELSE Failure("Missing capability")]

\* signMessage, for a proof: the capability, then the entropy at the account's own first address.
signBitcoinMessage(a) ==
    IF ~canSign(a) THEN Failure("Missing capability")
    ELSE IF a \in batch.broken \/ Source[a] \in batch.brokenSources THEN Failure("Failed to get private entropy")
    ELSE signBitcoinMessageWithPrivateKey(a)

signBitcoinProof(item) ==
    IF Refusal(item, Accounts) # "none" THEN Failure(Refusal(item, Accounts)) ELSE signBitcoinMessage(Of[item.name])

------------------------------------------------------------------------------
\* Stellar: a resolver of wallets for each source; the wallet at the account's index has its address.
getWalletResolver(a) == IF a \in batch.broken THEN "Unable to derive keypair at account index" ELSE "wallet"

signWithWallet(a) ==
    IF getWalletResolver(a) # "wallet" THEN Failure(getWalletResolver(a))
    ELSE IF a \in batch.drifted THEN Failure("does not match")
    ELSE IF a \in batch.mute THEN Failure("Failed to sign message")
    ELSE Signature(a)

signValidRequests(requests) == BySource(requests, signWithWallet)

\* The account is resolved with its wallet before its address is compared.
signStellarProof(item) ==
    IF Of[item.name] \notin Accounts THEN Failure("Account not found")
    ELSE IF Source[Of[item.name]] \in batch.brokenSources THEN Failure("Unable to derive keypair from entropy")
    ELSE IF Failed(signWithWallet(Of[item.name])) THEN signWithWallet(Of[item.name])
    ELSE IF item.message # Of[item.name] THEN Failure("does not match")
    ELSE signWithWallet(Of[item.name])

------------------------------------------------------------------------------
\* Messages for rewards: whole positive numbers only, although the pattern of numbers takes zero and decimals.
RewardsFormat(m) == m.prefix = "rewards" /\ m.count = 3 /\ m.timestamp \notin {"text", "decimal", "zero"}

parseRewardsMessage(m)     == RewardsFormat(m) /\ m.address \in Accounts
parseTronRewardsMessage(m) == RewardsFormat(m) /\ m.address \in Accounts

\* An address in capitals is an address, but not the account's as it is stored.
validateAddress(address) == address # "not an address"

parseCardMessage(m) ==
    m.sentence /\ m.address \in Accounts /\ m.uri = "url" /\ m.issued = "date" /\ m.expires # "text"

OwnAddress(m) == Of[m.name] \in Accounts /\ m.address = Of[m.name]

signRewardsMessage(m) ==
    IF parseRewardsMessage(m) /\ OwnAddress(m) THEN signMessage(Of[m.name]) ELSE Failure("Invalid params")

signCardMessage(m) ==
    IF parseCardMessage(m) /\ OwnAddress(m) THEN signMessage(Of[m.name]) ELSE Failure("Invalid params")

signTronRewardsMessage(m) ==
    IF parseTronRewardsMessage(m) /\ OwnAddress(m) THEN SignWith(Of[m.name], deriveTronKeypair(Of[m.name]))
    ELSE Failure("Invalid params")

signBitcoinRewardsMessage(m) ==
    IF RewardsFormat(m) /\ validateAddress(m.address) /\ OwnAddress(m) THEN signBitcoinMessage(Of[m.name])
    ELSE Failure("Validation")

SignMessage(m) ==
    IF m.kind = "card" THEN signCardMessage(m)
    ELSE CASE Wallet = "solana"  -> signRewardsMessage(m)
           [] Wallet = "tron"    -> signTronRewardsMessage(m)
           [] Wallet = "bitcoin" -> signBitcoinRewardsMessage(m)

------------------------------------------------------------------------------
Found(items) == IF Wallet = "bitcoin" THEN getByIds(items) ELSE findByIds(items)

SignAll(requests) ==
    CASE Wallet = "solana"  -> signMessages(requests)
      [] Wallet = "tron"    -> signWithKeypairs(requests)
      [] Wallet = "bitcoin" -> signProofOfOwnershipMessages(requests)
      [] Wallet = "stellar" -> signValidRequests(requests)

SignOne(item) ==
    CASE Wallet = "solana"  -> signProofOfOwnership(item)
      [] Wallet = "tron"    -> signTronProof(item)
      [] Wallet = "bitcoin" -> signBitcoinProof(item)
      [] Wallet = "stellar" -> signStellarProof(item)

\* A fault to compare with: the k-th message goes to the k-th place, refused items and all.
PlaceInOrder(places, k) == k

\* Each signed message goes to the place its request came from.
Place(places, k) == places[k]

signProofOfOwnershipBatch(items) ==
    LET found    == Found(items)
        places   == signingRequestsMetadata(items, found)
        messages == SignAll([k \in DOMAIN places |-> Of[items[places[k]].name]])
        placed   == {Place(places, k) : k \in DOMAIN places}
    IN  [i \in DOMAIN items |->
            IF i \in placed THEN messages[CHOOSE k \in DOMAIN places : Place(places, k) = i]
            ELSE Failure(Refusal(items[i], found))]

Answer ==
    /\ ~results.ready
    /\ results' = [ready |-> TRUE,
                   of |-> IF "kind" \in DOMAIN batch THEN SignMessage(batch) ELSE signProofOfOwnershipBatch(batch.items)]
    /\ UNCHANGED batch

Init == batch \in Batch \cup Messages /\ results = NotYet
Next == Answer

------------------------------------------------------------------------------
\* A batch signs, at the place of each item, exactly when the item alone would have got the same signature by the
\* account it names over that account's address, whatever its neighbours, the entropy sources and the order of
\* the accounts are (signProofOfOwnershipBatch of the four wallets).
BatchIsSingles ==
    results.ready /\ "kind" \notin DOMAIN batch =>
        /\ DOMAIN results.of = DOMAIN batch.items
        /\ \A i \in DOMAIN results.of :
             LET item   == batch.items[i]
                 single == SignOne(item)
             IN  IF single = Signature(item.message) THEN Of[item.name] = item.message /\ results.of[i] = single
                 ELSE Failed(results.of[i])

\* A message for rewards or for the card is signed by nobody but the account whose address it holds, unless Tron's
\* derivation of the key has changed, which its handler does not look at (#handleSignRewardsMessage).
MessagesAreOwn ==
    results.ready /\ "kind" \in DOMAIN batch /\ ~Failed(results.of) =>
        /\ results.of = Signature(batch.address) \/ (Wallet = "tron" /\ batch.address \in batch.drifted)
        /\ Of[batch.name] = batch.address

==============================================================================
