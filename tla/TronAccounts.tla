---------------------------- MODULE TronAccounts ----------------------------
(***************************************************************************)
(* The Tron accounts: ranges of indices are created idempotently by calls  *)
(* that overlap, and accounts are deleted while such a call is under way.  *)
(* A call reads the accounts there are, derives the missing ones and       *)
(* merges them in one update of the state, in which the first one saved    *)
(* for an index wins. Requests are served meanwhile: the address a site    *)
(* names is resolved, the account is looked up again, the user is asked,   *)
(* and the key of the account that was looked up signs.                    *)
(***************************************************************************)
EXTENDS Integers, FiniteSets

CONSTANTS
    Sources, Calls, MaxIndex,
    MaxIds,        \* bound: the random ids that are drawn
    MaxDeletions   \* bound: deletions

TronAccountsAssumption ==
    /\ IsFiniteSet(Sources) /\ Sources # {} /\ IsFiniteSet(Calls) /\ MaxIndex \in Nat
    /\ MaxIds \in Nat /\ MaxDeletions \in Nat

VARIABLES
    accounts,   \* keyringAccounts in the state
    calls,      \* the createAccounts calls
    drawn,      \* how many ids were drawn
    deleted,    \* ids of deleted accounts
    request     \* the request of a site: step, address, account, method, owner of the transaction, answer

accountsVars == <<accounts, calls, drawn, deleted>>

Indices == 0..MaxIndex
Account == [id : 1..MaxIds, entropySource : Sources, index : Indices]
Kinds   == {"range", "derive", "discover"}
Address == [entropySource : Sources, index : Indices]
Nobody  == [id |-> 0, entropySource |-> CHOOSE s \in Sources : TRUE, index |-> 0]
NoCall  == [pc |-> "none", entropySource |-> CHOOSE s \in Sources : TRUE, from |-> 0, to |-> 0,
            all |-> {}, result |-> {}]

TypeOK ==
    /\ accounts \subseteq Account
    /\ calls \in [Calls -> [pc : {"none", "discovering", "reading", "deriving", "merging", "answered"},
                            entropySource : Sources, from : Indices, to : Indices,
                            all : SUBSET Account, result : SUBSET Account]]
    /\ drawn \in 0..MaxIds /\ deleted \subseteq 1..MaxIds

\* The address of an account is the one its key has.
AddressOf(account) == [entropySource |-> account.entropySource, index |-> account.index]

ServingTypeOK ==
    request \in [pc : {"none", "resolved", "confirming", "signing", "answered"}, address : Address,
                    account : Account \cup {Nobody}, method : {"none", "signMessage", "signTransaction", "export"},
                    owner : Address, agreed : BOOLEAN,
                    answer : {"none", "signed", "exported", "unknown", "method", "malformed", "rejected", "owner", "failed"}]

Init ==
    /\ accounts = {} /\ calls = [c \in Calls |-> NoCall] /\ drawn = 0 /\ deleted = {}
    /\ request = [pc |-> "none", address |-> AddressOf(Nobody), account |-> Nobody, method |-> "none",
                  owner |-> AddressOf(Nobody), agreed |-> FALSE, answer |-> "none"]

InRange(call) == {a \in Account : a.entropySource = call.entropySource /\ a.index \in call.from..call.to}
Missing(call) == {i \in call.from..call.to : ~\E a \in call.all : a.index = i}

------------------------------------------------------------------------------
\* One index counts as a range of one.
CreateAccounts(c, kind, source, from, to) ==
    /\ calls[c].pc = "none"
    /\ from <= to /\ (kind # "range" => from = to)
    /\ calls' = [calls EXCEPT ![c] =
            [NoCall EXCEPT !.pc = IF kind = "discover" THEN "discovering" ELSE "reading",
                           !.entropySource = source, !.from = from, !.to = to]]
    /\ UNCHANGED <<accounts, drawn, deleted>>

\* An address without activity on any network is not created.
Discover(c, active) ==
    /\ calls[c].pc = "discovering"
    /\ calls' = [calls EXCEPT ![c].pc = IF active THEN "reading" ELSE "answered"]
    /\ UNCHANGED <<accounts, drawn, deleted>>

findByEntropySourceAndRange(c) ==
    /\ calls[c].pc = "reading"
    /\ calls' = [calls EXCEPT ![c].pc = "deriving", ![c].all = accounts \cap InRange(calls[c])]
    /\ UNCHANGED <<accounts, drawn, deleted>>

\* A new id for each missing index; when nothing is missing the call is answered.
DeriveMissing(c) ==
    /\ calls[c].pc = "deriving"
    /\ LET missing == Missing(calls[c])
           new(i)  == [id |-> drawn + 1 + Cardinality({k \in missing : k < i}),
                       entropySource |-> calls[c].entropySource, index |-> i]
       IN  IF missing = {}
           THEN /\ calls' = [calls EXCEPT ![c].pc = "answered", ![c].result = calls[c].all]
                /\ UNCHANGED drawn
           ELSE /\ drawn + Cardinality(missing) <= MaxIds
                /\ drawn' = drawn + Cardinality(missing)
                /\ calls' = [calls EXCEPT ![c].pc = "merging",
                                          ![c].all = calls[c].all \cup {new(i) : i \in missing}]
    /\ UNCHANGED <<accounts, deleted>>

\* A fault to compare with: accounts are merged by their ids only.
mergeById(existing, incoming) == existing \cup incoming

mergeAccountsWithoutIndexConflicts(existing, incoming) ==
    existing \cup {a \in incoming : ~\E e \in existing : e.entropySource = a.entropySource /\ e.index = a.index}

New(c) == {a \in calls[c].all : a.id \notin {b.id : b \in accounts} \cup deleted}

\* One update of the state; the answer takes what the state has for each index of the range.
mergeKeyringAccounts(c) ==
    /\ calls[c].pc = "merging"
    /\ LET merged == mergeAccountsWithoutIndexConflicts(accounts, New(c))
           inside == merged \cap InRange(calls[c])
           kept   == {a \in calls[c].all : ~\E b \in inside : b.index = a.index}
       IN  /\ accounts' = merged
           /\ calls' = [calls EXCEPT ![c].pc = "answered", ![c].result = inside \cup kept]
    /\ UNCHANGED <<drawn, deleted>>

deleteAccount(a) ==
    /\ a \in accounts
    /\ Cardinality(deleted) < MaxDeletions
    /\ accounts' = accounts \ {a}
    /\ deleted' = deleted \cup {a.id}
    /\ UNCHANGED <<calls, drawn>>

Changing ==
    \/ \E c \in Calls, kind \in Kinds, source \in Sources, from, to \in Indices :
          CreateAccounts(c, kind, source, from, to)
    \/ \E c \in Calls, active \in BOOLEAN : Discover(c, active)
    \/ \E c \in Calls : findByEntropySourceAndRange(c)
    \/ \E c \in Calls : DeriveMissing(c)
    \/ \E c \in Calls : mergeKeyringAccounts(c)
    \/ \E a \in accounts : deleteAccount(a)

------------------------------------------------------------------------------
Answered(answer) == [request EXCEPT !.pc = "answered", !.answer = answer]

\* The address a site names is that of an account; the client remembers which.
resolveAccountAddress(address) ==
    /\ request.pc = "none"
    /\ LET found == {a \in accounts : AddressOf(a) = address}
       IN  request' = IF found = {} THEN [Answered("unknown") EXCEPT !.address = address]
                      ELSE [request EXCEPT !.pc = "resolved", !.address = address, !.account = CHOOSE a \in found : TRUE]

\* The account is looked up again, by its id: it may be gone. What the site asks for must be something
\* accounts do, and a transaction must be of the right shape.
submitRequest(method, owner, wellFormed) ==
    /\ request.pc = "resolved"
    /\ request' = IF request.account \notin accounts THEN Answered("unknown")
                  ELSE IF method \notin {"signMessage", "signTransaction"} THEN Answered("method")
                  ELSE IF ~wellFormed THEN Answered("malformed")
                  ELSE [request EXCEPT !.pc = "confirming", !.method = method, !.owner = owner]

handleConfirmation(agreed) ==
    /\ request.pc = "confirming"
    /\ request' = IF agreed THEN [request EXCEPT !.pc = "signing", !.agreed = TRUE] ELSE Answered("rejected")

signMessage(fails) ==
    /\ request.pc = "signing" /\ request.method = "signMessage"
    /\ request' = Answered(IF fails THEN "failed" ELSE "signed")

\* The key must be that of the owner the transaction names.
signTransaction(fails) ==
    /\ request.pc = "signing" /\ request.method = "signTransaction"
    /\ request' = Answered(IF fails THEN "failed"
                           ELSE IF request.owner # AddressOf(request.account) THEN "owner" ELSE "signed")

\* The client asks for the key of an account.
exportAccount(fails) ==
    /\ request.pc = "resolved"
    /\ request' = [Answered(IF request.account \notin accounts THEN "unknown" ELSE IF fails THEN "failed" ELSE "exported")
                     EXCEPT !.method = "export"]

Serving ==
    \/ \E address \in Address : resolveAccountAddress(address)
    \/ \E method \in {"signMessage", "signTransaction", "other"}, owner \in Address, wellFormed \in BOOLEAN :
          (method = "signTransaction" \/ owner = request.address) /\ submitRequest(method, owner, wellFormed)
    \/ \E agreed \in BOOLEAN : handleConfirmation(agreed)
    \/ \E fails \in BOOLEAN : signMessage(fails)
    \/ \E fails \in BOOLEAN : signTransaction(fails)
    \/ \E fails \in BOOLEAN : exportAccount(fails)

Next ==
    \/ Changing /\ UNCHANGED request
    \/ Serving /\ UNCHANGED accountsVars

Spec == Init /\ [][Next]_<<accountsVars, request>>

------------------------------------------------------------------------------
\* However calls overlap, no index of a source has two accounts and no id is used twice.
OneAccountPerIndex ==
    \A a, b \in accounts : (a.entropySource = b.entropySource /\ a.index = b.index) \/ a.id = b.id => a = b

\* The answer of a call has one account for each index of its range, and each is in the state unless
\* it was deleted: a call that lost the race for an index answers with the winner's account.
AnswerIsSaved ==
    \A c \in Calls : calls[c].pc = "answered" /\ calls[c].result # {} =>
        /\ \A i \in calls[c].from..calls[c].to : Cardinality({a \in calls[c].result : a.index = i}) = 1
        /\ \A a \in calls[c].result : a \in accounts \/ a.id \in deleted

\* A key is used only for the account whose address the site named and which the snap has, or had when
\* it was looked up; what is signed the user agreed to, and a transaction is one of that account:
\* neither a deletion nor the creation of the same account anew in between changes that.
SignedForTheNamed ==
    request.answer \in {"signed", "exported"} =>
        /\ AddressOf(request.account) = request.address
        /\ request.account \in accounts \/ request.account.id \in deleted
        /\ request.answer = "signed" => request.agreed
        /\ request.method = "signTransaction" => request.owner = request.address

==============================================================================
