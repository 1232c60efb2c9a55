----------------------------- MODULE HistoryPages -----------------------------
(***************************************************************************)
(* The client walks through the history of a Tron or a Stellar account     *)
(* page by page; a page ends with the id of the transaction the next one   *)
(* starts with, and the history changes between two pages. Tron starts     *)
(* where it finds the cursor; Stellar first asks whether it is a UUID, and *)
(* then whether it was found.                                              *)
(***************************************************************************)
EXTENDS Integers, Sequences, SequencesExt, FiniteSets

CONSTANTS
    Wallet,        \* whose code runs: "tron" or "stellar"
    Txs, Limit,    \* the size of a page
    Uuids,         \* cursors a client may make up: UUIDs, none of which is the id of a transaction, a hash
    MaxChanges     \* bound: changes of the history

HistoryPagesAssumption ==
    /\ Wallet \in {"tron", "stellar"} /\ IsFiniteSet(Txs) /\ IsFiniteSet(Uuids) /\ Txs \cap Uuids = {}
    /\ Limit \in Nat \ {0} /\ MaxChanges \in Nat

VARIABLES
    history,   \* the saved transactions, newest first
    next,      \* where the next page starts: a transaction, Start or Finished
    seen,      \* what the client was given, in this order
    refused,   \* the cursors that were refused, with the history there was
    kept,      \* transactions in the history since the walk began
    moved,     \* transactions that changed their place, or left, since the walk began
    derailed,  \* among them one that a page was to start with
    walked     \* changes so far, for the bound

pagesVars == <<history, next, seen, refused, kept, moved, derailed, walked>>

Start    == "start"
Finished == "finished"
Cursors  == Txs \cup Uuids \cup {Start}

TypeOK ==
    /\ history \in Seq(Txs) /\ next \in Txs \cup {Start, Finished} /\ seen \in Seq(Txs)
    /\ refused \subseteq [cursor : Cursors, history : SUBSET Txs]
    /\ kept \subseteq Txs /\ moved \subseteq Txs /\ derailed \in BOOLEAN /\ walked \in 0..MaxChanges

\* The id of a transaction is its hash.
Init ==
    /\ history \in SetToSeqs(Txs) \cup UNION {SetToSeqs(Txs \ {t}) : t \in Txs}
    /\ next = Start /\ seen = <<>> /\ refused = {}
    /\ kept = ToSet(history) /\ moved = {} /\ derailed = FALSE
    /\ walked = 0

\* ListAccountTransactionsRequestStruct of Stellar: a cursor is optional, and a UUID.
Valid(cursor) == Wallet = "stellar" => cursor \in {Start} \cup Uuids

\* findIndex, counted from 0; -1 when the transaction is gone.
findIndex(cursor) ==
    IF cursor = Start THEN 0
    ELSE IF cursor \in ToSet(history) THEN IndexFirstSubSeq(<<cursor>>, history) - 1 ELSE -1

\* Stellar throws for a cursor that is not found.
Served(cursor) == Valid(cursor) /\ (Wallet = "stellar" => findIndex(cursor) # -1)

\* slice(from, to): a negative end counts from the back.
slice(from, to) ==
    LET place(n) == IF n < 0 THEN (IF Len(history) + n > 0 THEN Len(history) + n ELSE 0) ELSE n
        last     == IF place(to) < Len(history) THEN place(to) ELSE Len(history)
    IN  SubSeq(history, place(from) + 1, last)

getAccountTransactions(cursor) ==
    /\ Served(cursor)
    /\ LET startIndex == findIndex(cursor)
           hasMore    == startIndex + Limit < Len(history)
       IN  /\ seen' = seen \o slice(startIndex, startIndex + Limit)
           /\ next' = IF hasMore THEN history[startIndex + Limit + 1] ELSE Finished
    /\ UNCHANGED <<history, refused, kept, moved, derailed, walked>>

Refuse(cursor) ==
    /\ ~Served(cursor)
    /\ refused' = refused \cup {[cursor |-> cursor, history |-> ToSet(history)]}
    /\ UNCHANGED <<history, next, seen, kept, moved, derailed, walked>>

\* A synchronisation finds a new transaction, gives one another time, or deletes the account's history.
Change ==
    /\ walked < MaxChanges
    /\ walked' = walked + 1
    /\ \/ /\ \E t \in Txs \ ToSet(history) : history' = <<t>> \o history
          /\ UNCHANGED <<kept, moved, derailed>>
       \/ \E i, j \in DOMAIN history :
            /\ i # j
            /\ history' = InsertAt(RemoveAt(history, i), j, history[i])
            /\ moved' = moved \cup {history[i]}
            /\ derailed' = (derailed \/ history[i] = next)
            /\ UNCHANGED kept
       \/ /\ history' = <<>>
          /\ kept' = {} /\ moved' = moved \cup ToSet(history) /\ derailed' = TRUE
    /\ UNCHANGED <<next, seen, refused>>

Next ==
    \/ \E cursor \in ({next} \ {Finished}) \cup Uuids : getAccountTransactions(cursor) \/ Refuse(cursor)
    \/ Change

Spec == Init /\ [][Next]_pagesVars

------------------------------------------------------------------------------
\* A walk that has ended gave the client every transaction that was there from its beginning, once, and
\* new ones pushed in between put nothing out of its place: only what moved itself, or the
\* transaction a page was to start with, can be missed or seen twice (getAccountTransactions).
WalkComplete ==
    next = Finished /\ ~derailed =>
        \A t \in kept \ moved : Cardinality({i \in DOMAIN seen : seen[i] = t}) = 1

\* A cursor is refused only if it does not match any transaction, as the test "throws when pagination cursor does not
\* match any transaction" has it; the cursor of a page that was just answered is served (getAccountTransactions of
\* Stellar).
MatchingCursorServed == \A r \in refused : r.cursor \notin r.history

==============================================================================
